\* One tab, one run, as in ControlRoom.cfg.
CONSTANTS
  Runs = {r1}
  TTL = 1
  MaxTime = 1
  MaxVersion = 5
  MaxEvents = 20
  None = none
  MaxRequests = 4
SPECIFICATION Spec
INVARIANTS
  VerifiedPanelAgrees
\* the requests are bounded
CHECK_DEADLOCK FALSE
