\* One tab, two runs, four requests by the tab and by other clients.
\* The server's own bounds are never met.
CONSTANTS
  Runs = {r1, r2}
  TTL = 1
  MaxTime = 1
  MaxVersion = 5
  MaxEvents = 20
  None = none
  MaxRequests = 4
SPECIFICATION FairSpec
INVARIANTS
  TypeOK
  KnownOrBehind
  OfferedIsAccepted
  ShownClaimsHold
  PanelsDoNotOverstate
PROPERTIES
  ViewsNeverGoBack
  BusyEnds
\* the requests are bounded
CHECK_DEADLOCK FALSE
