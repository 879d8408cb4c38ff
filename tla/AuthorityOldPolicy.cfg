\* The policy changes between an approval and its use.
CONSTANTS
  Runs = {r1}
  Inputs <- MessageOnly
  Approvals = {a1}
  Handlers = {h1}
  None = none
  ApprovalTTL = 1
  MaxTime = 1
  MaxPolicy = 1
SPECIFICATION Spec
PROPERTIES
  PolicyChangeInvalidatesPending
\* the system may stop here as in AuthoritySafe.cfg
CHECK_DEADLOCK FALSE
