\* Two proposals, two approvals and two handlers that submit any of them; one
\* change of policy.
CONSTANTS
  Runs = {r1, r2}
  Inputs <- RuleInputs
  Approvals = {a1, a2}
  Handlers = {h1, h2}
  None = none
  ApprovalTTL = 1
  MaxTime = 2
  MaxPolicy = 1
SYMMETRY Symmetric
SPECIFICATION Spec
INVARIANTS
  TypeOK
  CapabilityHasAuthority
  ApprovalIsSingleUse
  ApprovalServesItsRun
  OneCapabilityPerRun
  PolicyFollowsItsRules
PROPERTIES
  SpentApprovalsStay
\* every run may be settled, every approval spent and the clock at its end
CHECK_DEADLOCK FALSE
