\* Calls on one key overlap in any way; the tool is idempotent.
CONSTANTS
  k1 = k1
  k2 = k2
  o1 = o1
  o2 = o2
  o3 = o3
  s1 = s1
  s2 = s2
  None = None
  Keys = {k1}
  Operations = {o1, o2}
  Payloads = {p1, p2}
  Capabilities = {cA, cB}
  Scopes = {s1}
  Calls = {x1, x2, x3}
  KeyOf <- OneKey
  ScopeOf <- OneScope
  TTL = 1
  MaxTime = 1
  MaxVersion = 1
  ToolIsIdempotent = TRUE
  ContentVerified = TRUE
  CallersSerialize = FALSE
SYMMETRY Symmetric
SPECIFICATION Spec
INVARIANTS
  TypeOK
  CapabilityStartsOneExecution
  AtMostOneEffect
  SuccessReflectsEffect
  OutcomeNamesItsExecution
  OutcomeIsAudited
PROPERTIES
  NoBlindRetry
  SingleExecutionKeepsOutcome
  EffectWithinAuthority
  ExecutesWithinAuthority
\* every one of the finitely many calls has returned
CHECK_DEADLOCK FALSE
