\* Callers do not overlap executions of a key; the tool forgets.
CONSTANTS
  k1 = k1
  k2 = k2
  o1 = o1
  o2 = o2
  o3 = o3
  s1 = s1
  s2 = s2
  None = None
  Keys = {k1, k2}
  Operations = {o1, o2, o3}
  Payloads = {p1}
  Capabilities = {cA, cB}
  Scopes = {s1, s2}
  Calls = {x1, x2, x3}
  KeyOf <- TwoKeys
  ScopeOf <- TwoScopes
  TTL = 1
  MaxTime = 1
  MaxVersion = 1
  ToolIsIdempotent = FALSE
  ContentVerified = FALSE
  CallersSerialize = TRUE
SYMMETRY Symmetric
SPECIFICATION Spec
INVARIANTS
  AtMostOneExecution
  VerifiedProjectionIsTrue
PROPERTIES
  KeepsThePromise
\* every one of the finitely many calls has returned
CHECK_DEADLOCK FALSE
