\* Every call comes back, under the fairness of the runtime.
CONSTANTS
  k1 = k1
  k2 = k2
  o1 = o1
  o2 = o2
  o3 = o3
  s1 = s1
  s2 = s2
  None = None
  Keys = {k1}
  Operations = {o1}
  Payloads = {p1}
  Capabilities = {cA, cB}
  Scopes = {s1}
  Calls = {x1, x2}
  KeyOf <- OneKey
  ScopeOf <- OneScope
  TTL = 1
  MaxTime = 1
  MaxVersion = 0
  ToolIsIdempotent = TRUE
  ContentVerified = TRUE
  CallersSerialize = FALSE
SPECIFICATION FairSpec
PROPERTIES
  OnlyLookupsHang
  CallsReturn
\* every one of the finitely many calls has returned
CHECK_DEADLOCK FALSE
