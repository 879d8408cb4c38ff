-------------------------- MODULE MCExecutionGateway --------------------------
(***************************************************************************)
(* Instances of ExecutionGateway for TLC: operations that share one key  *)
(* and one scope (a client that resubmits), or a third operation with a    *)
(* key and a scope of its own.                                             *)
(***************************************************************************)
EXTENDS ExecutionGateway, TLC

CONSTANTS k1, k2, o1, o2, o3, s1, s2

OneKey == [o \in Operations |-> k1]
OneScope == [o \in Operations |-> s1]

TwoKeys == [o \in Operations |-> IF o = o3 THEN k2 ELSE k1]
TwoScopes == [o \in Operations |-> IF o = o3 THEN s2 ELSE s1]

(* Calls, capabilities and payloads are interchangeable. *)
Symmetric == Permutations(Calls) \cup Permutations(Capabilities)
               \cup Permutations(Payloads)

=============================================================================
