---------------------------- MODULE OperationTypes ----------------------------
(***************************************************************************)
(* The identities every part of the gateway speaks about: an operation id  *)
(* (AdapterOperation.operationId) is always used with one idempotency key, *)
(* several operation ids may share a key (a client that resubmits), and a  *)
(* payload stands for the hash of the call's parameters.                   *)
(***************************************************************************)

CONSTANTS
  Keys,           \* idempotency keys
  Operations,     \* operation ids
  Payloads,       \* payload hashes
  Capabilities,   \* capability ids, each minted at most once
  KeyOf,          \* the key an operation id is used with
  None            \* the absent value

ASSUME IdentityAssumption ==
  /\ KeyOf \in [Operations -> Keys]
  /\ None \notin Keys \cup Operations \cup Payloads \cup Capabilities

=============================================================================
