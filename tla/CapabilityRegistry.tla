-------------------------- MODULE CapabilityRegistry --------------------------
(***************************************************************************)
(* Capabilities and the registry that makes them single-use.               *)
(*                                                                         *)
(* mintCapability builds a capability bound to one scope with an expiry;   *)
(* CapabilityRegistry.record remembers it; validateCapability is the pure  *)
(* check that the object a caller presents is unexpired and in scope; and  *)
(* CapabilityRegistry.consume is the stateful check that it is known and   *)
(* has not been used.  The object handed to the caller keeps status        *)
(* "active" for ever: consume replaces the registry's copy, never the      *)
(* caller's.  That is why the presented object's status never rejects      *)
(* anything here.  One that was never minted stands for what does not      *)
(* parse, one that was never recorded for any that only looks like a       *)
(* capability (another process's registry, another nonce).                 *)
(*                                                                         *)
(* The clock is a counter of coarse ticks that stops at MaxTime.  Plan     *)
(* hash and resource version, which checkPreconditions compares one after  *)
(* the other with the same consequence, are one counter: `version`.        *)
(***************************************************************************)
EXTENDS Naturals, OperationTypes

CONSTANTS
  Scopes,         \* (principal, action type, resource, proposal hash) tuples
  TTL,            \* capped time to live of a capability, in ticks
  MaxTime,        \* bound: the clock stops there
  MaxVersion      \* bound: how often the plan or the resource may change

ASSUME RegistryAssumption ==
  /\ TTL \in Nat \ {0}
  /\ MaxTime \in Nat
  /\ MaxVersion \in Nat
  /\ None \notin Scopes

VARIABLES
  now,        \* what clock.now() answers
  version,    \* the current plan hash and resource version
  registry    \* per capability: the registry's copy and the minted fields

registryVars == <<now, version, registry>>

CapabilityStatus == {"unminted", "unrecorded", "active", "consumed"}

CapabilityRecord ==
  [status : CapabilityStatus, expiresAt : Nat, scope : Scopes \cup {None},
   expected : Nat]

Unminted == [status |-> "unminted", expiresAt |-> 0, scope |-> None, expected |-> 0]

RegistryTypeOK ==
  /\ now \in 0..MaxTime
  /\ version \in 0..MaxVersion
  /\ registry \in [Capabilities -> CapabilityRecord]

RegistryInit ==
  /\ now = 0
  /\ version = 0
  /\ registry = [c \in Capabilities |-> Unminted]

-----------------------------------------------------------------------------
(* Steps of the environment: time passes, the world drifts. *)

Tick ==
  /\ now < MaxTime
  /\ now' = now + 1
  /\ UNCHANGED <<version, registry>>

(* Another process edits the plan or the resource a proposal was bound to. *)
Drift ==
  /\ version < MaxVersion
  /\ version' = version + 1
  /\ UNCHANGED <<now, registry>>

-----------------------------------------------------------------------------

(* mintCapability.  The proposal it is minted for may already be stale: v is
   the version that was current when the proposal was made. *)
Mint(c, s, v) ==
  /\ registry[c].status = "unminted"
  /\ v <= version
  /\ registry' = [registry EXCEPT ![c] = [status |-> "unrecorded", scope |-> s,
                                         expiresAt |-> now + TTL, expected |-> v]]
  /\ UNCHANGED <<now, version>>

(* CapabilityRegistry.record, by whoever has called mintCapability. *)
Register(c) ==
  /\ registry[c].status = "unrecorded"
  /\ registry' = [registry EXCEPT ![c].status = "active"]
  /\ UNCHANGED <<now, version>>

(* parseAndValidateCapability on the caller's (still "active") object at clock
   t; one that was never minted has expired always. *)
Usable(c, scope, t) ==
  /\ t < registry[c].expiresAt
  /\ registry[c].scope = scope

(* checkPreconditions: plan hash and resource version unchanged. *)
Fresh(c) == registry[c].expected = version

(* Known to the registry, and not used. *)
Consumable(c) == registry[c].status = "active"

\* Mutant: consume answers from the copy it read and stores nothing.
ConsumeWithoutStoring(c) ==
  /\ Consumable(c)
  /\ registry' = registry

(* CapabilityRegistry.consume succeeding: test and set in one call. *)
Consume(c) ==
  /\ Consumable(c)
  /\ registry' = [registry EXCEPT ![c].status = "consumed"]

=============================================================================
