----------------------------- MODULE ToolAdapter -----------------------------
(***************************************************************************)
(* The tool behind an AdapterPort: where the side effect happens.          *)
(*                                                                         *)
(* The repository's adapters keep two maps.  byIdempotencyKey makes        *)
(* execute idempotent: the first call under a key creates the ticket,      *)
(* message or refund, a repetition with the same payload gets the same     *)
(* receipt, one with another payload throws.  byOperationId is what        *)
(* lookup() answers from.  ToolIsIdempotent = FALSE is the tool the        *)
(* OperationStore is written for, one that remembers nothing about prior   *)
(* calls and performs the effect on every execute.                         *)
(*                                                                         *)
(* `created` counts side effects per key: it is what the outside world     *)
(* has seen, and no code reads it.                                         *)
(***************************************************************************)
EXTENDS Naturals, OperationTypes

CONSTANT ToolIsIdempotent   \* does execute remember the keys it has seen?

ASSUME ToolAssumption == ToolIsIdempotent \in BOOLEAN

VARIABLES
  byIdempotencyKey,   \* per key: the payload the effect was performed with
  byOperationId,      \* per operation id: the payload of its receipt
  created             \* per key: how many side effects there have been

toolVars == <<byIdempotencyKey, byOperationId, created>>

ToolTypeOK ==
  /\ byIdempotencyKey \in [Keys -> Payloads \cup {None}]
  /\ byOperationId \in [Operations -> Payloads \cup {None}]
  /\ created \in [Keys -> Nat]

ToolInit ==
  /\ byIdempotencyKey = [k \in Keys |-> None]
  /\ byOperationId = [o \in Operations |-> None]
  /\ created = [k \in Keys |-> 0]

(* A receipt names the key and carries the content of the effect it proves.
   A receipt for nothing, or for something else, has key None here. *)
Receipts == [key : Keys \cup {None}, payload : Payloads \cup {None}]

NoReceipt == [key |-> None, payload |-> None]

-----------------------------------------------------------------------------

(* The idempotency map refuses a key it has seen with another payload. *)
PayloadMismatch(o, p) ==
  /\ ToolIsIdempotent
  /\ byIdempotencyKey[KeyOf[o]] \notin {p, None}

\* Mutant: the tool's idempotency map is consulted but never written.
PerformForgetting(o, p) ==
  /\ byOperationId' = [byOperationId EXCEPT ![o] = p]
  /\ created' = [created EXCEPT ![KeyOf[o]] = @ + 1]
  /\ byIdempotencyKey' = byIdempotencyKey

(* The rest of execute(): the effect, unless the key already had it, and the
   entry under THIS call's operation id either way. *)
Perform(o, p) ==
  LET k == KeyOf[o] IN
  /\ byOperationId' = [byOperationId EXCEPT ![o] = p]
  /\ IF ToolIsIdempotent /\ byIdempotencyKey[k] # None
       THEN UNCHANGED <<byIdempotencyKey, created>>
       ELSE /\ byIdempotencyKey' = [byIdempotencyKey EXCEPT ![k] = p]
            /\ created' = [created EXCEPT ![k] = @ + 1]

ReceiptFor(o, p) == [key |-> KeyOf[o], payload |-> p]

=============================================================================
