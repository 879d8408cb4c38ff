---------------------------- MODULE OperationStore ----------------------------
(***************************************************************************)
(* The gateway's own idempotency bookkeeping: what outcome, if any, has    *)
(* been recorded under an idempotency key.  check() reads it, record()     *)
(* overwrites it without looking at what was there.  The second map, by    *)
(* operation id, only serves the introspection method lookup() and is      *)
(* left out.                                                               *)
(***************************************************************************)
EXTENDS OperationTypes

VARIABLE store    \* per key: the recorded outcome, "none" before the first

OutcomeStates == {"none", "unknown_outcome", "succeeded", "failed"}

Definite == {"succeeded", "failed"}

StoreTypeOK ==
  store \in [Keys -> [state : OutcomeStates,
                      op : Operations \cup {None},
                      cap : Capabilities \cup {None},
                      payload : Payloads \cup {None}]]

NoRecord == [state |-> "none", op |-> None, cap |-> None, payload |-> None]

StoreInit == store = [k \in Keys |-> NoRecord]

\* Mutant: an operation whose outcome is unknown may simply be tried again.
CheckRetryingUnknown(k, p) ==
  IF store[k].state \in {"none", "unknown_outcome"} THEN "new"
  ELSE IF store[k].payload # p THEN "conflict" ELSE "duplicate"

(* OperationStore.check *)
Check(k, p) ==
  IF store[k].state = "none" THEN "new"
  ELSE IF store[k].payload # p THEN "conflict" ELSE "duplicate"

\* Mutant: two string arguments swapped.
RecordSwapped(o, c, p, state) ==
  store' = [store EXCEPT ![KeyOf[o]] =
              [state |-> state, op |-> c, cap |-> o, payload |-> p]]

(* OperationStore.record *)
Record(o, c, p, state) ==
  store' = [store EXCEPT ![KeyOf[o]] =
              [state |-> state, op |-> o, cap |-> c, payload |-> p]]

=============================================================================
