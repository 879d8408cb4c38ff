--------------------------- MODULE OperationOutcome ---------------------------
(***************************************************************************)
(* What the gateway promises about one idempotency key, with nothing of    *)
(* how: the outside world sees the effect at most once; what the gateway   *)
(* reports starts undecided, may become "unknown_outcome", and, once it is *)
(* definite, stays.  "succeeded" is only said of an effect that happened,  *)
(* "failed" only of one that has not happened and never will.              *)
(***************************************************************************)
EXTENDS Naturals

CONSTANT Keys

VARIABLES effects,   \* per key: how often the side effect happened
          outcome    \* per key: what has been recorded

outcomeVars == <<effects, outcome>>

OutcomeInit ==
  /\ effects = [k \in Keys |-> 0]
  /\ outcome = [k \in Keys |-> "none"]

(* The effect may come before its outcome is known, or after the gateway has
   given up waiting for it. *)
Happen(k) ==
  /\ effects[k] = 0
  /\ outcome[k] \in {"none", "unknown_outcome"}
  /\ effects' = [effects EXCEPT ![k] = 1]
  /\ UNCHANGED outcome

Decide(k, from, to) ==
  /\ outcome[k] \in from
  /\ outcome' = [outcome EXCEPT ![k] = to]
  /\ UNCHANGED effects

GiveUp(k) == Decide(k, {"none"}, "unknown_outcome")

Succeed(k) == effects[k] = 1 /\ Decide(k, {"none", "unknown_outcome"}, "succeeded")

Fail(k) == effects[k] = 0 /\ Decide(k, {"none"}, "failed")

(* The effect and its outcome, seen as one step. *)
HappenAndSucceed(k) ==
  /\ effects[k] = 0
  /\ outcome[k] = "none"
  /\ effects' = [effects EXCEPT ![k] = 1]
  /\ outcome' = [outcome EXCEPT ![k] = "succeeded"]

OutcomeNext ==
  \E k \in Keys :
    Happen(k) \/ GiveUp(k) \/ Succeed(k) \/ Fail(k) \/ HappenAndSucceed(k)

OutcomeSpec == OutcomeInit /\ [][OutcomeNext]_outcomeVars

=============================================================================
