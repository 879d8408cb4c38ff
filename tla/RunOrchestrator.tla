--------------------------- MODULE RunOrchestrator ---------------------------
(***************************************************************************)
(* The demo server's orchestrator: the life of a run, driven by HTTP       *)
(* requests, by one timer (the execution budget) and by one slow tool.     *)
(*                                                                         *)
(* Every run has an operation id, an idempotency key, an adapter, an       *)
(* OperationStore and an AuditLedger of its own.  The message adapter and  *)
(* every lookup() answer without leaving the microtask queue, and the      *)
(* runtime drains that queue before the next request or timer, so a        *)
(* request handler is one action here, all the way through executeAction   *)
(* and applyExecutionResult.  The exception is SlowTicketAdapter.execute:  *)
(* its handler stops at the race, and is resumed by the budget's timer,    *)
(* which is due before the tool's own.                                     *)
(*                                                                         *)
(* Requests the handlers refuse with NOT_FOUND, UNKNOWN_SCENARIO or        *)
(* INVALID_STATE change nothing and are left out.                          *)
(***************************************************************************)
EXTENDS Naturals, RunStateMachine, LedgerProjection

CONSTANTS
  Runs,        \* run ids
  TTL,         \* lifetime of a capability (60 s), in ticks
  MaxTime,     \* bound: the clock stops there
  MaxVersion,  \* bound: the resource drifts up to this version
  MaxEvents    \* bound: requests stop when a run's ledger is this long

ASSUME OrchestratorAssumption ==
  /\ TTL \in Nat \ {0}
  /\ MaxTime \in Nat
  /\ MaxVersion \in Nat \ {0}
  /\ MaxEvents \in Nat

VARIABLES
  now,    \* the server's clock
  runs    \* AppState.runs

vars == <<now, runs>>

(* Nothing tells "replay" runs from "approval" ones, and only what the client
   is offered tells "stale" ones from them (views.ts). *)
ApprovalScenarios == {"approval", "stale"}
Scenarios == ApprovalScenarios \cup {"blocked", "unknown_outcome"}

(* What executeAction returned: a stage, or a success's reason code. *)
Results == {"none", "capability", "precondition", "adapter", "postcondition",
            "idempotency", "unknown_outcome", "reconciliation_required",
            "success", "IDEMPOTENT_REPLAY", "RECONCILED_SUCCESS"}

RunRecord ==
  [scenario : Scenarios \cup {"none"},
   state : RunStates,
   versionNow : 1..MaxVersion,       \* the proposal is bound to version 1
   capability : {"none", "active", "consumed"},
   expiresAt : 0..(MaxTime + TTL),
   outcome : {"none", "unknown_outcome", "succeeded", "failed"},
   tool : {"idle", "sleeping", "performed", "threw"},
   callCount : Nat,                  \* of CountingAdapter
   events : Seq(AuditEventTypes),
   execution : Results,              \* RunRecord.execution
   answer : {"none", "200", "500"}]  \* to the last accepted request

NotCreated ==
  [scenario |-> "none", state |-> "PROPOSED", versionNow |-> 1,
   capability |-> "none", expiresAt |-> 0, outcome |-> "none", tool |-> "idle",
   callCount |-> 0, events |-> <<>>, execution |-> "none", answer |-> "none"]

TypeOK ==
  /\ now \in 0..MaxTime
  /\ runs \in [Runs -> RunRecord]

Init == now = 0 /\ runs = [r \in Runs |-> NotCreated]

-----------------------------------------------------------------------------
(* The state machine, as the orchestrator drives it.                        *)

Logged(run, events) == [run EXCEPT !.events = @ \o events]

(* mustTransition throws when there is no edge: Illegal, which no edge leaves,
   is where a run goes whose handler has thrown. *)
MustTransition(state, trigger) == Transition(state, trigger)

(* The transition that takes two triggers, by way of EXECUTING. *)
Executed(state, trigger) ==
  MustTransition(MustTransition(state, "fresh_preconditions"), trigger)

(* The state that applyExecutionResult gives a run for a result. *)
StateAfter(state, result) ==
  CASE result = "RECONCILED_SUCCESS" -> MustTransition(state, "lookup_confirms_success")
    [] result \in {"success", "IDEMPOTENT_REPLAY"} ->
         IF state = "AUTHORIZED" THEN Executed(state, "postcondition_pass") ELSE state
    [] result = "precondition" -> MustTransition(state, "plan_or_resource_changed")
    [] result = "unknown_outcome" -> Executed(state, "timeout_transport_ambiguity")
    [] result = "reconciliation_required" -> MustTransition(state, "lookup_inconclusive")
    [] result = "postcondition" -> Executed(state, "deterministic_tool_failure")
    [] OTHER -> state       \* capability, idempotency, adapter

\* Mutant: a refused transition is not thrown.
ConcludedUnthrown(run, result) ==
  [run EXCEPT !.state = StateAfter(run.state, result),
              !.execution = result, !.answer = "200"]

(* applyExecutionResult and what executeForRun does after it.  When it throws
   the run keeps its state and its last summary, and the request is answered
   with an internal error; what executeAction did is not undone. *)
Concluded(run, result) ==
  LET next == StateAfter(run.state, result) IN
  IF next = Illegal THEN [run EXCEPT !.answer = "500"]
  ELSE [run EXCEPT !.state = next, !.execution = result, !.answer = "200"]

-----------------------------------------------------------------------------
(* executeAction on the run's own store, adapter and ledger, up to the end   *)
(* of the microtask queue.                                                   *)

Expired(run) == now >= run.expiresAt

(* A new operation.  The message adapter performs, and its receipt passes. *)
MessageSent(run) ==
  Concluded(Logged([run EXCEPT !.capability = "consumed", !.callCount = @ + 1,
                               !.tool = "performed", !.outcome = "succeeded"],
                   <<"EXECUTION_STARTED", "POSTCONDITION_VERIFIED">>),
            "success")

(* The slow tool has been called; the handler awaits the race. *)
TicketRequested(run) ==
  Logged([run EXCEPT !.capability = "consumed", !.callCount = @ + 1,
                     !.tool = "sleeping"],
         <<"EXECUTION_STARTED">>)

Started(run) ==
  IF run.capability = "consumed" THEN Concluded(run, "capability")
  ELSE IF run.scenario = "unknown_outcome" THEN TicketRequested(run)
  ELSE MessageSent(run)

\* Mutant: an operation whose outcome is unknown is started again.
ReconciledByExecuting(run) == TicketRequested(run)

\* Mutant: an answered lookup is taken for a confirmation.
ReconciledTrusting(run) ==
  Concluded(Logged([run EXCEPT !.outcome = "succeeded"],
                   <<"POSTCONDITION_VERIFIED">>), "RECONCILED_SUCCESS")

(* reconcileDuplicate: lookup() finds what the tool has performed. *)
Reconciled(run) ==
  IF run.tool = "performed"
    THEN Concluded(Logged([run EXCEPT !.outcome = "succeeded"],
                          <<"POSTCONDITION_VERIFIED">>), "RECONCILED_SUCCESS")
    ELSE Concluded(Logged(run, <<"RECONCILIATION_REQUIRED">>),
                   "reconciliation_required")

(* What check() finds under the key decides. *)
Dispatched(run) ==
  CASE run.outcome = "succeeded" ->
         Concluded(Logged(run, <<"DUPLICATE_REPLAY_DETECTED">>), "IDEMPOTENT_REPLAY")
    [] run.outcome = "failed" -> Concluded(run, "adapter")
    [] run.outcome = "unknown_outcome" -> Reconciled(run)
    [] OTHER -> Started(run)

\* Mutant: an unexpired capability is trusted, the resource is not read again.
ExecuteUnchecked(run) ==
  IF Expired(run) THEN Concluded(run, "capability") ELSE Dispatched(run)

Execute(run) ==
  IF Expired(run) THEN Concluded(run, "capability")
  ELSE IF run.versionNow # 1
    THEN Concluded(Logged(run, <<"PRECONDITION_FAILED">>), "precondition")
  ELSE Dispatched(run)

(* authorizeAndExecute: mint, audit, record, execute. *)
AuthorizeAndExecute(run) ==
  Execute(Logged([run EXCEPT !.capability = "active", !.expiresAt = now + TTL],
                 <<"CAPABILITY_MINTED">>))

-----------------------------------------------------------------------------
(* The request handlers.                                                     *)

Update(r, run) == runs' = [runs EXCEPT ![r] = run] /\ UNCHANGED now

(* createRun up to the policy's verdict. *)
Proposed(scenario, verdict) ==
  Logged([NotCreated EXCEPT !.scenario = scenario,
                            !.state = MustTransition(MustTransition("PROPOSED", "schema_pass"), verdict),
                            !.answer = "200"],
         <<"MODEL_PROPOSAL_RECORDED", "POLICY_DECISION">>)

CreateDenied(r) ==
  /\ runs[r].scenario = "none"
  /\ Update(r, Proposed("blocked", "policy_deny"))

CreateForApproval(r, scenario) ==
  /\ runs[r].scenario = "none"
  /\ Update(r, Proposed(scenario, "high_risk"))

CreateAllowed(r) ==
  /\ runs[r].scenario = "none"
  /\ Update(r, AuthorizeAndExecute(Proposed("unknown_outcome", "low_risk_policy_allow")))

Accepts(r, states) ==
  /\ runs[r].scenario # "none"
  /\ runs[r].state \in states
  /\ Len(runs[r].events) < MaxEvents

SimulateDrift(r) ==
  /\ Accepts(r, {"APPROVAL_REQUIRED"})
  /\ runs[r].versionNow < MaxVersion
  /\ Update(r, [runs[r] EXCEPT !.versionNow = @ + 1, !.answer = "200"])

\* Mutant: the run is authorized and executed, the approval is filed later.
ApproveAfterwards(r) ==
  /\ Accepts(r, {"APPROVAL_REQUIRED"})
  /\ Update(r, Logged(AuthorizeAndExecute([runs[r] EXCEPT !.state = "AUTHORIZED"]),
                      <<"APPROVAL_CONSUMED">>))

(* approveRun builds the approval it consumes, so consuming cannot fail. *)
ApproveRun(r) ==
  /\ Accepts(r, {"APPROVAL_REQUIRED"})
  /\ Update(r, AuthorizeAndExecute(Logged(
       [runs[r] EXCEPT !.state = MustTransition(@, "matching_approval")],
       <<"APPROVAL_CONSUMED">>)))

ReplayRun(r) ==
  /\ Accepts(r, {"VERIFIED"})
  /\ runs[r].capability # "none"
  /\ Update(r, Execute(runs[r]))

ReconcileRun(r) ==
  /\ Accepts(r, {"UNKNOWN_OUTCOME", "RECONCILIATION_REQUIRED"})
  /\ runs[r].capability # "none"
  /\ Update(r, Execute(runs[r]))

(* verifyRunLedger: an untouched chain verifies; the check itself is logged. *)
VerifyRunLedger(r) ==
  /\ Accepts(r, RunStates)
  /\ Update(r, Logged([runs[r] EXCEPT !.answer = "200"], <<"AUDIT_INTEGRITY_CHECKED">>))

-----------------------------------------------------------------------------
(* Timers and the tool.                                                      *)

(* The execution budget runs out. *)
TimeOut(r) ==
  /\ runs[r].tool = "sleeping"
  /\ runs[r].outcome = "none"
  /\ Update(r, Concluded(Logged([runs[r] EXCEPT !.outcome = "unknown_outcome"],
                                <<"EXECUTION_UNKNOWN">>), "unknown_outcome"))

(* SlowTicketAdapter wakes up and calls the inner execute, which checks the
   capability's expiry against the clock of that moment.  Nobody awaits it. *)
SlowToolPerforms(r) ==
  /\ runs[r].tool = "sleeping"
  /\ runs[r].outcome # "none"
  /\ ~ Expired(runs[r])
  /\ Update(r, [runs[r] EXCEPT !.tool = "performed"])

SlowToolThrows(r) ==
  /\ runs[r].tool = "sleeping"
  /\ runs[r].outcome # "none"
  /\ Expired(runs[r])
  /\ Update(r, [runs[r] EXCEPT !.tool = "threw"])

Tick ==
  /\ now < MaxTime
  /\ now' = now + 1
  /\ UNCHANGED runs

Next ==
  \/ Tick
  \/ \E r \in Runs :
       \/ CreateDenied(r)
       \/ \E scenario \in ApprovalScenarios : CreateForApproval(r, scenario)
       \/ CreateAllowed(r)
       \/ SimulateDrift(r)
       \/ ApproveRun(r)
       \/ ReplayRun(r)
       \/ ReconcileRun(r)
       \/ VerifyRunLedger(r)
       \/ TimeOut(r)
       \/ SlowToolPerforms(r)
       \/ SlowToolThrows(r)

Spec == Init /\ [][Next]_vars

-----------------------------------------------------------------------------
(* Correctness.                                                             *)

Pipeline == <<"proposal", "policy", "approval", "capability", "execution", "verification">>

InOrder(events) ==
  \A i, j \in DOMAIN Pipeline :
    i < j /\ {Pipeline[i], Pipeline[j]} \subseteq StagesSeen(events) =>
      SeenBefore(events, Pipeline[i], Pipeline[j])

(* The stages that a run's own ledger shows come in the pipeline's order, none
   before one it rests on, and the tool is never even called but for a run
   whose ledger shows a minted capability and, unless policy allowed it
   outright, a human's approval before that. *)
CallsAreAuthorized ==
  \A r \in Runs :
    LET stages == StagesSeen(runs[r].events) IN
    /\ InOrder(runs[r].events)
    /\ runs[r].callCount > 0 =>
         /\ {"capability", "execution"} \subseteq stages
         /\ runs[r].scenario # "unknown_outcome" => "approval" \in stages

(* A resource that drifted while its approval was pending is not acted on:
   the run ends as STALE with its tool untouched. *)
DriftStopsExecution ==
  \A r \in Runs : runs[r].versionNow # 1 =>
    /\ runs[r].callCount = 0
    /\ runs[r].state \in {"APPROVAL_REQUIRED", "STALE"}

(* However often a run is replayed, reconciled or times out, its adapter's
   execute is called once. *)
ExecutesOnce == \A r \in Runs : runs[r].callCount <= 1

(* What the client is told is VERIFIED happened in the tool. *)
VerifiedIsReal ==
  \A r \in Runs :
    runs[r].state = "VERIFIED" \/ runs[r].outcome = "succeeded" =>
      runs[r].tool = "performed"

(* The state of a run can be read off its ledger: each state a request can
   observe goes with these projections and no other. *)
LedgerFollowsState ==
  \A r \in Runs : LET final == ProjectOperation(runs[r].events) IN
    CASE runs[r].state \in {"DENIED", "APPROVAL_REQUIRED"} -> final = "POLICY_DECIDED"
      [] runs[r].state = "AUTHORIZED" -> final = "EXECUTING"
      [] runs[r].state = "STALE" -> final = "FAILED"
      [] runs[r].state \in {"VERIFIED", "UNKNOWN_OUTCOME"} -> final = runs[r].state
      [] runs[r].state = "RECONCILIATION_REQUIRED" ->
           \/ final = "RECONCILIATION_REQUIRED"
           \/ final = "VERIFIED" /\ runs[r].outcome = "succeeded"
      [] OTHER -> final = "NO_EVENTS"

(* The capability of a run that was executed has lapsed. *)
Lapsed(run) == run.capability # "none" /\ run.state # "AUTHORIZED" /\ Expired(run)

(* A run at an end of the diagram stays there, whatever timer, late effect or
   request still comes.  So does a run whose capability has lapsed, with what
   its store holds of the operation: expiry is checked before the store, no
   handler mints again, and an outcome that is unknown by then stays so. *)
EndedRunsStay ==
  [][\A r \in Runs :
       /\ IsTerminal(runs[r].state) \/ Lapsed(runs[r]) => runs'[r].state = runs[r].state
       /\ Lapsed(runs[r]) => runs'[r].outcome = runs[r].outcome]_vars

(* However requests, timers and the slow tool interleave, each run's operation
   gets what OperationOutcome promises of a key: what the run's store says is
   final and true of what the tool has done. *)
Promise == INSTANCE OperationOutcome WITH
  Keys <- Runs,
  effects <- [r \in Runs |-> IF runs[r].tool = "performed" THEN 1 ELSE 0],
  outcome <- [r \in Runs |-> runs[r].outcome]
RunsKeepThePromise == Promise!OutcomeSpec

-----------------------------------------------------------------------------
(* What the repository says of the orchestrator and the code does not do.   *)

(* orchestrator.ts: every transition it asks for is certain to be legal. *)
TransitionsAreLegal == \A r \in Runs : runs[r].answer # "500"

=============================================================================
