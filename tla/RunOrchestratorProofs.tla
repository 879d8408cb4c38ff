------------------------ MODULE RunOrchestratorProofs ------------------------
(***************************************************************************)
(* Theorems of RunOrchestrator, for any number of runs, any lifetime of a  *)
(* capability and any bounds.                                              *)
(***************************************************************************)
EXTENDS RunOrchestrator, LedgerProjectionProofs

(* The parts of the constants' assumptions the proofs use. *)
LEMMA Constants == TTL \in Nat \ {0} /\ MaxTime \in Nat /\ MaxVersion \in Nat \ {0}
BY OrchestratorAssumption

-----------------------------------------------------------------------------
(* The state machine's table.                                               *)

LEMMA OnlyEdge ==
  ASSUME NEW state, NEW trigger, NEW next,
         <<state, trigger, next>> \in TransitionTable,
         \A edge \in TransitionTable :
           edge[1] = state /\ edge[2] = trigger => edge[3] = next
  PROVE  Transition(state, trigger) = next
<1> DEFINE edge == <<state, trigger, next>>
<1>1. edge[1] = state /\ edge[2] = trigger /\ edge[3] = next
  OBVIOUS
<1> HIDE DEF edge
<1>2. edge \in TransitionTable
  BY DEF edge
<1>3. TargetsOf(state, trigger) = {next}
  BY <1>1, <1>2 DEF TargetsOf
<1> QED
  BY <1>3 DEF Transition

(* The edges the orchestrator takes, and the ones it asks for in vain. *)
LEMMA Edges ==
  /\ Transition("PROPOSED", "schema_pass") = "VALIDATED"
  /\ Transition("VALIDATED", "policy_deny") = "DENIED"
  /\ Transition("VALIDATED", "high_risk") = "APPROVAL_REQUIRED"
  /\ Transition("VALIDATED", "low_risk_policy_allow") = "AUTHORIZED"
  /\ Transition("APPROVAL_REQUIRED", "matching_approval") = "AUTHORIZED"
  /\ Transition("AUTHORIZED", "fresh_preconditions") = "EXECUTING"
  /\ Transition("AUTHORIZED", "plan_or_resource_changed") = "STALE"
  /\ Transition("EXECUTING", "postcondition_pass") = "VERIFIED"
  /\ Transition("EXECUTING", "timeout_transport_ambiguity") = "UNKNOWN_OUTCOME"
  /\ Transition("UNKNOWN_OUTCOME", "lookup_confirms_success") = "VERIFIED"
  /\ Transition("UNKNOWN_OUTCOME", "lookup_inconclusive") = "RECONCILIATION_REQUIRED"
  /\ \A trigger \in {"lookup_confirms_success", "lookup_inconclusive"} :
       Transition("RECONCILIATION_REQUIRED", trigger) = Illegal
<1>1. Transition("PROPOSED", "schema_pass") = "VALIDATED"
  BY OnlyEdge DEF TransitionTable
<1>2. Transition("VALIDATED", "policy_deny") = "DENIED"
  BY OnlyEdge DEF TransitionTable
<1>3. Transition("VALIDATED", "high_risk") = "APPROVAL_REQUIRED"
  BY OnlyEdge DEF TransitionTable
<1>4. Transition("VALIDATED", "low_risk_policy_allow") = "AUTHORIZED"
  BY OnlyEdge DEF TransitionTable
<1>5. Transition("APPROVAL_REQUIRED", "matching_approval") = "AUTHORIZED"
  BY OnlyEdge DEF TransitionTable
<1>6. Transition("AUTHORIZED", "fresh_preconditions") = "EXECUTING"
  BY OnlyEdge DEF TransitionTable
<1>7. Transition("AUTHORIZED", "plan_or_resource_changed") = "STALE"
  BY OnlyEdge DEF TransitionTable
<1>8. Transition("EXECUTING", "postcondition_pass") = "VERIFIED"
  BY OnlyEdge DEF TransitionTable
<1>9. Transition("EXECUTING", "timeout_transport_ambiguity") = "UNKNOWN_OUTCOME"
  BY OnlyEdge DEF TransitionTable
<1>10. Transition("UNKNOWN_OUTCOME", "lookup_confirms_success") = "VERIFIED"
  BY OnlyEdge DEF TransitionTable
<1>11. Transition("UNKNOWN_OUTCOME", "lookup_inconclusive") = "RECONCILIATION_REQUIRED"
  BY OnlyEdge DEF TransitionTable
<1>12. ASSUME NEW trigger PROVE Transition("RECONCILIATION_REQUIRED", trigger) = Illegal
  <2>1. TargetsOf("RECONCILIATION_REQUIRED", trigger) = {}
    BY DEF TargetsOf, TransitionTable
  <2> QED
    BY <2>1 DEF Transition
<1> QED
  BY <1>1, <1>2, <1>3, <1>4, <1>5, <1>6, <1>7, <1>8, <1>9, <1>10, <1>11, <1>12

-----------------------------------------------------------------------------
(* A run's ledger, by what it projects to and the stages it shows.          *)

Ledgered(events, final, stages) ==
  /\ events \in Seq(AuditEventTypes) /\ events # <<>>
  /\ InOrder(events)
  /\ ProjectOperation(events) = final
  /\ StagesSeen(events) = stages

FinalAfter(final, e) == IF e \in DOMAIN FinalStateOf THEN FinalStateOf[e] ELSE final

StagesAfter(stages, e) ==
  stages \cup (IF e \in DOMAIN StageOf THEN {StageOf[e]} ELSE {})

(* An event may show a stage for the first time if no later one was seen. *)
Fits(e, stages) ==
  e \in DOMAIN StageOf /\ StageOf[e] \notin stages =>
    \A i, j \in DOMAIN Pipeline :
      Pipeline[i] = StageOf[e] /\ i < j => Pipeline[j] \notin stages

LEMMA LedgeredAppend ==
  ASSUME NEW events, NEW final, NEW stages, Ledgered(events, final, stages),
         NEW e \in AuditEventTypes, Fits(e, stages)
  PROVE  Ledgered(Append(events, e), FinalAfter(final, e), StagesAfter(stages, e))
<1> DEFINE longer == Append(events, e)
<1>1. events \in Seq(AuditEventTypes) /\ events # <<>>
  BY DEF Ledgered
<1>2. longer \in Seq(AuditEventTypes) /\ longer # <<>>
  BY <1>1, AppendedEvents
<1>3. ProjectOperation(longer) = FinalAfter(final, e)
  BY <1>1, ProjectionOfAppended DEF Ledgered, FinalAfter
<1>4. /\ StagesSeen(longer) = StagesAfter(stages, e)
      /\ \A a, b : SeenBefore(events, a, b) => SeenBefore(longer, a, b)
      /\ \A a \in stages, b \in Stages \ stages : SeenBefore(longer, a, b)
  <2>1. stages = StagesSeen(events)
    BY DEF Ledgered
  <2> QED
    BY <1>1, <2>1, StagesOfAppended DEF StagesAfter
<1>5. InOrder(longer)
  <2> HIDE DEF longer
  <2>1. SUFFICES ASSUME NEW i \in DOMAIN Pipeline, NEW j \in DOMAIN Pipeline, i < j,
                        {Pipeline[i], Pipeline[j]} \subseteq StagesAfter(stages, e)
                 PROVE  SeenBefore(longer, Pipeline[i], Pipeline[j])
    BY <1>4 DEF InOrder
  <2>2. /\ Pipeline[i] \in Stages /\ Pipeline[j] \in Stages /\ Pipeline[i] # Pipeline[j]
    BY <2>1 DEF Pipeline, Stages
  <2>3. CASE Pipeline[i] \in stages /\ Pipeline[j] \in stages
    BY <1>4, <2>1, <2>3 DEF Ledgered, InOrder
  <2>4. CASE Pipeline[i] \in stages /\ Pipeline[j] \notin stages
    BY <1>4, <2>2, <2>4
  <2>5. CASE Pipeline[i] \notin stages
    BY <2>1, <2>2, <2>5 DEF Fits, StagesAfter
  <2> QED
    BY <2>3, <2>4, <2>5
<1> QED
  BY <1>2, <1>3, <1>4, <1>5 DEF Ledgered

(* The two events of createRun. *)
LEMMA LedgeredProposal ==
  Ledgered(Append(Append(<<>>, "MODEL_PROPOSAL_RECORDED"), "POLICY_DECISION"),
           "POLICY_DECIDED", {"proposal", "policy"})
<1> DEFINE one == Append(<<>>, "MODEL_PROPOSAL_RECORDED")
<1>1. /\ "MODEL_PROPOSAL_RECORDED" \in AuditEventTypes /\ "POLICY_DECISION" \in AuditEventTypes
      /\ "MODEL_PROPOSAL_RECORDED" \in DOMAIN FinalStateOf
      /\ FinalStateOf["MODEL_PROPOSAL_RECORDED"] = "PROPOSED"
      /\ "POLICY_DECISION" \in DOMAIN FinalStateOf
      /\ FinalStateOf["POLICY_DECISION"] = "POLICY_DECIDED"
      /\ "MODEL_PROPOSAL_RECORDED" \in DOMAIN StageOf
      /\ StageOf["MODEL_PROPOSAL_RECORDED"] = "proposal"
      /\ "POLICY_DECISION" \in DOMAIN StageOf /\ StageOf["POLICY_DECISION"] = "policy"
  BY DEF AuditEventTypes, FinalStateOf, StageOf
<1>2. <<>> \in Seq(AuditEventTypes) /\ StagesSeen(<<>>) = {}
  BY DEF StagesSeen, Positions
<1>3. one \in Seq(AuditEventTypes) /\ one # <<>>
  BY <1>1, <1>2, AppendedEvents
<1>4. ProjectOperation(one) = "PROPOSED"
  BY <1>1, <1>2, ProjectionOfAppended
<1>5. StagesSeen(one) = {"proposal"}
  BY <1>1, <1>2, StagesOfAppended
<1>6. Ledgered(one, "PROPOSED", {"proposal"})
  <2>1. ASSUME NEW i \in DOMAIN Pipeline, NEW j \in DOMAIN Pipeline, i < j
        PROVE  ~ ({Pipeline[i], Pipeline[j]} \subseteq {"proposal"})
    BY <2>1 DEF Pipeline
  <2> QED
    BY <1>3, <1>4, <1>5, <2>1 DEF Ledgered, InOrder
<1>7. Fits("POLICY_DECISION", {"proposal"})
  BY <1>1 DEF Fits, Pipeline
<1>8. Ledgered(Append(one, "POLICY_DECISION"), "POLICY_DECIDED", {"proposal", "policy"})
  <2> HIDE DEF one
  <2>1. FinalAfter("PROPOSED", "POLICY_DECISION") = "POLICY_DECIDED"
    BY <1>1 DEF FinalAfter
  <2>2. StagesAfter({"proposal"}, "POLICY_DECISION") = {"proposal", "policy"}
    BY <1>1 DEF StagesAfter
  <2> QED
    BY <1>1, <1>6, <1>7, <2>1, <2>2, LedgeredAppend
<1> QED
  BY <1>8

(* The other events, in the circumstances the orchestrator appends them in. *)
LEMMA LedgeredEvents ==
  ASSUME NEW events, NEW final, NEW stages, Ledgered(events, final, stages)
  PROVE  /\ stages = {"proposal", "policy"} =>
              Ledgered(Append(events, "APPROVAL_CONSUMED"), "APPROVED",
                       stages \cup {"approval"})
         /\ stages \subseteq {"proposal", "policy", "approval"} =>
              Ledgered(Append(events, "CAPABILITY_MINTED"), "CAPABILITY_MINTED",
                       stages \cup {"capability"})
         /\ stages \subseteq {"proposal", "policy", "approval", "capability"} =>
              /\ Ledgered(Append(events, "EXECUTION_STARTED"), "EXECUTING",
                          stages \cup {"execution"})
              /\ Ledgered(Append(events, "PRECONDITION_FAILED"), "FAILED",
                          stages \cup {"execution"})
         /\ "execution" \in stages =>
              Ledgered(Append(events, "DUPLICATE_REPLAY_DETECTED"), final, stages)
         /\ Ledgered(Append(events, "POSTCONDITION_VERIFIED"), "VERIFIED",
                     stages \cup {"verification"})
         /\ Ledgered(Append(events, "EXECUTION_UNKNOWN"), "UNKNOWN_OUTCOME",
                     stages \cup {"verification"})
         /\ Ledgered(Append(events, "RECONCILIATION_REQUIRED"), "RECONCILIATION_REQUIRED",
                     stages \cup {"verification"})
         /\ Ledgered(Append(events, "AUDIT_INTEGRITY_CHECKED"), final, stages)
<1>t. /\ \A e \in {"APPROVAL_CONSUMED", "CAPABILITY_MINTED", "EXECUTION_STARTED",
                    "PRECONDITION_FAILED", "POSTCONDITION_VERIFIED", "EXECUTION_UNKNOWN",
                    "RECONCILIATION_REQUIRED"} :
           e \in AuditEventTypes /\ e \in DOMAIN FinalStateOf /\ e \in DOMAIN StageOf
      /\ FinalStateOf["APPROVAL_CONSUMED"] = "APPROVED"
      /\ FinalStateOf["CAPABILITY_MINTED"] = "CAPABILITY_MINTED"
      /\ FinalStateOf["EXECUTION_STARTED"] = "EXECUTING"
      /\ FinalStateOf["PRECONDITION_FAILED"] = "FAILED"
      /\ FinalStateOf["POSTCONDITION_VERIFIED"] = "VERIFIED"
      /\ FinalStateOf["EXECUTION_UNKNOWN"] = "UNKNOWN_OUTCOME"
      /\ FinalStateOf["RECONCILIATION_REQUIRED"] = "RECONCILIATION_REQUIRED"
      /\ StageOf["APPROVAL_CONSUMED"] = "approval"
      /\ StageOf["CAPABILITY_MINTED"] = "capability"
      /\ StageOf["EXECUTION_STARTED"] = "execution"
      /\ StageOf["PRECONDITION_FAILED"] = "execution"
      /\ StageOf["POSTCONDITION_VERIFIED"] = "verification"
      /\ StageOf["EXECUTION_UNKNOWN"] = "verification"
      /\ StageOf["RECONCILIATION_REQUIRED"] = "verification"
  BY DEF AuditEventTypes, FinalStateOf, StageOf
<1>u. /\ \A e \in {"DUPLICATE_REPLAY_DETECTED", "AUDIT_INTEGRITY_CHECKED"} :
           e \in AuditEventTypes /\ e \notin DOMAIN FinalStateOf
      /\ "DUPLICATE_REPLAY_DETECTED" \in DOMAIN StageOf
      /\ StageOf["DUPLICATE_REPLAY_DETECTED"] = "execution"
      /\ "AUDIT_INTEGRITY_CHECKED" \notin DOMAIN StageOf
  BY DEF AuditEventTypes, FinalStateOf, StageOf
<1>s. ASSUME NEW e \in AuditEventTypes, e \in DOMAIN FinalStateOf, e \in DOMAIN StageOf,
             \A i, j \in DOMAIN Pipeline :
               Pipeline[i] = StageOf[e] /\ i < j => Pipeline[j] \notin stages
      PROVE  Ledgered(Append(events, e), FinalStateOf[e], stages \cup {StageOf[e]})
  <2>1. Fits(e, stages)
    BY <1>s DEF Fits
  <2>2. FinalAfter(final, e) = FinalStateOf[e] /\ StagesAfter(stages, e) = stages \cup {StageOf[e]}
    BY <1>s DEF FinalAfter, StagesAfter
  <2>3. Ledgered(Append(events, e), FinalAfter(final, e), StagesAfter(stages, e))
    BY <2>1, LedgeredAppend
  <2> QED
    BY <2>2, <2>3
<1>1. ASSUME stages = {"proposal", "policy"}
      PROVE  Ledgered(Append(events, "APPROVAL_CONSUMED"), "APPROVED", stages \cup {"approval"})
  <2>1. \A i, j \in DOMAIN Pipeline :
          Pipeline[i] = "approval" /\ i < j => Pipeline[j] \notin stages
    BY <1>1 DEF Pipeline
  <2> QED
    BY <1>t, <1>s, <2>1
<1>2. ASSUME stages \subseteq {"proposal", "policy", "approval"}
      PROVE  Ledgered(Append(events, "CAPABILITY_MINTED"), "CAPABILITY_MINTED",
                      stages \cup {"capability"})
  <2>1. \A i, j \in DOMAIN Pipeline :
          Pipeline[i] = "capability" /\ i < j => Pipeline[j] \notin stages
    BY <1>2 DEF Pipeline
  <2> QED
    BY <1>t, <1>s, <2>1
<1>3. ASSUME stages \subseteq {"proposal", "policy", "approval", "capability"}
      PROVE  /\ Ledgered(Append(events, "EXECUTION_STARTED"), "EXECUTING",
                         stages \cup {"execution"})
             /\ Ledgered(Append(events, "PRECONDITION_FAILED"), "FAILED",
                         stages \cup {"execution"})
  <2>1. \A i, j \in DOMAIN Pipeline :
          Pipeline[i] = "execution" /\ i < j => Pipeline[j] \notin stages
    BY <1>3 DEF Pipeline
  <2> QED
    BY <1>t, <1>s, <2>1
<1>4. ASSUME "execution" \in stages
      PROVE  Ledgered(Append(events, "DUPLICATE_REPLAY_DETECTED"), final, stages)
  <2> DEFINE e == "DUPLICATE_REPLAY_DETECTED"
  <2>1. Fits(e, stages)
    BY <1>4, <1>u DEF Fits
  <2>2. FinalAfter(final, e) = final /\ StagesAfter(stages, e) = stages
    BY <1>4, <1>u DEF FinalAfter, StagesAfter
  <2>3. Ledgered(Append(events, e), FinalAfter(final, e), StagesAfter(stages, e))
    BY <1>u, <2>1, LedgeredAppend
  <2> QED
    BY <2>2, <2>3
<1>5. \A i, j \in DOMAIN Pipeline : ~ (Pipeline[i] = "verification" /\ i < j)
  BY DEF Pipeline
<1>6. Ledgered(Append(events, "AUDIT_INTEGRITY_CHECKED"), final, stages)
  <2> DEFINE e == "AUDIT_INTEGRITY_CHECKED"
  <2>1. Fits(e, stages)
    BY <1>u DEF Fits
  <2>2. FinalAfter(final, e) = final /\ StagesAfter(stages, e) = stages
    BY <1>u DEF FinalAfter, StagesAfter
  <2>3. Ledgered(Append(events, e), FinalAfter(final, e), StagesAfter(stages, e))
    BY <1>u, <2>1, LedgeredAppend
  <2> QED
    BY <2>2, <2>3
<1>7. /\ Ledgered(Append(events, "POSTCONDITION_VERIFIED"), "VERIFIED",
                 stages \cup {"verification"})
      /\ Ledgered(Append(events, "EXECUTION_UNKNOWN"), "UNKNOWN_OUTCOME",
                 stages \cup {"verification"})
      /\ Ledgered(Append(events, "RECONCILIATION_REQUIRED"), "RECONCILIATION_REQUIRED",
                 stages \cup {"verification"})
  BY <1>t, <1>s, <1>5
<1> QED
  BY <1>1, <1>2, <1>3, <1>4, <1>6, <1>7

-----------------------------------------------------------------------------
(* The inductive invariant.  None of the properties is inductive alone: what*)
(* a handler does depends on what its guard does not mention, so a run's    *)
(* state has to be tied to its capability, its store, its tool, its last    *)
(* summary and its ledger.  A run is in one of these situations.            *)

Decided == {"proposal", "policy"}

Approval(run) == IF run.scenario = "unknown_outcome" THEN {} ELSE {"approval"}

(* Denied, or waiting for a human; a drift has no other effect yet. *)
IsDecided(run) ==
  /\ \/ run.scenario = "blocked" /\ run.state = "DENIED" /\ run.versionNow = 1
     \/ run.scenario \in ApprovalScenarios /\ run.state = "APPROVAL_REQUIRED"
  /\ run.capability = "none" /\ run.callCount = 0
  /\ run.outcome = "none" /\ run.tool = "idle"
  /\ run.execution = "none"
  /\ Ledgered(run.events, "POLICY_DECIDED", Decided)

(* Approved too late. *)
IsStale(run) ==
  /\ run.scenario \in ApprovalScenarios /\ run.state = "STALE"
  /\ run.capability = "active" /\ run.callCount = 0
  /\ run.outcome = "none" /\ run.tool = "idle"
  /\ run.execution = "precondition"
  /\ Ledgered(run.events, "FAILED", Decided \cup {"approval", "capability", "execution"})

(* Waiting for the slow tool. *)
IsExecuting(run) ==
  /\ run.scenario = "unknown_outcome" /\ run.state = "AUTHORIZED" /\ run.versionNow = 1
  /\ run.capability = "consumed" /\ run.callCount = 1
  /\ run.outcome = "none" /\ run.tool = "sleeping"
  /\ run.execution = "none"
  /\ Ledgered(run.events, "EXECUTING", Decided \cup {"capability", "execution"})

(* What has been executed and has an outcome, open or not. *)
IsExecuted(run, final) ==
  /\ run.versionNow = 1
  /\ run.capability = "consumed" /\ run.callCount = 1
  /\ Ledgered(run.events, final,
              Decided \cup Approval(run) \cup {"capability", "execution", "verification"})

IsVerified(run) ==
  /\ run.scenario \in ApprovalScenarios \cup {"unknown_outcome"} /\ run.state = "VERIFIED"
  /\ run.outcome = "succeeded" /\ run.tool = "performed"
  /\ run.execution \in {"success", "IDEMPOTENT_REPLAY", "RECONCILED_SUCCESS", "capability"}
  /\ IsExecuted(run, "VERIFIED")

(* The outcome is open, before a lookup was inconclusive or after. *)
IsUnknown(run) ==
  /\ run.scenario = "unknown_outcome"
  /\ \/ run.state = "UNKNOWN_OUTCOME" /\ run.execution \in {"unknown_outcome", "capability"}
     \/ /\ run.state = "RECONCILIATION_REQUIRED"
        /\ run.execution \in {"reconciliation_required", "capability"}
  /\ run.outcome = "unknown_outcome" /\ run.tool \in {"sleeping", "performed", "threw"}
  /\ IsExecuted(run, run.state)

(* The store has learned of the success, the run's state could not. *)
IsOverdue(run) ==
  /\ run.scenario = "unknown_outcome" /\ run.state = "RECONCILIATION_REQUIRED"
  /\ run.outcome = "succeeded" /\ run.tool = "performed"
  /\ run.execution \in {"reconciliation_required", "capability", "IDEMPOTENT_REPLAY"}
  /\ IsExecuted(run, "VERIFIED")

Situated(run) ==
  \/ run = NotCreated
  \/ IsDecided(run) \/ IsStale(run) \/ IsExecuting(run)
  \/ IsVerified(run) \/ IsUnknown(run) \/ IsOverdue(run)

RunsInv == TypeOK /\ \A r \in Runs : Situated(runs[r])

-----------------------------------------------------------------------------
(* What a step may do to one run: what EndedRunsStay and the promise say.   *)

Stays(run, next) ==
  /\ IsTerminal(run.state) \/ Lapsed(run) => next.state = run.state
  /\ Lapsed(run) => next.outcome = run.outcome

Happened(run) == run.tool = "performed"

(* Nothing; an effect; a timeout; a success that is real; or both at once. *)
Promised(run, next) ==
  \/ next.outcome = run.outcome /\ (Happened(next) <=> Happened(run))
  \/ /\ run.outcome \in {"none", "unknown_outcome"} /\ next.outcome = run.outcome
     /\ ~ Happened(run) /\ Happened(next)
  \/ /\ run.outcome = "none" /\ next.outcome = "unknown_outcome"
     /\ Happened(next) <=> Happened(run)
  \/ /\ run.outcome \in {"none", "unknown_outcome"} /\ next.outcome = "succeeded"
     /\ Happened(run) /\ Happened(next)
  \/ /\ run.outcome = "none" /\ next.outcome = "succeeded"
     /\ ~ Happened(run) /\ Happened(next)

Evolves(run, next) ==
  /\ next \in RunRecord /\ Situated(next)
  /\ Stays(run, next)
  /\ Promised(run, next)

-----------------------------------------------------------------------------
(* The pieces of the handlers, on one run.                                  *)

(* Where each result takes a run. *)
LEMMA StatesAfter ==
  /\ StateAfter("AUTHORIZED", "success") = "VERIFIED"
  /\ StateAfter("AUTHORIZED", "precondition") = "STALE"
  /\ StateAfter("AUTHORIZED", "unknown_outcome") = "UNKNOWN_OUTCOME"
  /\ StateAfter("UNKNOWN_OUTCOME", "RECONCILED_SUCCESS") = "VERIFIED"
  /\ StateAfter("UNKNOWN_OUTCOME", "reconciliation_required") = "RECONCILIATION_REQUIRED"
  /\ StateAfter("RECONCILIATION_REQUIRED", "RECONCILED_SUCCESS") = Illegal
  /\ StateAfter("RECONCILIATION_REQUIRED", "reconciliation_required") = Illegal
  /\ \A state : StateAfter(state, "capability") = state
  /\ \A state : state # "AUTHORIZED" => StateAfter(state, "IDEMPOTENT_REPLAY") = state
BY Edges DEF StateAfter, Executed, MustTransition

(* What a handler's helpers leave alone on the way. *)
Keeps(next, run) ==
  /\ next \in RunRecord
  /\ next.scenario = run.scenario /\ next.versionNow = run.versionNow
  /\ next.capability = run.capability /\ next.expiresAt = run.expiresAt
  /\ next.outcome = run.outcome /\ next.tool = run.tool
  /\ next.callCount = run.callCount

LEMMA ConcludedAs ==
  ASSUME NEW run \in RunRecord, NEW result \in Results, NEW state \in RunStates,
         StateAfter(run.state, result) = state
  PROVE  LET next == Concluded(run, result) IN
         /\ Keeps(next, run) /\ next.events = run.events
         /\ next.state = state /\ next.execution = result /\ next.answer = "200"
<1> DEFINE next == Concluded(run, result)
<1>1. state # Illegal
  BY DEF Illegal, RunStates
<1>2. next = [run EXCEPT !.state = state, !.execution = result, !.answer = "200"]
  BY <1>1 DEF Concluded
<1>3. ASSUME NEW answer \in {"none", "200", "500"}
      PROVE  LET changed == [run EXCEPT !.state = state, !.execution = result, !.answer = answer]
             IN  /\ Keeps(changed, run) /\ changed.events = run.events
                 /\ changed.state = state /\ changed.execution = result
                 /\ changed.answer = answer
  BY DEF Keeps, RunRecord
<1> QED
  BY <1>2, <1>3

LEMMA Answered ==
  ASSUME NEW run \in RunRecord, NEW answer \in {"none", "200", "500"}
  PROVE  LET next == [run EXCEPT !.answer = answer] IN
         /\ Keeps(next, run) /\ next.events = run.events
         /\ next.state = run.state /\ next.execution = run.execution
BY DEF Keeps, RunRecord

LEMMA ConcludedIllegally ==
  ASSUME NEW run \in RunRecord, NEW result, StateAfter(run.state, result) = Illegal
  PROVE  LET next == Concluded(run, result) IN
         /\ Keeps(next, run) /\ next.events = run.events
         /\ next.state = run.state /\ next.execution = run.execution
BY Answered DEF Concluded

LEMMA LoggedAs ==
  ASSUME NEW run \in RunRecord, NEW e \in AuditEventTypes
  PROVE  LET next == Logged(run, <<e>>) IN
         /\ Keeps(next, run) /\ next.events = Append(run.events, e)
         /\ next.state = run.state /\ next.execution = run.execution
<1>1. run.events \in Seq(AuditEventTypes)
  BY DEF RunRecord
<1>2. run.events \o <<e>> = Append(run.events, e) /\ Append(run.events, e) \in Seq(AuditEventTypes)
  BY <1>1, TwoEvents
<1> QED
  BY <1>2 DEF Logged, Keeps, RunRecord

LEMMA LoggedTwiceAs ==
  ASSUME NEW run \in RunRecord, NEW e \in AuditEventTypes, NEW f \in AuditEventTypes
  PROVE  LET next == Logged(run, <<e, f>>) IN
         /\ Keeps(next, run) /\ next.events = Append(Append(run.events, e), f)
         /\ next.state = run.state /\ next.execution = run.execution
<1>1. run.events \in Seq(AuditEventTypes)
  BY DEF RunRecord
<1>2. /\ run.events \o <<e, f>> = Append(Append(run.events, e), f)
      /\ Append(Append(run.events, e), f) \in Seq(AuditEventTypes)
  BY <1>1, TwoEvents
<1> QED
  BY <1>2 DEF Logged, Keeps, RunRecord

(* The three updates of several fields, with their values as parameters. *)
Called(run, capability, callCount, tool, outcome) ==
  [run EXCEPT !.capability = capability, !.callCount = callCount,
              !.tool = tool, !.outcome = outcome]

Requested(run, capability, callCount, tool) ==
  [run EXCEPT !.capability = capability, !.callCount = callCount, !.tool = tool]

Minted(run, capability, expiresAt) ==
  [run EXCEPT !.capability = capability, !.expiresAt = expiresAt]

LEMMA CalledAs ==
  ASSUME NEW run \in RunRecord, NEW capability \in {"none", "active", "consumed"},
         NEW callCount \in Nat, NEW tool \in {"idle", "sleeping", "performed", "threw"},
         NEW outcome \in {"none", "unknown_outcome", "succeeded", "failed"}
  PROVE  LET next == Called(run, capability, callCount, tool, outcome) IN
         /\ next \in RunRecord
         /\ next.scenario = run.scenario /\ next.versionNow = run.versionNow
         /\ next.capability = capability /\ next.expiresAt = run.expiresAt
         /\ next.outcome = outcome /\ next.tool = tool /\ next.callCount = callCount
         /\ next.events = run.events
         /\ next.state = run.state /\ next.execution = run.execution
<1> DEFINE With(c, n, t, o) ==
      [scenario |-> run.scenario, state |-> run.state, versionNow |-> run.versionNow,
       capability |-> c, expiresAt |-> run.expiresAt, outcome |-> o,
       tool |-> t, callCount |-> n, events |-> run.events,
       execution |-> run.execution, answer |-> run.answer]
<1>1. run = With(run.capability, run.callCount, run.tool, run.outcome)
  BY DEF RunRecord
<1>2. \A c, n, t, o : /\ [With(c, n, t, o) EXCEPT !.capability = capability] = With(capability, n, t, o)
                      /\ [With(c, n, t, o) EXCEPT !.callCount = callCount] = With(c, callCount, t, o)
                      /\ [With(c, n, t, o) EXCEPT !.tool = tool] = With(c, n, tool, o)
                      /\ [With(c, n, t, o) EXCEPT !.outcome = outcome] = With(c, n, t, outcome)
  OBVIOUS
<1>3. Called(run, capability, callCount, tool, outcome) =
        [[[[run EXCEPT !.capability = capability] EXCEPT !.callCount = callCount]
            EXCEPT !.tool = tool] EXCEPT !.outcome = outcome]
  BY DEF Called
<1>4. Called(run, capability, callCount, tool, outcome) = With(capability, callCount, tool, outcome)
  <2> DEFINE one == [run EXCEPT !.capability = capability]
             two == [one EXCEPT !.callCount = callCount]
             three == [two EXCEPT !.tool = tool]
  <2> HIDE DEF With
  <2>1. one = With(capability, run.callCount, run.tool, run.outcome)
    BY <1>1, <1>2
  <2> HIDE DEF one
  <2>2. two = With(capability, callCount, run.tool, run.outcome)
    BY <2>1, <1>2
  <2> HIDE DEF two
  <2>3. three = With(capability, callCount, tool, run.outcome)
    BY <2>2, <1>2
  <2> HIDE DEF three
  <2>4. [three EXCEPT !.outcome = outcome] = With(capability, callCount, tool, outcome)
    BY <2>3, <1>2
  <2> QED
    BY <1>3, <2>4 DEF one, two, three
<1>5. With(capability, callCount, tool, outcome) \in RunRecord
  BY DEF RunRecord
<1> QED
  BY <1>4, <1>5

LEMMA RequestedAs ==
  ASSUME NEW run \in RunRecord, NEW capability \in {"none", "active", "consumed"},
         NEW callCount \in Nat, NEW tool \in {"idle", "sleeping", "performed", "threw"}
  PROVE  LET next == Requested(run, capability, callCount, tool) IN
         /\ next \in RunRecord
         /\ next.scenario = run.scenario /\ next.versionNow = run.versionNow
         /\ next.capability = capability /\ next.expiresAt = run.expiresAt
         /\ next.outcome = run.outcome /\ next.tool = tool /\ next.callCount = callCount
         /\ next.events = run.events
         /\ next.state = run.state /\ next.execution = run.execution
BY DEF Requested, RunRecord

LEMMA MintedAs ==
  ASSUME NEW run \in RunRecord, NEW capability \in {"none", "active", "consumed"},
         NEW expiresAt \in 0..(MaxTime + TTL)
  PROVE  LET next == Minted(run, capability, expiresAt) IN
         /\ next \in RunRecord
         /\ next.scenario = run.scenario /\ next.versionNow = run.versionNow
         /\ next.capability = capability /\ next.expiresAt = expiresAt
         /\ next.outcome = run.outcome /\ next.tool = run.tool
         /\ next.callCount = run.callCount
         /\ next.events = run.events
         /\ next.state = run.state /\ next.execution = run.execution
BY DEF Minted, RunRecord

(* The same with one. *)
LEMMA OutcomeAs ==
  ASSUME NEW run \in RunRecord,
         NEW outcome \in {"none", "unknown_outcome", "succeeded", "failed"}
  PROVE  LET next == [run EXCEPT !.outcome = outcome] IN
         /\ next \in RunRecord
         /\ next.scenario = run.scenario /\ next.versionNow = run.versionNow
         /\ next.capability = run.capability /\ next.expiresAt = run.expiresAt
         /\ next.outcome = outcome /\ next.tool = run.tool
         /\ next.callCount = run.callCount
         /\ next.events = run.events
         /\ next.state = run.state /\ next.execution = run.execution
BY DEF RunRecord

(* A run that has just been given its capability. *)
IsMinted(run) ==
  /\ \/ run.scenario \in ApprovalScenarios
     \/ run.scenario = "unknown_outcome" /\ run.versionNow = 1
  /\ run.state = "AUTHORIZED"
  /\ run.capability = "active" /\ run.callCount = 0
  /\ run.outcome = "none" /\ run.tool = "idle"
  /\ run.execution = "none"
  /\ ~ Expired(run)
  /\ Ledgered(run.events, "CAPABILITY_MINTED", Decided \cup Approval(run) \cup {"capability"})

LEMMA Names ==
  /\ {"none", "capability", "precondition", "unknown_outcome", "reconciliation_required",
      "success", "IDEMPOTENT_REPLAY", "RECONCILED_SUCCESS"} \subseteq Results
  /\ {"STALE", "VERIFIED", "UNKNOWN_OUTCOME", "RECONCILIATION_REQUIRED", "AUTHORIZED",
      "DENIED", "APPROVAL_REQUIRED", "PROPOSED"} \subseteq RunStates
  /\ {"MODEL_PROPOSAL_RECORDED", "POLICY_DECISION", "APPROVAL_CONSUMED",
      "CAPABILITY_MINTED", "PRECONDITION_FAILED", "DUPLICATE_REPLAY_DETECTED",
      "EXECUTION_STARTED", "EXECUTION_UNKNOWN", "POSTCONDITION_VERIFIED",
      "RECONCILIATION_REQUIRED", "AUDIT_INTEGRITY_CHECKED"} \subseteq AuditEventTypes
  /\ "unknown_outcome" \notin ApprovalScenarios /\ "none" \notin ApprovalScenarios
BY DEF Results, RunStates, ApprovalScenarios, AuditEventTypes

(* The adapter's call, as the two kinds of adapter make it. *)
LEMMA Calls ==
  ASSUME NEW run \in RunRecord
  PROVE  /\ LET next == Called(run, "consumed", 1, "performed", "succeeded") IN
            /\ next \in RunRecord
            /\ next.scenario = run.scenario /\ next.versionNow = run.versionNow
            /\ next.capability = "consumed" /\ next.outcome = "succeeded"
            /\ next.tool = "performed" /\ next.callCount = 1
            /\ next.events = run.events
            /\ next.state = run.state /\ next.execution = run.execution
         /\ LET next == Requested(run, "consumed", 1, "sleeping") IN
            /\ next \in RunRecord
            /\ next.scenario = run.scenario /\ next.versionNow = run.versionNow
            /\ next.capability = "consumed" /\ next.outcome = run.outcome
            /\ next.tool = "sleeping" /\ next.callCount = 1
            /\ next.events = run.events
            /\ next.state = run.state /\ next.execution = run.execution
BY CalledAs, RequestedAs

LEMMA MessageSentEffect ==
  ASSUME NEW run \in RunRecord, IsMinted(run), run.versionNow = 1,
         run.scenario \in ApprovalScenarios
  PROVE  MessageSent(run) \in RunRecord /\ IsVerified(MessageSent(run))
<1> DEFINE sent == Called(run, "consumed", 1, "performed", "succeeded")
           logged == Logged(sent, <<"EXECUTION_STARTED", "POSTCONDITION_VERIFIED">>)
           next == Concluded(logged, "success")
           stages == Decided \cup Approval(run) \cup {"capability"}
<1>1. MessageSent(run) = next
  BY DEF MessageSent, IsMinted, Called
<1>2. /\ sent \in RunRecord
      /\ sent.scenario = run.scenario /\ sent.versionNow = 1
      /\ sent.capability = "consumed" /\ sent.outcome = "succeeded"
      /\ sent.tool = "performed" /\ sent.callCount = 1
      /\ sent.events = run.events /\ sent.state = "AUTHORIZED"
  <2>1. /\ sent \in RunRecord
        /\ sent.scenario = run.scenario /\ sent.versionNow = run.versionNow
        /\ sent.capability = "consumed" /\ sent.outcome = "succeeded"
        /\ sent.tool = "performed" /\ sent.callCount = 1
        /\ sent.events = run.events /\ sent.state = run.state
    BY Calls
  <2> QED
    BY <2>1 DEF IsMinted
<1> HIDE DEF sent
<1>3. /\ Keeps(logged, sent)
      /\ logged.events = Append(Append(run.events, "EXECUTION_STARTED"), "POSTCONDITION_VERIFIED")
      /\ logged.state = "AUTHORIZED"
  BY <1>2, LoggedTwiceAs, Names
<1> HIDE DEF logged
<1>4. /\ Keeps(next, logged) /\ next.events = logged.events
      /\ next.state = "VERIFIED" /\ next.execution = "success"
  BY <1>3, ConcludedAs, StatesAfter, Names DEF Keeps
<1> HIDE DEF next
<1>5. Ledgered(logged.events, "VERIFIED", stages \cup {"execution"} \cup {"verification"})
  <2>1. Ledgered(run.events, "CAPABILITY_MINTED", stages)
    BY DEF IsMinted
  <2>2. stages \subseteq {"proposal", "policy", "approval", "capability"}
    BY DEF Decided, Approval
  <2> HIDE DEF stages
  <2>3. Ledgered(Append(run.events, "EXECUTION_STARTED"), "EXECUTING", stages \cup {"execution"})
    BY <2>1, <2>2, LedgeredEvents
  <2> QED
    BY <1>3, <2>3, LedgeredEvents
<1>6. stages \cup {"execution"} \cup {"verification"} =
        Decided \cup Approval(next) \cup {"capability", "execution", "verification"}
  BY <1>2, <1>3, <1>4 DEF Approval, Keeps
<1> HIDE DEF stages
<1> QED
  BY <1>1, <1>2, <1>3, <1>4, <1>5, <1>6 DEF IsVerified, IsExecuted, Keeps

LEMMA TicketRequestedEffect ==
  ASSUME NEW run \in RunRecord, IsMinted(run), run.scenario = "unknown_outcome"
  PROVE  TicketRequested(run) \in RunRecord /\ IsExecuting(TicketRequested(run))
<1> DEFINE sent == Requested(run, "consumed", 1, "sleeping")
           next == Logged(sent, <<"EXECUTION_STARTED">>)
<1>1. TicketRequested(run) = next
  BY DEF TicketRequested, IsMinted, Requested
<1>2. /\ sent \in RunRecord
      /\ sent.scenario = "unknown_outcome" /\ sent.versionNow = 1
      /\ sent.capability = "consumed" /\ sent.outcome = "none"
      /\ sent.tool = "sleeping" /\ sent.callCount = 1
      /\ sent.events = run.events /\ sent.state = "AUTHORIZED" /\ sent.execution = "none"
  <2>1. /\ run.state = "AUTHORIZED" /\ run.versionNow = 1
        /\ run.outcome = "none" /\ run.execution = "none"
    BY Names DEF IsMinted
  <2>2. /\ sent \in RunRecord
        /\ sent.scenario = run.scenario /\ sent.versionNow = run.versionNow
        /\ sent.capability = "consumed" /\ sent.outcome = run.outcome
        /\ sent.tool = "sleeping" /\ sent.callCount = 1
        /\ sent.events = run.events /\ sent.state = run.state
        /\ sent.execution = run.execution
    BY Calls
  <2> QED
    BY <2>1, <2>2
<1> HIDE DEF sent
<1>3. /\ Keeps(next, sent)
      /\ next.events = Append(run.events, "EXECUTION_STARTED")
      /\ next.state = "AUTHORIZED" /\ next.execution = "none"
  BY <1>2, LoggedAs, Names
<1> HIDE DEF next
<1>4. Ledgered(next.events, "EXECUTING", Decided \cup {"capability", "execution"})
  <2>1. Decided \cup {"capability"} \subseteq {"proposal", "policy", "approval", "capability"}
    BY DEF Decided
  <2>2. Ledgered(run.events, "CAPABILITY_MINTED", Decided \cup {"capability"})
    BY DEF IsMinted, Approval
  <2>3. Decided \cup {"capability"} \cup {"execution"} = Decided \cup {"capability", "execution"}
    OBVIOUS
  <2>4. Ledgered(Append(run.events, "EXECUTION_STARTED"), "EXECUTING",
                 Decided \cup {"capability"} \cup {"execution"})
    BY <2>1, <2>2, LedgeredEvents
  <2> QED
    BY <1>3, <2>3, <2>4
<1> QED
  BY <1>1, <1>2, <1>3, <1>4 DEF IsExecuting, Keeps

(* A resource that drifted: nothing is called. *)
LEMMA StaleEffect ==
  ASSUME NEW run \in RunRecord, IsMinted(run), run.versionNow # 1
  PROVE  LET next == Concluded(Logged(run, <<"PRECONDITION_FAILED">>), "precondition") IN
         next \in RunRecord /\ IsStale(next)
<1> DEFINE logged == Logged(run, <<"PRECONDITION_FAILED">>)
           next == Concluded(logged, "precondition")
<1>1. /\ Keeps(logged, run)
      /\ logged.events = Append(run.events, "PRECONDITION_FAILED")
      /\ logged.state = "AUTHORIZED"
  BY LoggedAs, Names DEF IsMinted
<1> HIDE DEF logged
<1>2. /\ Keeps(next, logged) /\ next.events = logged.events
      /\ next.state = "STALE" /\ next.execution = "precondition"
  BY <1>1, ConcludedAs, StatesAfter, Names DEF Keeps
<1> HIDE DEF next
<1>3. run.scenario \in ApprovalScenarios
  BY DEF IsMinted
<1>4. Ledgered(logged.events, "FAILED", Decided \cup {"approval", "capability", "execution"})
  <2> DEFINE stages == Decided \cup {"approval", "capability"}
  <2>1. Ledgered(run.events, "CAPABILITY_MINTED", stages)
    <3>1. Decided \cup Approval(run) \cup {"capability"} = stages
      BY <1>3, Names DEF Approval
    <3> QED
      BY <3>1 DEF IsMinted
  <2>2. stages \subseteq {"proposal", "policy", "approval", "capability"}
    BY DEF Decided
  <2>3. stages \cup {"execution"} = Decided \cup {"approval", "capability", "execution"}
    OBVIOUS
  <2> HIDE DEF stages
  <2>4. Ledgered(Append(run.events, "PRECONDITION_FAILED"), "FAILED", stages \cup {"execution"})
    BY <2>1, <2>2, LedgeredEvents
  <2> QED
    BY <1>1, <2>3, <2>4
<1>5. /\ run.capability = "active" /\ run.callCount = 0
      /\ run.outcome = "none" /\ run.tool = "idle"
  BY DEF IsMinted
<1>6. IsStale(next)
  BY <1>1, <1>2, <1>3, <1>4, <1>5 DEF IsStale, Keeps
<1> QED
  BY <1>2, <1>6 DEF next, logged, Keeps

(* executeAction for a run that was authorized just now. *)
LEMMA ExecuteMinted ==
  ASSUME NEW run \in RunRecord, IsMinted(run)
  PROVE  LET next == Execute(run) IN
         /\ next \in RunRecord
         /\ IsStale(next) \/ IsExecuting(next) \/ IsVerified(next)
<1>1. CASE run.versionNow # 1
  <2>1. Execute(run) = Concluded(Logged(run, <<"PRECONDITION_FAILED">>), "precondition")
    BY <1>1 DEF Execute, IsMinted
  <2> QED
    BY <1>1, <2>1, StaleEffect
<1>2. CASE run.versionNow = 1
  <2>1. Execute(run) = Started(run)
    BY <1>2 DEF Execute, Dispatched, IsMinted
  <2>2. Started(run) = IF run.scenario = "unknown_outcome" THEN TicketRequested(run)
                       ELSE MessageSent(run)
    BY DEF Started, IsMinted
  <2>3. run.scenario # "unknown_outcome" => run.scenario \in ApprovalScenarios
    BY DEF IsMinted
  <2> QED
    BY <1>2, <2>1, <2>2, <2>3, TicketRequestedEffect, MessageSentEffect
<1> QED
  BY <1>1, <1>2

(* authorizeAndExecute of a run that was never given a capability. *)
LEMMA AuthorizeEffect ==
  ASSUME TypeOK, NEW run \in RunRecord, NEW final,
         \/ run.scenario \in ApprovalScenarios
         \/ run.scenario = "unknown_outcome" /\ run.versionNow = 1,
         run.state = "AUTHORIZED", run.callCount = 0,
         run.outcome = "none", run.tool = "idle", run.execution = "none",
         Ledgered(run.events, final, Decided \cup Approval(run))
  PROVE  LET next == AuthorizeAndExecute(run) IN
         /\ next \in RunRecord
         /\ IsStale(next) \/ IsExecuting(next) \/ IsVerified(next)
<1> DEFINE granted == Minted(run, "active", now + TTL)
           minted == Logged(granted, <<"CAPABILITY_MINTED">>)
<1>1. AuthorizeAndExecute(run) = Execute(minted)
  BY DEF AuthorizeAndExecute, Minted
<1>2. now + TTL \in 0..(MaxTime + TTL) /\ ~ (now >= now + TTL)
  BY Constants DEF TypeOK
<1>3. /\ granted \in RunRecord
      /\ granted.scenario = run.scenario /\ granted.versionNow = run.versionNow
      /\ granted.capability = "active" /\ granted.expiresAt = now + TTL
      /\ granted.outcome = run.outcome /\ granted.tool = run.tool
      /\ granted.callCount = run.callCount /\ granted.events = run.events
      /\ granted.state = run.state /\ granted.execution = run.execution
  BY <1>2, MintedAs
<1> HIDE DEF granted
<1>4. /\ Keeps(minted, granted) /\ minted.events = Append(run.events, "CAPABILITY_MINTED")
      /\ minted.state = "AUTHORIZED" /\ minted.execution = "none"
  BY <1>3, LoggedAs, Names
<1> HIDE DEF minted
<1>5. Ledgered(minted.events, "CAPABILITY_MINTED", Decided \cup Approval(minted) \cup {"capability"})
  <2>1. Decided \cup Approval(run) \subseteq {"proposal", "policy", "approval"}
    BY DEF Decided, Approval
  <2>2. Approval(minted) = Approval(run)
    BY <1>3, <1>4 DEF Approval, Keeps
  <2>3. Ledgered(Append(run.events, "CAPABILITY_MINTED"), "CAPABILITY_MINTED",
                 Decided \cup Approval(run) \cup {"capability"})
    BY <2>1, LedgeredEvents
  <2> QED
    BY <1>4, <2>2, <2>3
<1>6. minted \in RunRecord /\ IsMinted(minted)
  BY <1>2, <1>3, <1>4, <1>5 DEF IsMinted, Keeps, Expired
<1> QED
  BY <1>1, <1>6, ExecuteMinted

-----------------------------------------------------------------------------
(* The handlers, on one run.                                                *)

LEMMA NotTerminal ==
  \A state \in {"PROPOSED", "APPROVAL_REQUIRED", "AUTHORIZED", "UNKNOWN_OUTCOME"} :
    ~ IsTerminal(state)
<1>1. ~ IsTerminal("PROPOSED")
  <2>1. <<"PROPOSED", "schema_pass", "VALIDATED">> \in TransitionTable
    BY DEF TransitionTable
  <2> QED
    BY <2>1 DEF IsTerminal
<1>2. ~ IsTerminal("APPROVAL_REQUIRED")
  <2>1. <<"APPROVAL_REQUIRED", "matching_approval", "AUTHORIZED">> \in TransitionTable
    BY DEF TransitionTable
  <2> QED
    BY <2>1 DEF IsTerminal
<1>3. ~ IsTerminal("AUTHORIZED")
  <2>1. <<"AUTHORIZED", "fresh_preconditions", "EXECUTING">> \in TransitionTable
    BY DEF TransitionTable
  <2> QED
    BY <2>1 DEF IsTerminal
<1>4. ~ IsTerminal("UNKNOWN_OUTCOME")
  <2>1. <<"UNKNOWN_OUTCOME", "lookup_confirms_success", "VERIFIED">> \in TransitionTable
    BY DEF TransitionTable
  <2> QED
    BY <2>1 DEF IsTerminal
<1> QED
  BY <1>1, <1>2, <1>3, <1>4

(* Nothing that is final changes. *)
LEMMA SteadyEvolves ==
  ASSUME NEW run, NEW next \in RunRecord, Situated(next),
         next.state = run.state, next.outcome = run.outcome, next.tool = run.tool
  PROVE  Evolves(run, next)
BY DEF Evolves, Stays, Promised, Happened

(* A run with no capability yet may get its first outcome. *)
LEMMA FreshEvolves ==
  ASSUME NEW run, NEW next \in RunRecord,
         run.state \in {"PROPOSED", "APPROVAL_REQUIRED"}, run.capability = "none",
         run.outcome = "none", run.tool = "idle",
         IsDecided(next) \/ IsStale(next) \/ IsExecuting(next) \/ IsVerified(next)
  PROVE  Evolves(run, next)
<1>1. Stays(run, next)
  BY NotTerminal DEF Stays, Lapsed
<1>2. CASE IsDecided(next) \/ IsStale(next) \/ IsExecuting(next)
  BY <1>1, <1>2 DEF Evolves, Situated, Promised, Happened, IsDecided, IsStale, IsExecuting
<1>3. CASE IsVerified(next)
  BY <1>1, <1>3 DEF Evolves, Situated, Promised, Happened, IsVerified
<1> QED
  BY <1>2, <1>3

LEMMA NotCreatedIsARun == NotCreated \in RunRecord
<1>1. 1 \in 1..MaxVersion /\ 0 \in 0..(MaxTime + TTL)
  BY Constants
<1>2. "none" \in Results /\ "PROPOSED" \in RunStates
  BY Names
<1>3. <<>> \in Seq(AuditEventTypes)
  OBVIOUS
<1> QED
  BY <1>1, <1>2, <1>3 DEF NotCreated, RunRecord

(* A run out of policy's hands. *)
LEMMA ProposedAs ==
  ASSUME NEW scenario \in Scenarios, NEW verdict,
         NEW state \in RunStates, Transition("VALIDATED", verdict) = state
  PROVE  LET next == Proposed(scenario, verdict) IN
         /\ next \in RunRecord
         /\ next.scenario = scenario /\ next.versionNow = 1
         /\ next.capability = "none" /\ next.outcome = "none" /\ next.tool = "idle"
         /\ next.callCount = 0 /\ next.execution = "none" /\ next.state = state
         /\ Ledgered(next.events, "POLICY_DECIDED", Decided)
<1> DEFINE created == [NotCreated EXCEPT !.scenario = scenario, !.state = state, !.answer = "200"]
           next == Logged(created, <<"MODEL_PROPOSAL_RECORDED", "POLICY_DECISION">>)
<1>1. Proposed(scenario, verdict) = next
  <2>1. MustTransition(MustTransition("PROPOSED", "schema_pass"), verdict) = state
    BY Edges DEF MustTransition
  <2> QED
    BY <2>1 DEF Proposed
<1>2. ASSUME NEW run \in RunRecord, NEW answer \in {"none", "200", "500"}
      PROVE  LET changed == [run EXCEPT !.scenario = scenario, !.state = state, !.answer = answer]
             IN  /\ changed \in RunRecord
                 /\ changed.scenario = scenario /\ changed.versionNow = run.versionNow
                 /\ changed.capability = run.capability /\ changed.outcome = run.outcome
                 /\ changed.tool = run.tool /\ changed.callCount = run.callCount
                 /\ changed.events = run.events
                 /\ changed.state = state /\ changed.execution = run.execution
  BY DEF RunRecord
<1>3. /\ created \in RunRecord
      /\ created.scenario = scenario /\ created.versionNow = 1
      /\ created.capability = "none" /\ created.outcome = "none"
      /\ created.tool = "idle" /\ created.callCount = 0
      /\ created.events = <<>>
      /\ created.state = state /\ created.execution = "none"
  <2>1. /\ NotCreated \in RunRecord
        /\ NotCreated.versionNow = 1
        /\ NotCreated.capability = "none" /\ NotCreated.outcome = "none"
        /\ NotCreated.tool = "idle" /\ NotCreated.callCount = 0
        /\ NotCreated.events = <<>> /\ NotCreated.execution = "none"
    BY NotCreatedIsARun DEF NotCreated
  <2> QED
    BY <1>2, <2>1
<1> HIDE DEF created
<1>4. /\ Keeps(next, created)
      /\ next.events = Append(Append(<<>>, "MODEL_PROPOSAL_RECORDED"), "POLICY_DECISION")
      /\ next.state = state /\ next.execution = "none"
  BY <1>3, LoggedTwiceAs, Names
<1> HIDE DEF next
<1>5. Ledgered(next.events, "POLICY_DECIDED", Decided)
  BY <1>4, LedgeredProposal DEF Decided
<1> QED
  BY <1>1, <1>3, <1>4, <1>5 DEF Keeps

LEMMA CreatedEvolves ==
  ASSUME TypeOK, NEW run, run = NotCreated
  PROVE  /\ Evolves(run, Proposed("blocked", "policy_deny"))
         /\ \A scenario \in ApprovalScenarios : Evolves(run, Proposed(scenario, "high_risk"))
         /\ Evolves(run, AuthorizeAndExecute(Proposed("unknown_outcome", "low_risk_policy_allow")))
<1>1. /\ run.state = "PROPOSED" /\ run.capability = "none"
      /\ run.outcome = "none" /\ run.tool = "idle"
  BY DEF NotCreated
<1>2. "blocked" \in Scenarios /\ "unknown_outcome" \in Scenarios
      /\ ApprovalScenarios \subseteq Scenarios
  BY DEF Scenarios
<1>3. Evolves(run, Proposed("blocked", "policy_deny"))
  <2> DEFINE next == Proposed("blocked", "policy_deny")
  <2>1. next \in RunRecord /\ IsDecided(next)
    BY <1>2, Edges, Names, ProposedAs DEF IsDecided
  <2> HIDE DEF next
  <2>2. Evolves(run, next)
    BY <1>1, <2>1, FreshEvolves
  <2> QED
    BY <2>2 DEF next
<1>4. ASSUME NEW scenario \in ApprovalScenarios
      PROVE  Evolves(run, Proposed(scenario, "high_risk"))
  <2> DEFINE next == Proposed(scenario, "high_risk")
  <2>1. next \in RunRecord /\ IsDecided(next)
    BY <1>2, Edges, Names, ProposedAs DEF IsDecided
  <2> HIDE DEF next
  <2>2. Evolves(run, next)
    BY <1>1, <2>1, FreshEvolves
  <2> QED
    BY <2>2 DEF next
<1>5. Evolves(run, AuthorizeAndExecute(Proposed("unknown_outcome", "low_risk_policy_allow")))
  <2> DEFINE allowed == Proposed("unknown_outcome", "low_risk_policy_allow")
             next == AuthorizeAndExecute(allowed)
  <2>1. /\ allowed \in RunRecord
        /\ allowed.scenario = "unknown_outcome" /\ allowed.versionNow = 1
        /\ allowed.outcome = "none" /\ allowed.tool = "idle"
        /\ allowed.callCount = 0 /\ allowed.execution = "none" /\ allowed.state = "AUTHORIZED"
        /\ Ledgered(allowed.events, "POLICY_DECIDED", Decided)
    BY <1>2, Edges, Names, ProposedAs
  <2> HIDE DEF allowed
  <2>2. Decided \cup Approval(allowed) = Decided
    BY <2>1 DEF Approval
  <2>3. next \in RunRecord /\ (IsStale(next) \/ IsExecuting(next) \/ IsVerified(next))
    BY <2>1, <2>2, AuthorizeEffect
  <2> HIDE DEF next
  <2> QED
    BY <1>1, <2>3, FreshEvolves DEF next, allowed
<1> QED
  BY <1>3, <1>4, <1>5

LEMMA ApprovedEvolves ==
  ASSUME TypeOK, NEW run \in RunRecord, IsDecided(run), run.state = "APPROVAL_REQUIRED"
  PROVE  Evolves(run, AuthorizeAndExecute(Logged(
           [run EXCEPT !.state = MustTransition(@, "matching_approval")],
           <<"APPROVAL_CONSUMED">>)))
<1> DEFINE approved == [run EXCEPT !.state = "AUTHORIZED"]
           logged == Logged(approved, <<"APPROVAL_CONSUMED">>)
           next == AuthorizeAndExecute(logged)
<1>1. [run EXCEPT !.state = MustTransition(@, "matching_approval")] = approved
  BY Edges DEF MustTransition
<1>2. /\ run.scenario \in ApprovalScenarios
      /\ run.capability = "none" /\ run.callCount = 0
      /\ run.outcome = "none" /\ run.tool = "idle" /\ run.execution = "none"
      /\ Ledgered(run.events, "POLICY_DECIDED", Decided)
  BY DEF IsDecided
<1>3. /\ Keeps(approved, run) /\ approved.events = run.events
      /\ approved.state = "AUTHORIZED" /\ approved.execution = run.execution
  BY Names DEF Keeps, RunRecord
<1> HIDE DEF approved
<1>4. /\ Keeps(logged, approved) /\ logged.events = Append(run.events, "APPROVAL_CONSUMED")
      /\ logged.state = "AUTHORIZED" /\ logged.execution = "none"
  BY <1>2, <1>3, LoggedAs, Names DEF Keeps
<1> HIDE DEF logged
<1>5. Ledgered(logged.events, "APPROVED", Decided \cup Approval(logged))
  <2>1. logged.scenario # "unknown_outcome"
    BY <1>2, <1>3, <1>4, Names DEF Keeps
  <2>2. Ledgered(Append(run.events, "APPROVAL_CONSUMED"), "APPROVED", Decided \cup {"approval"})
    BY <1>2, LedgeredEvents DEF Decided
  <2> QED
    BY <1>4, <2>1, <2>2 DEF Approval
<1>6. next \in RunRecord /\ (IsStale(next) \/ IsExecuting(next) \/ IsVerified(next))
  <2>1. /\ logged \in RunRecord /\ logged.scenario \in ApprovalScenarios
        /\ logged.callCount = 0 /\ logged.outcome = "none" /\ logged.tool = "idle"
    BY <1>2, <1>3, <1>4 DEF Keeps
  <2> QED
    BY <1>4, <1>5, <2>1, AuthorizeEffect
<1> HIDE DEF next
<1>7. Evolves(run, next)
  BY <1>2, <1>6, FreshEvolves
<1> QED
  BY <1>1, <1>7 DEF next, logged

(* The stages an executed run's ledger shows are there already. *)
LEMMA ExecutedLogs ==
  ASSUME NEW run \in RunRecord, NEW final, IsExecuted(run, final)
  PROVE  /\ \A next : Keeps(next, run) /\ next.events = run.events => IsExecuted(next, final)
         /\ \A next : /\ Keeps(next, run)
                     /\ next.events = Append(run.events, "DUPLICATE_REPLAY_DETECTED")
                     => IsExecuted(next, final)
         /\ \A next : /\ Keeps(next, run)
                     /\ next.events = Append(run.events, "AUDIT_INTEGRITY_CHECKED")
                     => IsExecuted(next, final)
         /\ \A next : /\ Keeps(next, run)
                     /\ next.events = Append(run.events, "RECONCILIATION_REQUIRED")
                     => IsExecuted(next, "RECONCILIATION_REQUIRED")
         /\ Ledgered(Append(run.events, "POSTCONDITION_VERIFIED"), "VERIFIED",
                     Decided \cup Approval(run) \cup {"capability", "execution", "verification"})
<1> DEFINE stages == Decided \cup Approval(run) \cup {"capability", "execution", "verification"}
<1>1. Ledgered(run.events, final, stages)
  BY DEF IsExecuted
<1>2. "execution" \in stages /\ stages \cup {"verification"} = stages
  OBVIOUS
<1>3. run.versionNow = 1 /\ run.capability = "consumed" /\ run.callCount = 1
  BY DEF IsExecuted
<1>4. ASSUME NEW next, Keeps(next, run), NEW projected, Ledgered(next.events, projected, stages)
      PROVE  IsExecuted(next, projected)
  <2>1. Approval(next) = Approval(run)
    BY <1>4 DEF Keeps, Approval
  <2>2. next.versionNow = 1 /\ next.capability = "consumed" /\ next.callCount = 1
    BY <1>3, <1>4 DEF Keeps
  <2>3. Ledgered(next.events, projected,
                 Decided \cup Approval(next) \cup {"capability", "execution", "verification"})
    BY <1>4, <2>1
  <2> QED
    BY <2>2, <2>3 DEF IsExecuted
<1> HIDE DEF stages
<1>5. /\ Ledgered(Append(run.events, "DUPLICATE_REPLAY_DETECTED"), final, stages)
      /\ Ledgered(Append(run.events, "AUDIT_INTEGRITY_CHECKED"), final, stages)
      /\ Ledgered(Append(run.events, "RECONCILIATION_REQUIRED"), "RECONCILIATION_REQUIRED", stages)
      /\ Ledgered(Append(run.events, "POSTCONDITION_VERIFIED"), "VERIFIED", stages)
  BY <1>1, <1>2, LedgeredEvents
<1> QED
  BY <1>1, <1>4, <1>5 DEF stages

LEMMA VerifiedExecutes ==
  ASSUME NEW run \in RunRecord, IsVerified(run)
  PROVE  Evolves(run, Execute(run))
<1>0. IsExecuted(run, "VERIFIED") /\ run.state = "VERIFIED" /\ run.outcome = "succeeded"
      /\ run.tool = "performed" /\ run.versionNow = 1
  BY DEF IsVerified, IsExecuted
<1>1. CASE Expired(run)
  <2> DEFINE next == Concluded(run, "capability")
  <2>1. /\ Keeps(next, run) /\ next.events = run.events
        /\ next.state = "VERIFIED" /\ next.execution = "capability"
    BY <1>0, ConcludedAs, StatesAfter, Names
  <2> HIDE DEF next
  <2>2. next \in RunRecord /\ IsVerified(next)
    BY <2>1, <1>0, ExecutedLogs DEF IsVerified, Keeps
  <2>3. Evolves(run, next)
    BY <1>0, <2>1, <2>2, SteadyEvolves DEF Situated, Keeps
  <2> QED
    BY <1>1, <2>3 DEF Execute, next
<1>2. CASE ~ Expired(run)
  <2> DEFINE logged == Logged(run, <<"DUPLICATE_REPLAY_DETECTED">>)
             next == Concluded(logged, "IDEMPOTENT_REPLAY")
  <2>1. Execute(run) = next
    BY <1>0, <1>2 DEF Execute, Dispatched
  <2>2. /\ Keeps(logged, run) /\ logged.events = Append(run.events, "DUPLICATE_REPLAY_DETECTED")
        /\ logged.state = "VERIFIED"
    BY <1>0, LoggedAs, Names
  <2> HIDE DEF logged
  <2>3. /\ Keeps(next, logged) /\ next.events = logged.events
        /\ next.state = "VERIFIED" /\ next.execution = "IDEMPOTENT_REPLAY"
    BY <2>2, ConcludedAs, StatesAfter, Names DEF Keeps
  <2> HIDE DEF next
  <2>4. Keeps(next, run)
    BY <2>2, <2>3 DEF Keeps
  <2>5. next \in RunRecord /\ IsVerified(next)
    BY <1>0, <2>2, <2>3, <2>4, ExecutedLogs DEF IsVerified, Keeps
  <2>6. Evolves(run, next)
    BY <1>0, <2>3, <2>4, <2>5, SteadyEvolves DEF Situated, Keeps
  <2> QED
    BY <2>1, <2>6
<1> QED
  BY <1>1, <1>2

LEMMA OverdueExecutes ==
  ASSUME NEW run \in RunRecord, IsOverdue(run)
  PROVE  Evolves(run, Execute(run))
<1>0. IsExecuted(run, "VERIFIED") /\ run.state = "RECONCILIATION_REQUIRED"
      /\ run.outcome = "succeeded" /\ run.tool = "performed" /\ run.versionNow = 1
      /\ run.scenario = "unknown_outcome"
  BY DEF IsOverdue, IsExecuted
<1>1. CASE Expired(run)
  <2> DEFINE next == Concluded(run, "capability")
  <2>1. /\ Keeps(next, run) /\ next.events = run.events
        /\ next.state = "RECONCILIATION_REQUIRED" /\ next.execution = "capability"
    BY <1>0, ConcludedAs, StatesAfter, Names
  <2> HIDE DEF next
  <2>2. next \in RunRecord /\ IsOverdue(next)
    BY <2>1, <1>0, ExecutedLogs DEF IsOverdue, Keeps
  <2>3. Evolves(run, next)
    BY <1>0, <2>1, <2>2, SteadyEvolves DEF Situated, Keeps
  <2> QED
    BY <1>1, <2>3 DEF Execute, next
<1>2. CASE ~ Expired(run)
  <2> DEFINE logged == Logged(run, <<"DUPLICATE_REPLAY_DETECTED">>)
             next == Concluded(logged, "IDEMPOTENT_REPLAY")
  <2>1. Execute(run) = next
    BY <1>0, <1>2 DEF Execute, Dispatched
  <2>2. /\ Keeps(logged, run) /\ logged.events = Append(run.events, "DUPLICATE_REPLAY_DETECTED")
        /\ logged.state = "RECONCILIATION_REQUIRED"
    BY <1>0, LoggedAs, Names
  <2> HIDE DEF logged
  <2>3. /\ Keeps(next, logged) /\ next.events = logged.events
        /\ next.state = "RECONCILIATION_REQUIRED" /\ next.execution = "IDEMPOTENT_REPLAY"
    BY <2>2, ConcludedAs, StatesAfter, Names DEF Keeps
  <2> HIDE DEF next
  <2>4. Keeps(next, run)
    BY <2>2, <2>3 DEF Keeps
  <2>5. next \in RunRecord /\ IsOverdue(next)
    BY <1>0, <2>2, <2>3, <2>4, ExecutedLogs DEF IsOverdue, Keeps
  <2>6. Evolves(run, next)
    BY <1>0, <2>3, <2>4, <2>5, SteadyEvolves DEF Situated, Keeps
  <2> QED
    BY <2>1, <2>6
<1> QED
  BY <1>1, <1>2

(* The only handler that can throw: the store is told of a success the state
   machine has no edge for. *)
LEMMA UnknownExecutes ==
  ASSUME NEW run \in RunRecord, IsUnknown(run)
  PROVE  Evolves(run, Execute(run))
<1>0. /\ IsExecuted(run, run.state) /\ run.state \in {"UNKNOWN_OUTCOME", "RECONCILIATION_REQUIRED"}
      /\ run.outcome = "unknown_outcome" /\ run.versionNow = 1
      /\ run.scenario = "unknown_outcome" /\ run.tool \in {"sleeping", "performed", "threw"}
  BY DEF IsUnknown, IsExecuted
<1>1. CASE Expired(run)
  <2> DEFINE next == Concluded(run, "capability")
  <2>1. /\ Keeps(next, run) /\ next.events = run.events
        /\ next.state = run.state /\ next.execution = "capability"
    <3>1. run.state \in RunStates /\ "capability" \in Results
      BY <1>0, Names
    <3> QED
      BY <3>1, ConcludedAs, StatesAfter
  <2> HIDE DEF next
  <2>2. next \in RunRecord /\ IsUnknown(next)
    BY <2>1, <1>0, ExecutedLogs DEF IsUnknown, Keeps
  <2>3. Evolves(run, next)
    BY <1>0, <2>1, <2>2, SteadyEvolves DEF Situated, Keeps
  <2> QED
    BY <1>1, <2>3 DEF Execute, next
<1>2. CASE ~ Expired(run) /\ run.tool # "performed"
  <2> DEFINE logged == Logged(run, <<"RECONCILIATION_REQUIRED">>)
             next == Concluded(logged, "reconciliation_required")
  <2>1. Execute(run) = next
    BY <1>0, <1>2 DEF Execute, Dispatched, Reconciled
  <2>2. /\ Keeps(logged, run) /\ logged.events = Append(run.events, "RECONCILIATION_REQUIRED")
        /\ logged.state = run.state /\ logged.execution = run.execution
    BY LoggedAs, Names
  <2> HIDE DEF logged
  <2>3. /\ Keeps(next, logged) /\ next.events = logged.events
        /\ next.state = "RECONCILIATION_REQUIRED"
        /\ next.execution \in {run.execution, "reconciliation_required"}
        /\ run.state = "UNKNOWN_OUTCOME" => next.execution = "reconciliation_required"
    <3>1. CASE run.state = "UNKNOWN_OUTCOME"
      BY <2>2, <3>1, ConcludedAs, StatesAfter, Names DEF Keeps
    <3>2. CASE run.state = "RECONCILIATION_REQUIRED"
      BY <2>2, <3>2, ConcludedIllegally, StatesAfter DEF Keeps
    <3> QED
      BY <1>0, <3>1, <3>2
  <2> HIDE DEF next
  <2>4. Keeps(next, run)
    BY <2>2, <2>3 DEF Keeps
  <2>5. IsExecuted(next, "RECONCILIATION_REQUIRED")
    BY <1>0, <2>2, <2>3, <2>4, ExecutedLogs
  <2>6. IsUnknown(next)
    BY <1>0, <2>3, <2>4, <2>5 DEF IsUnknown, Keeps
  <2>7. Stays(run, next)
    BY <1>0, <1>2, <2>3, <2>4, NotTerminal DEF Stays, Lapsed, Keeps
  <2>8. Evolves(run, next)
    BY <2>4, <2>6, <2>7 DEF Evolves, Situated, Promised, Happened, Keeps
  <2> QED
    BY <2>1, <2>8
<1>3. CASE ~ Expired(run) /\ run.tool = "performed"
  <2> DEFINE known == [run EXCEPT !.outcome = "succeeded"]
             logged == Logged(known, <<"POSTCONDITION_VERIFIED">>)
             next == Concluded(logged, "RECONCILED_SUCCESS")
  <2>1. Execute(run) = next
    BY <1>0, <1>3 DEF Execute, Dispatched, Reconciled
  <2>2. /\ known \in RunRecord
        /\ known.scenario = "unknown_outcome" /\ known.versionNow = 1
        /\ known.capability = run.capability
        /\ known.outcome = "succeeded" /\ known.tool = "performed"
        /\ known.callCount = run.callCount /\ known.events = run.events
        /\ known.state = run.state /\ known.execution = run.execution
    BY <1>0, <1>3, OutcomeAs
  <2> HIDE DEF known
  <2>3. /\ Keeps(logged, known) /\ logged.events = Append(run.events, "POSTCONDITION_VERIFIED")
        /\ logged.state = run.state /\ logged.execution = run.execution
    BY <2>2, LoggedAs, Names
  <2> HIDE DEF logged
  <2>4. /\ Keeps(next, logged) /\ next.events = logged.events
        /\ run.state = "UNKNOWN_OUTCOME" =>
             next.state = "VERIFIED" /\ next.execution = "RECONCILED_SUCCESS"
        /\ run.state = "RECONCILIATION_REQUIRED" =>
             next.state = run.state /\ next.execution = run.execution
    <3>1. CASE run.state = "UNKNOWN_OUTCOME"
      BY <2>3, <3>1, ConcludedAs, StatesAfter, Names DEF Keeps
    <3>2. CASE run.state = "RECONCILIATION_REQUIRED"
      BY <2>3, <3>2, ConcludedIllegally, StatesAfter DEF Keeps
    <3> QED
      BY <1>0, <3>1, <3>2
  <2> HIDE DEF next
  <2>5. /\ next \in RunRecord
        /\ next.scenario = "unknown_outcome" /\ next.versionNow = 1
        /\ next.capability = run.capability /\ next.callCount = run.callCount
        /\ next.outcome = "succeeded" /\ next.tool = "performed"
    BY <2>2, <2>3, <2>4 DEF Keeps
  <2>6. IsExecuted(next, "VERIFIED")
    <3>1. Ledgered(next.events, "VERIFIED",
                   Decided \cup Approval(run) \cup {"capability", "execution", "verification"})
      BY <1>0, <2>3, <2>4, ExecutedLogs
    <3>2. Approval(next) = Approval(run)
      BY <1>0, <2>5 DEF Approval
    <3>3. next.capability = "consumed" /\ next.callCount = 1
      BY <1>0, <2>5 DEF IsExecuted
    <3> QED
      BY <2>5, <3>1, <3>2, <3>3 DEF IsExecuted
  <2>7. IsVerified(next) \/ IsOverdue(next)
    <3>1. CASE run.state = "UNKNOWN_OUTCOME"
      BY <2>4, <2>5, <2>6, <3>1 DEF IsVerified
    <3>2. CASE run.state = "RECONCILIATION_REQUIRED"
      BY <2>4, <2>5, <2>6, <3>2 DEF IsOverdue, IsUnknown
    <3> QED
      BY <1>0, <3>1, <3>2
  <2>8. Stays(run, next)
    BY <1>0, <1>3, <2>4, NotTerminal DEF Stays, Lapsed
  <2>9. Promised(run, next)
    BY <1>0, <1>3, <2>5 DEF Promised, Happened
  <2>10. Evolves(run, next)
    BY <2>5, <2>7, <2>8, <2>9 DEF Evolves, Situated
  <2> QED
    BY <2>1, <2>10
<1> QED
  BY <1>1, <1>2, <1>3

(* simulateDrift, while a human is being waited for. *)
LEMMA DriftedEvolves ==
  ASSUME NEW run \in RunRecord, IsDecided(run), run.state = "APPROVAL_REQUIRED",
         run.versionNow < MaxVersion
  PROVE  Evolves(run, [run EXCEPT !.versionNow = @ + 1, !.answer = "200"])
<1> DEFINE next == [run EXCEPT !.versionNow = run.versionNow + 1, !.answer = "200"]
<1>1. ASSUME NEW version \in 1..MaxVersion, NEW answer \in {"none", "200", "500"}
      PROVE  LET changed == [run EXCEPT !.versionNow = version, !.answer = answer]
             IN  /\ changed \in RunRecord /\ changed.scenario = run.scenario
                 /\ changed.capability = run.capability /\ changed.outcome = run.outcome
                 /\ changed.tool = run.tool /\ changed.callCount = run.callCount
                 /\ changed.events = run.events
                 /\ changed.state = run.state /\ changed.execution = run.execution
  BY DEF RunRecord
<1>2. run.versionNow + 1 \in 1..MaxVersion
  <2>1. run.versionNow \in 1..MaxVersion
    BY DEF RunRecord
  <2> QED
    BY <2>1, Constants
<1>3. /\ next \in RunRecord /\ next.scenario = run.scenario
      /\ next.capability = run.capability /\ next.outcome = run.outcome
      /\ next.tool = run.tool /\ next.callCount = run.callCount
      /\ next.events = run.events
      /\ next.state = run.state /\ next.execution = run.execution
  BY <1>1, <1>2
<1> HIDE DEF next
<1>4. IsDecided(next)
  BY <1>3 DEF IsDecided
<1>5. Evolves(run, next)
  BY <1>3, <1>4, SteadyEvolves DEF Situated
<1> QED
  BY <1>5 DEF next

(* The integrity check is logged, wherever the run is. *)
LEMMA CheckedEvolves ==
  ASSUME NEW run \in RunRecord, Situated(run), run.scenario # "none"
  PROVE  Evolves(run, Logged([run EXCEPT !.answer = "200"], <<"AUDIT_INTEGRITY_CHECKED">>))
<1> DEFINE answered == [run EXCEPT !.answer = "200"]
           next == Logged(answered, <<"AUDIT_INTEGRITY_CHECKED">>)
<1>1. /\ Keeps(answered, run) /\ answered.events = run.events
      /\ answered.state = run.state /\ answered.execution = run.execution
  BY Answered
<1> HIDE DEF answered
<1>2. /\ Keeps(next, answered) /\ next.events = Append(answered.events, "AUDIT_INTEGRITY_CHECKED")
      /\ next.state = answered.state /\ next.execution = answered.execution
  BY <1>1, LoggedAs, Names DEF Keeps
<1> HIDE DEF next
<1>3. /\ Keeps(next, run) /\ next.events = Append(run.events, "AUDIT_INTEGRITY_CHECKED")
      /\ next.state = run.state /\ next.execution = run.execution
  BY <1>1, <1>2 DEF Keeps
<1>4. ASSUME NEW final, NEW stages, Ledgered(run.events, final, stages)
      PROVE  Ledgered(next.events, final, stages)
  <2>1. Ledgered(Append(run.events, "AUDIT_INTEGRITY_CHECKED"), final, stages)
    BY <1>4, LedgeredEvents
  <2> QED
    BY <1>3, <2>1
<1>5. ASSUME NEW final, IsExecuted(run, final) PROVE IsExecuted(next, final)
  BY <1>3, <1>5, ExecutedLogs
<1>6. Situated(next)
  <2>1. run # NotCreated
    BY DEF NotCreated
  <2>2. CASE IsDecided(run)
    BY <1>3, <1>4, <2>2 DEF Situated, IsDecided, Keeps
  <2>3. CASE IsStale(run)
    BY <1>3, <1>4, <2>3 DEF Situated, IsStale, Keeps
  <2>4. CASE IsExecuting(run)
    BY <1>3, <1>4, <2>4 DEF Situated, IsExecuting, Keeps
  <2>5. CASE IsVerified(run)
    BY <1>3, <1>5, <2>5 DEF Situated, IsVerified, Keeps
  <2>6. CASE IsUnknown(run)
    BY <1>3, <1>5, <2>6 DEF Situated, IsUnknown, Keeps
  <2>7. CASE IsOverdue(run)
    BY <1>3, <1>5, <2>7 DEF Situated, IsOverdue, Keeps
  <2> QED
    BY <2>1, <2>2, <2>3, <2>4, <2>5, <2>6, <2>7 DEF Situated
<1>7. Evolves(run, next)
  BY <1>3, <1>6, SteadyEvolves DEF Keeps
<1> QED
  BY <1>7 DEF next, answered

LEMMA TimedOutEvolves ==
  ASSUME NEW run \in RunRecord, Situated(run), run.tool = "sleeping", run.outcome = "none"
  PROVE  LET next == Concluded(Logged([run EXCEPT !.outcome = "unknown_outcome"],
                                      <<"EXECUTION_UNKNOWN">>), "unknown_outcome") IN
         Evolves(run, next) /\ IsUnknown(next) /\ next.answer = "200"
<1> DEFINE open == [run EXCEPT !.outcome = "unknown_outcome"]
           logged == Logged(open, <<"EXECUTION_UNKNOWN">>)
           next == Concluded(logged, "unknown_outcome")
<1>0. IsExecuting(run)
  BY DEF Situated, NotCreated, IsDecided, IsStale, IsVerified, IsUnknown, IsOverdue
<1>1. /\ run.state = "AUTHORIZED" /\ run.versionNow = 1 /\ run.scenario = "unknown_outcome"
      /\ run.capability = "consumed" /\ run.callCount = 1
      /\ Ledgered(run.events, "EXECUTING", Decided \cup {"capability", "execution"})
  BY <1>0 DEF IsExecuting
<1>2. /\ open \in RunRecord
      /\ open.scenario = "unknown_outcome" /\ open.versionNow = 1
      /\ open.capability = "consumed"
      /\ open.outcome = "unknown_outcome" /\ open.tool = "sleeping"
      /\ open.callCount = 1 /\ open.events = run.events
      /\ open.state = "AUTHORIZED"
  <2>1. /\ open \in RunRecord
        /\ open.scenario = run.scenario /\ open.versionNow = run.versionNow
        /\ open.capability = run.capability
        /\ open.outcome = "unknown_outcome" /\ open.tool = run.tool
        /\ open.callCount = run.callCount /\ open.events = run.events
        /\ open.state = run.state
    BY OutcomeAs
  <2> QED
    BY <1>1, <2>1
<1> HIDE DEF open
<1>3. /\ Keeps(logged, open) /\ logged.events = Append(run.events, "EXECUTION_UNKNOWN")
      /\ logged.state = "AUTHORIZED"
  BY <1>2, LoggedAs, Names
<1> HIDE DEF logged
<1>4. /\ Keeps(next, logged) /\ next.events = logged.events
      /\ next.state = "UNKNOWN_OUTCOME" /\ next.execution = "unknown_outcome"
      /\ next.answer = "200"
  BY <1>3, ConcludedAs, StatesAfter, Names DEF Keeps
<1> HIDE DEF next
<1>5. /\ next \in RunRecord /\ next.scenario = "unknown_outcome" /\ next.versionNow = 1
      /\ next.capability = "consumed" /\ next.callCount = 1
      /\ next.outcome = "unknown_outcome" /\ next.tool = "sleeping"
  BY <1>2, <1>3, <1>4 DEF Keeps
<1>6. IsUnknown(next)
  <2>1. Ledgered(Append(run.events, "EXECUTION_UNKNOWN"), "UNKNOWN_OUTCOME",
                 Decided \cup {"capability", "execution"} \cup {"verification"})
    BY <1>1, LedgeredEvents
  <2>2. Decided \cup {"capability", "execution"} \cup {"verification"} =
          Decided \cup Approval(next) \cup {"capability", "execution", "verification"}
    BY <1>5 DEF Approval
  <2>3. Ledgered(next.events, "UNKNOWN_OUTCOME",
                 Decided \cup Approval(next) \cup {"capability", "execution", "verification"})
    BY <1>3, <1>4, <2>1, <2>2
  <2> QED
    BY <1>4, <1>5, <2>3 DEF IsUnknown, IsExecuted
<1>7. Stays(run, next)
  BY <1>1, NotTerminal DEF Stays, Lapsed
<1>8. Evolves(run, next)
  BY <1>5, <1>6, <1>7 DEF Evolves, Situated, Promised, Happened
<1> QED
  BY <1>4, <1>6, <1>8 DEF next, logged, open

(* The slow tool performs after its caller has given up, or throws. *)
LEMMA SlowToolEvolves ==
  ASSUME NEW run \in RunRecord, Situated(run), run.tool = "sleeping", run.outcome # "none",
         NEW tool \in {"performed", "threw"}
  PROVE  Evolves(run, [run EXCEPT !.tool = tool])
<1> DEFINE next == [run EXCEPT !.tool = tool]
<1>0. IsUnknown(run)
  BY DEF Situated, NotCreated, IsDecided, IsStale, IsExecuting, IsVerified, IsOverdue
<1>1. /\ next \in RunRecord
      /\ next.scenario = run.scenario /\ next.versionNow = run.versionNow
      /\ next.capability = run.capability
      /\ next.outcome = run.outcome /\ next.tool = tool
      /\ next.callCount = run.callCount
      /\ next.events = run.events
      /\ next.state = run.state /\ next.execution = run.execution
  BY DEF RunRecord
<1> HIDE DEF next
<1>2. IsUnknown(next)
  BY <1>0, <1>1 DEF IsUnknown, IsExecuted, Approval
<1>3. Promised(run, next)
  BY <1>0, <1>1 DEF Promised, Happened, IsUnknown
<1>4. Evolves(run, next)
  BY <1>1, <1>2, <1>3 DEF Evolves, Situated, Stays
<1> QED
  BY <1>4 DEF next

-----------------------------------------------------------------------------
(* Steps.                                                                   *)

(* At most one run changes in a step, and it evolves. *)
LEMMA OneRunEvolves ==
  ASSUME RunsInv, Next
  PROVE  /\ now' \in 0..MaxTime
         /\ \/ runs' = runs
            \/ \E r \in Runs : \E run : runs' = [runs EXCEPT ![r] = run] /\ Evolves(runs[r], run)
<1> USE DEF RunsInv, TypeOK
<1>1. CASE Tick
  BY <1>1, Constants DEF Tick
<1>2. ASSUME NEW r \in Runs, NEW run, Update(r, run), Evolves(runs[r], run)
      PROVE  /\ now' \in 0..MaxTime
             /\ \E s \in Runs : \E new : runs' = [runs EXCEPT ![s] = new] /\ Evolves(runs[s], new)
  BY <1>2 DEF Update
<1>3. \A r \in Runs : runs[r] \in RunRecord /\ Situated(runs[r])
  OBVIOUS
<1>4. \A r \in Runs : runs[r].scenario = "none" => runs[r] = NotCreated
  BY Names DEF Situated, IsDecided, IsStale, IsExecuting, IsVerified, IsUnknown, IsOverdue
<1>5. \A r \in Runs : runs[r].state = "APPROVAL_REQUIRED" => IsDecided(runs[r])
  BY <1>3 DEF Situated, NotCreated, IsStale, IsExecuting, IsVerified, IsUnknown, IsOverdue
<1>6. \A r \in Runs : runs[r].state = "VERIFIED" => IsVerified(runs[r])
  BY <1>3 DEF Situated, NotCreated, IsDecided, IsStale, IsExecuting, IsUnknown, IsOverdue
<1>7. \A r \in Runs : runs[r].state \in {"UNKNOWN_OUTCOME", "RECONCILIATION_REQUIRED"} =>
        IsUnknown(runs[r]) \/ IsOverdue(runs[r])
  BY <1>3 DEF Situated, NotCreated, IsDecided, IsStale, IsExecuting, IsVerified
<1>8. ASSUME NEW r \in Runs, CreateDenied(r)
      PROVE  \E run : Update(r, run) /\ Evolves(runs[r], run)
  BY <1>4, <1>8, CreatedEvolves DEF CreateDenied
<1>9. ASSUME NEW r \in Runs, NEW scenario \in ApprovalScenarios, CreateForApproval(r, scenario)
      PROVE  \E run : Update(r, run) /\ Evolves(runs[r], run)
  BY <1>4, <1>9, CreatedEvolves DEF CreateForApproval
<1>10. ASSUME NEW r \in Runs, CreateAllowed(r)
       PROVE  \E run : Update(r, run) /\ Evolves(runs[r], run)
  BY <1>4, <1>10, CreatedEvolves DEF CreateAllowed
<1>11. ASSUME NEW r \in Runs, SimulateDrift(r)
       PROVE  \E run : Update(r, run) /\ Evolves(runs[r], run)
  BY <1>3, <1>5, <1>11, DriftedEvolves DEF SimulateDrift, Accepts
<1>12. ASSUME NEW r \in Runs, ApproveRun(r)
       PROVE  \E run : Update(r, run) /\ Evolves(runs[r], run)
  BY <1>3, <1>5, <1>12, ApprovedEvolves DEF ApproveRun, Accepts
<1>13. ASSUME NEW r \in Runs, ReplayRun(r)
       PROVE  \E run : Update(r, run) /\ Evolves(runs[r], run)
  BY <1>3, <1>6, <1>13, VerifiedExecutes DEF ReplayRun, Accepts
<1>14. ASSUME NEW r \in Runs, ReconcileRun(r)
       PROVE  \E run : Update(r, run) /\ Evolves(runs[r], run)
  BY <1>3, <1>7, <1>14, UnknownExecutes, OverdueExecutes DEF ReconcileRun, Accepts
<1>15. ASSUME NEW r \in Runs, VerifyRunLedger(r)
       PROVE  \E run : Update(r, run) /\ Evolves(runs[r], run)
  BY <1>3, <1>15, CheckedEvolves DEF VerifyRunLedger, Accepts
<1>16. ASSUME NEW r \in Runs, TimeOut(r)
       PROVE  \E run : Update(r, run) /\ Evolves(runs[r], run)
  BY <1>3, <1>16, TimedOutEvolves DEF TimeOut
<1>17. ASSUME NEW r \in Runs, SlowToolPerforms(r) \/ SlowToolThrows(r)
       PROVE  \E run : Update(r, run) /\ Evolves(runs[r], run)
  BY <1>3, <1>17, SlowToolEvolves DEF SlowToolPerforms, SlowToolThrows
<1> QED
  BY <1>1, <1>2, <1>8, <1>9, <1>10, <1>11, <1>12, <1>13, <1>14, <1>15, <1>16, <1>17 DEF Next

LEMMA InitRunsInv == Init => RunsInv
<1>1. 0 \in 0..MaxTime
  BY Constants
<1> QED
  BY <1>1, NotCreatedIsARun DEF Init, RunsInv, TypeOK, Situated

LEMMA NextRunsInv == RunsInv /\ [Next]_vars => RunsInv'
<1> SUFFICES ASSUME RunsInv, [Next]_vars PROVE RunsInv'
  OBVIOUS
<1>1. CASE Next
  BY <1>1, OneRunEvolves DEF RunsInv, TypeOK, Evolves
<1>2. CASE UNCHANGED vars
  BY <1>2 DEF RunsInv, TypeOK, vars
<1> QED
  BY <1>1, <1>2

(* Every run is in one of its situations, with the types that go with it. *)
THEOREM RunsAreSituated == Spec => []RunsInv
BY InitRunsInv, NextRunsInv, PTL DEF Spec

-----------------------------------------------------------------------------
(* The properties.                                                          *)

(* What the state holds is what it is meant to hold. *)
THEOREM RunsAreTyped == Spec => []TypeOK
BY RunsAreSituated, PTL DEF RunsInv

LEMMA EmptyLedger ==
  /\ InOrder(<<>>) /\ StagesSeen(<<>>) = {} /\ ProjectOperation(<<>>) = "NO_EVENTS"
<1>1. StagesSeen(<<>>) = {}
  BY DEF StagesSeen, Positions
<1> QED
  BY <1>1 DEF InOrder, ProjectOperation

(* No adapter is called but for a run whose ledger shows, in the pipeline's
   order, the stages the call rests on. *)
THEOREM NoCallWithoutAuthority == Spec => []CallsAreAuthorized
<1>1. RunsInv => CallsAreAuthorized
  <2> SUFFICES ASSUME RunsInv, NEW r \in Runs
               PROVE  LET run == runs[r] IN
                      /\ InOrder(run.events)
                      /\ run.callCount > 0 =>
                           /\ {"capability", "execution"} \subseteq StagesSeen(run.events)
                           /\ run.scenario # "unknown_outcome" => "approval" \in StagesSeen(run.events)
    BY DEF CallsAreAuthorized
  <2> DEFINE run == runs[r]
  <2>1. Situated(run)
    BY DEF RunsInv
  <2> HIDE DEF run
  <2>2. CASE run = NotCreated
    BY <2>2, EmptyLedger DEF NotCreated, run
  <2>3. CASE IsDecided(run) \/ IsStale(run)
    BY <2>3 DEF IsDecided, IsStale, Ledgered, run
  <2>4. CASE IsExecuting(run)
    BY <2>4 DEF IsExecuting, Ledgered, run
  <2>5. CASE IsVerified(run)
    BY <2>5 DEF IsVerified, IsExecuted, Ledgered, Approval, run
  <2>6. CASE IsUnknown(run) \/ IsOverdue(run)
    BY <2>6 DEF IsUnknown, IsOverdue, IsExecuted, Ledgered, Approval, run
  <2> QED
    BY <2>1, <2>2, <2>3, <2>4, <2>5, <2>6 DEF Situated
<1> QED
  BY <1>1, RunsAreSituated, PTL

(* A drift that came before the approval leaves the tool untouched. *)
THEOREM DriftIsNotActedOn == Spec => []DriftStopsExecution
<1>1. ASSUME NEW run, Situated(run), run.versionNow # 1
      PROVE  run.callCount = 0 /\ run.state \in {"APPROVAL_REQUIRED", "STALE"}
  <2>1. run # NotCreated
    BY <1>1 DEF NotCreated
  <2> QED
    BY <1>1, <2>1 DEF Situated, IsDecided, IsStale, IsExecuting, IsVerified, IsUnknown,
                      IsOverdue, IsExecuted
<1>2. RunsInv => DriftStopsExecution
  BY <1>1 DEF RunsInv, DriftStopsExecution
<1> QED
  BY <1>2, RunsAreSituated, PTL

(* No interleaving of replays, reconciliations and timeouts calls twice. *)
THEOREM AdaptersAreCalledOnce == Spec => []ExecutesOnce
<1>1. ASSUME NEW run, Situated(run) PROVE run.callCount \in {0, 1}
  <2>1. run = NotCreated => run.callCount = 0
    BY DEF NotCreated
  <2> QED
    BY <1>1, <2>1 DEF Situated, IsDecided, IsStale, IsExecuting, IsVerified, IsUnknown,
                      IsOverdue, IsExecuted
<1>2. RunsInv => ExecutesOnce
  BY <1>1 DEF RunsInv, ExecutesOnce
<1> QED
  BY <1>2, RunsAreSituated, PTL

(* Neither a run nor its store claims what the tool has not done. *)
THEOREM VerifiedRunsAreReal == Spec => []VerifiedIsReal
<1>1. RunsInv => VerifiedIsReal
  BY DEF RunsInv, VerifiedIsReal, Situated, NotCreated, IsDecided, IsStale,
         IsExecuting, IsVerified, IsUnknown, IsOverdue
<1> QED
  BY <1>1, RunsAreSituated, PTL

(* A run's state and the projection of its ledger agree, however long it is. *)
THEOREM LedgersFollowStates == Spec => []LedgerFollowsState
<1>1. RunsInv => LedgerFollowsState
  <2> SUFFICES ASSUME RunsInv, NEW r \in Runs
               PROVE  LET run == runs[r]
                          final == ProjectOperation(run.events) IN
                      CASE run.state \in {"DENIED", "APPROVAL_REQUIRED"} -> final = "POLICY_DECIDED"
                        [] run.state = "AUTHORIZED" -> final = "EXECUTING"
                        [] run.state = "STALE" -> final = "FAILED"
                        [] run.state \in {"VERIFIED", "UNKNOWN_OUTCOME"} -> final = run.state
                        [] run.state = "RECONCILIATION_REQUIRED" ->
                             \/ final = "RECONCILIATION_REQUIRED"
                             \/ final = "VERIFIED" /\ run.outcome = "succeeded"
                        [] OTHER -> final = "NO_EVENTS"
    BY DEF LedgerFollowsState
  <2> DEFINE run == runs[r]
             final == ProjectOperation(run.events)
  <2>1. Situated(run)
    BY DEF RunsInv
  <2> HIDE DEF run
  <2>2. CASE run = NotCreated
    <3>1. run.state = "PROPOSED" /\ run.events = <<>>
      BY <2>2 DEF NotCreated
    <3> QED
      BY <3>1, EmptyLedger DEF run
  <2>3. CASE IsDecided(run)
    BY <2>3 DEF IsDecided, Ledgered, run
  <2>4. CASE IsStale(run)
    BY <2>4 DEF IsStale, Ledgered, run
  <2>5. CASE IsExecuting(run)
    BY <2>5 DEF IsExecuting, Ledgered, run
  <2>6. CASE IsVerified(run)
    BY <2>6 DEF IsVerified, IsExecuted, Ledgered, run
  <2>7. CASE IsUnknown(run)
    BY <2>7 DEF IsUnknown, IsExecuted, Ledgered, run
  <2>8. CASE IsOverdue(run)
    BY <2>8 DEF IsOverdue, IsExecuted, Ledgered, run
  <2> QED
    BY <2>1, <2>2, <2>3, <2>4, <2>5, <2>6, <2>7, <2>8 DEF Situated
<1> QED
  BY <1>1, RunsAreSituated, PTL

(* A terminal run stays, and so does a lapsed one with its outcome. *)
THEOREM RunsStayEnded == Spec => EndedRunsStay
<1> DEFINE Kept == \A r \in Runs :
             /\ IsTerminal(runs[r].state) \/ Lapsed(runs[r]) => runs'[r].state = runs[r].state
             /\ Lapsed(runs[r]) => runs'[r].outcome = runs[r].outcome
<1>1. RunsInv /\ [Next]_vars => [Kept]_vars
  <2> SUFFICES ASSUME RunsInv, Next PROVE Kept
    OBVIOUS
  <2>1. CASE runs' = runs
    BY <2>1
  <2>2. ASSUME NEW r \in Runs, NEW run, runs' = [runs EXCEPT ![r] = run], Evolves(runs[r], run)
        PROVE  Kept
    BY <2>2 DEF RunsInv, TypeOK, Evolves, Stays
  <2> QED
    BY <2>1, <2>2, OneRunEvolves
<1> QED
  BY <1>1, RunsAreSituated, PTL DEF Spec, EndedRunsStay

-----------------------------------------------------------------------------
(* The refinement.                                                          *)

LEMMA InitPromised == Init => Promise!OutcomeInit
BY DEF Init, NotCreated, Promise!OutcomeInit

(* Each of the five ways to evolve is an action of the promise, or none. *)
LEMMA StepPromised ==
  RunsInv /\ [Next]_vars => [Promise!OutcomeNext]_(Promise!outcomeVars)
<1> DEFINE effects == [r \in Runs |-> IF runs[r].tool = "performed" THEN 1 ELSE 0]
           outcome == [r \in Runs |-> runs[r].outcome]
<1> SUFFICES ASSUME RunsInv, [Next]_vars
             PROVE  Promise!OutcomeNext \/ (effects' = effects /\ outcome' = outcome)
  BY DEF Promise!outcomeVars
<1>1. CASE runs' = runs
  BY <1>1
<1>2. ASSUME NEW r \in Runs, NEW run, runs' = [runs EXCEPT ![r] = run], Evolves(runs[r], run)
      PROVE  Promise!OutcomeNext \/ (effects' = effects /\ outcome' = outcome)
  <2> DEFINE effect(x) == IF Happened(x) THEN 1 ELSE 0
  <2>1. /\ effects \in [Runs -> {0, 1}] /\ effects[r] = effect(runs[r])
        /\ outcome[r] = runs[r].outcome
        /\ effects' = [effects EXCEPT ![r] = effect(run)]
        /\ outcome' = [outcome EXCEPT ![r] = run.outcome]
    BY <1>2 DEF RunsInv, TypeOK, Happened
  <2>2. /\ run.outcome = runs[r].outcome => outcome' = outcome
        /\ (Happened(run) <=> Happened(runs[r])) => effects' = effects
    BY <2>1
  <2>3. Promised(runs[r], run)
    BY <1>2 DEF Evolves
  <2> HIDE DEF effects, outcome
  <2>4. CASE /\ runs[r].outcome \in {"none", "unknown_outcome"} /\ run.outcome = runs[r].outcome
             /\ ~ Happened(runs[r]) /\ Happened(run)
    <3>1. Promise!Happen(r)
      BY <2>1, <2>2, <2>4 DEF Promise!Happen, effects, outcome
    <3> QED
      BY <3>1 DEF Promise!OutcomeNext
  <2>5. CASE /\ runs[r].outcome = "none" /\ run.outcome = "unknown_outcome"
             /\ Happened(run) <=> Happened(runs[r])
    <3>1. Promise!GiveUp(r)
      BY <2>1, <2>2, <2>5 DEF Promise!GiveUp, Promise!Decide, effects, outcome
    <3> QED
      BY <3>1 DEF Promise!OutcomeNext
  <2>6. CASE /\ runs[r].outcome \in {"none", "unknown_outcome"} /\ run.outcome = "succeeded"
             /\ Happened(runs[r]) /\ Happened(run)
    <3>1. Promise!Succeed(r)
      BY <2>1, <2>2, <2>6 DEF Promise!Succeed, Promise!Decide, effects, outcome
    <3> QED
      BY <3>1 DEF Promise!OutcomeNext
  <2>7. CASE /\ runs[r].outcome = "none" /\ run.outcome = "succeeded"
             /\ ~ Happened(runs[r]) /\ Happened(run)
    <3>1. Promise!HappenAndSucceed(r)
      BY <2>1, <2>7 DEF Promise!HappenAndSucceed, effects, outcome
    <3> QED
      BY <3>1 DEF Promise!OutcomeNext
  <2> QED
    BY <2>2, <2>3, <2>4, <2>5, <2>6, <2>7 DEF Promised
<1>3. CASE UNCHANGED vars
  BY <1>3 DEF vars
<1> QED
  BY <1>1, <1>2, <1>3, OneRunEvolves

(* The orchestrator's runs implement what OperationOutcome promises. *)
THEOREM RunsRefineThePromise == Spec => RunsKeepThePromise
BY InitPromised, StepPromised, RunsAreSituated, PTL
   DEF Spec, RunsKeepThePromise, Promise!OutcomeSpec

-----------------------------------------------------------------------------
(* What lasts of a run: what may be concluded from having seen it.          *)

Extends(longer, events) ==
  /\ Len(events) <= Len(longer)
  /\ \A i \in 1..Len(events) : longer[i] = events[i]

(* The handlers' helpers only ever add to what a client sees of a run; which
   values they add does not matter, so a run is a record of the right fields. *)
Plain(run) ==
  /\ run = [scenario |-> run.scenario, state |-> run.state, versionNow |-> run.versionNow,
            capability |-> run.capability, expiresAt |-> run.expiresAt,
            outcome |-> run.outcome, tool |-> run.tool, callCount |-> run.callCount,
            events |-> run.events, execution |-> run.execution, answer |-> run.answer]
  /\ run.events \in Seq(AuditEventTypes)

Adds(run, next) ==
  /\ Plain(next)
  /\ next.scenario = run.scenario /\ next.versionNow = run.versionNow
  /\ Extends(next.events, run.events)

LEMMA AddsNothing == ASSUME NEW run, Plain(run) PROVE Adds(run, run)
<1>1. Len(run.events) \in Nat
  BY DEF Plain
<1> QED
  BY <1>1 DEF Adds, Extends

LEMMA AddsMore ==
  ASSUME NEW run, NEW then, NEW next, Plain(run), Adds(run, then), Adds(then, next)
  PROVE  Adds(run, next)
<1>1. /\ Len(run.events) \in Nat /\ Len(then.events) \in Nat /\ Len(next.events) \in Nat
      /\ Len(run.events) <= Len(then.events) /\ Len(then.events) <= Len(next.events)
  BY DEF Adds, Plain, Extends
<1>2. ASSUME NEW i \in 1..Len(run.events) PROVE next.events[i] = run.events[i]
  <2>1. i \in 1..Len(then.events)
    BY <1>1
  <2> QED
    BY <2>1 DEF Adds, Extends
<1>3. Len(run.events) <= Len(next.events)
  BY <1>1
<1> QED
  BY <1>2, <1>3 DEF Adds, Extends

LEMMA ChangesAddNothing ==
  ASSUME NEW run, Plain(run), NEW value
  PROVE  /\ Adds(run, [run EXCEPT !.state = value])
         /\ Adds(run, [run EXCEPT !.capability = value])
         /\ Adds(run, [run EXCEPT !.expiresAt = value])
         /\ Adds(run, [run EXCEPT !.outcome = value])
         /\ Adds(run, [run EXCEPT !.tool = value])
         /\ Adds(run, [run EXCEPT !.callCount = value])
         /\ Adds(run, [run EXCEPT !.execution = value])
         /\ Adds(run, [run EXCEPT !.answer = value])
<1>1. ASSUME NEW next, Plain(next), next.scenario = run.scenario,
             next.versionNow = run.versionNow, next.events = run.events
      PROVE  Adds(run, next)
  BY <1>1, AddsNothing DEF Adds
<1>2. Adds(run, [run EXCEPT !.state = value])
  BY <1>1 DEF Plain
<1>3. Adds(run, [run EXCEPT !.capability = value])
  BY <1>1 DEF Plain
<1>4. Adds(run, [run EXCEPT !.expiresAt = value])
  BY <1>1 DEF Plain
<1>5. Adds(run, [run EXCEPT !.outcome = value])
  BY <1>1 DEF Plain
<1>6. Adds(run, [run EXCEPT !.tool = value])
  BY <1>1 DEF Plain
<1>7. Adds(run, [run EXCEPT !.callCount = value])
  BY <1>1 DEF Plain
<1>8. Adds(run, [run EXCEPT !.execution = value])
  BY <1>1 DEF Plain
<1>9. Adds(run, [run EXCEPT !.answer = value])
  BY <1>1 DEF Plain
<1> QED
  BY <1>2, <1>3, <1>4, <1>5, <1>6, <1>7, <1>8, <1>9

LEMMA LoggedAdds ==
  ASSUME NEW run, Plain(run), NEW events \in Seq(AuditEventTypes)
  PROVE  Adds(run, Logged(run, events))
<1> DEFINE longer == run.events \o events
<1>1. run.events \in Seq(AuditEventTypes)
  BY DEF Plain
<1>2. longer \in Seq(AuditEventTypes) /\ Extends(longer, run.events)
  BY <1>1 DEF Extends
<1> HIDE DEF longer
<1>3. Logged(run, events) = [run EXCEPT !.events = longer]
  BY DEF Logged, longer
<1> DEFINE logged == [run EXCEPT !.events = longer]
<1>4. /\ Plain(logged)
      /\ logged.scenario = run.scenario
      /\ logged.versionNow = run.versionNow
      /\ logged.events = longer
  <2>1. logged = [scenario |-> run.scenario, state |-> run.state,
                  versionNow |-> run.versionNow, capability |-> run.capability,
                  expiresAt |-> run.expiresAt, outcome |-> run.outcome,
                  tool |-> run.tool, callCount |-> run.callCount,
                  events |-> longer, execution |-> run.execution,
                  answer |-> run.answer]
    BY DEF Plain
  <2> HIDE DEF logged
  <2> QED
    BY <1>2, <2>1 DEF Plain
<1>5. Adds(run, logged)
  <2> HIDE DEF logged
  <2> QED
    BY <1>2, <1>4 DEF Adds
<1> QED
  BY <1>3, <1>5

LEMMA ConcludedAdds ==
  ASSUME NEW run, Plain(run), NEW result
  PROVE  Adds(run, Concluded(run, result))
<1> DEFINE state == StateAfter(run.state, result)
           moved == [run EXCEPT !.state = state]
           told == [moved EXCEPT !.execution = result]
<1>1. Adds(run, moved)
  BY ChangesAddNothing
<1>2. Adds(moved, told)
  <2>1. Plain(moved)
    BY <1>1 DEF Adds
  <2> HIDE DEF moved
  <2> QED
    BY <2>1, ChangesAddNothing
<1>3. Adds(told, [told EXCEPT !.answer = "200"])
  <2>1. Plain(told)
    BY <1>2 DEF Adds
  <2> HIDE DEF told
  <2> QED
    BY <2>1, ChangesAddNothing
<1>4. [run EXCEPT !.state = state, !.execution = result, !.answer = "200"] =
        [told EXCEPT !.answer = "200"]
  OBVIOUS
<1>5. \/ Concluded(run, result) = [run EXCEPT !.answer = "500"]
      \/ Concluded(run, result) = [told EXCEPT !.answer = "200"]
  BY <1>4 DEF Concluded
<1>6. Adds(run, [run EXCEPT !.answer = "500"])
  BY ChangesAddNothing
<1> HIDE DEF told, moved
<1> QED
  BY <1>1, <1>2, <1>3, <1>5, <1>6, AddsMore

(* Several fields at once. *)
LEMMA UpdatesAddNothing ==
  ASSUME NEW run, Plain(run), NEW capability, NEW callCount, NEW tool, NEW outcome, NEW expiresAt
  PROVE  /\ Adds(run, Requested(run, capability, callCount, tool))
         /\ Adds(run, Called(run, capability, callCount, tool, outcome))
         /\ Adds(run, Minted(run, capability, expiresAt))
<1> DEFINE one == [run EXCEPT !.capability = capability]
           two == [one EXCEPT !.callCount = callCount]
           three == [two EXCEPT !.tool = tool]
<1>1. ASSUME NEW x, Plain(x), NEW y, Adds(run, x), Adds(x, y)
      PROVE  Adds(run, y) /\ Plain(y)
  BY <1>1, AddsMore DEF Adds
<1>2. Adds(run, one) /\ Plain(one)
  BY ChangesAddNothing DEF Adds
<1>3. /\ Requested(run, capability, callCount, tool) = three
      /\ Called(run, capability, callCount, tool, outcome) = [three EXCEPT !.outcome = outcome]
      /\ Minted(run, capability, expiresAt) = [one EXCEPT !.expiresAt = expiresAt]
  BY DEF Requested, Called, Minted
<1> HIDE DEF one
<1>4. Adds(run, two) /\ Plain(two)
  <2>1. Adds(one, two)
    BY <1>2, ChangesAddNothing
  <2> QED
    BY <1>1, <1>2, <2>1
<1> HIDE DEF two
<1>5. Adds(run, three) /\ Plain(three)
  <2>1. Adds(two, three)
    BY <1>4, ChangesAddNothing
  <2> QED
    BY <1>1, <1>4, <2>1
<1> HIDE DEF three
<1>6. Adds(run, [three EXCEPT !.outcome = outcome])
  <2>1. Adds(three, [three EXCEPT !.outcome = outcome])
    BY <1>5, ChangesAddNothing
  <2> QED
    BY <1>1, <1>5, <2>1
<1>7. Adds(run, [one EXCEPT !.expiresAt = expiresAt])
  <2>1. Adds(one, [one EXCEPT !.expiresAt = expiresAt])
    BY <1>2, ChangesAddNothing
  <2> QED
    BY <1>1, <1>2, <2>1
<1> QED
  BY <1>3, <1>5, <1>6, <1>7

LEMMA ConcludedLogAdds ==
  ASSUME NEW run, NEW then, Plain(run), Adds(run, then),
         NEW events \in Seq(AuditEventTypes), NEW result
  PROVE  Adds(run, Concluded(Logged(then, events), result))
<1> DEFINE logged == Logged(then, events)
<1>1. Plain(then)
  BY DEF Adds
<1>2. Adds(then, logged)
  BY <1>1, LoggedAdds
<1> HIDE DEF logged
<1>3. Adds(run, logged) /\ Plain(logged)
  BY <1>2, AddsMore DEF Adds
<1>4. Adds(logged, Concluded(logged, result))
  BY <1>3, ConcludedAdds
<1> QED
  BY <1>3, <1>4, AddsMore DEF logged

LEMMA Singles ==
  \A e \in {"APPROVAL_CONSUMED", "CAPABILITY_MINTED", "PRECONDITION_FAILED",
            "DUPLICATE_REPLAY_DETECTED", "EXECUTION_STARTED", "EXECUTION_UNKNOWN",
            "POSTCONDITION_VERIFIED", "RECONCILIATION_REQUIRED",
            "AUDIT_INTEGRITY_CHECKED"} : <<e>> \in Seq(AuditEventTypes)
<1>1. \A e \in AuditEventTypes : <<e>> \in Seq(AuditEventTypes)
  OBVIOUS
<1> QED
  BY <1>1, Names

(* executeAction and applyExecutionResult, whatever they decide. *)
LEMMA ExecuteAdds ==
  ASSUME NEW run, Plain(run)
  PROVE  Adds(run, Execute(run))
<1>1. \A result : Adds(run, Concluded(run, result))
  BY ConcludedAdds
<1>2. \A e \in {"PRECONDITION_FAILED", "DUPLICATE_REPLAY_DETECTED",
                "RECONCILIATION_REQUIRED"}, result \in Results :
        Adds(run, Concluded(Logged(run, <<e>>), result))
  BY AddsNothing, ConcludedLogAdds, Singles
<1>3. Adds(run, MessageSent(run))
  <2> DEFINE sent == Called(run, "consumed", run.callCount + 1, "performed", "succeeded")
             events == <<"EXECUTION_STARTED", "POSTCONDITION_VERIFIED">>
  <2>1. MessageSent(run) = Concluded(Logged(sent, events), "success")
    BY DEF MessageSent, Called
  <2>2. Adds(run, sent)
    BY UpdatesAddNothing
  <2>3. events \in Seq(AuditEventTypes)
    BY Names
  <2> HIDE DEF sent, events
  <2> QED
    BY <2>1, <2>2, <2>3, ConcludedLogAdds
<1>4. Adds(run, TicketRequested(run))
  <2> DEFINE asked == Requested(run, "consumed", run.callCount + 1, "sleeping")
  <2>1. TicketRequested(run) = Logged(asked, <<"EXECUTION_STARTED">>)
    BY DEF TicketRequested, Requested
  <2>2. Adds(run, asked)
    BY UpdatesAddNothing
  <2> HIDE DEF asked
  <2>3. Adds(asked, Logged(asked, <<"EXECUTION_STARTED">>))
    BY <2>2, LoggedAdds, Singles DEF Adds
  <2> QED
    BY <2>1, <2>2, <2>3, AddsMore
<1>5. Adds(run, Reconciled(run))
  <2> DEFINE open == [run EXCEPT !.outcome = "succeeded"]
             closed == Concluded(Logged(open, <<"POSTCONDITION_VERIFIED">>), "RECONCILED_SUCCESS")
  <2>1. Adds(run, open)
    BY ChangesAddNothing
  <2>2. Adds(run, closed)
    <3> HIDE DEF open
    <3> QED
      BY <2>1, ConcludedLogAdds, Singles
  <2>3. Adds(run, Concluded(Logged(run, <<"RECONCILIATION_REQUIRED">>), "reconciliation_required"))
    BY <1>2, Names
  <2> QED
    BY <2>2, <2>3 DEF Reconciled
<1>6. Adds(run, Started(run))
  BY <1>1, <1>3, <1>4 DEF Started
<1>7. Adds(run, Dispatched(run))
  <2>1. Adds(run, Concluded(Logged(run, <<"DUPLICATE_REPLAY_DETECTED">>), "IDEMPOTENT_REPLAY"))
    BY <1>2, Names
  <2> QED
    BY <1>1, <1>5, <1>6, <2>1 DEF Dispatched
<1>8. Adds(run, Concluded(Logged(run, <<"PRECONDITION_FAILED">>), "precondition"))
  BY <1>2, Names
<1> QED
  BY <1>1, <1>7, <1>8 DEF Execute

LEMMA AuthorizeAdds ==
  ASSUME NEW run, Plain(run)
  PROVE  Adds(run, AuthorizeAndExecute(run))
<1> DEFINE granted == Minted(run, "active", now + TTL)
           minted == Logged(granted, <<"CAPABILITY_MINTED">>)
<1>1. AuthorizeAndExecute(run) = Execute(minted)
  BY DEF AuthorizeAndExecute, Minted
<1>2. Adds(run, granted)
  BY UpdatesAddNothing
<1> HIDE DEF granted
<1>3. Adds(run, minted)
  <2>1. Adds(granted, minted)
    BY <1>2, LoggedAdds, Singles DEF Adds
  <2> QED
    BY <1>2, <2>1, AddsMore
<1> HIDE DEF minted
<1>4. Adds(minted, Execute(minted))
  BY <1>3, ExecuteAdds DEF Adds
<1> QED
  BY <1>1, <1>3, <1>4, AddsMore

(* What a client that has seen a run at rest may conclude later.  Only a run
   that waits for the slow tool is not at rest. *)
Resting(run) == Situated(run) /\ run # NotCreated /\ ~ IsExecuting(run)

Since(past, run) ==
  /\ run.scenario = past.scenario
  /\ past.versionNow <= run.versionNow
  /\ Extends(run.events, past.events)
  /\ IsTerminal(past.state) => run.state = past.state
  /\ Happened(past) => Happened(run)
  /\ past.outcome # "none" => run.outcome # "none"

LEMMA SinceItself == ASSUME NEW run \in RunRecord PROVE Since(run, run)
<1>1. run.versionNow \in Nat /\ run.events \in Seq(AuditEventTypes)
  BY Constants DEF RunRecord
<1> QED
  BY <1>1 DEF Since, Extends

LEMMA SinceLonger ==
  ASSUME NEW past \in RunRecord, NEW run \in RunRecord, NEW next \in RunRecord,
         Since(past, run), Since(run, next)
  PROVE  Since(past, next)
<1>1. /\ past.versionNow \in Nat /\ run.versionNow \in Nat /\ next.versionNow \in Nat
      /\ Len(past.events) \in Nat /\ Len(run.events) \in Nat /\ Len(next.events) \in Nat
  BY Constants DEF RunRecord
<1>2. past.versionNow <= next.versionNow
  BY <1>1 DEF Since
<1>3. Extends(next.events, past.events)
  <2>1. Len(past.events) <= Len(next.events)
    BY <1>1 DEF Since, Extends
  <2>2. ASSUME NEW i \in 1..Len(past.events) PROVE next.events[i] = past.events[i]
    <3>1. i \in 1..Len(run.events)
      BY <1>1 DEF Since, Extends
    <3> QED
      BY <3>1 DEF Since, Extends
  <2> QED
    BY <2>1, <2>2 DEF Extends
<1> QED
  BY <1>2, <1>3 DEF Since

LEMMA AddedSince ==
  ASSUME NEW run \in RunRecord, NEW next, Evolves(run, next), Adds(run, next)
  PROVE  Since(run, next)
<1>1. run.versionNow <= next.versionNow
  BY Constants DEF Adds, RunRecord
<1>2. /\ Happened(run) => Happened(next)
      /\ run.outcome # "none" => next.outcome # "none"
  BY DEF Evolves, Promised
<1> QED
  BY <1>1, <1>2 DEF Since, Adds, Evolves, Stays

(* What is at rest stays so: no run is executed twice. *)
LEMMA RestingStays ==
  ASSUME NEW run \in RunRecord, NEW next, Situated(next), Resting(run), Since(run, next)
  PROVE  Resting(next)
<1>1. run.scenario # "none"
  BY Names DEF Resting, Situated, IsDecided, IsStale, IsVerified, IsUnknown, IsOverdue
<1>2. next # NotCreated
  BY <1>1 DEF Since, NotCreated
<1>3. CASE IsDecided(run) \/ IsStale(run)
  BY <1>2, <1>3, Names DEF Resting, Since, IsDecided, IsStale, IsExecuting
<1>4. CASE IsVerified(run) \/ IsUnknown(run) \/ IsOverdue(run)
  BY <1>2, <1>4 DEF Resting, Since, IsVerified, IsUnknown, IsOverdue, IsExecuting
<1> QED
  BY <1>3, <1>4 DEF Resting, Situated

LEMMA RecordsArePlain == ASSUME NEW run \in RunRecord PROVE Plain(run)
BY DEF RunRecord, Plain

(* A request that is served changes its run, which goes on from where it was. *)
LEMMA RequestsServed ==
  ASSUME RunsInv, NEW r \in Runs,
         \/ SimulateDrift(r) \/ ApproveRun(r) \/ ReplayRun(r) \/ ReconcileRun(r)
         \/ VerifyRunLedger(r)
  PROVE  /\ now' = now /\ runs' = [runs EXCEPT ![r] = runs'[r]]
         /\ runs[r].scenario # "none"
         /\ Since(runs[r], runs'[r])
<1> DEFINE run == runs[r]
<1>1. run \in RunRecord /\ Situated(run) /\ Plain(run)
  BY RecordsArePlain DEF RunsInv, TypeOK
<1>2. ASSUME NEW next, Update(r, next)
      PROVE  now' = now /\ runs'[r] = next /\ runs' = [runs EXCEPT ![r] = runs'[r]]
  BY <1>2 DEF Update, RunsInv, TypeOK
<1>3. ASSUME NEW next, Update(r, next), Evolves(run, next), Adds(run, next)
      PROVE  now' = now /\ runs' = [runs EXCEPT ![r] = runs'[r]] /\ Since(run, runs'[r])
  BY <1>1, <1>2, <1>3, AddedSince
<1>4. run.state = "APPROVAL_REQUIRED" => IsDecided(run)
  BY <1>1 DEF Situated, NotCreated, IsStale, IsExecuting, IsVerified, IsUnknown, IsOverdue
<1>5. run.state = "VERIFIED" => IsVerified(run)
  BY <1>1 DEF Situated, NotCreated, IsDecided, IsStale, IsExecuting, IsUnknown, IsOverdue
<1>6. run.state \in {"UNKNOWN_OUTCOME", "RECONCILIATION_REQUIRED"} =>
        IsUnknown(run) \/ IsOverdue(run)
  BY <1>1 DEF Situated, NotCreated, IsDecided, IsStale, IsExecuting, IsVerified
<1> HIDE DEF run
<1>7. CASE SimulateDrift(r)
  <2> DEFINE next == [run EXCEPT !.versionNow = @ + 1, !.answer = "200"]
  <2>1. /\ run.scenario # "none" /\ run.state = "APPROVAL_REQUIRED"
        /\ run.versionNow < MaxVersion /\ Update(r, next)
    BY <1>7 DEF SimulateDrift, Accepts, run
  <2>2. Evolves(run, next)
    BY <1>1, <1>4, <2>1, DriftedEvolves
  <2>3. /\ next.scenario = run.scenario /\ next.versionNow = run.versionNow + 1
        /\ next.events = run.events
    BY <1>1 DEF Plain
  <2> HIDE DEF next
  <2>4. run.versionNow <= next.versionNow
    BY <1>1, <2>3, Constants DEF RunRecord
  <2>5. Extends(next.events, run.events)
    BY <1>1, <2>3, AddsNothing DEF Adds
  <2>6. /\ Happened(run) => Happened(next)
        /\ run.outcome # "none" => next.outcome # "none"
    BY <2>2 DEF Evolves, Promised
  <2>7. Since(run, next)
    BY <2>2, <2>3, <2>4, <2>5, <2>6 DEF Since, Evolves, Stays
  <2> QED
    BY <1>2, <2>1, <2>7 DEF run
<1>8. CASE ApproveRun(r)
  <2> DEFINE moved == [run EXCEPT !.state = MustTransition(@, "matching_approval")]
             approved == Logged(moved, <<"APPROVAL_CONSUMED">>)
             next == AuthorizeAndExecute(approved)
  <2>1. run.scenario # "none" /\ run.state = "APPROVAL_REQUIRED" /\ Update(r, next)
    BY <1>8 DEF ApproveRun, Accepts, run
  <2>2. Evolves(run, next)
    BY <1>1, <1>4, <2>1, ApprovedEvolves DEF RunsInv
  <2>3. Adds(run, moved)
    BY <1>1, ChangesAddNothing
  <2> HIDE DEF moved
  <2>4. Adds(moved, approved)
    BY <2>3, LoggedAdds, Singles DEF Adds
  <2> HIDE DEF approved
  <2>5. Adds(run, next)
    <3>1. Adds(run, approved)
      BY <1>1, <2>3, <2>4, AddsMore
    <3>2. Adds(approved, next)
      BY <3>1, AuthorizeAdds DEF Adds
    <3> HIDE DEF next
    <3> QED
      BY <1>1, <3>1, <3>2, AddsMore
  <2> HIDE DEF next
  <2> QED
    BY <1>3, <2>1, <2>2, <2>5 DEF run
<1>9. CASE ReplayRun(r) \/ ReconcileRun(r)
  <2>1. run.scenario # "none" /\ Update(r, Execute(run))
    BY <1>9 DEF ReplayRun, ReconcileRun, Accepts, run
  <2>2. Evolves(run, Execute(run))
    <3>1. CASE ReplayRun(r)
      BY <1>1, <1>5, <3>1, VerifiedExecutes DEF ReplayRun, Accepts, run
    <3>2. CASE ReconcileRun(r)
      BY <1>1, <1>6, <3>2, UnknownExecutes, OverdueExecutes DEF ReconcileRun, Accepts, run
    <3> QED
      BY <1>9, <3>1, <3>2
  <2>3. Adds(run, Execute(run))
    BY <1>1, ExecuteAdds
  <2> QED
    BY <1>3, <2>1, <2>2, <2>3 DEF run
<1>10. CASE VerifyRunLedger(r)
  <2> DEFINE answered == [run EXCEPT !.answer = "200"]
             next == Logged(answered, <<"AUDIT_INTEGRITY_CHECKED">>)
  <2>1. run.scenario # "none" /\ Update(r, next)
    BY <1>10 DEF VerifyRunLedger, Accepts, run
  <2>2. Evolves(run, next)
    BY <1>1, <2>1, CheckedEvolves
  <2>3. Adds(run, answered)
    BY <1>1, ChangesAddNothing
  <2> HIDE DEF answered
  <2>4. Adds(answered, next)
    BY <2>3, LoggedAdds, Singles DEF Adds
  <2>5. Adds(run, next)
    BY <1>1, <2>3, <2>4, AddsMore
  <2> HIDE DEF next
  <2> QED
    BY <1>3, <2>1, <2>2, <2>5 DEF run
<1> QED
  BY <1>7, <1>8, <1>9, <1>10 DEF run
(* Ends of the diagram that runs reach. *)
LEMMA Terminals == \A state \in {"DENIED", "STALE", "VERIFIED"} : IsTerminal(state)
<1>1. \A state \in {"DENIED", "STALE", "VERIFIED"} : \A edge \in TransitionTable : edge[1] # state
  BY DEF TransitionTable
<1> QED
  BY <1>1 DEF IsTerminal

(* A new run starts at rest, unless its tool is the slow one. *)
LEMMA CreatesServed ==
  ASSUME RunsInv, NEW r \in Runs,
         \/ CreateDenied(r) \/ CreateAllowed(r)
         \/ \E scenario \in ApprovalScenarios : CreateForApproval(r, scenario)
  PROVE  /\ now' = now /\ runs' = [runs EXCEPT ![r] = runs'[r]]
         /\ runs[r].scenario = "none" /\ runs'[r].scenario # "none"
         /\ runs'[r].tool # "sleeping" => Resting(runs'[r])
<1>1. runs[r].scenario = "none" /\ runs[r] = NotCreated /\ TypeOK
  <2>1. runs[r].scenario = "none"
    BY DEF CreateDenied, CreateAllowed, CreateForApproval
  <2>2. Situated(runs[r])
    BY DEF RunsInv
  <2> QED
    BY <2>1, <2>2, Names DEF RunsInv, Situated, IsDecided, IsStale, IsExecuting,
                             IsVerified, IsUnknown, IsOverdue
<1>2. ASSUME NEW next, Update(r, next), Situated(next), next.scenario # "none"
      PROVE  /\ now' = now /\ runs' = [runs EXCEPT ![r] = runs'[r]]
             /\ runs'[r].scenario # "none"
             /\ runs'[r].tool # "sleeping" => Resting(runs'[r])
  <2>1. next # NotCreated
    BY <1>2 DEF NotCreated
  <2>2. next.tool # "sleeping" => Resting(next)
    BY <1>2, <2>1 DEF Resting, IsExecuting
  <2>3. now' = now /\ runs'[r] = next /\ runs' = [runs EXCEPT ![r] = runs'[r]]
    BY <1>2 DEF Update, RunsInv, TypeOK
  <2> QED
    BY <1>2, <2>2, <2>3
<1>3. "blocked" \in Scenarios /\ "unknown_outcome" \in Scenarios
      /\ ApprovalScenarios \subseteq Scenarios /\ "none" \notin Scenarios
  BY DEF Scenarios, ApprovalScenarios
<1>4. CASE CreateDenied(r)
  <2> DEFINE next == Proposed("blocked", "policy_deny")
  <2>1. next.scenario = "blocked" /\ Situated(next)
    BY <1>1, <1>3, Edges, Names, ProposedAs, CreatedEvolves DEF Evolves
  <2>2. Update(r, next)
    BY <1>4 DEF CreateDenied
  <2> HIDE DEF next
  <2> QED
    BY <1>1, <1>2, <2>1, <2>2
<1>5. ASSUME NEW scenario \in ApprovalScenarios, CreateForApproval(r, scenario)
      PROVE  \E next : Update(r, next) /\ Situated(next) /\ next.scenario # "none"
  <2> DEFINE next == Proposed(scenario, "high_risk")
  <2>1. next.scenario = scenario /\ Situated(next)
    BY <1>1, <1>3, Edges, Names, ProposedAs, CreatedEvolves DEF Evolves
  <2>2. Update(r, next)
    BY <1>5 DEF CreateForApproval
  <2> HIDE DEF next
  <2> QED
    BY <1>3, <2>1, <2>2
<1>6. CASE CreateAllowed(r)
  <2> DEFINE allowed == Proposed("unknown_outcome", "low_risk_policy_allow")
             next == AuthorizeAndExecute(allowed)
  <2>1. allowed.scenario = "unknown_outcome" /\ allowed \in RunRecord
    BY <1>3, Edges, Names, ProposedAs
  <2>2. Situated(next)
    BY <1>1, CreatedEvolves DEF Evolves
  <2>3. Update(r, next)
    BY <1>6 DEF CreateAllowed
  <2> HIDE DEF allowed
  <2>4. next.scenario = "unknown_outcome"
    BY <2>1, RecordsArePlain, AuthorizeAdds DEF Adds
  <2> HIDE DEF next
  <2> QED
    BY <1>1, <1>2, <2>2, <2>3, <2>4
<1> QED
  BY <1>1, <1>2, <1>4, <1>5, <1>6

(* The budget ends the wait of the one run that is not at rest. *)
LEMMA TimeOutServed ==
  ASSUME RunsInv, NEW r \in Runs, TimeOut(r)
  PROVE  /\ now' = now /\ runs' = [runs EXCEPT ![r] = runs'[r]]
         /\ runs[r].scenario # "none" /\ ~ Resting(runs[r])
         /\ Since(runs[r], runs'[r]) /\ Resting(runs'[r])
         /\ runs'[r].answer = "200"
<1> DEFINE run == runs[r]
           open == [run EXCEPT !.outcome = "unknown_outcome"]
           next == Concluded(Logged(open, <<"EXECUTION_UNKNOWN">>), "unknown_outcome")
<1>1. run \in RunRecord /\ Situated(run) /\ Plain(run) /\ run.tool = "sleeping" /\ run.outcome = "none"
  BY RecordsArePlain DEF RunsInv, TypeOK, TimeOut
<1>2. IsExecuting(run)
  BY <1>1 DEF Situated, NotCreated, IsDecided, IsStale, IsVerified, IsUnknown, IsOverdue
<1>3. Evolves(run, next) /\ IsUnknown(next) /\ next.answer = "200"
  BY <1>1, TimedOutEvolves
<1>4. now' = now /\ runs'[r] = next /\ runs' = [runs EXCEPT ![r] = runs'[r]]
  BY DEF TimeOut, Update, RunsInv, TypeOK
<1> HIDE DEF run
<1>5. Adds(run, open)
  BY <1>1, ChangesAddNothing
<1> HIDE DEF open
<1>6. Adds(run, next)
  BY <1>1, <1>5, ConcludedLogAdds, Singles
<1> HIDE DEF next
<1>7. Since(run, next)
  BY <1>1, <1>3, <1>6, AddedSince
<1>8. Resting(next)
  BY <1>3 DEF Resting, Situated, IsUnknown, IsExecuting, NotCreated
<1>9. run.scenario # "none" /\ ~ Resting(run)
  BY <1>2 DEF Resting, IsExecuting
<1> QED
  BY <1>3, <1>4, <1>7, <1>8, <1>9 DEF run

(* A late effect changes nothing that a client is shown. *)
LEMMA SlowToolServed ==
  ASSUME RunsInv, NEW r \in Runs, SlowToolPerforms(r) \/ SlowToolThrows(r)
  PROVE  /\ now' = now /\ runs' = [runs EXCEPT ![r] = runs'[r]]
         /\ runs[r].scenario # "none"
         /\ \E tool : runs'[r] = [runs[r] EXCEPT !.tool = tool]
         /\ Since(runs[r], runs'[r]) /\ Resting(runs[r])
<1> DEFINE run == runs[r]
<1>1. run \in RunRecord /\ Situated(run) /\ Plain(run) /\ run.tool = "sleeping" /\ run.outcome # "none"
  BY RecordsArePlain DEF RunsInv, TypeOK, SlowToolPerforms, SlowToolThrows
<1>2. PICK tool \in {"performed", "threw"} : Update(r, [run EXCEPT !.tool = tool])
  BY DEF SlowToolPerforms, SlowToolThrows
<1> DEFINE next == [run EXCEPT !.tool = tool]
<1>3. now' = now /\ runs'[r] = next /\ runs' = [runs EXCEPT ![r] = runs'[r]]
  BY <1>2 DEF Update, RunsInv, TypeOK
<1>4. Evolves(run, next)
  BY <1>1, SlowToolEvolves
<1>5. Adds(run, next)
  BY <1>1, ChangesAddNothing
<1> HIDE DEF next
<1>6. Since(run, next)
  BY <1>1, <1>4, <1>5, AddedSince
<1>7. Resting(run) /\ run.scenario # "none"
  BY <1>1 DEF Resting, Situated, NotCreated, IsDecided, IsStale, IsExecuting, IsVerified,
              IsUnknown, IsOverdue
<1> QED
  BY <1>3, <1>6, <1>7 DEF next, run

(* What was seen of a run at rest, and what that says of it from then on. *)
LEMMA SeenAtRest ==
  ASSUME NEW run, Resting(run)
  PROVE  /\ run.scenario # "none"
         /\ run.state \in {"DENIED", "APPROVAL_REQUIRED", "STALE", "VERIFIED",
                           "UNKNOWN_OUTCOME", "RECONCILIATION_REQUIRED"}
         /\ run.state = "UNKNOWN_OUTCOME" => run.execution \in {"unknown_outcome", "capability"}
         /\ run.state = "STALE" <=> run.execution = "precondition"
         /\ run.execution \in {"success", "IDEMPOTENT_REPLAY", "RECONCILED_SUCCESS"} => Happened(run)
<1>1. run.scenario # "none"
  BY DEF Resting, Situated, IsDecided, IsStale, IsVerified, IsUnknown, IsOverdue, ApprovalScenarios
<1> QED
  BY <1>1 DEF Resting, Situated, IsDecided, IsStale, IsVerified, IsUnknown, IsOverdue, Happened

LEMMA WhatLasts ==
  ASSUME NEW past, NEW run, Resting(past), Resting(run), Since(past, run)
  PROVE  /\ past.state = "DENIED" => run.capability = "none" /\ run.callCount = 0
         /\ past.state = "STALE" => run.callCount = 0
         /\ past.state = "VERIFIED" => Happened(run)
         /\ past.state \in {"UNKNOWN_OUTCOME", "RECONCILIATION_REQUIRED"} =>
              /\ run.callCount = 1 /\ run.outcome # "failed"
              /\ run.outcome = "succeeded" => Happened(run)
<1>1. ASSUME past.state \in {"DENIED", "STALE", "VERIFIED"}
      PROVE  run.state = past.state
  BY <1>1, Terminals DEF Since
<1>2. run.state = "DENIED" => run.capability = "none" /\ run.callCount = 0
  BY DEF Resting, Situated, IsDecided, IsStale, IsVerified, IsUnknown, IsOverdue
<1>3. run.state = "STALE" => run.callCount = 0
  BY DEF Resting, Situated, IsDecided, IsStale, IsVerified, IsUnknown, IsOverdue
<1>4. run.state = "VERIFIED" => Happened(run)
  BY DEF Resting, Situated, IsDecided, IsStale, IsVerified, IsUnknown, IsOverdue, Happened
<1>5. past.state \in {"UNKNOWN_OUTCOME", "RECONCILIATION_REQUIRED"} => run.outcome # "none"
  <2>1. past.state \in {"UNKNOWN_OUTCOME", "RECONCILIATION_REQUIRED"} => past.outcome # "none"
    BY DEF Resting, Situated, IsDecided, IsStale, IsVerified, IsUnknown, IsOverdue
  <2> QED
    BY <2>1 DEF Since
<1>6. run.outcome # "none" =>
        /\ run.callCount = 1 /\ run.outcome # "failed"
        /\ run.outcome = "succeeded" => Happened(run)
  BY DEF Resting, Situated, IsDecided, IsStale, IsVerified, IsUnknown, IsOverdue,
         IsExecuted, Happened
<1> QED
  BY <1>1, <1>2, <1>3, <1>4, <1>5, <1>6

=============================================================================
