--------------------------- MODULE LedgerProjection ---------------------------
(***************************************************************************)
(* projectOperation: what the audit events of one operation, in sequence   *)
(* order, say its state is, and which stages they say it went through.     *)
(***************************************************************************)
EXTENDS Sequences, SequencesExt

AuditEventTypes ==
  {"MODEL_PROPOSAL_RECORDED", "POLICY_DECISION", "APPROVAL_CONSUMED",
   "CAPABILITY_MINTED", "PRECONDITION_FAILED", "DUPLICATE_REPLAY_DETECTED",
   "EXECUTION_STARTED", "EXECUTION_UNKNOWN", "POSTCONDITION_FAILED",
   "POSTCONDITION_VERIFIED", "RECONCILIATION_REQUIRED",
   "AUDIT_INTEGRITY_CHECKED"}

(* The integrity check belongs to no stage. *)
StageOf ==
  [MODEL_PROPOSAL_RECORDED   |-> "proposal",
   POLICY_DECISION           |-> "policy",
   APPROVAL_CONSUMED         |-> "approval",
   CAPABILITY_MINTED         |-> "capability",
   EXECUTION_STARTED         |-> "execution",
   PRECONDITION_FAILED       |-> "execution",
   DUPLICATE_REPLAY_DETECTED |-> "execution",
   POSTCONDITION_VERIFIED    |-> "verification",
   POSTCONDITION_FAILED      |-> "verification",
   EXECUTION_UNKNOWN         |-> "verification",
   RECONCILIATION_REQUIRED   |-> "verification"]

Stages == {"proposal", "policy", "approval", "capability", "execution", "verification"}

Positions(events, stage) ==
  {i \in DOMAIN events : events[i] \in DOMAIN StageOf /\ StageOf[events[i]] = stage}

(* stagesSeen: a Set in the order of insertion, that is of first sight. *)
StagesSeen(events) == {stage \in Stages : Positions(events, stage) # {}}

SeenBefore(events, a, b) ==
  \E i \in Positions(events, a) : \A j \in Positions(events, b) : i < j

(* The two types that decide nothing leave the state as it was. *)
FinalStateOf ==
  [MODEL_PROPOSAL_RECORDED |-> "PROPOSED",
   POLICY_DECISION         |-> "POLICY_DECIDED",
   APPROVAL_CONSUMED       |-> "APPROVED",
   CAPABILITY_MINTED       |-> "CAPABILITY_MINTED",
   EXECUTION_STARTED       |-> "EXECUTING",
   PRECONDITION_FAILED     |-> "FAILED",
   POSTCONDITION_VERIFIED  |-> "VERIFIED",
   POSTCONDITION_FAILED    |-> "FAILED",
   EXECUTION_UNKNOWN       |-> "UNKNOWN_OUTCOME",
   RECONCILIATION_REQUIRED |-> "RECONCILIATION_REQUIRED"]

Deciding(events) == {i \in DOMAIN events : events[i] \in DOMAIN FinalStateOf}

\* Mutant: an event that decides nothing starts the projection over.
ProjectLastEvent(events) ==
  IF events = <<>> THEN "NO_EVENTS"
  ELSE IF Len(events) \notin Deciding(events) THEN "PROPOSED"
  ELSE FinalStateOf[events[Len(events)]]

(* finalState: what is left of the loop over the events is the last of them
   that decided anything. *)
ProjectOperation(events) ==
  IF events = <<>> THEN "NO_EVENTS"
  ELSE IF Deciding(events) = {} THEN "PROPOSED"
  ELSE FinalStateOf[events[Max(Deciding(events))]]

=============================================================================
