------------------------ MODULE ExecutionGatewayProofs ------------------------
(***************************************************************************)
(* Theorems of ExecutionGateway, for any number of calls, capabilities,    *)
(* operations, keys and payloads, any TTL and any bounds.                  *)
(***************************************************************************)
EXTENDS ExecutionGateway, TLAPS

(* The parts of the constants' assumptions the proofs use. *)
LEMMA Constants ==
  /\ \A o \in Operations : KeyOf[o] \in Keys /\ ScopeOf[o] \in Scopes
  /\ TTL \in Nat /\ MaxTime \in Nat /\ MaxVersion \in Nat
BY IdentityAssumption, RegistryAssumption, GatewayAssumption

-----------------------------------------------------------------------------
(* Type correctness.                                                        *)

LEMMA NotCalledType == NotCalled \in CallRecord
BY DEF NotCalled, CallRecord, Phases, Results, Replies, NoReceipt, Receipts

LEMMA InitType == Init => TypeOK
<1> SUFFICES ASSUME Init PROVE TypeOK
  OBVIOUS
<1>1. RegistryTypeOK
  BY RegistryAssumption DEF Init, RegistryInit, RegistryTypeOK, Unminted,
     CapabilityRecord, CapabilityStatus
<1>2. StoreTypeOK
  BY DEF Init, StoreInit, StoreTypeOK, NoRecord, OutcomeStates
<1>3. ToolTypeOK
  BY DEF Init, ToolInit, ToolTypeOK
<1>4. calls \in [Calls -> CallRecord]
  BY NotCalledType DEF Init
<1>5. ledger \in [Operations -> Seq(EventTypes)]
  BY DEF Init
<1> QED BY <1>1, <1>2, <1>3, <1>4, <1>5 DEF TypeOK

LEMMA AuditType ==
  ASSUME ledger \in [Operations -> Seq(EventTypes)],
         NEW o \in Operations \cup {None}, NEW e \in EventTypes, Audit(o, e)
  PROVE  ledger' \in [Operations -> Seq(EventTypes)]
<1>1. CASE o \in Operations
  BY <1>1 DEF Audit
<1>2. CASE o \notin Operations
  <2>1. \A q \in Operations : ledger'[q] = ledger[q]
    BY <1>2 DEF Audit
  <2>2. ledger' = [q \in Operations |-> ledger'[q]]
    BY DEF Audit
  <2> QED BY <2>1, <2>2
<1> QED BY <1>1, <1>2

LEMMA RecordType ==
  ASSUME StoreTypeOK, NEW o \in Operations \cup {None},
         NEW c \in Capabilities \cup {None}, NEW p \in Payloads \cup {None},
         NEW s \in OutcomeStates, Record(o, c, p, s)
  PROVE  StoreTypeOK'
BY DEF StoreTypeOK, Record

LEMMA ReturnAtOnceType ==
  ASSUME calls \in [Calls -> CallRecord],
         NEW x \in Calls, NEW o \in Operations, NEW c \in Capabilities,
         NEW p \in Payloads, NEW r \in Results, ReturnAtOnce(x, o, c, p, r)
  PROVE  calls' \in [Calls -> CallRecord]
BY NotCalledType DEF ReturnAtOnce, CallRecord, Phases

LEMMA ReturnType ==
  ASSUME calls \in [Calls -> CallRecord],
         NEW x \in Calls, NEW r \in Results, Return(x, r)
  PROVE  calls' \in [Calls -> CallRecord]
<1> DEFINE closed == [calls EXCEPT ![x].phase = "returned"]
<1>1. closed \in [Calls -> CallRecord]
  BY DEF CallRecord, Phases
<1>2. calls' = [closed EXCEPT ![x].result = r]
  BY DEF Return
<1> HIDE DEF closed
<1>3. [closed[x] EXCEPT !.result = r] \in CallRecord
  <2>1. closed[x] \in CallRecord
    BY <1>1
  <2> QED BY <2>1 DEF CallRecord
<1> QED BY <1>1, <1>2, <1>3

LEMMA SettlesType ==
  ASSUME calls \in [Calls -> CallRecord], NEW x \in Calls,
         NEW kind \in Replies, NEW receipt \in Receipts, Settles(x, kind, receipt)
  PROVE  calls' \in [Calls -> CallRecord]
<1> DEFINE told == [calls EXCEPT ![x].reply = kind]
<1>1. told \in [Calls -> CallRecord]
  BY DEF CallRecord
<1>2. calls' = [told EXCEPT ![x].receipt = receipt]
  BY DEF Settles
<1> HIDE DEF told
<1>3. [told[x] EXCEPT !.receipt = receipt] \in CallRecord
  <2>1. told[x] \in CallRecord
    BY <1>1
  <2> QED BY <2>1 DEF CallRecord
<1> QED BY <1>1, <1>2, <1>3

(* What the registry's own actions leave well typed. *)
LEMMA RegistryStepType ==
  ASSUME RegistryTypeOK,
         \/ Tick
         \/ Drift
         \/ \E c \in Capabilities :
              Register(c) \/ \E s \in Scopes, v \in 0..MaxVersion : Mint(c, s, v)
         \/ UNCHANGED registryVars
  PROVE  RegistryTypeOK'
<1> USE DEF RegistryTypeOK
<1>1. CASE Tick
  BY <1>1, Constants DEF Tick
<1>2. CASE Drift
  BY <1>2, Constants DEF Drift
<1>3. ASSUME NEW c \in Capabilities, NEW s \in Scopes, NEW v \in 0..MaxVersion,
             Mint(c, s, v)
      PROVE  RegistryTypeOK'
  <2>1. now + TTL \in Nat /\ v \in Nat
    BY Constants
  <2> QED BY <1>3, <2>1 DEF Mint, CapabilityRecord, CapabilityStatus
<1>4. ASSUME NEW c \in Capabilities, Register(c) PROVE RegistryTypeOK'
  BY <1>4 DEF Register, CapabilityRecord, CapabilityStatus
<1>5. CASE UNCHANGED registryVars
  BY <1>5 DEF registryVars
<1> QED BY <1>1, <1>2, <1>3, <1>4, <1>5

LEMMA ConsumeType ==
  ASSUME RegistryTypeOK, NEW c \in Capabilities, Consume(c)
  PROVE  registry' \in [Capabilities -> CapabilityRecord]
BY DEF RegistryTypeOK, Consume, CapabilityRecord, CapabilityStatus

LEMMA PerformType ==
  ASSUME ToolTypeOK, NEW o \in Operations \cup {None},
         NEW p \in Payloads \cup {None}, Perform(o, p)
  PROVE  ToolTypeOK'
<1>1. \A k \in Keys : created[k] \in Nat /\ created[k] + 1 \in Nat
  BY DEF ToolTypeOK
<1> QED BY <1>1 DEF ToolTypeOK, Perform

(* Every way out of the first segment; only StartExecution touches the
   registry, only the way it is audited differs between the others. *)
LEMMA FirstSegmentType ==
  ASSUME TypeOK, NEW x \in Calls, NEW o \in Operations, NEW c \in Capabilities,
         NEW p \in Payloads, FirstSegment(x, o, c, p)
  PROVE  TypeOK'
<1> USE DEF TypeOK
<1> DEFINE Kept == RegistryTypeOK /\ StoreTypeOK /\ ToolTypeOK
<1>k. ASSUME UNCHANGED <<registryVars, store, toolVars>> PROVE Kept'
  BY <1>k DEF registryVars, toolVars, RegistryTypeOK, StoreTypeOK, ToolTypeOK
<1> HIDE DEF Kept
<1>e. /\ {"PRECONDITION_FAILED", "DUPLICATE_REPLAY_DETECTED",
          "EXECUTION_STARTED"} \subseteq EventTypes
      /\ {"capability", "precondition", "idempotency", "IDEMPOTENT_REPLAY",
          "adapter"} \subseteq Results
  BY DEF EventTypes, Results
<1>1. CASE RejectCapability(x, o, c, p)
  BY <1>1, <1>k, <1>e, ReturnAtOnceType DEF RejectCapability, Kept
<1>2. CASE FailPrecondition(x, o, c, p)
  BY <1>2, <1>k, <1>e, ReturnAtOnceType, AuditType DEF FailPrecondition, Kept
<1>3. CASE RejectConflict(x, o, c, p)
  BY <1>3, <1>k, <1>e, ReturnAtOnceType, AuditType DEF RejectConflict, Kept
<1>4. CASE ReplaySucceeded(x, o, c, p)
  BY <1>4, <1>k, <1>e, ReturnAtOnceType, AuditType DEF ReplaySucceeded, Kept
<1>5. CASE ReplayFailed(x, o, c, p)
  BY <1>5, <1>k, <1>e, ReturnAtOnceType DEF ReplayFailed, Kept
<1>6. CASE BeginReconcile(x, o, c, p)
  <2> DEFINE prior == store[KeyOf[o]]
             waiting == [NotCalled EXCEPT !.phase = "reconciling", !.reply = "pending",
                                   !.op = o, !.cap = c, !.payload = p,
                                   !.priorOp = prior.op, !.priorCap = prior.cap]
  <2>1. prior.op \in Operations \cup {None} /\ prior.cap \in Capabilities \cup {None}
    BY Constants DEF StoreTypeOK
  <2>2. waiting \in CallRecord
    BY <2>1, NotCalledType DEF CallRecord, Phases, Replies
  <2>3. calls' = [calls EXCEPT ![x] = waiting]
    BY <1>6 DEF BeginReconcile
  <2> QED BY <1>6, <1>k, <2>2, <2>3 DEF BeginReconcile, Kept
<1>7. CASE RejectConsumed(x, o, c, p)
  BY <1>7, <1>k, <1>e, ReturnAtOnceType DEF RejectConsumed, Kept
<1>8. CASE StartExecution(x, o, c, p)
  <2>1. PICK t \in {now, now + 1} :
          /\ t <= MaxTime
          /\ now' = t
          /\ calls' = [calls EXCEPT ![x] =
               [NotCalled EXCEPT !.phase = "executing", !.fresh = TRUE,
                                 !.op = o, !.cap = c, !.payload = p,
                                 !.reply = IF Usable(c, ScopeOf[o], t)
                                             THEN "pending" ELSE "gateway_rejected"]]
    BY <1>8 DEF StartExecution
  <2>2. RegistryTypeOK'
    <3>1. now' \in 0..MaxTime
      BY <2>1, Constants DEF RegistryTypeOK
    <3>2. registry' \in [Capabilities -> CapabilityRecord]
      BY <1>8, ConsumeType DEF StartExecution
    <3> QED BY <1>8, <3>1, <3>2 DEF StartExecution, RegistryTypeOK
  <2>3. calls' \in [Calls -> CallRecord]
    <3> DEFINE reply == IF Usable(c, ScopeOf[o], t) THEN "pending" ELSE "gateway_rejected"
               started == [NotCalled EXCEPT !.phase = "executing", !.fresh = TRUE,
                                 !.op = o, !.cap = c, !.payload = p, !.reply = reply]
    <3>1. reply \in Replies
      BY DEF Replies
    <3> HIDE DEF reply
    <3>2. started \in CallRecord
      BY <3>1, NotCalledType DEF CallRecord, Phases
    <3>3. calls' = [calls EXCEPT ![x] = started]
      BY <2>1 DEF reply
    <3> QED BY <3>2, <3>3
  <2>4. ledger' \in [Operations -> Seq(EventTypes)]
    BY <1>8, <1>e, AuditType DEF StartExecution
  <2> QED BY <1>8, <2>2, <2>3, <2>4
          DEF StartExecution, toolVars, StoreTypeOK, ToolTypeOK
<1> QED BY <1>1, <1>2, <1>3, <1>4, <1>5, <1>6, <1>7, <1>8 DEF FirstSegment

-----------------------------------------------------------------------------
(* What each kind of step does to the calls, said once.  The later proofs   *)
(* cite these instead of the record updates of the actions.                 *)

Known(x) == /\ calls[x].op \in Operations
            /\ calls[x].cap \in Capabilities
            /\ calls[x].payload \in Payloads

LEMMA FirstSegmentEffect ==
  ASSUME calls \in [Calls -> CallRecord], NEW x \in Calls, NEW o \in Operations,
         NEW c \in Capabilities, NEW p \in Payloads, FirstSegment(x, o, c, p)
  PROVE  /\ calls[x].phase = "idle"
         /\ UNCHANGED <<store, toolVars>>
         /\ \A y \in Calls : y # x => calls'[y] = calls[y]
         /\ calls'[x].phase \in {"returned", "reconciling", "executing"}
         /\ calls'[x].op = o /\ calls'[x].cap = c /\ calls'[x].payload = p
         /\ \/ /\ StartExecution(x, o, c, p)
               /\ calls'[x].fresh
               /\ calls'[x].phase = "executing"
               /\ calls'[x].reply \in {"pending", "gateway_rejected"}
               /\ calls'[x].result = "none"
            \/ /\ BeginReconcile(x, o, c, p)
               /\ ~ calls'[x].fresh
               /\ calls'[x].phase = "reconciling"
               /\ calls'[x].priorOp = store[KeyOf[o]].op
               /\ calls'[x].priorCap = store[KeyOf[o]].cap
               /\ calls'[x].reply = "pending"
               /\ calls'[x].result = "none"
               /\ UNCHANGED registryVars
            \/ /\ ~ calls'[x].fresh
               /\ calls'[x].phase = "returned"
               /\ calls'[x].reply = "none"
               /\ calls'[x].result \in OkResults => ReplaySucceeded(x, o, c, p)
               /\ UNCHANGED registryVars
<1>0. calls[x].phase = "idle"
  BY DEF FirstSegment, RejectCapability, FailPrecondition, RejectConflict,
         ReplaySucceeded, ReplayFailed, BeginReconcile, RejectConsumed,
         StartExecution, Admitted, Presents
<1> USE DEF NotCalled, CallRecord
<1>r. ASSUME NEW r \in Results, ReturnAtOnce(x, o, c, p, r)
      PROVE  /\ \A y \in Calls : y # x => calls'[y] = calls[y]
             /\ calls'[x].phase = "returned" /\ calls'[x].result = r
             /\ calls'[x].op = o /\ calls'[x].cap = c /\ calls'[x].payload = p
             /\ calls'[x].fresh = FALSE /\ calls'[x].reply = "none"
  BY <1>r DEF ReturnAtOnce
<1>e. /\ {"capability", "precondition", "idempotency", "IDEMPOTENT_REPLAY",
          "adapter"} \subseteq Results
      /\ {"capability", "precondition", "idempotency", "adapter"}
           \cap OkResults = {}
  BY DEF Results, OkResults
<1>1. CASE RejectCapability(x, o, c, p)
  BY <1>0, <1>1, <1>r, <1>e DEF RejectCapability
<1>2. CASE FailPrecondition(x, o, c, p)
  BY <1>0, <1>2, <1>r, <1>e DEF FailPrecondition
<1>3. CASE RejectConflict(x, o, c, p)
  BY <1>0, <1>3, <1>r, <1>e DEF RejectConflict
<1>4. CASE ReplaySucceeded(x, o, c, p)
  <2>1. UNCHANGED <<registryVars, store, toolVars>>
    BY <1>4 DEF ReplaySucceeded
  <2>2. ReturnAtOnce(x, o, c, p, "IDEMPOTENT_REPLAY")
    BY <1>4 DEF ReplaySucceeded
  <2> QED BY <1>0, <1>4, <1>r, <1>e, <2>1, <2>2
<1>5. CASE ReplayFailed(x, o, c, p)
  BY <1>0, <1>5, <1>r, <1>e DEF ReplayFailed
<1>6. CASE BeginReconcile(x, o, c, p)
  <2>1. /\ UNCHANGED <<registryVars, store, toolVars>>
        /\ calls' = [calls EXCEPT ![x] =
             [NotCalled EXCEPT !.phase = "reconciling", !.reply = "pending",
                               !.op = o, !.cap = c, !.payload = p,
                               !.priorOp = store[KeyOf[o]].op,
                               !.priorCap = store[KeyOf[o]].cap]]
    BY <1>6 DEF BeginReconcile
  <2> QED BY <1>0, <1>6, <2>1
<1>7. CASE RejectConsumed(x, o, c, p)
  BY <1>0, <1>7, <1>r, <1>e DEF RejectConsumed
<1>8. CASE StartExecution(x, o, c, p)
  <2>1. PICK t \in {now, now + 1} :
          calls' = [calls EXCEPT ![x] =
               [NotCalled EXCEPT !.phase = "executing", !.fresh = TRUE,
                                 !.op = o, !.cap = c, !.payload = p,
                                 !.reply = IF Usable(c, ScopeOf[o], t)
                                             THEN "pending" ELSE "gateway_rejected"]]
    BY <1>8 DEF StartExecution
  <2>2. UNCHANGED <<store, toolVars>>
    BY <1>8 DEF StartExecution
  <2> QED BY <1>0, <1>8, <2>1, <2>2
<1> QED BY <1>1, <1>2, <1>3, <1>4, <1>5, <1>6, <1>7, <1>8 DEF FirstSegment

(* A settled promise or a return leaves a call's arguments alone. *)
SameArguments(y) ==
  /\ calls'[y].fresh = calls[y].fresh
  /\ calls'[y].op = calls[y].op
  /\ calls'[y].cap = calls[y].cap
  /\ calls'[y].payload = calls[y].payload
  /\ calls'[y].priorOp = calls[y].priorOp
  /\ calls'[y].priorCap = calls[y].priorCap

LEMMA SettlesEffect ==
  ASSUME calls \in [Calls -> CallRecord], NEW x \in Calls, NEW kind, NEW receipt,
         Settles(x, kind, receipt)
  PROVE  /\ \A y \in Calls : SameArguments(y)
         /\ \A y \in Calls : y # x => calls'[y] = calls[y]
         /\ \A y \in Calls : calls'[y].phase = calls[y].phase
                             /\ calls'[y].result = calls[y].result
         /\ calls'[x].reply = kind
         /\ calls'[x].receipt = receipt
BY DEF Settles, CallRecord, SameArguments

LEMMA ReturnEffect ==
  ASSUME calls \in [Calls -> CallRecord], NEW x \in Calls, NEW r, Return(x, r)
  PROVE  /\ \A y \in Calls : SameArguments(y)
         /\ \A y \in Calls : y # x => calls'[y] = calls[y]
         /\ \A y \in Calls : calls'[y].reply = calls[y].reply
                             /\ calls'[y].receipt = calls[y].receipt
         /\ calls'[x].phase = "returned"
         /\ calls'[x].result = r
BY DEF Return, CallRecord, SameArguments

(* The capability under which the second segment records its outcome. *)
RecordedCap(x) ==
  IF calls[x].phase = "reconciling" THEN calls[x].priorCap ELSE calls[x].cap

LEMMA FinalizeEffect ==
  ASSUME NEW x, NEW c, NEW success \in OkResults, Finalize(x, c, success)
  PROVE  /\ \E s \in Definite : Record(calls[x].op, c, calls[x].payload, s)
         /\ \E r \in Results : Return(x, r)
         /\ \E e \in EventTypes : Audit(calls[x].op, e)
<1>1. /\ "succeeded" \in Definite /\ "failed" \in Definite
      /\ success \in Results /\ "postcondition" \in Results
      /\ "POSTCONDITION_VERIFIED" \in EventTypes /\ "POSTCONDITION_FAILED" \in EventTypes
  BY DEF Definite, Results, OkResults, EventTypes
<1>2. CASE VerifyPostcondition(calls[x].op, calls[x].payload, calls[x].receipt)
  BY <1>1, <1>2 DEF Finalize
<1>3. CASE ~ VerifyPostcondition(calls[x].op, calls[x].payload, calls[x].receipt)
  BY <1>1, <1>3 DEF Finalize
<1> QED BY <1>2, <1>3

LEMMA SecondSegmentEffect ==
  ASSUME NEW x, SecondSegment(x)
  PROVE  /\ calls[x].phase \in {"executing", "reconciling"}
         /\ UNCHANGED <<registryVars, toolVars>>
         /\ \E r \in Results : Return(x, r)
         /\ \/ UNCHANGED store
            \/ \E s \in OutcomeStates \ {"none"} :
                 Record(calls[x].op, RecordedCap(x), calls[x].payload, s)
         /\ \/ UNCHANGED ledger
            \/ \E e \in EventTypes : Audit(calls[x].op, e)
<1> USE DEF RecordedCap
<1>s. /\ "unknown_outcome" \in OutcomeStates \ {"none"}
      /\ "failed" \in OutcomeStates \ {"none"}
      /\ Definite \subseteq OutcomeStates \ {"none"}
      /\ {"unknown_outcome", "adapter", "capability",
          "reconciliation_required", "thrown"} \subseteq Results
      /\ "EXECUTION_UNKNOWN" \in EventTypes /\ "RECONCILIATION_REQUIRED" \in EventTypes
      /\ "success" \in OkResults /\ "RECONCILED_SUCCESS" \in OkResults
  BY DEF OutcomeStates, Definite, Results, EventTypes, OkResults
<1>1. CASE TimeOut(x)
  BY <1>1, <1>s DEF TimeOut
<1>2. CASE FinishThrew(x)
  BY <1>2, <1>s DEF FinishThrew
<1>3. CASE FinishGatewayRejected(x)
  BY <1>3, <1>s DEF FinishGatewayRejected
<1>4. CASE FinishExecution(x)
  BY <1>4, <1>s, FinalizeEffect DEF FinishExecution
<1>5. CASE FinishInconclusive(x)
  BY <1>5, <1>s DEF FinishInconclusive
<1>6. CASE FinishReconciled(x)
  BY <1>6, <1>s, FinalizeEffect DEF FinishReconciled
<1>7. CASE FinishLookupThrew(x)
  BY <1>7, <1>s DEF FinishLookupThrew
<1> QED BY <1>1, <1>2, <1>3, <1>4, <1>5, <1>6, <1>7 DEF SecondSegment

-----------------------------------------------------------------------------
(* Type correctness is not inductive alone: a receipt's key is KeyOf of the *)
(* operation id a call or a record holds, so those must be real ones.       *)

ArgumentsKnown ==
  /\ \A x \in Calls : calls[x].fresh => calls[x].phase # "idle"
  /\ \A x \in Calls : calls[x].phase # "idle" => Known(x)
  /\ \A x \in Calls : calls[x].phase = "reconciling" =>
       /\ calls[x].priorOp \in Operations
       /\ calls[x].priorCap \in Capabilities
  /\ \A k \in Keys : store[k].state # "none" =>
       /\ store[k].op \in Operations
       /\ store[k].cap \in Capabilities
       /\ store[k].payload \in Payloads

LEMMA ToolStepType ==
  ASSUME TypeOK, ArgumentsKnown, NEW x \in Calls, ToolStep(x)
  PROVE  TypeOK'
<1> USE DEF TypeOK
<1>k. ASSUME UNCHANGED <<registryVars, store, ledger>>
      PROVE  /\ RegistryTypeOK' /\ StoreTypeOK'
             /\ ledger' \in [Operations -> Seq(EventTypes)]
  BY <1>k DEF registryVars, RegistryTypeOK, StoreTypeOK
<1>t. ASSUME UNCHANGED toolVars PROVE ToolTypeOK'
  BY <1>t DEF toolVars, ToolTypeOK
<1>r. {"receipt", "threw", "unknown"} \subseteq Replies /\ NoReceipt \in Receipts
  BY DEF Replies, NoReceipt, Receipts
<1>i. ASSUME Invoked(x) PROVE Known(x)
  BY <1>i DEF Invoked, ArgumentsKnown
<1>1. CASE ToolPerforms(x)
  <2>1. Known(x)
    BY <1>1, <1>i DEF ToolPerforms
  <2>2. ReceiptFor(calls[x].op, calls[x].payload) \in Receipts
    BY <2>1, Constants DEF Known, ReceiptFor, Receipts
  <2>3. ToolTypeOK'
    BY <1>1, <2>1, PerformType DEF ToolPerforms, Known
  <2> QED BY <1>1, <1>k, <1>r, <2>2, <2>3, SettlesType DEF ToolPerforms
<1>2. CASE ToolThrows(x)
  BY <1>2, <1>k, <1>t, <1>r, SettlesType DEF ToolThrows
<1>3. CASE ToolMisreports(x)
  <2>1. PICK k \in (Keys \ {KeyOf[calls[x].op]}) \cup {None} :
          Settles(x, "receipt", [key |-> k, payload |-> calls[x].payload])
    BY <1>3 DEF ToolMisreports
  <2>2. [key |-> k, payload |-> calls[x].payload] \in Receipts
    BY <1>3, <1>i DEF ToolMisreports, Known, Receipts
  <2> QED BY <1>3, <1>k, <1>t, <1>r, <2>1, <2>2, SettlesType DEF ToolMisreports
<1>4. CASE ToolAnswersLookup(x)
  <2>1. calls[x].priorOp \in Operations
    BY <1>4 DEF ToolAnswersLookup, ArgumentsKnown
  <2>2. ReceiptFor(calls[x].priorOp, byOperationId[calls[x].priorOp]) \in Receipts
    BY <2>1, Constants DEF ReceiptFor, Receipts, ToolTypeOK
  <2>3. calls' \in [Calls -> CallRecord]
    BY <1>4, <1>r, <2>2, SettlesType DEF ToolAnswersLookup
  <2> QED BY <1>4, <1>k, <1>t, <2>3 DEF ToolAnswersLookup
<1>5. CASE ToolFailsLookup(x)
  BY <1>5, <1>k, <1>t, <1>r, SettlesType DEF ToolFailsLookup
<1> QED BY <1>1, <1>2, <1>3, <1>4, <1>5 DEF ToolStep

(* What the fields a later segment reads are known to hold. *)
LEMMA CallFields ==
  ASSUME TypeOK, NEW x \in Calls
  PROVE  /\ calls[x].op \in Operations \cup {None}
         /\ calls[x].cap \in Capabilities \cup {None}
         /\ calls[x].payload \in Payloads \cup {None}
         /\ calls[x].priorCap \in Capabilities \cup {None}
BY DEF TypeOK, CallRecord

LEMMA SecondSegmentType ==
  ASSUME TypeOK, NEW x \in Calls, SecondSegment(x)
  PROVE  TypeOK'
<1> USE DEF TypeOK
<1>1. RegistryTypeOK' /\ ToolTypeOK'
  BY SecondSegmentEffect
     DEF registryVars, toolVars, RegistryTypeOK, ToolTypeOK
<1>2. calls' \in [Calls -> CallRecord]
  BY SecondSegmentEffect, ReturnType
<1>3. StoreTypeOK'
  <2>1. CASE UNCHANGED store
    BY <2>1 DEF StoreTypeOK
  <2>2. ASSUME NEW s \in OutcomeStates,
               Record(calls[x].op, RecordedCap(x), calls[x].payload, s)
        PROVE  StoreTypeOK'
    BY <2>2, CallFields, RecordType DEF RecordedCap
  <2> QED BY <2>1, <2>2, SecondSegmentEffect
<1>4. ledger' \in [Operations -> Seq(EventTypes)]
  BY SecondSegmentEffect, AuditType, CallFields
<1> QED BY <1>1, <1>2, <1>3, <1>4

-----------------------------------------------------------------------------
(* One lemma splits a step of the system into its four kinds; every proof    *)
(* below has these four cases and the stutter.                               *)

LEMMA StepKinds ==
  ASSUME [Next]_vars
  PROVE  \/ EnvironmentStep
         \/ \E x \in Calls, o \in Operations, c \in Capabilities, p \in Payloads :
              FirstSegment(x, o, c, p)
         \/ \E x \in Calls : ToolStep(x)
         \/ \E x \in Calls : SecondSegment(x)
         \/ UNCHANGED vars
BY DEF Next

(* A step of the tool settles one promise, and moves only the tool's state. *)
LEMMA ToolStepEffect ==
  ASSUME NEW x, ToolStep(x)
  PROVE  /\ UNCHANGED <<registryVars, store, ledger>>
         /\ \E kind, receipt : Settles(x, kind, receipt)
         /\ calls[x].reply = "pending"
         /\ ToolPerforms(x) \/ UNCHANGED toolVars
<1>1. CASE ToolPerforms(x)
  BY <1>1 DEF ToolPerforms, Invoked
<1>2. CASE ToolThrows(x)
  BY <1>2 DEF ToolThrows, Invoked
<1>3. CASE ToolMisreports(x)
  BY <1>3 DEF ToolMisreports, Invoked
<1>4. CASE ToolAnswersLookup(x)
  BY <1>4 DEF ToolAnswersLookup
<1>5. CASE ToolFailsLookup(x)
  BY <1>5 DEF ToolFailsLookup
<1> QED BY <1>1, <1>2, <1>3, <1>4, <1>5 DEF ToolStep

LEMMA ArgumentsKnownStep ==
  ASSUME TypeOK, ArgumentsKnown, [Next]_vars
  PROVE  ArgumentsKnown'
<1> USE DEF ArgumentsKnown
<1>t. calls \in [Calls -> CallRecord]
  BY DEF TypeOK
<1>1. CASE EnvironmentStep
  BY <1>1 DEF EnvironmentStep, Known
<1>2. ASSUME NEW x \in Calls, NEW o \in Operations, NEW c \in Capabilities,
             NEW p \in Payloads, FirstSegment(x, o, c, p)
      PROVE  ArgumentsKnown'
  <2>1. ASSUME BeginReconcile(x, o, c, p)
        PROVE  store[KeyOf[o]].op \in Operations /\ store[KeyOf[o]].cap \in Capabilities
    <3>1. KeyOf[o] \in Keys /\ store[KeyOf[o]].state # "none"
      BY <2>1, Constants DEF BeginReconcile
    <3> QED BY <3>1
  <2>2. /\ calls'[x].phase # "idle" /\ Known(x)'
        /\ calls'[x].phase = "reconciling" =>
             calls'[x].priorOp \in Operations /\ calls'[x].priorCap \in Capabilities
    BY <1>2, <1>t, <2>1, FirstSegmentEffect DEF Known
  <2>3. store' = store /\ \A y \in Calls : y # x => calls'[y] = calls[y]
    BY <1>2, <1>t, FirstSegmentEffect
  <2> QED BY <2>2, <2>3 DEF Known
<1>3. ASSUME NEW x \in Calls, ToolStep(x)
      PROVE  ArgumentsKnown'
  <2>1. store' = store
    BY <1>3, ToolStepEffect
  <2>2. \A y \in Calls : SameArguments(y) /\ calls'[y].phase = calls[y].phase
    BY <1>3, <1>t, ToolStepEffect, SettlesEffect
  <2> QED BY <2>1, <2>2 DEF SameArguments, Known
<1>4. ASSUME NEW x \in Calls, SecondSegment(x)
      PROVE  ArgumentsKnown'
  <2>1. /\ \A y \in Calls : SameArguments(y)
        /\ \A y \in Calls : y # x => calls'[y] = calls[y]
        /\ calls'[x].phase = "returned"
    BY <1>4, <1>t, SecondSegmentEffect, ReturnEffect
  <2>2. Known(x) /\ RecordedCap(x) \in Capabilities
    BY <1>4, SecondSegmentEffect DEF RecordedCap, Known
  <2>3. \A k \in Keys : store'[k].state # "none" =>
          /\ store'[k].op \in Operations
          /\ store'[k].cap \in Capabilities
          /\ store'[k].payload \in Payloads
    <3>1. CASE UNCHANGED store
      BY <3>1
    <3>2. ASSUME NEW s \in OutcomeStates,
                 Record(calls[x].op, RecordedCap(x), calls[x].payload, s)
          PROVE  \A k \in Keys : store'[k].state # "none" =>
                   /\ store'[k].op \in Operations
                   /\ store'[k].cap \in Capabilities
                   /\ store'[k].payload \in Payloads
      BY <2>2, <3>2 DEF Record, Known, TypeOK, StoreTypeOK
    <3> QED BY <1>4, <3>1, <3>2, SecondSegmentEffect
  <2>4. \A y \in Calls : /\ calls'[y].fresh => calls'[y].phase # "idle"
                         /\ calls'[y].phase # "idle" => Known(y)'
                         /\ calls'[y].phase = "reconciling" =>
                              /\ calls'[y].priorOp \in Operations
                              /\ calls'[y].priorCap \in Capabilities
    BY <2>1, <2>2 DEF SameArguments, Known
  <2> QED BY <2>3, <2>4
<1>5. CASE UNCHANGED vars
  BY <1>5 DEF vars, Known
<1> QED BY <1>1, <1>2, <1>3, <1>4, <1>5, StepKinds

LEMMA TypeStep ==
  ASSUME TypeOK, ArgumentsKnown, [Next]_vars
  PROVE  TypeOK'
<1>1. CASE EnvironmentStep
  <2>1. RegistryTypeOK'
    BY <1>1, RegistryStepType DEF EnvironmentStep, TypeOK
  <2> QED BY <1>1, <2>1
          DEF EnvironmentStep, TypeOK, StoreTypeOK, ToolTypeOK, toolVars
<1>2. CASE UNCHANGED vars
  BY <1>2 DEF vars, registryVars, toolVars, TypeOK, RegistryTypeOK, StoreTypeOK,
              ToolTypeOK
<1> QED BY <1>1, <1>2, StepKinds, FirstSegmentType, ToolStepType, SecondSegmentType

(* The invariant the remaining proofs build on. *)
Sound == TypeOK /\ ArgumentsKnown

LEMMA SoundInvariant ==
  /\ Init => Sound
  /\ Sound /\ [Next]_vars => Sound'
<1>1. Init => Sound
  BY InitType DEF Init, StoreInit, NoRecord, NotCalled, ArgumentsKnown, Sound
<1> QED BY <1>1, TypeStep, ArgumentsKnownStep DEF Sound

(* In every reachable state the variables hold values of the types the code
   declares for them, and what a call or a record names really exists. *)
THEOREM TypeCorrect == Spec => []TypeOK
<1>1. Sound => TypeOK
  BY DEF Sound
<1> QED BY <1>1, SoundInvariant, PTL DEF Spec

(* A call that has consumed a capability never gives it back, and the only
   step by which one acquires it is StartExecution. *)
LEMMA FreshStep ==
  ASSUME Sound, [Next]_vars
  PROVE  \/ \E x \in Calls, o \in Operations, c \in Capabilities, p \in Payloads :
              /\ StartExecution(x, o, c, p)
              /\ calls[x].phase = "idle"
              /\ calls'[x].fresh
              /\ calls'[x].phase = "executing"
              /\ calls'[x].op = o /\ calls'[x].cap = c /\ calls'[x].payload = p
              /\ \A y \in Calls : y # x => calls'[y] = calls[y]
         \/ \A y \in Calls :
              /\ calls'[y].fresh <=> calls[y].fresh
              /\ calls[y].phase # "idle" =>
                   /\ SameArguments(y)
                   /\ calls'[y].phase # "idle"
<1>t. calls \in [Calls -> CallRecord]
  BY DEF Sound, TypeOK
<1>b. \A y \in Calls : calls[y].fresh \in BOOLEAN
  BY <1>t DEF CallRecord
<1>f. \A y \in Calls : calls[y].fresh => calls[y].phase # "idle"
  BY DEF Sound, ArgumentsKnown
<1> USE DEF SameArguments
<1>1. CASE EnvironmentStep
  BY <1>1 DEF EnvironmentStep
<1>2. ASSUME NEW x \in Calls, NEW o \in Operations, NEW c \in Capabilities,
             NEW p \in Payloads, FirstSegment(x, o, c, p),
             ~ StartExecution(x, o, c, p)
      PROVE  \A y \in Calls :
               /\ calls'[y].fresh <=> calls[y].fresh
               /\ calls[y].phase # "idle" => /\ SameArguments(y)
                                             /\ calls'[y].phase # "idle"
  BY <1>2, <1>t, <1>f, FirstSegmentEffect
<1>3. ASSUME NEW x \in Calls, NEW o \in Operations, NEW c \in Capabilities,
             NEW p \in Payloads, FirstSegment(x, o, c, p),
             StartExecution(x, o, c, p)
      PROVE  /\ calls[x].phase = "idle"
             /\ calls'[x].fresh
             /\ calls'[x].phase = "executing"
             /\ calls'[x].op = o /\ calls'[x].cap = c /\ calls'[x].payload = p
             /\ \A y \in Calls : y # x => calls'[y] = calls[y]
  <2>1. calls[x].phase = "idle"
    BY <1>3, <1>t, FirstSegmentEffect
  <2>2. PICK t \in {now, now + 1} :
          calls' = [calls EXCEPT ![x] =
               [NotCalled EXCEPT !.phase = "executing", !.fresh = TRUE,
                                 !.op = o, !.cap = c, !.payload = p,
                                 !.reply = IF Usable(c, ScopeOf[o], t)
                                             THEN "pending" ELSE "gateway_rejected"]]
    BY <1>3 DEF StartExecution
  <2> QED BY <2>1, <2>2, <1>t DEF NotCalled
<1>4. ASSUME NEW x \in Calls, ToolStep(x)
      PROVE  \A y \in Calls : SameArguments(y) /\ calls'[y].phase = calls[y].phase
  BY <1>4, <1>t, ToolStepEffect, SettlesEffect
<1>5. ASSUME NEW x \in Calls, SecondSegment(x)
      PROVE  \A y \in Calls :
               SameArguments(y) /\ (calls[y].phase # "idle" => calls'[y].phase # "idle")
  BY <1>5, <1>t, SecondSegmentEffect, ReturnEffect
<1>6. CASE UNCHANGED vars
  BY <1>6 DEF vars
<1> QED BY <1>1, <1>2, <1>3, <1>4, <1>5, <1>6, StepKinds

(* A consumed capability stays consumed, and keeps its expiry. *)
LEMMA ConsumedStays ==
  ASSUME Sound, [Next]_vars, NEW c \in Capabilities,
         registry[c].status = "consumed"
  PROVE  registry'[c].status = "consumed"
<1>t. registry \in [Capabilities -> CapabilityRecord] /\ calls \in [Calls -> CallRecord]
  BY DEF Sound, TypeOK, RegistryTypeOK
<1>1. CASE EnvironmentStep
  BY <1>1, <1>t DEF EnvironmentStep, Tick, Drift, Mint, Register
<1>2. ASSUME NEW x \in Calls, NEW o \in Operations, NEW d \in Capabilities,
             NEW p \in Payloads, FirstSegment(x, o, d, p)
      PROVE  registry'[c].status = "consumed"
  <2>1. CASE StartExecution(x, o, d, p)
    BY <2>1, <1>t DEF StartExecution, Consume, CapabilityRecord
  <2>2. CASE UNCHANGED registryVars
    BY <2>2 DEF registryVars
  <2> QED BY <1>2, <1>t, <2>1, <2>2, FirstSegmentEffect
<1>3. CASE UNCHANGED registryVars
  BY <1>3 DEF registryVars
<1>4. CASE UNCHANGED vars
  BY <1>4 DEF vars, registryVars
<1> QED BY <1>1, <1>2, <1>3, <1>4, StepKinds, ToolStepEffect, SecondSegmentEffect

-----------------------------------------------------------------------------
(* The inductive invariants.  Each relates what the calls still hold to what *)
(* the registry, the store and the tool will say when they use it.          *)

(* A capability that started an execution is consumed, and stays so. *)
ConsumedBeforeStart ==
  \A x \in Calls : calls[x].fresh =>
    calls[x].phase # "idle" /\ registry[calls[x].cap].status = "consumed"

LEMMA ConsumedInvariant ==
  ASSUME Sound, ConsumedBeforeStart, CapabilityStartsOneExecution, [Next]_vars
  PROVE  ConsumedBeforeStart' /\ CapabilityStartsOneExecution'
<1> USE DEF ConsumedBeforeStart, CapabilityStartsOneExecution
<1>k. \A x \in Calls : calls[x].fresh => calls[x].cap \in Capabilities
  BY DEF Sound, ArgumentsKnown, Known
<1>1. ASSUME NEW x \in Calls, NEW o \in Operations, NEW c \in Capabilities,
             NEW p \in Payloads, StartExecution(x, o, c, p),
             calls'[x].fresh, calls'[x].phase = "executing", calls'[x].cap = c,
             \A y \in Calls : y # x => calls'[y] = calls[y]
      PROVE  ConsumedBeforeStart' /\ CapabilityStartsOneExecution'
  <2>1. registry[c].status = "active"
    BY <1>1 DEF StartExecution, Consume, Consumable
  <2>2. registry'[c].status = "consumed"
    BY <1>1 DEF StartExecution, Consume, Sound, TypeOK, RegistryTypeOK,
                CapabilityRecord
  <2>3. \A y \in Calls : y # x /\ calls[y].fresh => calls[y].cap # c
    BY <2>1
  <2> QED BY <1>1, <1>k, <2>2, <2>3, ConsumedStays
<1>2. CASE \A y \in Calls : /\ calls'[y].fresh <=> calls[y].fresh
                            /\ calls[y].phase # "idle" =>
                                 /\ SameArguments(y)
                                 /\ calls'[y].phase # "idle"
  <2>1. \A y \in Calls : calls'[y].fresh =>
          calls[y].fresh /\ calls'[y].cap = calls[y].cap /\ calls'[y].phase # "idle"
    BY <1>2 DEF SameArguments
  <2> QED BY <1>k, <2>1, ConsumedStays
<1> QED BY <1>1, <1>2, FreshStep

(* However many calls present one capability, and whatever becomes of the
   first, executeAction hands it to the tool once. *)
THEOREM CapabilityIsSingleUse == Spec => []CapabilityStartsOneExecution
<1> DEFINE IInv == Sound /\ ConsumedBeforeStart /\ CapabilityStartsOneExecution
<1>1. Init => IInv
  BY SoundInvariant
     DEF Init, NotCalled, ConsumedBeforeStart, CapabilityStartsOneExecution
<1>2. IInv /\ [Next]_vars => IInv'
  BY SoundInvariant, ConsumedInvariant
<1> QED BY <1>1, <1>2, PTL DEF Spec

(* No call starts an execution of a key that has an outcome on record, be it
   an unknown one: check() answers "new" only for a key never recorded. *)
THEOREM RetriesOnlyLookUp == Spec => NoBlindRetry
<1> DEFINE A == \A x \in Calls : calls'[x].fresh /\ ~ calls[x].fresh =>
                   store[KeyOf[calls'[x].op]].state = "none"
<1>1. Sound /\ [Next]_vars => A
  <2> SUFFICES ASSUME Sound, [Next]_vars, NEW x \in Calls,
                      calls'[x].fresh, ~ calls[x].fresh
               PROVE  store[KeyOf[calls'[x].op]].state = "none"
    OBVIOUS
  <2>1. PICK y \in Calls, o \in Operations, c \in Capabilities, p \in Payloads :
          /\ StartExecution(y, o, c, p)
          /\ calls'[y].op = o
          /\ \A z \in Calls : z # y => calls'[z] = calls[z]
    BY FreshStep
  <2>2. x = y
    BY <2>1
  <2>3. Check(KeyOf[o], p) = "new"
    BY <2>1 DEF StartExecution
  <2> QED BY <2>1, <2>2, <2>3 DEF Check
<1> QED BY <1>1, SoundInvariant, PTL DEF Spec, NoBlindRetry

(* Every effect, however late it lands, is covered by a capability that was
   consumed to start it and has not expired at that moment. *)
THEOREM EffectsAreAuthorized == Spec => EffectWithinAuthority
<1> DEFINE IInv == Sound /\ ConsumedBeforeStart /\ CapabilityStartsOneExecution
           A == \A k \in Keys : created'[k] > created[k] =>
                  \E x \in Calls : /\ calls[x].fresh
                                   /\ KeyOf[calls[x].op] = k
                                   /\ registry[calls[x].cap].status = "consumed"
                                   /\ now < registry[calls[x].cap].expiresAt
<1>1. Init => IInv
  BY SoundInvariant
     DEF Init, NotCalled, ConsumedBeforeStart, CapabilityStartsOneExecution
<1>2. IInv /\ [Next]_vars => IInv'
  BY SoundInvariant, ConsumedInvariant
<1>3. IInv /\ [Next]_vars => A
  <2> SUFFICES ASSUME IInv, [Next]_vars, NEW k \in Keys, created'[k] > created[k]
               PROVE  \E x \in Calls : /\ calls[x].fresh
                                       /\ KeyOf[calls[x].op] = k
                                       /\ registry[calls[x].cap].status = "consumed"
                                       /\ now < registry[calls[x].cap].expiresAt
    OBVIOUS
  <2>n. created[k] \in Nat
    BY DEF Sound, TypeOK, ToolTypeOK
  <2>1. PICK x \in Calls : ToolPerforms(x)
    <3>1. created' # created
      BY <2>n
    <3>t. calls \in [Calls -> CallRecord]
      BY DEF Sound, TypeOK
    <3> QED BY <3>1, <3>t, StepKinds, FirstSegmentEffect, ToolStepEffect,
               SecondSegmentEffect
            DEF EnvironmentStep, vars, toolVars
  <2>2. calls[x].fresh /\ now < registry[calls[x].cap].expiresAt
    BY <2>1 DEF ToolPerforms, Invoked
  <2>3. KeyOf[calls[x].op] = k
    <3>1. Perform(calls[x].op, calls[x].payload)
      BY <2>1 DEF ToolPerforms
    <3> QED BY <3>1, <2>n DEF Perform, Sound, TypeOK, ToolTypeOK
  <2> QED BY <2>2, <2>3 DEF ConsumedBeforeStart
<1> HIDE DEF IInv, A
<1>4. IInv /\ [Next]_vars => A
  BY <1>3
<1> QED BY <1>1, <1>2, <1>4, PTL DEF Spec, EffectWithinAuthority, A

(* Only StartExecution calls adapter.execute: no other step opens an
   invocation that was closed, or of a call that had not begun. *)
LEMMA OnlyStartInvokes ==
  ASSUME Sound, [Next]_vars, NEW x \in Calls, Invoked(x)', ~ Invoked(x)
  PROVE  \E o \in Operations, c \in Capabilities, p \in Payloads :
           StartExecution(x, o, c, p) /\ calls'[x].op = o /\ calls'[x].cap = c
<1>t. calls \in [Calls -> CallRecord]
  BY DEF Sound, TypeOK
<1>f. calls[x].fresh => calls[x].phase # "idle"
  BY DEF Sound, ArgumentsKnown
<1>i. calls'[x].fresh /\ calls'[x].reply = "pending"
      /\ ~ (calls[x].fresh /\ calls[x].reply = "pending")
  BY DEF Invoked
<1>1. CASE EnvironmentStep \/ UNCHANGED vars
  BY <1>1, <1>i DEF EnvironmentStep, vars
<1>2. ASSUME NEW y \in Calls, NEW o \in Operations, NEW c \in Capabilities,
             NEW p \in Payloads, FirstSegment(y, o, c, p)
      PROVE  x = y /\ StartExecution(y, o, c, p) /\ calls'[y].op = o /\ calls'[y].cap = c
  BY <1>2, <1>t, <1>i, FirstSegmentEffect
<1>3. ASSUME NEW y \in Calls, ToolStep(y) PROVE FALSE
  <2>1. PICK kind, receipt : Settles(y, kind, receipt)
    BY <1>3, ToolStepEffect
  <2>2. calls[y].reply = "pending"
    BY <1>3, ToolStepEffect
  <2> QED BY <1>t, <1>i, <2>1, <2>2 DEF Settles, CallRecord
<1>4. ASSUME NEW y \in Calls, SecondSegment(y) PROVE FALSE
  <2>1. PICK r \in Results : Return(y, r)
    BY <1>4, SecondSegmentEffect
  <2> QED BY <1>t, <1>i, <2>1 DEF Return, CallRecord
<1> QED BY <1>1, <1>2, <1>3, <1>4, StepKinds

(* adapter.execute is never called with a capability that has expired between
   the two readings of the clock, is of another scope, stale or spent. *)
THEOREM ExecutesAreAuthorized == Spec => ExecutesWithinAuthority
<1> DEFINE A == \A x \in Calls : Invoked(x)' /\ ~ Invoked(x) =>
                  LET c == calls'[x].cap IN
                  /\ now' < registry[c].expiresAt
                  /\ registry[c].scope = ScopeOf[calls'[x].op]
                  /\ registry[c].expected = version'
                  /\ registry[c].status = "active" /\ registry'[c].status = "consumed"
<1>1. Sound /\ [Next]_vars => A
  <2> SUFFICES ASSUME Sound, [Next]_vars, NEW x \in Calls, Invoked(x)', ~ Invoked(x)
               PROVE  LET c == calls'[x].cap IN
                      /\ now' < registry[c].expiresAt
                      /\ registry[c].scope = ScopeOf[calls'[x].op]
                      /\ registry[c].expected = version'
                      /\ registry[c].status = "active"
                      /\ registry'[c].status = "consumed"
    OBVIOUS
  <2>1. PICK o \in Operations, c \in Capabilities, p \in Payloads :
          StartExecution(x, o, c, p) /\ calls'[x].op = o /\ calls'[x].cap = c
    BY OnlyStartInvokes
  <2>2. now' < registry[c].expiresAt /\ registry[c].scope = ScopeOf[o]
    <3>1. PICK t \in {now, now + 1} :
            /\ now' = t
            /\ calls' = [calls EXCEPT ![x] =
                 [NotCalled EXCEPT !.phase = "executing", !.fresh = TRUE,
                                   !.op = o, !.cap = c, !.payload = p,
                                   !.reply = IF Usable(c, ScopeOf[o], t)
                                               THEN "pending" ELSE "gateway_rejected"]]
      BY <2>1 DEF StartExecution
    <3>2. calls'[x].reply = IF Usable(c, ScopeOf[o], t) THEN "pending" ELSE "gateway_rejected"
      BY <3>1 DEF NotCalled, Sound, TypeOK
    <3>3. Usable(c, ScopeOf[o], t)
      BY <3>2 DEF Invoked
    <3> QED BY <3>1, <3>3 DEF Usable
  <2>3. registry[c].expected = version'
    BY <2>1 DEF StartExecution, Admitted, Fresh
  <2>4. registry[c].status = "active" /\ registry'[c].status = "consumed"
    BY <2>1 DEF StartExecution, Consume, Consumable, Sound, TypeOK, RegistryTypeOK,
                CapabilityRecord
  <2> QED BY <2>1, <2>2, <2>3, <2>4
<1> HIDE DEF A
<1>2. Sound /\ [Next]_vars => A
  BY <1>1
<1> QED BY <1>2, SoundInvariant, PTL DEF Spec, ExecutesWithinAuthority, A

-----------------------------------------------------------------------------
(* Only a call that consumed its capability is executing, and what a call
   reconciles was once started by another one. *)
StartedFor(k, c, p) ==
  \E y \in Calls : /\ calls[y].fresh
                   /\ KeyOf[calls[y].op] = k
                   /\ calls[y].cap = c
                   /\ calls[y].payload = p

HeldOutcomesStarted ==
  /\ \A x \in Calls : calls[x].phase = "executing" => calls[x].fresh
  /\ \A x \in Calls : calls[x].phase = "reconciling" =>
       StartedFor(KeyOf[calls[x].op], calls[x].priorCap, calls[x].payload)
  /\ \A k \in Keys : store[k].state # "none" =>
       StartedFor(k, store[k].cap, store[k].payload)


(* The same of the next state, about values of either state. *)
StillStarted(k, c, p) ==
  \E y \in Calls : /\ calls'[y].fresh
                   /\ KeyOf[calls'[y].op] = k
                   /\ calls'[y].cap = c
                   /\ calls'[y].payload = p

LEMMA StartedForStays ==
  ASSUME Sound, [Next]_vars
  PROVE  \A k, c, p : StartedFor(k, c, p) => StillStarted(k, c, p)
<1> SUFFICES ASSUME NEW k, NEW c, NEW p, StartedFor(k, c, p)
             PROVE  StillStarted(k, c, p)
  OBVIOUS
<1>1. PICK y \in Calls : /\ calls[y].fresh /\ KeyOf[calls[y].op] = k
                         /\ calls[y].cap = c /\ calls[y].payload = p
  BY DEF StartedFor
<1>2. calls[y].phase # "idle"
  BY <1>1 DEF Sound, ArgumentsKnown
<1>3. SameArguments(y)
  BY <1>2, FreshStep DEF SameArguments
<1> QED BY <1>1, <1>3 DEF StillStarted, SameArguments

LEMMA HeldOutcomesStep ==
  ASSUME Sound, HeldOutcomesStarted, [Next]_vars
  PROVE  HeldOutcomesStarted'
<1>t. calls \in [Calls -> CallRecord]
  BY DEF Sound, TypeOK
<1>1. CASE EnvironmentStep
  BY <1>1 DEF EnvironmentStep, HeldOutcomesStarted, StartedFor
<1>2. ASSUME NEW x \in Calls, NEW o \in Operations, NEW c \in Capabilities,
             NEW p \in Payloads, FirstSegment(x, o, c, p)
      PROVE  HeldOutcomesStarted'
  <2>1. /\ store' = store
        /\ \A y \in Calls : y # x => calls'[y] = calls[y]
        /\ calls'[x].phase = "executing" => calls'[x].fresh
    BY <1>2, <1>t, FirstSegmentEffect
  <2>2. ASSUME calls'[x].phase = "reconciling"
        PROVE  StartedFor(KeyOf[calls'[x].op], calls'[x].priorCap, calls'[x].payload)
    <3>1. /\ BeginReconcile(x, o, c, p)
          /\ calls'[x].op = o /\ calls'[x].payload = p
          /\ calls'[x].priorCap = store[KeyOf[o]].cap
      BY <1>2, <1>t, <2>2, FirstSegmentEffect
    <3>2. /\ KeyOf[o] \in Keys
          /\ store[KeyOf[o]].state # "none" /\ store[KeyOf[o]].payload = p
      BY <3>1, Constants DEF BeginReconcile, Check
    <3> QED BY <3>1, <3>2 DEF HeldOutcomesStarted
  <2>3. \A y \in Calls : calls'[y].phase = "reconciling" =>
          StartedFor(KeyOf[calls'[y].op], calls'[y].priorCap, calls'[y].payload)
    BY <2>1, <2>2 DEF HeldOutcomesStarted
  <2>4. \A y \in Calls : calls'[y].phase = "reconciling" =>
          StillStarted(KeyOf[calls'[y].op], calls'[y].priorCap, calls'[y].payload)
    BY <2>3, StartedForStays
  <2>5. \A k \in Keys : store'[k].state # "none" =>
          StillStarted(k, store'[k].cap, store'[k].payload)
    BY <2>1, StartedForStays DEF HeldOutcomesStarted
  <2>6. \A y \in Calls : calls'[y].phase = "executing" => calls'[y].fresh
    BY <2>1 DEF HeldOutcomesStarted
  <2> QED BY <2>1, <2>4, <2>5, <2>6 DEF HeldOutcomesStarted, StartedFor, StillStarted
<1>3. ASSUME NEW x \in Calls, ToolStep(x)
      PROVE  HeldOutcomesStarted'
  <2>1. store' = store
    BY <1>3, ToolStepEffect
  <2>2. \A y \in Calls : SameArguments(y) /\ calls'[y].phase = calls[y].phase
    BY <1>3, <1>t, ToolStepEffect, SettlesEffect
  <2> QED BY <2>1, <2>2 DEF HeldOutcomesStarted, StartedFor, SameArguments
<1>4. ASSUME NEW x \in Calls, SecondSegment(x)
      PROVE  HeldOutcomesStarted'
  <2>1. /\ \A y \in Calls : SameArguments(y)
        /\ \A y \in Calls : y # x => calls'[y] = calls[y]
        /\ calls'[x].phase = "returned"
        /\ calls[x].phase \in {"executing", "reconciling"}
    BY <1>4, <1>t, SecondSegmentEffect, ReturnEffect
  <2>2. StartedFor(KeyOf[calls[x].op], RecordedCap(x), calls[x].payload)
    BY <2>1 DEF HeldOutcomesStarted, StartedFor, RecordedCap
  <2>3. \A k \in Keys : store'[k].state # "none" =>
          StartedFor(k, store'[k].cap, store'[k].payload)
    <3>1. CASE UNCHANGED store
      BY <3>1 DEF HeldOutcomesStarted
    <3>2. ASSUME NEW s \in OutcomeStates,
                 Record(calls[x].op, RecordedCap(x), calls[x].payload, s)
          PROVE  \A k \in Keys : store'[k].state # "none" =>
                   StartedFor(k, store'[k].cap, store'[k].payload)
      <4>1. \A k \in Keys : k # KeyOf[calls[x].op] => store'[k] = store[k]
        BY <3>2 DEF Record, Sound, TypeOK, StoreTypeOK
      <4>2. \A k \in Keys : k = KeyOf[calls[x].op] =>
              store'[k].cap = RecordedCap(x) /\ store'[k].payload = calls[x].payload
        BY <3>2 DEF Record, Sound, TypeOK, StoreTypeOK
      <4> QED BY <4>1, <4>2, <2>2 DEF HeldOutcomesStarted
    <3> QED BY <1>4, <3>1, <3>2, SecondSegmentEffect
  <2>4. \A k \in Keys : store'[k].state # "none" =>
          StillStarted(k, store'[k].cap, store'[k].payload)
    BY <2>3, StartedForStays
  <2>5. \A y \in Calls : calls'[y].phase = "reconciling" =>
          StillStarted(KeyOf[calls'[y].op], calls'[y].priorCap, calls'[y].payload)
    <3>1. \A y \in Calls : calls'[y].phase = "reconciling" =>
          StartedFor(KeyOf[calls'[y].op], calls'[y].priorCap, calls'[y].payload)
      BY <2>1 DEF HeldOutcomesStarted
    <3> QED BY <3>1, StartedForStays
  <2>6. \A y \in Calls : calls'[y].phase = "executing" => calls'[y].fresh
    BY <2>1 DEF HeldOutcomesStarted
  <2> QED BY <2>4, <2>5, <2>6 DEF HeldOutcomesStarted, StartedFor, StillStarted
<1>5. CASE UNCHANGED vars
  BY <1>5 DEF vars, HeldOutcomesStarted, StartedFor
<1> QED BY <1>1, <1>2, <1>3, <1>4, <1>5, StepKinds

(* Whatever outcome is on record, replayed or reconciled by whomever, names
   the capability of a call that started that key with that payload. *)
THEOREM OutcomesNameTheirExecution == Spec => []OutcomeNamesItsExecution
<1> DEFINE IInv == Sound /\ HeldOutcomesStarted
<1>1. Init => IInv
  BY SoundInvariant DEF Init, NotCalled, StoreInit, NoRecord, HeldOutcomesStarted
<1>2. IInv /\ [Next]_vars => IInv'
  BY SoundInvariant, HeldOutcomesStep
<1>3. IInv => OutcomeNamesItsExecution
  BY DEF HeldOutcomesStarted, StartedFor, OutcomeNamesItsExecution
<1> QED BY <1>1, <1>2, <1>3, PTL DEF Spec

-----------------------------------------------------------------------------
(* What follows from the tool's own idempotency map.                        *)

(* The tool's count of effects agrees with its idempotency map. *)
EffectsCounted ==
  \A k \in Keys : created[k] = IF byIdempotencyKey[k] = None THEN 0 ELSE 1


(* Only ToolPerforms moves the tool's state. *)
LEMMA ToolStateStep ==
  ASSUME Sound, [Next]_vars
  PROVE  UNCHANGED toolVars \/ \E x \in Calls : ToolPerforms(x) /\ Known(x)
<1>t. calls \in [Calls -> CallRecord]
  BY DEF Sound, TypeOK
<1>1. ASSUME NEW x \in Calls, ToolPerforms(x) PROVE Known(x)
  BY <1>1 DEF ToolPerforms, Invoked, Sound, ArgumentsKnown
<1> QED BY <1>1, <1>t, StepKinds, FirstSegmentEffect, ToolStepEffect,
           SecondSegmentEffect
        DEF EnvironmentStep, vars, toolVars

LEMMA EffectsCountedStep ==
  ASSUME Sound, ToolIsIdempotent, EffectsCounted, [Next]_vars
  PROVE  EffectsCounted'
<1>1. CASE UNCHANGED toolVars
  BY <1>1 DEF toolVars, EffectsCounted
<1>2. ASSUME NEW x \in Calls, ToolPerforms(x), Known(x)
      PROVE  EffectsCounted'
  <2>1. calls[x].payload # None
    BY <1>2, IdentityAssumption DEF Known
  <2>2. Perform(calls[x].op, calls[x].payload)
    BY <1>2 DEF ToolPerforms
  <2> QED BY <2>1, <2>2 DEF Perform, EffectsCounted, Sound, TypeOK, ToolTypeOK
<1> QED BY <1>1, <1>2, ToolStateStep

(* Over a tool that remembers the keys it has seen, no key has its effect
   twice, however many executions of it overlap or land late. *)
THEOREM EffectHappensOnce ==
  ASSUME ToolIsIdempotent
  PROVE  Spec => []AtMostOneEffect
<1> DEFINE IInv == Sound /\ EffectsCounted
<1>1. Init => IInv
  BY SoundInvariant DEF Init, ToolInit, EffectsCounted
<1>2. IInv /\ [Next]_vars => IInv'
  BY SoundInvariant, EffectsCountedStep
<1>3. IInv => AtMostOneEffect
  <2> SUFFICES ASSUME EffectsCounted, NEW k \in Keys PROVE created[k] <= 1
    BY DEF AtMostOneEffect
  <2>1. CASE byIdempotencyKey[k] = None
    <3>1. created[k] = 0
      BY <2>1 DEF EffectsCounted
    <3> QED BY <3>1
  <2>2. CASE byIdempotencyKey[k] # None
    <3>1. created[k] = 1
      BY <2>2 DEF EffectsCounted
    <3> QED BY <3>1
  <2> QED BY <2>1, <2>2
<1> QED BY <1>1, <1>2, <1>3, PTL DEF Spec

(* A receipt that carries the right key, delivered or still to be looked up,
   shows the payload the effect was performed with. *)
HonestReceipt(x) ==
  /\ byIdempotencyKey[KeyOf[calls[x].op]] = calls[x].receipt.payload
  /\ calls[x].receipt.payload # None

ReceiptsHonest ==
  /\ \A o \in Operations : byOperationId[o] # None =>
       byIdempotencyKey[KeyOf[o]] = byOperationId[o]
  /\ \A x \in Calls :
       /\ calls[x].phase # "idle"
       /\ calls[x].reply = "receipt"
       /\ calls[x].receipt.key = KeyOf[calls[x].op]
       => HonestReceipt(x)

(* The remembered payload of a key never changes once it is there. *)
LEMMA EffectStays ==
  ASSUME Sound, ToolIsIdempotent, [Next]_vars, NEW k \in Keys,
         byIdempotencyKey[k] # None
  PROVE  byIdempotencyKey'[k] = byIdempotencyKey[k]
<1>1. CASE UNCHANGED toolVars
  BY <1>1 DEF toolVars
<1>2. ASSUME NEW x \in Calls, ToolPerforms(x), Known(x)
      PROVE  byIdempotencyKey'[k] = byIdempotencyKey[k]
  <2>1. Perform(calls[x].op, calls[x].payload)
    BY <1>2 DEF ToolPerforms
  <2> QED BY <2>1 DEF Perform, Sound, TypeOK, ToolTypeOK
<1> QED BY <1>1, <1>2, ToolStateStep

LEMMA ToolReceiptsStep ==
  ASSUME Sound, ToolIsIdempotent, ReceiptsHonest, NEW x \in Calls, ToolStep(x)
  PROVE  ReceiptsHonest'
<1>t. calls \in [Calls -> CallRecord]
  BY DEF Sound, TypeOK
<1>n. [Next]_vars
  BY DEF Next
<1>1. ASSUME ToolPerforms(x)
      PROVE  /\ Known(x)
             /\ byIdempotencyKey'[KeyOf[calls[x].op]] = calls[x].payload
             /\ byOperationId' = [byOperationId EXCEPT ![calls[x].op] = calls[x].payload]
             /\ calls'[x].receipt = ReceiptFor(calls[x].op, calls[x].payload)
  <2>1. Known(x)
    BY <1>1 DEF ToolPerforms, Invoked, Sound, ArgumentsKnown
  <2>2. /\ Perform(calls[x].op, calls[x].payload)
        /\ ~ PayloadMismatch(calls[x].op, calls[x].payload)
        /\ Settles(x, "receipt", ReceiptFor(calls[x].op, calls[x].payload))
    BY <1>1 DEF ToolPerforms
  <2>3. byIdempotencyKey'[KeyOf[calls[x].op]] = calls[x].payload
    BY <2>1, <2>2, Constants
       DEF Perform, PayloadMismatch, Known, Sound, TypeOK, ToolTypeOK
  <2> QED BY <2>1, <2>2, <2>3, <1>t, SettlesEffect DEF Perform
<1>2. \A o \in Operations : byOperationId'[o] # None =>
        byIdempotencyKey'[KeyOf[o]] = byOperationId'[o]
  <2>1. CASE UNCHANGED toolVars
    BY <2>1 DEF toolVars, ReceiptsHonest
  <2>2. CASE ToolPerforms(x)
    <3> TAKE o \in Operations
    <3> HAVE byOperationId'[o] # None
    <3>1. CASE o = calls[x].op
      BY <1>1, <2>2, <3>1 DEF Sound, TypeOK, ToolTypeOK
    <3>2. CASE o # calls[x].op
      <4>1. byOperationId'[o] = byOperationId[o]
        BY <1>1, <2>2, <3>2 DEF Sound, TypeOK, ToolTypeOK
      <4>2. byIdempotencyKey[KeyOf[o]] = byOperationId[o] /\ KeyOf[o] \in Keys
        BY <4>1, Constants DEF ReceiptsHonest
      <4> QED BY <4>1, <4>2, <1>n, EffectStays
    <3> QED BY <3>1, <3>2
  <2> QED BY <2>1, <2>2, ToolStepEffect
<1>3. \A y \in Calls : /\ y # x
                       /\ calls'[y].phase # "idle"
                       /\ calls'[y].reply = "receipt"
                       /\ calls'[y].receipt.key = KeyOf[calls'[y].op]
                       => HonestReceipt(y)'
  <2> SUFFICES ASSUME NEW y \in Calls, y # x, calls'[y].phase # "idle",
                      calls'[y].reply = "receipt",
                      calls'[y].receipt.key = KeyOf[calls'[y].op]
               PROVE  HonestReceipt(y)'
    OBVIOUS
  <2>1. calls'[y] = calls[y]
    BY <1>t, ToolStepEffect, SettlesEffect
  <2>2. HonestReceipt(y) /\ KeyOf[calls[y].op] \in Keys
    BY <2>1, Constants DEF ReceiptsHonest, Sound, ArgumentsKnown, Known
  <2> QED BY <2>1, <2>2, <1>n, EffectStays DEF HonestReceipt
<1>4. ASSUME calls'[x].reply = "receipt",
             calls'[x].receipt.key = KeyOf[calls'[x].op]
      PROVE  HonestReceipt(x)'
  <2>0. SameArguments(x)
    BY <1>t, ToolStepEffect, SettlesEffect
  <2>1. CASE ToolPerforms(x)
    BY <1>1, <2>0, <2>1, IdentityAssumption
       DEF SameArguments, HonestReceipt, ReceiptFor, Known
  <2>2. CASE ToolThrows(x)
    BY <1>4, <1>t, <2>2, SettlesEffect DEF ToolThrows
  <2>3. CASE ToolMisreports(x)
    <3>1. PICK k \in (Keys \ {KeyOf[calls[x].op]}) \cup {None} :
            Settles(x, "receipt", [key |-> k, payload |-> calls[x].payload])
      BY <2>3 DEF ToolMisreports
    <3>2. Known(x)
      BY <2>3 DEF ToolMisreports, Invoked, Sound, ArgumentsKnown
    <3>3. k # KeyOf[calls[x].op]
      BY <3>2, Constants, IdentityAssumption DEF Known
    <3>4. calls'[x].receipt.key = k
      BY <3>1, <1>t, SettlesEffect
    <3> QED BY <1>4, <2>0, <3>3, <3>4 DEF SameArguments
  <2>4. CASE ToolAnswersLookup(x)
    <3>1. calls[x].priorOp \in Operations
      BY <2>4 DEF ToolAnswersLookup, Sound, ArgumentsKnown
    <3> DEFINE found == byOperationId[calls[x].priorOp]
    <3>2. found # None /\ Settles(x, "receipt", ReceiptFor(calls[x].priorOp, found))
      <4>1. CASE found = None
        BY <4>1, <1>4, <1>t, <2>4, SettlesEffect DEF ToolAnswersLookup
      <4>2. CASE found # None
        BY <4>2, <2>4 DEF ToolAnswersLookup
      <4> QED BY <4>1, <4>2
    <3>3. byIdempotencyKey[KeyOf[calls[x].priorOp]] = found
      BY <3>1, <3>2 DEF ReceiptsHonest
    <3>4. calls'[x].receipt = ReceiptFor(calls[x].priorOp, found)
      BY <3>2, <1>t, SettlesEffect
    <3>5. byIdempotencyKey' = byIdempotencyKey
      BY <2>4 DEF ToolAnswersLookup, toolVars
    <3> QED BY <1>4, <2>0, <3>2, <3>3, <3>4, <3>5
            DEF SameArguments, HonestReceipt, ReceiptFor
  <2>5. CASE ToolFailsLookup(x)
    BY <1>4, <1>t, <2>5, SettlesEffect DEF ToolFailsLookup
  <2> QED BY <2>1, <2>2, <2>3, <2>4, <2>5 DEF ToolStep
<1> QED BY <1>2, <1>3, <1>4 DEF ReceiptsHonest

LEMMA ReceiptsHonestStep ==
  ASSUME Sound, ToolIsIdempotent, ReceiptsHonest, [Next]_vars
  PROVE  ReceiptsHonest'
<1>t. calls \in [Calls -> CallRecord]
  BY DEF Sound, TypeOK
<1> USE DEF ReceiptsHonest, HonestReceipt
<1>1. CASE EnvironmentStep
  BY <1>1 DEF EnvironmentStep, toolVars
<1>2. ASSUME NEW x \in Calls, NEW o \in Operations, NEW c \in Capabilities,
             NEW p \in Payloads, FirstSegment(x, o, c, p)
      PROVE  ReceiptsHonest'
  <2>1. /\ UNCHANGED toolVars
        /\ \A y \in Calls : y # x => calls'[y] = calls[y]
        /\ calls'[x].reply # "receipt"
    BY <1>2, <1>t, FirstSegmentEffect
  <2> QED BY <2>1 DEF toolVars
<1>3. ASSUME NEW x \in Calls, SecondSegment(x)
      PROVE  ReceiptsHonest'
  <2>1. /\ UNCHANGED toolVars
        /\ calls[x].phase # "idle"
        /\ \A y \in Calls : SameArguments(y)
        /\ \A y \in Calls : y # x => calls'[y] = calls[y]
        /\ \A y \in Calls : calls'[y].reply = calls[y].reply
                            /\ calls'[y].receipt = calls[y].receipt
    BY <1>3, <1>t, SecondSegmentEffect, ReturnEffect
  <2> QED BY <2>1 DEF toolVars, SameArguments
<1>4. CASE UNCHANGED vars
  BY <1>4 DEF vars, toolVars
<1> QED BY <1>1, <1>2, <1>3, <1>4, StepKinds, ToolReceiptsStep

(* A success is recorded and returned only with a verified receipt. *)
LEMMA SuccessIsVerified ==
  ASSUME NEW x, SecondSegment(x)
  PROVE  \/ /\ calls[x].reply = "receipt"
            /\ VerifyPostcondition(calls[x].op, calls[x].payload, calls[x].receipt)
            /\ \E s, c : Record(calls[x].op, c, calls[x].payload, s)
            /\ \E r : Return(x, r)
         \/ /\ \/ UNCHANGED store
               \/ \E s, c : s # "succeeded" /\ Record(calls[x].op, c, calls[x].payload, s)
            /\ \E r : r \notin OkResults /\ Return(x, r)
<1>1. {"unknown_outcome", "adapter", "capability", "reconciliation_required",
       "postcondition", "thrown"} \cap OkResults = {}
  BY DEF OkResults
<1>2. CASE TimeOut(x)
  BY <1>1, <1>2 DEF TimeOut
<1>3. CASE FinishThrew(x)
  BY <1>1, <1>3 DEF FinishThrew
<1>4. CASE FinishGatewayRejected(x)
  BY <1>1, <1>4 DEF FinishGatewayRejected
<1>5. CASE FinishExecution(x)
  BY <1>1, <1>5 DEF FinishExecution, Finalize
<1>6. CASE FinishInconclusive(x)
  BY <1>1, <1>6 DEF FinishInconclusive
<1>7. CASE FinishReconciled(x)
  BY <1>1, <1>7 DEF FinishReconciled, Finalize
<1>8. CASE FinishLookupThrew(x)
  BY <1>1, <1>8 DEF FinishLookupThrew
<1> QED BY <1>2, <1>3, <1>4, <1>5, <1>6, <1>7, <1>8 DEF SecondSegment

(* SuccessReflectsEffect, of payloads that are really there. *)
SuccessShown ==
  /\ SuccessReflectsEffect
  /\ \A x \in Calls : calls[x].result \in OkResults => Known(x)

LEMMA SuccessShownStep ==
  ASSUME Sound, ToolIsIdempotent, ContentVerified, ReceiptsHonest, SuccessShown,
         [Next]_vars
  PROVE  SuccessShown'
<1>t. calls \in [Calls -> CallRecord]
  BY DEF Sound, TypeOK
<1>s. \A k \in Keys : store[k].state = "succeeded" =>
        byIdempotencyKey'[k] = store[k].payload
  BY EffectStays, IdentityAssumption
     DEF SuccessShown, SuccessReflectsEffect, Sound, ArgumentsKnown
<1>c. \A y \in Calls : calls[y].result \in OkResults =>
        byIdempotencyKey'[KeyOf[calls[y].op]] = calls[y].payload
  BY EffectStays, Constants, IdentityAssumption
     DEF SuccessShown, SuccessReflectsEffect, Known
<1> USE DEF SuccessShown, SuccessReflectsEffect
<1>1. CASE EnvironmentStep
  BY <1>1, <1>s, <1>c DEF EnvironmentStep, Known
<1>2. ASSUME NEW x \in Calls, NEW o \in Operations, NEW c \in Capabilities,
             NEW p \in Payloads, FirstSegment(x, o, c, p)
      PROVE  SuccessShown'
  <2>1. /\ store' = store
        /\ \A y \in Calls : y # x => calls'[y] = calls[y]
        /\ calls'[x].op = o /\ calls'[x].cap = c /\ calls'[x].payload = p
        /\ calls'[x].result \in OkResults => ReplaySucceeded(x, o, c, p)
    BY <1>2, <1>t, FirstSegmentEffect DEF OkResults
  <2>2. ASSUME ReplaySucceeded(x, o, c, p)
        PROVE  byIdempotencyKey'[KeyOf[o]] = p
    <3>1. store[KeyOf[o]].state = "succeeded" /\ store[KeyOf[o]].payload = p
      BY <2>2 DEF ReplaySucceeded, Check
    <3> QED BY <3>1, <1>s, Constants
  <2> QED BY <2>1, <2>2, <1>s, <1>c DEF Known
<1>3. ASSUME NEW x \in Calls, ToolStep(x)
      PROVE  SuccessShown'
  <2>1. store' = store
    BY <1>3, ToolStepEffect
  <2>2. \A y \in Calls : SameArguments(y) /\ calls'[y].result = calls[y].result
    BY <1>3, <1>t, ToolStepEffect, SettlesEffect
  <2> QED BY <2>1, <2>2, <1>s, <1>c DEF SameArguments, Known
<1>4. ASSUME NEW x \in Calls, SecondSegment(x)
      PROVE  SuccessShown'
  <2>1. Known(x) /\ KeyOf[calls[x].op] \in Keys /\ calls[x].phase # "idle"
    BY <1>4, SecondSegmentEffect, Constants DEF Sound, ArgumentsKnown, Known
  <2>2. /\ \A y \in Calls : SameArguments(y)
        /\ \A y \in Calls : y # x => calls'[y] = calls[y]
    BY <1>4, <1>t, SecondSegmentEffect, ReturnEffect
  <2>3. ASSUME NEW s, NEW c, Record(calls[x].op, c, calls[x].payload, s)
        PROVE  /\ \A k \in Keys : k # KeyOf[calls[x].op] => store'[k] = store[k]
               /\ store'[KeyOf[calls[x].op]].state = s
               /\ store'[KeyOf[calls[x].op]].payload = calls[x].payload
    BY <2>1, <2>3 DEF Record, Sound, TypeOK, StoreTypeOK
  <2>4. CASE /\ calls[x].reply = "receipt"
             /\ VerifyPostcondition(calls[x].op, calls[x].payload, calls[x].receipt)
             /\ \E s, c : Record(calls[x].op, c, calls[x].payload, s)
    <3>1. byIdempotencyKey[KeyOf[calls[x].op]] = calls[x].payload
      BY <2>1, <2>4 DEF ReceiptsHonest, HonestReceipt, VerifyPostcondition
    <3>2. byIdempotencyKey'[KeyOf[calls[x].op]] = calls[x].payload
      BY <2>1, <3>1, EffectStays, IdentityAssumption DEF Known
    <3> QED BY <2>1, <2>2, <2>3, <2>4, <3>2, <1>s, <1>c DEF SameArguments, Known
  <2>5. CASE /\ \/ UNCHANGED store
                \/ \E s, c : s # "succeeded" /\ Record(calls[x].op, c, calls[x].payload, s)
             /\ \E r : r \notin OkResults /\ Return(x, r)
    <3>1. calls'[x].result \notin OkResults
      BY <2>5, <1>t, ReturnEffect
    <3>2. \A k \in Keys : store'[k].state = "succeeded" => store'[k] = store[k]
      BY <2>3, <2>5
    <3> QED BY <2>2, <3>1, <3>2, <1>s, <1>c DEF Known
  <2> QED BY <1>4, <2>4, <2>5, SuccessIsVerified
<1>5. CASE UNCHANGED vars
  BY <1>5, <1>s, <1>c DEF vars, Known
<1> QED BY <1>1, <1>2, <1>3, <1>4, <1>5, StepKinds

(* Over a tool that remembers its keys, and for the action types whose
   postcondition compares content, a success on record or in an answer is
   about an effect that happened, with that payload. *)
THEOREM SuccessIsReal ==
  ASSUME ToolIsIdempotent, ContentVerified
  PROVE  Spec => []SuccessReflectsEffect
<1> DEFINE IInv == Sound /\ ReceiptsHonest /\ SuccessShown
<1>1. Init => IInv
  BY SoundInvariant
     DEF Init, NotCalled, StoreInit, NoRecord, ToolInit, OkResults,
         ReceiptsHonest, SuccessShown, SuccessReflectsEffect
<1>2. IInv /\ [Next]_vars => IInv'
  BY SoundInvariant, ReceiptsHonestStep, SuccessShownStep
<1>3. IInv => SuccessReflectsEffect
  BY DEF SuccessShown
<1> QED BY <1>1, <1>2, <1>3, PTL DEF Spec

-----------------------------------------------------------------------------
(* What follows when callers do not overlap executions of a key.            *)

(* With callers that serialize, a started key is executing or on record. *)
StartedIsVisible ==
  /\ \A x \in Calls : calls[x].phase = "reconciling" => ~ calls[x].fresh
  /\ \A x \in Calls : calls[x].fresh =>
       \/ calls[x].phase = "executing"
       \/ store[KeyOf[calls[x].op]].state # "none"

(* The second segment of an execution always leaves a record. *)
LEMMA ExecutionIsRecorded ==
  ASSUME NEW x, SecondSegment(x), calls[x].phase = "executing"
  PROVE  \E s \in OutcomeStates \ {"none"} : \E c :
           Record(calls[x].op, c, calls[x].payload, s)
<1>s. {"unknown_outcome", "failed", "succeeded"} \subseteq OutcomeStates \ {"none"}
  BY DEF OutcomeStates
<1>1. CASE TimeOut(x)
  BY <1>1, <1>s DEF TimeOut
<1>2. CASE FinishThrew(x)
  BY <1>2, <1>s DEF FinishThrew
<1>3. CASE FinishGatewayRejected(x)
  BY <1>3, <1>s DEF FinishGatewayRejected
<1>4. CASE FinishExecution(x)
  BY <1>4, <1>s DEF FinishExecution, Finalize
<1> QED BY <1>1, <1>2, <1>3, <1>4 DEF SecondSegment, FinishInconclusive, FinishLookupThrew,
        FinishReconciled

LEMMA StartedIsVisibleStep ==
  ASSUME Sound, StartedIsVisible, [Next]_vars
  PROVE  StartedIsVisible'
<1>t. calls \in [Calls -> CallRecord]
  BY DEF Sound, TypeOK
<1>k. \A y \in Calls : calls[y].fresh => KeyOf[calls[y].op] \in Keys
  BY Constants DEF Sound, ArgumentsKnown, Known
<1> USE DEF StartedIsVisible
<1>1. CASE EnvironmentStep
  BY <1>1 DEF EnvironmentStep
<1>2. ASSUME NEW x \in Calls, NEW o \in Operations, NEW c \in Capabilities,
             NEW p \in Payloads, FirstSegment(x, o, c, p)
      PROVE  StartedIsVisible'
  <2>1. /\ store' = store
        /\ \A y \in Calls : y # x => calls'[y] = calls[y]
        /\ calls'[x].phase = "reconciling" => ~ calls'[x].fresh
        /\ calls'[x].fresh => calls'[x].phase = "executing"
    BY <1>2, <1>t, FirstSegmentEffect
  <2> QED BY <2>1
<1>3. ASSUME NEW x \in Calls, ToolStep(x)
      PROVE  StartedIsVisible'
  <2>1. store' = store
    BY <1>3, ToolStepEffect
  <2>2. \A y \in Calls : SameArguments(y) /\ calls'[y].phase = calls[y].phase
    BY <1>3, <1>t, ToolStepEffect, SettlesEffect
  <2> QED BY <2>1, <2>2 DEF SameArguments
<1>4. ASSUME NEW x \in Calls, SecondSegment(x)
      PROVE  StartedIsVisible'
  <2>1. /\ \A y \in Calls : SameArguments(y)
        /\ \A y \in Calls : y # x => calls'[y] = calls[y]
        /\ calls'[x].phase = "returned"
    BY <1>4, <1>t, SecondSegmentEffect, ReturnEffect
  <2>2. ASSUME calls[x].fresh
        PROVE  store'[KeyOf[calls[x].op]].state # "none"
    <3>1. calls[x].phase = "executing"
      BY <1>4, <2>2, SecondSegmentEffect
    <3>2. PICK s \in OutcomeStates \ {"none"} :
            \E c : Record(calls[x].op, c, calls[x].payload, s)
      BY <1>4, <3>1, ExecutionIsRecorded
    <3>3. PICK c : Record(calls[x].op, c, calls[x].payload, s)
      BY <3>2
    <3> QED BY <2>2, <3>3, <1>k DEF Record, Sound, TypeOK, StoreTypeOK
  <2>3. \A k \in Keys : store[k].state # "none" => store'[k].state # "none"
    <3>1. CASE UNCHANGED store
      BY <3>1
    <3>2. ASSUME NEW s \in OutcomeStates \ {"none"},
                 Record(calls[x].op, RecordedCap(x), calls[x].payload, s)
          PROVE  \A k \in Keys : store[k].state # "none" => store'[k].state # "none"
      BY <3>2 DEF Record, Sound, TypeOK, StoreTypeOK
    <3> QED BY <1>4, <3>1, <3>2, SecondSegmentEffect
  <2> QED BY <2>1, <2>2, <2>3, <1>k DEF SameArguments
<1>5. CASE UNCHANGED vars
  BY <1>5 DEF vars
<1> QED BY <1>1, <1>2, <1>3, <1>4, <1>5, StepKinds

LEMMA OneExecutionStep ==
  ASSUME Sound, CallersSerialize, StartedIsVisible, AtMostOneExecution, [Next]_vars
  PROVE  AtMostOneExecution'
<1> USE DEF AtMostOneExecution
<1>1. ASSUME NEW x \in Calls, NEW o \in Operations, NEW c \in Capabilities,
             NEW p \in Payloads, StartExecution(x, o, c, p),
             calls'[x].op = o,
             \A y \in Calls : y # x => calls'[y] = calls[y]
      PROVE  AtMostOneExecution'
  <2>1. /\ store[KeyOf[o]].state = "none"
        /\ ~ \E y \in Calls : calls[y].phase = "executing"
                              /\ KeyOf[calls[y].op] = KeyOf[o]
    BY <1>1 DEF StartExecution, Admitted, Presents, Check
  <2>2. \A y \in Calls : calls[y].fresh => KeyOf[calls[y].op] # KeyOf[o]
    BY <2>1 DEF StartedIsVisible
  <2> QED BY <1>1, <2>2
<1>2. CASE \A y \in Calls : /\ calls'[y].fresh <=> calls[y].fresh
                            /\ calls[y].phase # "idle" => SameArguments(y)
  <2>1. \A y \in Calls : calls'[y].fresh => calls[y].fresh /\ calls'[y].op = calls[y].op
    BY <1>2 DEF SameArguments, Sound, ArgumentsKnown
  <2> QED BY <2>1
<1> QED BY <1>1, <1>2, FreshStep

(* If no caller starts a key while another executes it, adapter.execute is
   called at most once per key: a tool without memory is safe as well. *)
THEOREM SerializedKeysExecuteOnce ==
  ASSUME CallersSerialize
  PROVE  Spec => []AtMostOneExecution
<1> DEFINE IInv == Sound /\ StartedIsVisible /\ AtMostOneExecution
<1>1. Init => IInv
  BY SoundInvariant DEF Init, NotCalled, StartedIsVisible, AtMostOneExecution
<1>2. IInv /\ [Next]_vars => IInv'
  BY SoundInvariant, StartedIsVisibleStep, OneExecutionStep
<1> QED BY <1>1, <1>2, PTL DEF Spec

=============================================================================
