------------------------- MODULE GatewayOutcomeProofs -------------------------
(***************************************************************************)
(* What executeAction leaves on record: that every success and every       *)
(* unknown outcome is found in the ledger, and that a key which was        *)
(* executed once keeps the outcome it was given, whatever replays and      *)
(* reconciliations follow.  The second is also why the gateway keeps the   *)
(* promise of OperationOutcome to callers that do not overlap.             *)
(***************************************************************************)
EXTENDS ExecutionGatewayProofs, LedgerProjectionProofs

(* The ledger of one operation only grows, by at most an event per step. *)
LEMMA LedgerStep ==
  ASSUME Sound, [Next]_vars
  PROVE  \/ UNCHANGED ledger
         \/ \E o \in Operations, e \in EventTypes : Audit(o, e)
<1>e. {"PRECONDITION_FAILED", "DUPLICATE_REPLAY_DETECTED", "EXECUTION_STARTED"}
        \subseteq EventTypes
  BY DEF EventTypes
<1>1. ASSUME NEW x \in Calls, NEW o \in Operations, NEW c \in Capabilities,
             NEW p \in Payloads, FirstSegment(x, o, c, p)
      PROVE  UNCHANGED ledger \/ \E e \in EventTypes : Audit(o, e)
  BY <1>1, <1>e
     DEF FirstSegment, RejectCapability, FailPrecondition, RejectConflict,
         ReplaySucceeded, ReplayFailed, BeginReconcile, RejectConsumed, StartExecution
<1>2. ASSUME NEW x \in Calls, SecondSegment(x)
      PROVE  UNCHANGED ledger \/ \E o \in Operations, e \in EventTypes : Audit(o, e)
  <2>1. calls[x].op \in Operations
    BY <1>2, SecondSegmentEffect DEF Sound, ArgumentsKnown, Known
  <2> QED BY <1>2, <2>1, SecondSegmentEffect
<1> QED BY <1>1, <1>2, StepKinds, ToolStepEffect DEF EnvironmentStep, vars

(* Recorded of the next state, about an operation id of this one. *)
StillRecorded(o, event) == \E i \in DOMAIN ledger'[o] : ledger'[o][i] = event

LEMMA AuditAppends ==
  ASSUME ledger \in [Operations -> Seq(EventTypes)],
         NEW o \in Operations, NEW e \in EventTypes, Audit(o, e)
  PROVE  /\ StillRecorded(o, e)
         /\ \A q \in Operations : \A f : Recorded(q, f) => StillRecorded(q, f)
         /\ \A q \in Operations : \A f : f # e /\ StillRecorded(q, f) => Recorded(q, f)
<1>1. /\ ledger'[o] = Append(ledger[o], e)
      /\ \A q \in Operations : q # o => ledger'[q] = ledger[q]
  BY DEF Audit
<1>2. /\ DOMAIN ledger'[o] = 1..(Len(ledger[o]) + 1)
      /\ \A i \in DOMAIN ledger[o] : ledger'[o][i] = ledger[o][i]
      /\ ledger'[o][Len(ledger[o]) + 1] = e
      /\ DOMAIN ledger[o] = 1..Len(ledger[o])
      /\ Len(ledger[o]) \in Nat
  <2>1. ledger[o] \in Seq(EventTypes)
    OBVIOUS
  <2> QED BY <1>1, <2>1
<1>3. StillRecorded(o, e)
  <2>1. Len(ledger[o]) + 1 \in DOMAIN ledger'[o]
    BY <1>2
  <2> QED BY <1>2, <2>1 DEF StillRecorded
<1>4. \A f : Recorded(o, f) => StillRecorded(o, f)
  BY <1>2 DEF Recorded, StillRecorded
<1>5. \A f : f # e /\ StillRecorded(o, f) => Recorded(o, f)
  BY <1>2 DEF Recorded, StillRecorded
<1>6. \A q \in Operations : \A f : q # o => (Recorded(q, f) <=> StillRecorded(q, f))
  BY <1>1 DEF Recorded, StillRecorded
<1> QED BY <1>3, <1>4, <1>5, <1>6

LEMMA RecordedStays ==
  ASSUME Sound, [Next]_vars
  PROVE  \A o \in Operations : \A e : Recorded(o, e) => StillRecorded(o, e)
<1>t. ledger \in [Operations -> Seq(EventTypes)]
  BY DEF Sound, TypeOK
<1>1. CASE UNCHANGED ledger
  BY <1>1 DEF Recorded, StillRecorded
<1>2. ASSUME NEW q \in Operations, NEW f \in EventTypes, Audit(q, f)
      PROVE  \A o \in Operations : \A e : Recorded(o, e) => StillRecorded(o, e)
  BY <1>2, <1>t, AuditAppends
<1> QED BY <1>1, <1>2, LedgerStep

(* How the second segment records and audits in one and the same turn. *)
LEMMA RecordsAudited ==
  ASSUME NEW x, SecondSegment(x)
  PROVE  \/ UNCHANGED store
         \/ Record(calls[x].op, RecordedCap(x), calls[x].payload, "failed")
         \/ /\ Record(calls[x].op, RecordedCap(x), calls[x].payload, "succeeded")
            /\ Audit(calls[x].op, "POSTCONDITION_VERIFIED")
         \/ /\ Record(calls[x].op, RecordedCap(x), calls[x].payload, "unknown_outcome")
            /\ Audit(calls[x].op, "EXECUTION_UNKNOWN")
<1> USE DEF RecordedCap
<1>1. CASE TimeOut(x)
  BY <1>1 DEF TimeOut
<1>2. CASE FinishThrew(x)
  BY <1>2 DEF FinishThrew
<1>3. CASE FinishGatewayRejected(x)
  BY <1>3 DEF FinishGatewayRejected
<1>4. CASE FinishExecution(x)
  BY <1>4 DEF FinishExecution, Finalize
<1>5. CASE FinishInconclusive(x) \/ FinishLookupThrew(x)
  BY <1>5 DEF FinishInconclusive, FinishLookupThrew
<1>6. CASE FinishReconciled(x)
  BY <1>6 DEF FinishReconciled, Finalize
<1> QED BY <1>1, <1>2, <1>3, <1>4, <1>5, <1>6 DEF SecondSegment

(* The store changes in a second segment only, under the key of its call. *)
LEMMA StoreStep ==
  ASSUME Sound, [Next]_vars
  PROVE  \/ UNCHANGED store
         \/ \E x \in Calls : SecondSegment(x) /\ Known(x)
<1>1. ASSUME NEW x \in Calls, SecondSegment(x) PROVE Known(x)
  BY <1>1, SecondSegmentEffect DEF Sound, ArgumentsKnown
<1> QED BY <1>1, StepKinds, FirstSegmentEffect, ToolStepEffect
        DEF EnvironmentStep, vars, Sound, TypeOK

LEMMA RecordEffect ==
  ASSUME StoreTypeOK, NEW o \in Operations, NEW c, NEW p, NEW s, Record(o, c, p, s)
  PROVE  /\ store'[KeyOf[o]] = [state |-> s, op |-> o, cap |-> c, payload |-> p]
         /\ \A k \in Keys : k # KeyOf[o] => store'[k] = store[k]
BY Constants DEF StoreTypeOK, Record

(* OutcomeIsAudited, one key of the next state at a time. *)
StillAudited(k) ==
  /\ store'[k].state = "succeeded" =>
       StillRecorded(store'[k].op, "POSTCONDITION_VERIFIED")
  /\ store'[k].state = "unknown_outcome" =>
       StillRecorded(store'[k].op, "EXECUTION_UNKNOWN")

LEMMA AuditedStep ==
  ASSUME Sound, OutcomeIsAudited, [Next]_vars
  PROVE  \A k \in Keys : StillAudited(k)
<1>t. StoreTypeOK /\ ledger \in [Operations -> Seq(EventTypes)]
  BY DEF Sound, TypeOK
<1>s. \A k \in Keys : store'[k] = store[k] => StillAudited(k)
  <2>1. \A k \in Keys : store[k].state # "none" => store[k].op \in Operations
    BY DEF Sound, ArgumentsKnown
  <2> QED BY <2>1, RecordedStays DEF OutcomeIsAudited, StillAudited
<1>1. CASE UNCHANGED store
  BY <1>1, <1>s
<1>r. ASSUME NEW o \in Operations, NEW c, NEW p, NEW s, Record(o, c, p, s),
             s = "succeeded" => StillRecorded(o, "POSTCONDITION_VERIFIED"),
             s = "unknown_outcome" => StillRecorded(o, "EXECUTION_UNKNOWN")
      PROVE  \A k \in Keys : StillAudited(k)
  <2>0. /\ store'[KeyOf[o]] = [state |-> s, op |-> o, cap |-> c, payload |-> p]
        /\ \A k \in Keys : k # KeyOf[o] => store'[k] = store[k]
    <3>1. Record(o, c, p, s)
      BY <1>r
    <3> QED BY <1>t, <3>1, RecordEffect
  <2>1. /\ store'[KeyOf[o]].state = s /\ store'[KeyOf[o]].op = o
        /\ \A k \in Keys : k # KeyOf[o] => store'[k] = store[k]
    BY <2>0
  <2>2. StillAudited(KeyOf[o])
    BY <1>r, <2>1 DEF StillAudited
  <2> QED BY <1>s, <2>1, <2>2
<1>e. "POSTCONDITION_VERIFIED" \in EventTypes /\ "EXECUTION_UNKNOWN" \in EventTypes
  BY DEF EventTypes
<1>2. ASSUME NEW x \in Calls, SecondSegment(x), Known(x)
      PROVE  \A k \in Keys : StillAudited(k)
  <2>0. calls[x].op \in Operations
    BY <1>2 DEF Known
  <2>1. CASE Record(calls[x].op, RecordedCap(x), calls[x].payload, "failed")
    BY <1>r, <2>0, <2>1
  <2>2. CASE /\ Record(calls[x].op, RecordedCap(x), calls[x].payload, "succeeded")
             /\ Audit(calls[x].op, "POSTCONDITION_VERIFIED")
    <3>1. StillRecorded(calls[x].op, "POSTCONDITION_VERIFIED")
      BY <1>t, <1>e, <2>0, <2>2, AuditAppends
    <3> QED BY <1>r, <2>0, <2>2, <3>1
  <2>3. CASE /\ Record(calls[x].op, RecordedCap(x), calls[x].payload, "unknown_outcome")
             /\ Audit(calls[x].op, "EXECUTION_UNKNOWN")
    <3>1. StillRecorded(calls[x].op, "EXECUTION_UNKNOWN")
      BY <1>t, <1>e, <2>0, <2>3, AuditAppends
    <3> QED BY <1>r, <2>0, <2>3, <3>1
  <2> QED BY <1>1, <1>2, <2>1, <2>2, <2>3, RecordsAudited
<1> QED BY <1>1, <1>2, StoreStep

(* Whatever call recorded it and however calls on the key interleave, a
   success or an unknown outcome on record is in the ledger under the very
   operation id the record names: record and audit are one turn of the loop,
   and the ledger is append-only. *)
THEOREM OutcomesAreAudited == Spec => []OutcomeIsAudited
<1> DEFINE IInv == Sound /\ OutcomeIsAudited
<1>1. Init => IInv
  BY SoundInvariant DEF Init, StoreInit, NoRecord, OutcomeIsAudited
<1>2. IInv /\ [Next]_vars => IInv'
  BY SoundInvariant, AuditedStep
     DEF OutcomeIsAudited, Recorded, StillAudited, StillRecorded
<1> QED BY <1>1, <1>2, PTL DEF Spec

-----------------------------------------------------------------------------
(* A key that was executed once.  Everything below is said of a single key,  *)
(* and rests on no assumption about the tool: with one execution, the tool's *)
(* two maps, the receipts on their way and the store cannot disagree.        *)

StartedOn(x, k) == calls[x].fresh /\ KeyOf[calls[x].op] = k

ReconcilesOn(x, k) == calls[x].phase = "reconciling" /\ KeyOf[calls[x].op] = k

ExecutedOnce(k) ==
  \A x, y \in Calls : StartedOn(x, k) /\ StartedOn(y, k) => x = y

(* The call holds a receipt of the very effect it asked for. *)
Performed(x) ==
  /\ calls[x].reply = "receipt"
  /\ calls[x].receipt = ReceiptFor(calls[x].op, calls[x].payload)

(* What the tool did, and remembers. *)
EffectStory(k) ==
  /\ created[k] = 0 <=> byIdempotencyKey[k] = None
  /\ created[k] # 0 =>
       created[k] = 1 /\ \E x \in Calls : StartedOn(x, k) /\ Performed(x)
  /\ \A o \in Operations : KeyOf[o] = k /\ byOperationId[o] # None =>
       \E x \in Calls : /\ StartedOn(x, k)
                        /\ Performed(x)
                        /\ calls[x].payload = byOperationId[o]

(* What the call that executes the key still holds. *)
ExecutionStory(k) ==
  \A x \in Calls : StartedOn(x, k) =>
    /\ Performed(x) => created[k] = 1
    /\ calls[x].reply = "receipt" /\ ~ Performed(x) => calls[x].receipt.key # k
    /\ calls[x].phase = "executing" => store[k].state = "none"
    /\ store[k].state = "failed" => calls[x].reply # "pending"

(* What a call that reconciles the key will be told. *)
ReconcileStory(k) ==
  \A x \in Calls : ReconcilesOn(x, k) =>
    /\ store[k].state \in {"unknown_outcome", "succeeded"}
    /\ calls[x].reply = "receipt" => Performed(x) /\ created[k] = 1

(* What is on record. *)
OutcomeStory(k) ==
  /\ store[k].state = "succeeded" => created[k] = 1
  /\ store[k].state = "failed" => created[k] = 0

OnceStory(k) ==
  EffectStory(k) /\ ExecutionStory(k) /\ ReconcileStory(k) /\ OutcomeStory(k)

(* All a step may do to the effect and the recorded outcome of such a key. *)
OnceMove(k) ==
  \/ created'[k] = created[k] /\ store'[k].state = store[k].state
  \/ /\ created[k] = 0 /\ created'[k] = 1
     /\ store[k].state \in {"none", "unknown_outcome"}
     /\ store'[k].state = store[k].state
  \/ /\ created'[k] = created[k]
     /\ store[k].state = "none" /\ store'[k].state = "unknown_outcome"
  \/ /\ created'[k] = created[k] /\ created[k] = 1
     /\ store[k].state \in {"none", "unknown_outcome"}
     /\ store'[k].state = "succeeded"
  \/ /\ created'[k] = created[k] /\ created[k] = 0
     /\ store[k].state = "none" /\ store'[k].state = "failed"

(* A step that leaves a key's calls, effect and outcome alone leaves its
   story alone; calls that are past asking about it do not count. *)
LEMMA Untouched ==
  ASSUME NEW k \in Keys, OnceStory(k),
         \A y \in Calls : StartedOn(y, k) => calls'[y] = calls[y],
         \A y \in Calls : StartedOn(y, k)' \/ ReconcilesOn(y, k)' => calls'[y] = calls[y],
         created'[k] = created[k],
         byIdempotencyKey'[k] = byIdempotencyKey[k],
         \A o \in Operations : KeyOf[o] = k => byOperationId'[o] = byOperationId[o],
         store'[k].state = store[k].state
  PROVE  OnceStory(k)' /\ OnceMove(k)
<1> USE DEF OnceStory, StartedOn, ReconcilesOn, Performed
<1>1. EffectStory(k)'
  BY DEF EffectStory
<1>2. ExecutionStory(k)'
  BY DEF ExecutionStory
<1>3. ReconcileStory(k)'
  BY DEF ReconcileStory
<1>4. OutcomeStory(k)' /\ OnceMove(k)
  BY DEF OutcomeStory, OnceMove
<1> QED BY <1>1, <1>2, <1>3, <1>4

(* execute() performs the effect of the key's one execution: the first. *)
LEMMA OnlyEffect ==
  ASSUME Sound, NEW k \in Keys, ExecutedOnce(k), OnceStory(k),
         NEW x \in Calls, ToolPerforms(x), Known(x), KeyOf[calls[x].op] = k
  PROVE  OnceStory(k)' /\ OnceMove(k)
<1> DEFINE o == calls[x].op
           p == calls[x].payload
<1>t. /\ calls \in [Calls -> CallRecord]
      /\ byIdempotencyKey \in [Keys -> Payloads \cup {None}]
      /\ byOperationId \in [Operations -> Payloads \cup {None}]
      /\ created \in [Keys -> Nat]
  BY DEF Sound, TypeOK, ToolTypeOK
<1>1. /\ StartedOn(x, k) /\ calls[x].reply = "pending"
      /\ Perform(o, p) /\ Settles(x, "receipt", ReceiptFor(o, p))
      /\ store' = store
  BY DEF ToolPerforms, Invoked, StartedOn
<1>2. \A y \in Calls : StartedOn(y, k) => y = x
  BY <1>1 DEF ExecutedOnce
<1>3. created[k] = 0 /\ byIdempotencyKey[k] = None
  BY <1>1, <1>2 DEF OnceStory, EffectStory, Performed
<1>4. \A q \in Operations : KeyOf[q] = k => byOperationId[q] = None
  BY <1>1, <1>2 DEF OnceStory, EffectStory, Performed
<1>5. p # None /\ o \in Operations
  BY IdentityAssumption DEF Known
<1>6. /\ created'[k] = 1 /\ byIdempotencyKey'[k] = p
      /\ \A q \in Operations : KeyOf[q] = k /\ byOperationId'[q] # None =>
           byOperationId'[q] = p
  BY <1>1, <1>3, <1>4, <1>t DEF Perform
<1>7. /\ \A y \in Calls : SameArguments(y) /\ calls'[y].phase = calls[y].phase
      /\ \A y \in Calls : y # x => calls'[y] = calls[y]
      /\ calls'[x].reply = "receipt" /\ calls'[x].receipt = ReceiptFor(o, p)
  BY <1>1, <1>t, SettlesEffect
<1>8. StartedOn(x, k)' /\ Performed(x)' /\ calls'[x].payload = p
  BY <1>1, <1>7 DEF StartedOn, Performed, SameArguments
<1>9. \A y \in Calls : StartedOn(y, k)' => y = x
  BY <1>2, <1>7 DEF StartedOn, SameArguments
<1>10. store[k].state \notin {"succeeded", "failed"}
  BY <1>1, <1>3 DEF OnceStory, OutcomeStory, ExecutionStory
<1>11. store[k].state \in {"none", "unknown_outcome"}
  BY <1>10 DEF Sound, TypeOK, StoreTypeOK, OutcomeStates
<1> HIDE DEF o, p
<1>12. EffectStory(k)'
  BY <1>5, <1>6, <1>8 DEF EffectStory
<1>13. ExecutionStory(k)'
  <2>1. calls[x].phase = "executing" => store[k].state = "none"
    BY <1>1 DEF OnceStory, ExecutionStory
  <2> QED BY <2>1, <1>1, <1>6, <1>7, <1>8, <1>9, <1>10 DEF ExecutionStory
<1>14. ReconcileStory(k)'
  <2>1. \A y \in Calls : ReconcilesOn(y, k)' => ReconcilesOn(y, k)
    BY <1>7 DEF ReconcilesOn, SameArguments
  <2>2. \A y \in Calls : ReconcilesOn(y, k) /\ y # x => calls'[y].reply # "receipt"
    BY <1>3, <1>7 DEF OnceStory, ReconcileStory
  <2> QED BY <2>1, <2>2, <1>1, <1>6, <1>8 DEF OnceStory, ReconcileStory
<1> QED BY <1>1, <1>3, <1>6, <1>11, <1>12, <1>13, <1>14, <1>10
        DEF OnceStory, OutcomeStory, OnceMove

(* Any other answer: no effect, so no receipt that proves one, unless it
   answers a lookup about an effect that has happened. *)
LEMMA OtherAnswer ==
  ASSUME Sound, NEW k \in Keys, OnceStory(k),
         NEW x \in Calls, NEW kind, NEW receipt, Settles(x, kind, receipt),
         calls[x].reply = "pending", kind # "pending", UNCHANGED <<store, toolVars>>,
         StartedOn(x, k) => (kind = "receipt" => receipt.key # k),
         ReconcilesOn(x, k) => (kind = "receipt" =>
            /\ created[k] = 1
            /\ receipt = ReceiptFor(calls[x].op, calls[x].payload))
  PROVE  OnceStory(k)' /\ OnceMove(k)
<1>t. calls \in [Calls -> CallRecord]
  BY DEF Sound, TypeOK
<1>1. /\ \A y \in Calls : SameArguments(y) /\ calls'[y].phase = calls[y].phase
      /\ \A y \in Calls : y # x => calls'[y] = calls[y]
      /\ calls'[x].reply = kind /\ calls'[x].receipt = receipt
  BY <1>t, SettlesEffect
<1>2. UNCHANGED <<byIdempotencyKey, byOperationId, created, store>>
  BY DEF toolVars
<1>3. \A y \in Calls : /\ StartedOn(y, k)' <=> StartedOn(y, k)
                       /\ ReconcilesOn(y, k)' <=> ReconcilesOn(y, k)
  BY <1>1 DEF StartedOn, ReconcilesOn, SameArguments
<1>4. \A y \in Calls : y # x => (Performed(y)' <=> Performed(y))
  BY <1>1 DEF Performed
<1>5. ~ Performed(x)
  BY DEF Performed
<1>6. StartedOn(x, k) => ~ Performed(x)'
  BY <1>1 DEF Performed, ReceiptFor, StartedOn, SameArguments
<1>7. EffectStory(k)'
  BY <1>1, <1>2, <1>3, <1>4, <1>5 DEF OnceStory, EffectStory, SameArguments
<1>8. ExecutionStory(k)'
  BY <1>1, <1>2, <1>3, <1>4, <1>6 DEF OnceStory, ExecutionStory
<1>9. ReconcileStory(k)'
  <2>1. ReconcilesOn(x, k) /\ kind = "receipt" => Performed(x)' /\ created[k] = 1
    BY <1>1 DEF Performed, SameArguments
  <2> QED BY <1>1, <1>2, <1>3, <1>4, <2>1 DEF OnceStory, ReconcileStory
<1> QED BY <1>2, <1>7, <1>8, <1>9 DEF OnceStory, OutcomeStory, OnceMove

(* The records StartExecution and BeginReconcile begin with. *)
LEMMA StartedEffect ==
  ASSUME calls \in [Calls -> CallRecord], NEW x \in Calls, NEW o \in Operations,
         NEW c \in Capabilities, NEW p \in Payloads, StartExecution(x, o, c, p)
  PROVE  /\ calls'[x].fresh /\ calls'[x].phase = "executing"
         /\ calls'[x].reply \in {"pending", "gateway_rejected"}
<1>1. PICK t \in {now, now + 1} :
        calls' = [calls EXCEPT ![x] =
             [NotCalled EXCEPT !.phase = "executing", !.fresh = TRUE,
                               !.op = o, !.cap = c, !.payload = p,
                               !.reply = IF Usable(c, ScopeOf[o], t)
                                           THEN "pending" ELSE "gateway_rejected"]]
  BY DEF StartExecution
<1> QED BY <1>1 DEF NotCalled

LEMMA ReconcilingEffect ==
  ASSUME calls \in [Calls -> CallRecord], NEW x \in Calls, NEW o \in Operations,
         NEW c \in Capabilities, NEW p \in Payloads, BeginReconcile(x, o, c, p)
  PROVE  ~ calls'[x].fresh /\ calls'[x].reply = "pending"
<1>1. calls' = [calls EXCEPT ![x] =
           [NotCalled EXCEPT !.phase = "reconciling", !.reply = "pending",
                             !.op = o, !.cap = c, !.payload = p,
                             !.priorOp = store[KeyOf[o]].op,
                             !.priorCap = store[KeyOf[o]].cap]]
  BY DEF BeginReconcile
<1> QED BY <1>1 DEF NotCalled

(* The record of a key, and the one a call reconciles, belong to that key. *)
RecordsMatchKeys ==
  /\ \A k \in Keys : store[k].state # "none" => KeyOf[store[k].op] = k
  /\ \A x \in Calls : calls[x].phase = "reconciling" =>
       KeyOf[calls[x].priorOp] = KeyOf[calls[x].op]

LEMMA RecordsMatchStep ==
  ASSUME Sound, RecordsMatchKeys, [Next]_vars
  PROVE  RecordsMatchKeys'
<1>t. calls \in [Calls -> CallRecord] /\ StoreTypeOK
  BY DEF Sound, TypeOK
<1>1. \A k \in Keys : store'[k].state # "none" => KeyOf[store'[k].op] = k
  <2>1. CASE UNCHANGED store
    BY <2>1 DEF RecordsMatchKeys
  <2>2. ASSUME NEW x \in Calls, SecondSegment(x), Known(x)
        PROVE  \A k \in Keys : store'[k].state # "none" => KeyOf[store'[k].op] = k
    <3>0. calls[x].op \in Operations
      BY <2>2 DEF Known
    <3>1. ASSUME NEW s, Record(calls[x].op, RecordedCap(x), calls[x].payload, s)
          PROVE  \A k \in Keys : store'[k].state # "none" => KeyOf[store'[k].op] = k
      <4>1. /\ store'[KeyOf[calls[x].op]].op = calls[x].op
            /\ \A k \in Keys : k # KeyOf[calls[x].op] => store'[k] = store[k]
        <5>1. /\ store'[KeyOf[calls[x].op]] =
                   [state |-> s, op |-> calls[x].op, cap |-> RecordedCap(x),
                    payload |-> calls[x].payload]
              /\ \A k \in Keys : k # KeyOf[calls[x].op] => store'[k] = store[k]
          BY <1>t, <3>0, <3>1, RecordEffect
        <5> QED BY <5>1
      <4> QED BY <4>1 DEF RecordsMatchKeys
    <3> QED BY <2>1, <2>2, <3>1, SecondSegmentEffect
  <2> QED BY <2>1, <2>2, StoreStep
<1>2. \A y \in Calls : calls'[y].phase = "reconciling" =>
        KeyOf[calls'[y].priorOp] = KeyOf[calls'[y].op]
  <2>1. CASE UNCHANGED calls
    BY <2>1 DEF RecordsMatchKeys
  <2>2. ASSUME NEW x \in Calls, NEW o \in Operations, NEW c \in Capabilities,
               NEW p \in Payloads, FirstSegment(x, o, c, p)
        PROVE  \A y \in Calls : calls'[y].phase = "reconciling" =>
                 KeyOf[calls'[y].priorOp] = KeyOf[calls'[y].op]
    <3>1. /\ \A y \in Calls : y # x => calls'[y] = calls[y]
          /\ calls'[x].op = o
          /\ calls'[x].phase = "reconciling" =>
               BeginReconcile(x, o, c, p) /\ calls'[x].priorOp = store[KeyOf[o]].op
      BY <1>t, <2>2, FirstSegmentEffect
    <3>2. BeginReconcile(x, o, c, p) => KeyOf[store[KeyOf[o]].op] = KeyOf[o]
      BY Constants DEF BeginReconcile, RecordsMatchKeys
    <3> QED BY <3>1, <3>2 DEF RecordsMatchKeys
  <2>3. ASSUME NEW x \in Calls, ToolStep(x) \/ SecondSegment(x)
        PROVE  \A y \in Calls : /\ SameArguments(y)
                                /\ calls'[y].phase \in {calls[y].phase, "returned"}
    <3>1. CASE ToolStep(x)
      BY <1>t, <3>1, ToolStepEffect, SettlesEffect
    <3>2. CASE SecondSegment(x)
      BY <1>t, <3>2, SecondSegmentEffect, ReturnEffect
    <3> QED BY <2>3, <3>1, <3>2
  <2> QED BY <2>1, <2>2, <2>3, StepKinds
          DEF RecordsMatchKeys, SameArguments, EnvironmentStep, vars
<1> QED BY <1>1, <1>2 DEF RecordsMatchKeys

(* What the first segment does to a key's story: nothing, unless it starts
   the key's execution or begins to reconcile it. *)
LEMMA FirstSegmentTold ==
  ASSUME Sound, HeldOutcomesStarted, NEW k \in Keys,
         ExecutedOnce(k)', OnceStory(k),
         NEW x \in Calls, NEW o \in Operations, NEW c \in Capabilities,
         NEW p \in Payloads, FirstSegment(x, o, c, p)
  PROVE  OnceStory(k)' /\ OnceMove(k)
<1>t. calls \in [Calls -> CallRecord]
  BY DEF Sound, TypeOK
<1>1. /\ calls[x].phase = "idle"
      /\ UNCHANGED <<store, byIdempotencyKey, byOperationId, created>>
      /\ \A y \in Calls : y # x => calls'[y] = calls[y]
      /\ calls'[x].op = o
  BY <1>t, FirstSegmentEffect DEF toolVars
<1>2. ~ calls[x].fresh
  BY <1>1 DEF Sound, ArgumentsKnown
<1>3. CASE StartExecution(x, o, c, p) /\ KeyOf[o] = k
  <2>1. /\ calls'[x].fresh /\ calls'[x].phase = "executing"
        /\ calls'[x].reply \in {"pending", "gateway_rejected"}
    BY <1>1, <1>3, <1>t, StartedEffect
  <2>2. \A y \in Calls : StartedOn(y, k)' => y = x
    BY <1>1, <1>3, <2>1 DEF ExecutedOnce, StartedOn
  <2>3. \A y \in Calls : ~ StartedOn(y, k)
    BY <1>1, <1>2, <2>2 DEF StartedOn
  <2>4. store[k].state = "none"
    BY <1>3 DEF StartExecution, Check
  <2>5. /\ created[k] = 0 /\ byIdempotencyKey[k] = None
        /\ \A q \in Operations : KeyOf[q] = k => byOperationId[q] = None
    BY <2>3 DEF OnceStory, EffectStory
  <2>6. EffectStory(k)'
    BY <1>1, <2>5 DEF EffectStory
  <2>7. ExecutionStory(k)'
    BY <1>1, <2>1, <2>2, <2>4 DEF ExecutionStory, Performed
  <2>8. ReconcileStory(k)'
    BY <1>1, <2>1, <2>4 DEF OnceStory, ReconcileStory, ReconcilesOn
  <2> QED BY <1>1, <2>4, <2>6, <2>7, <2>8 DEF OnceStory, OutcomeStory, OnceMove
<1>4. CASE BeginReconcile(x, o, c, p) /\ KeyOf[o] = k
  <2>1. ~ calls'[x].fresh /\ calls'[x].reply = "pending"
    BY <1>4, <1>t, ReconcilingEffect
  <2>2. store[k].state = "unknown_outcome"
    BY <1>4 DEF BeginReconcile
  <2>3. \A y \in Calls : StartedOn(y, k) => calls'[y] = calls[y]
    BY <1>1, <1>2 DEF StartedOn
  <2>4. \A y \in Calls : StartedOn(y, k)' => calls'[y] = calls[y]
    BY <1>1, <2>1 DEF StartedOn
  <2> USE DEF StartedOn, ReconcilesOn, Performed
  <2>5. EffectStory(k)'
    BY <1>1, <2>3 DEF OnceStory, EffectStory
  <2>6. ExecutionStory(k)'
    BY <1>1, <2>4 DEF OnceStory, ExecutionStory
  <2>7. ReconcileStory(k)'
    BY <1>1, <2>1, <2>2 DEF OnceStory, ReconcileStory
  <2> QED BY <1>1, <2>5, <2>6, <2>7 DEF OnceStory, OutcomeStory, OnceMove
<1>5. CASE ~ StartedOn(x, k)' /\ ~ ReconcilesOn(x, k)'
  <2>1. \A y \in Calls : StartedOn(y, k) => calls'[y] = calls[y]
    BY <1>1, <1>2 DEF StartedOn
  <2>2. \A y \in Calls : StartedOn(y, k)' \/ ReconcilesOn(y, k)' => calls'[y] = calls[y]
    BY <1>1, <1>5
  <2> QED BY <1>1, <2>1, <2>2, Untouched
<1>6. /\ StartedOn(x, k)' => StartExecution(x, o, c, p) /\ KeyOf[o] = k
      /\ ReconcilesOn(x, k)' => BeginReconcile(x, o, c, p) /\ KeyOf[o] = k
  BY <1>t, FirstSegmentEffect DEF StartedOn, ReconcilesOn
<1> QED BY <1>3, <1>4, <1>5, <1>6

(* A lookup that finds a receipt finds the one of the key's only execution,
   for the very payload the reconciling call presents. *)
LEMMA LookupFindsTheEffect ==
  ASSUME Sound, HeldOutcomesStarted, RecordsMatchKeys, NEW k \in Keys,
         ExecutedOnce(k), OnceStory(k),
         NEW x \in Calls, ReconcilesOn(x, k), byOperationId[calls[x].priorOp] # None
  PROVE  /\ created[k] = 1
         /\ ReceiptFor(calls[x].priorOp, byOperationId[calls[x].priorOp]) =
              ReceiptFor(calls[x].op, calls[x].payload)
<1>1. calls[x].priorOp \in Operations /\ KeyOf[calls[x].priorOp] = k
  BY DEF Sound, ArgumentsKnown, RecordsMatchKeys, ReconcilesOn
<1>2. PICK z \in Calls : /\ StartedOn(z, k) /\ Performed(z)
                        /\ calls[z].payload = byOperationId[calls[x].priorOp]
  BY <1>1 DEF OnceStory, EffectStory
<1>3. PICK w \in Calls : StartedOn(w, k) /\ calls[w].payload = calls[x].payload
  BY DEF HeldOutcomesStarted, StartedFor, ReconcilesOn, StartedOn
<1>4. w = z
  BY <1>2, <1>3 DEF ExecutedOnce
<1>5. created[k] = 1
  BY <1>2 DEF OnceStory, ExecutionStory
<1> QED BY <1>1, <1>2, <1>3, <1>4, <1>5 DEF ReceiptFor, ReconcilesOn

LEMMA ToolStepTold ==
  ASSUME Sound, HeldOutcomesStarted, StartedIsVisible, RecordsMatchKeys,
         NEW k \in Keys, ExecutedOnce(k), OnceStory(k),
         NEW x \in Calls, ToolStep(x)
  PROVE  OnceStory(k)' /\ OnceMove(k)
<1>t. calls \in [Calls -> CallRecord] /\ ToolTypeOK
  BY DEF Sound, TypeOK
<1>p. calls[x].reply = "pending" /\ store' = store
  BY ToolStepEffect
<1>f. ReconcilesOn(x, k) => ~ calls[x].fresh
  BY DEF ReconcilesOn, StartedIsVisible
<1>1. CASE ToolPerforms(x)
  <2>1. Known(x)
    BY <1>1 DEF ToolPerforms, Invoked, Sound, ArgumentsKnown
  <2>2. CASE KeyOf[calls[x].op] = k
    BY <1>1, <2>1, <2>2, OnlyEffect
  <2>3. CASE KeyOf[calls[x].op] # k
    <3>1. /\ created'[k] = created[k]
          /\ byIdempotencyKey'[k] = byIdempotencyKey[k]
          /\ \A o \in Operations : KeyOf[o] = k => byOperationId'[o] = byOperationId[o]
      BY <1>1, <1>t, <2>3 DEF ToolPerforms, Perform, ToolTypeOK
    <3>2. \A y \in Calls : SameArguments(y) /\ (y # x => calls'[y] = calls[y])
      BY <1>t, ToolStepEffect, SettlesEffect
    <3>3. /\ \A y \in Calls : StartedOn(y, k) => calls'[y] = calls[y]
          /\ \A y \in Calls : StartedOn(y, k)' \/ ReconcilesOn(y, k)' =>
               calls'[y] = calls[y]
      BY <2>3, <3>2 DEF StartedOn, ReconcilesOn, SameArguments
    <3> QED BY <1>p, <3>1, <3>3, Untouched
  <2> QED BY <2>2, <2>3
<1>2. CASE ToolThrows(x)
  BY <1>2, <1>p, OtherAnswer DEF ToolThrows
<1>3. CASE ToolMisreports(x)
  <2>1. PICK j \in (Keys \ {KeyOf[calls[x].op]}) \cup {None} :
          Settles(x, "receipt", [key |-> j, payload |-> calls[x].payload])
    BY <1>3 DEF ToolMisreports
  <2>2. ~ ReconcilesOn(x, k)
    BY <1>3, <1>f DEF ToolMisreports, Invoked
  <2>3. StartedOn(x, k) => j # k
    BY IdentityAssumption DEF StartedOn
  <2>4. UNCHANGED <<store, toolVars>>
    BY <1>3 DEF ToolMisreports
  <2>5. [key |-> j, payload |-> calls[x].payload].key = j
    OBVIOUS
  <2> DEFINE receipt == [key |-> j, payload |-> calls[x].payload]
  <2>6. Settles(x, "receipt", receipt) /\ receipt.key = j
    BY <2>1
  <2> HIDE DEF receipt
  <2> QED BY <1>p, <2>2, <2>3, <2>4, <2>6, OtherAnswer
<1>4. CASE ToolAnswersLookup(x)
  <2> DEFINE o == calls[x].priorOp
  <2>1. ~ StartedOn(x, k) /\ UNCHANGED <<store, toolVars>>
    BY <1>4 DEF ToolAnswersLookup, StartedOn, StartedIsVisible
  <2>2. CASE byOperationId[o] = None
    <3>1. Settles(x, "unknown", NoReceipt)
      BY <1>4, <2>2 DEF ToolAnswersLookup
    <3> QED BY <1>p, <2>1, <3>1, OtherAnswer
  <2>3. CASE byOperationId[o] # None
    <3> DEFINE receipt == ReceiptFor(o, byOperationId[o])
    <3>1. Settles(x, "receipt", receipt)
      BY <1>4, <2>3 DEF ToolAnswersLookup
    <3>2. ReconcilesOn(x, k) =>
            created[k] = 1 /\ receipt = ReceiptFor(calls[x].op, calls[x].payload)
      BY <2>3, LookupFindsTheEffect
    <3> HIDE DEF receipt
    <3> QED BY <1>p, <2>1, <3>1, <3>2, OtherAnswer
  <2> QED BY <2>2, <2>3
<1>5. CASE ToolFailsLookup(x)
  BY <1>5, <1>p, OtherAnswer DEF ToolFailsLookup
<1> QED BY <1>1, <1>2, <1>3, <1>4, <1>5 DEF ToolStep

(* What a call concludes when it resumes, and what it relied on for that. *)
Concludes(x, s) == Record(calls[x].op, RecordedCap(x), calls[x].payload, s)

LEMMA Verdict ==
  ASSUME HeldOutcomesStarted, NEW k \in Keys, ExecutedOnce(k), OnceStory(k),
         NEW x \in Calls, SecondSegment(x), KeyOf[calls[x].op] = k
  PROVE  \/ UNCHANGED store /\ calls[x].phase = "reconciling"
         \/ /\ calls[x].phase = "executing"
            /\ \/ Concludes(x, "unknown_outcome")
               \/ created[k] = 0 /\ calls[x].reply # "pending" /\ Concludes(x, "failed")
               \/ created[k] = 1 /\ Concludes(x, "succeeded")
         \/ /\ calls[x].phase = "reconciling"
            /\ created[k] = 1 /\ Concludes(x, "succeeded")
<1> USE DEF Concludes, RecordedCap
<1>e. calls[x].phase = "executing" => StartedOn(x, k)
  BY DEF HeldOutcomesStarted, StartedOn
<1>n. StartedOn(x, k) /\ ~ Performed(x) => created[k] = 0
  BY DEF OnceStory, EffectStory, ExecutedOnce
<1>v. Performed(x) => VerifyPostcondition(calls[x].op, calls[x].payload, calls[x].receipt)
  BY DEF Performed, ReceiptFor, VerifyPostcondition
<1>w. ASSUME StartedOn(x, k), calls[x].reply = "receipt",
             VerifyPostcondition(calls[x].op, calls[x].payload, calls[x].receipt)
      PROVE  created[k] = 1
  BY <1>w DEF OnceStory, ExecutionStory, VerifyPostcondition
<1>1. CASE TimeOut(x)
  BY <1>1 DEF TimeOut
<1>2. CASE FinishThrew(x)
  BY <1>2, <1>e, <1>n DEF FinishThrew, Performed
<1>3. CASE FinishGatewayRejected(x)
  BY <1>3, <1>e, <1>n DEF FinishGatewayRejected, Performed
<1>4. CASE FinishExecution(x)
  BY <1>4, <1>e, <1>n, <1>v, <1>w DEF FinishExecution, Finalize
<1>5. CASE FinishInconclusive(x) \/ FinishLookupThrew(x)
  BY <1>5 DEF FinishInconclusive, FinishLookupThrew
<1>6. CASE FinishReconciled(x)
  <2>1. Performed(x) /\ created[k] = 1
    BY <1>6 DEF FinishReconciled, ReconcilesOn, OnceStory, ReconcileStory
  <2> QED BY <1>6, <1>v, <2>1 DEF FinishReconciled, Finalize
<1> QED BY <1>1, <1>2, <1>3, <1>4, <1>5, <1>6 DEF SecondSegment

LEMMA Concluded ==
  ASSUME Sound, NEW k \in Keys, OnceStory(k), NEW x \in Calls, SecondSegment(x),
         store'[k].state = "succeeded" => created[k] = 1,
         store'[k].state = "failed" =>
           /\ created[k] = 0
           /\ \A y \in Calls : StartedOn(y, k) => calls[y].reply # "pending",
         \A y \in Calls : y # x /\ ReconcilesOn(y, k) =>
           store'[k].state \in {"unknown_outcome", "succeeded"},
         \A y \in Calls : y # x /\ StartedOn(y, k) /\ calls[y].phase = "executing" =>
           store'[k].state = "none"
  PROVE  OnceStory(k)'
<1>t. calls \in [Calls -> CallRecord]
  BY DEF Sound, TypeOK
<1>1. /\ \A y \in Calls : SameArguments(y)
      /\ \A y \in Calls : calls'[y].reply = calls[y].reply
                          /\ calls'[y].receipt = calls[y].receipt
      /\ \A y \in Calls : y # x => calls'[y] = calls[y]
      /\ calls'[x].phase = "returned"
      /\ UNCHANGED <<byIdempotencyKey, byOperationId, created>>
  BY <1>t, SecondSegmentEffect, ReturnEffect DEF toolVars
<1>2. \A y \in Calls : /\ StartedOn(y, k)' <=> StartedOn(y, k)
                       /\ Performed(y)' <=> Performed(y)
                       /\ calls'[y].payload = calls[y].payload
  BY <1>1 DEF StartedOn, Performed, SameArguments
<1>3. EffectStory(k)'
  BY <1>1, <1>2 DEF OnceStory, EffectStory
<1>4. ExecutionStory(k)'
  BY <1>1, <1>2 DEF OnceStory, ExecutionStory
<1>5. ReconcileStory(k)'
  <2>1. \A y \in Calls : ReconcilesOn(y, k)' => y # x /\ ReconcilesOn(y, k)
    BY <1>1 DEF ReconcilesOn, SameArguments
  <2> QED BY <1>1, <1>2, <2>1 DEF OnceStory, ReconcileStory
<1> QED BY <1>1, <1>3, <1>4, <1>5 DEF OnceStory, OutcomeStory

LEMMA SecondSegmentTold ==
  ASSUME Sound, HeldOutcomesStarted, NEW k \in Keys, ExecutedOnce(k), OnceStory(k),
         NEW x \in Calls, SecondSegment(x)
  PROVE  OnceStory(k)' /\ OnceMove(k)
<1>t. calls \in [Calls -> CallRecord] /\ StoreTypeOK
  BY DEF Sound, TypeOK
<1>k. Known(x) /\ calls[x].op \in Operations
  BY SecondSegmentEffect DEF Sound, ArgumentsKnown, Known
<1>c. created' = created
  BY SecondSegmentEffect DEF toolVars
<1>r. ASSUME NEW s, Record(calls[x].op, RecordedCap(x), calls[x].payload, s)
      PROVE  /\ store'[KeyOf[calls[x].op]].state = s
             /\ \A j \in Keys : j # KeyOf[calls[x].op] => store'[j] = store[j]
  <2>1. /\ store'[KeyOf[calls[x].op]] =
             [state |-> s, op |-> calls[x].op, cap |-> RecordedCap(x),
              payload |-> calls[x].payload]
        /\ \A j \in Keys : j # KeyOf[calls[x].op] => store'[j] = store[j]
    BY <1>t, <1>k, <1>r, RecordEffect
  <2> QED BY <2>1
<1>1. CASE KeyOf[calls[x].op] # k
  <2>1. store'[k] = store[k]
    BY <1>1, <1>r, SecondSegmentEffect
  <2>2. /\ \A y \in Calls : SameArguments(y) /\ (y # x => calls'[y] = calls[y])
        /\ UNCHANGED <<byIdempotencyKey, byOperationId, created>>
    BY <1>t, SecondSegmentEffect, ReturnEffect DEF toolVars
  <2>3. /\ \A y \in Calls : StartedOn(y, k) => calls'[y] = calls[y]
        /\ \A y \in Calls : StartedOn(y, k)' \/ ReconcilesOn(y, k)' =>
             calls'[y] = calls[y]
    BY <1>1, <2>2 DEF StartedOn, ReconcilesOn, SameArguments
  <2> QED BY <2>1, <2>2, <2>3, Untouched
<1>2. CASE KeyOf[calls[x].op] = k /\ calls[x].phase = "executing"
  <2>1. StartedOn(x, k)
    BY <1>2 DEF HeldOutcomesStarted, StartedOn
  <2>2. \A y \in Calls : StartedOn(y, k) => y = x
    BY <2>1 DEF ExecutedOnce
  <2>3. store[k].state = "none"
    BY <1>2, <2>1 DEF OnceStory, ExecutionStory
  <2>4. \A y \in Calls : ~ ReconcilesOn(y, k)
    BY <2>3 DEF OnceStory, ReconcileStory
  <2>5. \/ store'[k].state = "unknown_outcome"
        \/ created[k] = 0 /\ calls[x].reply # "pending" /\ store'[k].state = "failed"
        \/ created[k] = 1 /\ store'[k].state = "succeeded"
    BY <1>2, <1>r, Verdict DEF Concludes
  <2>6. OnceStory(k)'
    BY <2>2, <2>4, <2>5, Concluded
  <2> QED BY <1>c, <2>3, <2>5, <2>6 DEF OnceMove
<1>3. CASE KeyOf[calls[x].op] = k /\ calls[x].phase = "reconciling"
  <2>1. store[k].state \in {"unknown_outcome", "succeeded"}
    BY <1>3 DEF OnceStory, ReconcileStory, ReconcilesOn
  <2>2. \/ store'[k].state = store[k].state
        \/ created[k] = 1 /\ store'[k].state = "succeeded"
    BY <1>3, <1>r, Verdict DEF Concludes
  <2>3. \A y \in Calls : StartedOn(y, k) => calls[y].phase # "executing"
    BY <2>1 DEF OnceStory, ExecutionStory
  <2>4. OnceStory(k)'
    <3>1. store[k].state = "succeeded" => created[k] = 1
      BY DEF OnceStory, OutcomeStory
    <3> QED BY <2>1, <2>2, <2>3, <3>1, Concluded
  <2> QED BY <1>c, <2>1, <2>2, <2>4 DEF OnceMove
<1> QED BY <1>1, <1>2, <1>3, SecondSegmentEffect

(* One step of the system, seen from one key that is executed once. *)
LEMMA StoryStep ==
  ASSUME Sound, HeldOutcomesStarted, StartedIsVisible, RecordsMatchKeys, [Next]_vars,
         NEW k \in Keys, ExecutedOnce(k)', ExecutedOnce(k) => OnceStory(k)
  PROVE  ExecutedOnce(k) /\ OnceStory(k)' /\ OnceMove(k)
<1>1. ExecutedOnce(k)
  <2>1. \A y \in Calls : StartedOn(y, k) => StartedOn(y, k)'
    <3> SUFFICES ASSUME NEW y \in Calls, StartedOn(y, k) PROVE StartedOn(y, k)'
      OBVIOUS
    <3>1. calls[y].fresh /\ calls[y].phase # "idle"
      BY DEF StartedOn, Sound, ArgumentsKnown
    <3>2. SameArguments(y)
      BY <3>1, FreshStep DEF SameArguments
    <3> QED BY <3>2 DEF StartedOn, SameArguments
  <2> QED BY <2>1 DEF ExecutedOnce
<1>2. OnceStory(k)
  BY <1>1
<1>3. ASSUME UNCHANGED <<store, toolVars, calls>>
      PROVE  OnceStory(k)' /\ OnceMove(k)
  BY <1>2, <1>3, Untouched DEF toolVars
<1>4. ASSUME NEW x \in Calls, NEW o \in Operations, NEW c \in Capabilities,
             NEW p \in Payloads, FirstSegment(x, o, c, p)
      PROVE  OnceStory(k)' /\ OnceMove(k)
  BY <1>2, <1>4, FirstSegmentTold
<1>5. ASSUME NEW x \in Calls, ToolStep(x)
      PROVE  OnceStory(k)' /\ OnceMove(k)
  BY <1>1, <1>2, <1>5, ToolStepTold
<1>6. ASSUME NEW x \in Calls, SecondSegment(x)
      PROVE  OnceStory(k)' /\ OnceMove(k)
  BY <1>1, <1>2, <1>6, SecondSegmentTold
<1>7. ASSUME EnvironmentStep \/ UNCHANGED vars
      PROVE  OnceStory(k)' /\ OnceMove(k)
  <2>1. UNCHANGED <<store, toolVars, calls>>
    BY <1>7 DEF EnvironmentStep, vars
  <2> QED BY <1>3, <2>1
<1>8. OnceStory(k)' /\ OnceMove(k)
  BY <1>4, <1>5, <1>6, <1>7, StepKinds
<1> QED BY <1>1, <1>8

(* The inductive invariant: the stories of all keys that one call executed,
   and what ties the records and the calls to their keys. *)
OutcomesInv ==
  /\ Sound /\ HeldOutcomesStarted /\ StartedIsVisible /\ RecordsMatchKeys
  /\ \A k \in Keys : ExecutedOnce(k) => OnceStory(k)

LEMMA OutcomesInvariant ==
  /\ Init => OutcomesInv
  /\ OutcomesInv /\ [Next]_vars => OutcomesInv'
<1>1. Init => OutcomesInv
  <2> SUFFICES ASSUME Init PROVE OutcomesInv
    OBVIOUS
  <2>0. /\ \A x \in Calls : calls[x].fresh = FALSE /\ calls[x].phase = "idle"
        /\ \A k \in Keys : /\ store[k].state = "none" /\ created[k] = 0
                            /\ byIdempotencyKey[k] = None
        /\ \A o \in Operations : byOperationId[o] = None
    BY DEF Init, NotCalled, StoreInit, NoRecord, ToolInit
  <2>1. Sound
    BY SoundInvariant
  <2>2. HeldOutcomesStarted /\ StartedIsVisible /\ RecordsMatchKeys
    BY <2>0 DEF HeldOutcomesStarted, StartedIsVisible, RecordsMatchKeys
  <2>3. \A k \in Keys : OnceStory(k)
    BY <2>0 DEF OnceStory, EffectStory, ExecutionStory, ReconcileStory, OutcomeStory,
               StartedOn, ReconcilesOn
  <2> QED BY <2>1, <2>2, <2>3 DEF OutcomesInv
<1>2. ASSUME OutcomesInv, [Next]_vars PROVE OutcomesInv'
  <2> USE DEF OutcomesInv
  <2>1. Sound'
    BY <1>2, SoundInvariant
  <2>2. HeldOutcomesStarted' /\ StartedIsVisible' /\ RecordsMatchKeys'
    BY <1>2, HeldOutcomesStep, StartedIsVisibleStep, RecordsMatchStep
  <2>3. ASSUME NEW k \in Keys, ExecutedOnce(k)' PROVE OnceStory(k)'
    BY <1>2, <2>3, StoryStep
  <2> QED BY <2>1, <2>2, <2>3
<1> QED BY <1>1, <1>2

(* A key that one call executed keeps the definite outcome it was given:
   every later call replays it or reconciles it to the same verdict, because
   a lookup can only find the receipt of that one execution. *)
THEOREM SingleExecutionsSettle == Spec => SingleExecutionKeepsOutcome
<1> DEFINE A == \A k \in Keys :
       store[k].state \in Definite /\ store'[k].state # store[k].state =>
         \E x, y \in Calls : /\ x # y
                             /\ calls[x].fresh /\ KeyOf[calls[x].op] = k
                             /\ calls[y].fresh /\ KeyOf[calls[y].op] = k
<1>1. OutcomesInv /\ [Next]_vars => A
  <2> SUFFICES ASSUME OutcomesInv, [Next]_vars, NEW k \in Keys, ExecutedOnce(k),
                      store[k].state \in Definite, store'[k].state # store[k].state
               PROVE  FALSE
    BY DEF ExecutedOnce, StartedOn
  <2>1. PICK x \in Calls : SecondSegment(x)
    BY StoreStep DEF OutcomesInv
  <2>2. OnceMove(k)
    BY <2>1, SecondSegmentTold DEF OutcomesInv
  <2> QED BY <2>2 DEF OnceMove, Definite
<1> HIDE DEF A
<1> QED BY <1>1, OutcomesInvariant, PTL DEF Spec, SingleExecutionKeepsOutcome, A

-----------------------------------------------------------------------------
(* What the ledger says of such a key.                                      *)

VerifiedStands(k) ==
  \A o \in Operations : KeyOf[o] = k /\ Recorded(o, "POSTCONDITION_VERIFIED") =>
    store[k].state = "succeeded"

(* The success event is appended in the turn that records the success. *)
LEMMA VerifiedIsRecorded ==
  ASSUME Sound, [Next]_vars
  PROVE  \/ UNCHANGED ledger
         \/ \E o \in Operations, e \in EventTypes :
              e # "POSTCONDITION_VERIFIED" /\ Audit(o, e)
         \/ \E x \in Calls : /\ Known(x)
                             /\ Concludes(x, "succeeded")
                             /\ Audit(calls[x].op, "POSTCONDITION_VERIFIED")
<1>e. {"PRECONDITION_FAILED", "DUPLICATE_REPLAY_DETECTED", "EXECUTION_STARTED",
       "EXECUTION_UNKNOWN", "POSTCONDITION_FAILED", "RECONCILIATION_REQUIRED"}
        \subseteq EventTypes \ {"POSTCONDITION_VERIFIED"}
  BY DEF EventTypes
<1>1. ASSUME NEW x \in Calls, NEW o \in Operations, NEW c \in Capabilities,
             NEW p \in Payloads, FirstSegment(x, o, c, p)
      PROVE  \/ UNCHANGED ledger
             \/ \E e \in EventTypes : e # "POSTCONDITION_VERIFIED" /\ Audit(o, e)
  BY <1>1, <1>e
     DEF FirstSegment, RejectCapability, FailPrecondition, RejectConflict,
         ReplaySucceeded, ReplayFailed, BeginReconcile, RejectConsumed, StartExecution
<1>2. ASSUME NEW x \in Calls, SecondSegment(x)
      PROVE  /\ Known(x) /\ calls[x].op \in Operations
             /\ \/ UNCHANGED ledger
                \/ \E e \in EventTypes :
                     e # "POSTCONDITION_VERIFIED" /\ Audit(calls[x].op, e)
                \/ /\ Concludes(x, "succeeded")
                   /\ Audit(calls[x].op, "POSTCONDITION_VERIFIED")
  <2> USE DEF Concludes, RecordedCap
  <2>0. Known(x) /\ calls[x].op \in Operations
    BY <1>2, SecondSegmentEffect DEF Sound, ArgumentsKnown, Known
  <2>1. CASE TimeOut(x)
    BY <2>0, <2>1, <1>e DEF TimeOut
  <2>2. CASE FinishThrew(x) \/ FinishGatewayRejected(x) \/ FinishLookupThrew(x)
    BY <2>0, <2>2 DEF FinishThrew, FinishGatewayRejected, FinishLookupThrew
  <2>3. CASE FinishExecution(x)
    BY <2>0, <2>3, <1>e DEF FinishExecution, Finalize
  <2>4. CASE FinishInconclusive(x)
    BY <2>0, <2>4, <1>e DEF FinishInconclusive
  <2>5. CASE FinishReconciled(x)
    BY <2>0, <2>5, <1>e DEF FinishReconciled, Finalize
  <2> QED BY <1>2, <2>1, <2>2, <2>3, <2>4, <2>5 DEF SecondSegment
<1>3. EnvironmentStep \/ UNCHANGED vars => UNCHANGED ledger
  BY DEF EnvironmentStep, vars
<1> QED BY <1>1, <1>2, <1>3, StepKinds, ToolStepEffect

LEMMA VerifiedStandsStep ==
  ASSUME OutcomesInv, [Next]_vars, NEW k \in Keys, ExecutedOnce(k)', VerifiedStands(k)
  PROVE  VerifiedStands(k)'
<1>t. StoreTypeOK /\ ledger \in [Operations -> Seq(EventTypes)]
  BY DEF OutcomesInv, Sound, TypeOK
<1>1. store[k].state = "succeeded" => store'[k].state = "succeeded"
  BY StoryStep DEF OutcomesInv, OnceMove
<1>2. SUFFICES ASSUME NEW o \in Operations, KeyOf[o] = k,
                      StillRecorded(o, "POSTCONDITION_VERIFIED")
               PROVE  store'[k].state = "succeeded"
  BY DEF VerifiedStands, Recorded, StillRecorded
<1>3. CASE Recorded(o, "POSTCONDITION_VERIFIED")
  BY <1>1, <1>2, <1>3 DEF VerifiedStands
<1>4. CASE UNCHANGED ledger
  BY <1>2, <1>3, <1>4 DEF Recorded, StillRecorded
<1>5. ASSUME NEW q \in Operations, NEW e \in EventTypes,
             e # "POSTCONDITION_VERIFIED", Audit(q, e)
      PROVE  store'[k].state = "succeeded"
  BY <1>2, <1>3, <1>5, <1>t, AuditAppends
<1>6. ASSUME NEW x \in Calls, Known(x), Concludes(x, "succeeded"),
             Audit(calls[x].op, "POSTCONDITION_VERIFIED")
      PROVE  store'[k].state = "succeeded"
  <2>0. calls[x].op \in Operations
    BY <1>6 DEF Known
  <2>1. CASE o = calls[x].op
    <3>1. store'[KeyOf[o]] = [state |-> "succeeded", op |-> o, cap |-> RecordedCap(x),
                              payload |-> calls[x].payload]
      BY <1>6, <1>t, <2>1, RecordEffect DEF Concludes
    <3> QED BY <1>2, <3>1
  <2>2. CASE o # calls[x].op
    <3>1. ledger'[o] = ledger[o]
      BY <1>6, <1>t, <2>2 DEF Audit
    <3> QED BY <1>2, <1>3, <3>1 DEF Recorded, StillRecorded
  <2> QED BY <2>1, <2>2
<1> QED BY <1>4, <1>5, <1>6, VerifiedIsRecorded DEF OutcomesInv

(* With callers that serialize, every key is one that is executed once. *)
LEMMA SerializedOnce ==
  ASSUME AtMostOneExecution PROVE \A k \in Keys : ExecutedOnce(k)
BY DEF AtMostOneExecution, ExecutedOnce, StartedOn

SerialInv ==
  /\ OutcomesInv /\ AtMostOneExecution
  /\ \A k \in Keys : VerifiedStands(k)

LEMMA SerialInvariant ==
  ASSUME CallersSerialize
  PROVE  /\ Init => SerialInv
         /\ SerialInv /\ [Next]_vars => SerialInv'
<1>1. ASSUME Init PROVE SerialInv
  <2>1. AtMostOneExecution
    BY <1>1 DEF Init, NotCalled, AtMostOneExecution
  <2>2. \A k \in Keys : VerifiedStands(k)
    BY <1>1 DEF Init, VerifiedStands, Recorded
  <2> QED BY <1>1, <2>1, <2>2, OutcomesInvariant DEF SerialInv
<1>2. ASSUME SerialInv, [Next]_vars PROVE SerialInv'
  <2>1. OutcomesInv'
    BY <1>2, OutcomesInvariant DEF SerialInv
  <2>2. AtMostOneExecution'
    BY <1>2, OneExecutionStep DEF SerialInv, OutcomesInv
  <2>3. \A k \in Keys : ExecutedOnce(k)'
    BY <2>2 DEF AtMostOneExecution, ExecutedOnce, StartedOn
  <2>4. \A k \in Keys : VerifiedStands(k)'
    BY <1>2, <2>3, VerifiedStandsStep DEF SerialInv
  <2> QED BY <2>1, <2>2, <2>4 DEF SerialInv
<1> QED BY <1>1, <1>2

(* What the projection of an operation's ledger calls VERIFIED has succeeded,
   and is not taken back: the last deciding event is a verification, which is
   appended only with the success it reports, and successes stay. *)
THEOREM VerifiedProjectionsAreTrue ==
  ASSUME CallersSerialize
  PROVE  Spec => []VerifiedProjectionIsTrue
<1>1. SerialInv => VerifiedProjectionIsTrue
  <2> SUFFICES ASSUME SerialInv, NEW o \in Operations,
                      ProjectOperation(ledger[o]) = "VERIFIED"
               PROVE  store[KeyOf[o]].state = "succeeded"
    BY DEF VerifiedProjectionIsTrue
  <2>1. ledger[o] \in Seq(EventTypes)
    BY DEF SerialInv, OutcomesInv, Sound, TypeOK
  <2>2. PICK i \in Deciding(ledger[o]) : FinalStateOf[ledger[o][i]] = "VERIFIED"
    BY <2>1, ProjectionIsDecided
  <2>3. \A e \in DOMAIN FinalStateOf :
          FinalStateOf[e] = "VERIFIED" => e = "POSTCONDITION_VERIFIED"
    BY DEF FinalStateOf
  <2>4. Recorded(o, "POSTCONDITION_VERIFIED")
    BY <2>2, <2>3 DEF Deciding, Recorded
  <2> QED BY <2>4, Constants DEF SerialInv, VerifiedStands
<1> QED BY <1>1, SerialInvariant, PTL DEF Spec

-----------------------------------------------------------------------------
(* The gateway implements OperationOutcome.                                 *)

(* A step touches the effect and the record of one key at most. *)
LEMMA OneKeyStep ==
  ASSUME Sound, [Next]_vars
  PROVE  \/ UNCHANGED <<created, store>>
         \/ \E j \in Keys : /\ created' = [created EXCEPT ![j] = created'[j]]
                           /\ store' = [store EXCEPT ![j] = store'[j]]
<1>t. created \in [Keys -> Nat] /\ StoreTypeOK
  BY DEF Sound, TypeOK, ToolTypeOK
<1>1. ASSUME NEW x \in Calls, SecondSegment(x)
      PROVE  \/ UNCHANGED <<created, store>>
             \/ \E j \in Keys : /\ created' = [created EXCEPT ![j] = created'[j]]
                               /\ store' = [store EXCEPT ![j] = store'[j]]
  <2> DEFINE j == KeyOf[calls[x].op]
  <2>1. j \in Keys /\ created' = created
    BY <1>1, SecondSegmentEffect, Constants
       DEF Sound, ArgumentsKnown, Known, toolVars
  <2>2. ASSUME NEW s, Record(calls[x].op, RecordedCap(x), calls[x].payload, s)
        PROVE  store' = [store EXCEPT ![j] = store'[j]]
    BY <2>1, <2>2, <1>t DEF Record, StoreTypeOK
  <2>3. created' = [created EXCEPT ![j] = created'[j]]
    BY <2>1, <1>t
  <2> HIDE DEF j
  <2> QED BY <1>1, <2>1, <2>2, <2>3, SecondSegmentEffect
<1>2. ASSUME NEW x \in Calls, ToolPerforms(x), Known(x)
      PROVE  \/ UNCHANGED <<created, store>>
             \/ \E j \in Keys : /\ created' = [created EXCEPT ![j] = created'[j]]
                               /\ store' = [store EXCEPT ![j] = store'[j]]
  <2> DEFINE j == KeyOf[calls[x].op]
  <2>1. j \in Keys /\ store' = store
    BY <1>2, Constants DEF Known, ToolPerforms
  <2>2. created' = [created EXCEPT ![j] = created'[j]]
    BY <1>2, <1>t, <2>1 DEF ToolPerforms, Perform
  <2>3. store' = [store EXCEPT ![j] = store'[j]]
    BY <1>t, <2>1 DEF StoreTypeOK
  <2> HIDE DEF j
  <2> QED BY <2>1, <2>2, <2>3
<1>3. UNCHANGED toolVars => created' = created
  BY DEF toolVars
<1>4. \/ UNCHANGED toolVars /\ UNCHANGED store
      \/ \E x \in Calls : SecondSegment(x)
      \/ \E x \in Calls : ToolPerforms(x) /\ Known(x)
  <2>1. ASSUME NEW x \in Calls, ToolPerforms(x) PROVE UNCHANGED store
    BY <2>1 DEF ToolPerforms
  <2> QED BY <2>1, ToolStateStep, StoreStep
<1> QED BY <1>1, <1>2, <1>3, <1>4

LEMMA InitKeepsThePromise == Init => Promise!OutcomeInit
BY DEF Init, ToolInit, StoreInit, NoRecord, Promise!OutcomeInit

LEMMA StepKeepsThePromise ==
  SerialInv /\ SerialInv' /\ [Next]_vars => [Promise!OutcomeNext]_(Promise!outcomeVars)
<1> DEFINE outcome == [k \in Keys |-> store[k].state]
<1> SUFFICES ASSUME SerialInv, SerialInv', [Next]_vars
             PROVE  Promise!OutcomeNext \/ (created' = created /\ outcome' = outcome)
  BY DEF Promise!outcomeVars
<1>t. created \in [Keys -> Nat] /\ StoreTypeOK
  BY DEF SerialInv, OutcomesInv, Sound, TypeOK, ToolTypeOK
<1>1. CASE UNCHANGED <<created, store>>
  BY <1>1
<1>2. ASSUME NEW j \in Keys, created' = [created EXCEPT ![j] = created'[j]],
             store' = [store EXCEPT ![j] = store'[j]]
      PROVE  Promise!OutcomeNext \/ (created' = created /\ outcome' = outcome)
  <2>1. ExecutedOnce(j)'
    BY DEF SerialInv, AtMostOneExecution, ExecutedOnce, StartedOn
  <2>2. OnceMove(j)
    BY <2>1, StoryStep DEF SerialInv, OutcomesInv
  <2> DEFINE before == store[j].state
             after == store'[j].state
             effect == created'[j]
  <2>3. /\ outcome[j] = before
        /\ outcome' = [outcome EXCEPT ![j] = after]
        /\ after = before => outcome' = outcome
    BY <1>2, <1>t DEF StoreTypeOK
  <2>4. /\ created' = [created EXCEPT ![j] = effect]
        /\ effect = created[j] => created' = created
    BY <1>2, <1>t
  <2>5. \/ effect = created[j] /\ after = before
        \/ /\ created[j] = 0 /\ effect = 1
           /\ before \in {"none", "unknown_outcome"} /\ after = before
        \/ effect = created[j] /\ before = "none" /\ after = "unknown_outcome"
        \/ /\ effect = created[j] /\ created[j] = 1
           /\ before \in {"none", "unknown_outcome"} /\ after = "succeeded"
        \/ /\ effect = created[j] /\ created[j] = 0
           /\ before = "none" /\ after = "failed"
    BY <2>2 DEF OnceMove
  <2> HIDE DEF before, after, effect, outcome
  <2>6. CASE effect = created[j] /\ after = before
    BY <2>3, <2>4, <2>6
  <2>7. CASE /\ created[j] = 0 /\ effect = 1
             /\ before \in {"none", "unknown_outcome"} /\ after = before
    <3>1. Promise!Happen(j)
      BY <2>3, <2>4, <2>7 DEF Promise!Happen, outcome
    <3> QED BY <3>1 DEF Promise!OutcomeNext
  <2>8. CASE effect = created[j] /\ before = "none" /\ after = "unknown_outcome"
    <3>1. Promise!GiveUp(j)
      BY <2>3, <2>4, <2>8 DEF Promise!GiveUp, Promise!Decide, outcome
    <3> QED BY <3>1 DEF Promise!OutcomeNext
  <2>9. CASE /\ effect = created[j] /\ created[j] = 1
             /\ before \in {"none", "unknown_outcome"} /\ after = "succeeded"
    <3>1. Promise!Succeed(j)
      BY <2>3, <2>4, <2>9 DEF Promise!Succeed, Promise!Decide, outcome
    <3> QED BY <3>1 DEF Promise!OutcomeNext
  <2>10. CASE /\ effect = created[j] /\ created[j] = 0
              /\ before = "none" /\ after = "failed"
    <3>1. Promise!Fail(j)
      BY <2>3, <2>4, <2>10 DEF Promise!Fail, Promise!Decide, outcome
    <3> QED BY <3>1 DEF Promise!OutcomeNext
  <2> QED BY <2>5, <2>6, <2>7, <2>8, <2>9, <2>10
<1> QED BY <1>1, <1>2, OneKeyStep DEF SerialInv, OutcomesInv

(* To callers that do not overlap executions of a key the gateway keeps the
   whole promise, whether or not the tool behind it remembers anything: one
   effect, an outcome that is true of it, and no change of a definite one. *)
THEOREM GatewayRefinesThePromise ==
  ASSUME CallersSerialize
  PROVE  Spec => KeepsThePromise
BY InitKeepsThePromise, StepKeepsThePromise, SerialInvariant, PTL
   DEF Spec, KeepsThePromise, Promise!OutcomeSpec

=============================================================================
