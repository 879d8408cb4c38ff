--------------------------- MODULE ExecutionGateway ---------------------------
(***************************************************************************)
(* executeAction, the single path to a side effect, run by any number of   *)
(* concurrent calls over one CapabilityRegistry, one OperationStore, one   *)
(* AdapterPort and one AuditLedger.                                        *)
(*                                                                         *)
(* JavaScript runs a call without interruption from one await to the next, *)
(* so a call is split exactly there: everything up to `await               *)
(* raceWithTimeout(...)` or `await adapter.lookup(...)` is one action, and *)
(* so is everything after it.  Between the two, other calls and the tool   *)
(* run.  The tool is a process of its own: it outlives the timeout (nothing*)
(* cancels it), so its effect may come after the call has returned.        *)
(***************************************************************************)
EXTENDS CapabilityRegistry, OperationStore, ToolAdapter, LedgerProjection

CONSTANTS
  Calls,             \* executeAction invocations
  ScopeOf,           \* the scope (CapabilityRequest) an operation runs under
  ContentVerified,   \* TRUE for messages and refunds, FALSE for tickets
  CallersSerialize   \* TRUE: no call on a key while another one executes it

ASSUME GatewayAssumption ==
  /\ ScopeOf \in [Operations -> Scopes]
  /\ ContentVerified \in BOOLEAN
  /\ CallersSerialize \in BOOLEAN

VARIABLES
  calls,     \* per call: its arguments, where it is, what it awaits
  ledger     \* per operation id: the gateway's audit events, in order

vars == <<registryVars, store, toolVars, calls, ledger>>

Phases == {"idle", "executing", "reconciling", "returned"}

(* The stage of ExecuteActionFailure, or the reason code of a success;
   "thrown" if executeAction's promise is rejected instead. *)
Results == {"none", "capability", "precondition", "idempotency", "adapter",
            "postcondition", "unknown_outcome", "reconciliation_required",
            "success", "IDEMPOTENT_REPLAY", "RECONCILED_SUCCESS", "thrown"}

OkResults == {"success", "IDEMPOTENT_REPLAY", "RECONCILED_SUCCESS"}

(* What the promise the call awaits has been settled with: "pending" until
   then, "none" when there is no such promise. *)
Replies == {"none", "pending", "receipt", "threw", "gateway_rejected", "unknown"}

EventTypes == {"PRECONDITION_FAILED", "DUPLICATE_REPLAY_DETECTED",
               "EXECUTION_STARTED", "EXECUTION_UNKNOWN", "POSTCONDITION_FAILED",
               "POSTCONDITION_VERIFIED", "RECONCILIATION_REQUIRED"}

CallRecord ==
  [phase : Phases, result : Results,
   op : Operations \cup {None}, cap : Capabilities \cup {None},
   payload : Payloads \cup {None},
   fresh : BOOLEAN,                       \* it consumed its capability
   reply : Replies, receipt : Receipts,   \* of adapter.execute or .lookup
   priorOp : Operations \cup {None},      \* the record it reconciles
   priorCap : Capabilities \cup {None}]

NotCalled ==
  [phase |-> "idle", result |-> "none", op |-> None, cap |-> None,
   payload |-> None, fresh |-> FALSE, reply |-> "none", receipt |-> NoReceipt,
   priorOp |-> None, priorCap |-> None]

TypeOK ==
  /\ RegistryTypeOK
  /\ StoreTypeOK
  /\ ToolTypeOK
  /\ calls \in [Calls -> CallRecord]
  /\ ledger \in [Operations -> Seq(EventTypes)]

Init ==
  /\ RegistryInit
  /\ StoreInit
  /\ ToolInit
  /\ calls = [x \in Calls |-> NotCalled]
  /\ ledger = [o \in Operations |-> <<>>]

-----------------------------------------------------------------------------
(* Pieces of the call.                                                      *)

Audit(o, event) == ledger' = [ledger EXCEPT ![o] = Append(@, event)]

(* The caller presents capability c for operation o with payload p. *)
Presents(x, o, c, p) ==
  /\ calls[x].phase = "idle"
  /\ CallersSerialize =>
       ~ \E y \in Calls : /\ calls[y].phase = "executing"
                          /\ KeyOf[calls[y].op] = KeyOf[o]

(* It is past the capability and precondition checks of executeAction. *)
Admitted(x, o, c, p) ==
  /\ Presents(x, o, c, p)
  /\ Usable(c, ScopeOf[o], now)
  /\ Fresh(c)

(* The call returns from its first synchronous segment. *)
ReturnAtOnce(x, o, c, p, result) ==
  calls' = [calls EXCEPT ![x] =
              [NotCalled EXCEPT !.phase = "returned", !.result = result,
                                !.op = o, !.cap = c, !.payload = p]]

(* The call returns after its await. *)
Return(x, result) ==
  calls' = [calls EXCEPT ![x].phase = "returned", ![x].result = result]

\* Mutant: the receipt's own key is not compared.
VerifyContentOnly(o, p, receipt) == receipt.payload = p

(* verifyPostcondition: every action type compares the idempotency key,
   messages and refunds also compare the content. *)
VerifyPostcondition(o, p, receipt) ==
  /\ receipt.key = KeyOf[o]
  /\ ContentVerified => receipt.payload = p

\* Mutant: a reconciled record is attributed to the call that reconciled it.
FinalizeAsCaller(x, c, success) ==
  LET o == calls[x].op  p == calls[x].payload  own == calls[x].cap IN
  \/ /\ VerifyPostcondition(o, p, calls[x].receipt)
     /\ Record(o, own, p, "succeeded")
     /\ Audit(o, "POSTCONDITION_VERIFIED")
     /\ Return(x, success)
  \/ /\ ~ VerifyPostcondition(o, p, calls[x].receipt)
     /\ Record(o, own, p, "failed")
     /\ Audit(o, "POSTCONDITION_FAILED")
     /\ Return(x, "postcondition")

\* Mutant: the success event is appended before the verdict is known.
FinalizeAuditingFirst(x, c, success) ==
  LET o == calls[x].op  p == calls[x].payload
      verified == VerifyPostcondition(o, p, calls[x].receipt) IN
  /\ Audit(o, "POSTCONDITION_VERIFIED")
  /\ Record(o, c, p, IF verified THEN "succeeded" ELSE "failed")
  /\ Return(x, IF verified THEN success ELSE "postcondition")

(* finalizeFromReceipt: verify, record unconditionally, audit, return.  The
   record is written under the CALL's operation id, with the capability the
   caller of finalizeFromReceipt passes; the prior record's payload hash is
   the call's own, or check() would have said "conflict". *)
Finalize(x, c, success) ==
  LET o == calls[x].op  p == calls[x].payload IN
  \/ /\ VerifyPostcondition(o, p, calls[x].receipt)
     /\ Record(o, c, p, "succeeded")
     /\ Audit(o, "POSTCONDITION_VERIFIED")
     /\ Return(x, success)
  \/ /\ ~ VerifyPostcondition(o, p, calls[x].receipt)
     /\ Record(o, c, p, "failed")
     /\ Audit(o, "POSTCONDITION_FAILED")
     /\ Return(x, "postcondition")

-----------------------------------------------------------------------------
(* The first segment of executeAction, one action per way out of it.        *)

RejectCapability(x, o, c, p) ==
  /\ Presents(x, o, c, p)
  /\ ~ Usable(c, ScopeOf[o], now)
  /\ ReturnAtOnce(x, o, c, p, "capability")
  /\ UNCHANGED <<registryVars, store, toolVars, ledger>>

FailPrecondition(x, o, c, p) ==
  /\ Presents(x, o, c, p)
  /\ Usable(c, ScopeOf[o], now)
  /\ ~ Fresh(c)
  /\ Audit(o, "PRECONDITION_FAILED")
  /\ ReturnAtOnce(x, o, c, p, "precondition")
  /\ UNCHANGED <<registryVars, store, toolVars>>

RejectConflict(x, o, c, p) ==
  /\ Admitted(x, o, c, p)
  /\ Check(KeyOf[o], p) = "conflict"
  /\ Audit(o, "DUPLICATE_REPLAY_DETECTED")
  /\ ReturnAtOnce(x, o, c, p, "idempotency")
  /\ UNCHANGED <<registryVars, store, toolVars>>

(* reconcileDuplicate, prior outcome definite: replayed as it is. *)
ReplaySucceeded(x, o, c, p) ==
  /\ Admitted(x, o, c, p)
  /\ Check(KeyOf[o], p) = "duplicate"
  /\ store[KeyOf[o]].state = "succeeded"
  /\ Audit(o, "DUPLICATE_REPLAY_DETECTED")
  /\ ReturnAtOnce(x, o, c, p, "IDEMPOTENT_REPLAY")
  /\ UNCHANGED <<registryVars, store, toolVars>>

ReplayFailed(x, o, c, p) ==
  /\ Admitted(x, o, c, p)
  /\ Check(KeyOf[o], p) = "duplicate"
  /\ store[KeyOf[o]].state = "failed"
  /\ ReturnAtOnce(x, o, c, p, "adapter")
  /\ UNCHANGED <<registryVars, store, toolVars, ledger>>

(* reconcileDuplicate, prior outcome unknown: ask the tool, and await. *)
BeginReconcile(x, o, c, p) ==
  LET prior == store[KeyOf[o]] IN
  /\ Admitted(x, o, c, p)
  /\ Check(KeyOf[o], p) = "duplicate"
  /\ prior.state = "unknown_outcome"
  /\ calls' = [calls EXCEPT ![x] =
                 [NotCalled EXCEPT !.phase = "reconciling", !.reply = "pending",
                                   !.op = o, !.cap = c, !.payload = p,
                                   !.priorOp = prior.op, !.priorCap = prior.cap]]
  /\ UNCHANGED <<registryVars, store, toolVars, ledger>>

(* A new operation, but registry.consume refuses the capability. *)
RejectConsumed(x, o, c, p) ==
  /\ Admitted(x, o, c, p)
  /\ Check(KeyOf[o], p) = "new"
  /\ ~ Consumable(c)
  /\ ReturnAtOnce(x, o, c, p, "capability")
  /\ UNCHANGED <<registryVars, store, toolVars, ledger>>

\* Mutant: invokeAdapter relies on the check executeAction has made.
StartOnFirstReading(x, o, c, p) ==
  /\ Admitted(x, o, c, p)
  /\ Check(KeyOf[o], p) = "new"
  /\ Consume(c)
  /\ Audit(o, "EXECUTION_STARTED")
  /\ \E t \in {now, now + 1} :
       /\ t <= MaxTime
       /\ now' = t
       /\ calls' = [calls EXCEPT ![x] =
            [NotCalled EXCEPT !.phase = "executing", !.fresh = TRUE, !.reply = "pending",
                              !.op = o, !.cap = c, !.payload = p]]
  /\ UNCHANGED <<version, store, toolVars>>

(* A new operation: consume the capability, audit, and call invokeAdapter,
   which reads the clock a second time (t) and checks expiry again before it
   calls adapter.execute. *)
StartExecution(x, o, c, p) ==
  /\ Admitted(x, o, c, p)
  /\ Check(KeyOf[o], p) = "new"
  /\ Consume(c)
  /\ Audit(o, "EXECUTION_STARTED")
  /\ \E t \in {now, now + 1} :
       /\ t <= MaxTime
       /\ now' = t
       /\ calls' = [calls EXCEPT ![x] =
            [NotCalled EXCEPT !.phase = "executing", !.fresh = TRUE,
                              !.op = o, !.cap = c, !.payload = p,
                              !.reply = IF Usable(c, ScopeOf[o], t)
                                          THEN "pending" ELSE "gateway_rejected"]]
  /\ UNCHANGED <<version, store, toolVars>>

-----------------------------------------------------------------------------
(* The tool.  An invocation is open until it replies, whether or not the    *)
(* call is still waiting for it.                                            *)

Invoked(x) == calls[x].fresh /\ calls[x].reply = "pending"

Settles(x, kind, receipt) ==
  calls' = [calls EXCEPT ![x].reply = kind, ![x].receipt = receipt]

\* Mutant: the adapter does not look at the clock again.
PerformsUnlessMismatch(x) ==
  LET o == calls[x].op  p == calls[x].payload IN
  /\ Invoked(x)
  /\ ~ PayloadMismatch(o, p)
  /\ Perform(o, p)
  /\ Settles(x, "receipt", ReceiptFor(o, p))
  /\ UNCHANGED <<registryVars, store, ledger>>

(* execute() runs its body, at any time after it was called: the capability
   is checked against the clock of THAT moment (assertCapabilityActive). *)
ToolPerforms(x) ==
  LET o == calls[x].op  p == calls[x].payload IN
  /\ Invoked(x)
  /\ now < registry[calls[x].cap].expiresAt
  /\ ~ PayloadMismatch(o, p)
  /\ Perform(o, p)
  /\ Settles(x, "receipt", ReceiptFor(o, p))
  /\ UNCHANGED <<registryVars, store, ledger>>

(* execute() throws before any effect: capability expired by now, payload
   mismatch, or a deterministic failure of the tool itself. *)
ToolThrows(x) ==
  /\ Invoked(x)
  /\ Settles(x, "threw", NoReceipt)
  /\ UNCHANGED <<registryVars, store, toolVars, ledger>>

(* A tool that answers without having done anything, with a receipt that
   carries no idempotency key or another operation's. *)
ToolMisreports(x) ==
  /\ Invoked(x)
  /\ \E k \in (Keys \ {KeyOf[calls[x].op]}) \cup {None} :
       Settles(x, "receipt", [key |-> k, payload |-> calls[x].payload])
  /\ UNCHANGED <<registryVars, store, toolVars, ledger>>

(* lookup() is read-only: it answers from byOperationId, under the operation
   id of the record that is being reconciled. *)
ToolAnswersLookup(x) ==
  LET o == calls[x].priorOp IN
  /\ calls[x].phase = "reconciling"
  /\ calls[x].reply = "pending"
  /\ IF byOperationId[o] = None
       THEN Settles(x, "unknown", NoReceipt)
       ELSE Settles(x, "receipt", ReceiptFor(o, byOperationId[o]))
  /\ UNCHANGED <<registryVars, store, toolVars, ledger>>

(* lookup() rejects: the interface does not exclude it. *)
ToolFailsLookup(x) ==
  /\ calls[x].phase = "reconciling"
  /\ calls[x].reply = "pending"
  /\ Settles(x, "threw", NoReceipt)
  /\ UNCHANGED <<registryVars, store, toolVars, ledger>>

-----------------------------------------------------------------------------
(* The second segment: what executeAction does with the race's outcome, and *)
(* reconcileDuplicate with the lookup's.                                    *)

\* Mutant: a timeout is reported as a failure.
TimeOutAsFailure(x) ==
  LET o == calls[x].op IN
  /\ calls[x].phase = "executing"
  /\ calls[x].reply # "gateway_rejected"
  /\ Record(o, calls[x].cap, calls[x].payload, "failed")
  /\ Audit(o, "EXECUTION_UNKNOWN")
  /\ Return(x, "unknown_outcome")
  /\ UNCHANGED <<registryVars, toolVars>>

\* Mutant: this way out does not audit, like the one of a thrown error.
TimeOutUnaudited(x) ==
  LET o == calls[x].op IN
  /\ calls[x].phase = "executing"
  /\ calls[x].reply # "gateway_rejected"
  /\ Record(o, calls[x].cap, calls[x].payload, "unknown_outcome")
  /\ Return(x, "unknown_outcome")
  /\ UNCHANGED <<registryVars, toolVars, ledger>>

\* Mutant: the promise is awaited, the timer only decides how to report it.
TimeOutOnceAnswered(x) ==
  LET o == calls[x].op IN
  /\ calls[x].phase = "executing"
  /\ calls[x].reply \notin {"gateway_rejected", "pending"}
  /\ Record(o, calls[x].cap, calls[x].payload, "unknown_outcome")
  /\ Audit(o, "EXECUTION_UNKNOWN")
  /\ Return(x, "unknown_outcome")
  /\ UNCHANGED <<registryVars, toolVars>>

(* The timer wins the race, for any timeoutMs.  It cannot win against the
   gateway's own rejection, which is settled before any timer can run. *)
TimeOut(x) ==
  LET o == calls[x].op IN
  /\ calls[x].phase = "executing"
  /\ calls[x].reply # "gateway_rejected"
  /\ Record(o, calls[x].cap, calls[x].payload, "unknown_outcome")
  /\ Audit(o, "EXECUTION_UNKNOWN")
  /\ Return(x, "unknown_outcome")
  /\ UNCHANGED <<registryVars, toolVars>>

(* The adapter's promise rejected: recorded, but no audit event. *)
FinishThrew(x) ==
  /\ calls[x].phase = "executing"
  /\ calls[x].reply = "threw"
  /\ Record(calls[x].op, calls[x].cap, calls[x].payload, "failed")
  /\ Return(x, "adapter")
  /\ UNCHANGED <<registryVars, toolVars, ledger>>

(* invokeAdapter's re-check failed: recorded, but no audit event. *)
FinishGatewayRejected(x) ==
  /\ calls[x].phase = "executing"
  /\ calls[x].reply = "gateway_rejected"
  /\ Record(calls[x].op, calls[x].cap, calls[x].payload, "failed")
  /\ Return(x, "capability")
  /\ UNCHANGED <<registryVars, toolVars, ledger>>

FinishExecution(x) ==
  /\ calls[x].phase = "executing"
  /\ calls[x].reply = "receipt"
  /\ Finalize(x, calls[x].cap, "success")
  /\ UNCHANGED <<registryVars, toolVars>>

\* Mutant: a lookup that finds nothing is taken for a failure.
InconclusiveMeansFailed(x) ==
  /\ calls[x].phase = "reconciling"
  /\ calls[x].reply = "unknown"
  /\ Record(calls[x].op, calls[x].priorCap, calls[x].payload, "failed")
  /\ Audit(calls[x].op, "RECONCILIATION_REQUIRED")
  /\ Return(x, "reconciliation_required")
  /\ UNCHANGED <<registryVars, toolVars>>

\* Mutant: a lookup that finds nothing is repeated until it does.
InconclusiveLooksAgain(x) ==
  /\ calls[x].phase = "reconciling"
  /\ calls[x].reply = "unknown"
  /\ calls' = [calls EXCEPT ![x].reply = "pending"]
  /\ UNCHANGED <<registryVars, store, toolVars, ledger>>

FinishInconclusive(x) ==
  /\ calls[x].phase = "reconciling"
  /\ calls[x].reply = "unknown"
  /\ Audit(calls[x].op, "RECONCILIATION_REQUIRED")
  /\ Return(x, "reconciliation_required")
  /\ UNCHANGED <<registryVars, store, toolVars>>

(* Nothing catches the lookup's error: the caller gets it, and neither store
   nor ledger hear of the attempt. *)
FinishLookupThrew(x) ==
  /\ calls[x].phase = "reconciling"
  /\ calls[x].reply = "threw"
  /\ Return(x, "thrown")
  /\ UNCHANGED <<registryVars, store, toolVars, ledger>>

FinishReconciled(x) ==
  /\ calls[x].phase = "reconciling"
  /\ calls[x].reply = "receipt"
  /\ Finalize(x, calls[x].priorCap, "RECONCILED_SUCCESS")
  /\ UNCHANGED <<registryVars, toolVars>>

-----------------------------------------------------------------------------
(* The system.                                                              *)

FirstSegment(x, o, c, p) ==
  \/ RejectCapability(x, o, c, p)
  \/ FailPrecondition(x, o, c, p)
  \/ RejectConflict(x, o, c, p)
  \/ ReplaySucceeded(x, o, c, p)
  \/ ReplayFailed(x, o, c, p)
  \/ BeginReconcile(x, o, c, p)
  \/ RejectConsumed(x, o, c, p)
  \/ StartExecution(x, o, c, p)

SecondSegment(x) ==
  \/ TimeOut(x)
  \/ FinishThrew(x)
  \/ FinishGatewayRejected(x)
  \/ FinishExecution(x)
  \/ FinishInconclusive(x)
  \/ FinishLookupThrew(x)
  \/ FinishReconciled(x)

ToolStep(x) ==
  \/ ToolPerforms(x)
  \/ ToolThrows(x)
  \/ ToolMisreports(x)
  \/ ToolAnswersLookup(x)
  \/ ToolFailsLookup(x)

EnvironmentStep ==
  /\ \/ Tick
     \/ Drift
     \/ \E c \in Capabilities :
          Register(c) \/ \E s \in Scopes, v \in 0..MaxVersion : Mint(c, s, v)
  /\ UNCHANGED <<store, toolVars, calls, ledger>>

Next ==
  \/ EnvironmentStep
  \/ \E x \in Calls :
       \/ \E o \in Operations, c \in Capabilities, p \in Payloads :
            FirstSegment(x, o, c, p)
       \/ ToolStep(x)
       \/ SecondSegment(x)

Spec == Init /\ [][Next]_vars

(* The runtime resumes a call whose promise is settled or whose timer is due.
   Nothing is assumed of the tool: neither execute() nor lookup() need ever
   answer. *)
Fairness == \A x \in Calls : WF_vars(SecondSegment(x))

(* What the repository's own adapters do. *)
LookupsAnswered == \A x \in Calls : WF_vars(ToolAnswersLookup(x) \/ ToolFailsLookup(x))

FairSpec == Spec /\ Fairness

-----------------------------------------------------------------------------
(* Correctness.                                                             *)

(* A capability starts at most one execution, whatever calls present it and
   whatever becomes of the first one (registry.consume before the await). *)
CapabilityStartsOneExecution ==
  \A x, y \in Calls :
    calls[x].fresh /\ calls[y].fresh /\ calls[x].cap = calls[y].cap => x = y

(* The outside world never sees the effect of one idempotency key twice. *)
AtMostOneEffect == \A k \in Keys : created[k] <= 1

(* adapter.execute is called at most once per key, so that not even a tool
   without an idempotency map of its own can repeat the effect. *)
AtMostOneExecution ==
  \A x, y \in Calls :
    calls[x].fresh /\ calls[y].fresh /\ KeyOf[calls[x].op] = KeyOf[calls[y].op]
      => x = y

(* Success, recorded or answered to any caller, replayed and reconciled
   answers included, is about an effect the tool really had, with the very
   payload that was recorded or asked for. *)
SuccessReflectsEffect ==
  /\ \A k \in Keys :
       store[k].state = "succeeded" => byIdempotencyKey[k] = store[k].payload
  /\ \A x \in Calls :
       calls[x].result \in OkResults =>
         byIdempotencyKey[KeyOf[calls[x].op]] = calls[x].payload

(* Whatever outcome is on record under a key, it names the capability of an
   execution that was really started for that key and payload, never the
   unconsumed capability a reconciling caller happened to present. *)
OutcomeNamesItsExecution ==
  \A k \in Keys : store[k].state # "none" =>
    \E x \in Calls : /\ calls[x].fresh
                     /\ KeyOf[calls[x].op] = k
                     /\ calls[x].cap = store[k].cap
                     /\ calls[x].payload = store[k].payload

Recorded(o, event) == \E i \in DOMAIN ledger[o] : ledger[o][i] = event

(* A success or an unknown outcome on record can be found in the ledger under
   the operation id it is recorded for. *)
OutcomeIsAudited ==
  \A k \in Keys :
    /\ store[k].state = "succeeded" =>
         Recorded(store[k].op, "POSTCONDITION_VERIFIED")
    /\ store[k].state = "unknown_outcome" =>
         Recorded(store[k].op, "EXECUTION_UNKNOWN")

(* Once any outcome is on record under a key, an unknown one included, no
   call starts another execution for it: the only way on is the lookup. *)
NoBlindRetry ==
  [][\A x \in Calls :
       calls'[x].fresh /\ ~ calls[x].fresh =>
         store[KeyOf[calls'[x].op]].state = "none"]_vars

(* A key that was executed once keeps its definite outcome: retries, replays
   and reconciliations, however their lookups interleave with each other and
   with an effect that lands late, do not rewrite it.  It takes a second,
   overlapping execution of the key to change what was recorded as final. *)
SingleExecutionKeepsOutcome ==
  [][\A k \in Keys :
       store[k].state \in Definite /\ store'[k].state # store[k].state =>
         \E x, y \in Calls : /\ x # y
                             /\ calls[x].fresh /\ KeyOf[calls[x].op] = k
                             /\ calls[y].fresh /\ KeyOf[calls[y].op] = k]_vars

(* Every effect, however late it lands, happens before the expiry of a
   capability that was consumed to start it. *)
EffectWithinAuthority ==
  [][\A k \in Keys : created'[k] > created[k] =>
       \E x \in Calls : /\ calls[x].fresh
                        /\ KeyOf[calls[x].op] = k
                        /\ registry[calls[x].cap].status = "consumed"
                        /\ now < registry[calls[x].cap].expiresAt]_vars

(* No call reaches adapter.execute but at an instant at which the capability
   is unexpired by the clock of that instant, of the operation's scope and
   not stale, and with a use of it that is spent in the same turn: whatever a
   tool checks for itself, the gateway does not hand it anything else. *)
ExecutesWithinAuthority ==
  [][\A x \in Calls : Invoked(x)' /\ ~ Invoked(x) =>
       LET c == calls'[x].cap IN
       /\ now' < registry[c].expiresAt
       /\ registry[c].scope = ScopeOf[calls'[x].op]
       /\ registry[c].expected = version'
       /\ registry[c].status = "active" /\ registry'[c].status = "consumed"]_vars

(* The only thing a call may wait for without end is a lookup, which is not
   raced with a timer: an execute that never answers does not hold it. *)
OnlyLookupsHang ==
  \A x \in Calls :
    calls[x].phase # "idle" ~>
      \/ calls[x].phase = "returned"
      \/ calls[x].phase = "reconciling" /\ calls[x].reply = "pending"

(* Over a tool that answers its lookups, one way or another, every call that
   began comes back, even if its execute never answers. *)
CallsReturn ==
  LookupsAnswered =>
    \A x \in Calls : calls[x].phase # "idle" ~> calls[x].phase = "returned"

(* With callers that do not overlap executions of a key, the gateway alone
   keeps the promise of OperationOutcome, even over a forgetful tool. *)
Promise == INSTANCE OperationOutcome WITH
             effects <- created,
             outcome <- [k \in Keys |-> store[k].state]

KeepsThePromise == Promise!OutcomeSpec

(* An operation whose ledger projects to VERIFIED is a succeeded one. *)
VerifiedProjectionIsTrue ==
  \A o \in Operations :
    ProjectOperation(ledger[o]) = "VERIFIED" => store[KeyOf[o]].state = "succeeded"

-----------------------------------------------------------------------------
(* What the repository says of the gateway and the code does not do.        *)

(* README section 4.7: every transition is recorded in the audit ledger. *)
EveryOutcomeIsAudited ==
  [][\A k \in Keys : store'[k] # store[k] => ledger' # ledger]_vars

=============================================================================
