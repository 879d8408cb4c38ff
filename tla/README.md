# Verification of ActionHarbor

ActionHarbor lets a model propose an action (a ticket, a message, a refund) and lets deterministic
code decide, authorize, execute, verify and audit it. This directory holds TLA+ models of that code,
the TLC configurations that check them, and TLAPS proofs about them. Paths are relative to the
repository; `gateway/` stands for `packages/gateway/src/`, and so on.

    tlc -workers 2 -config GatewayOverlap.cfg MCExecutionGateway.tla     # any cfg of section 4
    tlapm ExecutionGatewayProofs.tla

## 1. Inventory

| Part | State | Operations | What is hard |
|---|---|---|---|
| Execution gateway `gateway/execution.ts`, `gateway.ts` | none of its own; the awaits of the calls in progress | `executeAction`: capability, preconditions, idempotency, consume, execute against a timer, verify, record, audit; `reconcileDuplicate`: lookup, verify, record | calls interleave at two awaits; the timer does not cancel the tool; a lookup races the effect |
| Capability registry `capability-registry.ts`, `mint-capability.ts`, `domain/capability.ts`, `precondition.ts` | minted capabilities by id | mint, record, validate, consume, checkPreconditions | single use, expiry read at several clocks, the caller's copy never changes |
| Operation store `operation-store.ts` | outcome per idempotency key | check, record | read before an await, overwritten after it |
| Adapters `adapters/*` | receipt per key, receipt per operation id | execute, lookup | effect may land after everybody has gone home |
| Verifier `verifier/postcondition.ts` | none | verifyPostcondition | which fields it compares |
| Run state machine `domain/state-machine.ts` | the table | transition, isTerminal | pairs with no edge |
| Audit ledger `ledger/audit-ledger.ts`, `hash-chain.ts`, `integrity.ts`, `redact.ts` | entries, hash-chained | append, list, verifyLedgerIntegrity | a truncated chain is a valid chain |
| Projection `ledger/projection.ts` | none | projectOperation: the last event that decides | which stages were seen, and in which order |
| Orchestrator `apps/server/src/orchestrator.ts`, `state.ts` | runs: state, version, capability, store, adapter, ledger | createRun, approveRun, simulateDrift, replayRun, reconcileRun, verifyRunLedger | requests in any order against a timer, a slow tool and an expiry; an exception after half of the work |
| HTTP server and views `apps/server/src/http`, `views.ts` | none | routes, errorStatus, toRunView, availableActions | offers actions the state machine may refuse; an exception is answered without a view |
| Policy `policy/policy.ts` | none | evaluatePolicy | order of guards, fail-closed |
| Approvals `domain/approval.ts` | none: approvals are values | checkApproval, consumeApproval, selectApprovalTrigger | consuming is a copy; what is asked first decides the run's fate |
| Model adapter `model-adapter/*` | none | propose, parseModelProposal | order of rejections |
| Evaluation `evaluation/*` | none | 24 adversarial cases | sequential |
| Web client `apps/web/src` | last view of each run it started, selection, busy, error | start, act on the selected run, select; answers and errors | views that lag behind the server; lost answers; several clients |
| Contracts, hashing, ids | none | schemas, canonical JSON, ids | none modelled |

Interaction: the orchestrator's handlers call policy, approval, mint and `executeAction`; the gateway
calls the registry, the store, the adapter and the ledger; the adapter's promise and the timer call the
gateway back. All state is in the memory of one process, so there is no recovery to model. The web client
sends requests to the server and keeps what the answers show; nothing is pushed to it. Requests and answers
may be lost on that way, and other clients may act on the same runs.

What makes the parts correct, in one line each:

- gateway: one effect per key, nothing reported as success that did not happen, no blind retry, no effect
  outside an unexpired consumed capability, every call returns;
- registry: a capability starts one execution;
- store: what is recorded as final stays final;
- projection and ledger: what they say of an operation is true of it;
- orchestrator: only legal transitions, end states stay, drift stops execution, the tool is called once;
- audit chain: an untouched ledger verifies; an entry that checks vouches for everything before it; with a
  count noted of its ledger a copy is accepted only if it is what that ledger held then;
- policy: ordered guards that deny before anything allows or asks a human;
- approvals and mint: one use, by the proposal they were given for, before they expire; one capability per
  run, never without a verdict or an approval;
- control room: what the tab shows is true and, unless it was told of an error or somebody else has acted,
  current; what it offers is accepted; an answer never sets a view back; the buttons come back.

## 2. Modules

| Module | Models | State and actions |
|---|---|---|
| `OperationTypes` | identities: keys, operation ids, payload hashes, capability ids | constants only |
| `CapabilityRegistry` | clock, plan/resource version, mint, record, validate, consume | `now`, `version`, `registry`; `Tick`, `Drift`, `Mint`, `Register`, `Consume` |
| `OperationStore` | `OperationStore` | `store`; `Check`, `Record` |
| `ToolAdapter` | the fakes' maps and the world outside | `byIdempotencyKey`, `byOperationId`, `created`; `Perform` |
| `ExecutionGateway` | `executeAction` composed with the three above | `calls`, `ledger`; one action per way through each segment |
| `OperationOutcome` | the abstract promise about one key | `effects`, `outcome`; happen, give up, succeed, fail |
| `RunStateMachine` | table, `transition`, `isTerminal` | operators |
| `LedgerProjection` | `projectOperation` | operators: the last deciding event, the stages seen |
| `RunOrchestrator` | the server's handlers over the two above | `now`, `runs`; one action per handler, timer and tool step |
| `ControlRoom` | a tab of the web client, the routes and the views, over `RunOrchestrator` | the server's variables, `shown`, `selected`, `busy`, `error`, `calls`, `requests`, `behind`; click, serve, receive, lose |
| `AuditChain` | `AuditLedger`, hash chain, redaction, `verifyLedgerIntegrity` | `ledgers`, an exported `copy`, the ledger whose count was `noted`; append, export, note a count, five ways to change a copy |
| `Policy` | `evaluatePolicy` | operators |
| `Authority` | `checkApproval`, `consumeApproval`, `selectApprovalTrigger`, `mintCapability`, over `Policy` and `RunStateMachine` | `runs`, `approvals`, `handlers`, `capabilities`; propose, approve, withdraw, and a handler's load, consume, reload, refuse, grant |
| `MCExecutionGateway`, `MCAuditChain`, `MCAuthority` | instances for TLC | |
| `ExecutionGatewayProofs`, `RunOrchestratorProofs`, `ControlRoomProofs`, `AuditChainProofs`, `AuthorityProofs`, `LedgerProjectionProofs` | theorems about the module they are named after | |
| `GatewayOutcomeProofs` | theorems of `ExecutionGateway` about store, ledger and promise | |
| `NaturalOrder` | least and greatest naturals, for the proofs about ledgers | |

How `ExecutionGateway` corresponds to the code. JavaScript runs from one await to the next without
interruption, so `executeAction` is cut exactly there. The first segment, up to
`await raceWithTimeout(...)` or `await adapter.lookup(...)`, is one of `RejectCapability`,
`FailPrecondition`, `RejectConflict`, `ReplaySucceeded`, `ReplayFailed`, `RejectConsumed` (all return at
once), `BeginReconcile` and `StartExecution` (which await). The second segment is `TimeOut`,
`FinishThrew`, `FinishGatewayRejected`, `FinishExecution`, `FinishInconclusive`, `FinishReconciled` or
`FinishLookupThrew`, where `executeAction` itself rejects.
In between, other calls, the clock, drift and the tool take steps. `ToolPerforms`, `ToolThrows` and
`ToolMisreports` settle the promise of `adapter.execute`, also long after its call has returned;
`ToolAnswersLookup` and `ToolFailsLookup` settle the one of `adapter.lookup`, which need not happen.

How `RunOrchestrator` corresponds to the code. Every run owns its store, adapter and ledger. The message
adapter and all lookups settle within the microtask queue, which is drained before the next request or
timer, so a handler is one action, with `executeAction` and `applyExecutionResult` in it. The only
handler that is suspended is `createRun` for `unknown_outcome`: it stops at the race (`TicketRequested`)
and is resumed by `TimeOut` (50 ms), which is due before the tool's own timer (400 ms), whose wake-up is
`SlowToolPerforms` or, when the capability has expired meanwhile, `SlowToolThrows`. A transition that is
refused throws: `Concluded` keeps the run's state and answers "500", and what the gateway did stays done.

How `ControlRoom` corresponds to the code. The server's variables and handlers are those of
`RunOrchestrator` (`Server!...`). A request is a record in `calls`: sent, served (`Handle`, `Refuse`, `Get`,
`Create`), answered with the view of that moment or with an error, and received (`ReceiveView`,
`ReceiveError`, `ReceiveResult`) or lost on either way (`Lose`). `Send` is `withBusy` up to its await,
`Failed` its catch and finally. `verify_ledger` is two requests, one after the other (`AfterVerify`). Only
the start of an `unknown_outcome` run waits in its handler, until `TimeOut`. "200" stands for 200 and 201.
`Elsewhere` is another client, or a request of this tab that arrives although the tab was told it failed.
`behind` is a history variable: the runs about which the tab was told an error, lost an answer, or somebody
else has acted. A reload makes a new tab that knows nothing (the client never calls `listRuns`).

How `AuditChain` corresponds to the code. `AppendEntry` is `AuditLedger.append`, with `buildLedgerEntry`
and its redaction inside. The check is a pure function, asked of the copy in every state: `FaultAt` is one
turn of its loop, `CheckedEntries` how far the loop gets, `Verifies` its answer. A copy changes as the
repository's tests and the client's tampering demo change theirs (`Rewrite`, `RemoveEntry`, `Exchange`,
`Rebuild`), and by an entry pasted from another ledger (`Splice`). `NoteCount` is whoever supplies
`expectedSequenceCount`: only a length leaves the ledger, `noted` also remembers which ledger it was and what
it held, as history that only the property reads.

How `Authority` corresponds to the code. `Propose` is `createRun` from the verdict on. The orchestrator
builds and consumes each approval in one handler; the library it uses is made for approvals that are kept
and submitted, and says what their store must do (compare and swap, `approval.ts:62-65`). The model is of
that use: the store and the handlers' reads are external, the decisions (`CheckApproval`, `Consumed`,
`SelectApprovalTrigger`, `MintsFrom...`) and the order consume, transition, mint (`orchestrator.ts:340-359`)
are the code's. Between `Consume` and `Grant` the other handlers run, because a store is awaited; so a run
may have moved to CONFLICT or EXPIRED when its grant comes: the transition throws, nothing is minted, and
the approval stays spent. `ChangePolicy` is a new build taking over stored approvals.

### Abstractions

- A payload stands for the hash of a call's parameters, a scope for the tuple (principal, action type,
  resource, proposal hash); hashes are injective, ids unique.
- Plan hash and resource version are one counter, `version`: `checkPreconditions` compares both and the
  consequence is the same.
- Time is a counter of coarse ticks; a timeout may fire at any time after the start, so every `timeoutMs`
  is covered.
- A receipt carries its key and the payload it proves. Which fields are compared is `ContentVerified`:
  tickets compare the key only, messages and refunds the content also (a refund's currency and reason are
  not compared, and are not part of the modelled content).
- A tool that throws has had no effect. A tool that has an effect and never answers, or answers late, is
  covered by the timeout.
- A presented capability may be minted or not, recorded or not; one that was never minted stands for what
  does not parse, one that was not recorded for an unknown id or another nonce. The caller's object stays
  `active`, as in the code.
- Requests refused with NOT_FOUND or UNKNOWN_SCENARIO change nothing and are left out, as are those refused
  with INVALID_STATE in `RunOrchestrator`; in `ControlRoom` they are `Refuse`.
- A view has the fields the properties and the client's decisions read. Its capability is a BOOLEAN: the view
  shows the object that was minted, whose status stays "active" after the registry's copy was consumed
  (`http/server.test.ts:120` expects that).
- In the gateway and the orchestrator audit entries are their types, in order; in `AuditChain` an entry has a
  sequence number, a payload (everything else it holds), the previous hash and its hash. SHA-256 over
  canonical JSON is injective: a hash is the tuple of what was hashed. Which payloads redaction changes is a
  constant, `Secrets`.
- In `Authority` a run stands for its proposal: hash, action and resource agree exactly when the runs do.
- A policy input is a record of classes (same tenant or not, intent expired or not, ...). Reason codes are
  left out, nothing decides by them.

## 3. Properties

Gateway, whatever callers do: `CapabilityStartsOneExecution`, `NoBlindRetry`, `ExecutesWithinAuthority`,
`EffectWithinAuthority`, `OutcomeNamesItsExecution`, `OutcomeIsAudited`, `SingleExecutionKeepsOutcome`, `OnlyLookupsHang`, and, over a
tool that settles its lookups, `CallsReturn`. Over a tool
with an idempotency map: `AtMostOneEffect`, `SuccessReflectsEffect`. When callers do not overlap
executions of a key (`CallersSerialize`), over any tool: `AtMostOneExecution`,
`VerifiedProjectionIsTrue` and the refinement `KeepsThePromise` of `OperationOutcome` (with
`effects <- created` and the recorded state as `outcome`). Of the two about authority, `ExecutesWithinAuthority`
is the gateway's own doing, and needs its second reading of the clock (`gateway.ts:35`);
`EffectWithinAuthority` is about the effect, which may come long after, and needs the tool's guard.

Audit chain: `EntryVouchesForItsPast`, `CountPinsTheCopy`. Without an expected
count a chain that lost its newest entries verifies (`integrity.ts:21-26` says so; neither of the server's
callers passes a count), which is why the last property needs one. The count says nothing of the ledger it was
taken from: noted of one ledger, it would accept a beginning of another that has that length, so the property
is about copies that end in an entry of the ledger it came from. For those it is exact in both directions: a
truncated copy is refused, and so is a complete one exported after more was appended; an untouched one is
accepted. That every ledger verifies with its own length is proved as well (`LedgersVerify`).

Authority: `PolicyFollowsItsRules`, `CapabilityHasAuthority`, `ApprovalIsSingleUse`, `ApprovalServesItsRun`,
`OneCapabilityPerRun`, `SpentApprovalsStay`.

Orchestrator: `CallsAreAuthorized`, `DriftStopsExecution`, `ExecutesOnce`, `VerifiedIsReal`,
`LedgerFollowsState`, `EndedRunsStay`, and `RunsKeepThePromise`, the refinement of `OperationOutcome` by the
orchestrator (a run is a key, `effects` is whether its tool has performed). `CallsAreAuthorized` is about
both parts of the projection's answer: the stages of a ledger come in the pipeline's order.

Control room: `KnownOrBehind`, `OfferedIsAccepted`, `ShownClaimsHold`, `PanelsDoNotOverstate`,
`ViewsNeverGoBack`, `BusyEnds`.

`LedgerFollowsState` says where the two views of a run part: a run that stays in
RECONCILIATION_REQUIRED while its ledger already says VERIFIED, after a second reconcile.

## 4. Runs

| Run | Instance | Shows |
|---|---|---|
| `GatewayOverlap` | 3 calls, 1 key, 2 operation ids, 2 payloads, 2 capabilities (recorded or not), TTL 1, clock to 1, 1 drift, idempotent tool | what needs no discipline of the callers |
| `GatewaySerial` | 3 calls, 2 keys, 3 operation ids, 2 scopes, forgetful tool, only keys verified, callers serialize | the store alone gives one effect and one final outcome |
| `GatewayLive` | 2 calls, 1 key, fairness | calls return, unless a lookup is never answered |
| `RunsSafe` | 1 run, TTL 1, clock to 3, 2 drifts, the ledger accepts requests up to 12 entries | every order of requests, timers and late effects; the promise is kept |
| `ControlRoom` | 1 tab, 2 runs, 4 requests by all clients, TTL 1, clock to 1, fairness | what the tab's views are worth; the buttons come back |
| `ChainSafe` | 2 ledgers of up to 3 entries, a plain and a secret payload, 3 changes to a copy | what the integrity check is worth |
| `AuthoritySafe` | 2 runs, 2 approvals, 2 handlers, TTL 1, clock to 2, 1 change of policy, 12 policy inputs: one per rule | approvals and capabilities; the order of the policy's guards |
| `GatewayTwice` | 2 overlapping calls | violated: `execute` is invoked twice under a key |
| `GatewayUnaudited` | 2 calls | violated: a failure leaves no audit event |
| `RunsIllegal` | 1 run | violated: a second reconcile asks for an illegal transition |
| `ControlRoomPanel` | 1 tab, 1 run | violated: a verified run is shown with an unknown postcondition |
| `AuthorityOldPolicy` | 1 run, 1 approval, 1 change of policy | violated: an approval outlives its policy |

Why the bounds are enough. Three calls are the fewest that put two executions and a reconciliation, or one
execution and two reconciliations, on one key. Two operation ids are needed for a lookup under another id,
two payloads for conflicts, two capabilities for two executions (the third call presents a consumed one).
One drift makes every older capability stale; a TTL of one tick with one tick of clock reaches a capability
before and at its expiry. In `RunsSafe` a ledger of twelve entries lets an `unknown_outcome` run, which has
five when its budget is over, be reconciled, found inconclusive and reconciled again several times, with
late effect and expiry anywhere in between. One run is enough because runs share nothing but the clock:
store, adapter and ledger are per run and capability ids are unique. In `ControlRoom` two runs let an answer
arrive while the other run is selected; four requests are a start, an approval, a replay and one more, by
the tab or by another client; with five the same properties hold (994 k states). The bounds of the server
are never met there. The policy inputs are the three proposals that can go on and, for each rule that
denies, one that the rules after it would let pass; that the rules and the order agree on all 2240 inputs is
the theorem `PolicyIsItsRules`. Three entries are the fewest with one in the middle, two ledgers the fewest
that can share a beginning and then part; three changes can forge an entry and rebuild both that follow. Two
handlers and two approvals put two handlers on one approval, and two approvals on one run. Symmetry is over
calls, capabilities, payloads, ledgers, runs, approvals and handlers, which no definition tells apart, and
is not used in the runs with liveness. `CHECK_DEADLOCK FALSE` is set because finitely many calls, ticks and
ledger entries come to an end.

Fairness. `GatewayLive` assumes weak fairness of a call's second segment, because the runtime resumes a
call whose promise is settled or whose timer is due. Nothing is assumed of the tool; that lookups are answered
or fail, as the repository's adapters do, is a hypothesis of `CallsReturn` and not of `OnlyLookupsHang`.
`ControlRoom` assumes that the server serves what has reached it, that the budget's timer fires, and that an
answer is received unless it is lost; nobody is obliged to click. Weak fairness of the first two is written
out as state against step, since both are enabled wherever the state says that something waits.

### What the violated runs show

Each states a sentence of the repository and finds the code doing otherwise (details under "findings" in
`PROJECT.json`): overlapping calls on one key (`README.md:88`), the missing audit event of a rejected execution
(`README.md:75`), the second reconcile (`orchestrator.ts:43`), the verified run with an open postcondition
(`state-copy.ts:83`) and the old policy (`policy.ts:13-14`). The first needs callers that
overlap two executions of one key, each with a capability of its own; the demo server never does, since a run
executes once. The last needs approvals that are kept and submitted, which the demo server does not do
either: it is about the library. The second reconcile and the panel can be met in the demo itself, the
first by doing what the copy says ("Wait, then reconcile again."), the other by replaying a verified run
after a minute.

More things the models show and a reader should know.

- The gateway's own re-check can fail although the comment calls it unreachable (`execution.ts:226-229`): it
  reads the clock again, and a capability that expires between the two readings is consumed and then rejected
  (`FinishGatewayRejected`). `ExecutesWithinAuthority` is what the re-check is for.
- Capability expiry is checked before the idempotency store, so 60 seconds after the mint an unknown outcome
  can no longer be reconciled through the handlers; `EndedRunsStay` states it.
- A lookup that rejects makes `executeAction` reject, without a record or an event (`FinishLookupThrew`).
- After a second reconcile that found the effect, a third is answered with IDEMPOTENT_REPLAY: the panel then
  says that the postcondition passed while the badge says that reconciliation is required. That is why
  `PanelsDoNotOverstate` is about UNKNOWN_OUTCOME.
- A start whose answer is lost leaves a run on the server that this tab never shows.
- An approval is asked for its status and expiry before it is asked whose it is: an expired or consumed
  approval of another proposal ends a run in EXPIRED or CONFLICT, while `approval.ts:79-81` says that a wrong
  approval "just means keep waiting for a correct one". `ApprovalServesItsRun` says that it is at least never
  used up.
- The goal of the `replay` scenario names a refund too, so the fake model answers with two actions, of which
  the first is taken; `scenarios.ts:18-20` says that every goal triggers exactly one.

## 5. Proofs

For every value of the constants, `ExecutionGatewayProofs` proves:

| Theorem | States | Assumes beyond the modules' assumptions |
|---|---|---|
| `TypeCorrect` | `[]TypeOK` | |
| `CapabilityIsSingleUse` | `[]CapabilityStartsOneExecution` | |
| `RetriesOnlyLookUp` | `NoBlindRetry` | |
| `EffectsAreAuthorized` | `EffectWithinAuthority` | |
| `ExecutesAreAuthorized` | `ExecutesWithinAuthority` | |
| `OutcomesNameTheirExecution` | `[]OutcomeNamesItsExecution` | |
| `EffectHappensOnce` | `[]AtMostOneEffect` | `ToolIsIdempotent` |
| `SuccessIsReal` | `[]SuccessReflectsEffect` | `ToolIsIdempotent`, `ContentVerified` |
| `SerializedKeysExecuteOnce` | `[]AtMostOneExecution` | `CallersSerialize` |

The invariants are built up in layers, each proved with those below it as hypotheses:

1. `Sound`: `TypeOK`, and a call that has begun knows its operation, capability and payload. A lemma per
   segment reduces `Next` to its named actions once.
2. `ConsumedBeforeStart`: a call that started holds a capability whose registry entry is consumed, and two
   such calls hold different ones. Alone, `CapabilityStartsOneExecution` is not inductive: a state where
   a started call's capability is still active satisfies it and the next `Consume` breaks it.
3. `HeldOutcomesStarted`: every record, and every record a reconciling call holds across its await, names
   an execution that started with that key and payload.
4. `EffectsCounted`: over an idempotent tool, `created` is one exactly where the key has a payload and zero
   elsewhere.
5. `ReceiptsHonest`: what a call holds as a receipt that passes verification is about a performed effect;
   `SuccessShown` then carries this to the store and to the callers' answers.
6. `StartedIsVisible`: with serialized callers, a started execution is either still executing (and blocks
   the key) or has a record (and `Check` no longer says "new").

`AuthorityProofs` proves, assuming only `AuthorityAssumption`:

| Theorem | States |
|---|---|
| `TypeCorrect` | `[]TypeOK` |
| `SingleUse` | `[]ApprovalIsSingleUse` |
| `ServesItsRun` | `[]ApprovalServesItsRun` |
| `OneCapability` | `[]OneCapabilityPerRun` |
| `Authorized` | `[]CapabilityHasAuthority` |
| `SpentStays` | `SpentApprovalsStay` |
| `PolicyIsItsRules` | `[]PolicyFollowsItsRules` |

Its invariant `AuthorityInv` adds to `TypeOK`, `ApprovalIsSingleUse` and `OneCapabilityPerRun` what they
silently rest on: a run's outcome is the policy's verdict on its input, and only a run that needed a human
waits for one (`RunsAreJudged`) or has handlers working for it (`HandlersKnowTheirs`); what a handler has
stored is the consumed, then unexpired approval of its run (`StoredIsConsumed`); every capability rests on a
verdict or on a consumed approval (`CapabilitiesAreGrounded`). `ApprovalIsSingleUse` alone is not inductive:
a state in which an approval is still active and has led to a capability satisfies it, and the next consume
breaks it. That the approval about to be consumed has led to nothing follows from everything it could have
led to being consumed already, and from the compare and swap with what is stored.

### What the gateway leaves on record

`GatewayOutcomeProofs` goes on from the layers above:

| Theorem | States | Assumes |
|---|---|---|
| `OutcomesAreAudited` | `[]OutcomeIsAudited` | |
| `SingleExecutionsSettle` | `[]SingleExecutionKeepsOutcome` | |
| `VerifiedProjectionsAreTrue` | `[]VerifiedProjectionIsTrue` | `CallersSerialize` |
| `GatewayRefinesThePromise` | `KeepsThePromise` | `CallersSerialize` |

Why a key that was executed once keeps its outcome cannot be seen from the key's record alone: replays and
reconciliations of the same key may be under way, each holding a copy of the record it read before its await,
and the timer may have given up on a tool that still performs. `OutcomesInv` therefore tells the whole story
of a key that was started once: how far its effect has come (`EffectStory`), what the executing call holds
(`ExecutionStory`), what each reconciling call will be told (`ReconcileStory`), and what the store says
(`OutcomeStory`). Under serialized callers every key has such a story, which gives the refinement of
`OperationOutcome`: each step happens, gives up, succeeds or fails for at most one key, or changes nothing.
`SerialInv` adds that a success event in the ledger of an operation has a recorded success of its key behind
it (`VerifiedStands`): a ledger is one per operation, a record one per key, and several operations may share
a key.

### The orchestrator

`RunOrchestratorProofs`, assuming only `OrchestratorAssumption`, for any number of runs, any TTL and any of the
bounds:

| Theorem | States |
|---|---|
| `RunsAreSituated` | `[]RunsInv` |
| `RunsAreTyped` | `[]TypeOK` |
| `NoCallWithoutAuthority` | `[]CallsAreAuthorized` |
| `DriftIsNotActedOn` | `[]DriftStopsExecution` |
| `AdaptersAreCalledOnce` | `[]ExecutesOnce` |
| `VerifiedRunsAreReal` | `[]VerifiedIsReal` |
| `LedgersFollowStates` | `[]LedgerFollowsState` |
| `RunsStayEnded` | `EndedRunsStay` |
| `RunsRefineThePromise` | `RunsKeepThePromise` |

A run has a dozen fields and each property relates two or three of them; none is inductive alone, because
what the gateway answers (and so what the state machine is asked) depends on capability, store and adapter
together. `RunsInv` says that a run is not created or in one of six situations: decided, stale, executing,
verified, unknown, and overdue, where the store has learned of a success that the state could not take. In
each it fixes the fields but for the clock. A ledger is described by what it projects to and the stages it
shows in order (`Ledgered`), never by its events, so that one lemma on what an append does to the two
(`LedgeredAppend`) serves ledgers of any length.

`LedgerProjectionProofs` proves that lemma's parts: what an appended event does to `ProjectOperation` and to
the stages. Both are stated as the last position of a deciding event, or the set of stages seen, and not as
folds: what a fold computes for every sequence is out of the prover's reach, while "the last" needs only
that a bounded set of naturals has a greatest element, which `NaturalOrder` proves from the library's
well-foundedness of strict inclusion between finite sets.

### The control room

`ControlRoomProofs`, assuming `ControlRoomAssumption` (which repeats the server's, since the server's theorems
hold under them) and `NoneIsNoView`, that `None` is not a view:

| Theorem | States |
|---|---|
| `TabStaysInStep` | `[]TabInv` |
| `TabTyped` | `[]TypeOK` |
| `TabKnowsOrIsBehind` | `[]KnownOrBehind` |
| `OffersAreAccepted` | `[]OfferedIsAccepted` |
| `ClaimsHold` | `[]ShownClaimsHold` |
| `PanelsAreTrue` | `[]PanelsDoNotOverstate` |
| `ViewsMoveForward` | `ViewsNeverGoBack` |

`TabInv` has five parts beside types. `RunsInv` holds of the server, whose handlers are what the tab's requests
run. The tab has one request at a time (`OneCall`), in one of six forms (`CallsAreSane`): a start, an action on
a run it shows, the second half of a verification, a start that waits for the budget, an answer with a view, an
answer without. Every view, shown or on its way, is one its run had at rest, so that what has become of the
run since is bounded by what lasts (`Dated`). And the tab shows a run as it is unless it is behind on it or an
answer is on its way (`AllIsKnown`). The properties need one another here: that an answer never sets a view
back holds because no second answer can be under way, that an offered action is accepted because a view of a
run that nobody else touched is current, and that one is current because no timer and no late effect shows in
a view of a run at rest. What lasts of a run through any step of the server (its scenario, an ended state, a
call made, an effect, the events so far) is proved of the server, in the last section of
`RunOrchestratorProofs`.

`ControlRoom` takes the server as an instance and the proofs take `RunOrchestratorProofs` as another one:
`SameTypes`, `SameExecution`, `SameRequests` and `SameTimers` say that they are the same definitions.

### The audit chain

`AuditChainProofs`, assuming `ChainAssumption`:

| Theorem | States |
|---|---|
| `ListsAreTyped` | `[]TypeOK` |
| `LedgersVerify` | `[]UntouchedLedgerVerifies`, a definition of the proofs' module |
| `EntriesVouch` | `[]EntryVouchesForItsPast` |
| `CountsPin` | `[]CountPinsTheCopy` |

`ChainInv` says of each position of a ledger that it holds an entry built on its predecessor, `ListsInv` that
ledgers and copy are finite lists of entries. That a copy which checks up to an entry of a ledger
agrees with the ledger on everything before it is an induction over positions. The library's induction
theorems cannot be instantiated here, so it is done by the greatest position before that entry at which the
two differ (`GreatestNat`): the entries after it agree, so they carry the same previous hash, and with it the
same entry. `CountsPin` adds `NotedInv`, that what a ledger held when its count was noted is still its beginning:
a copy that ends in an entry of that ledger is one of its beginnings by the chain, and of two beginnings of
one ledger the length decides.

### What is only model-checked, and what the theorems do not say

The inductive invariants of the gateway, of `Authority`, of the orchestrator and of the control room were
checked with TLC before they were proved, on the instances of section 4 (`TabInv` on 182 thousand states),
the stories of a key also on `GatewayOverlap` with a forgetful tool, which the theorems allow (955 thousand).
`ChainInv` and `ListsInv` quantify over the sets that entries come from, which TLC cannot enumerate.

Model-checked only: `OnlyLookupsHang`, `CallsReturn` and `BusyEnds`. They are liveness properties under
fairness, which this prover does not reach. Every safety property and both refinements are proved.

The theorems quantify over the constants, the bounds on time, versions, events and requests among them. The
properties violated in section 4 have no theorem, and the hashes are injective by construction, as section 2
says.

## 6. Not modelled

- Receipt and proposal parsing, contracts, hashing and ids, the retry budget, which keys and values redaction
  takes for secrets, request parsing: functions of one argument without state, whose answers are the
  classes, receipts and payloads the other modules choose from. A proposal that does not parse is a thrown
  error in `createRun`, which is only ever given the fake model's output. The retry budget is one comparison
  that only the evaluation calls.
- The evaluation's driver: 24 cases one after the other, each on fresh state.
- In the client, the panels that only format a view, the banner of a failed ledger (the server's ledgers are
  untouched, so it never shows; `LedgersVerify`), and the tampering demo of `AuditTimeline`, whose
  result stays on the screen when another run is selected: it says nothing of a real ledger.
- Reading the list of runs: the server has the route, the client never asks.

## 7. Plan

Done: the gateway with registry, store and tool, and its abstract promise; the orchestrator with state machine
and projection, and its refinement of the same promise; `AuditChain`; `Policy` and `Authority`; the control
room over the server; the theorems of section 5, by which every safety property and both refinements hold
for every value of the constants.

Next:

1. Composing `Authority` with the gateway's registry, so that a mint there has its ground here.
2. A client with several tabs, of which each is a `ControlRoom` and the others its `Elsewhere`.
