------------------------------ MODULE ControlRoom ------------------------------
(***************************************************************************)
(* One browser tab of the web client (App.tsx) in front of the demo        *)
(* server: HTTP requests and answers that take their time or get lost, the *)
(* views of runs the tab keeps, and other clients of the same API.         *)
(*                                                                         *)
(* The server is RunOrchestrator; a request takes effect there in one      *)
(* step, and its answer carries what toRunView makes of the run at that    *)
(* moment.  The exception is the start of an "unknown_outcome" run, which  *)
(* is answered when the execution budget has run out.                      *)
(*                                                                         *)
(* The tab never asks for the list of runs and never polls: it knows the   *)
(* runs it has started, as the last answer about each one showed them.     *)
(***************************************************************************)
EXTENDS Naturals, Sequences, SequencesExt

CONSTANTS
  Runs, TTL, MaxTime, MaxVersion, MaxEvents,   \* of the server
  None,          \* the absent value
  MaxRequests    \* bound: the requests of all clients together

ASSUME ControlRoomAssumption ==
  /\ TTL \in Nat \ {0}
  /\ MaxTime \in Nat
  /\ MaxVersion \in Nat \ {0}
  /\ MaxEvents \in Nat
  /\ MaxRequests \in Nat
  /\ None \notin Runs

VARIABLES
  now, runs,     \* the server
  shown,         \* App.runs: per run, the view the tab keeps, or None
  selected,      \* App.selectedRunId
  busy,          \* App.busy
  error,         \* App.error is not null
  calls,         \* the tab's requests that have not been settled
  requests,      \* how many requests were made
  behind         \* history: runs the tab has not been told the last of

vars == <<now, runs, shown, selected, busy, error, calls, requests, behind>>
serverVars == <<now, runs>>
tabVars == <<shown, selected, busy, error>>

Server == INSTANCE RunOrchestrator

Created == {r \in Runs : runs[r].scenario # "none"}
Shown == {r \in Runs : shown[r] # None}

-----------------------------------------------------------------------------
(* What the server shows of a run: views.ts.                                *)

Actions == {"simulate_drift", "approve", "replay", "reconcile", "verify_ledger"}

\* Mutant: a run whose outcome is open is offered as one to replay.
OfferedLoosely(run, action) ==
  CASE action = "simulate_drift" ->
         run.state = "APPROVAL_REQUIRED" /\ run.scenario = "stale" /\ run.versionNow = 1
    [] action = "approve" -> run.state = "APPROVAL_REQUIRED"
    [] action = "replay" -> run.state \in {"VERIFIED", "UNKNOWN_OUTCOME"}
    [] action = "reconcile" -> run.state \in {"UNKNOWN_OUTCOME", "RECONCILIATION_REQUIRED"}
    [] action = "verify_ledger" -> TRUE

(* availableActions. *)
Offered(run, action) ==
  CASE action = "simulate_drift" ->
         run.state = "APPROVAL_REQUIRED" /\ run.scenario = "stale" /\ run.versionNow = 1
    [] action = "approve" -> run.state = "APPROVAL_REQUIRED"
    [] action = "replay" -> run.state = "VERIFIED"
    [] action = "reconcile" -> run.state \in {"UNKNOWN_OUTCOME", "RECONCILIATION_REQUIRED"}
    [] action = "verify_ledger" -> TRUE

(* toRunView.  The capability is the one that was minted: that the registry's
   copy has been consumed does not show. *)
View(run) ==
  [scenario |-> run.scenario, state |-> run.state, versionNow |-> run.versionNow,
   capability |-> run.capability # "none", execution |-> run.execution,
   callCount |-> run.callCount, ledger |-> run.events,
   actions |-> {action \in Actions : Offered(run, action)}]

Views ==
  [scenario : Server!Scenarios, state : Server!RunStates, versionNow : Nat,
   capability : BOOLEAN, execution : Server!Results, callCount : Nat,
   ledger : Seq(Server!AuditEventTypes), actions : SUBSET Actions]

ASSUME NoneIsNoView == None \notin Views

(* VerificationPanel: the two checks as it reads them off the last summary. *)
Precondition(view) ==
  CASE view.execution = "none" -> "not_reached"
    [] view.execution = "precondition" -> "failed"
    [] OTHER -> "passed"

\* Mutant: whatever got past the precondition is shown as passed.
PostconditionAssumed(view) ==
  CASE view.execution \in {"none", "precondition"} -> "not_reached"
    [] view.execution = "postcondition" -> "failed"
    [] OTHER -> "passed"

Postcondition(view) ==
  CASE view.execution \in {"none", "precondition"} -> "not_reached"
    [] view.execution \in {"unknown_outcome", "reconciliation_required"} -> "unknown"
    [] view.execution = "postcondition" -> "failed"
    [] view.execution \in {"success", "IDEMPOTENT_REPLAY", "RECONCILED_SUCCESS"} -> "passed"
    [] OTHER -> "unknown"

(* STATE_COPY: what the tab says cannot happen to a run in the state it shows,
   of the states the server's runs come to rest in. *)
CannotHappen(state, run) ==
  CASE state \in {"DENIED", "APPROVAL_REQUIRED"} -> run.capability = "none" /\ run.callCount = 0
    [] state = "STALE" -> run.callCount = 0
    [] state = "VERIFIED" -> run.tool = "performed"
    [] state = "UNKNOWN_OUTCOME" ->
         /\ run.callCount = 1
         /\ run.outcome # "failed"
         /\ run.outcome = "succeeded" => run.tool = "performed"
    [] state = "RECONCILIATION_REQUIRED" -> run.callCount = 1
    [] OTHER -> FALSE

(* A request of the tab: the start of a run of some scenario, an action on a
   run, or the second half of "verify_ledger", getRun. *)
Call ==
  [action : Server!Scenarios \cup Actions \cup {"get"}, run : Runs \cup {None},
   stage : {"sent", "pending", "answered"},   \* pending: the handler is awaited
   answer : {"none", "200", "400", "500"}, view : Views \cup {None}]

TypeOK ==
  /\ Server!TypeOK
  /\ shown \in [Runs -> Views \cup {None}]
  /\ selected \in Shown \cup {None}
  /\ busy \in BOOLEAN /\ error \in BOOLEAN
  /\ calls \subseteq Call
  /\ requests \in 0..MaxRequests
  /\ behind \subseteq Created

Init ==
  /\ Server!Init
  /\ shown = [r \in Runs |-> None]
  /\ selected = None
  /\ busy = FALSE /\ error = FALSE
  /\ calls = {}
  /\ requests = 0
  /\ behind = {}

-----------------------------------------------------------------------------
(* The user's clicks.                                                        *)

\* Mutant: buttons stay enabled while a request is on its way.
ClickableAlways == TRUE

(* Every button that sends a request is disabled while busy. *)
Clickable == ~ busy

Sent(action, r) ==
  [action |-> action, run |-> r, stage |-> "sent", answer |-> "none", view |-> None]

(* withBusy, up to its await. *)
Send(action, r) ==
  /\ requests < MaxRequests
  /\ requests' = requests + 1
  /\ calls' = calls \cup {Sent(action, r)}
  /\ busy' = TRUE
  /\ error' = FALSE
  /\ UNCHANGED <<serverVars, shown, selected, behind>>

(* ScenarioPicker; bound: there is a run id left for every start. *)
Start(scenario) ==
  /\ Clickable
  /\ Created # Runs
  /\ \A c \in calls : c.action \notin Server!Scenarios
  /\ Send(scenario, None)

(* ActionBar shows the actions of the selected run's view. *)
Act(action) ==
  /\ Clickable
  /\ selected # None
  /\ action \in shown[selected].actions
  /\ Send(action, selected)

(* RunList is never disabled. *)
Select(r) ==
  /\ r \in Shown \ {selected}
  /\ selected' = r
  /\ UNCHANGED <<serverVars, shown, busy, error, calls, requests, behind>>

-----------------------------------------------------------------------------
(* The server's routes.                                                      *)

Becomes(c, d) == calls' = (calls \ {c}) \cup {d}

(* The handler of POST /api/runs/:id/<action>. *)
Handler(action, r) ==
  \/ action = "approve" /\ Server!ApproveRun(r)
  \/ action = "simulate_drift" /\ Server!SimulateDrift(r)
  \/ action = "replay" /\ Server!ReplayRun(r)
  \/ action = "reconcile" /\ Server!ReconcileRun(r)
  \/ action = "verify_ledger" /\ Server!VerifyRunLedger(r)

(* The states in which the handlers do not throw INVALID_STATE. *)
Accepted(action) ==
  CASE action \in {"approve", "simulate_drift"} -> {"APPROVAL_REQUIRED"}
    [] action = "replay" -> {"VERIFIED"}
    [] action = "reconcile" -> {"UNKNOWN_OUTCOME", "RECONCILIATION_REQUIRED"}
    [] OTHER -> Server!RunStates

(* An answer with the view of a run, and one without. *)
WithView(c, r, run) ==
  [c EXCEPT !.run = r, !.stage = "answered", !.answer = "200", !.view = View(run)]
Without(c, status) == [c EXCEPT !.stage = "answered", !.answer = status]

(* What is sent for a run when its handler has come to an end; the ledger's
   check is answered with its result only. *)
AnswerOf(c, run) ==
  IF run.answer = "500" \/ c.action = "verify_ledger"
  THEN Without(c, run.answer) ELSE WithView(c, c.run, run)

Handle(c) ==
  /\ c.stage = "sent"
  /\ Handler(c.action, c.run)
  /\ Becomes(c, AnswerOf(c, runs'[c.run]))
  /\ behind' = IF AnswerOf(c, runs'[c.run]).view = None
               THEN behind ELSE behind \ {c.run}
  /\ UNCHANGED <<tabVars, requests>>

(* errorStatus: INVALID_STATE is a 400. *)
Refuse(c) ==
  /\ c.stage = "sent"
  /\ c.action \in Actions
  /\ runs[c.run].state \notin Accepted(c.action)
  /\ Becomes(c, Without(c, "400"))
  /\ UNCHANGED <<serverVars, tabVars, requests, behind>>

(* GET /api/runs/:id. *)
Get(c) ==
  /\ c.stage = "sent"
  /\ c.action = "get"
  /\ Becomes(c, WithView(c, c.run, runs[c.run]))
  /\ behind' = behind \ {c.run}
  /\ UNCHANGED <<serverVars, tabVars, requests>>

(* POST /api/runs: answered at once, unless the handler awaits a slow tool. *)
Create(c, r) ==
  /\ c.stage = "sent"
  /\ \/ c.action = "blocked" /\ Server!CreateDenied(r)
     \/ c.action \in Server!ApprovalScenarios /\ Server!CreateForApproval(r, c.action)
     \/ c.action = "unknown_outcome" /\ Server!CreateAllowed(r)
  /\ Becomes(c, IF runs'[r].tool = "sleeping"
                THEN [c EXCEPT !.run = r, !.stage = "pending"]
                ELSE WithView(c, r, runs'[r]))
  /\ UNCHANGED <<tabVars, requests, behind>>

(* The execution budget runs out, and the request that waits is answered; if
   its client has gone, nobody is told. *)
TimeOut(r) ==
  /\ Server!TimeOut(r)
  /\ calls' = {IF c.stage = "pending" /\ c.run = r THEN AnswerOf(c, runs'[r]) ELSE c :
                 c \in calls}
  /\ behind' = IF \E c \in calls : c.stage = "pending" /\ c.run = r
               THEN behind \ {r} ELSE behind
  /\ UNCHANGED <<tabVars, requests>>

(* The clock, and the tool that wakes up. *)
Time ==
  /\ \/ Server!Tick
     \/ \E r \in Runs : Server!SlowToolPerforms(r) \/ Server!SlowToolThrows(r)
  /\ UNCHANGED <<tabVars, calls, requests, behind>>

(* Another client of the API, or a request of this tab that was thought to be
   lost, changes a run. *)
Elsewhere(action, r) ==
  /\ requests < MaxRequests
  /\ requests' = requests + 1
  /\ Handler(action, r)
  /\ behind' = behind \cup {r}
  /\ UNCHANGED <<tabVars, calls>>

-----------------------------------------------------------------------------
(* The answers, in the tab.                                                  *)

\* Mutant: only a request that succeeds ends being busy.
FailedStaysBusy(c) ==
  /\ calls' = calls \ {c}
  /\ error' = TRUE
  /\ UNCHANGED <<serverVars, shown, selected, busy, requests>>

\* Mutant: a run is selected though its start has failed.
FailedSelects(c) ==
  /\ calls' = calls \ {c}
  /\ busy' = FALSE
  /\ error' = TRUE
  /\ selected' = IF c.run = None THEN selected ELSE c.run
  /\ UNCHANGED <<serverVars, shown, requests>>

(* withBusy's catch and finally: the views stay as they are. *)
Failed(c) ==
  /\ calls' = calls \ {c}
  /\ busy' = FALSE
  /\ error' = TRUE
  /\ UNCHANGED <<serverVars, shown, selected, requests>>

(* The answer is an error: request() throws an ApiError. *)
ReceiveError(c) ==
  /\ c.stage = "answered"
  /\ c.answer \in {"400", "500"}
  /\ Failed(c)
  /\ behind' = IF c.answer = "500" THEN behind \cup {c.run} ELSE behind

(* The network fails: the request does not arrive, or its answer does not. *)
Lose(c) ==
  /\ Failed(c)
  /\ behind' = IF c.run # None /\ (c.stage # "sent" \/ c.action = "get")
               THEN behind \cup {c.run} ELSE behind

(* handleStart selects the run it has started. *)
SelectedAfter(c) == IF c.action \in Server!Scenarios THEN c.run ELSE selected

(* upsertRun. *)
ReceiveView(c) ==
  /\ c.stage = "answered"
  /\ c.view # None
  /\ shown' = [shown EXCEPT ![c.run] = c.view]
  /\ selected' = SelectedAfter(c)
  /\ busy' = FALSE
  /\ calls' = calls \ {c}
  /\ UNCHANGED <<serverVars, error, requests, behind>>

\* Mutant: the ledger's check is not followed by getRun.
AfterVerifyDone(c) ==
  /\ calls' = calls \ {c}
  /\ busy' = FALSE
  /\ UNCHANGED <<serverVars, shown, selected, error, requests, behind>>

(* handleAction: verifyRunLedger, then getRun. *)
AfterVerify(c) ==
  /\ Becomes(c, Sent("get", c.run))
  /\ UNCHANGED <<serverVars, tabVars, requests, behind>>

ReceiveResult(c) ==
  /\ c.stage = "answered"
  /\ c.answer = "200"
  /\ c.view = None
  /\ AfterVerify(c)

Receive(c) == ReceiveError(c) \/ ReceiveView(c) \/ ReceiveResult(c)
Serve(c) == Handle(c) \/ Refuse(c) \/ Get(c) \/ \E r \in Runs : Create(c, r)

Next ==
  \/ \E scenario \in Server!Scenarios : Start(scenario)
  \/ \E action \in Actions : Act(action) \/ \E r \in Runs : Elsewhere(action, r)
  \/ \E r \in Runs : Select(r) \/ TimeOut(r)
  \/ \E c \in calls : Serve(c) \/ Receive(c) \/ Lose(c)
  \/ Time

Spec == Init /\ [][Next]_vars

(* The server answers what reaches it, timers fire, and answers arrive unless
   they are lost; nobody is obliged to click.  A request that was sent can
   always be served, and the budget of an authorized run always runs out, so
   their weak fairness is written out, state against step. *)
Fairness ==
  /\ \/ []<>(\A c \in calls : c.stage # "sent")
     \/ []<><<\E c \in calls : Serve(c)>>_vars
  /\ \A r \in Runs : \/ []<>(runs[r].state # "AUTHORIZED")
                     \/ []<><<TimeOut(r)>>_vars
  /\ WF_vars(\E c \in calls : Receive(c))

FairSpec == Spec /\ Fairness

-----------------------------------------------------------------------------
(* Correctness.                                                             *)

(* The run r is at rest as far as the tab goes: it has no request on it, and
   was told of everything. *)
UpToDate(r) == r \notin behind /\ \A c \in calls : c.run # r

(* Without polling, and without reading the list of runs, the tab shows every
   run of the server as it is, unless somebody else has touched it or an
   answer about it was an error or was lost: no timer and no late effect of
   the tool changes what a view shows once it has arrived. *)
KnownOrBehind ==
  \A r \in Created : UpToDate(r) => shown[r] = View(runs[r])

(* An action offered by a view is refused only if the run has changed behind
   the tab's back: availableActions agrees with the handlers' own guards. *)
OfferedIsAccepted == \A c \in calls : c.answer = "400" => c.run \in behind

(* What a view says cannot happen has not happened and does not, even if the
   view is old; only "no capability exists yet" is about the moment. *)
ShownClaimsHold ==
  \A r \in Shown :
    shown[r].state # "APPROVAL_REQUIRED" \/ UpToDate(r)
      => CannotHappen(shown[r].state, runs[r])

(* The panels do not promise more than there is: a postcondition is shown as
   passed only of what the tool has performed, an unknown outcome as unknown,
   and a failed precondition exactly for a stale run. *)
PanelsDoNotOverstate ==
  \A r \in Shown :
    /\ Postcondition(shown[r]) = "passed" => runs[r].tool = "performed"
    /\ shown[r].state = "UNKNOWN_OUTCOME" => Postcondition(shown[r]) = "unknown"
    /\ Precondition(shown[r]) = "failed" <=> shown[r].state = "STALE"

(* An answer never overwrites a view with an older one, because the tab has
   one request on its way at a time (withBusy and the disabled buttons). *)
ViewsNeverGoBack ==
  [][\A r \in Shown : /\ IsPrefix(shown[r].ledger, shown'[r].ledger)
                      /\ shown[r].versionNow <= shown'[r].versionNow]_vars

(* Whatever the server answers and whether the answer arrives, the buttons
   come back. *)
BusyEnds == busy ~> ~ busy

-----------------------------------------------------------------------------
(* What the client says of itself and does not do.                          *)

(* state-copy.ts: a run shown as VERIFIED has had its postcondition confirmed
   (so the panel next to the badge says so too). *)
VerifiedPanelAgrees ==
  \A r \in Shown : shown[r].state = "VERIFIED" => Postcondition(shown[r]) = "passed"

=============================================================================
