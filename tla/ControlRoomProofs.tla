--------------------------- MODULE ControlRoomProofs ---------------------------
(***************************************************************************)
(* Theorems of ControlRoom, for any number of runs and requests.  What is  *)
(* known of the server is what RunOrchestratorProofs proves of it.         *)
(***************************************************************************)
EXTENDS ControlRoom, TLAPS

Orchestrator == INSTANCE RunOrchestratorProofs

-----------------------------------------------------------------------------
(* The theorems are about the same server: definition by definition, the    *)
(* two instances say the same.                                              *)

LEMMA SameTypes ==
  /\ Server!Scenarios = Orchestrator!Scenarios
  /\ Server!ApprovalScenarios = Orchestrator!ApprovalScenarios
  /\ Server!Results = Orchestrator!Results
  /\ Server!RunStates = Orchestrator!RunStates
  /\ Server!AuditEventTypes = Orchestrator!AuditEventTypes
  /\ Server!NotCreated = Orchestrator!NotCreated
  /\ Server!TypeOK <=> Orchestrator!TypeOK
  /\ Server!Init <=> Orchestrator!Init
<1>1. /\ Server!Scenarios = Orchestrator!Scenarios
      /\ Server!ApprovalScenarios = Orchestrator!ApprovalScenarios
      /\ Server!Results = Orchestrator!Results
      /\ Server!RunStates = Orchestrator!RunStates
      /\ Server!AuditEventTypes = Orchestrator!AuditEventTypes
      /\ Server!NotCreated = Orchestrator!NotCreated
  BY DEF Server!Scenarios, Orchestrator!Scenarios,
         Server!ApprovalScenarios, Orchestrator!ApprovalScenarios,
         Server!Results, Orchestrator!Results, Server!RunStates, Orchestrator!RunStates,
         Server!AuditEventTypes, Orchestrator!AuditEventTypes,
         Server!NotCreated, Orchestrator!NotCreated
<1>2. Server!RunRecord = Orchestrator!RunRecord
  BY <1>1 DEF Server!RunRecord, Orchestrator!RunRecord
<1> QED
  BY <1>1, <1>2 DEF Server!TypeOK, Orchestrator!TypeOK, Server!Init, Orchestrator!Init

LEMMA SameExecution ==
  /\ \A state, trigger :
       Server!MustTransition(state, trigger) = Orchestrator!MustTransition(state, trigger)
  /\ \A run, result : Server!Concluded(run, result) = Orchestrator!Concluded(run, result)
  /\ \A run : Server!Execute(run) = Orchestrator!Execute(run)
  /\ \A run : Server!AuthorizeAndExecute(run) = Orchestrator!AuthorizeAndExecute(run)
<1>1. \A state, trigger :
        Server!MustTransition(state, trigger) = Orchestrator!MustTransition(state, trigger)
  BY DEF Server!MustTransition, Orchestrator!MustTransition,
         Server!Transition, Orchestrator!Transition, Server!TargetsOf, Orchestrator!TargetsOf,
         Server!TransitionTable, Orchestrator!TransitionTable,
         Server!Illegal, Orchestrator!Illegal
<1>2. \A state, result : Server!StateAfter(state, result) = Orchestrator!StateAfter(state, result)
  BY <1>1 DEF Server!StateAfter, Orchestrator!StateAfter, Server!Executed, Orchestrator!Executed
<1>3. \A run, result : Server!Concluded(run, result) = Orchestrator!Concluded(run, result)
  BY <1>2 DEF Server!Concluded, Orchestrator!Concluded, Server!Illegal, Orchestrator!Illegal
<1>4. \A run : Server!Reconciled(run) = Orchestrator!Reconciled(run)
  BY <1>3 DEF Server!Reconciled, Orchestrator!Reconciled, Server!Logged, Orchestrator!Logged
<1>5. \A run : Server!Started(run) = Orchestrator!Started(run)
  BY <1>3 DEF Server!Started, Orchestrator!Started, Server!Logged, Orchestrator!Logged,
              Server!MessageSent, Orchestrator!MessageSent,
              Server!TicketRequested, Orchestrator!TicketRequested
<1>6. \A run : Server!Dispatched(run) = Orchestrator!Dispatched(run)
  BY <1>3, <1>4, <1>5 DEF Server!Dispatched, Orchestrator!Dispatched,
                          Server!Logged, Orchestrator!Logged
<1>7. \A run : Server!Execute(run) = Orchestrator!Execute(run)
  BY <1>3, <1>6 DEF Server!Execute, Orchestrator!Execute, Server!Logged, Orchestrator!Logged,
                    Server!Expired, Orchestrator!Expired
<1>8. \A run : Server!AuthorizeAndExecute(run) = Orchestrator!AuthorizeAndExecute(run)
  BY <1>7 DEF Server!AuthorizeAndExecute, Orchestrator!AuthorizeAndExecute,
              Server!Logged, Orchestrator!Logged
<1> QED
  BY <1>1, <1>3, <1>7, <1>8

LEMMA SameRequests ==
  ASSUME NEW r \in Runs
  PROVE  /\ Server!SimulateDrift(r) <=> Orchestrator!SimulateDrift(r)
         /\ Server!ApproveRun(r) <=> Orchestrator!ApproveRun(r)
         /\ Server!ReplayRun(r) <=> Orchestrator!ReplayRun(r)
         /\ Server!ReconcileRun(r) <=> Orchestrator!ReconcileRun(r)
         /\ Server!VerifyRunLedger(r) <=> Orchestrator!VerifyRunLedger(r)
         /\ Server!CreateDenied(r) <=> Orchestrator!CreateDenied(r)
         /\ \A scenario :
              Server!CreateForApproval(r, scenario) <=> Orchestrator!CreateForApproval(r, scenario)
         /\ Server!CreateAllowed(r) <=> Orchestrator!CreateAllowed(r)
<1>1. \A states : Server!Accepts(r, states) <=> Orchestrator!Accepts(r, states)
  BY DEF Server!Accepts, Orchestrator!Accepts
<1>2. \A run : Server!Update(r, run) <=> Orchestrator!Update(r, run)
  BY DEF Server!Update, Orchestrator!Update
<1>3. \A run, events : Server!Logged(run, events) = Orchestrator!Logged(run, events)
  BY DEF Server!Logged, Orchestrator!Logged
<1>4. \A scenario, verdict : Server!Proposed(scenario, verdict) = Orchestrator!Proposed(scenario, verdict)
  BY <1>3, SameTypes, SameExecution DEF Server!Proposed, Orchestrator!Proposed
<1>5. Server!SimulateDrift(r) <=> Orchestrator!SimulateDrift(r)
  BY <1>1, <1>2 DEF Server!SimulateDrift, Orchestrator!SimulateDrift
<1>6. Server!ApproveRun(r) <=> Orchestrator!ApproveRun(r)
  BY <1>1, <1>2, <1>3, SameExecution DEF Server!ApproveRun, Orchestrator!ApproveRun
<1>7. /\ Server!ReplayRun(r) <=> Orchestrator!ReplayRun(r)
      /\ Server!ReconcileRun(r) <=> Orchestrator!ReconcileRun(r)
  BY <1>1, <1>2, SameExecution DEF Server!ReplayRun, Orchestrator!ReplayRun,
                                   Server!ReconcileRun, Orchestrator!ReconcileRun
<1>8. Server!VerifyRunLedger(r) <=> Orchestrator!VerifyRunLedger(r)
  BY <1>1, <1>2, <1>3, SameTypes DEF Server!VerifyRunLedger, Orchestrator!VerifyRunLedger
<1>9. /\ Server!CreateDenied(r) <=> Orchestrator!CreateDenied(r)
      /\ \A scenario :
           Server!CreateForApproval(r, scenario) <=> Orchestrator!CreateForApproval(r, scenario)
      /\ Server!CreateAllowed(r) <=> Orchestrator!CreateAllowed(r)
  BY <1>2, <1>4, SameExecution DEF Server!CreateDenied, Orchestrator!CreateDenied,
       Server!CreateForApproval, Orchestrator!CreateForApproval,
       Server!CreateAllowed, Orchestrator!CreateAllowed
<1> QED
  BY <1>5, <1>6, <1>7, <1>8, <1>9

LEMMA SameTimers ==
  /\ Server!Tick <=> Orchestrator!Tick
  /\ \A r \in Runs :
       /\ Server!TimeOut(r) <=> Orchestrator!TimeOut(r)
       /\ Server!SlowToolPerforms(r) <=> Orchestrator!SlowToolPerforms(r)
       /\ Server!SlowToolThrows(r) <=> Orchestrator!SlowToolThrows(r)
BY SameExecution
   DEF Server!Tick, Orchestrator!Tick, Server!TimeOut, Orchestrator!TimeOut,
       Server!SlowToolPerforms, Orchestrator!SlowToolPerforms,
       Server!SlowToolThrows, Orchestrator!SlowToolThrows,
       Server!Update, Orchestrator!Update, Server!Logged, Orchestrator!Logged,
       Server!Expired, Orchestrator!Expired

-----------------------------------------------------------------------------
(* What the server does to a run, in one step.                              *)

(* The server's own invariant. *)
RunsInv == Orchestrator!RunsInv

LEMMA ServerStep ==
  ASSUME RunsInv, Orchestrator!Next \/ UNCHANGED serverVars
  PROVE  RunsInv'
<1>1. Orchestrator!RunsInv /\ [Orchestrator!Next]_(Orchestrator!vars) => Orchestrator!RunsInv'
  BY ControlRoomAssumption, Orchestrator!NextRunsInv DEF Orchestrator!NextRunsInv
<1> QED
  BY <1>1 DEF RunsInv, serverVars, Orchestrator!vars

(* A run that goes on from where it was. *)
GoesOn(r) ==
  /\ now' = now /\ runs' = [runs EXCEPT ![r] = runs'[r]]
  /\ runs[r].scenario # "none"
  /\ Orchestrator!Since(runs[r], runs'[r])

LEMMA HandlerServed ==
  ASSUME RunsInv, NEW r \in Runs, NEW action, Handler(action, r)
  PROVE  GoesOn(r) /\ RunsInv'
<1>1. \/ Orchestrator!SimulateDrift(r) \/ Orchestrator!ApproveRun(r)
      \/ Orchestrator!ReplayRun(r) \/ Orchestrator!ReconcileRun(r)
      \/ Orchestrator!VerifyRunLedger(r)
  BY SameRequests DEF Handler
<1>2. GoesOn(r)
  BY <1>1, ControlRoomAssumption, Orchestrator!RequestsServed
     DEF Orchestrator!RequestsServed, GoesOn, RunsInv
<1>3. Orchestrator!Next
  BY <1>1 DEF Orchestrator!Next
<1> QED
  BY <1>2, <1>3, ServerStep

LEMMA CreateServed ==
  ASSUME RunsInv, NEW r \in Runs,
         \/ Server!CreateDenied(r) \/ Server!CreateAllowed(r)
         \/ \E scenario \in Server!ApprovalScenarios : Server!CreateForApproval(r, scenario)
  PROVE  /\ now' = now /\ runs' = [runs EXCEPT ![r] = runs'[r]]
         /\ runs[r].scenario = "none" /\ runs'[r].scenario # "none"
         /\ runs'[r].tool # "sleeping" => Orchestrator!Resting(runs'[r])
         /\ RunsInv'
<1>1. \/ Orchestrator!CreateDenied(r) \/ Orchestrator!CreateAllowed(r)
      \/ \E scenario \in Orchestrator!ApprovalScenarios :
           Orchestrator!CreateForApproval(r, scenario)
  BY SameRequests, SameTypes
<1>2. /\ now' = now /\ runs' = [runs EXCEPT ![r] = runs'[r]]
      /\ runs[r].scenario = "none" /\ runs'[r].scenario # "none"
      /\ runs'[r].tool # "sleeping" => Orchestrator!Resting(runs'[r])
  BY <1>1, ControlRoomAssumption, Orchestrator!CreatesServed
     DEF Orchestrator!CreatesServed, RunsInv
<1>3. Orchestrator!Next
  BY <1>1 DEF Orchestrator!Next
<1> QED
  BY <1>2, <1>3, ServerStep

LEMMA TimeOutServed ==
  ASSUME RunsInv, NEW r \in Runs, Server!TimeOut(r)
  PROVE  /\ GoesOn(r) /\ RunsInv'
         /\ ~ Orchestrator!Resting(runs[r]) /\ Orchestrator!Resting(runs'[r])
         /\ runs'[r].answer = "200"
<1>1. Orchestrator!TimeOut(r)
  BY SameTimers
<1>2. /\ GoesOn(r)
      /\ ~ Orchestrator!Resting(runs[r]) /\ Orchestrator!Resting(runs'[r])
      /\ runs'[r].answer = "200"
  BY <1>1, ControlRoomAssumption, Orchestrator!TimeOutServed
     DEF Orchestrator!TimeOutServed, GoesOn, RunsInv
<1>3. Orchestrator!Next
  BY <1>1 DEF Orchestrator!Next
<1> QED
  BY <1>2, <1>3, ServerStep

(* What happens by itself is not seen. *)
LEMMA TimeServed ==
  ASSUME RunsInv, Time
  PROVE  /\ RunsInv'
         /\ \/ runs' = runs
            \/ \E r \in Runs : /\ GoesOn(r) /\ View(runs'[r]) = View(runs[r])
                               /\ Orchestrator!Resting(runs[r])
<1>1. CASE Server!Tick
  <2>1. runs' = runs /\ Orchestrator!Next
    BY <1>1, SameTimers DEF Orchestrator!Next, Orchestrator!Tick
  <2> QED
    BY <2>1, ServerStep
<1>2. ASSUME NEW r \in Runs, Server!SlowToolPerforms(r) \/ Server!SlowToolThrows(r)
      PROVE  /\ RunsInv' /\ GoesOn(r) /\ View(runs'[r]) = View(runs[r])
             /\ Orchestrator!Resting(runs[r])
  <2>1. Orchestrator!SlowToolPerforms(r) \/ Orchestrator!SlowToolThrows(r)
    BY <1>2, SameTimers
  <2>2. /\ now' = now /\ runs' = [runs EXCEPT ![r] = runs'[r]]
        /\ runs[r].scenario # "none"
        /\ \E tool : runs'[r] = [runs[r] EXCEPT !.tool = tool]
        /\ Orchestrator!Since(runs[r], runs'[r]) /\ Orchestrator!Resting(runs[r])
    BY <2>1, ControlRoomAssumption, Orchestrator!SlowToolServed
       DEF Orchestrator!SlowToolServed, RunsInv
  <2>3. ASSUME NEW run \in Orchestrator!RunRecord, NEW tool
        PROVE  View([run EXCEPT !.tool = tool]) = View(run)
    BY DEF View, Offered, Actions, Orchestrator!RunRecord
  <2>4. runs[r] \in Orchestrator!RunRecord
    BY DEF RunsInv, Orchestrator!RunsInv, Orchestrator!TypeOK
  <2>5. View(runs'[r]) = View(runs[r])
    BY <2>2, <2>3, <2>4
  <2>6. Orchestrator!Next
    BY <2>1 DEF Orchestrator!Next
  <2> QED
    BY <2>2, <2>5, <2>6, ServerStep DEF GoesOn
<1> QED
  BY <1>1, <1>2 DEF Time

-----------------------------------------------------------------------------
(* Views, and what they are of.                                             *)

(* The view is of the run, at rest, as it is or was. *)
Dated(view, run) ==
  /\ Orchestrator!Resting(run)
  /\ \E past \in Orchestrator!RunRecord :
       Orchestrator!Resting(past) /\ view = View(past) /\ Orchestrator!Since(past, run)

Newer(view, old) ==
  old.versionNow <= view.versionNow /\ Orchestrator!Extends(view.ledger, old.ledger)

LEMMA ViewsAreViews ==
  ASSUME NEW run \in Orchestrator!RunRecord, run.scenario # "none"
  PROVE  View(run) \in Views
<1>1. run.versionNow \in Nat
  BY ControlRoomAssumption DEF Orchestrator!RunRecord
<1>2. run.scenario \in Server!Scenarios
  BY SameTypes DEF Orchestrator!RunRecord
<1> QED
  BY <1>1, <1>2, SameTypes DEF View, Views, Orchestrator!RunRecord

LEMMA RestIsDated ==
  ASSUME NEW run \in Orchestrator!RunRecord, Orchestrator!Resting(run)
  PROVE  Dated(View(run), run)
<1>1. Orchestrator!Since(run, run)
  BY ControlRoomAssumption, Orchestrator!SinceItself DEF Orchestrator!SinceItself
<1> QED
  BY <1>1 DEF Dated

LEMMA DatedIsView ==
  ASSUME NEW view, NEW run, Dated(view, run)
  PROVE  view \in Views /\ view # None
<1>1. PICK past \in Orchestrator!RunRecord : Orchestrator!Resting(past) /\ view = View(past)
  BY DEF Dated
<1>2. past.scenario # "none"
  BY <1>1, ControlRoomAssumption, Orchestrator!SeenAtRest DEF Orchestrator!SeenAtRest
<1> QED
  BY <1>1, <1>2, ViewsAreViews, NoneIsNoView

LEMMA DatedGoesOn ==
  ASSUME NEW run \in Orchestrator!RunRecord, NEW next \in Orchestrator!RunRecord,
         Orchestrator!Situated(next), Orchestrator!Since(run, next),
         NEW view, Dated(view, run)
  PROVE  Dated(view, next)
<1>1. PICK past \in Orchestrator!RunRecord :
        Orchestrator!Resting(past) /\ view = View(past) /\ Orchestrator!Since(past, run)
  BY DEF Dated
<1>2. Orchestrator!Since(past, next)
  BY <1>1, ControlRoomAssumption, Orchestrator!SinceLonger DEF Orchestrator!SinceLonger
<1>3. Orchestrator!Resting(next)
  BY ControlRoomAssumption, Orchestrator!RestingStays DEF Orchestrator!RestingStays, Dated
<1> QED
  BY <1>1, <1>2, <1>3 DEF Dated

LEMMA NowIsNewer ==
  ASSUME NEW run, NEW old, Dated(old, run)
  PROVE  Newer(View(run), old)
BY DEF Dated, Newer, View, Orchestrator!Since

-----------------------------------------------------------------------------
(* The inductive invariant.  What the tab knows of a run is split over its  *)
(* view of it, the one call it may have under way, and the runs it is       *)
(* behind on; the parts say how these go together.                          *)

(* withBusy and the disabled buttons. *)
OneCall == (calls # {} => busy) /\ \A c, d \in calls : c = d

ShownAreDated == \A r \in Shown : r \in Created /\ Dated(shown[r], runs[r])

CallOf(action, run, stage, answer, view) ==
  [action |-> action, run |-> run, stage |-> stage, answer |-> answer, view |-> view]

IsStart(c) == \E scenario \in Server!Scenarios : c = Sent(scenario, None)
IsAct(c) == \E r \in Shown : \E action \in shown[r].actions : c = Sent(action, r)
IsGet(c) == \E r \in Shown : c = Sent("get", r)
IsPending(c) ==
  \E r \in Created : \E scenario \in Server!Scenarios :
    c = CallOf(scenario, r, "pending", "none", None)

(* An answer with a view is about to replace an older one, or none. *)
HasView(c) ==
  \E r \in Created, view \in Views :
    /\ c.action \in Server!Scenarios \cup Actions \cup {"get"}
    /\ c = CallOf(c.action, r, "answered", "200", view)
    /\ Dated(view, runs[r])
    /\ r \in Shown => Newer(view, shown[r])
    /\ r \notin behind => view = View(runs[r])

(* A refusal is due to what the tab has not seen. *)
HasNoView(c) ==
  \E r \in Shown : \E action \in Actions, status \in {"none", "200", "400", "500"} :
    /\ c = CallOf(action, r, "answered", status, None)
    /\ status = "400" => r \in behind

CallsAreSane ==
  \A c \in calls :
    IsStart(c) \/ IsAct(c) \/ IsGet(c) \/ IsPending(c) \/ HasView(c) \/ HasNoView(c)

(* The tab is about to learn of the run, or to ask. *)
Underway(r) == \E c \in calls : c.run = r /\ (c.stage # "sent" \/ c.action = "get")
Pending(r) == \E c \in calls : c.run = r /\ c.stage = "pending"

AllIsKnown ==
  \A r \in Created \ behind :
    /\ shown[r] = View(runs[r]) \/ Underway(r)
    /\ Orchestrator!Resting(runs[r]) \/ Pending(r)

TabTypes ==
  /\ shown \in [Runs -> Views \cup {None}]
  /\ selected \in Shown \cup {None}
  /\ busy \in BOOLEAN /\ error \in BOOLEAN
  /\ requests \in 0..MaxRequests
  /\ behind \subseteq Created

TabInv ==
  /\ RunsInv /\ TabTypes
  /\ OneCall /\ ShownAreDated /\ CallsAreSane /\ AllIsKnown

-----------------------------------------------------------------------------
(* Calls, field by field.                                                   *)

LEMMA SentFields ==
  ASSUME NEW action, NEW run
  PROVE  Sent(action, run) = CallOf(action, run, "sent", "none", None)
BY DEF Sent, CallOf

LEMMA PendingFields ==
  ASSUME NEW action, NEW r
  PROVE  [Sent(action, None) EXCEPT !.run = r, !.stage = "pending"] =
           CallOf(action, r, "pending", "none", None)
<1> DEFINE one == [Sent(action, None) EXCEPT !.run = r]
           two == [one EXCEPT !.stage = "pending"]
<1>1. [Sent(action, None) EXCEPT !.run = r, !.stage = "pending"] = two
  OBVIOUS
<1>2. one = CallOf(action, r, "sent", "none", None)
  BY DEF CallOf, Sent
<1> HIDE DEF one
<1>3. two = CallOf(action, r, "pending", "none", None)
  BY <1>2 DEF CallOf
<1> QED
  BY <1>1, <1>3

LEMMA AnswerFields ==
  ASSUME NEW action, NEW run, NEW stage, NEW c, c = CallOf(action, run, stage, "none", None)
  PROVE  /\ \A status : Without(c, status) = CallOf(action, run, "answered", status, None)
         /\ \A r, x : WithView(c, r, x) = CallOf(action, r, "answered", "200", View(x))
<1>1. ASSUME NEW status
      PROVE  Without(c, status) = CallOf(action, run, "answered", status, None)
  <2> DEFINE one == [c EXCEPT !.stage = "answered"]
  <2>1. Without(c, status) = [one EXCEPT !.answer = status]
    BY DEF Without
  <2>2. one = CallOf(action, run, "answered", "none", None)
    BY DEF CallOf
  <2> HIDE DEF one
  <2>3. [one EXCEPT !.answer = status] = CallOf(action, run, "answered", status, None)
    BY <2>2 DEF CallOf
  <2> QED
    BY <2>1, <2>3
<1>2. ASSUME NEW r, NEW x
      PROVE  WithView(c, r, x) = CallOf(action, r, "answered", "200", View(x))
  <2> DEFINE seen == View(x)
  <2>1. WithView(c, r, x) = [c EXCEPT !.run = r, !.stage = "answered", !.answer = "200", !.view = seen]
    BY DEF WithView
  <2> HIDE DEF seen
  <2>2. WithView(c, r, x) = CallOf(action, r, "answered", "200", seen)
    BY <2>1 DEF CallOf
  <2> QED
    BY <2>2 DEF seen
<1> QED
  BY <1>1, <1>2

LEMMA CallTyped ==
  ASSUME NEW action \in Server!Scenarios \cup Actions \cup {"get"}, NEW run \in Runs \cup {None},
         NEW stage \in {"sent", "pending", "answered"}, NEW answer \in {"none", "200", "400", "500"},
         NEW view \in Views \cup {None}
  PROVE  CallOf(action, run, stage, answer, view) \in Call
BY DEF CallOf, Call

(* Scenarios, actions and the get are told apart by their names. *)
LEMMA ActionNames ==
  /\ Server!Scenarios \cap Actions = {} /\ "get" \notin Server!Scenarios \cup Actions
  /\ "unknown_outcome" \in Server!Scenarios /\ "blocked" \in Server!Scenarios
  /\ Server!ApprovalScenarios \subseteq Server!Scenarios
  /\ "blocked" \notin Server!ApprovalScenarios /\ "unknown_outcome" \notin Server!ApprovalScenarios
BY DEF Server!Scenarios, Server!ApprovalScenarios, Actions

LEMMA OnlyCall ==
  ASSUME OneCall, NEW c \in calls
  PROVE  calls = {c} /\ busy /\ \A d : Becomes(c, d) => calls' = {d}
BY DEF OneCall, Becomes

LEMMA ShownViews ==
  ASSUME TabTypes, NEW r \in Shown
  PROVE  r \in Runs /\ shown[r] \in Views /\ shown[r].actions \subseteq Actions
BY DEF TabTypes, Shown, Views

LEMMA TabIsTyped == TabInv => TypeOK
<1> SUFFICES ASSUME TabInv PROVE TypeOK
  OBVIOUS
<1>1. Server!TypeOK
  BY SameTypes DEF TabInv, RunsInv, Orchestrator!RunsInv
<1>2. ASSUME NEW c \in calls PROVE c \in Call
  <2>1. CASE IsStart(c)
    BY <2>1, SentFields, CallTyped DEF IsStart
  <2>2. CASE IsAct(c)
    BY <2>2, SentFields, CallTyped, ShownViews DEF IsAct, TabInv
  <2>3. CASE IsGet(c)
    BY <2>3, SentFields, CallTyped, ShownViews DEF IsGet, TabInv
  <2>4. CASE IsPending(c)
    BY <2>4, CallTyped, ActionNames DEF IsPending, Created
  <2>5. CASE HasView(c)
    <3>1. PICK r \in Created, view \in Views :
            /\ c.action \in Server!Scenarios \cup Actions \cup {"get"}
            /\ c = CallOf(c.action, r, "answered", "200", view)
      BY <2>5 DEF HasView
    <3>2. r \in Runs
      BY DEF Created
    <3> QED
      BY <3>1, <3>2, CallTyped
  <2>6. CASE HasNoView(c)
    <3>1. PICK r \in Shown, action \in Actions, status \in {"none", "200", "400", "500"} :
            c = CallOf(action, r, "answered", status, None)
      BY <2>6 DEF HasNoView
    <3>2. r \in Runs
      BY DEF Shown
    <3> QED
      BY <3>1, <3>2, CallTyped
  <2> QED
    BY <2>1, <2>2, <2>3, <2>4, <2>5, <2>6 DEF TabInv, CallsAreSane
<1> QED
  BY <1>1, <1>2 DEF TypeOK, TabInv, TabTypes

-----------------------------------------------------------------------------
(* What the invariant says of the properties.                               *)

LEMMA KnownFollows == TabInv => KnownOrBehind
BY DEF TabInv, AllIsKnown, KnownOrBehind, UpToDate, Underway

LEMMA AcceptedFollows == TabInv => OfferedIsAccepted
<1> SUFFICES ASSUME TabInv, NEW c \in calls, c.answer = "400" PROVE c.run \in behind
  BY DEF OfferedIsAccepted
<1>1. ~ IsStart(c) /\ ~ IsAct(c) /\ ~ IsGet(c)
  BY DEF IsStart, IsAct, IsGet, Sent
<1>2. ~ IsPending(c) /\ ~ HasView(c)
  BY DEF IsPending, HasView, CallOf
<1>3. HasNoView(c)
  BY <1>1, <1>2 DEF TabInv, CallsAreSane
<1> QED
  BY <1>3 DEF HasNoView, CallOf

LEMMA ClaimsFollow == TabInv => ShownClaimsHold
<1> SUFFICES ASSUME TabInv, NEW r \in Shown,
                    shown[r].state # "APPROVAL_REQUIRED" \/ UpToDate(r)
             PROVE  CannotHappen(shown[r].state, runs[r])
  BY DEF ShownClaimsHold
<1> DEFINE run == runs[r]
<1>1. r \in Created /\ Orchestrator!Resting(run)
  BY DEF TabInv, ShownAreDated, Dated
<1>2. PICK past \in Orchestrator!RunRecord :
        Orchestrator!Resting(past) /\ shown[r] = View(past) /\ Orchestrator!Since(past, run)
  BY DEF TabInv, ShownAreDated, Dated
<1>3. past.state \in {"DENIED", "APPROVAL_REQUIRED", "STALE", "VERIFIED",
                      "UNKNOWN_OUTCOME", "RECONCILIATION_REQUIRED"}
  BY <1>2, ControlRoomAssumption, Orchestrator!SeenAtRest DEF Orchestrator!SeenAtRest
<1>4. /\ past.state = "DENIED" => run.capability = "none" /\ run.callCount = 0
      /\ past.state = "STALE" => run.callCount = 0
      /\ past.state = "VERIFIED" => run.tool = "performed"
      /\ past.state \in {"UNKNOWN_OUTCOME", "RECONCILIATION_REQUIRED"} =>
           /\ run.callCount = 1 /\ run.outcome # "failed"
           /\ run.outcome = "succeeded" => run.tool = "performed"
  BY <1>1, <1>2, ControlRoomAssumption, Orchestrator!WhatLasts
     DEF Orchestrator!WhatLasts, Orchestrator!Happened
<1>5. shown[r].state = past.state
  BY <1>2 DEF View
<1>6. ASSUME past.state = "APPROVAL_REQUIRED"
      PROVE  run.capability = "none" /\ run.callCount = 0
  <2>1. shown[r] = View(run)
    BY <1>1, <1>5, <1>6, KnownFollows DEF KnownOrBehind
  <2>2. run.state = "APPROVAL_REQUIRED"
    BY <1>5, <1>6, <2>1 DEF View
  <2> QED
    BY <1>1, <2>2 DEF Orchestrator!Resting, Orchestrator!Situated, Orchestrator!IsDecided,
         Orchestrator!IsStale, Orchestrator!IsVerified, Orchestrator!IsUnknown,
         Orchestrator!IsOverdue
<1> HIDE DEF run
<1> QED
  BY <1>3, <1>4, <1>5, <1>6 DEF CannotHappen, run

LEMMA PanelsFollow == TabInv => PanelsDoNotOverstate
<1> SUFFICES ASSUME TabInv, NEW r \in Shown
             PROVE  /\ Postcondition(shown[r]) = "passed" => runs[r].tool = "performed"
                    /\ shown[r].state = "UNKNOWN_OUTCOME" => Postcondition(shown[r]) = "unknown"
                    /\ Precondition(shown[r]) = "failed" <=> shown[r].state = "STALE"
  BY DEF PanelsDoNotOverstate
<1>1. PICK past \in Orchestrator!RunRecord :
        Orchestrator!Resting(past) /\ shown[r] = View(past) /\ Orchestrator!Since(past, runs[r])
  BY DEF TabInv, ShownAreDated, Dated
<1>2. /\ past.state = "UNKNOWN_OUTCOME" => past.execution \in {"unknown_outcome", "capability"}
      /\ past.state = "STALE" <=> past.execution = "precondition"
      /\ past.execution \in {"success", "IDEMPOTENT_REPLAY", "RECONCILED_SUCCESS"} =>
           Orchestrator!Happened(past)
  BY <1>1, ControlRoomAssumption, Orchestrator!SeenAtRest DEF Orchestrator!SeenAtRest
<1>3. Orchestrator!Happened(past) => runs[r].tool = "performed"
  BY <1>1 DEF Orchestrator!Since, Orchestrator!Happened
<1>4. shown[r].state = past.state /\ shown[r].execution = past.execution
  BY <1>1 DEF View
<1> QED
  BY <1>2, <1>3, <1>4 DEF Postcondition, Precondition

-----------------------------------------------------------------------------
(* Steps.                                                                   *)

LEMMA InitTabInv == Init => TabInv
<1> SUFFICES ASSUME Init PROVE TabInv
  OBVIOUS
<1>1. RunsInv
  <2>1. Orchestrator!Init
    BY SameTypes DEF Init
  <2> QED
    BY <2>1, ControlRoomAssumption, Orchestrator!InitRunsInv DEF Orchestrator!InitRunsInv, RunsInv
<1>2. Shown = {} /\ Created = {}
  BY DEF Init, Shown, Created, Server!Init, Server!NotCreated
<1>3. TabTypes
  <2>1. 0 \in 0..MaxRequests
    BY ControlRoomAssumption
  <2>2. shown \in [Runs -> Views \cup {None}]
    BY DEF Init
  <2> QED
    BY <1>2, <2>1, <2>2 DEF Init, TabTypes
<1> QED
  BY <1>1, <1>2, <1>3
     DEF Init, TabInv, OneCall, ShownAreDated, CallsAreSane, AllIsKnown

(* A step of the tab on its own leaves the server and what is known of it. *)
LEMMA TabMoves ==
  ASSUME TabInv, UNCHANGED <<serverVars, shown>>
  PROVE  RunsInv' /\ ShownAreDated' /\ Created' = Created /\ Shown' = Shown
BY ServerStep DEF TabInv, ShownAreDated, Created, Shown, serverVars

LEMMA SelectStep ==
  ASSUME TabInv, NEW r \in Runs, Select(r)
  PROVE  TabInv'
<1>1. RunsInv' /\ ShownAreDated' /\ Created' = Created /\ Shown' = Shown
  BY TabMoves DEF Select
<1>2. TabTypes' /\ OneCall'
  BY <1>1 DEF TabInv, TabTypes, OneCall, Select
<1>3. CallsAreSane'
  BY <1>1 DEF TabInv, Select, serverVars, CallsAreSane, IsStart, IsAct, IsGet, IsPending,
              HasView, HasNoView
<1>4. AllIsKnown'
  BY <1>1 DEF TabInv, Select, serverVars, AllIsKnown, Underway, Pending
<1> QED
  BY <1>1, <1>2, <1>3, <1>4 DEF TabInv

(* A click: nothing was under way, so all is known. *)
LEMMA SendStep ==
  ASSUME TabInv, Clickable, NEW action, NEW r, Send(action, r),
         \/ action \in Server!Scenarios /\ r = None
         \/ r \in Shown /\ action \in shown[r].actions
  PROVE  TabInv'
<1>1. RunsInv' /\ ShownAreDated' /\ Created' = Created /\ Shown' = Shown
  BY TabMoves DEF Send
<1>2. calls = {} /\ calls' = {Sent(action, r)}
  BY DEF TabInv, OneCall, Clickable, Send
<1>3. TabTypes' /\ OneCall'
  <2>1. requests' \in 0..MaxRequests
    BY ControlRoomAssumption DEF TabInv, TabTypes, Send
  <2>2. TabTypes'
    BY <1>1, <2>1 DEF TabInv, TabTypes, Send
  <2> QED
    BY <1>2, <2>2 DEF OneCall, Send
<1>4. CallsAreSane'
  <2>1. IsStart(Sent(action, r))' \/ IsAct(Sent(action, r))'
    BY <1>1 DEF IsStart, IsAct, Send
  <2> QED
    BY <1>2, <2>1 DEF CallsAreSane
<1>5. AllIsKnown'
  BY <1>1, <1>2 DEF TabInv, Send, serverVars, AllIsKnown, Underway, Pending
<1> QED
  BY <1>1, <1>3, <1>4, <1>5 DEF TabInv

(* A call's stage, action and view tell which of the six it is. *)
LEMMA CallForms ==
  ASSUME TabInv, NEW c \in calls
  PROVE  /\ c.stage = "sent" /\ c.action \in Server!Scenarios => IsStart(c)
         /\ c.stage = "sent" /\ c.action \in Actions => IsAct(c)
         /\ c.stage = "sent" /\ c.action = "get" => IsGet(c)
         /\ c.stage = "pending" => IsPending(c)
         /\ c.stage = "answered" /\ c.view # None => HasView(c)
         /\ c.stage = "answered" /\ c.view = None => HasNoView(c)
         /\ c.stage # "sent" \/ c.action = "get" => c.run \in Created
<1>0. Shown \subseteq Created
  BY DEF TabInv, ShownAreDated
<1>1. CASE IsStart(c)
  <2>1. c.stage = "sent" /\ c.action \in Server!Scenarios
    BY <1>1 DEF IsStart, Sent
  <2> QED
    BY <1>1, <2>1, ActionNames
<1>2. CASE IsAct(c)
  <2>1. c.stage = "sent" /\ c.action \in Actions
    <3>1. PICK r \in Shown : \E action \in shown[r].actions : c = Sent(action, r)
      BY <1>2 DEF IsAct
    <3>2. PICK action \in Actions : c = Sent(action, r)
      BY <3>1, ShownViews DEF TabInv
    <3> QED
      BY <3>2 DEF Sent
  <2> QED
    BY <1>2, <2>1, ActionNames
<1>3. CASE IsGet(c)
  <2>1. c.stage = "sent" /\ c.action = "get" /\ c.run \in Shown
    BY <1>3 DEF IsGet, Sent
  <2> QED
    BY <1>0, <1>3, <2>1, ActionNames
<1>4. CASE IsPending(c)
  <2>1. c.stage = "pending" /\ c.run \in Created
    BY <1>4 DEF IsPending, CallOf
  <2> QED
    BY <1>4, <2>1
<1>5. CASE HasView(c)
  <2>1. c.stage = "answered" /\ c.run \in Created /\ c.view # None
    <3>1. PICK r \in Created, view \in Views :
            c = CallOf(c.action, r, "answered", "200", view) /\ Dated(view, runs[r])
      BY <1>5 DEF HasView
    <3>2. c.stage = "answered" /\ c.run = r /\ c.view = view
      BY <3>1 DEF CallOf
    <3> QED
      BY <3>1, <3>2, DatedIsView
  <2> QED
    BY <1>5, <2>1
<1>6. CASE HasNoView(c)
  <2>1. c.stage = "answered" /\ c.run \in Shown /\ c.view = None
    BY <1>6 DEF HasNoView, CallOf
  <2> QED
    BY <1>0, <1>6, <2>1
<1> QED
  BY <1>1, <1>2, <1>3, <1>4, <1>5, <1>6 DEF TabInv, CallsAreSane

LEMMA NoneIsNoRun == \A r \in Created \cup Shown : r \in Runs /\ r # None
BY ControlRoomAssumption DEF Created, Shown

(* A call that ends without a view leaves the tab behind, if it would have
   told it something. *)
LEMMA FailedStep ==
  ASSUME TabInv, NEW c \in calls, Failed(c),
         behind' \in {behind, behind \cup {c.run}},
         c.stage # "sent" \/ c.action = "get" => c.run \in behind',
         behind' \subseteq Created
  PROVE  TabInv'
<1>1. RunsInv' /\ ShownAreDated' /\ Created' = Created /\ Shown' = Shown
  BY TabMoves DEF Failed
<1>2. calls = {c} /\ calls' = {}
  BY OnlyCall DEF TabInv, Failed
<1>3. TabTypes'
  BY <1>1 DEF TabInv, TabTypes, Failed
<1>4. AllIsKnown'
  <2> SUFFICES ASSUME NEW r \in Created \ behind'
               PROVE  shown[r] = View(runs[r]) /\ Orchestrator!Resting(runs[r])
    BY <1>1 DEF AllIsKnown, Failed, serverVars
  <2>1. r \in Created \ behind /\ ~ Underway(r) /\ ~ Pending(r)
    BY <1>2 DEF Underway, Pending
  <2> QED
    BY <2>1 DEF TabInv, AllIsKnown
<1> QED
  BY <1>1, <1>2, <1>3, <1>4 DEF TabInv, OneCall, CallsAreSane

LEMMA ReceiveErrorStep ==
  ASSUME TabInv, NEW c \in calls, ReceiveError(c)
  PROVE  TabInv'
<1>1. c.run \in Created
  BY CallForms DEF ReceiveError
<1>2. c.answer = "400" => c.run \in behind
  BY AcceptedFollows DEF OfferedIsAccepted
<1> QED
  BY <1>1, <1>2, FailedStep DEF ReceiveError, TabInv, TabTypes

LEMMA LoseStep ==
  ASSUME TabInv, NEW c \in calls, Lose(c)
  PROVE  TabInv'
<1>1. c.stage # "sent" \/ c.action = "get" => c.run \in Created /\ c.run # None
  BY CallForms, NoneIsNoRun
<1> QED
  BY <1>1, FailedStep DEF Lose, TabInv, TabTypes

(* An answer's view replaces the one that is shown. *)
LEMMA ReceiveViewStep ==
  ASSUME TabInv, NEW c \in calls, ReceiveView(c)
  PROVE  /\ TabInv'
         /\ c.run \in Runs /\ shown' = [shown EXCEPT ![c.run] = c.view]
         /\ c.run \in Shown => Newer(c.view, shown[c.run])
         /\ c.view \in Views
<1>1. PICK r \in Created, view \in Views :
        /\ c = CallOf(c.action, r, "answered", "200", view)
        /\ Dated(view, runs[r])
        /\ r \in Shown => Newer(view, shown[r])
        /\ r \notin behind => view = View(runs[r])
  BY CallForms DEF ReceiveView, HasView
<1>2. c.run = r /\ c.view = view /\ r \in Runs /\ view \in Views /\ view # None
  <2>1. c.run = r /\ c.view = view
    BY <1>1 DEF CallOf
  <2> QED
    BY <1>1, <2>1, DatedIsView, NoneIsNoRun
<1>3. /\ shown' = [shown EXCEPT ![r] = view]
      /\ shown \in [Runs -> Views \cup {None}]
      /\ UNCHANGED <<serverVars, error, requests, behind>>
  BY <1>2 DEF ReceiveView, TabInv, TabTypes
<1>4. shown'[r] = view /\ \A s \in Runs \ {r} : shown'[s] = shown[s]
  BY <1>2, <1>3
<1>5. Created' = Created /\ Shown' = Shown \cup {r}
  BY <1>2, <1>3, <1>4 DEF Created, Shown, serverVars
<1>6. RunsInv'
  BY <1>3, ServerStep DEF TabInv
<1>7. calls = {c} /\ calls' = {}
  BY OnlyCall DEF TabInv, ReceiveView
<1>8. TabTypes'
  <2>1. selected' \in Shown' \cup {None}
    BY <1>2, <1>5 DEF ReceiveView, SelectedAfter, TabInv, TabTypes
  <2>2. shown' \in [Runs -> Views \cup {None}]
    BY <1>2, <1>3
  <2> QED
    BY <1>3, <1>5, <2>1, <2>2 DEF ReceiveView, TabInv, TabTypes
<1>9. ShownAreDated'
  <2> SUFFICES ASSUME NEW s \in Shown \cup {r}
               PROVE  s \in Created /\ Dated(shown'[s], runs[s])
    BY <1>3, <1>5 DEF ShownAreDated, serverVars
  <2> QED
    BY <1>1, <1>4, NoneIsNoRun DEF TabInv, ShownAreDated
<1>10. AllIsKnown'
  <2> SUFFICES ASSUME NEW s \in Created \ behind
               PROVE  shown'[s] = View(runs[s]) /\ Orchestrator!Resting(runs[s])
    BY <1>3, <1>5 DEF AllIsKnown, serverVars
  <2>1. CASE s = r
    BY <1>1, <1>4, <2>1 DEF Dated
  <2>2. CASE s # r
    <3>1. ~ Underway(s) /\ ~ Pending(s)
      BY <1>2, <1>7, <2>2 DEF Underway, Pending
    <3> QED
      BY <1>4, <2>2, <3>1, NoneIsNoRun DEF TabInv, AllIsKnown
  <2> QED
    BY <2>1, <2>2
<1> QED
  BY <1>1, <1>2, <1>3, <1>6, <1>7, <1>8, <1>9, <1>10
     DEF TabInv, OneCall, CallsAreSane, ReceiveView

(* The check of a ledger is followed by a get. *)
LEMMA ReceiveResultStep ==
  ASSUME TabInv, NEW c \in calls, ReceiveResult(c)
  PROVE  TabInv'
<1>1. PICK r \in Shown : \E action \in Actions, status \in {"none", "200", "400", "500"} :
        c = CallOf(action, r, "answered", status, None)
  BY CallForms DEF ReceiveResult, HasNoView
<1>2. c.run = r /\ c.stage = "answered"
  BY <1>1 DEF CallOf
<1>3. calls = {c} /\ busy /\ calls' = {Sent("get", r)}
  BY <1>2, OnlyCall DEF TabInv, ReceiveResult, AfterVerify
<1>4. RunsInv' /\ ShownAreDated' /\ Created' = Created /\ Shown' = Shown
  BY TabMoves DEF ReceiveResult, AfterVerify, tabVars
<1>5. TabTypes' /\ OneCall'
  BY <1>3, <1>4 DEF TabInv, TabTypes, OneCall, ReceiveResult, AfterVerify, tabVars
<1>6. CallsAreSane'
  BY <1>3, <1>4 DEF CallsAreSane, IsGet
<1>7. AllIsKnown'
  <2> SUFFICES ASSUME NEW s \in Created \ behind
               PROVE  /\ shown[s] = View(runs[s]) \/ Underway(s)'
                      /\ Orchestrator!Resting(runs[s])
    BY <1>4 DEF AllIsKnown, ReceiveResult, AfterVerify, tabVars, serverVars
  <2>1. CASE s = r
    BY <1>3, <2>1 DEF TabInv, ShownAreDated, Dated, Underway, Sent
  <2>2. CASE s # r
    <3>1. ~ Underway(s) /\ ~ Pending(s)
      BY <1>2, <1>3, <2>2 DEF Underway, Pending
    <3> QED
      BY <3>1 DEF TabInv, AllIsKnown
  <2> QED
    BY <2>1, <2>2
<1> QED
  BY <1>4, <1>5, <1>6, <1>7 DEF TabInv

(* A refusal tells that the run has changed since the tab was told of it:
   availableActions offers what the handlers accept. *)
LEMMA RefuseStep ==
  ASSUME TabInv, NEW c \in calls, Refuse(c)
  PROVE  TabInv'
<1>1. PICK r \in Shown : \E action \in shown[r].actions : c = Sent(action, r)
  BY CallForms DEF Refuse, IsAct
<1>2. PICK action \in Actions : action \in shown[r].actions /\ c = Sent(action, r)
  BY <1>1, ShownViews DEF TabInv
<1>3. c.action = action /\ c.run = r /\ c.stage = "sent"
  BY <1>2 DEF Sent
<1>4. calls = {c} /\ busy /\ calls' = {CallOf(action, r, "answered", "400", None)}
  <2>1. Without(c, "400") = CallOf(action, r, "answered", "400", None)
    <3>1. c = CallOf(action, r, "sent", "none", None)
      BY <1>2, SentFields
    <3> QED
      BY <3>1, AnswerFields
  <2> QED
    BY <2>1, OnlyCall DEF TabInv, Refuse
<1>5. ~ Underway(r) /\ \A s : s # r => ~ Underway(s) /\ ~ Pending(s)
  BY <1>3, <1>4, ActionNames DEF Underway, Pending
<1>6. r \in behind
  <2> SUFFICES ASSUME r \notin behind PROVE FALSE
    OBVIOUS
  <2>1. shown[r] = View(runs[r])
    BY <1>5 DEF TabInv, ShownAreDated, AllIsKnown
  <2>2. Offered(runs[r], action)
    BY <1>2, <2>1 DEF View
  <2>3. runs[r].state \in Server!RunStates
    BY SameTypes, NoneIsNoRun DEF TabInv, RunsInv, Orchestrator!RunsInv, Orchestrator!TypeOK,
                                  Orchestrator!RunRecord
  <2>4. runs[r].state \in Accepted(action)
    BY <2>2, <2>3 DEF Offered, Accepted, Actions
  <2> QED
    BY <1>3, <2>4 DEF Refuse
<1>7. RunsInv' /\ ShownAreDated' /\ Created' = Created /\ Shown' = Shown
  BY TabMoves DEF Refuse, tabVars
<1>8. TabTypes' /\ OneCall'
  BY <1>4, <1>7 DEF TabInv, TabTypes, OneCall, Refuse, tabVars
<1>9. CallsAreSane'
  <2>1. HasNoView(CallOf(action, r, "answered", "400", None))'
    BY <1>6, <1>7 DEF HasNoView, Refuse
  <2> QED
    BY <1>4, <2>1 DEF CallsAreSane
<1>10. AllIsKnown'
  <2> SUFFICES ASSUME NEW s \in Created \ behind
               PROVE  shown[s] = View(runs[s]) /\ Orchestrator!Resting(runs[s])
    BY <1>7 DEF AllIsKnown, Refuse, tabVars, serverVars
  <2> QED
    BY <1>5, <1>6 DEF TabInv, AllIsKnown
<1> QED
  BY <1>7, <1>8, <1>9, <1>10 DEF TabInv

LEMMA GetStep ==
  ASSUME TabInv, NEW c \in calls, Get(c)
  PROVE  TabInv'
<1>1. PICK r \in Shown : c = Sent("get", r)
  BY CallForms DEF Get, IsGet
<1>2. c.run = r /\ c.stage = "sent"
  BY <1>1 DEF Sent
<1> PICK seen : seen = View(runs[r])
  OBVIOUS
<1> PICK d : d = CallOf("get", r, "answered", "200", seen)
  OBVIOUS
<1>3. calls = {c} /\ busy /\ calls' = {d}
  <2>1. WithView(c, r, runs[r]) = d
    <3>1. c = CallOf("get", r, "sent", "none", None)
      BY <1>1, SentFields
    <3> QED
      BY <3>1, AnswerFields
  <2> QED
    BY <1>2, <2>1, OnlyCall DEF TabInv, Get
<1>4. d.action = "get" /\ d.run = r /\ d.stage = "answered"
  BY DEF CallOf
<1>5. RunsInv' /\ ShownAreDated' /\ Created' = Created /\ Shown' = Shown
  BY TabMoves DEF Get, tabVars
<1>6. r \in Created /\ Dated(shown[r], runs[r]) /\ runs[r] \in Orchestrator!RunRecord
  BY NoneIsNoRun DEF TabInv, ShownAreDated, RunsInv, Orchestrator!RunsInv, Orchestrator!TypeOK
<1>7. Dated(seen, runs[r]) /\ Newer(seen, shown[r])
  BY <1>6, RestIsDated, NowIsNewer DEF Dated
<1>8. behind' = behind \ {r} /\ UNCHANGED <<serverVars, tabVars, requests>>
  BY <1>2 DEF Get
<1>9. TabTypes' /\ OneCall'
  BY <1>3, <1>5, <1>8 DEF TabInv, TabTypes, OneCall, tabVars
<1>10. CallsAreSane'
  <2>1. HasView(d)'
    BY <1>4, <1>5, <1>6, <1>7, <1>8, DatedIsView DEF HasView, serverVars, tabVars
  <2> QED
    BY <1>3, <2>1 DEF CallsAreSane
<1>11. AllIsKnown'
  <2> SUFFICES ASSUME NEW s \in Created \ behind'
               PROVE  /\ shown[s] = View(runs[s]) \/ Underway(s)'
                      /\ Orchestrator!Resting(runs[s])
    BY <1>5, <1>8 DEF AllIsKnown, tabVars, serverVars
  <2>1. CASE s = r
    BY <1>3, <1>4, <1>6, <2>1 DEF Underway, Dated
  <2>2. CASE s # r
    <3>1. ~ Underway(s) /\ ~ Pending(s)
      BY <1>2, <1>3, <2>2 DEF Underway, Pending
    <3> QED
      BY <1>8, <2>2, <3>1 DEF TabInv, AllIsKnown
  <2> QED
    BY <2>1, <2>2
<1> QED
  BY <1>5, <1>9, <1>10, <1>11 DEF TabInv

(* A run that goes on leaves what was seen of it, and of the others, true. *)
LEMMA RunGoesOn ==
  ASSUME TabInv, NEW r \in Runs, GoesOn(r), RunsInv', shown' = shown
  PROVE  /\ Created' = Created /\ Shown' = Shown /\ ShownAreDated' /\ r \in Created
         /\ \A s \in Created : \A view : Dated(view, runs[s]) => Dated(view, runs'[s])
         /\ \A s \in Created \ {r} : runs'[s] = runs[s]
<1>1. /\ runs \in [Runs -> Orchestrator!RunRecord]
      /\ runs' \in [Runs -> Orchestrator!RunRecord]
      /\ \A s \in Runs : Orchestrator!Situated(runs'[s])
  BY DEF TabInv, RunsInv, Orchestrator!RunsInv, Orchestrator!TypeOK
<1>2. \A s \in Runs \ {r} : runs'[s] = runs[s]
  BY <1>1 DEF GoesOn
<1>3. runs[r].scenario # "none" /\ runs'[r].scenario = runs[r].scenario
  BY DEF GoesOn, Orchestrator!Since
<1>4. Created' = Created /\ Shown' = Shown /\ r \in Created
  BY <1>2, <1>3 DEF Created, Shown
<1>5. ASSUME NEW s \in Created, NEW view, Dated(view, runs[s])
      PROVE  Dated(view, runs'[s])
  <2>1. s \in Runs /\ runs[s] \in Orchestrator!RunRecord /\ runs'[s] \in Orchestrator!RunRecord
    BY <1>1, NoneIsNoRun
  <2>2. CASE s = r
    BY <1>1, <1>5, <2>1, <2>2, DatedGoesOn DEF GoesOn
  <2>3. CASE s # r
    BY <1>2, <1>5, <2>1, <2>3
  <2> QED
    BY <2>2, <2>3
<1>6. ShownAreDated'
  BY <1>4, <1>5 DEF TabInv, ShownAreDated, Shown
<1> QED
  BY <1>2, <1>4, <1>5, <1>6, NoneIsNoRun

(* What is under way stays sane when runs go on of which the tab is behind, or
   sees nothing. *)
LEMMA CallsStay ==
  ASSUME TabInv, calls' = calls, shown' = shown, Created' = Created, Shown' = Shown,
         behind \subseteq behind',
         \A s \in Created : \A view : Dated(view, runs[s]) => Dated(view, runs'[s]),
         \A s \in Created \ behind' : View(runs'[s]) = View(runs[s])
  PROVE  CallsAreSane'
<1> SUFFICES ASSUME NEW c \in calls
             PROVE  (IsStart(c) \/ IsAct(c) \/ IsGet(c) \/ IsPending(c) \/ HasView(c) \/ HasNoView(c))'
  BY DEF CallsAreSane
<1>1. CASE IsStart(c) \/ IsAct(c) \/ IsGet(c) \/ IsPending(c)
  BY <1>1 DEF IsStart, IsAct, IsGet, IsPending
<1>2. CASE HasView(c)
  <2>1. PICK r \in Created, view \in Views :
          /\ c.action \in Server!Scenarios \cup Actions \cup {"get"}
          /\ c = CallOf(c.action, r, "answered", "200", view)
          /\ Dated(view, runs[r])
          /\ r \in Shown => Newer(view, shown[r])
          /\ r \notin behind => view = View(runs[r])
    BY <1>2 DEF HasView
  <2>2. Dated(view, runs'[r]) /\ (r \notin behind' => view = View(runs'[r]))
    BY <2>1
  <2>3. HasView(c)'
    BY <2>1, <2>2 DEF HasView
  <2> QED
    BY <2>3
<1>3. CASE HasNoView(c)
  <2>1. HasNoView(c)'
    BY <1>3 DEF HasNoView
  <2> QED
    BY <2>1
<1> QED
  BY <1>1, <1>2, <1>3 DEF TabInv, CallsAreSane

(* Somebody else changes a run: the tab is behind on it. *)
LEMMA ElsewhereStep ==
  ASSUME TabInv, NEW action, NEW r \in Runs, Elsewhere(action, r)
  PROVE  TabInv'
<1>1. GoesOn(r) /\ RunsInv'
  BY HandlerServed DEF Elsewhere, TabInv
<1>2. shown' = shown /\ calls' = calls /\ behind' = behind \cup {r}
  BY DEF Elsewhere, tabVars
<1>3. /\ Created' = Created /\ Shown' = Shown /\ ShownAreDated' /\ r \in Created
      /\ \A s \in Created : \A view : Dated(view, runs[s]) => Dated(view, runs'[s])
      /\ \A s \in Created \ {r} : runs'[s] = runs[s]
  BY <1>1, <1>2, RunGoesOn
<1>4. TabTypes' /\ OneCall'
  <2>1. requests' \in 0..MaxRequests
    BY ControlRoomAssumption DEF TabInv, TabTypes, Elsewhere
  <2> QED
    BY <1>2, <1>3, <2>1 DEF TabInv, TabTypes, OneCall, Elsewhere, tabVars
<1>5. CallsAreSane'
  BY <1>2, <1>3, CallsStay
<1>6. AllIsKnown'
  BY <1>2, <1>3 DEF TabInv, AllIsKnown, Underway, Pending
<1> QED
  BY <1>1, <1>3, <1>4, <1>5, <1>6 DEF TabInv

LEMMA TimeStep ==
  ASSUME TabInv, Time
  PROVE  TabInv'
<1>1. /\ RunsInv'
      /\ \/ runs' = runs
         \/ \E r \in Runs : /\ GoesOn(r) /\ View(runs'[r]) = View(runs[r])
                            /\ Orchestrator!Resting(runs[r])
  BY TimeServed DEF TabInv
<1>2. UNCHANGED <<tabVars, calls, requests, behind>>
  BY DEF Time
<1>3. CASE runs' = runs
  <2>1. Created' = Created /\ Shown' = Shown
    BY <1>2, <1>3 DEF Created, Shown, tabVars
  <2>2. TabTypes' /\ OneCall' /\ ShownAreDated'
    BY <1>2, <1>3, <2>1 DEF TabInv, TabTypes, OneCall, ShownAreDated, tabVars
  <2>3. CallsAreSane'
    BY <1>2, <1>3, <2>1, CallsStay DEF tabVars
  <2>4. AllIsKnown'
    BY <1>2, <1>3, <2>1 DEF TabInv, AllIsKnown, Underway, Pending, tabVars
  <2> QED
    BY <1>1, <2>2, <2>3, <2>4 DEF TabInv
<1>4. ASSUME NEW r \in Runs, GoesOn(r), View(runs'[r]) = View(runs[r]),
             Orchestrator!Resting(runs[r])
      PROVE  TabInv'
  <2>1. /\ Created' = Created /\ Shown' = Shown /\ ShownAreDated' /\ r \in Created
        /\ \A s \in Created : \A view : Dated(view, runs[s]) => Dated(view, runs'[s])
        /\ \A s \in Created \ {r} : runs'[s] = runs[s]
    BY <1>1, <1>2, <1>4, RunGoesOn DEF tabVars
  <2>2. Orchestrator!Resting(runs'[r])
    <3>1. Dated(View(runs[r]), runs[r])
      BY <1>4, RestIsDated DEF TabInv, RunsInv, Orchestrator!RunsInv, Orchestrator!TypeOK
    <3> QED
      BY <2>1, <3>1 DEF Dated
  <2>3. TabTypes' /\ OneCall'
    BY <1>2, <2>1 DEF TabInv, TabTypes, OneCall, tabVars
  <2>4. \A s \in Created : View(runs'[s]) = View(runs[s])
    BY <1>4, <2>1
  <2>5. CallsAreSane'
    BY <1>2, <2>1, <2>4, CallsStay DEF tabVars
  <2>6. AllIsKnown'
    BY <1>2, <2>1, <2>2, <2>4 DEF TabInv, AllIsKnown, Underway, Pending, tabVars
  <2> QED
    BY <1>1, <2>1, <2>3, <2>5, <2>6 DEF TabInv
<1> QED
  BY <1>1, <1>3, <1>4

(* The end of a handler is answered with the run as it is: the tab is about to
   know all. *)
LEMMA ToldStep ==
  ASSUME TabInv, NEW r \in Runs, GoesOn(r), RunsInv', Orchestrator!Resting(runs'[r]),
         NEW c \in calls, c.run = r, NEW action \in Server!Scenarios \cup Actions \cup {"get"},
         calls' = {CallOf(action, r, "answered", "200", View(runs'[r]))},
         behind' = behind \ {r}, UNCHANGED <<tabVars, requests>>
  PROVE  TabInv'
<1>1. /\ Created' = Created /\ Shown' = Shown /\ ShownAreDated' /\ r \in Created
      /\ \A s \in Created : \A view : Dated(view, runs[s]) => Dated(view, runs'[s])
      /\ \A s \in Created \ {r} : runs'[s] = runs[s]
  BY RunGoesOn DEF tabVars
<1>2. calls = {c} /\ busy
  BY OnlyCall DEF TabInv
<1> PICK seen : seen = View(runs'[r])
  OBVIOUS
<1> PICK d : d = CallOf(action, r, "answered", "200", seen)
  OBVIOUS
<1>3. d.action = action /\ d.run = r /\ d.stage = "answered" /\ calls' = {d}
  BY DEF CallOf
<1>4. Dated(seen, runs'[r])
  <2>1. runs'[r] \in Orchestrator!RunRecord
    BY DEF RunsInv, Orchestrator!RunsInv, Orchestrator!TypeOK
  <2> QED
    BY <2>1, RestIsDated
<1>5. r \in Shown => Newer(seen, shown[r])
  <2>1. r \in Shown => Dated(shown[r], runs'[r])
    BY <1>1 DEF TabInv, ShownAreDated
  <2> QED
    BY <2>1, NowIsNewer
<1>6. TabTypes' /\ OneCall'
  BY <1>1, <1>2, <1>3 DEF TabInv, TabTypes, OneCall, tabVars
<1>7. CallsAreSane'
  <2>1. HasView(d)'
    BY <1>1, <1>3, <1>4, <1>5, DatedIsView DEF HasView, tabVars
  <2> QED
    BY <1>3, <2>1 DEF CallsAreSane
<1>8. AllIsKnown'
  <2> SUFFICES ASSUME NEW s \in Created \ behind'
               PROVE  /\ shown[s] = View(runs'[s]) \/ Underway(s)'
                      /\ Orchestrator!Resting(runs'[s])
    BY <1>1 DEF AllIsKnown, tabVars
  <2>1. CASE s = r
    BY <1>3, <2>1 DEF Underway
  <2>2. CASE s # r
    <3>1. ~ Underway(s) /\ ~ Pending(s)
      BY <1>2, <2>2 DEF Underway, Pending
    <3> QED
      BY <1>1, <2>2, <3>1 DEF TabInv, AllIsKnown
  <2> QED
    BY <2>1, <2>2
<1> QED
  BY <1>1, <1>6, <1>7, <1>8 DEF TabInv

LEMMA TimeOutStep ==
  ASSUME TabInv, NEW r \in Runs, TimeOut(r)
  PROVE  TabInv'
<1>1. /\ GoesOn(r) /\ RunsInv'
      /\ ~ Orchestrator!Resting(runs[r]) /\ Orchestrator!Resting(runs'[r])
      /\ runs'[r].answer = "200"
  BY TimeOutServed DEF TabInv, TimeOut
<1>2. UNCHANGED <<tabVars, requests>>
  BY DEF TimeOut
<1>3. ASSUME NEW c \in calls, c.stage = "pending", c.run = r
      PROVE  TabInv'
  <2>1. PICK scenario \in Server!Scenarios : c = CallOf(scenario, r, "pending", "none", None)
    <3>1. PICK s \in Created : \E scenario \in Server!Scenarios :
            c = CallOf(scenario, s, "pending", "none", None)
      BY <1>3, CallForms DEF IsPending
    <3>2. c.run = s
      BY <3>1 DEF CallOf
    <3> QED
      BY <1>3, <3>1, <3>2
  <2>2. c.action = scenario /\ scenario # "verify_ledger"
    BY <2>1, ActionNames DEF CallOf, Actions
  <2>3. AnswerOf(c, runs'[r]) = CallOf(scenario, r, "answered", "200", View(runs'[r]))
    <3>1. AnswerOf(c, runs'[r]) = WithView(c, r, runs'[r])
      BY <1>1, <1>3, <2>2 DEF AnswerOf
    <3> QED
      BY <2>1, <3>1, AnswerFields
  <2>4. calls = {c}
    BY OnlyCall DEF TabInv
  <2>5. calls' = {AnswerOf(c, runs'[r])} /\ behind' = behind \ {r}
    BY <1>3, <2>4 DEF TimeOut
  <2> QED
    BY <1>1, <1>2, <1>3, <2>3, <2>5, ToldStep
<1>4. ASSUME ~ \E c \in calls : c.stage = "pending" /\ c.run = r
      PROVE  TabInv'
  <2>1. calls' = calls /\ behind' = behind
    BY <1>4 DEF TimeOut
  <2>2. /\ Created' = Created /\ Shown' = Shown /\ ShownAreDated' /\ r \in Created
        /\ \A s \in Created : \A view : Dated(view, runs[s]) => Dated(view, runs'[s])
        /\ \A s \in Created \ {r} : runs'[s] = runs[s]
    BY <1>1, <1>2, RunGoesOn DEF tabVars
  <2>3. r \in behind
    BY <1>1, <1>4, <2>2 DEF TabInv, AllIsKnown, Pending
  <2>4. TabTypes' /\ OneCall'
    BY <1>2, <2>1, <2>2 DEF TabInv, TabTypes, OneCall, tabVars
  <2>5. CallsAreSane'
    BY <1>2, <2>1, <2>2, <2>3, CallsStay DEF tabVars
  <2>6. AllIsKnown'
    BY <1>2, <2>1, <2>2, <2>3 DEF TabInv, AllIsKnown, Underway, Pending, tabVars
  <2> QED
    BY <1>1, <2>2, <2>4, <2>5, <2>6 DEF TabInv
<1> QED
  BY <1>3, <1>4

LEMMA HandleStep ==
  ASSUME TabInv, NEW c \in calls, Handle(c)
  PROVE  TabInv'
<1>1. c.action \in Actions
  BY DEF Handle, Handler, Actions
<1>2. PICK r \in Shown : \E action \in shown[r].actions : c = Sent(action, r)
  BY <1>1, CallForms DEF Handle, IsAct
<1>3. PICK action \in Actions : c = Sent(action, r)
  BY <1>2, ShownViews DEF TabInv
<1>4. c.action = action /\ c.run = r /\ r \in Runs /\ c = CallOf(action, r, "sent", "none", None)
  BY <1>3, NoneIsNoRun, SentFields DEF Sent
<1>5. GoesOn(r) /\ RunsInv'
  BY <1>4, HandlerServed DEF TabInv, Handle
<1>6. UNCHANGED <<tabVars, requests>>
  BY DEF Handle
<1>7. /\ Created' = Created /\ Shown' = Shown /\ ShownAreDated' /\ r \in Created
      /\ \A s \in Created : \A view : Dated(view, runs[s]) => Dated(view, runs'[s])
      /\ \A s \in Created \ {r} : runs'[s] = runs[s]
  BY <1>4, <1>5, <1>6, RunGoesOn DEF tabVars
<1>8. Orchestrator!Resting(runs'[r])
  BY <1>7 DEF TabInv, ShownAreDated, Dated
<1>9. calls = {c} /\ busy /\ calls' = {AnswerOf(c, runs'[r])}
  BY <1>4, OnlyCall DEF TabInv, Handle
<1>10. /\ \A status : Without(c, status) = CallOf(action, r, "answered", status, None)
       /\ WithView(c, r, runs'[r]) = CallOf(action, r, "answered", "200", View(runs'[r]))
  BY <1>4, AnswerFields
<1>11. ASSUME AnswerOf(c, runs'[r]) = WithView(c, r, runs'[r])
       PROVE  TabInv'
  <2>1. View(runs'[r]) # None
    <3>1. Dated(View(runs'[r]), runs'[r])
      BY <1>4, <1>5, <1>8, RestIsDated DEF RunsInv, Orchestrator!RunsInv, Orchestrator!TypeOK
    <3> QED
      BY <3>1, DatedIsView
  <2>2. AnswerOf(c, runs'[r]).view = View(runs'[r])
    BY <1>10, <1>11 DEF CallOf
  <2>3. behind' = behind \ {r}
    BY <1>4, <2>1, <2>2 DEF Handle
  <2> QED
    BY <1>4, <1>5, <1>6, <1>8, <1>9, <1>10, <1>11, <2>3, ToldStep
<1>12. ASSUME NEW status \in {"none", "200", "500"}, AnswerOf(c, runs'[r]) = Without(c, status)
       PROVE  TabInv'
  <2> PICK d : d = CallOf(action, r, "answered", status, None)
    OBVIOUS
  <2>1. d.run = r /\ d.stage = "answered" /\ d.view = None /\ calls' = {d}
    BY <1>9, <1>10, <1>12 DEF CallOf
  <2>2. behind' = behind
    BY <1>4, <1>10, <1>12, <2>1 DEF Handle
  <2>3. TabTypes' /\ OneCall'
    BY <1>6, <1>7, <1>9, <2>1, <2>2 DEF TabInv, TabTypes, OneCall, tabVars
  <2>4. CallsAreSane'
    <3>1. HasNoView(d)'
      BY <1>7, <1>12 DEF HasNoView
    <3> QED
      BY <2>1, <3>1 DEF CallsAreSane
  <2>5. AllIsKnown'
    <3> SUFFICES ASSUME NEW s \in Created \ behind
                 PROVE  /\ shown[s] = View(runs'[s]) \/ Underway(s)'
                        /\ Orchestrator!Resting(runs'[s])
      BY <1>6, <1>7, <2>2 DEF AllIsKnown, tabVars
    <3>1. CASE s = r
      BY <1>8, <2>1, <3>1 DEF Underway
    <3>2. CASE s # r
      <4>1. ~ Underway(s) /\ ~ Pending(s)
        BY <1>4, <1>9, <3>2 DEF Underway, Pending
      <4> QED
        BY <1>7, <3>2, <4>1 DEF TabInv, AllIsKnown
    <3> QED
      BY <3>1, <3>2
  <2> QED
    BY <1>5, <1>7, <2>3, <2>4, <2>5 DEF TabInv
<1>13. \/ AnswerOf(c, runs'[r]) = WithView(c, r, runs'[r])
       \/ \E status \in {"none", "200", "500"} : AnswerOf(c, runs'[r]) = Without(c, status)
  <2>1. runs'[r].answer \in {"none", "200", "500"}
    BY <1>4, <1>5 DEF RunsInv, Orchestrator!RunsInv, Orchestrator!TypeOK, Orchestrator!RunRecord
  <2> QED
    BY <1>4, <2>1 DEF AnswerOf
<1> QED
  BY <1>11, <1>12, <1>13

(* A run of the tab's own: the tab learns of it from the answer. *)
LEMMA CreateStep ==
  ASSUME TabInv, NEW c \in calls, NEW r \in Runs, Create(c, r)
  PROVE  TabInv'
<1>1. c.action \in Server!Scenarios
  BY ActionNames DEF Create
<1>2. PICK scenario \in Server!Scenarios : c = Sent(scenario, None)
  BY <1>1, CallForms DEF Create, IsStart
<1>3. /\ c.action = scenario /\ c.run = None /\ c.stage = "sent"
      /\ c = CallOf(scenario, None, "sent", "none", None)
  BY <1>2, SentFields DEF Sent
<1>4. /\ runs' = [runs EXCEPT ![r] = runs'[r]]
      /\ runs[r].scenario = "none" /\ runs'[r].scenario # "none"
      /\ runs'[r].tool # "sleeping" => Orchestrator!Resting(runs'[r])
      /\ RunsInv'
  BY CreateServed DEF Create, TabInv
<1>5. UNCHANGED <<tabVars, requests, behind>>
  BY DEF Create
<1>6. /\ runs \in [Runs -> Orchestrator!RunRecord]
      /\ runs'[r] \in Orchestrator!RunRecord
  BY <1>4 DEF TabInv, RunsInv, Orchestrator!RunsInv, Orchestrator!TypeOK
<1>7. \A s \in Runs \ {r} : runs'[s] = runs[s]
  BY <1>4, <1>6
<1>8. /\ r \notin Created /\ Created' = Created \cup {r} /\ Shown' = Shown
      /\ Shown \subseteq Created /\ behind \subseteq Created
  BY <1>4, <1>5, <1>7 DEF Created, Shown, tabVars, TabInv, TabTypes, ShownAreDated
<1>9. calls = {c} /\ busy
  BY OnlyCall DEF TabInv
<1> PICK seen : seen = View(runs'[r])
  OBVIOUS
<1> PICK d : d = IF runs'[r].tool = "sleeping"
                 THEN CallOf(scenario, r, "pending", "none", None)
                 ELSE CallOf(scenario, r, "answered", "200", seen)
  OBVIOUS
<1>10. calls' = {d}
  <2>1. [c EXCEPT !.run = r, !.stage = "pending"] = CallOf(scenario, r, "pending", "none", None)
    BY <1>2, PendingFields
  <2>2. WithView(c, r, runs'[r]) = CallOf(scenario, r, "answered", "200", seen)
    BY <1>3, AnswerFields
  <2> QED
    BY <1>9, <2>1, <2>2, OnlyCall DEF Create, TabInv
<1>11. d.action = scenario /\ d.run = r /\ d.stage \in {"pending", "answered"}
  BY DEF CallOf
<1>12. runs'[r].tool = "sleeping" => d.stage = "pending"
  BY DEF CallOf
<1>13. TabTypes' /\ OneCall'
  BY <1>5, <1>8, <1>9, <1>10 DEF TabInv, TabTypes, OneCall, tabVars
<1>14. ShownAreDated'
  BY <1>5, <1>7, <1>8, NoneIsNoRun DEF TabInv, ShownAreDated, tabVars
<1>15. CallsAreSane'
  <2>1. CASE runs'[r].tool = "sleeping"
    <3>1. IsPending(d)'
      BY <1>8, <2>1 DEF IsPending
    <3> QED
      BY <1>10, <3>1 DEF CallsAreSane
  <2>2. CASE runs'[r].tool # "sleeping"
    <3>1. Dated(seen, runs'[r])
      BY <1>4, <1>6, <2>2, RestIsDated
    <3>2. HasView(d)'
      BY <1>5, <1>8, <1>11, <2>2, <3>1, DatedIsView DEF HasView, tabVars
    <3> QED
      BY <1>10, <3>2 DEF CallsAreSane
  <2> QED
    BY <2>1, <2>2
<1>16. AllIsKnown'
  <2> SUFFICES ASSUME NEW s \in (Created \cup {r}) \ behind
               PROVE  /\ shown[s] = View(runs'[s]) \/ Underway(s)'
                      /\ Orchestrator!Resting(runs'[s]) \/ Pending(s)'
    BY <1>5, <1>8 DEF AllIsKnown, tabVars
  <2>1. CASE s = r
    BY <1>4, <1>10, <1>11, <1>12, <2>1 DEF Underway, Pending
  <2>2. CASE s # r
    <3>1. ~ Underway(s) /\ ~ Pending(s)
      BY <1>3, <1>9, ActionNames DEF Underway, Pending
    <3> QED
      BY <1>7, <2>2, <3>1, NoneIsNoRun DEF TabInv, AllIsKnown
  <2> QED
    BY <2>1, <2>2
<1> QED
  BY <1>4, <1>13, <1>14, <1>15, <1>16 DEF TabInv

LEMMA NextTabInv == TabInv /\ [Next]_vars => TabInv'
<1> SUFFICES ASSUME TabInv, [Next]_vars PROVE TabInv'
  OBVIOUS
<1>1. ASSUME NEW scenario \in Server!Scenarios, Start(scenario) PROVE TabInv'
  BY <1>1, SendStep DEF Start
<1>2. ASSUME NEW action \in Actions, Act(action) PROVE TabInv'
  <2>1. selected \in Shown
    BY <1>2 DEF Act, TabInv, TabTypes
  <2> QED
    BY <1>2, <2>1, SendStep DEF Act
<1>3. ASSUME NEW c \in calls, Receive(c) PROVE TabInv'
  BY <1>3, ReceiveErrorStep, ReceiveViewStep, ReceiveResultStep DEF Receive
<1>4. ASSUME NEW c \in calls, Serve(c) PROVE TabInv'
  BY <1>4, HandleStep, RefuseStep, GetStep, CreateStep DEF Serve
<1>5. CASE UNCHANGED vars
  <2>1. RunsInv' /\ ShownAreDated' /\ Created' = Created /\ Shown' = Shown
    BY <1>5, TabMoves DEF vars, serverVars
  <2>2. TabTypes' /\ OneCall'
    BY <1>5, <2>1 DEF vars, TabInv, TabTypes, OneCall
  <2>3. CallsAreSane'
    BY <1>5, <2>1, CallsStay DEF vars
  <2>4. AllIsKnown'
    BY <1>5, <2>1 DEF vars, TabInv, AllIsKnown, Underway, Pending
  <2> QED
    BY <2>1, <2>2, <2>3, <2>4 DEF TabInv
<1> QED
  BY <1>1, <1>2, <1>3, <1>4, <1>5, SelectStep, TimeOutStep, TimeStep, ElsewhereStep, LoseStep
     DEF Next

(* The tab's views, its call under way and what it is behind on stay in step
   with the server. *)
THEOREM TabStaysInStep == Spec => []TabInv
BY InitTabInv, NextTabInv, PTL DEF Spec

-----------------------------------------------------------------------------
(* The properties.                                                          *)

(* Server and tab hold what they are meant to hold. *)
THEOREM TabTyped == Spec => []TypeOK
BY TabIsTyped, TabStaysInStep, PTL

(* Without polling, a tab with nothing under way on a run shows it as it is,
   unless it has been touched elsewhere or an answer was an error or lost. *)
THEOREM TabKnowsOrIsBehind == Spec => []KnownOrBehind
BY KnownFollows, TabStaysInStep, PTL

(* The server refuses an offered action only of a run that has changed behind
   the tab's back. *)
THEOREM OffersAreAccepted == Spec => []OfferedIsAccepted
BY AcceptedFollows, TabStaysInStep, PTL

(* What a badge says cannot happen does not, however old the view is. *)
THEOREM ClaimsHold == Spec => []ShownClaimsHold
BY ClaimsFollow, TabStaysInStep, PTL

(* The verification panel shows nothing as passed that has not happened. *)
THEOREM PanelsAreTrue == Spec => []PanelsDoNotOverstate
BY PanelsFollow, TabStaysInStep, PTL

LEMMA NewerExtends ==
  ASSUME NEW view \in Views, NEW old \in Views, Newer(view, old)
  PROVE  IsPrefix(old.ledger, view.ledger) /\ old.versionNow <= view.versionNow
<1> DEFINE S == Server!AuditEventTypes
           s == old.ledger
           t == view.ledger
<1>1. /\ s \in Seq(S) /\ t \in Seq(S) /\ Len(s) <= Len(t)
      /\ \A i \in 1..Len(s) : t[i] = s[i]
  BY DEF Views, Newer, Orchestrator!Extends
<1> HIDE DEF S, s, t
<1>2. SubSeq(s, 1, Len(s)) = s
  BY <1>1
<1>3. SubSeq(t, 1, Len(s)) = s
  BY <1>1
<1> QED
  BY <1>1, <1>2, <1>3 DEF IsPrefix, Newer, s, t

LEMMA SameViewExtends ==
  ASSUME NEW view \in Views
  PROVE  IsPrefix(view.ledger, view.ledger) /\ view.versionNow <= view.versionNow
<1>1. view.versionNow \in Nat /\ Len(view.ledger) \in Nat
  BY DEF Views
<1> QED
  BY <1>1 DEF IsPrefix

(* A view is only ever replaced by one of the same run as it was later: the
   versions do not fall, and the ledger is continued. *)
THEOREM ViewsMoveForward == Spec => ViewsNeverGoBack
<1> DEFINE Forward == \A r \in Shown : /\ IsPrefix(shown[r].ledger, shown'[r].ledger)
                                       /\ shown[r].versionNow <= shown'[r].versionNow
<1>1. TabInv /\ [Next]_vars => [Forward]_vars
  <2> SUFFICES ASSUME TabInv, Next PROVE Forward
    OBVIOUS
  <2>1. ASSUME shown' = shown PROVE Forward
    BY <2>1, SameViewExtends, ShownViews DEF TabInv
  <2>2. ASSUME NEW c \in calls, ReceiveView(c) PROVE Forward
    <3>1. /\ c.run \in Runs /\ shown' = [shown EXCEPT ![c.run] = c.view]
          /\ c.run \in Shown => Newer(c.view, shown[c.run])
          /\ c.view \in Views
      BY <2>2, ReceiveViewStep
    <3> SUFFICES ASSUME NEW r \in Shown
                 PROVE  /\ IsPrefix(shown[r].ledger, shown'[r].ledger)
                        /\ shown[r].versionNow <= shown'[r].versionNow
      OBVIOUS
    <3>2. r \in Runs /\ shown[r] \in Views /\ shown \in [Runs -> Views \cup {None}]
      BY ShownViews DEF TabInv, TabTypes
    <3>3. CASE r = c.run
      <4>1. shown'[r] = c.view
        BY <3>1, <3>2, <3>3
      <4> QED
        BY <3>1, <3>2, <3>3, <4>1, NewerExtends
    <3>4. CASE r # c.run
      <4>1. shown'[r] = shown[r]
        BY <3>1, <3>2, <3>4
      <4> QED
        BY <3>2, <4>1, SameViewExtends
    <3> QED
      BY <3>3, <3>4
  <2>3. shown' = shown \/ \E c \in calls : ReceiveView(c)
    BY DEF Next, Start, Act, Send, Select, Elsewhere, TimeOut, Time, Serve, Receive, Lose,
           Handle, Refuse, Get, Create, ReceiveError, ReceiveResult, AfterVerify, Failed, tabVars
  <2> QED
    BY <2>1, <2>2, <2>3
<1> QED
  BY <1>1, TabStaysInStep, PTL DEF Spec, ViewsNeverGoBack

=============================================================================
