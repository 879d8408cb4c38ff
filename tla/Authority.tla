------------------------------ MODULE Authority ------------------------------
(***************************************************************************)
(* From a proposal to a capability: the policy's verdict, the human        *)
(* approvals, and mintCapability, which wants one or the other.            *)
(*                                                                         *)
(* Approvals are objects that checkApproval and consumeApproval only look  *)
(* at: consumeApproval answers with a changed copy.  Where they are kept   *)
(* is left to whoever uses the library, with the demand (approval.ts) that *)
(* storing the copy compares and swaps.  That store is external here; its  *)
(* users read an approval, decide on what they read, store, and go on      *)
(* with the steps of approveRun: matching_approval, then the mint.         *)
(*                                                                         *)
(* A run stands for one proposal: the hash, action and resource that an    *)
(* approval names and a request repeats are the run they belong to.        *)
(***************************************************************************)
EXTENDS Naturals, Sequences, Policy, RunStateMachine

CONSTANTS
  Runs,         \* run ids, one proposal each
  Inputs,       \* what the policy may be told about a proposal
  Approvals,    \* approval ids
  Handlers,     \* requests in progress that submit an approval
  None,         \* the absent value
  ApprovalTTL,  \* lifetime of an approval (10 minutes), in ticks
  MaxTime,      \* bound: the clock stops there
  MaxPolicy     \* bound: how often the policy's version changes

ASSUME AuthorityAssumption ==
  /\ Inputs \subseteq PolicyInputs
  /\ None \notin Runs \cup Inputs \cup Approvals \cup Handlers
  /\ None \notin {"matching_approval", "ttl_elapsed", "concurrent_approval_conflict"}
  /\ ApprovalTTL \in Nat \ {0}
  /\ MaxTime \in Nat
  /\ MaxPolicy \in Nat

VARIABLES
  now,            \* the clock
  policyVersion,  \* CURRENT_POLICY_VERSION of the build that runs
  runs,           \* per run: what was proposed, and its state
  approvals,      \* the stored approvals
  handlers,       \* per handler: what it has read
  capabilities    \* the capabilities minted so far, in order

vars == <<now, policyVersion, runs, approvals, handlers, capabilities>>

ApprovalStatus == {"none", "active", "consumed", "invalidated"}

Approval ==
  [status : ApprovalStatus, run : Runs \cup {None}, expiresAt : Nat, policy : Nat]

NoApproval == [status |-> "none", run |-> None, expiresAt |-> 0, policy |-> 0]

Idle == [at |-> "idle", run |-> None, approval |-> None, copy |-> NoApproval, usedAt |-> 0]

HandlerRecord ==
  [at : {"idle", "loaded", "stored"}, run : Runs \cup {None},
   approval : Approvals \cup {None}, copy : Approval,
   usedAt : Nat]                             \* when the copy was consumed

Capability ==
  [run : Runs, evidence : {"policy-allow", "approved"},
   approval : Approvals \cup {None}, usedAt : Nat]

-----------------------------------------------------------------------------
(* The checks on an approval, as it was read. *)

\* Mutant: the status is not looked at.
CheckApprovalReusable(approval, r) ==
  IF approval.expiresAt <= now THEN "APPROVAL_EXPIRED"
  ELSE IF approval.run # r THEN "PLAN_HASH_MISMATCH"
  ELSE "ok"

\* Mutant: an approval never expires.
CheckApprovalForEver(approval, r) ==
  IF approval.status = "consumed" THEN "APPROVAL_ALREADY_CONSUMED"
  ELSE IF approval.status # "active" THEN "APPROVAL_STATUS_INVALID"
  ELSE IF approval.run # r THEN "PLAN_HASH_MISMATCH"
  ELSE "ok"

\* Mutant: any proposal will do.
CheckApprovalForAny(approval, r) ==
  IF approval.status = "consumed" THEN "APPROVAL_ALREADY_CONSUMED"
  ELSE IF approval.status # "active" THEN "APPROVAL_STATUS_INVALID"
  ELSE IF approval.expiresAt <= now THEN "APPROVAL_EXPIRED"
  ELSE "ok"

CheckApproval(approval, r) ==
  IF approval.status = "consumed" THEN "APPROVAL_ALREADY_CONSUMED"
  ELSE IF approval.status # "active" THEN "APPROVAL_STATUS_INVALID"
  ELSE IF approval.expiresAt <= now THEN "APPROVAL_EXPIRED"
  ELSE IF approval.run # r THEN "PLAN_HASH_MISMATCH"    \* or the scope's
  ELSE "ok"

(* What consumeApproval answers with. *)
Consumed(approval) == [approval EXCEPT !.status = "consumed"]

SelectApprovalTrigger(check) ==
  CASE check = "ok" -> "matching_approval"
    [] check = "APPROVAL_EXPIRED" -> "ttl_elapsed"
    [] check = "APPROVAL_ALREADY_CONSUMED" -> "concurrent_approval_conflict"
    [] OTHER -> None

\* Mutant: the state is taken from transition() without asking whether it
\* is one.
MovedUnchecked(r, trigger) ==
  IF trigger = None THEN runs[r].state ELSE Transition(runs[r].state, trigger)

(* The state a trigger takes a run to; none, or an illegal one, leaves it. *)
Moved(r, trigger) ==
  IF trigger = None \/ Transition(runs[r].state, trigger) = Illegal
  THEN runs[r].state ELSE Transition(runs[r].state, trigger)

(* mintCapability on an approval, and on a verdict. *)
MintsFromApproval(approval, r) == approval.status = "consumed" /\ approval.run = r
MintsFromVerdict(outcome) == outcome = "ALLOW"

-----------------------------------------------------------------------------

NotProposed == [input |-> None, outcome |-> "DENY", state |-> "PROPOSED"]

Init ==
  /\ now = 0
  /\ policyVersion = 0
  /\ runs = [r \in Runs |-> NotProposed]
  /\ approvals = [a \in Approvals |-> NoApproval]
  /\ handlers = [h \in Handlers |-> Idle]
  /\ capabilities = <<>>

Tick ==
  /\ now < MaxTime
  /\ now' = now + 1
  /\ UNCHANGED <<policyVersion, runs, approvals, handlers, capabilities>>

(* A build with another policy takes over. *)
ChangePolicy ==
  /\ policyVersion < MaxPolicy
  /\ policyVersion' = policyVersion + 1
  /\ UNCHANGED <<now, runs, approvals, handlers, capabilities>>

(* createRun: a valid proposal is judged, and an allowed one gets its
   capability in the same handler. *)
Propose(r, input) ==
  LET outcome == EvaluatePolicy(input) IN
  /\ runs[r].input = None
  /\ runs' = [runs EXCEPT ![r] =
                [input |-> input, outcome |-> outcome,
                 state |-> Transition(Transition("PROPOSED", "schema_pass"),
                                      TriggerOfOutcome(outcome))]]
  /\ capabilities' =
       IF MintsFromVerdict(outcome)
       THEN Append(capabilities, [run |-> r, evidence |-> "policy-allow",
                                  approval |-> None, usedAt |-> now])
       ELSE capabilities
  /\ UNCHANGED <<now, policyVersion, approvals, handlers>>

-----------------------------------------------------------------------------
(* The external store of approvals. *)

(* A human approves the proposal of a run that waits. *)
Approve(a, r) ==
  /\ approvals[a].status = "none"
  /\ runs[r].state = "APPROVAL_REQUIRED"
  /\ approvals' = [approvals EXCEPT ![a] =
                     [status |-> "active", run |-> r,
                      expiresAt |-> now + ApprovalTTL, policy |-> policyVersion]]
  /\ UNCHANGED <<now, policyVersion, runs, handlers, capabilities>>

(* An approval is withdrawn before it was used. *)
Invalidate(a) ==
  /\ approvals[a].status = "active"
  /\ approvals' = [approvals EXCEPT ![a].status = "invalidated"]
  /\ UNCHANGED <<now, policyVersion, runs, handlers, capabilities>>

\* Mutant: whatever is stored is overwritten.
SwapsAlways(a, read) == TRUE

(* Compare and swap: an approval is stored over the one that was read. *)
Swaps(a, read) == approvals[a] = read

-----------------------------------------------------------------------------
(* A handler that was asked to approve run r with approval a. *)

Load(h, r, a) ==
  /\ handlers[h].at = "idle"
  /\ runs[r].state = "APPROVAL_REQUIRED"
  /\ approvals[a].status # "none"
  /\ handlers' = [handlers EXCEPT ![h] =
                    [at |-> "loaded", run |-> r, approval |-> a,
                     copy |-> approvals[a], usedAt |-> 0]]
  /\ UNCHANGED <<now, policyVersion, runs, approvals, capabilities>>

(* The approval was consumable, and still is what was read: it is stored. *)
Consume(h) ==
  LET me == handlers[h] IN
  /\ me.at = "loaded"
  /\ CheckApproval(me.copy, me.run) = "ok"
  /\ Swaps(me.approval, me.copy)
  /\ approvals' = [approvals EXCEPT ![me.approval] = Consumed(me.copy)]
  /\ handlers' = [handlers EXCEPT ![h].at = "stored", ![h].usedAt = now,
                                  ![h].copy = Consumed(me.copy)]
  /\ UNCHANGED <<now, policyVersion, runs, capabilities>>

(* Somebody else has stored meanwhile: the handler reads again. *)
Reload(h) ==
  LET me == handlers[h] IN
  /\ me.at = "loaded"
  /\ CheckApproval(me.copy, me.run) = "ok"
  /\ ~ Swaps(me.approval, me.copy)
  /\ handlers' = [handlers EXCEPT ![h].copy = approvals[me.approval]]
  /\ UNCHANGED <<now, policyVersion, runs, approvals, capabilities>>

(* The approval does not do: the run moves where the reason says. *)
Refuse(h) ==
  LET me == handlers[h]
      check == CheckApproval(me.copy, me.run) IN
  /\ me.at = "loaded"
  /\ check # "ok"
  /\ runs' = [runs EXCEPT ![me.run].state = Moved(me.run, SelectApprovalTrigger(check))]
  /\ handlers' = [handlers EXCEPT ![h] = Idle]
  /\ UNCHANGED <<now, policyVersion, approvals, capabilities>>

\* Mutant: the capability is minted before the transition may throw.
GrantsBeforeMoving(h) == MintsFromApproval(handlers[h].copy, handlers[h].run)

Grants(h) ==
  /\ Transition(runs[handlers[h].run].state, SelectApprovalTrigger("ok")) # Illegal
  /\ MintsFromApproval(handlers[h].copy, handlers[h].run)

(* The consumed approval is stored: the transition is made, which may throw,
   and the capability minted. *)
Grant(h) ==
  LET me == handlers[h] IN
  /\ me.at = "stored"
  /\ runs' = [runs EXCEPT ![me.run].state = Moved(me.run, SelectApprovalTrigger("ok"))]
  /\ capabilities' =
       IF Grants(h)
       THEN Append(capabilities, [run |-> me.run, evidence |-> "approved",
                                  approval |-> me.approval, usedAt |-> me.usedAt])
       ELSE capabilities
  /\ handlers' = [handlers EXCEPT ![h] = Idle]
  /\ UNCHANGED <<now, policyVersion, approvals>>

Next ==
  \/ Tick
  \/ ChangePolicy
  \/ \E r \in Runs : \E input \in Inputs : Propose(r, input)
  \/ \E a \in Approvals : Invalidate(a) \/ \E r \in Runs : Approve(a, r)
  \/ \E h \in Handlers :
       \/ \E r \in Runs, a \in Approvals : Load(h, r, a)
       \/ Consume(h) \/ Reload(h) \/ Refuse(h) \/ Grant(h)

Spec == Init /\ [][Next]_vars

-----------------------------------------------------------------------------
(* Properties. *)

(* Every variable has its type; in particular no run is ever left in what an
   illegal transition() answers. *)
TypeOK ==
  /\ now \in 0..MaxTime
  /\ policyVersion \in 0..MaxPolicy
  /\ runs \in [Runs -> [input : Inputs \cup {None}, outcome : PolicyOutcomes,
                        state : RunStates]]
  /\ approvals \in [Approvals -> Approval]
  /\ handlers \in [Handlers -> HandlerRecord]
  /\ capabilities \in Seq(Capability)

(* Every proposal gets the outcome the rules give it, whichever guard of
   evaluatePolicy comes first (evaluatePolicy against its rules by outcome). *)
PolicyFollowsItsRules ==
  \A r \in Runs : runs[r].input # None =>
    runs[r].outcome = OutcomeByRules(runs[r].input)

(* A capability that exists was either allowed by the policy, for a reversible
   action, or approved by a human for this very proposal, with an approval
   that had not expired when it was consumed and was not withdrawn since
   (mintCapability's two kinds of evidence). *)
CapabilityHasAuthority ==
  \A i \in DOMAIN capabilities :
    LET c == capabilities[i] IN
    CASE c.evidence = "policy-allow" ->
           /\ runs[c.run].outcome = "ALLOW"
           /\ runs[c.run].input.action \in ReversibleActions
      [] c.evidence = "approved" ->
           /\ runs[c.run].outcome = "REQUIRE_APPROVAL"
           /\ approvals[c.approval].status = "consumed"
           /\ approvals[c.approval].run = c.run
           /\ c.usedAt < approvals[c.approval].expiresAt

(* However many handlers submit it, an approval is consumed by one of them:
   no two go on with it, and none goes on with one that has already led to a
   capability (approval.ts:59-66). *)
ApprovalIsSingleUse ==
  \A h \in Handlers : handlers[h].at = "stored" =>
    /\ \A g \in Handlers \ {h} :
         handlers[g].at = "stored" => handlers[g].approval # handlers[h].approval
    /\ \A i \in DOMAIN capabilities : capabilities[i].approval # handlers[h].approval

(* An approval is only used up by the proposal it was given for: submitted
   for another one it stays what it was (approval.ts:18-27). *)
ApprovalServesItsRun ==
  \A h \in Handlers : handlers[h].at = "stored" =>
    approvals[handlers[h].approval].run = handlers[h].run

(* Two approvals of one proposal, or one approval and a run that has ended
   meanwhile, do not make a second or a late capability: approveRun moves the
   run before it mints, and the move throws. *)
OneCapabilityPerRun ==
  \A i \in DOMAIN capabilities :
    /\ runs[capabilities[i].run].state = "AUTHORIZED"
    /\ \A j \in DOMAIN capabilities :
         capabilities[i].run = capabilities[j].run => i = j

(* A consumed or withdrawn approval stays so: a handler that read it before
   does not store over it (approval.ts:62-65). *)
SpentApprovalsStay ==
  [][\A a \in Approvals : approvals[a].status \in {"consumed", "invalidated"}
                            => approvals'[a] = approvals[a]]_vars

(* policy.ts:13-14: changing policy invalidates pending approvals and requires
   re-evaluation (so none given before the change is consumed after it). *)
PolicyChangeInvalidatesPending ==
  [][\A h \in Handlers :
       handlers[h].at = "loaded" /\ handlers'[h].at = "stored"
         => approvals[handlers[h].approval].policy = policyVersion]_vars

=============================================================================
