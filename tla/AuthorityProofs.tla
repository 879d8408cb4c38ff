---------------------------- MODULE AuthorityProofs ----------------------------
(***************************************************************************)
(* Authority for any number of proposals, approvals and handlers, and any  *)
(* bounds: what a capability rests on, and that an approval is spent once. *)
(***************************************************************************)
EXTENDS Authority, TLAPS

(* A run's verdict is the policy's, and only what needs a human waits. *)
RunsAreJudged ==
  \A r \in Runs :
    /\ runs[r].input = None => runs[r].state = "PROPOSED"
    /\ runs[r].input # None => runs[r].outcome = EvaluatePolicy(runs[r].input)
    /\ runs[r].state = "APPROVAL_REQUIRED" =>
         runs[r].input # None /\ runs[r].outcome = "REQUIRE_APPROVAL"

(* A handler works for a run that needed a human. *)
HandlersKnowTheirs ==
  \A h \in Handlers : handlers[h].at # "idle" =>
    /\ handlers[h].run \in Runs
    /\ handlers[h].approval \in Approvals
    /\ runs[handlers[h].run].input # None
    /\ runs[handlers[h].run].outcome = "REQUIRE_APPROVAL"

(* What a handler has stored is the consumed approval of its run. *)
StoredIsConsumed ==
  \A h \in Handlers : handlers[h].at = "stored" =>
    /\ approvals[handlers[h].approval].status = "consumed"
    /\ approvals[handlers[h].approval].run = handlers[h].run
    /\ handlers[h].usedAt < approvals[handlers[h].approval].expiresAt

AllowedByPolicy(c) ==
  /\ c.evidence = "policy-allow"
  /\ c.approval = None
  /\ runs[c.run].outcome = "ALLOW"

ApprovedByHuman(c) ==
  /\ c.evidence = "approved"
  /\ c.approval \in Approvals
  /\ runs[c.run].outcome = "REQUIRE_APPROVAL"
  /\ approvals[c.approval].status = "consumed"
  /\ approvals[c.approval].run = c.run
  /\ c.usedAt < approvals[c.approval].expiresAt

(* Every capability rests on a verdict or on a consumed approval. *)
CapabilitiesAreGrounded ==
  \A i \in 1..Len(capabilities) :
    /\ runs[capabilities[i].run].input # None
    /\ AllowedByPolicy(capabilities[i]) \/ ApprovedByHuman(capabilities[i])

(* The inductive invariant.  Single use alone is not inductive: that the
   approval a handler is about to consume has led to nothing yet follows from
   everything it could have led to being consumed already. *)
AuthorityInv ==
  /\ TypeOK
  /\ RunsAreJudged
  /\ HandlersKnowTheirs
  /\ StoredIsConsumed
  /\ CapabilitiesAreGrounded
  /\ ApprovalIsSingleUse
  /\ OneCapabilityPerRun

-----------------------------------------------------------------------------
(* The transitions this component makes. *)

(* transition() answers with a state, or says that there is none. *)
LEMMA TransitionTyped ==
  ASSUME NEW state, NEW trigger
  PROVE  Transition(state, trigger) \in RunStates \cup {Illegal}
<1>1. TargetsOf(state, trigger) \subseteq RunStates
  <2>1. \A e \in TransitionTable : e[3] \in RunStates
    BY DEF TransitionTable, RunStates
  <2> QED
    BY <2>1 DEF TargetsOf
<1>2. CASE TargetsOf(state, trigger) = {}
  BY <1>2 DEF Transition
<1>3. CASE TargetsOf(state, trigger) # {}
  BY <1>1, <1>3 DEF Transition
<1> QED
  BY <1>2, <1>3

(* A pair with one edge goes where the edge goes. *)
LEMMA OneEdge ==
  ASSUME NEW state, NEW trigger, NEW next, next # Illegal,
         <<state, trigger, next>> \in TransitionTable,
         \A e \in TransitionTable : e[1] = state /\ e[2] = trigger => e[3] = next
  PROVE  Transition(state, trigger) = next
<1>1. TargetsOf(state, trigger) = {next}
  <2>1. next \in TargetsOf(state, trigger)
    <3>1. <<state, trigger, next>>[1] = state /\ <<state, trigger, next>>[2] = trigger
          /\ <<state, trigger, next>>[3] = next
      OBVIOUS
    <3> QED
      BY <3>1 DEF TargetsOf
  <2>2. \A x \in TargetsOf(state, trigger) : x = next
    BY DEF TargetsOf
  <2> QED
    BY <2>1, <2>2
<1> QED
  BY <1>1 DEF Transition

(* A pair with no edge goes nowhere. *)
LEMMA NoEdge ==
  ASSUME NEW state, NEW trigger,
         \A e \in TransitionTable : ~ (e[1] = state /\ e[2] = trigger)
  PROVE  Transition(state, trigger) = Illegal
  BY DEF Transition, TargetsOf

(* The three triggers of an approval only move a run that waits for one. *)
LEMMA ApprovalTransitions ==
  ASSUME NEW state, NEW trigger \in
           {"matching_approval", "ttl_elapsed", "concurrent_approval_conflict"}
  PROVE  /\ state # "APPROVAL_REQUIRED" => Transition(state, trigger) = Illegal
         /\ Transition("APPROVAL_REQUIRED", "matching_approval") = "AUTHORIZED"
         /\ Transition("APPROVAL_REQUIRED", "ttl_elapsed") = "EXPIRED"
         /\ Transition("APPROVAL_REQUIRED", "concurrent_approval_conflict") = "CONFLICT"
<1>1. ASSUME state # "APPROVAL_REQUIRED" PROVE Transition(state, trigger) = Illegal
  <2>1. \A e \in TransitionTable : ~ (e[1] = state /\ e[2] = trigger)
    BY <1>1 DEF TransitionTable
  <2> QED
    BY <2>1, NoEdge
<1>2. Transition("APPROVAL_REQUIRED", "matching_approval") = "AUTHORIZED"
  <2>1. \A e \in TransitionTable :
          e[1] = "APPROVAL_REQUIRED" /\ e[2] = "matching_approval" => e[3] = "AUTHORIZED"
    BY DEF TransitionTable
  <2> QED
    BY <2>1, OneEdge DEF TransitionTable, Illegal
<1>3. Transition("APPROVAL_REQUIRED", "ttl_elapsed") = "EXPIRED"
  <2>1. \A e \in TransitionTable :
          e[1] = "APPROVAL_REQUIRED" /\ e[2] = "ttl_elapsed" => e[3] = "EXPIRED"
    BY DEF TransitionTable
  <2> QED
    BY <2>1, OneEdge DEF TransitionTable, Illegal
<1>4. Transition("APPROVAL_REQUIRED", "concurrent_approval_conflict") = "CONFLICT"
  <2>1. \A e \in TransitionTable :
          e[1] = "APPROVAL_REQUIRED" /\ e[2] = "concurrent_approval_conflict"
            => e[3] = "CONFLICT"
    BY DEF TransitionTable
  <2> QED
    BY <2>1, OneEdge DEF TransitionTable, Illegal
<1> QED
  BY <1>1, <1>2, <1>3, <1>4

(* Where a judged proposal goes. *)
LEMMA PolicyTransitions ==
  LET judged(outcome) == Transition(Transition("PROPOSED", "schema_pass"),
                                    TriggerOfOutcome(outcome))
  IN  /\ judged("ALLOW") = "AUTHORIZED"
      /\ judged("REQUIRE_APPROVAL") = "APPROVAL_REQUIRED"
      /\ judged("DENY") = "DENIED"
<1>1. Transition("PROPOSED", "schema_pass") = "VALIDATED"
  <2>1. \A e \in TransitionTable :
          e[1] = "PROPOSED" /\ e[2] = "schema_pass" => e[3] = "VALIDATED"
    BY DEF TransitionTable
  <2> QED
    BY <2>1, OneEdge DEF TransitionTable, Illegal
<1>2. Transition("VALIDATED", "low_risk_policy_allow") = "AUTHORIZED"
  <2>1. \A e \in TransitionTable :
          e[1] = "VALIDATED" /\ e[2] = "low_risk_policy_allow" => e[3] = "AUTHORIZED"
    BY DEF TransitionTable
  <2> QED
    BY <2>1, OneEdge DEF TransitionTable, Illegal
<1>3. Transition("VALIDATED", "high_risk") = "APPROVAL_REQUIRED"
  <2>1. \A e \in TransitionTable :
          e[1] = "VALIDATED" /\ e[2] = "high_risk" => e[3] = "APPROVAL_REQUIRED"
    BY DEF TransitionTable
  <2> QED
    BY <2>1, OneEdge DEF TransitionTable, Illegal
<1>4. Transition("VALIDATED", "policy_deny") = "DENIED"
  <2>1. \A e \in TransitionTable :
          e[1] = "VALIDATED" /\ e[2] = "policy_deny" => e[3] = "DENIED"
    BY DEF TransitionTable
  <2> QED
    BY <2>1, OneEdge DEF TransitionTable, Illegal
<1> QED
  BY <1>1, <1>2, <1>3, <1>4 DEF TriggerOfOutcome

(* What the reasons of a refusal fire. *)
LEMMA RefusalTriggers ==
  ASSUME NEW approval, NEW r
  PROVE  LET check == CheckApproval(approval, r) IN
         check # "ok" => SelectApprovalTrigger(check) \in
                           {None, "ttl_elapsed", "concurrent_approval_conflict"}
  BY DEF CheckApproval, SelectApprovalTrigger

(* A refusal leaves a run that does not wait alone, and takes one that waits
   to an end or leaves it waiting. *)
LEMMA RefusalMoves ==
  ASSUME NEW r \in Runs, runs[r].state \in RunStates, NEW approval,
         CheckApproval(approval, r) # "ok"
  PROVE  LET moved == Moved(r, SelectApprovalTrigger(CheckApproval(approval, r))) IN
         /\ moved \in RunStates
         /\ runs[r].state # "APPROVAL_REQUIRED" => moved = runs[r].state
         /\ moved # "APPROVAL_REQUIRED" => moved = runs[r].state \/ moved \in {"EXPIRED", "CONFLICT"}
<1> DEFINE trigger == SelectApprovalTrigger(CheckApproval(approval, r))
<1>1. trigger \in {None, "ttl_elapsed", "concurrent_approval_conflict"}
  BY RefusalTriggers
<1>2. CASE trigger = None
  BY <1>2 DEF Moved
<1>3. CASE trigger \in {"ttl_elapsed", "concurrent_approval_conflict"}
  <2>1. runs[r].state # "APPROVAL_REQUIRED" => Transition(runs[r].state, trigger) = Illegal
    BY <1>3, ApprovalTransitions
  <2>2. runs[r].state = "APPROVAL_REQUIRED" =>
          Transition(runs[r].state, trigger) \in {"EXPIRED", "CONFLICT"}
    BY <1>3, ApprovalTransitions
  <2> QED
    BY <2>1, <2>2 DEF Moved, RunStates
<1> QED
  BY <1>1, <1>2, <1>3

-----------------------------------------------------------------------------
(* The invariant, action by action. *)

(* Nothing has been proposed. *)
LEMMA InvInitially == Init => AuthorityInv
<1> SUFFICES ASSUME Init PROVE AuthorityInv
  OBVIOUS
<1>1. TypeOK
  BY AuthorityAssumption
  DEF Init, TypeOK, NotProposed, NoApproval, Idle, Approval, ApprovalStatus,
      HandlerRecord, PolicyOutcomes, RunStates
<1>2. RunsAreJudged
  BY DEF Init, RunsAreJudged, NotProposed
<1>3. HandlersKnowTheirs /\ StoredIsConsumed /\ ApprovalIsSingleUse
  BY DEF Init, HandlersKnowTheirs, StoredIsConsumed, ApprovalIsSingleUse, Idle
<1>4. CapabilitiesAreGrounded /\ OneCapabilityPerRun
  BY DEF Init, CapabilitiesAreGrounded, OneCapabilityPerRun
<1> QED
  BY <1>1, <1>2, <1>3, <1>4 DEF AuthorityInv

(* Time and builds pass by what has been decided. *)
LEMMA ClocksKeepInv ==
  ASSUME AuthorityInv, Tick \/ ChangePolicy \/ UNCHANGED vars
  PROVE  AuthorityInv'
<1>1. UNCHANGED <<runs, approvals, handlers, capabilities>>
  BY DEF Tick, ChangePolicy, vars
<1>2. now' \in 0..MaxTime /\ policyVersion' \in 0..MaxPolicy
  BY AuthorityAssumption DEF Tick, ChangePolicy, vars, AuthorityInv, TypeOK
<1> QED
  BY <1>1, <1>2
  DEF AuthorityInv, TypeOK, RunsAreJudged, HandlersKnowTheirs, StoredIsConsumed,
      CapabilitiesAreGrounded, AllowedByPolicy, ApprovedByHuman,
      ApprovalIsSingleUse, OneCapabilityPerRun

(* A proposal is judged once; the capability it may get is the run's first,
   because every other one belongs to a run that had been judged. *)
LEMMA ProposeKeepsInv ==
  ASSUME AuthorityInv, NEW r \in Runs, NEW input \in Inputs, Propose(r, input)
  PROVE  AuthorityInv'
<1> DEFINE outcome == EvaluatePolicy(input)
           first == [run |-> r, evidence |-> "policy-allow", approval |-> None, usedAt |-> now]
<1>1. /\ runs[r].input = None /\ input # None
      /\ UNCHANGED <<now, policyVersion, approvals, handlers>>
  BY AuthorityAssumption DEF Propose
<1>2. outcome \in PolicyOutcomes
  BY DEF EvaluatePolicy, PolicyOutcomes
<1>3. /\ runs'[r].input = input
      /\ runs'[r].outcome = outcome
      /\ outcome = "ALLOW" => runs'[r].state = "AUTHORIZED"
      /\ outcome = "REQUIRE_APPROVAL" => runs'[r].state = "APPROVAL_REQUIRED"
      /\ outcome = "DENY" => runs'[r].state = "DENIED"
      /\ \A q \in Runs \ {r} : runs'[q] = runs[q]
      /\ runs' \in [Runs -> [input : Inputs \cup {None}, outcome : PolicyOutcomes,
                             state : RunStates]]
  <2>1. runs' = [runs EXCEPT ![r] =
                   [input |-> input, outcome |-> outcome,
                    state |-> Transition(Transition("PROPOSED", "schema_pass"),
                                         TriggerOfOutcome(outcome))]]
    BY DEF Propose
  <2>2. Transition(Transition("PROPOSED", "schema_pass"), TriggerOfOutcome(outcome)) =
          IF outcome = "ALLOW" THEN "AUTHORIZED"
          ELSE IF outcome = "REQUIRE_APPROVAL" THEN "APPROVAL_REQUIRED" ELSE "DENIED"
    BY <1>2, PolicyTransitions DEF PolicyOutcomes
  <2> HIDE DEF outcome
  <2> QED
    BY <1>2, <2>1, <2>2 DEF AuthorityInv, TypeOK, RunStates
<1>4. capabilities' = IF outcome = "ALLOW" THEN Append(capabilities, first)
                      ELSE capabilities
  BY DEF Propose, MintsFromVerdict
<1> HIDE DEF outcome
<1>5. capabilities \in Seq(Capability) /\ first \in Capability
  BY DEF AuthorityInv, TypeOK, Capability
<1>6. \A i \in 1..Len(capabilities) :
        capabilities[i].run \in Runs /\ capabilities[i].run # r
  <2>1. \A i \in 1..Len(capabilities) : capabilities[i].run \in Runs
    <3>1. \A i \in 1..Len(capabilities) : capabilities[i] \in Capability
      BY <1>5
    <3> QED
      BY <3>1 DEF Capability
  <2> QED
    BY <1>1, <2>1 DEF AuthorityInv, CapabilitiesAreGrounded
<1>7. TypeOK'
  <2>1. capabilities' \in Seq(Capability)
    BY <1>4, <1>5
  <2> QED
    BY <1>1, <1>3, <2>1 DEF AuthorityInv, TypeOK
<1>8. RunsAreJudged'
  <2>1. ASSUME NEW q \in Runs, q # r
        PROVE  /\ runs'[q].input = None => runs'[q].state = "PROPOSED"
               /\ runs'[q].input # None => runs'[q].outcome = EvaluatePolicy(runs'[q].input)
               /\ runs'[q].state = "APPROVAL_REQUIRED" =>
                    runs'[q].input # None /\ runs'[q].outcome = "REQUIRE_APPROVAL"
    BY <1>3, <2>1 DEF AuthorityInv, RunsAreJudged
  <2>2. runs'[r].outcome = EvaluatePolicy(runs'[r].input)
    BY <1>3 DEF outcome
  <2>3. runs'[r].state = "APPROVAL_REQUIRED" => runs'[r].outcome = "REQUIRE_APPROVAL"
    BY <1>2, <1>3 DEF PolicyOutcomes
  <2> QED
    BY <1>1, <1>3, <2>1, <2>2, <2>3 DEF RunsAreJudged
<1>9. HandlersKnowTheirs'
  <2>1. \A h \in Handlers : handlers[h].at # "idle" => handlers[h].run # r
    BY <1>1 DEF AuthorityInv, HandlersKnowTheirs
  <2> QED
    BY <1>1, <1>3, <2>1 DEF AuthorityInv, HandlersKnowTheirs
<1>10. StoredIsConsumed'
  BY <1>1 DEF AuthorityInv, StoredIsConsumed
<1>11. \A i \in 1..Len(capabilities) :
         /\ runs'[capabilities[i].run] = runs[capabilities[i].run]
         /\ runs'[capabilities[i].run].input # None
         /\ AllowedByPolicy(capabilities[i])' \/ ApprovedByHuman(capabilities[i])'
  <2> SUFFICES ASSUME NEW i \in 1..Len(capabilities)
               PROVE  /\ runs'[capabilities[i].run] = runs[capabilities[i].run]
                      /\ runs'[capabilities[i].run].input # None
                      /\ \/ AllowedByPolicy(capabilities[i])'
                         \/ ApprovedByHuman(capabilities[i])'
    OBVIOUS
  <2>1. capabilities'[i] = capabilities[i]
    BY <1>4, <1>5
  <2>2. runs'[capabilities[i].run] = runs[capabilities[i].run]
    BY <1>3, <1>6
  <2> QED
    BY <1>1, <2>1, <2>2
    DEF AuthorityInv, CapabilitiesAreGrounded, AllowedByPolicy, ApprovedByHuman
<1>12. CASE outcome = "ALLOW"
  <2>1. /\ capabilities' = Append(capabilities, first)
        /\ Len(capabilities') = Len(capabilities) + 1 /\ Len(capabilities) \in Nat
        /\ capabilities'[Len(capabilities) + 1] = first
        /\ \A i \in 1..Len(capabilities) : capabilities'[i] = capabilities[i]
    BY <1>4, <1>5, <1>12
  <2>2. AllowedByPolicy(first)'
    BY <1>3, <1>12 DEF AllowedByPolicy
  <2>3. CapabilitiesAreGrounded'
    <3> SUFFICES ASSUME NEW i \in 1..(Len(capabilities) + 1)
                 PROVE  /\ runs'[capabilities'[i].run].input # None
                        /\ \/ AllowedByPolicy(capabilities[i])'
                           \/ ApprovedByHuman(capabilities[i])'
      BY <2>1 DEF CapabilitiesAreGrounded
    <3>1. CASE i = Len(capabilities) + 1
      BY <1>1, <1>3, <2>1, <2>2, <3>1 DEF AllowedByPolicy
    <3>2. CASE i \in 1..Len(capabilities)
      BY <1>11, <2>1, <3>2 DEF AllowedByPolicy, ApprovedByHuman
    <3> QED
      BY <2>1, <3>1, <3>2
  <2>4. ApprovalIsSingleUse'
    <3>1. None \notin Approvals
      BY AuthorityAssumption
    <3>2. DOMAIN capabilities' = 1..(Len(capabilities) + 1)
          /\ DOMAIN capabilities = 1..Len(capabilities)
      BY <1>5, <2>1
    <3>3. \A h \in Handlers : handlers[h].at = "stored" => handlers[h].approval \in Approvals
      BY DEF AuthorityInv, HandlersKnowTheirs
    <3>4. \A i \in 1..(Len(capabilities) + 1) :
            i \in 1..Len(capabilities) \/ capabilities'[i].approval = None
      BY <2>1
    <3> QED
      BY <1>1, <2>1, <3>1, <3>2, <3>3, <3>4 DEF AuthorityInv, ApprovalIsSingleUse
  <2>5. OneCapabilityPerRun'
    <3>1. DOMAIN capabilities' = 1..(Len(capabilities) + 1)
          /\ DOMAIN capabilities = 1..Len(capabilities)
      BY <1>5, <2>1
    <3>2. \A i \in 1..(Len(capabilities) + 1) :
            IF i = Len(capabilities) + 1 THEN capabilities'[i].run = r
            ELSE i \in 1..Len(capabilities) /\ capabilities'[i] = capabilities[i]
      BY <2>1
    <3> QED
      BY <1>3, <1>6, <1>11, <1>12, <3>1, <3>2 DEF AuthorityInv, OneCapabilityPerRun
  <2> QED
    BY <1>7, <1>8, <1>9, <1>10, <2>3, <2>4, <2>5 DEF AuthorityInv
<1>13. CASE outcome # "ALLOW"
  <2>1. capabilities' = capabilities
    BY <1>4, <1>13
  <2>2. CapabilitiesAreGrounded'
    BY <1>11, <2>1 DEF CapabilitiesAreGrounded, AllowedByPolicy, ApprovedByHuman
  <2>3. ApprovalIsSingleUse'
    BY <1>1, <2>1 DEF AuthorityInv, ApprovalIsSingleUse
  <2>4. OneCapabilityPerRun'
    <3>1. DOMAIN capabilities = 1..Len(capabilities)
      BY <1>5
    <3> QED
      BY <1>11, <2>1, <3>1 DEF AuthorityInv, OneCapabilityPerRun
  <2> QED
    BY <1>7, <1>8, <1>9, <1>10, <2>2, <2>3, <2>4 DEF AuthorityInv
<1> QED
  BY <1>12, <1>13

(* What leaves every consumed approval, every run and every capability as it
   is disturbs no capability. *)
LEMMA SpentApprovalsGround ==
  ASSUME AuthorityInv, UNCHANGED <<runs, capabilities>>,
         \A a \in Approvals : approvals[a].status = "consumed" => approvals'[a] = approvals[a]
  PROVE  CapabilitiesAreGrounded' /\ OneCapabilityPerRun' /\ RunsAreJudged'
<1>1. ASSUME NEW i \in 1..Len(capabilities)
      PROVE  /\ runs'[capabilities'[i].run].input # None
             /\ AllowedByPolicy(capabilities[i])' \/ ApprovedByHuman(capabilities[i])'
  <2>1. CASE AllowedByPolicy(capabilities[i])
    BY <2>1 DEF AuthorityInv, CapabilitiesAreGrounded, AllowedByPolicy
  <2>2. CASE ApprovedByHuman(capabilities[i])
    BY <2>2 DEF AuthorityInv, CapabilitiesAreGrounded, ApprovedByHuman
  <2> QED
    BY <2>1, <2>2 DEF AuthorityInv, CapabilitiesAreGrounded
<1>2. CapabilitiesAreGrounded'
  BY <1>1 DEF CapabilitiesAreGrounded
<1>3. OneCapabilityPerRun' /\ RunsAreJudged'
  BY DEF AuthorityInv, OneCapabilityPerRun, RunsAreJudged
<1> QED
  BY <1>2, <1>3

(* Giving or withdrawing an approval touches none that is consumed. *)
LEMMA StoreKeepsInv ==
  ASSUME AuthorityInv, NEW a \in Approvals,
         Invalidate(a) \/ \E r \in Runs : Approve(a, r)
  PROVE  AuthorityInv'
<1>1. /\ UNCHANGED <<now, policyVersion, runs, handlers, capabilities>>
      /\ approvals[a].status # "consumed"
      /\ \A b \in Approvals \ {a} : approvals'[b] = approvals[b]
  BY DEF Invalidate, Approve, AuthorityInv, TypeOK
<1>2. approvals' \in [Approvals -> Approval]
  <2>1. CASE Invalidate(a)
    BY <2>1 DEF Invalidate, AuthorityInv, TypeOK, Approval, ApprovalStatus
  <2>2. ASSUME NEW r \in Runs, Approve(a, r) PROVE approvals' \in [Approvals -> Approval]
    <3>1. now + ApprovalTTL \in Nat /\ policyVersion \in Nat
      BY AuthorityAssumption DEF AuthorityInv, TypeOK
    <3> QED
      BY <2>2, <3>1 DEF Approve, AuthorityInv, TypeOK, Approval, ApprovalStatus
  <2> QED
    BY <2>1, <2>2
<1>3. \A b \in Approvals : approvals[b].status = "consumed" => approvals'[b] = approvals[b]
  BY <1>1
<1>4. TypeOK'
  BY <1>1, <1>2 DEF AuthorityInv, TypeOK
<1>5. CapabilitiesAreGrounded' /\ OneCapabilityPerRun' /\ RunsAreJudged'
  BY <1>1, <1>3, SpentApprovalsGround
<1>6. HandlersKnowTheirs' /\ ApprovalIsSingleUse'
  BY <1>1 DEF AuthorityInv, HandlersKnowTheirs, ApprovalIsSingleUse
<1>7. StoredIsConsumed'
  BY <1>1, <1>3 DEF AuthorityInv, StoredIsConsumed, HandlersKnowTheirs
<1> QED
  BY <1>4, <1>5, <1>6, <1>7 DEF AuthorityInv

(* Reading an approval, for the first time or again, decides nothing. *)
LEMMA ReadsKeepInv ==
  ASSUME AuthorityInv, NEW h \in Handlers,
         Reload(h) \/ \E r \in Runs, a \in Approvals : Load(h, r, a)
  PROVE  AuthorityInv'
<1>1. /\ UNCHANGED <<now, policyVersion, runs, approvals, capabilities>>
      /\ handlers'[h].at = "loaded"
      /\ \A g \in Handlers \ {h} : handlers'[g] = handlers[g]
  BY DEF Reload, Load, AuthorityInv, TypeOK, HandlerRecord
<1>2. /\ handlers' \in [Handlers -> HandlerRecord]
      /\ handlers'[h].run \in Runs /\ handlers'[h].approval \in Approvals
      /\ runs[handlers'[h].run].input # None
      /\ runs[handlers'[h].run].outcome = "REQUIRE_APPROVAL"
  <2>1. CASE Reload(h)
    <3>1. handlers[h].approval \in Approvals /\ handlers[h].run \in Runs
          /\ runs[handlers[h].run].input # None
          /\ runs[handlers[h].run].outcome = "REQUIRE_APPROVAL"
      BY <2>1 DEF Reload, AuthorityInv, HandlersKnowTheirs
    <3>2. approvals[handlers[h].approval] \in Approval
      BY <3>1 DEF AuthorityInv, TypeOK
    <3> QED
      BY <2>1, <3>1, <3>2 DEF Reload, AuthorityInv, TypeOK, HandlerRecord
  <2>2. ASSUME NEW r \in Runs, NEW a \in Approvals, Load(h, r, a)
        PROVE  /\ handlers' \in [Handlers -> HandlerRecord]
               /\ handlers'[h].run \in Runs /\ handlers'[h].approval \in Approvals
               /\ runs[handlers'[h].run].input # None
               /\ runs[handlers'[h].run].outcome = "REQUIRE_APPROVAL"
    <3>1. runs[r].input # None /\ runs[r].outcome = "REQUIRE_APPROVAL"
      BY <2>2 DEF Load, AuthorityInv, RunsAreJudged
    <3>2. approvals[a] \in Approval
      BY DEF AuthorityInv, TypeOK
    <3> QED
      BY <2>2, <3>1, <3>2 DEF Load, AuthorityInv, TypeOK, HandlerRecord
  <2> QED
    BY <2>1, <2>2
<1>3. TypeOK'
  BY <1>1, <1>2 DEF AuthorityInv, TypeOK
<1>4. CapabilitiesAreGrounded' /\ OneCapabilityPerRun' /\ RunsAreJudged'
  BY <1>1, SpentApprovalsGround
<1>5. HandlersKnowTheirs' /\ StoredIsConsumed' /\ ApprovalIsSingleUse'
  BY <1>1, <1>2
  DEF AuthorityInv, HandlersKnowTheirs, StoredIsConsumed, ApprovalIsSingleUse
<1> QED
  BY <1>3, <1>4, <1>5 DEF AuthorityInv

(* Consuming: what was read is still stored, so it is active there, and
   nothing that goes on or has gone on rests on it. *)
LEMMA ConsumeKeepsInv ==
  ASSUME AuthorityInv, NEW h \in Handlers, Consume(h)
  PROVE  AuthorityInv'
<1> DEFINE a == handlers[h].approval
           r == handlers[h].run
           read == handlers[h].copy
<1>1. /\ a \in Approvals /\ r \in Runs /\ read \in Approval
      /\ runs[r].input # None /\ runs[r].outcome = "REQUIRE_APPROVAL"
  BY DEF Consume, AuthorityInv, HandlersKnowTheirs, TypeOK, HandlerRecord
<1>2. /\ read.status = "active" /\ read.run = r /\ now < read.expiresAt
      /\ approvals[a] = read
  <2>1. now \in Nat /\ read.expiresAt \in Nat
    BY <1>1, AuthorityAssumption DEF AuthorityInv, TypeOK, Approval
  <2>2. read.status = "active" /\ read.run = r /\ ~ (read.expiresAt <= now)
    <3>1. CheckApproval(read, r) = "ok"
      BY DEF Consume
    <3> QED
      BY <3>1 DEF CheckApproval
  <2> QED
    BY <2>1, <2>2 DEF Consume, Swaps
<1>3. /\ UNCHANGED <<now, policyVersion, runs, capabilities>>
      /\ approvals' = [approvals EXCEPT ![a] = Consumed(read)]
      /\ handlers' = [handlers EXCEPT ![h].at = "stored", ![h].usedAt = now,
                                      ![h].copy = Consumed(read)]
  BY DEF Consume
<1>4. /\ Consumed(read) \in Approval /\ Consumed(read).status = "consumed"
      /\ Consumed(read).run = r /\ now < Consumed(read).expiresAt
  BY <1>1, <1>2 DEF Consumed, Approval, ApprovalStatus
<1>5. /\ approvals'[a] = Consumed(read)
      /\ \A b \in Approvals \ {a} : approvals'[b] = approvals[b]
      /\ approvals' \in [Approvals -> Approval]
  BY <1>1, <1>3, <1>4 DEF AuthorityInv, TypeOK
<1>6. /\ handlers'[h].at = "stored" /\ handlers'[h].run = r
      /\ handlers'[h].approval = a /\ handlers'[h].usedAt = now
      /\ \A g \in Handlers \ {h} : handlers'[g] = handlers[g]
  BY <1>3 DEF AuthorityInv, TypeOK, HandlerRecord
<1>7. handlers' \in [Handlers -> HandlerRecord]
  <2>1. now \in Nat
    BY AuthorityAssumption DEF AuthorityInv, TypeOK
  <2>2. handlers \in [Handlers -> HandlerRecord]
    BY DEF AuthorityInv, TypeOK
  <2>3. handlers[h] \in HandlerRecord
    BY <2>2
  <2>4. [handlers[h] EXCEPT !.at = "stored", !.usedAt = now, !.copy = Consumed(read)]
          \in HandlerRecord
    BY <1>4, <2>1, <2>3 DEF HandlerRecord
  <2> QED
    BY <1>3, <2>2, <2>4
<1>8. TypeOK'
  BY <1>3, <1>5, <1>7 DEF AuthorityInv, TypeOK
<1>9. CapabilitiesAreGrounded' /\ OneCapabilityPerRun' /\ RunsAreJudged'
  <2>1. \A b \in Approvals : approvals[b].status = "consumed" => approvals'[b] = approvals[b]
    BY <1>2, <1>5
  <2> QED
    BY <1>3, <2>1, SpentApprovalsGround
<1>10. HandlersKnowTheirs'
  BY <1>1, <1>3, <1>6 DEF AuthorityInv, HandlersKnowTheirs
<1>11. StoredIsConsumed'
  <2>1. \A g \in Handlers \ {h} : handlers[g].at = "stored" => handlers[g].approval # a
    BY <1>2 DEF AuthorityInv, StoredIsConsumed
  <2>2. \A g \in Handlers \ {h} : handlers[g].at = "stored" => handlers[g].approval \in Approvals
    BY DEF AuthorityInv, HandlersKnowTheirs
  <2> QED
    BY <1>4, <1>5, <1>6, <2>1, <2>2 DEF AuthorityInv, StoredIsConsumed
<1>12. ApprovalIsSingleUse'
  <2>1. \A g \in Handlers \ {h} : handlers[g].at = "stored" => handlers[g].approval # a
    BY <1>2 DEF AuthorityInv, StoredIsConsumed
  <2>2. \A i \in DOMAIN capabilities : capabilities[i].approval # a
    <3>1. DOMAIN capabilities = 1..Len(capabilities)
      BY DEF AuthorityInv, TypeOK
    <3>2. None \notin Approvals
      BY AuthorityAssumption
    <3> QED
      BY <1>1, <1>2, <3>1, <3>2
      DEF AuthorityInv, CapabilitiesAreGrounded, AllowedByPolicy, ApprovedByHuman
  <2>3. ASSUME NEW g \in Handlers, handlers'[g].at = "stored"
        PROVE  /\ \A f \in Handlers \ {g} :
                    handlers'[f].at = "stored" => handlers'[f].approval # handlers'[g].approval
               /\ \A i \in DOMAIN capabilities :
                    capabilities[i].approval # handlers'[g].approval
    <3>1. CASE g = h
      BY <1>6, <2>1, <2>2, <3>1
    <3>2. CASE g # h
      BY <1>6, <2>1, <2>3, <3>2 DEF AuthorityInv, ApprovalIsSingleUse
    <3> QED
      BY <3>1, <3>2
  <2> QED
    BY <1>3, <2>3 DEF ApprovalIsSingleUse
<1> QED
  BY <1>8, <1>9, <1>10, <1>11, <1>12 DEF AuthorityInv

(* A refusal moves at most a run that waits, and no capability is its. *)
LEMMA RefuseKeepsInv ==
  ASSUME AuthorityInv, NEW h \in Handlers, Refuse(h)
  PROVE  AuthorityInv'
<1> DEFINE r == handlers[h].run
           check == CheckApproval(handlers[h].copy, r)
           moved == Moved(r, SelectApprovalTrigger(check))
<1>1. r \in Runs /\ runs[r].state \in RunStates
  BY DEF Refuse, AuthorityInv, HandlersKnowTheirs, TypeOK
<1>2. /\ moved \in RunStates
      /\ runs[r].state # "APPROVAL_REQUIRED" => moved = runs[r].state
      /\ moved # "APPROVAL_REQUIRED" => moved = runs[r].state \/ moved \in {"EXPIRED", "CONFLICT"}
  <2>1. check # "ok"
    BY DEF Refuse
  <2> QED
    BY <1>1, <2>1, RefusalMoves
<1>3. /\ runs' = [runs EXCEPT ![r].state = moved]
      /\ handlers' = [handlers EXCEPT ![h] = Idle]
      /\ UNCHANGED <<now, policyVersion, approvals, capabilities>>
  BY DEF Refuse
<1> HIDE DEF moved, check
<1>4. /\ runs'[r].state = moved
      /\ \A q \in Runs : runs'[q].input = runs[q].input /\ runs'[q].outcome = runs[q].outcome
      /\ \A q \in Runs \ {r} : runs'[q] = runs[q]
      /\ \A q \in Runs : runs[q].state # "APPROVAL_REQUIRED" => runs'[q].state = runs[q].state
      /\ \A q \in Runs : runs'[q].state = "APPROVAL_REQUIRED" => runs[q].state = "APPROVAL_REQUIRED"
      /\ runs' \in [Runs -> [input : Inputs \cup {None}, outcome : PolicyOutcomes,
                             state : RunStates]]
  BY <1>1, <1>2, <1>3 DEF AuthorityInv, TypeOK
<1>5. /\ Idle \in HandlerRecord
      /\ handlers' \in [Handlers -> HandlerRecord]
      /\ handlers'[h].at = "idle"
      /\ \A g \in Handlers \ {h} : handlers'[g] = handlers[g]
  BY <1>3 DEF AuthorityInv, TypeOK, Idle, HandlerRecord, NoApproval, Approval, ApprovalStatus
<1>6. TypeOK'
  BY <1>3, <1>4, <1>5 DEF AuthorityInv, TypeOK
<1>7. RunsAreJudged'
  <2>1. \A q \in Runs : runs[q].input = None => runs'[q].state = "PROPOSED"
    BY <1>4 DEF AuthorityInv, RunsAreJudged
  <2> QED
    BY <1>4, <2>1 DEF AuthorityInv, RunsAreJudged
<1>8. HandlersKnowTheirs' /\ StoredIsConsumed' /\ ApprovalIsSingleUse'
  BY <1>3, <1>4, <1>5
  DEF AuthorityInv, HandlersKnowTheirs, StoredIsConsumed, ApprovalIsSingleUse
<1>9. \A i \in 1..Len(capabilities) : capabilities[i] \in Capability /\ capabilities[i].run \in Runs
  <2>1. capabilities \in Seq(Capability)
    BY DEF AuthorityInv, TypeOK
  <2>2. \A i \in 1..Len(capabilities) : capabilities[i] \in Capability
    BY <2>1
  <2> QED
    BY <2>2 DEF Capability
<1>10. CapabilitiesAreGrounded'
  BY <1>3, <1>4, <1>9
  DEF AuthorityInv, CapabilitiesAreGrounded, AllowedByPolicy, ApprovedByHuman
<1>11. OneCapabilityPerRun'
  <2>1. DOMAIN capabilities = 1..Len(capabilities)
    BY DEF AuthorityInv, TypeOK
  <2> QED
    BY <1>3, <1>4, <1>9, <2>1 DEF AuthorityInv, OneCapabilityPerRun
<1> QED
  BY <1>6, <1>7, <1>8, <1>10, <1>11 DEF AuthorityInv

(* A grant mints only when the run was waiting, and a run that waits has no
   capability; the approval it rests on is nobody else's. *)
LEMMA GrantKeepsInv ==
  ASSUME AuthorityInv, NEW h \in Handlers, Grant(h)
  PROVE  AuthorityInv'
<1> DEFINE a == handlers[h].approval
           r == handlers[h].run
           moved == Moved(r, "matching_approval")
           granted == [run |-> r, evidence |-> "approved", approval |-> a,
                       usedAt |-> handlers[h].usedAt]
<1>1. /\ handlers[h].at = "stored" /\ handlers[h] \in HandlerRecord
      /\ a \in Approvals /\ r \in Runs
      /\ runs[r].input # None /\ runs[r].outcome = "REQUIRE_APPROVAL"
      /\ runs[r].state \in RunStates
  BY DEF Grant, AuthorityInv, HandlersKnowTheirs, TypeOK
<1>2. /\ runs' = [runs EXCEPT ![r].state = moved]
      /\ handlers' = [handlers EXCEPT ![h] = Idle]
      /\ UNCHANGED <<now, policyVersion, approvals>>
      /\ capabilities' = IF Grants(h) THEN Append(capabilities, granted) ELSE capabilities
  BY DEF Grant, SelectApprovalTrigger
<1>3. moved = IF runs[r].state = "APPROVAL_REQUIRED" THEN "AUTHORIZED" ELSE runs[r].state
  <2>1. None # "matching_approval"
    BY AuthorityAssumption
  <2>2. CASE runs[r].state # "APPROVAL_REQUIRED"
    <3>1. Transition(runs[r].state, "matching_approval") = Illegal
      BY <2>2, ApprovalTransitions
    <3> QED
      BY <2>2, <3>1 DEF Moved
  <2>3. CASE runs[r].state = "APPROVAL_REQUIRED"
    <3>1. Transition(runs[r].state, "matching_approval") = "AUTHORIZED"
      BY <2>3, ApprovalTransitions
    <3> QED
      BY <2>1, <2>3, <3>1 DEF Moved, Illegal
  <2> QED
    BY <2>2, <2>3
<1>4. Grants(h) => runs[r].state = "APPROVAL_REQUIRED"
  BY ApprovalTransitions DEF Grants, SelectApprovalTrigger
<1> HIDE DEF moved
<1>5. /\ runs'[r].state = moved /\ moved \in RunStates
      /\ \A q \in Runs : runs'[q].input = runs[q].input /\ runs'[q].outcome = runs[q].outcome
      /\ \A q \in Runs \ {r} : runs'[q] = runs[q]
      /\ \A q \in Runs : runs[q].state # "APPROVAL_REQUIRED" => runs'[q].state = runs[q].state
      /\ \A q \in Runs : runs'[q].state = "APPROVAL_REQUIRED" => runs[q].state = "APPROVAL_REQUIRED"
      /\ runs' \in [Runs -> [input : Inputs \cup {None}, outcome : PolicyOutcomes,
                             state : RunStates]]
  <2>1. moved \in RunStates
    BY <1>1, <1>3 DEF RunStates
  <2>2. runs \in [Runs -> [input : Inputs \cup {None}, outcome : PolicyOutcomes,
                           state : RunStates]]
    BY DEF AuthorityInv, TypeOK
  <2>3. /\ runs'[r] = [runs[r] EXCEPT !.state = moved]
        /\ \A q \in Runs \ {r} : runs'[q] = runs[q]
    BY <1>1, <1>2, <2>2
  <2>4. /\ runs'[r].state = moved
        /\ runs'[r].input = runs[r].input /\ runs'[r].outcome = runs[r].outcome
    BY <1>1, <2>2, <2>3
  <2>5. runs' \in [Runs -> [input : Inputs \cup {None}, outcome : PolicyOutcomes,
                            state : RunStates]]
    BY <1>1, <1>2, <2>1, <2>2
  <2> QED
    BY <1>3, <2>1, <2>3, <2>4, <2>5
<1>6. /\ handlers' \in [Handlers -> HandlerRecord]
      /\ handlers'[h].at = "idle"
      /\ \A g \in Handlers \ {h} : handlers'[g] = handlers[g]
  BY <1>2 DEF AuthorityInv, TypeOK, Idle, HandlerRecord, NoApproval, Approval, ApprovalStatus
<1>7. granted \in Capability /\ capabilities \in Seq(Capability)
  BY <1>1 DEF AuthorityInv, TypeOK, HandlerRecord, Capability
<1>8. /\ granted.run = r /\ granted.approval = a
      /\ granted.evidence = "approved" /\ granted.usedAt = handlers[h].usedAt
  OBVIOUS
<1> HIDE DEF granted
<1>9. TypeOK'
  <2>1. capabilities' \in Seq(Capability)
    BY <1>2, <1>7
  <2> QED
    BY <1>2, <1>5, <1>6, <2>1 DEF AuthorityInv, TypeOK
<1>10. RunsAreJudged'
  <2>1. \A q \in Runs : runs[q].input = None => runs'[q].state = "PROPOSED"
    BY <1>5 DEF AuthorityInv, RunsAreJudged
  <2> QED
    BY <1>5, <2>1 DEF AuthorityInv, RunsAreJudged
<1>11. HandlersKnowTheirs' /\ StoredIsConsumed'
  BY <1>2, <1>5, <1>6 DEF AuthorityInv, HandlersKnowTheirs, StoredIsConsumed
<1>12. \A i \in 1..Len(capabilities) : capabilities[i] \in Capability /\ capabilities[i].run \in Runs
  <2>1. \A i \in 1..Len(capabilities) : capabilities[i] \in Capability
    BY <1>7
  <2> QED
    BY <2>1 DEF Capability
<1>13. CASE ~ Grants(h)
  <2>1. capabilities' = capabilities /\ DOMAIN capabilities = 1..Len(capabilities)
    BY <1>2, <1>7, <1>13
  <2>2. CapabilitiesAreGrounded'
    <3> SUFFICES ASSUME NEW i \in 1..Len(capabilities)
                 PROVE  /\ runs'[capabilities[i].run].input # None
                        /\ \/ AllowedByPolicy(capabilities[i])'
                           \/ ApprovedByHuman(capabilities[i])'
      BY <2>1 DEF CapabilitiesAreGrounded
    <3>1. /\ runs[capabilities[i].run].input # None
          /\ AllowedByPolicy(capabilities[i]) \/ ApprovedByHuman(capabilities[i])
      BY DEF AuthorityInv, CapabilitiesAreGrounded
    <3> QED
      BY <1>2, <1>5, <1>12, <2>1, <3>1 DEF AllowedByPolicy, ApprovedByHuman
  <2>3. ApprovalIsSingleUse'
    BY <1>6, <2>1 DEF AuthorityInv, ApprovalIsSingleUse
  <2>4. OneCapabilityPerRun'
    BY <1>5, <1>12, <2>1 DEF AuthorityInv, OneCapabilityPerRun
  <2> QED
    BY <1>9, <1>10, <1>11, <2>2, <2>3, <2>4 DEF AuthorityInv
<1>14. CASE Grants(h)
  <2>1. /\ capabilities' = Append(capabilities, granted)
        /\ Len(capabilities) \in Nat /\ Len(capabilities') = Len(capabilities) + 1
        /\ capabilities'[Len(capabilities) + 1] = granted
        /\ \A i \in 1..Len(capabilities) : capabilities'[i] = capabilities[i]
        /\ DOMAIN capabilities = 1..Len(capabilities)
        /\ DOMAIN capabilities' = 1..(Len(capabilities) + 1)
    BY <1>2, <1>7, <1>14
  <2>2. ASSUME NEW i \in 1..(Len(capabilities) + 1)
        PROVE  \/ i = Len(capabilities) + 1 /\ capabilities'[i] = granted
               \/ i \in 1..Len(capabilities) /\ capabilities'[i] = capabilities[i]
    BY <2>1
  <2>3. CapabilitiesAreGrounded'
    <3> SUFFICES ASSUME NEW i \in 1..(Len(capabilities) + 1)
                 PROVE  /\ runs'[capabilities'[i].run].input # None
                        /\ \/ AllowedByPolicy(capabilities[i])'
                           \/ ApprovedByHuman(capabilities[i])'
      BY <2>1 DEF CapabilitiesAreGrounded
    <3>1. CASE capabilities'[i] = granted
      <4>1. /\ approvals[a].status = "consumed" /\ approvals[a].run = r
            /\ handlers[h].usedAt < approvals[a].expiresAt
        BY <1>1 DEF AuthorityInv, StoredIsConsumed
      <4> QED
        BY <1>1, <1>2, <1>5, <1>8, <3>1, <4>1 DEF ApprovedByHuman
    <3>2. CASE i \in 1..Len(capabilities) /\ capabilities'[i] = capabilities[i]
      BY <1>2, <1>5, <1>12, <3>2
      DEF AuthorityInv, CapabilitiesAreGrounded, AllowedByPolicy, ApprovedByHuman
    <3> QED
      BY <2>2, <3>1, <3>2
  <2>4. ApprovalIsSingleUse'
    <3>1. \A g \in Handlers \ {h} : handlers[g].at = "stored" => handlers[g].approval # a
      BY <1>1 DEF AuthorityInv, ApprovalIsSingleUse
    <3>2. ASSUME NEW g \in Handlers \ {h}, handlers[g].at = "stored",
                 NEW i \in 1..(Len(capabilities) + 1)
          PROVE  capabilities'[i].approval # handlers[g].approval
      BY <1>8, <2>1, <2>2, <3>1, <3>2 DEF AuthorityInv, ApprovalIsSingleUse
    <3> QED
      BY <1>6, <2>1, <3>2 DEF AuthorityInv, ApprovalIsSingleUse
  <2>5. OneCapabilityPerRun'
    <3>1. runs[r].state = "APPROVAL_REQUIRED" /\ runs'[r].state = "AUTHORIZED"
      BY <1>3, <1>4, <1>5, <1>14 DEF moved
    <3>2. \A i \in 1..Len(capabilities) : capabilities[i].run # r
      BY <2>1, <3>1 DEF AuthorityInv, OneCapabilityPerRun
    <3>3. \A i \in 1..Len(capabilities) : runs'[capabilities[i].run].state = "AUTHORIZED"
      BY <1>5, <1>12, <2>1 DEF AuthorityInv, OneCapabilityPerRun
    <3>4. ASSUME NEW i \in 1..(Len(capabilities) + 1), NEW j \in 1..(Len(capabilities) + 1),
                 capabilities'[i].run = capabilities'[j].run
          PROVE  i = j
      BY <1>8, <2>1, <2>2, <3>2, <3>4 DEF AuthorityInv, OneCapabilityPerRun
    <3>5. ASSUME NEW i \in 1..(Len(capabilities) + 1)
          PROVE  runs'[capabilities'[i].run].state = "AUTHORIZED"
      BY <1>8, <2>2, <3>1, <3>3
    <3> QED
      BY <2>1, <3>4, <3>5 DEF OneCapabilityPerRun
  <2> QED
    BY <1>9, <1>10, <1>11, <2>3, <2>4, <2>5 DEF AuthorityInv
<1> QED
  BY <1>13, <1>14

-----------------------------------------------------------------------------

LEMMA InvKept == AuthorityInv /\ [Next]_vars => AuthorityInv'
<1> SUFFICES ASSUME AuthorityInv, [Next]_vars PROVE AuthorityInv'
  OBVIOUS
<1>1. CASE Tick \/ ChangePolicy \/ UNCHANGED vars
  BY <1>1, ClocksKeepInv
<1>2. ASSUME NEW r \in Runs, NEW input \in Inputs, Propose(r, input) PROVE AuthorityInv'
  BY <1>2, ProposeKeepsInv
<1>3. ASSUME NEW a \in Approvals, Invalidate(a) \/ \E r \in Runs : Approve(a, r)
      PROVE  AuthorityInv'
  BY <1>3, StoreKeepsInv
<1>4. ASSUME NEW h \in Handlers, Reload(h) \/ \E r \in Runs, a \in Approvals : Load(h, r, a)
      PROVE  AuthorityInv'
  BY <1>4, ReadsKeepInv
<1>5. ASSUME NEW h \in Handlers, Consume(h) PROVE AuthorityInv'
  BY <1>5, ConsumeKeepsInv
<1>6. ASSUME NEW h \in Handlers, Refuse(h) PROVE AuthorityInv'
  BY <1>6, RefuseKeepsInv
<1>7. ASSUME NEW h \in Handlers, Grant(h) PROVE AuthorityInv'
  BY <1>7, GrantKeepsInv
<1> QED
  BY <1>1, <1>2, <1>3, <1>4, <1>5, <1>6, <1>7 DEF Next

LEMMA InvHolds == Spec => []AuthorityInv
  BY InvInitially, InvKept, PTL DEF Spec

(* Every variable has its type: no run, in particular, is ever in the state an
   illegal transition() stands for. *)
THEOREM TypeCorrect == Spec => []TypeOK
<1>1. AuthorityInv => TypeOK
  BY DEF AuthorityInv
<1> QED
  BY <1>1, InvHolds, PTL

(* An approval is consumed by at most one of the handlers that submit it, and
   by none after it has led to a capability: consumeApproval's check together
   with the compare and swap its comment asks for. *)
THEOREM SingleUse == Spec => []ApprovalIsSingleUse
<1>1. AuthorityInv => ApprovalIsSingleUse
  BY DEF AuthorityInv
<1> QED
  BY <1>1, InvHolds, PTL

(* An approval that a handler has used up was given for that handler's run. *)
THEOREM ServesItsRun == Spec => []ApprovalServesItsRun
<1>1. AuthorityInv => ApprovalServesItsRun
  BY DEF AuthorityInv, StoredIsConsumed, ApprovalServesItsRun
<1> QED
  BY <1>1, InvHolds, PTL

(* A run gets one capability however many approvals it gets, and it is
   AUTHORIZED when it does. *)
THEOREM OneCapability == Spec => []OneCapabilityPerRun
<1>1. AuthorityInv => OneCapabilityPerRun
  BY DEF AuthorityInv
<1> QED
  BY <1>1, InvHolds, PTL

(* evaluatePolicy only allows reversible actions. *)
LEMMA AllowedIsReversible ==
  ASSUME NEW input \in PolicyInputs, EvaluatePolicy(input) = "ALLOW"
  PROVE  input.action \in ReversibleActions
  BY DEF EvaluatePolicy, PolicyInputs, ActionTypes, ForbiddenOperations

(* No capability without authority: the policy's for what can be undone, or a
   human's, unexpired when it was used, for this very proposal. *)
THEOREM Authorized == Spec => []CapabilityHasAuthority
<1>1. AuthorityInv => CapabilityHasAuthority
  <2> SUFFICES ASSUME AuthorityInv, NEW i \in DOMAIN capabilities
               PROVE  LET c == capabilities[i] IN
                      CASE c.evidence = "policy-allow" ->
                             /\ runs[c.run].outcome = "ALLOW"
                             /\ runs[c.run].input.action \in ReversibleActions
                        [] c.evidence = "approved" ->
                             /\ runs[c.run].outcome = "REQUIRE_APPROVAL"
                             /\ approvals[c.approval].status = "consumed"
                             /\ approvals[c.approval].run = c.run
                             /\ c.usedAt < approvals[c.approval].expiresAt
    BY DEF CapabilityHasAuthority
  <2> DEFINE c == capabilities[i]
  <2>1. i \in 1..Len(capabilities) /\ c.run \in Runs
    <3>1. capabilities \in Seq(Capability)
      BY DEF AuthorityInv, TypeOK
    <3>2. i \in 1..Len(capabilities) /\ capabilities[i] \in Capability
      BY <3>1
    <3> QED
      BY <3>2 DEF Capability
  <2>2. runs[c.run].input # None /\ (AllowedByPolicy(c) \/ ApprovedByHuman(c))
    BY <2>1 DEF AuthorityInv, CapabilitiesAreGrounded
  <2>3. CASE AllowedByPolicy(c)
    <3>1. runs[c.run].input \in PolicyInputs
      BY <2>1, <2>2, AuthorityAssumption DEF AuthorityInv, TypeOK
    <3>2. runs[c.run].outcome = EvaluatePolicy(runs[c.run].input)
      BY <2>1, <2>2 DEF AuthorityInv, RunsAreJudged
    <3> QED
      BY <2>3, <3>1, <3>2, AllowedIsReversible DEF AllowedByPolicy
  <2>4. CASE ApprovedByHuman(c)
    BY <2>4 DEF ApprovedByHuman
  <2> QED
    BY <2>2, <2>3, <2>4
<1> QED
  BY <1>1, InvHolds, PTL

(* The decision list of evaluatePolicy and the description by outcome say the
   same of every input. *)
THEOREM PolicyIsItsRules == Spec => []PolicyFollowsItsRules
<1>1. \A input \in PolicyInputs : EvaluatePolicy(input) = OutcomeByRules(input)
  BY DEF OutcomeByRules, EvaluatePolicy, PolicyInputs, Roles, ActionTypes,
         ReversibleActions, IrreversibleActions, CustomerImpactingActions,
         ForbiddenOperations
<1>2. AuthorityInv => PolicyFollowsItsRules
  BY <1>1, AuthorityAssumption
  DEF AuthorityInv, TypeOK, RunsAreJudged, PolicyFollowsItsRules
<1> QED
  BY <1>2, InvHolds, PTL

(* Nothing is stored over a consumed or withdrawn approval, whatever was read
   before it became so. *)
THEOREM SpentStays == Spec => SpentApprovalsStay
<1> DEFINE Stays == \A a \in Approvals :
                      approvals[a].status \in {"consumed", "invalidated"}
                        => approvals'[a] = approvals[a]
<1>1. AuthorityInv /\ [Next]_vars => [Stays]_vars
  <2> SUFFICES ASSUME AuthorityInv, Next PROVE Stays
    OBVIOUS
  <2>1. ASSUME UNCHANGED approvals PROVE Stays
    BY <2>1
  <2>2. ASSUME NEW a \in Approvals, Invalidate(a) \/ \E r \in Runs : Approve(a, r)
        PROVE  Stays
    BY <2>2 DEF Invalidate, Approve, AuthorityInv, TypeOK
  <2>3. ASSUME NEW h \in Handlers, Consume(h) PROVE Stays
    <3>1. /\ handlers[h].copy.status = "active"
          /\ approvals[handlers[h].approval] = handlers[h].copy
      <4>1. CheckApproval(handlers[h].copy, handlers[h].run) = "ok"
        BY <2>3 DEF Consume
      <4>2. handlers[h].copy.status = "active"
        BY <4>1 DEF CheckApproval
      <4> QED
        BY <2>3, <4>2 DEF Consume, Swaps
    <3>2. approvals' = [approvals EXCEPT ![handlers[h].approval] = Consumed(handlers[h].copy)]
      BY <2>3 DEF Consume
    <3> QED
      BY <3>1, <3>2 DEF AuthorityInv, TypeOK
  <2>4. ASSUME NEW r \in Runs, NEW input \in Inputs, Propose(r, input)
        PROVE  UNCHANGED approvals
    BY <2>4 DEF Propose
  <2>5. ASSUME NEW h \in Handlers, NEW r \in Runs, NEW a \in Approvals, Load(h, r, a)
        PROVE  UNCHANGED approvals
    BY <2>5 DEF Load
  <2>6. ASSUME NEW h \in Handlers, Reload(h) \/ Refuse(h) \/ Grant(h)
        PROVE  UNCHANGED approvals
    BY <2>6 DEF Reload, Refuse, Grant
  <2>7. ASSUME Tick \/ ChangePolicy PROVE UNCHANGED approvals
    BY <2>7 DEF Tick, ChangePolicy
  <2> HIDE DEF Stays
  <2> QED
    BY <2>1, <2>2, <2>3, <2>4, <2>5, <2>6, <2>7 DEF Next
<1>2. AuthorityInv /\ AuthorityInv' /\ [Next]_vars => [Stays]_vars
  BY <1>1
<1> QED
  BY <1>2, InvHolds, PTL DEF Spec, SpentApprovalsStay

=============================================================================
