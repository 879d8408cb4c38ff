-------------------------------- MODULE Policy --------------------------------
(***************************************************************************)
(* evaluatePolicy, the policy decision point: a pure function of what it   *)
(* is told about the principal, the action, the resource, the evidence and *)
(* the age of the intent.                                                  *)
(*                                                                         *)
(* An input says which class each of them falls in: the comparisons of     *)
(* tenants, owners, dates and evidence ids are made where it is built.     *)
(* Reason codes are left out: nothing in the code decides by them.         *)
(***************************************************************************)

Roles == {"operator", "finance", "admin"}

ReversibleActions == {"create_internal_ticket", "update_ticket_status"}
IrreversibleActions == {"send_customer_message", "issue_refund"}
CustomerImpactingActions == {"send_customer_message", "issue_refund"}
ActionTypes == ReversibleActions \cup IrreversibleActions

(* Names that are no action types: two lists of their own, and the rest. *)
ForbiddenOperations == {"alter_audit_event", "mint_capability", "unknown_operation"}

PolicyInputs ==
  [role : Roles \cup {"no_principal", "unrecognized"},
   action : ActionTypes \cup ForbiddenOperations,
   status : {"active", "closed", "archived", "unrecognized"},
   sameTenant : BOOLEAN,      \* principal and resource
   owner : BOOLEAN,           \* the principal owns the resource
   dangling : BOOLEAN,        \* an evidence reference resolves to nothing
   intentExpired : BOOLEAN]   \* a TTL was given and the intent is older

PolicyOutcomes == {"ALLOW", "REQUIRE_APPROVAL", "DENY"}

\* Mutant: a resource of the principal's own is allowed before it is asked
\* what the action does.
EvaluatePolicyOwnerFirst(input) ==
  IF \/ input.role \notin Roles \/ input.action \notin ActionTypes
     \/ input.status # "active" \/ ~ input.sameTenant \/ input.intentExpired
     \/ input.action = "issue_refund" /\ input.role # "finance"
     \/ input.action \in CustomerImpactingActions /\ input.dangling
  THEN "DENY"
  ELSE IF input.owner THEN "ALLOW" ELSE "REQUIRE_APPROVAL"

(* evaluateUnsafe, in its order, with a thrown error turned into a denial:
   assertValidRole and assertValidResourceStatus are the ones that throw. *)
EvaluatePolicy(input) ==
  IF input.role = "no_principal" THEN "DENY"
  ELSE IF input.role \notin Roles THEN "DENY"                   \* thrown
  ELSE IF input.action \in ForbiddenOperations THEN "DENY"
  ELSE IF input.status = "unrecognized" THEN "DENY"             \* thrown
  ELSE IF ~ input.sameTenant THEN "DENY"
  ELSE IF input.intentExpired THEN "DENY"
  ELSE IF input.action = "issue_refund" /\ input.role # "finance" THEN "DENY"
  ELSE IF input.action \in CustomerImpactingActions /\ input.dangling THEN "DENY"
  ELSE IF input.status # "active" THEN "DENY"
  ELSE IF input.action \in IrreversibleActions THEN "REQUIRE_APPROVAL"
  ELSE IF ~ input.owner THEN "REQUIRE_APPROVAL"
  ELSE "ALLOW"

(* The trigger a verdict fires once the proposal has been validated. *)
TriggerOfOutcome(outcome) ==
  CASE outcome = "DENY" -> "policy_deny"
    [] outcome = "REQUIRE_APPROVAL" -> "high_risk"
    [] outcome = "ALLOW" -> "low_risk_policy_allow"

(* The policy by outcome instead of by the order of its rules: only a
   reversible action on an active resource of the principal's own is allowed,
   and nothing goes to a human that no human may allow. *)
OutcomeByRules(input) ==
  LET sound == /\ input.role \in Roles /\ input.action \in ActionTypes
               /\ input.status = "active" /\ input.sameTenant
               /\ ~ input.intentExpired
      excluded == \/ input.action = "issue_refund" /\ input.role # "finance"
                  \/ input.action \in CustomerImpactingActions /\ input.dangling
      routine == input.action \in ReversibleActions /\ input.owner
  IN  IF ~ sound \/ excluded THEN "DENY"
      ELSE IF routine THEN "ALLOW" ELSE "REQUIRE_APPROVAL"

=============================================================================
