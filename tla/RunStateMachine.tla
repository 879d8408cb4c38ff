--------------------------- MODULE RunStateMachine ---------------------------
(***************************************************************************)
(* The table of legal transitions of a run, and transition(), the only     *)
(* function that produces a next state.                                    *)
(***************************************************************************)

RunStates ==
  {"PROPOSED", "VALIDATED", "APPROVAL_REQUIRED", "AUTHORIZED", "EXECUTING",
   "UNKNOWN_OUTCOME", "REJECTED", "DENIED", "STALE", "EXPIRED", "VERIFIED",
   "FAILED", "RECONCILIATION_REQUIRED", "REVOKED", "CONFLICT"}

(* TRANSITION_TABLE, as <<state, trigger, next state>>. *)
TransitionTable ==
  { <<"PROPOSED", "schema_pass", "VALIDATED">>,
    <<"PROPOSED", "schema_fail", "REJECTED">>,
    <<"VALIDATED", "policy_deny", "DENIED">>,
    <<"VALIDATED", "high_risk", "APPROVAL_REQUIRED">>,
    <<"VALIDATED", "low_risk_policy_allow", "AUTHORIZED">>,
    <<"APPROVAL_REQUIRED", "matching_approval", "AUTHORIZED">>,
    <<"APPROVAL_REQUIRED", "ttl_elapsed", "EXPIRED">>,
    <<"APPROVAL_REQUIRED", "capability_revoked", "REVOKED">>,
    <<"APPROVAL_REQUIRED", "concurrent_approval_conflict", "CONFLICT">>,
    <<"AUTHORIZED", "fresh_preconditions", "EXECUTING">>,
    <<"AUTHORIZED", "plan_or_resource_changed", "STALE">>,
    <<"AUTHORIZED", "capability_revoked", "REVOKED">>,
    <<"EXECUTING", "postcondition_pass", "VERIFIED">>,
    <<"EXECUTING", "deterministic_tool_failure", "FAILED">>,
    <<"EXECUTING", "timeout_transport_ambiguity", "UNKNOWN_OUTCOME">>,
    <<"UNKNOWN_OUTCOME", "lookup_confirms_success", "VERIFIED">>,
    <<"UNKNOWN_OUTCOME", "lookup_confirms_failure", "FAILED">>,
    <<"UNKNOWN_OUTCOME", "lookup_inconclusive", "RECONCILIATION_REQUIRED">> }

Illegal == "ILLEGAL_TRANSITION"

\* Mutant: an edge is found by its trigger alone.
TargetsOfTrigger(state, trigger) ==
  { edge[3] : edge \in { e \in TransitionTable : e[2] = trigger } }

TargetsOf(state, trigger) ==
  { edge[3] : edge \in { e \in TransitionTable : e[1] = state /\ e[2] = trigger } }

(* transition(): there is no default edge. *)
Transition(state, trigger) ==
  IF TargetsOf(state, trigger) = {} THEN Illegal
  ELSE CHOOSE next \in TargetsOf(state, trigger) : TRUE

IsTerminal(state) == \A edge \in TransitionTable : edge[1] # state

=============================================================================
