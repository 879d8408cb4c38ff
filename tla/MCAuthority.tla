------------------------------ MODULE MCAuthority ------------------------------
(***************************************************************************)
(* Instances of Authority for TLC: an input for every rule of the policy,  *)
(* or one proposal that needs a human.                                     *)
(***************************************************************************)
EXTENDS Authority, TLC

Routine ==
  [role |-> "operator", action |-> "create_internal_ticket", status |-> "active",
   sameTenant |-> TRUE, owner |-> TRUE, dangling |-> FALSE, intentExpired |-> FALSE]

Message == [Routine EXCEPT !.action = "send_customer_message"]
Refund == [Routine EXCEPT !.action = "issue_refund"]

\* Of each class of inputs that a rule of the policy denies, one that the rules
\* after it would let pass; and one for each rule that does not deny.
Denied ==
  {[Routine EXCEPT !.role = "no_principal"], [Routine EXCEPT !.role = "unrecognized"],
   [Routine EXCEPT !.action = "mint_capability"],
   [Routine EXCEPT !.status = "unrecognized"], [Routine EXCEPT !.status = "closed"],
   [Routine EXCEPT !.sameTenant = FALSE], [Routine EXCEPT !.intentExpired = TRUE],
   [Message EXCEPT !.dangling = TRUE], Refund}
RuleInputs == Denied \cup {Routine, [Routine EXCEPT !.owner = FALSE], Message}
MessageOnly == {Message}

Symmetric == Permutations(Runs) \cup Permutations(Approvals) \cup Permutations(Handlers)

=============================================================================
