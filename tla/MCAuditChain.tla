---------------------------- MODULE MCAuditChain ----------------------------
(***************************************************************************)
(* Instances of AuditChain for TLC.  Ledgers are interchangeable.          *)
(***************************************************************************)
EXTENDS AuditChain, TLC

SymmetricLedgers == Permutations(Ledgers)

=============================================================================
