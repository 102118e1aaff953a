------------------------- MODULE MCApprovalRecords -------------------------
(* Instances of ApprovalRecords for TLC. *)
EXTENDS ApprovalRecords, TLC

CONSTANTS t1, t2, r1, r2, b1, b2

Symmetry == Permutations({t1, t2}) \union Permutations({r1, r2}) \union Permutations({b1, b2})
=============================================================================
