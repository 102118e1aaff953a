--------------------------- MODULE MCApprovalSync ---------------------------
(* Instances of ApprovalSync for TLC. *)
EXTENDS ApprovalSync

CONSTANTS b1, c1

FairSpec == SyncSpec /\ SyncFairness

=============================================================================
