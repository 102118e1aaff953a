--------------------------- MODULE MCSessionSweep ---------------------------
(* An instance of SessionSweep for TLC. *)
EXTENDS SessionSweep

CONSTANTS k1, k2

FairSpec == SweepInit /\ [][SweepNext]_sweepVars /\ SweepFairness

=============================================================================
