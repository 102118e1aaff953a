--------------------------- MODULE MCSessionVault ---------------------------
(* Small instances of SessionVault for TLC. *)
EXTENDS SessionVault, TLC

CONSTANTS k1, p1, p2, c1, c2

MCReplicas == {{p1}, {p2}}
ProcSymmetry == Permutations({p1, p2})
Symmetry == ProcSymmetry \cup Permutations({c1, c2})

\* A bound: the operator replaces the registration only before the first
\* flow.  MCSessionCallbacks replaces it at any time.
EarlyRotation == clientID' = clientID \/ claims = {}

=============================================================================
