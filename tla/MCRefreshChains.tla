--------------------------- MODULE MCRefreshChains ---------------------------
(* Instances of RefreshChains for TLC. *)
EXTENDS RefreshChains, TLC

CONSTANTS c1, c2, h1, h2, h3

Symmetry == Permutations(Codes) \cup Permutations(Handlers)

=============================================================================
