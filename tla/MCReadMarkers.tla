--------------------------- MODULE MCReadMarkers ---------------------------
(* Small instances of ReadMarkers for TLC. *)
EXTENDS ReadMarkers, TLC

CONSTANTS d1, d2, d3

M(at, id) == [at |-> at, id |-> id]

Tied == {M(1, 1), M(1, 2)}         \* same time: the id decides

Symmetry == Permutations({d1, d2, d3} \cap Devices)
=============================================================================
