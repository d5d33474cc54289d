--------------------------- MODULE MCStorage ---------------------------
EXTENDS StorageProps, TLC

CONSTANTS n1, n2, n3, c1, c2

(* DefaultName is n1, so only the other names are interchangeable. *)
Symmetry == Permutations({n2, n3}) \cup Permutations(Contents)

=============================================================================
