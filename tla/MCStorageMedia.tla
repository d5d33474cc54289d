------------------------- MODULE MCStorageMedia -------------------------
EXTENDS LegacyExport, TLC

CONSTANTS n1, n2, c1, c2

(* DefaultName is n1, so only the contents are interchangeable. *)
Symmetry == Permutations(Contents)

=============================================================================
