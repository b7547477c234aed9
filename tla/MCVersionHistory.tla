--------------------------- MODULE MCVersionHistory ---------------------------
(* Small instances of VersionHistory for TLC. *)
EXTENDS VersionHistory, TLC

Symmetry == Permutations(Body)
=============================================================================
