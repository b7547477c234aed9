--------------------------- MODULE MCLogRetention ---------------------------
(* Small instances of LogRetention for TLC. *)
EXTENDS LogRetention, TLC

Symmetry == Permutations(Server)
=============================================================================
