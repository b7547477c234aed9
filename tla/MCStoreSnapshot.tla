--------------------------- MODULE MCStoreSnapshot ---------------------------
(* Small instances of StoreSnapshot for TLC. *)
EXTENDS StoreSnapshot, TLC

CONSTANTS t1, t2

MCValues == {[kind |-> "memory", items |-> {t1}], [kind |-> "memory", items |-> {t2}]}

Symmetry == Permutations(Writers) \cup Permutations(Category) \cup Permutations(Token)
=============================================================================
