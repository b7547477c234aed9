------------------------- MODULE MCCategoryStore -------------------------
(* Small instances of CategoryStore for TLC. *)
EXTENDS CategoryStoreInvariant, TLC

CONSTANTS t1, t2

\* Two memory values and the one-entry log a peer or a client may bring.
MCIncoming == {[kind |-> "memory", items |-> {t1}], [kind |-> "memory", items |-> {t2}]}
MCMixed    == {[kind |-> "memory", items |-> {t1}], [kind |-> "log", items |-> {t1}]}

Symmetry == Permutations(Writers)
=============================================================================
