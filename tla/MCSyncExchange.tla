--------------------------- MODULE MCSyncExchange ---------------------------
(* Small instances of SyncExchange for TLC. *)
EXTENDS SyncExchange, TLC

\* Every node writes the same bytes for the same value, or the hub does not.
SameStyle    == [n \in Node |-> "sorted"]
ForeignStyle == [n \in Node |-> IF n = Hub THEN "inserted" ELSE "sorted"]

\* A value may be written again after it was replaced, or every write is new.
Rewritten == [t \in 1 .. MaxTime |-> Body]
Fresh     == [t \in 1 .. MaxTime |-> {t}]

Devices == Permutations(Client)
Values  == Permutations(Body)
=============================================================================
