------------------------- MODULE CategoryRegister -------------------------
(***************************************************************************)
(* What a store promises its clients: one value per category, changed by   *)
(* each call in one step.  A patch or an append is applied to the value of *)
(* that very instant, so none is lost; a write never replaces a log; no    *)
(* crash, retry or recovery changes a value.                               *)
(***************************************************************************)
CONSTANTS Category, Token, Incoming, Kinds, Absent

VARIABLE value

Log(v)   == v # Absent /\ v.kind = "log"
Items(v) == IF v = Absent THEN {} ELSE v.items

Init == value = [c \in Category |-> Absent]

Set(c, v) == value' = [value EXCEPT ![c] = v]

\* memory_write: the category must not be a log.
Replace(c, v) == "replace" \in Kinds /\ ~Log(value[c]) /\ Set(c, v)

Merge(c, t) ==
  /\ "merge" \in Kinds /\ ~Log(value[c])
  /\ Set(c, [kind |-> "memory", items |-> Items(value[c]) \cup {t}])

Drop(c, t) ==
  /\ "drop" \in Kinds /\ ~Log(value[c])
  /\ Set(c, [kind |-> "memory", items |-> Items(value[c]) \ {t}])

\* memory_append: the category is a log or is created as one.
Append(c, t) ==
  /\ "append" \in Kinds /\ (value[c] = Absent \/ Log(value[c]))
  /\ Set(c, [kind |-> "log", items |-> Items(value[c]) \cup {t}])

Delete(c) == "delete" \in Kinds /\ Set(c, Absent)

\* An import or a sync overwrites whatever it finds when it commits.
Overwrite(c, v) == Kinds \cap {"import", "upsert"} # {} /\ Set(c, v)

Next == \E c \in Category :
  \/ Delete(c)
  \/ \E v \in Incoming : Replace(c, v) \/ Overwrite(c, v)
  \/ \E t \in Token : Merge(c, t) \/ Drop(c, t) \/ Append(c, t)

Spec == Init /\ [][Next]_value
=============================================================================
