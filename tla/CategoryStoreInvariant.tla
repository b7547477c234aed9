---------------------- MODULE CategoryStoreInvariant ----------------------
(***************************************************************************)
(* The inductive invariant of CategoryStore: what each phase of a call     *)
(* knows about the files and the row of its category.  It is what the      *)
(* safety properties rest on, for a store whose committed rows cannot be   *)
(* taken back by a power loss.                                             *)
(***************************************************************************)
EXTENDS CategoryStoreRefinement

\* Commits survive: synchronous = "full", or only processes die.
Durable == Synchronous = "full" \/ ~PowerCuts

RowOf(c) == db[c].row

InTxn(p) == pc[p] \in {"settling", "writing", "prepared"}

MyFiles(p, d) == {[id |-> MyFile(p), data |-> d]}

\* SQLite's write lock: exactly the process inside a transaction holds it.
LockInv == \A p \in Writers : InTxn(p) <=> lock = p

\* What a process still knows about the call it accepted.
RequestInv == \A p \in Writers : LET r == op[p] IN
  /\ pc[p] \in {"waiting", "settling"} /\ r.kind # "open" =>
       /\ r.kind \in Kinds /\ r.cat \in Category
       /\ r.kind # "clear" => todo[p] = {r.cat}
       /\ r.kind \in ValueKinds => r.value \in Incoming
       /\ r.kind \in TokenKinds => r.token \in Token
       /\ r.expected # Absent => r.kind \in CasKinds
  /\ pc[p] \in {"writing", "prepared", "committed"} =>
       /\ r.kind \in Kinds \ {"clear"} /\ r.cat \in Category
       /\ r.kind \in ValueKinds => r.value \in Incoming
       /\ r.kind \in TokenKinds => r.token \in Token
       /\ r.expected # Absent => r.kind \in CasKinds
  /\ pc[p] = "writing" => r.kind # "delete"
  /\ pc[p] \notin {"writing", "prepared", "committed"} => new[p] = Absent

\* The files of a category fit its row: they are clean, or there is one staged file (the
\* row is in the final file or in the staged one), or one parked file (still committed,
\* or without a row).
Fits(row, f, new_files, old_files) ==
  \/ new_files = {} /\ old_files = {} /\ f = row
  \/ \E g \in Staging : /\ new_files = {g} /\ old_files = {}
                        /\ row \in {f, g.data}
                        /\ row = Absent => f = Absent
  \/ \E g \in Parking : /\ new_files = {} /\ old_files = {g} /\ f = Absent
                        /\ row \in {Absent, g.data}

Shape(c) == Fits(RowOf(c), final[c], staged[c], parked[c])

ShapeInv == \A c \in Category : Shape(c)

At(p, where, c) == pc[p] = where /\ op[p].cat = c

\* Under the lock, the transaction's own file is the only one of the category and
\* the row is still the one its decision was taken on.
WritingInv == \A p \in Writers, c \in Category : At(p, "writing", c) =>
  /\ \E t \in Tears : staged[c] = MyFiles(p, t)
  /\ parked[c] = {} /\ final[c] = RowOf(c) /\ new[p] \in Content

PreparedInv == \A p \in Writers, c \in Category : At(p, "prepared", c) =>
  IF op[p].kind = "delete"
  THEN /\ staged[c] = {} /\ final[c] = Absent /\ new[p] = Absent
       /\ \/ parked[c] = {} /\ RowOf(c) = Absent
          \/ parked[c] = MyFiles(p, RowOf(c)) /\ RowOf(c) # Absent
  ELSE /\ staged[c] = MyFiles(p, new[p])
       /\ parked[c] = {} /\ final[c] = RowOf(c) /\ new[p] \in Content

DecisionInv == \A p \in Writers, c \in Category :
  At(p, "writing", c) \/ At(p, "prepared", c) =>
    /\ new[p] = Outcome(op[p], RowOf(c))
    /\ ~KindMismatch(op[p], RowOf(c))
    /\ op[p].expected = Absent \/ RowOf(c) \in {Absent, op[p].expected}
    /\ op[p].kind # "delete" => RowOf(c) \in backups[c] \cup {Absent}

\* Outside the lock, a file the process may still find is the committed one.
CommittedInv == \A p \in Writers, c \in Category : At(p, "committed", c) =>
  IF op[p].kind = "delete"
  THEN Mine(p, parked[c]) # {} => RowOf(c) = Absent
  ELSE \A f \in Mine(p, staged[c]) : f.data = RowOf(c)

HistoryInv == ~PowerCuts => \A c \in Category : \A i \in DOMAIN db[c].history :
  db[c].history[i] \in backups[c] \cup {RowOf(c)}

StableInv == Synchronous = "full" => stable = db

\* Whatever a power loss may bring back fits the row as well.
UndoInv == \A c \in Category : \A d \in unsynced[c] : Fits(RowOf(c), d.final, d.staged, d.parked)

\* A commit depends on nothing that is not on disk, unless it changes no row.
SyncedInv == \A p \in Writers, c \in Category : At(p, "prepared", c) =>
  unsynced[c] = {} \/ (op[p].kind = "delete" /\ RowOf(c) = Absent)

\* What the processes and the files they see obey.
CoreInv ==
  /\ TypeOK
  /\ LockInv
  /\ RequestInv
  /\ ShapeInv
  /\ WritingInv
  /\ PreparedInv
  /\ DecisionInv
  /\ CommittedInv
  /\ HistoryInv
  /\ StableInv

\* And what a power loss makes of them obeys it too.
IInv == CoreInv /\ UndoInv /\ SyncedInv
=============================================================================
