------------------------ MODULE CategoryStoreProofs ------------------------
(***************************************************************************)
(* Theorems about the write protocol, for every set of processes,          *)
(* categories and contents and for every bound.                            *)
(***************************************************************************)
EXTENDS CategoryStoreSteps, CategoryReaders, StoreSnapshot, CategoryRecovery

\* In a store whose commits a power loss cannot take back, the inductive invariant
\* always holds, whatever interleaves, aborts or crashes.
THEOREM InvariantHolds ==
  ASSUME Durable
  PROVE  Spec => []IInv
<1>1. Init => IInv
  BY InvariantInit
<1>2. IInv /\ [Next]_vars => IInv'
  BY InvariantStep
<1>3. QED
  BY <1>1, <1>2, PTL DEF Spec

-----------------------------------------------------------------------------
(* What clients rely on. *)

\* Types, and with them every bound of the instance.
THEOREM TypesHold ==
  ASSUME Durable
  PROVE  Spec => []TypeOK
<1>1. IInv => TypeOK
  BY DEF IInv, CoreInv
<1>2. QED
  BY <1>1, InvariantHolds, PTL

\* Whatever step a crash cuts, the bytes of every committed row are in some file.
THEOREM CommittedBytesSurvive ==
  ASSUME Durable
  PROVE  Spec => []CommittedIsOnDisk
<1>1. IInv => CommittedIsOnDisk
  BY DEF IInv, CoreInv, ShapeInv, Shape, Fits, RowOf, CommittedIsOnDisk, Readable, Carried, Data
<1>2. QED
  BY <1>1, InvariantHolds, PTL

\* A category with nothing pending agrees with its row, and one without a row has no
\* file: no rename, settle or restart resurrects a deleted category.
THEOREM FilesFollowRows ==
  ASSUME Durable
  PROVE  Spec => []FilesAgreeWithRows
<1>1. IInv => FilesAgreeWithRows
  BY DEF IInv, CoreInv, ShapeInv, Shape, Fits, RowOf, FilesAgreeWithRows, Pending
<1>2. QED
  BY <1>1, InvariantHolds, PTL

\* Every payload that memory_history lists is live or in a backup, without power loss.
THEOREM HistoryIsBackedUp ==
  ASSUME Durable
  PROVE  Spec => []HistoryPayloadsKept
<1>1. ASSUME IInv, ~PowerCuts PROVE HistoryPayloadsKept
  <2>1. CommittedIsOnDisk
    BY <1>1 DEF IInv, CoreInv, ShapeInv, Shape, Fits, RowOf, CommittedIsOnDisk, Readable, Carried, Data
  <2>2. ASSUME NEW c \in Category, NEW i \in DOMAIN db[c].history
        PROVE  db[c].history[i] \in backups[c] \cup Carried(c)
    <3>1. db[c].history[i] \in backups[c] \cup {db[c].row}
      BY <1>1 DEF IInv, CoreInv, HistoryInv, RowOf
    <3>2. db[c].history[i] # Absent
      BY <1>1, ConstantsAssumption DEF IInv, CoreInv, TypeOK, Row
    <3>3. QED
      BY <2>1, <3>1, <3>2 DEF CommittedIsOnDisk, Readable
  <2>3. QED
    BY <2>2 DEF HistoryPayloadsKept
<1>2. IInv => HistoryPayloadsKept
  BY <1>1 DEF HistoryPayloadsKept
<1>3. QED
  BY <1>2, InvariantHolds, PTL

\* A final file changes only to the committed content, but for a power loss that undoes
\* renames and leaves the committed content staged.
Advances == \A c \in Category : final'[c] \notin {final[c], Absent} =>
  \/ final'[c] = db[c].row
  \/ PowerLoss /\ db'[c].row \in Data(staged'[c])

LEMMA FinalAdvances ==
  ASSUME Durable, IInv, [Next]_vars
  PROVE  Advances
<1> USE DEF Advances
<1>1. ASSUME NEW p \in Writers, Settle(p) PROVE Advances
  <2>1. PICK c \in Category : \/ \E f \in staged[c] : SettleStaged(p, c, f) \/ SettleFails(p, c, f)
                              \/ \E f \in parked[c] : SettleParked(p, c, f)
    BY <1>1 DEF Settle
  <2>2. CASE \E f \in staged[c] : SettleStaged(p, c, f) \/ SettleFails(p, c, f)
    BY <2>2 DEF SettleStaged, SettleFails, files, IInv, CoreInv, TypeOK
  <2>3. CASE \E f \in parked[c] : SettleParked(p, c, f)
    <3>1. PICK f \in parked[c] : SettleParked(p, c, f)
      BY <2>3
    <3>2. db[c].row \in {Absent, f.data}
      BY DEF IInv, CoreInv, ShapeInv, Shape, Fits, RowOf
    <3>3. final' = final \/ final' = [final EXCEPT ![c] = db[c].row]
      BY <3>1, <3>2 DEF SettleParked
    <3>4. QED
      BY <3>3 DEF IInv, CoreInv, TypeOK
  <2>4. QED
    BY <2>1, <2>2, <2>3
<1>2. ASSUME NEW p \in Writers, Park(p) PROVE Advances
  <2>1. PICK c \in Category : op[p].cat = c
    BY <1>2, CategoryOfCall DEF IInv
  <2>2. QED
    BY <1>2, <2>1 DEF Park, IInv, CoreInv, TypeOK
<1>3. ASSUME NEW p \in Writers, Promote(p) PROVE Advances
  <2>1. PICK c \in Category : op[p].cat = c
    BY <1>3, CategoryOfCall DEF IInv
  <2>2. \A f \in Mine(p, staged[c]) : f.data = db[c].row
    BY <1>3, <2>1 DEF Promote, IInv, CoreInv, CommittedInv, At, RowOf
  <2>3. final' = final \/ final' = [final EXCEPT ![c] = db[c].row]
    BY <1>3, <2>1, <2>2 DEF Promote
  <2>4. QED
    BY <2>3 DEF IInv, CoreInv, TypeOK
<1>4. CASE UNCHANGED final
  BY <1>4
<1>5. CASE PowerLoss
  <2>1. PICK left \in [Category -> UNION {unsynced[c] \cup {Dir(c)} : c \in Category}] :
           /\ \A c \in Category : left[c] \in unsynced[c] \cup {Dir(c)}
           /\ final'  = [c \in Category |-> left[c].final]
           /\ staged' = [c \in Category |-> left[c].staged]
           /\ parked' = [c \in Category |-> left[c].parked]
    BY <1>5, PowerLossLeaves
  <2>2. db' = db
    BY <1>5 DEF PowerLoss, Durable, IInv, CoreInv, StableInv
  <2>3. ASSUME NEW c \in Category, final'[c] \notin {final[c], Absent}
        PROVE  final'[c] = db[c].row \/ db'[c].row \in Data(staged'[c])
    <3>1. Fits(db[c].row, final'[c], staged'[c], parked'[c])
      BY <2>1 DEF IInv, CoreInv, UndoInv, ShapeInv, Shape, RowOf, Dir
    <3>2. QED
      BY <2>2, <2>3, <3>1 DEF Fits, Data
  <2>4. QED
    BY <1>5, <2>3
<1>6. QED
  BY <1>1, <1>2, <1>3, <1>4, <1>5
  DEF Next, Work, vars, files, Call, Acquire, GiveUp, SettleError, FinishOpen, Refuse, StageOpen, StageDone,
      Commit, ClearDirty, Abort, PromoteDelete, PromoteFails, Crash, Open, Checkpoint

\* A file reaches its final name only with exactly the committed bytes; where a power
\* loss undoes a rename, they are staged again.
THEOREM FinalNeverGoesBack ==
  ASSUME Durable
  PROVE  Spec => FinalOnlyAdvances
<1>1. IInv /\ [Next]_vars => Advances
  BY FinalAdvances
<1>2. Spec => [][Next]_vars
  BY DEF Spec
<1>3. QED
  BY <1>1, <1>2, InvariantHolds, PTL DEF FinalOnlyAdvances, Advances

\* However long it waited for the lock, a conditional write replaces the content it
\* named.
THEOREM ConditionalWritesReplaceWhatTheyNamed ==
  ASSUME Durable
  PROVE  Spec => CasReplacesWhatItNamed
<1> DEFINE Cas == \A p \in Writers : LET r == op[p] IN
             (pc[p] = "prepared" /\ pc'[p] = "committed" /\ r.expected # Absent)
               => db[r.cat].row \in {Absent, r.expected}
<1>1. ASSUME IInv PROVE Cas
  BY <1>1 DEF IInv, CoreInv, RequestInv, DecisionInv, At, RowOf
<1>2. QED
  BY <1>1, InvariantHolds, PTL DEF CasReplacesWhatItNamed

\* The row of a category changes only when a call commits.
LEMMA RowsChangeAtCommits ==
  ASSUME Durable, IInv, [Next]_vars, \A p \in Writers : ~Commit(p)
  PROVE  \A d \in Category : db'[d].row = db[d].row
<1>1. ASSUME NEW p \in Writers, ClearDirty(p)
      PROVE  \A d \in Category : db'[d].row = db[d].row
  <2>1. PICK c \in Category : op[p].cat = c
    BY <1>1 DEF IInv, CoreInv, RequestInv, ClearDirty, Settled
  <2>2. db' = [db EXCEPT ![c] = [db[c] EXCEPT !.dirty = "clean"]]
    BY <1>1, <2>1 DEF ClearDirty
  <2>3. db[c] \in Row
    BY DEF IInv, CoreInv, TypeOK
  <2>4. [db[c] EXCEPT !.dirty = "clean"].row = db[c].row
    BY <2>3 DEF Row
  <2>5. QED
    BY <2>2, <2>4 DEF IInv, CoreInv, TypeOK
<1>2. ASSUME \A p \in Writers : ~ClearDirty(p) PROVE db' = db
  <2>1. CASE PowerLoss
    BY <2>1 DEF PowerLoss, Durable, IInv, CoreInv, StableInv, TypeOK
  <2>2. ASSUME NEW p \in Writers, Settle(p) PROVE db' = db
    BY <2>2 DEF Settle, SettleStaged, SettleFails, SettleParked
  <2>3. ASSUME NEW p \in Writers, Work(p) PROVE db' = db
    BY <1>2, <2>2, <2>3 DEF Work, files, FinishOpen, Refuse, StageOpen, StageDone, Park, Promote, PromoteDelete
  <2>4. ASSUME NEW p \in Writers,
               \/ Call(p) \/ Acquire(p) \/ GiveUp(p)
               \/ SettleError(p) \/ Abort(p) \/ PromoteFails(p) \/ Crash(p) \/ Open(p)
        PROVE  db' = db
    BY <2>4 DEF Call, Acquire, GiveUp, SettleError, Abort, PromoteFails, Crash, Open
  <2>5. CASE Checkpoint \/ UNCHANGED vars
    BY <2>5 DEF Checkpoint, vars
  <2>6. QED
    BY <2>1, <2>3, <2>4, <2>5 DEF Next
<1>3. QED
  BY <1>1, <1>2

\* A call commits what it makes of the row of that instant, which is of a kind it accepts.
LEMMA CommitAppliesOutcome ==
  ASSUME IInv, NEW p \in Writers, NEW c \in Category, Commit(p), op[p].cat = c
  PROVE  /\ new[p] = Outcome(op[p], db[c].row) /\ ~KindMismatch(op[p], db[c].row)
         /\ \A d \in Category : db'[d].row = IF d = c THEN new[p] ELSE db[d].row
<1>1. new[p] = Outcome(op[p], db[c].row) /\ ~KindMismatch(op[p], db[c].row)
  BY DEF IInv, CoreInv, Commit, DecisionInv, At, RowOf
<1>2. db' = [db EXCEPT ![c] = Written(op[p], db[c], new[p])]
  BY DEF Commit
<1>3. Written(op[p], db[c], new[p]).row = new[p]
  BY <1>1 DEF Written, Outcome
<1>4. QED
  BY <1>1, <1>2, <1>3 DEF IInv, CoreInv, TypeOK

\* Without imports and synced writes, which replace whatever is there, a log keeps its
\* entries until it is deleted.
THEOREM LogsKeepTheirEntries ==
  ASSUME Durable, Kinds \cap {"import", "upsert"} = {}
  PROVE  Spec => LogsAreNotClobbered
<1> DEFINE Kept == \A c \in Category : LET old == db[c].row  fresh == db'[c].row IN
             IsLog(old) /\ fresh # Absent => IsLog(fresh) /\ old.items \subseteq fresh.items
<1>1. ASSUME IInv, [Next]_vars PROVE Kept
  <2>1. ASSUME NEW p \in Writers, Commit(p) PROVE Kept
    <3>1. PICK c \in Category : op[p].cat = c
      BY <1>1, <2>1, CategoryOfCall DEF IInv
    <3>2. /\ new[p] = Outcome(op[p], db[c].row) /\ ~KindMismatch(op[p], db[c].row)
          /\ \A d \in Category : db'[d].row = IF d = c THEN new[p] ELSE db[d].row
      BY <1>1, <2>1, <3>1, CommitAppliesOutcome
    <3>3. op[p].kind \in LocalKinds
      BY <1>1, <2>1, ConstantsAssumption DEF IInv, CoreInv, RequestInv, Commit, AllKinds
    <3>4. CASE op[p].kind \in CasKinds
      BY <3>2, <3>4 DEF KindMismatch
    <3>5. CASE op[p].kind = "append"
      BY <3>2, <3>5 DEF Outcome, IsLog, Items, ValueKinds
    <3>6. CASE op[p].kind = "delete"
      BY <3>2, <3>6 DEF Outcome
    <3>7. QED
      BY <3>3, <3>4, <3>5, <3>6 DEF LocalKinds, CasKinds
  <2>2. QED
    BY <1>1, <2>1, RowsChangeAtCommits
<1>2. Spec => [][Next]_vars
  BY DEF Spec
<1>3. QED
  BY <1>1, <1>2, InvariantHolds, PTL DEF LogsAreNotClobbered

-----------------------------------------------------------------------------
(* The store implements the register. *)

\* In a store that satisfies the invariant, a category resolves to its row.
LEMMA ResolvedIsRow == IInv => Resolved = [c \in Category |-> db[c].row]
<1>1. ASSUME IInv, NEW c \in Category PROVE Readable(c) /\ Current(c) = db[c].row
  BY <1>1 DEF IInv, CoreInv, ShapeInv, Shape, Fits, RowOf, Readable, Carried, Data, Current
<1>2. QED
  BY <1>1 DEF Resolved

LEMMA ResolvedIsRowNext == (IInv => Resolved = [c \in Category |-> db[c].row])'
BY ResolvedIsRow, PTL

\* A commit is one call of the register, applied to the value of that instant.
LEMMA CommitIsACall ==
  ASSUME IInv, IInv', NEW p \in Writers, Commit(p)
  PROVE  Register!Next
<1> USE DEF IInv, CoreInv
<1>1. PICK c \in Category : op[p].cat = c
  BY CategoryOfCall
<1> DEFINE r == op[p]
           v == new[p]
<1>2. /\ r.kind \in Kinds \ {"clear"}
      /\ r.kind \in ValueKinds => r.value \in Incoming
      /\ r.kind \in TokenKinds => r.token \in Token
  BY DEF Commit, RequestInv
<1>3. /\ v = Outcome(r, db[c].row) /\ ~KindMismatch(r, db[c].row)
      /\ \A d \in Category : db'[d].row = IF d = c THEN v ELSE db[d].row
  BY <1>1, CommitAppliesOutcome
<1>4. Resolved[c] = db[c].row
  BY ResolvedIsRow
<1>5. Register!Set(c, v)
  <2>1. Resolved = [d \in Category |-> db[d].row]
    BY ResolvedIsRow
  <2>2. Resolved' = [d \in Category |-> db'[d].row]
    BY ResolvedIsRowNext, IInv'
  <2>3. QED
    BY <1>3, <2>1, <2>2 DEF Register!Set
<1>6. r.kind \in {"replace", "merge", "drop", "append", "delete", "import", "upsert"}
  BY <1>2, ConstantsAssumption DEF AllKinds, LocalKinds
<1>7. CASE r.kind = "delete"
  BY <1>2, <1>3, <1>5, <1>7 DEF Outcome, Register!Delete, Register!Next
<1>8. CASE r.kind = "replace"
  <2>1. v = r.value /\ r.value \in Incoming /\ ~IsLog(db[c].row)
    BY <1>2, <1>3, <1>8 DEF Outcome, KindMismatch, ValueKinds, CasKinds
  <2>2. Register!Replace(c, v)
    BY <1>2, <1>4, <1>5, <1>8, <2>1 DEF Register!Replace, Register!Log, IsLog
  <2>3. QED
    BY <2>1, <2>2 DEF Register!Next
<1>9. CASE r.kind \in {"import", "upsert"}
  <2>1. v = r.value /\ r.value \in Incoming
    BY <1>2, <1>3, <1>9 DEF Outcome, ValueKinds
  <2>2. Register!Overwrite(c, v)
    BY <1>2, <1>5, <1>9 DEF Register!Overwrite
  <2>3. QED
    BY <2>1, <2>2 DEF Register!Next
<1>10. CASE r.kind = "merge"
  <2>1. /\ v = [kind |-> "memory", items |-> Items(db[c].row) \cup {r.token}]
        /\ r.token \in Token /\ ~IsLog(db[c].row)
    BY <1>2, <1>3, <1>10 DEF Outcome, KindMismatch, ValueKinds, TokenKinds, CasKinds
  <2>2. Register!Merge(c, r.token)
    BY <1>2, <1>4, <1>5, <1>10, <2>1 DEF Register!Merge, Register!Log, Register!Items, IsLog, Items
  <2>3. QED
    BY <2>1, <2>2 DEF Register!Next
<1>11. CASE r.kind = "drop"
  <2>1. /\ v = [kind |-> "memory", items |-> Items(db[c].row) \ {r.token}]
        /\ r.token \in Token /\ ~IsLog(db[c].row)
    BY <1>2, <1>3, <1>11 DEF Outcome, KindMismatch, ValueKinds, TokenKinds, CasKinds
  <2>2. Register!Drop(c, r.token)
    BY <1>2, <1>4, <1>5, <1>11, <2>1 DEF Register!Drop, Register!Log, Register!Items, IsLog, Items
  <2>3. QED
    BY <2>1, <2>2 DEF Register!Next
<1>12. CASE r.kind = "append"
  <2>1. /\ v = [kind |-> "log", items |-> Items(db[c].row) \cup {r.token}]
        /\ r.token \in Token /\ (db[c].row = Absent \/ IsLog(db[c].row))
    BY <1>2, <1>3, <1>12 DEF Outcome, KindMismatch, ValueKinds, TokenKinds
  <2>2. Register!Append(c, r.token)
    BY <1>2, <1>4, <1>5, <1>12, <2>1 DEF Register!Append, Register!Log, Register!Items, IsLog, Items
  <2>3. QED
    BY <2>1, <2>2 DEF Register!Next
<1>13. QED
  BY <1>6, <1>7, <1>8, <1>9, <1>10, <1>11, <1>12

\* No other step changes the value of a category.
LEMMA OtherStepsAreInvisible ==
  ASSUME Durable, IInv, IInv', [Next]_vars, \A p \in Writers : ~Commit(p)
  PROVE  UNCHANGED Resolved
<1>1. Resolved = [d \in Category |-> db[d].row]
  BY ResolvedIsRow
<1>2. Resolved' = [d \in Category |-> db'[d].row]
  BY ResolvedIsRowNext, IInv'
<1>3. QED
  BY <1>1, <1>2, RowsChangeAtCommits

\* Calls of a durable store are atomic: each takes effect at one instant, and no
\* crash, retry, abort or recovery changes what a category resolves to.
THEOREM StoreImplementsRegister ==
  ASSUME Durable
  PROVE  Spec => ImplementsRegister
<1>1. Init => Register!Init
  BY InvariantInit, ResolvedIsRow DEF Init, Register!Init
<1>2. IInv /\ IInv' /\ [Next]_vars => [Register!Next]_Resolved
  BY CommitIsACall, OtherStepsAreInvisible
<1>3. QED
  BY <1>1, <1>2, InvariantHolds, PTL DEF Spec, ImplementsRegister, Register!Spec

-----------------------------------------------------------------------------
(* Readers. *)

Attempting(r) == rpc[r] \in {"list", "park", "final", "probe"}

UnderWay(r) == rpc[r] \notin {"idle"} \cup Answered

\* A read knows the values its category has had since it began, and looks for one of them.
Informed(r) ==
  /\ UnderWay(r) => db[rcat[r]].row \in seen[r]
  /\ Attempting(r) => rrow[r] \in seen[r] \ {Absent}
  /\ rpc[r] = "orphan" => Absent \in seen[r] /\ final[rcat[r]] \in seen[r]
  /\ rpc[r] = "served" => rvalue[r] \in seen[r]
  /\ rpc[r] = "notfound" => Absent \in seen[r]

Sought(r, fs) == {f \in fs : f.data = rrow[r]}

Listable(r) == Names("staged", staged[rcat[r]]) \cup Names("parked", parked[rcat[r]])

\* What an attempt knows whose category nobody has touched: the row it looks for is the
\* current one, and its list names the files that are there and leaves out none of those
\* that carry the row.
Undisturbed(r) == quiet[r] =>
  /\ rpc[r] \notin {"miss", "ioerror"}
  /\ Attempting(r) => rrow[r] = db[rcat[r]].row
  /\ rpc[r] \in {"park", "final", "probe"} =>
       /\ rlist[r] \subseteq Listable(r)
       /\ Names("staged", Sought(r, staged[rcat[r]])) \subseteq rlist[r]
  /\ rpc[r] \in {"final", "probe"} => Names("parked", Sought(r, parked[rcat[r]])) \subseteq rlist[r]
  /\ rpc[r] = "probe" => final[rcat[r]] # rrow[r]

Counted(r) == rpc[r] \notin {"miss", "inconsistent"} => rtry[r] < MaxAttempts

ReadersInv ==
  /\ ReadersTypeOK
  /\ \A r \in Readers : Counted(r) /\ Informed(r) /\ Undisturbed(r)

\* Where nothing is pending a file is the row, and only one file can be pending.
LEMMA OnlyTheRowIsPending ==
  ASSUME IInv, NEW c \in Category, final[c] # db[c].row, db[c].row # Absent
  PROVE  \/ \E f \in Staging : staged[c] = {f} /\ parked[c] = {} /\ f.data = db[c].row
         \/ \E f \in Parking : staged[c] = {} /\ parked[c] = {f} /\ f.data = db[c].row
BY DEF IInv, CoreInv, ShapeInv, Shape, Fits, RowOf

LEMMA RowsAreTyped == IInv =>
  \A c \in Category : db[c].row \in Content \cup {Absent} /\ final[c] \in Content \cup {Absent}
BY DEF IInv, CoreInv, TypeOK, Row

LEMMA ListedAreCandidates ==
  ASSUME IInv, NEW c \in Category
  PROVE  Names("staged", staged[c]) \cup Names("parked", parked[c]) \subseteq Candidate
BY DEF IInv, CoreInv, TypeOK, Names, Candidate, Staging, Parking

LEMMA ReadersTyped ==
  ASSUME IInv, IInv', ReadersInv, ReadersNext
  PROVE  ReadersTypeOK'
<1> USE DEF ReadersInv
<1>1. CASE StoreStep
  <2>1. \A r \in Readers : db'[rcat[r]].row \in Content \cup {Absent}
    BY RowsAreTyped DEF ReadersTypeOK, IInv, CoreInv, TypeOK, Row
  <2>2. QED
    BY <1>1, <2>1 DEF StoreStep, ReadersTypeOK
<1>2. ASSUME NEW r \in Readers, Read(r) PROVE ReadersTypeOK'
  <2>1. rcat[r] \in Category
    BY DEF ReadersTypeOK
  <2>2. db[rcat[r]].row \in Content \cup {Absent} /\ final[rcat[r]] \in Content \cup {Absent}
    BY <2>1, RowsAreTyped
  <2>3. CASE StartRead(r) \/ ReadRow(r) \/ ReadOrphan(r)
    <3>1. StartRead(r) => ReadersTypeOK'
      BY <2>2 DEF ReadersTypeOK, StartRead, Goto, RPC
    <3>2. ReadRow(r) => ReadersTypeOK'
      BY <2>2 DEF ReadersTypeOK, ReadRow, Goto, RPC
    <3>3. ReadOrphan(r) => ReadersTypeOK'
      BY <2>2 DEF ReadersTypeOK, ReadOrphan, Goto, RPC
    <3>4. QED
      BY <2>3, <3>1, <3>2, <3>3
  <2>4. CASE ListStaged(r) \/ ListParked(r)
    <3>1. Names("staged", staged[rcat[r]]) \subseteq Candidate /\ Names("parked", parked[rcat[r]]) \subseteq Candidate
      BY <2>1, ListedAreCandidates
    <3>2. QED
      BY <2>4, <3>1 DEF ReadersTypeOK, ListStaged, ListParked, Goto, RPC
  <2>5. CASE ProbeFinal(r) \/ Probe(r)
    BY <2>5 DEF ReadersTypeOK, ProbeFinal, Probe, Serve, Goto, RPC
  <2>6. CASE Miss(r) \/ Retry(r)
    BY <2>6, ReadersAssumption DEF ReadersTypeOK, Counted, Miss, Retry, Goto, RPC
  <2>7. QED
    BY <1>2, <2>3, <2>4, <2>5, <2>6 DEF Read
<1>3. QED
  BY <1>1, <1>2 DEF ReadersNext

LEMMA InitReading == ReadersInit => ReadersInv
BY ReadersAssumption
DEF ReadersInit, InitReaders, ReadersInv, ReadersTypeOK, RPC, Counted, Informed, Undisturbed, UnderWay, Attempting

\* Whatever a writer does under it, a read remembers every value it may meet.
LEMMA StoreStepInforms ==
  ASSUME ~PowerCuts, IInv, IInv', ReadersInv, ReadersTypeOK', StoreStep
  PROVE  ReadersInv'
<1> USE DEF ReadersInv
<1> SUFFICES ASSUME NEW r \in Readers PROVE (Counted(r) /\ Informed(r) /\ Undisturbed(r))'
  OBVIOUS
<1> DEFINE c == rcat[r]
<1>1. c \in Category /\ UNCHANGED <<rpc, rcat, rrow, rlist, rtry, rvalue>>
  BY DEF StoreStep, ReadersTypeOK
<1>2. Counted(r)'
  BY <1>1 DEF Counted
<1>3. Informed(r)'
  <2>1. CASE UnderWay(r)
    <3>1. seen'[r] = seen[r] \cup {db'[c].row}
      BY <1>1, <2>1 DEF StoreStep, UnderWay
    <3>2. final'[c] \in {final[c], Absent, db[c].row}
      BY <1>1, FinalAdvances DEF StoreStep, Advances, PowerLoss, Durable
    <3>3. QED
      BY <1>1, <2>1, <3>1, <3>2 DEF Informed, UnderWay, Attempting, Answered
  <2>2. CASE ~UnderWay(r)
    BY <1>1, <2>2 DEF Informed, UnderWay, Attempting, Answered, StoreStep
  <2>3. QED
    BY <2>1, <2>2
<1>4. Undisturbed(r)'
  <2>1. CASE quiet'[r] /\ (Attempting(r) \/ rpc[r] \in {"row", "orphan"})
    <3>1. quiet[r] /\ Untouched(c)
      BY <2>1 DEF StoreStep, Attempting, Answered
    <3>2. QED
      BY <1>1, <3>1 DEF Undisturbed, Untouched, Attempting, Sought, Listable
  <2>2. CASE quiet'[r] /\ ~(Attempting(r) \/ rpc[r] \in {"row", "orphan"})
    <3>1. quiet[r]
      BY <2>2 DEF StoreStep
    <3>2. QED
      BY <1>1, <2>2, <3>1 DEF Undisturbed, Attempting
  <2>3. QED
    BY <2>1, <2>2 DEF Undisturbed
<1>5. QED
  BY <1>2, <1>3, <1>4

\* A reader knows only what it has read itself.
LEMMA OthersKeepReading ==
  ASSUME ReadersInv, NEW r \in Readers, NEW q \in Readers, q # r, UNCHANGED vars, rcat' = rcat,
         /\ rpc'[q] = rpc[q] /\ rrow'[q] = rrow[q] /\ rlist'[q] = rlist[q] /\ rtry'[q] = rtry[q]
         /\ rvalue'[q] = rvalue[q] /\ seen'[q] = seen[q] /\ quiet'[q] = quiet[q]
  PROVE  (Counted(q) /\ Informed(q) /\ Undisturbed(q))'
<1>1. UNCHANGED <<db, final, staged, parked>>
  BY DEF vars, files
<1>2. Counted(q) /\ Informed(q) /\ Undisturbed(q)
  BY DEF ReadersInv
<1>3. Counted(q)'
  BY <1>2 DEF Counted
<1>4. Informed(q)'
  BY <1>1, <1>2 DEF Informed, UnderWay, Attempting
<1>5. Undisturbed(q)'
  BY <1>1, <1>2 DEF Undisturbed, Attempting, Sought, Listable
<1>6. QED
  BY <1>3, <1>4, <1>5

LEMMA ReadConcernsOne ==
  ASSUME ReadersTypeOK, NEW r \in Readers, Read(r), NEW q \in Readers, q # r
  PROVE  /\ UNCHANGED vars /\ rcat' = rcat
         /\ rpc'[q] = rpc[q] /\ rrow'[q] = rrow[q] /\ rlist'[q] = rlist[q] /\ rtry'[q] = rtry[q]
         /\ rvalue'[q] = rvalue[q] /\ seen'[q] = seen[q] /\ quiet'[q] = quiet[q]
<1> USE DEF ReadersTypeOK, Goto
<1>1. CASE StartRead(r) \/ ReadRow(r) \/ ReadOrphan(r)
  BY <1>1 DEF StartRead, ReadRow, ReadOrphan
<1>2. CASE ListStaged(r) \/ ListParked(r) \/ ProbeFinal(r)
  BY <1>2 DEF ListStaged, ListParked, ProbeFinal, Serve
<1>3. CASE Probe(r)
  BY <1>3 DEF Probe, Serve
<1>4. CASE Miss(r) \/ Retry(r)
  BY <1>4 DEF Miss, Retry
<1>5. QED
  BY <1>1, <1>2, <1>3, <1>4 DEF Read

\* Each step of an attempt, for the reader that takes it.
LEMMA ReadInforms ==
  ASSUME IInv, ReadersInv, ReadersTypeOK', NEW r \in Readers, Read(r)
  PROVE  (Counted(r) /\ Informed(r) /\ Undisturbed(r))'
<1> DEFINE c == rcat[r]
           Keeps == (Counted(r) /\ Informed(r) /\ Undisturbed(r))'
<1>1. /\ c \in Category /\ db[c].row \in Content \cup {Absent}
      /\ Counted(r) /\ Informed(r) /\ Undisturbed(r) /\ ReadersTypeOK
  BY RowsAreTyped DEF ReadersInv, ReadersTypeOK
<1>2. db[c].row = Absent => final[c] = Absent
  BY <1>1 DEF IInv, CoreInv, ShapeInv, Shape, Fits, RowOf
<1> USE DEF Goto, UnderWay, Attempting, Answered
<1>3. CASE StartRead(r) \/ ReadRow(r)
  <2>1. UNCHANGED <<db, final, rcat>>
    BY <1>3 DEF StartRead, ReadRow, vars, files
  <2>2. Counted(r)' /\ Informed(r)'
    BY <1>1, <1>2, <1>3, <2>1 DEF StartRead, ReadRow, ReadersTypeOK, Counted, Informed
  <2>3. Undisturbed(r)'
    BY <1>1, <1>3, <2>1 DEF StartRead, ReadRow, ReadersTypeOK, Undisturbed
  <2>4. QED
    BY <2>2, <2>3
<1>4. CASE ReadOrphan(r)
  BY <1>1, <1>4 DEF ReadOrphan, ReadersTypeOK, Counted, Informed, Undisturbed
<1>5. CASE ListStaged(r) \/ ListParked(r)
  <2>1. UNCHANGED <<db, final, staged, parked, rcat, rrow, quiet>>
    BY <1>5 DEF ListStaged, ListParked, vars, files
  <2>2. Counted(r)' /\ Informed(r)'
    BY <1>1, <1>5, <2>1 DEF ListStaged, ListParked, ReadersTypeOK, Counted, Informed
  <2>3. Undisturbed(r)'
    BY <1>1, <1>5, <2>1 DEF ListStaged, ListParked, ReadersTypeOK, Undisturbed, Sought, Listable, Names
  <2>4. QED
    BY <2>2, <2>3
<1>6. CASE ProbeFinal(r)
  <2>1. UNCHANGED <<db, final, staged, parked, rcat, rrow, rlist, quiet>>
    BY <1>6 DEF ProbeFinal, vars, files
  <2>2. Counted(r)' /\ Informed(r)'
    BY <1>1, <1>6, <2>1 DEF ProbeFinal, Serve, ReadersTypeOK, Counted, Informed
  <2>3. Undisturbed(r)'
    BY <1>1, <1>6, <2>1 DEF ProbeFinal, Serve, ReadersTypeOK, Undisturbed, Sought, Listable, Names
  <2>4. QED
    BY <2>2, <2>3
<1>7. CASE Probe(r)
  <2>1. UNCHANGED <<db, final, staged, parked, rcat, rrow, quiet, seen, rtry>>
    BY <1>7 DEF Probe, vars, files
  <2>2. PICK cand \in rlist[r] :
          /\ rlist' = [rlist EXCEPT ![r] = @ \ {cand}]
          /\ \/ rrow[r] \in Bytes(r, cand) /\ Serve(r, rrow[r])
             \/ Bytes(r, cand) \cap Unreadable # {} /\ Goto(r, "ioerror") /\ UNCHANGED rvalue
             \/ Bytes(r, cand) \cap (Unreadable \cup {rrow[r]}) = {} /\ UNCHANGED <<rpc, rvalue>>
    BY <1>7 DEF Probe
  <2>3. Counted(r)' /\ Informed(r)'
    BY <1>1, <1>7, <2>1, <2>2 DEF Probe, Serve, ReadersTypeOK, Counted, Informed
  <2>4. ASSUME quiet[r] PROVE Bytes(r, cand) \subseteq {rrow[r]} /\ rrow[r] \notin Unreadable
    <3>1. rrow[r] = db[c].row /\ rrow[r] # Absent /\ final[c] # db[c].row
      BY <1>1, <1>7, <2>4 DEF Probe, Undisturbed, Informed
    <3>2. QED
      BY <1>1, <3>1, OnlyTheRowIsPending, ConstantsAssumption DEF Bytes
  <2>5. Undisturbed(r)'
    <3>1. CASE Serve(r, rrow[r])
      BY <1>1, <3>1 DEF Serve, ReadersTypeOK, Undisturbed
    <3>2. CASE Bytes(r, cand) \cap Unreadable # {} /\ Goto(r, "ioerror")
      BY <2>1, <2>4, <3>2 DEF Undisturbed
    <3>3. CASE Bytes(r, cand) \cap (Unreadable \cup {rrow[r]}) = {} /\ UNCHANGED <<rpc, rvalue>>
      <4>1. /\ \A f \in Sought(r, staged[c]) : cand # [place |-> "staged", id |-> f.id]
            /\ \A f \in Sought(r, parked[c]) : cand # [place |-> "parked", id |-> f.id]
        BY <3>3 DEF Bytes, Sought
      <4>2. rlist'[r] = rlist[r] \ {cand} /\ rpc'[r] = rpc[r] /\ rpc[r] = "probe"
        BY <1>1, <1>7, <2>2, <3>3 DEF Probe, ReadersTypeOK
      <4>3. ASSUME quiet[r]
            PROVE  /\ Names("staged", Sought(r, staged[c])) \subseteq rlist[r] \ {cand}
                   /\ Names("parked", Sought(r, parked[c])) \subseteq rlist[r] \ {cand}
                   /\ rlist[r] \ {cand} \subseteq Listable(r)
        <5>1. /\ Names("staged", Sought(r, staged[c])) \subseteq rlist[r]
              /\ Names("parked", Sought(r, parked[c])) \subseteq rlist[r]
              /\ rlist[r] \subseteq Listable(r)
          BY <1>1, <4>2, <4>3 DEF Undisturbed
        <5>2. QED
          BY <4>1, <5>1 DEF Names
      <4>4. QED
        BY <1>1, <2>1, <4>2, <4>3 DEF Undisturbed, Sought, Listable
    <3>4. QED
      BY <2>2, <3>1, <3>2, <3>3
  <2>6. QED
    BY <2>3, <2>5
<1>8. CASE Miss(r)
  <2>1. UNCHANGED <<db, rcat, rrow, quiet, seen>>
    BY <1>8 DEF Miss, vars, files
  <2>2. ~quiet[r]
    <3>1. SUFFICES ASSUME quiet[r] PROVE FALSE
      OBVIOUS
    <3>2. rrow[r] = db[c].row /\ rrow[r] # Absent /\ final[c] # db[c].row
      BY <1>1, <1>8, <3>1 DEF Miss, Undisturbed, Informed
    <3>3. Names("staged", Sought(r, staged[c])) = {} /\ Names("parked", Sought(r, parked[c])) = {}
      BY <1>1, <1>8, <3>1 DEF Miss, Undisturbed
    <3>4. Sought(r, staged[c]) = {} /\ Sought(r, parked[c]) = {}
      BY <3>3 DEF Names
    <3>5. QED
      BY <1>1, <3>2, <3>4, OnlyTheRowIsPending DEF Sought
  <2>3. QED
    BY <1>1, <1>8, <2>1, <2>2 DEF Miss, ReadersTypeOK, Counted, Informed, Undisturbed
<1>9. CASE Retry(r)
  <2>1. UNCHANGED <<db, rcat, rrow, quiet, seen, rtry>>
    BY <1>9 DEF Retry, vars, files
  <2>2. QED
    BY <1>1, <1>9, <2>1 DEF Retry, ReadersTypeOK, Counted, Informed, Undisturbed
<1>10. QED
  BY <1>3, <1>4, <1>5, <1>6, <1>7, <1>8, <1>9 DEF Read

LEMMA ReadersStep ==
  ASSUME ~PowerCuts, IInv, ReadersInv, [ReadersNext]_<<vars, rvars>>
  PROVE  IInv' /\ ReadersInv'
<1>1. IInv'
  <2>1. [Next]_vars
    <3>1. ASSUME NEW r \in Readers, Read(r) PROVE UNCHANGED vars
      BY <3>1
      DEF Read, StartRead, ReadRow, ReadOrphan, ListStaged, ListParked, ProbeFinal, Probe, Miss, Retry
    <3>2. QED
      BY <3>1 DEF ReadersNext, StoreStep
  <2>2. QED
    BY <2>1, InvariantStep DEF Durable
<1>2. CASE ReadersNext
  <2>1. ReadersTypeOK'
    BY <1>1, <1>2, ReadersTyped
  <2>2. CASE StoreStep
    BY <1>1, <2>1, <2>2, StoreStepInforms
  <2>3. ASSUME NEW r \in Readers, Read(r) PROVE ReadersInv'
    <3>1. ASSUME NEW q \in Readers, q # r PROVE (Counted(q) /\ Informed(q) /\ Undisturbed(q))'
      BY <2>3, <3>1, ReadConcernsOne, OthersKeepReading DEF ReadersInv
    <3>2. (Counted(r) /\ Informed(r) /\ Undisturbed(r))'
      BY <2>1, <2>3, ReadInforms
    <3>3. QED
      BY <2>1, <3>1, <3>2 DEF ReadersInv
  <2>4. QED
    BY <1>1, <1>2, <2>2, <2>3 DEF ReadersNext
<1>3. CASE UNCHANGED <<vars, rvars>>
  BY <1>1, <1>3 DEF vars, rvars, files, ReadersInv, ReadersTypeOK, Counted, Informed, Undisturbed, UnderWay,
                    Attempting, Sought, Listable
<1>4. QED
  BY <1>1, <1>2, <1>3

THEOREM ReadersInvariant ==
  ASSUME ~PowerCuts
  PROVE  ReadersSpec => [](IInv /\ ReadersInv)
<1>1. ReadersInit => IInv /\ ReadersInv
  BY InvariantInit, InitReading DEF ReadersInit
<1>2. IInv /\ ReadersInv /\ [ReadersNext]_<<vars, rvars>> => (IInv /\ ReadersInv)'
  BY ReadersStep
<1>3. QED
  BY <1>1, <1>2, PTL DEF ReadersSpec

\* A read that takes no lock returns what its category held at some instant of that very
\* read, whatever any number of writers commits, renames, settles or leaves behind.
THEOREM ReadersSeeCurrentValues ==
  ASSUME ~PowerCuts
  PROVE  ReadersSpec => []ReadsAreCurrent
<1>1. ReadersInv => ReadsAreCurrent
  BY DEF ReadersInv, Informed, ReadsAreCurrent
<1>2. QED
  BY <1>1, ReadersInvariant, PTL

\* An attempt comes back empty, or meets a file that is not text, only if its category was
\* changed under it: no leftover of a crash keeps the committed content from a reader.
THEOREM ReadersFindWhatIsThere ==
  ASSUME ~PowerCuts
  PROVE  ReadersSpec => []UndisturbedReadsSucceed
<1>1. ReadersInv => UndisturbedReadsSucceed
  BY DEF ReadersInv, Undisturbed, UndisturbedReadsSucceed
<1>2. QED
  BY <1>1, ReadersInvariant, PTL

-----------------------------------------------------------------------------
(* A snapshot: its taker is one more process of the protocol, which opens the store and
   settles all that is pending; what it does under the lock changes nothing there. *)

Everyone == Writers \cup {Taker}

With(f, v) == [q \in Everyone |-> IF q = Taker THEN v ELSE f[q]]

Locked == {"locked", "listing", "copying", "backups", "manifest"}

Opening == stage \in {"ready", "settling"} \cup Locked

TakerPC == IF stage = "ready" THEN "waiting"
           ELSE IF stage \in {"settling"} \cup Locked THEN "settling"
           ELSE IF stage = "failed" THEN "down" ELSE "idle"

allPc   == With(pc, TakerPC)
allOp   == With(op, IF Opening THEN OpenRequest ELSE NoRequest)
allTodo == With(todo, IF Opening THEN Category ELSE {})
allNew  == With(new, Absent)
allNops == With(nops, 0)

\* No step of the protocol removes a backup: to it, those that were pruned are still there.
allBackups == [c \in Category |-> backups[c] \cup {v \in Content : (<<c, v>> \in pruned)}]

All == INSTANCE CategoryStoreSteps WITH
         Writers <- Everyone, pc <- allPc, op <- allOp, todo <- allTodo, new <- allNew, nops <- allNops,
         backups <- allBackups

\* What the protocol keeps of each writer, and of each category, is a function on them.
Functional ==
  /\ backups = [c \in Category |-> backups[c]]
  /\ pc = [q \in Writers |-> pc[q]] /\ op = [q \in Writers |-> op[q]]
  /\ todo = [q \in Writers |-> todo[q]]
  /\ new = [q \in Writers |-> new[q]] /\ nops = [q \in Writers |-> nops[q]]

\* While the taker is at work nothing is pending, and what it has copied is the store.
CopyInv ==
  /\ stage \in Locked => \A c \in Category : ~Pending(c)
  /\ stage \in {"ready", "settling", "locked", "listing"} => \A c \in Category : snapshot.files[c] = Absent
  /\ stage \in {"listing", "copying", "backups", "manifest"} => snapshot.rows = db
  /\ stage = "copying" =>
       \A c \in Category : IF c \in toCopy THEN final[c] # Absent ELSE snapshot.files[c] = final[c]
  /\ stage \in {"backups", "manifest"} => \A c \in Category : snapshot.files[c] = final[c]
  /\ WithBackups /\ stage \in {"backups", "manifest"} => \A c \in Category : \A v \in backups[c] :
       v \in snapshot.backups[c] \/ (stage = "backups" /\ <<c, v>> \in backupsToCopy)
  /\ stage \in {"written", "verified"} => \A c \in Category : snapshot.files[c] = snapshot.rows[c].row
  /\ stage # "rejected"

SnapshotInv ==
  /\ SnapshotTypeOK /\ Functional
  /\ All!IInv
  /\ CopyInv
  /\ HistoryIsCovered

\* The assumptions of the protocol hold of the processes and the taker together.
LEMMA EveryoneIsAssumed == NoWriter \notin Everyone /\ Taker \notin Writers
BY TakerAssumption, ConstantsAssumption DEF Everyone

LEMMA EveryoneStep ==
  ASSUME All!Durable, All!IInv, [All!Next]_(All!vars)
  PROVE  All!IInv'
<1>1. Lost \notin All!Content \cup {Absent}
  BY LostAssumption DEF All!Content, Content
<1>2. /\ Incoming \subseteq All!Content
      /\ Kinds \subseteq All!AllKinds
      /\ Unreadable \subseteq Tears
      /\ Tears \cap All!Content = {}
      /\ Absent \notin All!Content \cup Tears \cup Category \cup Token
      /\ NoWriter \notin Everyone
      /\ MaxVersions \in Nat
      /\ MaxOps \in Nat
      /\ MaxCrashes \in Nat
      /\ Synchronous \in {"full", "normal"}
      /\ PowerCuts \in BOOLEAN
  BY ConstantsAssumption, EveryoneIsAssumed
  DEF All!Content, All!AllKinds, All!LocalKinds, Content, AllKinds, LocalKinds
<1>3. QED
  BY <1>1, <1>2, All!InvariantStep, Zenon

LEMMA WithValue ==
  ASSUME NEW f, NEW v
  PROVE  With(f, v)[Taker] = v /\ \A q \in Writers : With(f, v)[q] = f[q]
BY EveryoneIsAssumed DEF With, Everyone

\* What a step that prunes nothing does to the directory is the same in both views.
LEMMA SameDirectory ==
  ASSUME Functional, pruned' = pruned
  PROVE  /\ backups' = backups => allBackups' = allBackups
         /\ \A c, X : backups' = [backups EXCEPT ![c] = backups[c] \cup X]
                      => allBackups' = [allBackups EXCEPT ![c] = allBackups[c] \cup X]
         /\ All!Remember <=> Remember
         /\ All!SyncDir <=> SyncDir
<1>1. backups' = backups => allBackups' = allBackups
  BY DEF allBackups
<1>2. ASSUME NEW c, NEW X, backups' = [backups EXCEPT ![c] = backups[c] \cup X]
      PROVE  allBackups' = [allBackups EXCEPT ![c] = allBackups[c] \cup X]
  <2>1. CASE c \in Category
    <3>1. allBackups[c] = backups[c] \cup {v \in Content : (<<c, v>> \in pruned)}
      BY <2>1 DEF allBackups
    <3>2. \A d \in Category : backups'[d] = IF d = c THEN backups[c] \cup X ELSE backups[d]
      BY <1>2, <2>1 DEF Functional
    <3>3. QED
      BY <2>1, <3>1, <3>2 DEF allBackups
  <2>2. CASE c \notin Category
    <3>1. backups' = backups
      BY <1>2, <2>2 DEF Functional
    <3>2. QED
      BY <2>2, <3>1 DEF allBackups
  <2>3. QED
    BY <2>1, <2>2
<1>3. (All!Remember <=> Remember) /\ (All!SyncDir <=> SyncDir)
  BY Zenon DEF Remember, All!Remember, Dir, All!Dir, SyncDir, All!SyncDir
<1>4. QED
  BY <1>1, <1>2, <1>3

\* What a writer's step, which leaves the taker where it is, does to everyone's state.
LEMMA WriterView ==
  ASSUME Functional, stage' = stage, pruned' = pruned, NEW p \in Writers
  PROVE  /\ p \in Everyone
         /\ allPc[p] = pc[p] /\ allOp[p] = op[p] /\ allTodo[p] = todo[p] /\ allNew[p] = new[p] /\ allNops[p] = nops[p]
         /\ pc' = pc => allPc' = allPc
         /\ op' = op => allOp' = allOp
         /\ todo' = todo => allTodo' = allTodo
         /\ new' = new => allNew' = allNew
         /\ nops' = nops => allNops' = allNops
         /\ \A w : pc' = [pc EXCEPT ![p] = w] => allPc' = [allPc EXCEPT ![p] = w]
         /\ \A w : op' = [op EXCEPT ![p] = w] => allOp' = [allOp EXCEPT ![p] = w]
         /\ \A w : todo' = [todo EXCEPT ![p] = w] => allTodo' = [allTodo EXCEPT ![p] = w]
         /\ \A w : new' = [new EXCEPT ![p] = w] => allNew' = [allNew EXCEPT ![p] = w]
         /\ \A w : nops' = [nops EXCEPT ![p] = w] => allNops' = [allNops EXCEPT ![p] = w]
<1>1. TakerPC' = TakerPC /\ Opening' = Opening
  BY DEF TakerPC, Opening
<1>2. p \in Everyone
  BY DEF Everyone
<1>3. allPc[p] = pc[p] /\ allOp[p] = op[p] /\ allTodo[p] = todo[p] /\ allNew[p] = new[p] /\ allNops[p] = nops[p]
  BY WithValue DEF allPc, allOp, allTodo, allNew, allNops
<1>4. ASSUME NEW w, pc' = [pc EXCEPT ![p] = w]
      PROVE  allPc' = [allPc EXCEPT ![p] = w]
  <2>1. With([pc EXCEPT ![p] = w], TakerPC) = [With(pc, TakerPC) EXCEPT ![p] = w]
    BY EveryoneIsAssumed DEF Functional, With, Everyone
  <2>2. QED
    BY <1>1, <1>4, <2>1, Zenon DEF allPc
<1>5. ASSUME NEW w, op' = [op EXCEPT ![p] = w]
      PROVE  allOp' = [allOp EXCEPT ![p] = w]
  <2>1. With([op EXCEPT ![p] = w], IF Opening THEN OpenRequest ELSE NoRequest) = [With(op, IF Opening THEN OpenRequest ELSE NoRequest) EXCEPT ![p] = w]
    BY EveryoneIsAssumed DEF Functional, With, Everyone
  <2>2. QED
    BY <1>1, <1>5, <2>1, Zenon DEF allOp
<1>6. ASSUME NEW w, todo' = [todo EXCEPT ![p] = w]
      PROVE  allTodo' = [allTodo EXCEPT ![p] = w]
  <2>1. With([todo EXCEPT ![p] = w], IF Opening THEN Category ELSE {}) = [With(todo, IF Opening THEN Category ELSE {}) EXCEPT ![p] = w]
    BY EveryoneIsAssumed DEF Functional, With, Everyone
  <2>2. QED
    BY <1>1, <1>6, <2>1, Zenon DEF allTodo
<1>7. ASSUME NEW w, new' = [new EXCEPT ![p] = w]
      PROVE  allNew' = [allNew EXCEPT ![p] = w]
  <2>1. With([new EXCEPT ![p] = w], Absent) = [With(new, Absent) EXCEPT ![p] = w]
    BY EveryoneIsAssumed DEF Functional, With, Everyone
  <2>2. QED
    BY <1>1, <1>7, <2>1, Zenon DEF allNew
<1>8. ASSUME NEW w, nops' = [nops EXCEPT ![p] = w]
      PROVE  allNops' = [allNops EXCEPT ![p] = w]
  <2>1. With([nops EXCEPT ![p] = w], 0) = [With(nops, 0) EXCEPT ![p] = w]
    BY EveryoneIsAssumed DEF Functional, With, Everyone
  <2>2. QED
    BY <1>1, <1>8, <2>1, Zenon DEF allNops
<1>9. /\ pc' = pc => allPc' = allPc
      /\ op' = op => allOp' = allOp
      /\ todo' = todo => allTodo' = allTodo
      /\ new' = new => allNew' = allNew
      /\ nops' = nops => allNops' = allNops
  BY <1>1 DEF allPc, allOp, allTodo, allNew, allNops
<1>10. QED
  BY <1>2, <1>3, <1>4, <1>5, <1>6, <1>7, <1>8, <1>9

LEMMA WriterLeaves ==
  ASSUME Functional, stage' = stage, pruned' = pruned, NEW p \in Writers, NEW where, Leave(p, where)
  PROVE  All!Leave(p, where)
<1>1. allPc' = [allPc EXCEPT ![p] = where]
  BY WriterView, ZenonT(30) DEF Leave
<1>2. allOp' = [allOp EXCEPT ![p] = NoRequest]
  BY WriterView, ZenonT(30) DEF Leave
<1>3. allTodo' = [allTodo EXCEPT ![p] = {}]
  BY WriterView, ZenonT(30) DEF Leave
<1>4. allNew' = [allNew EXCEPT ![p] = Absent]
  BY WriterView, ZenonT(30) DEF Leave
<1>5. QED
  BY <1>1, <1>2, <1>3, <1>4, Zenon DEF All!Leave, NoRequest, All!NoRequest

\* What a writer reads of the store is the same in both views.
LEMMA SameReading ==
  /\ \A c : All!Pending(c) <=> Pending(c)
  /\ \A c : All!Current(c) = Current(c)
  /\ \A r : All!WellFormed(r) <=> WellFormed(r)
  /\ \A r : All!Refused(r) <=> Refused(r)
  /\ \A r, v : All!Outcome(r, v) = Outcome(r, v)
  /\ \A r, old, v : All!Written(r, old, v) = Written(r, old, v)
<1> USE DEF Readable, All!Readable, Carried, All!Carried, Data, All!Data, Current, All!Current, IsLog, All!IsLog,
            Items, All!Items, TokenKinds, All!TokenKinds, ValueKinds, All!ValueKinds, CasKinds, All!CasKinds,
            LocalKinds, All!LocalKinds
<1>1. \A c : (All!Pending(c) <=> Pending(c)) /\ All!Current(c) = Current(c)
  BY Zenon DEF Pending, All!Pending
<1>2. \A r : All!WellFormed(r) <=> WellFormed(r)
  BY Zenon DEF WellFormed, All!WellFormed, ImportAllowed, All!ImportAllowed
<1>3. \A r : All!Refused(r) <=> Refused(r)
  BY Zenon DEF Refused, All!Refused, KindMismatch, All!KindMismatch, Conflict, All!Conflict
<1>4. \A r, v : All!Outcome(r, v) = Outcome(r, v)
  BY Zenon DEF Outcome, All!Outcome
<1>5. \A r, old, v : All!Written(r, old, v) = Written(r, old, v)
  BY Zenon DEF Written, All!Written, Newest, All!Newest
<1>6. QED
  BY <1>1, <1>2, <1>3, <1>4, <1>5

\* Every step of a writer is a step of it among everyone.
LEMMA WritersEnter ==
  ASSUME Functional, stage' = stage, pruned' = pruned, NEW p \in Writers, Call(p) \/ Acquire(p) \/ GiveUp(p) \/ Open(p)
  PROVE  All!Call(p) \/ All!Acquire(p) \/ All!GiveUp(p) \/ All!Open(p)
<1> USE DEF files, All!files
<1>0. /\ backups' = backups => allBackups' = allBackups
      /\ All!Remember <=> Remember
      /\ All!SyncDir <=> SyncDir
  BY SameDirectory
<1>1. allPc[p] = pc[p] /\ allOp[p] = op[p] /\ allNops[p] = nops[p]
  BY WriterView, Zenon
<1>2. CASE Call(p)
  <2>1. PICK k \in Kinds, c \in Category, t \in Token \cup {Absent}, v \in Incoming \cup {Absent} :
        \E e \in {Absent, db[c].row} :
          LET r == [kind |-> k, cat |-> c, token |-> t, value |-> v, expected |-> e]
          IN  /\ WellFormed(r)
              /\ op'   = [op   EXCEPT ![p] = r]
              /\ todo' = [todo EXCEPT ![p] = IF k = "clear" THEN {} ELSE {c}]
    BY <1>2 DEF Call
  <2>2. PICK e \in {Absent, db[c].row} :
          LET r == [kind |-> k, cat |-> c, token |-> t, value |-> v, expected |-> e]
          IN  /\ WellFormed(r)
              /\ op'   = [op   EXCEPT ![p] = r]
              /\ todo' = [todo EXCEPT ![p] = IF k = "clear" THEN {} ELSE {c}]
    BY <2>1
  <2> DEFINE r == [kind |-> k, cat |-> c, token |-> t, value |-> v, expected |-> e]
  <2>3. WellFormed(r) /\ op' = [op EXCEPT ![p] = r]
    BY <2>2
  <2>4. /\ todo' = [todo EXCEPT ![p] = IF k = "clear" THEN {} ELSE {c}]
        /\ pc' = [pc EXCEPT ![p] = "waiting"] /\ nops' = [nops EXCEPT ![p] = nops[p] + 1] /\ new' = new
    BY <1>2, <2>2 DEF Call
  <2> HIDE DEF r
  <2>5. /\ allOp' = [allOp EXCEPT ![p] = r] /\ allTodo' = [allTodo EXCEPT ![p] = IF k = "clear" THEN {} ELSE {c}]
        /\ allPc' = [allPc EXCEPT ![p] = "waiting"] /\ allNops' = [allNops EXCEPT ![p] = nops[p] + 1] /\ allNew' = allNew
    BY <2>3, <2>4, WriterView, Zenon
  <2>6. All!WellFormed(r)
    BY <2>3, SameReading, Zenon
  <2> USE DEF r
  <2>7. All!Call(p)
    BY <1>0, <1>1, <1>2, <2>5, <2>6 DEF Call, All!Call
  <2>8. QED
    BY <2>7
<1>3. CASE Acquire(p)
  <2>1. allPc' = [allPc EXCEPT ![p] = "settling"] /\ allOp' = allOp /\ allTodo' = allTodo /\ allNew' = allNew
        /\ allNops' = allNops
    BY <1>3, WriterView, Zenon DEF Acquire
  <2>2. QED
    BY <1>0, <1>1, <1>3, <2>1 DEF Acquire, All!Acquire
<1>4. CASE GiveUp(p)
  <2>1. All!Fail(p) /\ allNops' = allNops
    BY <1>1, <1>4, WriterView, WriterLeaves, Zenon DEF GiveUp, Fail, All!Fail
  <2>2. QED
    BY <1>0, <1>1, <1>4, <2>1 DEF GiveUp, All!GiveUp
<1>5. CASE Open(p)
  <2>1. allNops' = allNops
    BY <1>5, WriterView, Zenon DEF Open
  <2>2. {c \in Category : Pending(c)} = {c \in Category : All!Pending(c)}
    BY SameReading
  <2>3. CASE {c \in Category : Pending(c)} = {}
    <3>1. All!Leave(p, "idle")
      BY <1>5, <2>3, WriterLeaves, Zenon DEF Open
    <3>2. QED
      BY <1>0, <1>1, <1>5, <2>1, <2>2, <2>3, <3>1 DEF Open, All!Open
  <2>4. CASE {c \in Category : Pending(c)} # {}
    <3>1. /\ allPc' = [allPc EXCEPT ![p] = "waiting"] /\ allOp' = [allOp EXCEPT ![p] = OpenRequest]
          /\ allTodo' = [allTodo EXCEPT ![p] = {c \in Category : Pending(c)}] /\ allNew' = allNew
      BY <1>5, <2>4, WriterView, ZenonT(30) DEF Open
    <3>2. OpenRequest = All!OpenRequest
      BY Zenon DEF OpenRequest, All!OpenRequest, NoRequest, All!NoRequest
    <3>3. QED
      BY <1>0, <1>1, <1>5, <2>1, <2>2, <2>4, <3>1, <3>2 DEF Open, All!Open
  <2>5. QED
    BY <2>3, <2>4
<1>6. QED
  BY <1>2, <1>3, <1>4, <1>5

LEMMA WritersSettle ==
  ASSUME Functional, stage' = stage, pruned' = pruned, NEW p \in Writers, Settle(p) \/ SettleError(p) \/ FinishOpen(p) \/ Refuse(p)
  PROVE  All!Settle(p) \/ All!SettleError(p) \/ All!FinishOpen(p) \/ All!Refuse(p)
<1> USE DEF files, All!files
<1>0. /\ backups' = backups => allBackups' = allBackups
      /\ All!Remember <=> Remember
      /\ All!SyncDir <=> SyncDir
  BY SameDirectory
<1>1. allPc[p] = pc[p] /\ allOp[p] = op[p] /\ allTodo[p] = todo[p]
  BY WriterView, Zenon
<1>2. Settled(p) <=> All!Settled(p)
  BY <1>1, SameReading, Zenon DEF Settled, All!Settled
<1>3. CASE Settle(p)
  <2>1. PICK c \in Category : \/ \E f \in staged[c] : SettleStaged(p, c, f) \/ SettleFails(p, c, f)
                              \/ \E f \in parked[c] : SettleParked(p, c, f)
    BY <1>3 DEF Settle
  <2>2. ASSUME NEW f, SettleStaged(p, c, f) PROVE All!SettleStaged(p, c, f)
    <3>1. allPc' = allPc /\ allOp' = allOp /\ allTodo' = allTodo /\ allNew' = allNew /\ allNops' = allNops
      BY <2>2, WriterView, Zenon DEF SettleStaged
    <3>2. QED
      BY <1>0, <1>1, <2>2, <3>1 DEF SettleStaged, All!SettleStaged
  <2>3. ASSUME NEW f, SettleFails(p, c, f) PROVE All!SettleFails(p, c, f)
    <3>1. All!Fail(p) /\ allNops' = allNops
      BY <1>1, <2>3, WriterView, WriterLeaves, Zenon DEF SettleFails, Fail, All!Fail
    <3>2. QED
      BY <1>0, <1>1, <2>3, <3>1 DEF SettleFails, All!SettleFails, Unlock, All!Unlock
  <2>4. ASSUME NEW f, SettleParked(p, c, f) PROVE All!SettleParked(p, c, f)
    <3>1. allPc' = allPc /\ allOp' = allOp /\ allTodo' = allTodo /\ allNew' = allNew /\ allNops' = allNops
      BY <2>4, WriterView, Zenon DEF SettleParked
    <3>2. backups' = [backups EXCEPT ![c] = backups[c] \cup {f.data}]
            => allBackups' = [allBackups EXCEPT ![c] = allBackups[c] \cup {f.data}]
      BY SameDirectory
    <3>3. QED
      BY <1>0, <1>1, <2>4, <3>1, <3>2 DEF SettleParked, All!SettleParked
  <2>5. All!Settle(p)
    BY <2>1, <2>2, <2>3, <2>4, Zenon DEF All!Settle
  <2>6. QED
    BY <2>5
<1>4. CASE SettleError(p)
  <2>1. All!Fail(p) /\ allNops' = allNops
    BY <1>1, <1>4, WriterView, WriterLeaves, Zenon DEF SettleError, Fail, All!Fail
  <2>2. QED
    BY <1>0, <1>1, <1>4, <2>1 DEF SettleError, All!SettleError, Unlock, All!Unlock
<1>5. CASE FinishOpen(p)
  <2>1. All!Leave(p, "idle") /\ allNops' = allNops
    BY <1>5, WriterView, WriterLeaves, Zenon DEF FinishOpen
  <2>2. QED
    BY <1>0, <1>1, <1>2, <1>5, <2>1 DEF FinishOpen, All!FinishOpen, Unlock, All!Unlock
<1>6. CASE Refuse(p)
  <2>1. All!Leave(p, "idle") /\ allNops' = allNops
    BY <1>6, WriterView, WriterLeaves, Zenon DEF Refuse
  <2>2. All!Refused(op[p])
    BY <1>6, SameReading, Zenon DEF Refuse
  <2>3. QED
    BY <1>0, <1>1, <1>2, <1>6, <2>1, <2>2 DEF Refuse, All!Refuse, Unlock, All!Unlock
<1>7. QED
  BY <1>3, <1>4, <1>5, <1>6

LEMMA WritersPrepare ==
  ASSUME Functional, stage' = stage, pruned' = pruned, NEW p \in Writers, StageOpen(p) \/ StageDone(p) \/ Park(p)
  PROVE  All!StageOpen(p) \/ All!StageDone(p) \/ All!Park(p)
<1> USE DEF files, All!files
<1>0. /\ backups' = backups => allBackups' = allBackups
      /\ All!Remember <=> Remember
      /\ All!SyncDir <=> SyncDir
  BY SameDirectory
<1>1. allPc[p] = pc[p] /\ allOp[p] = op[p] /\ allTodo[p] = todo[p] /\ allNew[p] = new[p] /\ allNops[p] = nops[p]
  BY WriterView, Zenon
<1>2. (Settled(p) <=> All!Settled(p)) /\ All!MyFile(p) = MyFile(p)
  BY <1>1, SameReading, Zenon DEF Settled, All!Settled, MyFile, All!MyFile
<1>3. CASE StageOpen(p)
  <2>1. new' = [new EXCEPT ![p] = Outcome(op[p], Current(op[p].cat))]
    BY <1>3 DEF StageOpen
  <2>2. allNew' = [allNew EXCEPT ![p] = All!Outcome(op[p], All!Current(op[p].cat))]
    <3>1. allNew' = [allNew EXCEPT ![p] = Outcome(op[p], Current(op[p].cat))]
      BY <2>1, WriterView, Zenon
    <3>2. QED
      BY <3>1, SameReading, Zenon
  <2>3. allPc' = [allPc EXCEPT ![p] = "writing"] /\ allOp' = allOp /\ allTodo' = allTodo /\ allNops' = allNops
    BY <1>3, WriterView, Zenon DEF StageOpen
  <2>4. ~All!Refused(op[p])
    BY <1>3, SameReading, Zenon DEF StageOpen
  <2> DEFINE c == op[p].cat
  <2>5. allBackups' = [allBackups EXCEPT ![c] = allBackups[c] \cup ({final[c]} \ {Absent})]
    BY <1>3, SameDirectory DEF StageOpen
  <2>6. All!StageOpen(p)
    BY <1>0, <1>1, <1>2, <1>3, <2>2, <2>3, <2>4, <2>5 DEF StageOpen, All!StageOpen
  <2>7. QED
    BY <2>6
<1>4. CASE StageDone(p)
  <2>1. /\ allPc' = [allPc EXCEPT ![p] = "prepared"] /\ allOp' = allOp /\ allTodo' = allTodo
        /\ allNew' = allNew /\ allNops' = allNops
    BY <1>4, WriterView, Zenon DEF StageDone
  <2>2. All!StageDone(p)
    BY <1>0, <1>1, <1>2, <1>4, <2>1 DEF StageDone, All!StageDone
  <2>3. QED
    BY <2>2
<1>5. CASE Park(p)
  <2>1. /\ allPc' = [allPc EXCEPT ![p] = "prepared"] /\ allOp' = allOp /\ allTodo' = allTodo
        /\ allNew' = allNew /\ allNops' = allNops
    BY <1>5, WriterView, Zenon DEF Park
  <2>2. All!Park(p)
    BY <1>0, <1>1, <1>2, <1>5, <2>1 DEF Park, All!Park
  <2>3. QED
    BY <2>2
<1>6. QED
  BY <1>3, <1>4, <1>5

LEMMA WritersFinish ==
  ASSUME Functional, stage' = stage, pruned' = pruned, NEW p \in Writers,
         \/ Commit(p) \/ ClearDirty(p) \/ Abort(p) \/ Promote(p)
         \/ PromoteDelete(p) \/ PromoteFails(p) \/ Crash(p)
  PROVE  \/ All!Commit(p) \/ All!ClearDirty(p) \/ All!Abort(p) \/ All!Promote(p)
         \/ All!PromoteDelete(p) \/ All!PromoteFails(p) \/ All!Crash(p)
<1> USE DEF files, All!files, Unlock, All!Unlock
<1>0. /\ backups' = backups => allBackups' = allBackups
      /\ All!Remember <=> Remember
      /\ All!SyncDir <=> SyncDir
  BY SameDirectory
<1>1. allPc[p] = pc[p] /\ allOp[p] = op[p] /\ allTodo[p] = todo[p] /\ allNew[p] = new[p] /\ allNops[p] = nops[p]
  BY WriterView, Zenon
<1>2. (Settled(p) <=> All!Settled(p)) /\ All!MyFile(p) = MyFile(p)
  BY <1>1, SameReading, Zenon DEF Settled, All!Settled, MyFile, All!MyFile
<1>3. \A fs : Mine(p, fs) = All!Mine(p, fs) /\ Data(fs) = All!Data(fs)
  BY <1>2, Zenon DEF Mine, All!Mine, Data, All!Data
<1>4. CASE Commit(p)
  <2>1. /\ allPc' = [allPc EXCEPT ![p] = "committed"] /\ allOp' = allOp /\ allTodo' = allTodo
        /\ allNew' = allNew /\ allNops' = allNops
    BY <1>4, WriterView, Zenon DEF Commit
  <2>2. db' = [db EXCEPT ![op[p].cat] = All!Written(op[p], @, new[p])]
    BY <1>4, SameReading, Zenon DEF Commit
  <2>3. All!Commit(p)
    BY <1>0, <1>1, <1>4, <2>1, <2>2 DEF Commit, All!Commit
  <2>4. QED
    BY <2>3
<1>5. CASE ClearDirty(p)
  <2>1. All!Leave(p, "idle") /\ allNops' = allNops
    BY <1>5, WriterView, WriterLeaves, Zenon DEF ClearDirty
  <2>2. All!ClearDirty(p)
    BY <1>0, <1>1, <1>2, <1>5, <2>1 DEF ClearDirty, All!ClearDirty
  <2>3. QED
    BY <2>2
<1>6. CASE Abort(p) \/ PromoteFails(p)
  <2>1. All!Leave(p, "idle") /\ allNops' = allNops
    BY <1>6, WriterView, WriterLeaves, Zenon DEF Abort, PromoteFails
  <2>2. QED
    BY <1>0, <1>1, <1>6, <2>1 DEF Abort, All!Abort, PromoteFails, All!PromoteFails
<1>7. CASE Promote(p)
  <2>1. All!Leave(p, "idle") /\ allNops' = allNops
    BY <1>7, WriterView, WriterLeaves, Zenon DEF Promote
  <2>2. All!Promote(p)
    BY <1>0, <1>1, <1>3, <1>7, <2>1 DEF Promote, All!Promote
  <2>3. QED
    BY <2>2
<1>8. CASE PromoteDelete(p)
  <2>1. All!Leave(p, "idle") /\ allNops' = allNops
    BY <1>8, WriterView, WriterLeaves, Zenon DEF PromoteDelete
  <2> DEFINE c == op[p].cat
  <2>2. allBackups' = [allBackups EXCEPT ![c] = allBackups[c] \cup Data(Mine(p, parked[c]))]
    BY <1>8, SameDirectory DEF PromoteDelete
  <2>3. All!PromoteDelete(p)
    BY <1>0, <1>1, <1>3, <1>8, <2>1, <2>2 DEF PromoteDelete, All!PromoteDelete
  <2>4. QED
    BY <2>3
<1>9. CASE Crash(p)
  <2>1. All!Leave(p, "down") /\ allNops' = allNops
    BY <1>9, WriterView, WriterLeaves, Zenon DEF Crash
  <2>2. QED
    BY <1>0, <1>1, <1>9, <2>1 DEF Crash, All!Crash
<1>10. QED
  BY <1>4, <1>5, <1>6, <1>7, <1>8, <1>9

\* What the taker's step, which touches no writer, does to everyone's state.
LEMMA TakerView ==
  ASSUME UNCHANGED <<pc, op, todo, new, nops>>
  PROVE  /\ Taker \in Everyone
         /\ allPc[Taker] = TakerPC /\ allOp[Taker] = (IF Opening THEN OpenRequest ELSE NoRequest)
         /\ allTodo[Taker] = (IF Opening THEN Category ELSE {}) /\ allNew[Taker] = Absent
         /\ allPc' = [allPc EXCEPT ![Taker] = TakerPC']
         /\ allOp' = [allOp EXCEPT ![Taker] = IF Opening' THEN OpenRequest ELSE NoRequest]
         /\ allTodo' = [allTodo EXCEPT ![Taker] = IF Opening' THEN Category ELSE {}]
         /\ allNew' = [allNew EXCEPT ![Taker] = Absent] /\ allNew' = allNew
         /\ allNops' = allNops
         /\ TakerPC' = TakerPC => allPc' = allPc
         /\ Opening' = Opening => allOp' = allOp /\ allTodo' = allTodo
<1>1. /\ Taker \in Everyone
      /\ allPc[Taker] = TakerPC /\ allOp[Taker] = (IF Opening THEN OpenRequest ELSE NoRequest)
      /\ allTodo[Taker] = (IF Opening THEN Category ELSE {}) /\ allNew[Taker] = Absent
  BY WithValue DEF allPc, allOp, allTodo, allNew, Everyone
<1>2. allPc' = [allPc EXCEPT ![Taker] = TakerPC']
  BY DEF allPc, With, Everyone
<1>3. allOp' = [allOp EXCEPT ![Taker] = IF Opening' THEN OpenRequest ELSE NoRequest]
  BY DEF allOp, With, Everyone
<1>4. allTodo' = [allTodo EXCEPT ![Taker] = IF Opening' THEN Category ELSE {}]
  BY DEF allTodo, With, Everyone
<1>5. allNew' = [allNew EXCEPT ![Taker] = Absent] /\ allNew' = allNew /\ allNops' = allNops
  BY DEF allNew, allNops, With, Everyone
<1>6. /\ TakerPC' = TakerPC => allPc' = allPc
      /\ Opening' = Opening => allOp' = allOp /\ allTodo' = allTodo
  BY DEF allPc, allOp, allTodo
<1>7. QED
  BY <1>1, <1>2, <1>3, <1>4, <1>5, <1>6

LEMMA TakerLeaves ==
  ASSUME UNCHANGED <<pc, op, todo, new, nops>>, ~Opening'
  PROVE  All!Leave(Taker, TakerPC')
<1>1. allOp' = [allOp EXCEPT ![Taker] = NoRequest] /\ allTodo' = [allTodo EXCEPT ![Taker] = {}]
  BY TakerView
<1>2. allPc' = [allPc EXCEPT ![Taker] = TakerPC'] /\ allNew' = [allNew EXCEPT ![Taker] = Absent]
  BY TakerView, Zenon
<1>3. QED
  BY <1>1, <1>2, Zenon DEF All!Leave, NoRequest, All!NoRequest

LEMMA OpenIsNoOther == OpenRequest.kind = "open" /\ NoRequest.kind = "none"
BY DEF OpenRequest, NoRequest

LEMMA TakerPrunesNothing == Take => pruned' = pruned
BY DEF Take, Begin, Fails, SettlePending, Prepared, Vacuum, ListFiles, CopyFile, ListBackups, CopyBackup,
       BackupsCopied, WriteManifest, Verify, copied

\* The taker lets the lock go, with nothing left to settle.
LEMMA TakerFinishes ==
  ASSUME SnapshotInv, stage \in Locked, stage' \in {"written", "vanished"}, Unlock(Taker),
         UNCHANGED <<pc, op, todo, new, nops>>, UNCHANGED <<db, stable, files, crashes>>,
         allBackups' = allBackups
  PROVE  All!Next
<1>1. TakerPC = "settling" /\ TakerPC' = "idle" /\ ~Opening' /\ Opening
  BY DEF TakerPC, Opening, Locked
<1>2. All!Leave(Taker, "idle")
  BY <1>1, TakerLeaves, Zenon
<1>3. allOp[Taker].kind = "open" /\ allTodo[Taker] = Category /\ allPc[Taker] = TakerPC
  BY <1>1, TakerView, OpenIsNoOther
<1>4. All!Settled(Taker)
  <2>1. \A c \in Category : ~All!Pending(c)
    BY SameReading DEF SnapshotInv, CopyInv
  <2>2. QED
    BY <1>1, <1>3, <2>1 DEF All!Settled
<1>5. All!FinishOpen(Taker) /\ Taker \in Everyone
  BY <1>2, <1>3, <1>4, TakerView DEF All!FinishOpen, files, All!files, Unlock, All!Unlock
<1>6. QED
  BY <1>5, Zenon DEF All!Next, All!Work

\* What the taker does is an opening of the store by one more process: it takes the lock,
\* settles everything and lets the lock go, or fails on the way.
LEMMA TakerSteps ==
  ASSUME SnapshotInv, Take
  PROVE  [All!Next]_(All!vars)
<1> USE DEF files, All!files, Unlock, All!Unlock, Locked
<1>0. /\ backups' = backups => allBackups' = allBackups
      /\ All!Remember <=> Remember
      /\ All!SyncDir <=> SyncDir
  BY TakerPrunesNothing, SameDirectory DEF SnapshotInv
<1>1. UNCHANGED <<pc, op, todo, new, nops>>
  BY DEF Take, Begin, Takes, Fails, FailsBefore, SettlePending, TakerSettles, TakerSettlesStaged, TakerSettlesParked,
         Prepared, Vacuum, ListFiles, CopyFile, ListBackups, CopyBackup, BackupsCopied, WriteManifest,
         Verify, vars
<1>2. allPc[Taker] = TakerPC /\ allNops' = allNops /\ Taker \in Everyone
  BY <1>1, TakerView, Zenon
<1>3. CASE Begin
  <2>1. stage = "ready" /\ stage' = "settling" /\ TakerPC = "waiting" /\ TakerPC' = "settling" /\ Opening' = Opening
    BY <1>3 DEF Begin, Takes, TakerPC, Opening
  <2>2. All!Acquire(Taker)
    BY <1>0, <1>1, <1>2, <1>3, <2>1, TakerView DEF Begin, Takes, All!Acquire
  <2>3. QED
    BY <1>2, <2>2, Zenon DEF All!Next
<1>4. CASE Fails
  <2>1. TakerPC' = "down" /\ ~Opening' /\ TakerPC # "down"
    BY <1>4 DEF Fails, FailsBefore, TakerPC, Opening, SnapshotInv, SnapshotTypeOK, Stage
  <2>2. All!Leave(Taker, "down")
    BY <1>1, <2>1, TakerLeaves, Zenon
  <2>3. All!Crash(Taker)
    BY <1>0, <1>1, <1>2, <1>4, <2>1, <2>2 DEF Fails, FailsBefore, All!Crash
  <2>4. QED
    BY <1>2, <2>3, Zenon DEF All!Next
<1>5. CASE SettlePending
  <2>1. stage = "settling" /\ TakerPC = "settling" /\ Opening
    BY <1>5 DEF SettlePending, TakerSettles, TakerSettlesStaged, TakerSettlesParked, TakerPC, Opening
  <2>2. allTodo[Taker] = Category /\ allOp[Taker].kind = "open"
    BY <1>1, <2>1, TakerView, OpenIsNoOther
  <2>3. PICK c \in Category : \/ \E f \in staged[c] : TakerSettlesStaged(c, f)
                              \/ \E f \in parked[c] : TakerSettlesParked(c, f)
    BY <1>5 DEF SettlePending, TakerSettles
  <2>4. ASSUME NEW f \in staged[c], TakerSettlesStaged(c, f)
        PROVE  All!SettleStaged(Taker, c, f) \/ All!SettleFails(Taker, c, f)
    <3>1. CASE f.data \in Unreadable
      <4>1. TakerPC' = "down" /\ ~Opening'
        BY <2>4, <3>1 DEF TakerSettlesStaged, TakerPC, Opening
      <4>2. All!Leave(Taker, "down")
        BY <1>1, <4>1, TakerLeaves, Zenon
      <4>3. unsynced' = unsynced
        <5>1. unsynced = [d \in Category |-> unsynced[d]]
          BY DEF SnapshotInv, All!IInv, All!CoreInv, All!TypeOK
        <5>2. Remember /\ UNCHANGED <<final, staged, parked>>
          BY <2>4, <3>1 DEF TakerSettlesStaged
        <5>3. QED
          BY <5>1, <5>2 DEF Remember, Dir
      <4>4. All!SettleFails(Taker, c, f)
        BY <1>0, <1>1, <1>2, <2>1, <2>2, <2>4, <3>1, <4>2, <4>3 DEF TakerSettlesStaged, All!SettleFails, All!Fail
      <4>5. QED
        BY <4>4
    <3>2. CASE f.data \notin Unreadable
      <4>1. TakerPC' = TakerPC /\ Opening' = Opening
        BY <2>4, <3>2 DEF TakerSettlesStaged, TakerPC, Opening
      <4>2. allPc' = allPc /\ allOp' = allOp /\ allTodo' = allTodo /\ allNew' = allNew
        BY <1>1, <4>1, TakerView, Zenon
      <4>3. All!SettleStaged(Taker, c, f)
        BY <1>0, <1>1, <1>2, <2>1, <2>2, <2>4, <3>2, <4>2 DEF TakerSettlesStaged, All!SettleStaged
      <4>4. QED
        BY <4>3
    <3>3. QED
      BY <3>1, <3>2
  <2>5. ASSUME NEW f \in parked[c], TakerSettlesParked(c, f)
        PROVE  All!SettleParked(Taker, c, f)
    <3>1. TakerPC' = TakerPC /\ Opening' = Opening
      BY <2>5 DEF TakerSettlesParked, TakerPC, Opening
    <3>2. allPc' = allPc /\ allOp' = allOp /\ allTodo' = allTodo /\ allNew' = allNew
      BY <1>1, <3>1, TakerView, Zenon
    <3>3. backups' = [backups EXCEPT ![c] = backups[c] \cup {f.data}]
            => allBackups' = [allBackups EXCEPT ![c] = allBackups[c] \cup {f.data}]
      BY TakerPrunesNothing, SameDirectory DEF SnapshotInv
    <3>4. QED
      BY <1>0, <1>1, <1>2, <2>1, <2>2, <2>5, <3>2, <3>3 DEF TakerSettlesParked, All!SettleParked
  <2>6. All!Settle(Taker)
    BY <2>3, <2>4, <2>5, Zenon DEF All!Settle
  <2>7. QED
    BY <1>2, <2>6, Zenon DEF All!Next, All!Work
<1>6. CASE Prepared \/ Vacuum \/ ListFiles \/ ListBackups \/ BackupsCopied \/ Verify
  <2>1. TakerPC' = TakerPC /\ Opening' = Opening /\ UNCHANGED vars
    BY <1>6 DEF Prepared, TakerSettled, Vacuum, ListFiles, ListBackups, BackupsCopied, Verify, TakerPC, Opening
  <2>2. allPc' = allPc /\ allOp' = allOp /\ allTodo' = allTodo /\ allNew' = allNew
    BY <1>1, <2>1, TakerView, Zenon
  <2>3. QED
    BY <1>0, <1>2, <2>1, <2>2 DEF vars, All!vars
<1>7. CASE \E c \in Category : CopyFile(c)
  <2>1. PICK c \in Category : CopyFile(c)
    BY <1>7
  <2>2. final[c] # Absent
    BY <2>1 DEF CopyFile, SnapshotInv, CopyInv
  <2>3. TakerPC' = TakerPC /\ Opening' = Opening /\ UNCHANGED <<db, stable, files, lock, crashes>>
    BY <2>1, <2>2 DEF CopyFile, TakerPC, Opening
  <2>4. allPc' = allPc /\ allOp' = allOp /\ allTodo' = allTodo /\ allNew' = allNew
    BY <1>1, <2>3, TakerView, Zenon
  <2>5. QED
    BY <1>0, <1>2, <2>3, <2>4 DEF All!vars
<1>8. CASE \E c \in Category, v \in Content : CopyBackup(c, v) /\ v \in backups[c]
  <2>1. PICK c \in Category, v \in Content : CopyBackup(c, v) /\ v \in backups[c]
    BY <1>8
  <2>2. TakerPC' = TakerPC /\ Opening' = Opening /\ UNCHANGED <<db, stable, files, lock, crashes>>
    BY <2>1 DEF CopyBackup, TakerPC, Opening
  <2>3. allPc' = allPc /\ allOp' = allOp /\ allTodo' = allTodo /\ allNew' = allNew
    BY <1>1, <2>2, TakerView, Zenon
  <2>4. QED
    BY <1>0, <1>2, <2>2, <2>3 DEF All!vars
<1>9. CASE \E c \in Category, v \in Content : CopyBackup(c, v) /\ v \notin backups[c]
  <2>1. PICK c \in Category, v \in Content : CopyBackup(c, v) /\ v \notin backups[c]
    BY <1>9
  <2>2. CASE stage' = stage
    <3>1. TakerPC' = TakerPC /\ Opening' = Opening /\ UNCHANGED <<db, stable, files, lock, crashes>>
      BY <2>1, <2>2 DEF CopyBackup, TakerPC, Opening
    <3>2. allPc' = allPc /\ allOp' = allOp /\ allTodo' = allTodo /\ allNew' = allNew
      BY <1>1, <3>1, TakerView, Zenon
    <3>3. QED
      BY <1>0, <1>2, <3>1, <3>2 DEF All!vars
  <2>3. CASE stage' # stage
    <3>1. /\ stage = "backups" /\ stage' = "vanished" /\ Unlock(Taker)
          /\ UNCHANGED <<db, stable, files, crashes>>
      BY <2>1, <2>3 DEF CopyBackup
    <3>2. QED
      BY <1>0, <1>1, <3>1, TakerFinishes
  <2>4. QED
    BY <2>2, <2>3
<1>10. CASE WriteManifest
  <2>1. /\ stage = "manifest" /\ stage' = "written" /\ Unlock(Taker)
        /\ UNCHANGED <<db, stable, files, crashes>>
    BY <1>10 DEF WriteManifest
  <2>2. QED
    BY <1>0, <1>1, <2>1, TakerFinishes
<1>11. QED
  BY <1>3, <1>4, <1>5, <1>6, <1>7, <1>8, <1>9, <1>10 DEF Take

LEMMA WritersStayFunctional ==
  ASSUME ~PowerCuts, Functional, Next
  PROVE  Functional'
<1>1. ASSUME NEW p \in Writers, Call(p) \/ Acquire(p) \/ GiveUp(p) \/ Open(p) PROVE Functional'
  BY <1>1 DEF Functional, files, Call, Acquire, GiveUp, Open, Fail, Leave
<1>2. ASSUME NEW p \in Writers, Settle(p) PROVE Functional'
  BY <1>2 DEF Functional, files, Settle, SettleStaged, SettleFails, SettleParked, Fail, Leave
<1>3. ASSUME NEW p \in Writers, SettleError(p) \/ FinishOpen(p) \/ Refuse(p) PROVE Functional'
  BY <1>3 DEF Functional, files, SettleError, FinishOpen, Refuse, Fail, Leave
<1>4. ASSUME NEW p \in Writers, StageOpen(p) \/ StageDone(p) \/ Park(p) PROVE Functional'
  BY <1>4 DEF Functional, files, StageOpen, StageDone, Park
<1>5. ASSUME NEW p \in Writers, Commit(p) \/ ClearDirty(p) \/ Abort(p) \/ Crash(p) PROVE Functional'
  BY <1>5 DEF Functional, files, Commit, ClearDirty, Abort, Crash, Leave
<1>6. ASSUME NEW p \in Writers, Promote(p) \/ PromoteDelete(p) \/ PromoteFails(p) PROVE Functional'
  BY <1>6 DEF Functional, files, Promote, PromoteDelete, PromoteFails, Leave
<1>7. CASE Checkpoint \/ PowerLoss
  BY <1>7 DEF Functional, files, Checkpoint, PowerLoss
<1>8. QED
  BY <1>1, <1>2, <1>3, <1>4, <1>5, <1>6, <1>7 DEF Next, Work

\* The writers' steps are steps of everyone too.
LEMMA WritersStep ==
  ASSUME ~PowerCuts, Functional, Next, stage' = stage, pruned' = pruned
  PROVE  All!Next
<1>1. ASSUME NEW p \in Writers, Call(p) \/ Acquire(p) \/ GiveUp(p) \/ Open(p) PROVE All!Next
  BY <1>1, WritersEnter DEF All!Next, Everyone
<1>2. ASSUME NEW p \in Writers, Settle(p) \/ SettleError(p) \/ FinishOpen(p) \/ Refuse(p) PROVE All!Next
  BY <1>2, WritersSettle DEF All!Next, All!Work, Everyone
<1>3. ASSUME NEW p \in Writers, StageOpen(p) \/ StageDone(p) \/ Park(p) PROVE All!Next
  BY <1>3, WritersPrepare DEF All!Next, All!Work, Everyone
<1>4. ASSUME NEW p \in Writers,
             \/ Commit(p) \/ ClearDirty(p) \/ Abort(p) \/ Promote(p)
             \/ PromoteDelete(p) \/ PromoteFails(p) \/ Crash(p)
      PROVE  All!Next
  BY <1>4, WritersFinish DEF All!Next, All!Work, Everyone
<1>5. CASE Checkpoint
  <2>1. UNCHANGED <<pc, op, todo, new, nops>> /\ TakerPC' = TakerPC /\ Opening' = Opening
    BY <1>5 DEF Checkpoint, TakerPC, Opening
  <2>2. allPc' = allPc /\ allOp' = allOp /\ allTodo' = allTodo /\ allNew' = allNew /\ allNops' = allNops
    BY <2>1, TakerView, Zenon
  <2>3. All!Checkpoint
    BY <1>5, <2>2, SameDirectory DEF Checkpoint, All!Checkpoint, files, All!files
  <2>4. QED
    BY <2>3 DEF All!Next
<1>6. CASE PowerLoss
  BY <1>6 DEF PowerLoss
<1>7. QED
  BY <1>1, <1>2, <1>3, <1>4, <1>5, <1>6, Zenon DEF Next, Work

\* The lock keeps the writers away from the store that is copied, and what they have
\* committed before has been settled: they find nothing left to rename.
LEMMA WritersStandBack ==
  ASSUME ~PowerCuts, SnapshotInv, stage \in Locked, Next
  PROVE  UNCHANGED <<db, final, staged, parked, backups>>
<1>1. \A c \in Category : staged[c] = {} /\ parked[c] = {}
  BY DEF SnapshotInv, CopyInv, Pending
<1>2. lock = Taker /\ lock # NoWriter
  <2>1. allPc[Taker] = "settling" /\ Taker \in Everyone
    BY WithValue DEF allPc, TakerPC, Locked, Everyone
  <2>2. QED
    BY <2>1, TakerAssumption DEF SnapshotInv, All!IInv, All!CoreInv, All!LockInv, All!InTxn
<1>3. ASSUME NEW p \in Writers
      PROVE  /\ pc[p] \notin {"settling", "writing", "prepared"} /\ lock # p
             /\ pc[p] = "committed" => op[p].cat \in Category
  <2>1. allPc[p] = pc[p] /\ allOp[p] = op[p] /\ p \in Everyone /\ lock # p
    BY <1>2, WithValue, EveryoneIsAssumed DEF allPc, allOp, Everyone
  <2>2. QED
    BY <2>1 DEF SnapshotInv, All!IInv, All!CoreInv, All!LockInv, All!InTxn, All!RequestInv
<1>4. backups = [c \in Category |-> backups[c]] /\ parked = [c \in Category |-> parked[c]]
  BY DEF SnapshotInv, Functional, All!IInv, All!CoreInv, All!TypeOK
<1>5. ASSUME NEW p \in Writers, Promote(p) \/ PromoteDelete(p)
      PROVE  UNCHANGED <<db, final, staged, parked, backups>>
  <2>1. op[p].cat \in Category
    BY <1>3, <1>5 DEF Promote, PromoteDelete
  <2>2. Mine(p, staged[op[p].cat]) = {} /\ Mine(p, parked[op[p].cat]) = {} /\ Data({}) = {}
    BY <1>1, <2>1 DEF Mine, Data
  <2>3. Promote(p) => UNCHANGED <<db, final, staged, parked, backups>>
    BY <2>2 DEF Promote
  <2>4. ASSUME PromoteDelete(p) PROVE UNCHANGED <<db, final, staged, parked, backups>>
    <3>1. /\ backups' = [backups EXCEPT ![op[p].cat] = backups[op[p].cat] \cup {}]
          /\ parked' = [parked EXCEPT ![op[p].cat] = parked[op[p].cat] \ {}]
      BY <2>2, <2>4 DEF PromoteDelete
    <3>2. backups' = backups /\ parked' = parked
      BY <1>4, <3>1
    <3>3. QED
      BY <2>4, <3>2 DEF PromoteDelete
  <2>5. QED
    BY <1>5, <2>3, <2>4
<1>6. ASSUME NEW p \in Writers, Work(p), ~Promote(p), ~PromoteDelete(p)
      PROVE  FALSE
  BY <1>3, <1>6
  DEF Work, Settle, SettleStaged, SettleFails, SettleParked, FinishOpen, Refuse, Settled, StageOpen, StageDone, Park,
      ClearDirty, Commit
<1>7. ASSUME NEW p \in Writers,
             \/ Call(p) \/ Acquire(p) \/ GiveUp(p) \/ SettleError(p) \/ Abort(p)
             \/ PromoteFails(p) \/ Crash(p) \/ Open(p)
      PROVE  UNCHANGED <<db, final, staged, parked, backups>>
  BY <1>7 DEF Call, Acquire, GiveUp, SettleError, Abort, PromoteFails, Crash, Open, files
<1>8. QED
  BY <1>5, <1>6, <1>7 DEF Next, PowerLoss, Checkpoint, files

LEMMA SnapshotInits == SnapshotInit => SnapshotInv
<1> SUFFICES ASSUME SnapshotInit PROVE SnapshotInv
  OBVIOUS
<1>1. /\ stage = "ready" /\ toCopy = {} /\ backupsToCopy = {} /\ snapshot = Nothing /\ pruned = {}
      /\ lock = NoWriter /\ TypeOK
  BY TypeInit DEF SnapshotInit, Init
<1>2. SnapshotTypeOK
  <2>1. NoRow \in Row
    <3>1. <<>> \in Seq(Content)
      OBVIOUS
    <3>2. QED
      BY <3>1 DEF NoRow, Row
  <2>2. QED
    BY <1>1, <2>1 DEF SnapshotTypeOK, Stage, Snapshot, Nothing
<1>3. Functional
  BY <1>1 DEF Functional, TypeOK
<1>4. CopyInv /\ HistoryIsCovered
  BY <1>1 DEF CopyInv, Locked, Nothing, HistoryIsCovered
<1>5. TakerPC = "waiting" /\ Opening
  BY <1>1 DEF TakerPC, Opening
<1>6. /\ allPc = [q \in Everyone |-> IF q = Taker THEN "waiting" ELSE "idle"]
      /\ allOp = [q \in Everyone |-> IF q = Taker THEN OpenRequest ELSE NoRequest]
      /\ allTodo = [q \in Everyone |-> IF q = Taker THEN Category ELSE {}]
      /\ allNew = [q \in Everyone |-> Absent]
      /\ allNops = [q \in Everyone |-> 0]
  BY <1>5, EveryoneIsAssumed DEF SnapshotInit, Init, allPc, allOp, allTodo, allNew, allNops, With, Everyone
<1>7. All!TypeOK
  <2>1. OpenRequest \in All!Request /\ NoRequest \in All!Request
    BY DEF OpenRequest, NoRequest, All!Request, AllKinds, All!AllKinds, LocalKinds, All!LocalKinds
  <2>2. /\ allPc \in [Everyone -> All!PC] /\ allOp \in [Everyone -> All!Request]
        /\ allTodo \in [Everyone -> SUBSET Category] /\ allNew \in [Everyone -> All!Content \cup {Absent}]
        /\ allNops \in [Everyone -> 0 .. MaxOps]
    BY <1>6, <2>1, ConstantsAssumption DEF All!PC
  <2>3. /\ db \in [Category -> All!Row] /\ stable \in [Category -> All!Row]
        /\ final \in [Category -> All!Content \cup {Absent}]
        /\ staged \in [Category -> SUBSET All!Staging] /\ parked \in [Category -> SUBSET All!Parking]
        /\ crashes \in 0 .. MaxCrashes
    <3>1. /\ db \in [Category -> Row] /\ stable \in [Category -> Row] /\ final \in [Category -> Content \cup {Absent}]
          /\ crashes \in 0 .. MaxCrashes
      BY <1>1 DEF TypeOK
    <3>2. staged = [c \in Category |-> {}] /\ parked = [c \in Category |-> {}]
      BY DEF SnapshotInit, Init
    <3>3. Row = All!Row /\ Content = All!Content
      BY DEF Row, All!Row, Content, All!Content
    <3>4. QED
      BY <3>1, <3>2, <3>3
  <2>4. /\ allBackups \in [Category -> SUBSET All!Content]
        /\ unsynced \in [Category -> SUBSET All!DirState]
    <3>1. allBackups = [c \in Category |-> {}] /\ unsynced = [c \in Category |-> {}]
      BY <1>1 DEF SnapshotInit, Init, allBackups
    <3>2. QED
      BY <3>1
  <2>5. QED
    BY <1>1, <2>2, <2>3, <2>4 DEF All!TypeOK
<1>8. All!LockInv /\ All!RequestInv
  BY <1>1, <1>6, OpenIsNoOther, EveryoneIsAssumed DEF All!LockInv, All!InTxn, All!RequestInv
<1>9. All!ShapeInv /\ All!HistoryInv /\ All!StableInv
  BY DEF SnapshotInit, Init, All!ShapeInv, All!Shape, All!Fits, All!RowOf, All!HistoryInv, All!StableInv
<1>10. All!UndoInv /\ All!SyncedInv
  <2>1. unsynced = [c \in Category |-> {}]
    BY DEF SnapshotInit, Init
  <2>2. QED
    BY <2>1 DEF All!UndoInv, All!SyncedInv
<1>11. All!WritingInv /\ All!PreparedInv /\ All!DecisionInv /\ All!CommittedInv
  BY <1>6 DEF All!WritingInv, All!PreparedInv, All!DecisionInv, All!CommittedInv, All!At
<1>12. QED
  BY <1>2, <1>3, <1>4, <1>7, <1>8, <1>9, <1>10, <1>11 DEF SnapshotInv, All!IInv, All!CoreInv

\* Beside the writers, the taker's copy stays what it is and what the store holds.
LEMMA WritersKeepCopy ==
  ASSUME ~PowerCuts, SnapshotInv, All!IInv', Next, UNCHANGED svars
  PROVE  SnapshotInv'
<1>1. /\ stage' = stage /\ toCopy' = toCopy /\ snapshot' = snapshot
      /\ backupsToCopy' = backupsToCopy /\ pruned' = pruned
  BY DEF svars
<1>2. Functional'
  BY WritersStayFunctional DEF SnapshotInv
<1>3. SnapshotTypeOK'
  BY <1>1 DEF SnapshotInv, SnapshotTypeOK, All!IInv, All!CoreInv, All!TypeOK, Everyone
<1>4. CopyInv'
  <2>1. CASE stage \in Locked
    BY <1>1, <2>1, WritersStandBack DEF SnapshotInv, CopyInv, Locked, Pending
  <2>2. CASE stage \notin Locked
    BY <1>1, <2>2 DEF SnapshotInv, CopyInv, Locked
  <2>3. QED
    BY <2>1, <2>2
<1>5. HistoryIsCovered'
  BY <1>1, WritersStandBack DEF SnapshotInv, HistoryIsCovered, Locked
<1>6. QED
  BY <1>2, <1>3, <1>4, <1>5 DEF SnapshotInv

\* What the protocol calls a backup is there or has been pruned: a complete manifest has
\* it or it is pruned.
LEMMA ManifestCovers ==
  ASSUME ~PowerCuts, SnapshotTypeOK, All!IInv, CopyInv, WithBackups, stage = "manifest"
  PROVE  HistoryIsCovered
<1> SUFFICES ASSUME NEW c \in Category, NEW i \in DOMAIN snapshot.rows[c].history
             PROVE  LET v == snapshot.rows[c].history[i] IN
                    v \in snapshot.backups[c] \cup {snapshot.files[c]} \/ (<<c, v>> \in pruned /\ v \notin backups[c])
  BY DEF HistoryIsCovered
<1> DEFINE v == snapshot.rows[c].history[i]
<1>1. snapshot.rows = db /\ snapshot.files[c] = final[c] /\ ~Pending(c)
  BY DEF CopyInv, Locked
<1>2. final[c] = db[c].row
  BY <1>1 DEF All!IInv, All!CoreInv, All!ShapeInv, All!Shape, All!Fits, All!RowOf, Pending
<1>3. v \in allBackups[c] \cup {db[c].row}
  BY <1>1 DEF All!IInv, All!CoreInv, All!HistoryInv, All!RowOf
<1>4. v \in allBackups[c] => v \in backups[c] \/ <<c, v>> \in pruned
  BY DEF allBackups
<1>5. v \in backups[c] => v \in snapshot.backups[c]
  BY DEF CopyInv
<1>6. QED
  BY <1>1, <1>2, <1>3, <1>4, <1>5

LEMMA ManifestCoversNext ==
  ((~PowerCuts /\ SnapshotTypeOK /\ All!IInv /\ CopyInv /\ WithBackups /\ stage = "manifest") => HistoryIsCovered)'
<1>1. (~PowerCuts /\ SnapshotTypeOK /\ All!IInv /\ CopyInv /\ WithBackups /\ stage = "manifest") => HistoryIsCovered
  BY ManifestCovers
<1>2. QED
  BY <1>1, PTL

\* Pruning takes from the backups what the copy has, will not miss or may miss.
LEMMA PruningKeepsCopy ==
  ASSUME ~PowerCuts, SnapshotInv, NEW c \in Category, NEW v \in Content, Prune(c, v)
  PROVE  SnapshotInv'
<1>1. /\ UNCHANGED <<db, stable, final, staged, parked, unsynced, lock, pc, op, todo, new, nops, crashes>>
      /\ UNCHANGED <<stage, toCopy, backupsToCopy, snapshot>>
      /\ backups' = [backups EXCEPT ![c] = backups[c] \ {v}] /\ pruned' = pruned \cup {<<c, v>>}
      /\ v \in backups[c]
  BY DEF Prune
<1>2. \A d \in Category : backups'[d] = IF d = c THEN backups[c] \ {v} ELSE backups[d]
  BY <1>1 DEF SnapshotInv, Functional
<1>3. allBackups' = allBackups
  <2>1. \A d \in Category : backups'[d] \cup {w \in Content : (<<d, w>> \in pruned')}
                            = backups[d] \cup {w \in Content : (<<d, w>> \in pruned)}
    BY <1>1, <1>2
  <2>2. QED
    BY <2>1 DEF allBackups
<1>4. Functional'
  <2>1. backups' = [d \in Category |-> backups'[d]]
    BY <1>1 DEF SnapshotInv, Functional
  <2>2. QED
    BY <1>1, <2>1 DEF SnapshotInv, Functional
<1>5. SnapshotTypeOK'
  BY <1>1 DEF SnapshotInv, SnapshotTypeOK
<1>6. All!IInv'
  <2>1. TakerPC' = TakerPC /\ Opening' = Opening
    BY <1>1 DEF TakerPC, Opening
  <2>2. allPc' = allPc /\ allOp' = allOp /\ allTodo' = allTodo /\ allNew' = allNew /\ allNops' = allNops
    BY <1>1, <2>1, TakerView, Zenon
  <2>3. All!vars' = All!vars
    BY <1>1, <1>3, <2>2 DEF All!vars, All!files
  <2>4. All!Durable /\ All!IInv
    BY DEF All!Durable, SnapshotInv
  <2>5. QED
    BY <2>3, <2>4, EveryoneStep, Zenon
<1>7. CopyInv'
  BY <1>1, <1>2 DEF SnapshotInv, CopyInv, Locked, Pending
<1>8. HistoryIsCovered'
  BY <1>1, <1>2 DEF SnapshotInv, HistoryIsCovered
<1>9. QED
  BY <1>4, <1>5, <1>6, <1>7, <1>8 DEF SnapshotInv

\* Step by step the taker copies one state of the store.
LEMMA TakerCopies ==
  ASSUME ~PowerCuts, SnapshotInv, All!IInv', Take
  PROVE  SnapshotInv'
<1> USE DEF Locked
<1>1. UNCHANGED <<pc, op, todo, new, nops>>
  BY DEF Take, Begin, Takes, Fails, FailsBefore, SettlePending, TakerSettles, TakerSettlesStaged, TakerSettlesParked,
         Prepared, Vacuum, ListFiles, CopyFile, ListBackups, CopyBackup, BackupsCopied, WriteManifest,
         Verify, vars
<1>0. pruned' = pruned
  BY TakerPrunesNothing
<1>2. Functional'
  <2>1. ASSUME NEW c \in Category, NEW f, TakerSettlesStaged(c, f) \/ TakerSettlesParked(c, f)
        PROVE  backups' = [d \in Category |-> backups'[d]]
    BY <2>1 DEF TakerSettlesStaged, TakerSettlesParked, SnapshotInv, Functional
  <2>2. CASE ~SettlePending
    BY <2>2 DEF Take, Begin, Takes, Fails, FailsBefore, Prepared, Vacuum, ListFiles, CopyFile, ListBackups,
                CopyBackup, BackupsCopied, WriteManifest, Verify, vars, files, SnapshotInv, Functional
  <2>3. backups' = [d \in Category |-> backups'[d]]
    BY <2>1, <2>2 DEF SettlePending, TakerSettles, SnapshotInv, Functional
  <2>4. QED
    BY <1>1, <2>3 DEF SnapshotInv, Functional
<1>3. lock' \in Writers \cup {NoWriter, Taker}
  BY DEF All!IInv, All!CoreInv, All!TypeOK, Everyone
<1>4. /\ snapshot \in Snapshot /\ toCopy \subseteq Category /\ backupsToCopy \subseteq Category \X Content
      /\ pruned' \subseteq Category \X Content /\ CopyInv /\ HistoryIsCovered
  BY <1>0 DEF SnapshotInv, SnapshotTypeOK
<1>5. /\ db \in [Category -> Row] /\ final \in [Category -> Content \cup {Absent}]
      /\ \A c \in Category : backups[c] \subseteq Content
  <2>1. db \in [Category -> Row] /\ final \in [Category -> Content \cup {Absent}]
    BY DEF SnapshotInv, All!IInv, All!CoreInv, All!TypeOK, Row, All!Row, Content, All!Content
  <2>2. \A c \in Category : allBackups[c] \subseteq Content
    BY DEF SnapshotInv, All!IInv, All!CoreInv, All!TypeOK, Content, All!Content
  <2>3. QED
    BY <2>1, <2>2 DEF allBackups
<1>6. (\A c \in Category : ~Pending(c)) => \A c \in Category : final[c] = db[c].row
  BY DEF SnapshotInv, All!IInv, All!CoreInv, All!ShapeInv, All!Shape, All!Fits, All!RowOf, Pending
<1> SUFFICES (SnapshotTypeOK /\ CopyInv /\ ((WithBackups /\ stage = "manifest") \/ HistoryIsCovered))'
  BY <1>2, ManifestCoversNext DEF SnapshotInv
<1>7. CASE Begin \/ Fails \/ SettlePending
  <2>1. stage' \in {"settling", "failed"} /\ UNCHANGED <<toCopy, backupsToCopy, snapshot>>
    BY <1>7 DEF copied, Begin, Takes, Fails, FailsBefore, SettlePending, TakerSettles, TakerSettlesStaged, TakerSettlesParked
  <2>2. stage' = "settling" => stage \in {"ready", "settling"}
    BY <1>7 DEF Begin, Takes, Fails, FailsBefore, SettlePending, TakerSettles, TakerSettlesStaged, TakerSettlesParked
  <2>3. QED
    BY <1>3, <1>4, <2>1, <2>2 DEF SnapshotTypeOK, Stage, CopyInv, HistoryIsCovered
<1>8. CASE Prepared
  BY <1>3, <1>4, <1>8 DEF Prepared, TakerSettled, copied, vars, files, SnapshotTypeOK, Stage, CopyInv, HistoryIsCovered, Pending
<1>9. CASE Vacuum
  <2>1. snapshot' = [snapshot EXCEPT !.rows = db] /\ stage' = "listing" /\ stage = "locked" /\ UNCHANGED <<vars, toCopy, backupsToCopy>>
    BY <1>9 DEF Vacuum
  <2>2. snapshot' \in Snapshot /\ snapshot'.rows = db /\ snapshot'.files = snapshot.files
    BY <1>4, <1>5, <2>1 DEF Snapshot
  <2>3. QED
    BY <1>3, <1>4, <2>1, <2>2 DEF vars, files, SnapshotTypeOK, Stage, CopyInv, HistoryIsCovered, Pending
<1>10. CASE ListFiles
  BY <1>3, <1>4, <1>10 DEF ListFiles, vars, files, SnapshotTypeOK, Stage, CopyInv, HistoryIsCovered, Pending
<1>11. CASE \E c \in Category : CopyFile(c)
  <2>1. PICK c \in Category : CopyFile(c)
    BY <1>11
  <2>2. final[c] # Absent
    BY <1>4, <2>1 DEF CopyFile, CopyInv
  <2>3. /\ stage = "copying" /\ stage' = "copying" /\ toCopy' = toCopy \ {c}
        /\ snapshot' = [snapshot EXCEPT !.files[c] = final[c]]
        /\ UNCHANGED <<db, final, staged, parked, backups, backupsToCopy>>
    BY <2>1, <2>2 DEF CopyFile, files
  <2>4. /\ snapshot' \in Snapshot /\ snapshot'.rows = snapshot.rows
        /\ snapshot'.files = [snapshot.files EXCEPT ![c] = final[c]]
    BY <1>4, <1>5, <2>3 DEF Snapshot
  <2>5. \A d \in Category : snapshot'.files[d] = IF d = c THEN final[c] ELSE snapshot.files[d]
    BY <1>4, <2>4 DEF Snapshot
  <2>6. QED
    BY <1>3, <1>4, <2>3, <2>4, <2>5 DEF SnapshotTypeOK, Stage, CopyInv, HistoryIsCovered, Pending
<1>12. CASE ListBackups
  <2>1. /\ stage = "copying" /\ toCopy = {} /\ UNCHANGED <<vars, toCopy, snapshot>>
        /\ IF WithBackups THEN /\ stage' = "backups"
                               /\ backupsToCopy' = UNION {{c} \X backups[c] : c \in Category}
           ELSE stage' = "manifest" /\ backupsToCopy' = backupsToCopy
    BY <1>12 DEF ListBackups
  <2>2. \A c \in Category : \A v \in backups[c] : <<c, v>> \in UNION {{d} \X backups[d] : d \in Category}
    OBVIOUS
  <2>3. backupsToCopy' \subseteq Category \X Content
    BY <1>4, <1>5, <2>1
  <2>4. CopyInv'
    BY <1>4, <2>1, <2>2 DEF vars, files, CopyInv, Pending
  <2>5. QED
    BY <1>3, <1>4, <2>1, <2>3, <2>4 DEF SnapshotTypeOK, Stage, HistoryIsCovered
<1>13. CASE \E c \in Category, v \in Content : CopyBackup(c, v)
  <2>1. PICK c \in Category, v \in Content : CopyBackup(c, v)
    BY <1>13
  <2>2. /\ stage = "backups" /\ backupsToCopy' = backupsToCopy \ {<<c, v>>}
        /\ UNCHANGED <<db, final, staged, parked, backups, toCopy>>
        /\ \/ snapshot' = [snapshot EXCEPT !.backups[c] = snapshot.backups[c] \cup {v}] /\ stage' = stage
           \/ v \notin backups[c] /\ snapshot' = snapshot /\ stage' \in {stage, "vanished"}
    BY <2>1 DEF CopyBackup, files
  <2>3. /\ snapshot' \in Snapshot /\ snapshot'.rows = snapshot.rows /\ snapshot'.files = snapshot.files
        /\ \A d \in Category : snapshot.backups[d] \subseteq snapshot'.backups[d]
        /\ v \in backups[c] => v \in snapshot'.backups[c]
    BY <1>4, <2>2 DEF Snapshot
  <2>4. CopyInv'
    BY <1>4, <2>2, <2>3 DEF CopyInv, Pending
  <2>5. QED
    BY <1>3, <1>4, <2>2, <2>3, <2>4 DEF SnapshotTypeOK, Stage, HistoryIsCovered
<1>14. CASE BackupsCopied
  BY <1>3, <1>4, <1>14 DEF BackupsCopied, copied, vars, files, SnapshotTypeOK, Stage, CopyInv, Pending,
                           HistoryIsCovered
<1>15. CASE WriteManifest
  <2>1. stage = "manifest" /\ stage' = "written" /\ UNCHANGED <<toCopy, backupsToCopy, snapshot, pruned>>
    BY <1>15 DEF WriteManifest, copied
  <2>2. \A c \in Category : snapshot.files[c] = snapshot.rows[c].row
    BY <1>4, <1>6, <2>1 DEF CopyInv
  <2>3. QED
    BY <1>3, <1>4, <2>1, <2>2 DEF SnapshotTypeOK, Stage, CopyInv, HistoryIsCovered
<1>16. CASE Verify
  <2>1. stage = "written" /\ UNCHANGED <<vars, toCopy, backupsToCopy, snapshot, pruned>> /\ stage' = "verified"
    BY <1>4, <1>16 DEF Verify, copied, CopyInv
  <2>2. QED
    BY <1>3, <1>4, <2>1 DEF SnapshotTypeOK, Stage, CopyInv, HistoryIsCovered
<1>17. QED
  BY <1>7, <1>8, <1>9, <1>10, <1>11, <1>12, <1>13, <1>14, <1>15, <1>16 DEF Take

THEOREM SnapshotInvariant ==
  ASSUME ~PowerCuts
  PROVE  SnapshotSpec => []SnapshotInv
<1>1. SnapshotInit => SnapshotInv
  BY SnapshotInits
<1>2. SnapshotInv /\ [SnapshotNext]_<<vars, svars>> => SnapshotInv'
  <2> SUFFICES ASSUME SnapshotInv, [SnapshotNext]_<<vars, svars>> PROVE SnapshotInv'
    OBVIOUS
  <2>0. All!IInv
    BY DEF SnapshotInv
  <2>1. ~PowerCuts /\ All!Durable
    BY DEF All!Durable
  <2>2. CASE Take \/ (Next /\ UNCHANGED svars)
    <3>1. [All!Next]_(All!vars)
      BY <2>1, <2>2, TakerSteps, WritersStep DEF SnapshotInv, svars
    <3>2. All!IInv'
      BY <2>1, <2>0, <3>1, EveryoneStep, Zenon
    <3>3. QED
      BY <2>1, <2>2, <3>2, TakerCopies, WritersKeepCopy
  <2>3. CASE UNCHANGED <<vars, svars>>
    <3>1. UNCHANGED <<pc, op, todo, new, nops>> /\ TakerPC' = TakerPC /\ Opening' = Opening
      BY <2>3 DEF vars, svars, TakerPC, Opening
    <3>2. allPc' = allPc /\ allOp' = allOp /\ allTodo' = allTodo /\ allNew' = allNew /\ allNops' = allNops
      BY <3>1, TakerView, Zenon
    <3>3. All!vars' = All!vars
      BY <2>3, <3>2 DEF All!vars, All!files, vars, files, svars, allBackups
    <3>4. All!IInv'
      BY <2>1, <2>0, <3>3, EveryoneStep, Zenon
    <3>5. QED
      BY <2>3, <3>1, <3>4 DEF SnapshotInv, SnapshotTypeOK, Functional, CopyInv, HistoryIsCovered, Pending, vars, svars, files
  <2>4. QED
    BY <2>1, <2>2, <2>3, PruningKeepsCopy DEF SnapshotNext
<1>3. QED
  BY <1>1, <1>2, PTL DEF SnapshotSpec

\* Whatever the writers do meanwhile, the rows and the files that are copied are those of
\* the instant at which the copy began.
THEOREM SnapshotIsOneInstant ==
  ASSUME ~PowerCuts
  PROVE  SnapshotSpec => []OneInstant
<1>1. SnapshotInv => OneInstant
  <2> SUFFICES ASSUME SnapshotInv, stage \in {"copying", "backups", "manifest"} PROVE OneInstant
    BY DEF OneInstant
  <2>1. \A c \in Category : final[c] = db[c].row
    BY DEF SnapshotInv, CopyInv, Locked, Pending, All!IInv, All!CoreInv, All!ShapeInv, All!Shape, All!Fits, All!RowOf
  <2>2. QED
    BY <2>1 DEF SnapshotInv, CopyInv, OneInstant
<1>2. QED
  BY <1>1, SnapshotInvariant, PTL

\* A snapshot that was written to its end is never found inconsistent.
THEOREM SnapshotPassesItsVerification ==
  ASSUME ~PowerCuts
  PROVE  SnapshotSpec => []NeverRejected
<1>1. SnapshotInv => NeverRejected
  BY DEF SnapshotInv, CopyInv, NeverRejected
<1>2. QED
  BY <1>1, SnapshotInvariant, PTL

\* A snapshot with backups has the payload of every version that it lists, except those
\* whose backup somebody pruned before it could be copied.
THEOREM SnapshotCoversItsHistory ==
  ASSUME ~PowerCuts
  PROVE  SnapshotSpec => []HistoryIsCovered
<1>1. SnapshotInv => HistoryIsCovered
  BY DEF SnapshotInv
<1>2. QED
  BY <1>1, SnapshotInvariant, PTL

-----------------------------------------------------------------------------
(* Recovery starts where rows and files disagree, so IInv does not hold of its store.
   What holds of every category is less; what an adopted one has gained is never lost. *)

StoreTyped ==
  /\ db \in [Category -> Row] /\ stable \in [Category -> Row]
  /\ final \in [Category -> Content \cup {Absent}]
  /\ staged \in [Category -> SUBSET Staging] /\ parked \in [Category -> SUBSET Parking]
  /\ backups \in [Category -> SUBSET Content]
  /\ crashes \in 0 .. MaxCrashes

DirTyped == unsynced \in [Category -> SUBSET DirState]

CallsTyped ==
  /\ pc \in [Writers -> PC] /\ op \in [Writers -> Request]
  /\ todo \in [Writers -> SUBSET Category]
  /\ new \in [Writers -> Content \cup {Absent}]
  /\ nops \in [Writers -> 0 .. MaxOps]

\* Whoever is in a transaction holds the lock.
HolderInv == \A p \in Writers : InTxn(p) => lock = p

\* What a process has staged is what it is about to commit.
Storing(p) == pc[p] = "writing" \/ (pc[p] \in {"prepared", "committed"} /\ op[p].kind # "delete")

StagedIsNew == \A p \in Writers :
  /\ Storing(p) => new[p] \in Content
  /\ Storing(p) /\ pc[p] # "writing" => \A f \in Mine(p, staged[op[p].cat]) : f.data = new[p]

\* What holds of the processes, whatever their categories look like.
WritersInv == StoreTyped /\ CallsTyped /\ RequestInv /\ HolderInv /\ StagedIsNew

\* How far the plan is, and what the check under the lock has found.
Surveying == {"ready", "listing", "probing", "planning"}

PlanInv ==
  /\ stage \in {"settling", "locked", "checked"} => lock = Taker
  /\ stage \in Surveying => adopted = {}
  /\ stage \notin Surveying \cup Ended => toPlan = {}
  /\ stage = "checked" => \A c \in Entries : Adoptable(c)

BaseInv == WritersInv /\ RecoveryTypeOK /\ PlanInv

\* What a process knows of an adopted category that it changes.
Knows(p, c) ==
  /\ At(p, "writing", c) =>
       /\ \E f \in Staging : staged[c] = {f} /\ f.id = MyFile(p)
       /\ parked[c] = {} /\ final[c] = RowOf(c) /\ RowOf(c) \in backups[c] \cup {Absent}
  /\ At(p, "prepared", c) /\ op[p].kind # "delete" =>
       /\ staged[c] = MyFiles(p, new[p])
       /\ parked[c] = {} /\ final[c] = RowOf(c) /\ RowOf(c) \in backups[c] \cup {Absent}
  /\ At(p, "prepared", c) /\ op[p].kind = "delete" =>
       /\ staged[c] = {} /\ final[c] = Absent
       /\ parked[c] = IF RowOf(c) = Absent THEN {} ELSE MyFiles(p, RowOf(c))
  /\ At(p, "committed", c) =>
       /\ op[p].kind = "delete" => RowOf(c) = Absent \/ Mine(p, parked[c]) = {}
       /\ op[p].kind # "delete" => \A f \in Mine(p, staged[c]) : f.data = RowOf(c)

\* The adopted bytes are the row, or have been kept when they were replaced.
Kept(c) ==
  /\ plan[c] # Absent /\ plan[c].file \in Content
  /\ plan[c].file \in backups[c] \cup Data(parked[c]) \cup {RowOf(c)}

Agreed(c) == Shape(c) /\ Kept(c) /\ \A p \in Writers : Knows(p, c)

RecoveryInv == BaseInv /\ \A c \in adopted : Agreed(c)

\* What Leave does to one process, and that it leaves the others alone.
LEMMA Leaving ==
  ASSUME CallsTyped, NEW p \in Writers, NEW where \in PC, Leave(p, where), nops' = nops
  PROVE  /\ CallsTyped'
         /\ pc'[p] = where /\ op'[p] = NoRequest /\ new'[p] = Absent /\ todo'[p] = {}
         /\ \A q \in Writers \ {p} : /\ pc'[q] = pc[q] /\ op'[q] = op[q] /\ new'[q] = new[q]
                                      /\ todo'[q] = todo[q] /\ nops'[q] = nops[q]
<1>1. NoRequest \in Request
  BY DEF NoRequest, Request
<1>2. QED
  BY <1>1 DEF Leave, CallsTyped

\* The steps that end a call: no file and no row changes, except that ClearDirty takes a mark away.
LEMMA WritersLeave ==
  ASSUME WritersInv, NEW p \in Writers,
         \/ GiveUp(p) \/ SettleError(p) \/ FinishOpen(p) \/ Refuse(p) \/ Abort(p) \/ Crash(p)
         \/ PromoteFails(p) \/ ClearDirty(p) \/ \E c \in Category : \E f \in staged[c] : SettleFails(p, c, f)
  PROVE  /\ WritersInv'
         /\ UNCHANGED <<final, staged, parked, backups>>
         /\ lock' \in {lock, NoWriter}
         /\ lock = Taker => lock' = lock
         /\ \A c \in Category : RowOf(c)' = RowOf(c)
         /\ \A q \in Writers : /\ pc'[q] \in {"writing", "prepared", "committed"} => q # p
                               /\ q # p => /\ pc'[q] = pc[q] /\ op'[q] = op[q]
                                           /\ new'[q] = new[q] /\ nops'[q] = nops[q]
<1> USE DEF WritersInv
<1>0. Leave(p, "idle") \/ Leave(p, "down")
  <2>1. Fail(p) => Leave(p, "idle") \/ Leave(p, "down")
    BY Zenon DEF Fail
  <2>2. QED
    BY <2>1 DEF GiveUp, SettleError, FinishOpen, Refuse, Abort, Crash, PromoteFails, ClearDirty, SettleFails
<1>1. /\ nops' = nops /\ UNCHANGED <<final, staged, parked, backups>>
      /\ lock' = lock \/ lock' = IF lock = p THEN NoWriter ELSE lock
      /\ lock' # lock \/ lock # p \/ ~InTxn(p)
  BY ConstantsAssumption
     DEF GiveUp, SettleError, FinishOpen, Refuse, Abort, Crash, PromoteFails, ClearDirty, SettleFails, Settled,
         Unlock, files, InTxn, HolderInv
<1>2. PICK where \in {"idle", "down"} : Leave(p, where)
  BY <1>0
<1>a. where \in PC
  BY DEF PC
<1>3. /\ CallsTyped'
      /\ pc'[p] = where /\ op'[p] = NoRequest /\ new'[p] = Absent /\ todo'[p] = {}
      /\ \A q \in Writers \ {p} : /\ pc'[q] = pc[q] /\ op'[q] = op[q] /\ new'[q] = new[q]
                                   /\ todo'[q] = todo[q] /\ nops'[q] = nops[q]
  BY <1>1, <1>2, <1>a, Leaving
<1>4. /\ db' \in [Category -> Row] /\ stable' \in [Category -> Row] /\ crashes' \in 0 .. MaxCrashes
      /\ \A c \in Category : RowOf(c)' = RowOf(c)
  <2>1. CASE ClearDirty(p)
    <3>1. op[p].cat \in Category
      BY <2>1 DEF ClearDirty, Settled, RequestInv
    <3>2. ASSUME NEW c \in Category
          PROVE  [db[c] EXCEPT !.dirty = "clean"] \in Row /\ [db[c] EXCEPT !.dirty = "clean"].row = db[c].row
      <4>1. db[c] \in Row
        BY DEF StoreTyped
      <4>2. QED
        BY <4>1 DEF Row
    <3>3. db' = [db EXCEPT ![op[p].cat] = [db[op[p].cat] EXCEPT !.dirty = "clean"]]
      BY <2>1 DEF ClearDirty
    <3>4. QED
      BY <2>1, <3>1, <3>2, <3>3 DEF ClearDirty, RowOf, StoreTyped
  <2>2. CASE ~ClearDirty(p)
    BY <2>2, ConstantsAssumption
       DEF GiveUp, SettleError, FinishOpen, Refuse, Abort, Crash, PromoteFails, SettleFails, RowOf, StoreTyped, files
  <2>3. QED
    BY <2>1, <2>2
<1>5. RequestInv'
  BY <1>2, <1>3 DEF RequestInv, NoRequest
<1>6. HolderInv'
  BY <1>1, <1>2, <1>3, ConstantsAssumption DEF HolderInv, InTxn
<1>7. StagedIsNew'
  BY <1>1, <1>2, <1>3 DEF StagedIsNew, Storing, Mine, MyFile
<1>8. QED
  BY <1>1, <1>2, <1>3, <1>4, <1>5, <1>6, <1>7, TakerAssumption DEF StoreTyped

\* The steps that begin something without touching a file or a row.
LEMMA WritersBegin ==
  ASSUME WritersInv, NEW p \in Writers, Call(p) \/ Acquire(p) \/ Open(p)
  PROVE  /\ WritersInv'
         /\ UNCHANGED <<db, final, staged, parked, backups>> /\ lock' \in {lock, p}
         /\ lock' # lock => lock = NoWriter
         /\ \A q \in Writers : /\ pc'[q] \in {"writing", "prepared", "committed"} => q # p
                               /\ q # p => /\ pc'[q] = pc[q] /\ op'[q] = op[q]
                                           /\ new'[q] = new[q] /\ nops'[q] = nops[q]
<1> USE DEF WritersInv
<1>1. CASE Call(p)
  <2>1. PICK k \in Kinds, cat \in Category, t \in Token \cup {Absent}, v \in Incoming \cup {Absent} :
          \E e \in {Absent, db[cat].row} :
            LET r == [kind |-> k, cat |-> cat, token |-> t, value |-> v, expected |-> e]
            IN  /\ WellFormed(r)
                /\ op'   = [op   EXCEPT ![p] = r]
                /\ todo' = [todo EXCEPT ![p] = IF k = "clear" THEN {} ELSE {cat}]
    BY <1>1 DEF Call
  <2>2. PICK e \in {Absent, db[cat].row} :
          LET r == [kind |-> k, cat |-> cat, token |-> t, value |-> v, expected |-> e]
          IN  /\ WellFormed(r)
              /\ op'   = [op   EXCEPT ![p] = r]
              /\ todo' = [todo EXCEPT ![p] = IF k = "clear" THEN {} ELSE {cat}]
    BY <2>1
  <2> DEFINE r == [kind |-> k, cat |-> cat, token |-> t, value |-> v, expected |-> e]
  <2>3. r \in Request
    BY ConstantsAssumption DEF Request, StoreTyped, Row
  <2>4. /\ r.expected # Absent => r.kind \in CasKinds
        /\ r.kind \in ValueKinds => r.value \in Incoming
        /\ r.kind \in TokenKinds => r.token \in Token
        /\ r.kind \in Kinds /\ r.cat \in Category /\ r.kind = k /\ r.cat = cat
    BY <2>2 DEF WellFormed
  <2> HIDE DEF r
  <2>5. /\ pc[p] = "idle" /\ pc' = [pc EXCEPT ![p] = "waiting"] /\ nops' = [nops EXCEPT ![p] = nops[p] + 1]
        /\ op' = [op EXCEPT ![p] = r] /\ todo' = [todo EXCEPT ![p] = IF k = "clear" THEN {} ELSE {cat}]
        /\ nops[p] < MaxOps
        /\ UNCHANGED <<db, stable, final, staged, parked, backups, lock, new, crashes>>
    BY <1>1, <2>2 DEF Call, files, r
  <2>6. CallsTyped'
    BY <2>3, <2>5, ConstantsAssumption DEF CallsTyped, PC
  <2>7. /\ pc'[p] = "waiting" /\ op'[p] = r /\ new'[p] = new[p]
        /\ todo'[p] = IF k = "clear" THEN {} ELSE {cat}
        /\ \A q \in Writers \ {p} : /\ pc'[q] = pc[q] /\ op'[q] = op[q] /\ new'[q] = new[q]
                                     /\ todo'[q] = todo[q] /\ nops'[q] = nops[q]
    BY <2>5 DEF CallsTyped
  <2>8. RequestInv'
    BY <2>4, <2>5, <2>7 DEF RequestInv
  <2>9. HolderInv' /\ StagedIsNew'
    BY <2>5, <2>7 DEF HolderInv, InTxn, StagedIsNew, Storing, Mine, MyFile
  <2>10. QED
    BY <2>5, <2>6, <2>7, <2>8, <2>9 DEF StoreTyped
<1>2. CASE Acquire(p)
  <2>1. /\ pc[p] = "waiting" /\ pc' = [pc EXCEPT ![p] = "settling"] /\ lock = NoWriter /\ lock' = p
        /\ UNCHANGED <<db, stable, final, staged, parked, backups, op, todo, new, nops, crashes>>
    BY <1>2 DEF Acquire, files
  <2>2. CallsTyped' /\ pc'[p] = "settling" /\ \A q \in Writers \ {p} : pc'[q] = pc[q]
    BY <2>1 DEF CallsTyped, PC
  <2>3. RequestInv' /\ HolderInv' /\ StagedIsNew'
    BY <2>1, <2>2, ConstantsAssumption DEF RequestInv, HolderInv, InTxn, StagedIsNew, Storing, Mine, MyFile
  <2>4. QED
    BY <2>1, <2>2, <2>3 DEF StoreTyped
<1>3. CASE Open(p)
  <2>1. /\ pc[p] = "down" /\ pc'[p] \in {"idle", "waiting"}
        /\ op'[p] = NoRequest \/ op'[p] = OpenRequest
        /\ new'[p] = Absent
        /\ CallsTyped'
        /\ \A q \in Writers \ {p} : /\ pc'[q] = pc[q] /\ op'[q] = op[q] /\ new'[q] = new[q]
                                     /\ todo'[q] = todo[q] /\ nops'[q] = nops[q]
        /\ UNCHANGED <<db, stable, final, staged, parked, backups, lock, nops, crashes>>
        /\ pc'[p] = "waiting" => op'[p] = OpenRequest
    <3> DEFINE names == {c \in Category : Pending(c)}
    <3>1. CASE names = {}
      <4>1. Leave(p, "idle") /\ "idle" \in PC /\ nops' = nops
        BY <1>3, <3>1 DEF Open, PC
      <4>2. QED
        BY <1>3, <3>1, <4>1, Leaving DEF Open, files
    <3>2. CASE names # {}
      <4>1. OpenRequest \in Request
        BY DEF OpenRequest, NoRequest, Request
      <4>2. /\ pc' = [pc EXCEPT ![p] = "waiting"] /\ op' = [op EXCEPT ![p] = OpenRequest]
            /\ todo' = [todo EXCEPT ![p] = names] /\ new' = new /\ pc[p] = "down"
            /\ UNCHANGED <<db, stable, final, staged, parked, backups, lock, nops, crashes>>
        BY <1>3, <3>2 DEF Open, files
      <4>3. names \in SUBSET Category /\ new[p] = Absent
        BY <4>2 DEF RequestInv
      <4> HIDE DEF names
      <4>4. CallsTyped'
        BY <4>1, <4>2, <4>3 DEF CallsTyped, PC
      <4>5. QED
        BY <4>2, <4>3, <4>4 DEF CallsTyped
    <3>3. QED
      BY <3>1, <3>2
  <2>2. OpenRequest.kind = "open"
    BY DEF OpenRequest, NoRequest
  <2>3. RequestInv' /\ HolderInv' /\ StagedIsNew'
    BY <2>1, <2>2 DEF RequestInv, HolderInv, InTxn, StagedIsNew, Storing, Mine, MyFile
  <2>4. QED
    BY <2>1, <2>3 DEF StoreTyped
<1>4. QED
  BY <1>1, <1>2, <1>3

\* What settling one leftover of a category does, whoever settles.
SettlesOne(c) ==
  \/ \E f \in staged[c] :
       /\ final'  = IF f.data = db[c].row THEN [final EXCEPT ![c] = f.data] ELSE final
       /\ staged' = [staged EXCEPT ![c] = staged[c] \ {f}]
       /\ UNCHANGED <<parked, backups>>
  \/ \E f \in parked[c] :
       /\ staged[c] = {}
       /\ IF db[c].row # Absent
          THEN final' = [final EXCEPT ![c] = f.data] /\ UNCHANGED backups
          ELSE backups' = [backups EXCEPT ![c] = backups[c] \cup {f.data}] /\ UNCHANGED final
       /\ parked' = [parked EXCEPT ![c] = parked[c] \ {f}]
       /\ UNCHANGED staged

\* A settling process settles one leftover, or fails at a file it cannot read.
LEMMA SettlingSettlesOne ==
  ASSUME NEW p \in Writers, Settle(p)
  PROVE  \/ \E c \in Category : \E f \in staged[c] : SettleFails(p, c, f)
         \/ /\ \E c \in Category : SettlesOne(c)
            /\ pc[p] = "settling"
            /\ UNCHANGED <<db, stable, lock, pc, op, todo, new, nops, crashes>>
BY DEF Settle, SettleStaged, SettleParked, SettlesOne

\* Settling keeps what holds of the processes.
LEMMA WritersSettling ==
  ASSUME WritersInv, NEW c \in Category, SettlesOne(c),
         UNCHANGED <<db, stable, lock, pc, op, todo, new, nops, crashes>>
  PROVE  WritersInv'
<1> USE DEF WritersInv
<1>1. /\ final' \in [Category -> Content \cup {Absent}] /\ backups' \in [Category -> SUBSET Content]
      /\ staged' \in [Category -> SUBSET Staging] /\ parked' \in [Category -> SUBSET Parking]
      /\ \A d \in Category : staged'[d] \subseteq staged[d]
  <2>1. CASE \E f \in staged[c] :
               /\ final'  = IF f.data = db[c].row THEN [final EXCEPT ![c] = f.data] ELSE final
               /\ staged' = [staged EXCEPT ![c] = staged[c] \ {f}]
               /\ UNCHANGED <<parked, backups>>
    BY <2>1 DEF StoreTyped, Row
  <2>2. CASE \E f \in parked[c] :
               /\ staged[c] = {}
               /\ IF db[c].row # Absent
                  THEN final' = [final EXCEPT ![c] = f.data] /\ UNCHANGED backups
                  ELSE backups' = [backups EXCEPT ![c] = backups[c] \cup {f.data}] /\ UNCHANGED final
               /\ parked' = [parked EXCEPT ![c] = parked[c] \ {f}]
               /\ UNCHANGED staged
    BY <2>2 DEF StoreTyped, Parking
  <2>3. QED
    BY <2>1, <2>2 DEF SettlesOne
<1>2. RequestInv' /\ HolderInv'
  BY DEF RequestInv, HolderInv, InTxn
<1>3. StagedIsNew'
  BY <1>1 DEF StagedIsNew, Storing, Mine, MyFile, RequestInv
<1>4. QED
  BY <1>1, <1>2, <1>3 DEF StoreTyped, CallsTyped

\* The process's own steps under the lock and after COMMIT: what each does to the files.
LEMMA WritersStage ==
  ASSUME WritersInv, NEW p \in Writers, StageOpen(p) \/ StageDone(p) \/ Park(p)
  PROVE  /\ WritersInv' /\ InTxn(p) /\ op[p].cat \in Category /\ UNCHANGED <<db, lock, op, nops>>
         /\ \A q \in Writers \ {p} : pc'[q] = pc[q] /\ new'[q] = new[q]
         /\ \A d \in Category \ {op[p].cat} :
              final'[d] = final[d] /\ staged'[d] = staged[d] /\ parked'[d] = parked[d] /\ backups'[d] = backups[d]
<1> USE DEF WritersInv
<1> DEFINE c == op[p].cat
<1>a. MyFile(p) \in FileId
  BY DEF MyFile, FileId, CallsTyped
<1>b. \A q \in Writers \ {p} : MyFile(q) # MyFile(p)
  BY DEF MyFile
<1>1. CASE StageOpen(p)
  <2>1. /\ pc[p] = "settling" /\ op[p].kind \in Kinds \ {"clear", "delete"} /\ c \in Category
        /\ op[p].kind \in ValueKinds => op[p].value \in Incoming
        /\ op[p].kind \in TokenKinds => op[p].token \in Token
        /\ op[p].expected # Absent => op[p].kind \in CasKinds
    BY <1>1 DEF StageOpen, Settled, RequestInv
  <2>2. op[p] \in Request /\ Current(c) \in Content \cup {Absent}
    BY <2>1 DEF CallsTyped, StoreTyped, Row, Current
  <2>3. Outcome(op[p], Current(c)) \in Content
    BY <2>1, <2>2, OutcomeIsContent
  <2>4. PICK t \in Tears : staged' = [staged EXCEPT ![c] = staged[c] \cup {[id |-> MyFile(p), data |-> t]}]
    BY <1>1 DEF StageOpen
  <2>5. [id |-> MyFile(p), data |-> t] \in Staging
    BY <1>a DEF Staging
  <2>6. /\ new' = [new EXCEPT ![p] = Outcome(op[p], Current(c))]
        /\ backups' = [backups EXCEPT ![c] = backups[c] \cup ({final[c]} \ {Absent})]
        /\ pc' = [pc EXCEPT ![p] = "writing"]
        /\ UNCHANGED <<db, stable, final, parked, lock, op, todo, nops, crashes>>
    BY <1>1 DEF StageOpen
  <2> HIDE DEF c
  <2>7. StoreTyped'
    BY <2>1, <2>4, <2>5, <2>6 DEF StoreTyped
  <2>8. CallsTyped' /\ pc'[p] = "writing" /\ new'[p] \in Content
        /\ \A q \in Writers \ {p} : pc'[q] = pc[q] /\ new'[q] = new[q]
    BY <2>3, <2>6 DEF CallsTyped, PC
  <2>9. RequestInv'
    BY <2>1, <2>6, <2>8 DEF RequestInv, c
  <2>10. HolderInv'
    BY <2>1, <2>6, <2>8 DEF HolderInv, InTxn
  <2>11. \A q \in Writers \ {p}, d \in Category : Mine(q, staged[d])' = Mine(q, staged[d])
    BY <1>b, <2>1, <2>4, <2>6 DEF Mine, StoreTyped, MyFile
  <2>12. StagedIsNew'
    BY <2>6, <2>8, <2>9, <2>11 DEF StagedIsNew, Storing, RequestInv
  <2>13. QED
    BY <2>1, <2>4, <2>6, <2>7, <2>8, <2>9, <2>10, <2>12 DEF StoreTyped, InTxn, c
<1>2. CASE StageDone(p)
  <2>1. pc[p] = "writing" /\ c \in Category /\ new[p] \in Content /\ op[p].kind # "delete"
    BY <1>2 DEF StageDone, RequestInv, StagedIsNew, Storing
  <2>2. [id |-> MyFile(p), data |-> new[p]] \in Staging
    BY <1>a, <2>1 DEF Staging
  <2>3. /\ staged' = [staged EXCEPT ![c] = {f \in staged[c] : f.id # MyFile(p)}
                                             \cup {[id |-> MyFile(p), data |-> new[p]]}]
        /\ pc' = [pc EXCEPT ![p] = "prepared"]
        /\ UNCHANGED <<db, stable, final, parked, backups, lock, op, todo, new, nops, crashes>>
    BY <1>2 DEF StageDone
  <2> HIDE DEF c
  <2>4. StoreTyped'
    BY <2>1, <2>2, <2>3 DEF StoreTyped
  <2>5. CallsTyped' /\ pc'[p] = "prepared" /\ \A q \in Writers \ {p} : pc'[q] = pc[q]
    BY <2>3 DEF CallsTyped, PC
  <2>6. RequestInv'
    BY <2>1, <2>3, <2>5 DEF RequestInv
  <2>7. HolderInv'
    BY <2>1, <2>3, <2>5 DEF HolderInv, InTxn
  <2>8. \A q \in Writers \ {p}, d \in Category : Mine(q, staged[d])' = Mine(q, staged[d])
    <3>1. TAKE q \in Writers \ {p}, d \in Category
    <3>2. CASE d = c
      <4>1. staged'[d] = {f \in staged[c] : f.id # MyFile(p)} \cup {[id |-> MyFile(p), data |-> new[p]]}
        BY <2>1, <2>3, <3>2 DEF StoreTyped
      <4>2. MyFile(q)' = MyFile(q) /\ MyFile(q) # MyFile(p)
        BY <1>b, <2>3 DEF MyFile
      <4>3. QED
        BY <3>2, <4>1, <4>2 DEF Mine
    <3>3. CASE d # c
      BY <2>3, <3>3 DEF Mine, StoreTyped, MyFile
    <3>4. QED
      BY <3>2, <3>3
  <2>9. \A f \in Mine(p, staged[op[p].cat])' : f.data = new[p]
    <3>1. staged'[c] = {f \in staged[c] : f.id # MyFile(p)} \cup {[id |-> MyFile(p), data |-> new[p]]}
      BY <2>1, <2>3 DEF StoreTyped
    <3>2. MyFile(p)' = MyFile(p) /\ op'[p].cat = c
      BY <2>3 DEF MyFile, c
    <3>3. QED
      BY <3>1, <3>2 DEF Mine
  <2>10. StagedIsNew'
    <3>1. \A q \in Writers \ {p} : Storing(q)' => /\ Storing(q) /\ new'[q] \in Content
                                                  /\ op'[q] = op[q] /\ op[q].cat \in Category
      BY <2>3, <2>5 DEF StagedIsNew, Storing, RequestInv
    <3>2. \A q \in Writers \ {p} : Storing(q)' /\ pc'[q] # "writing" =>
            \A f \in Mine(q, staged[op[q].cat])' : f.data = new'[q]
      <4>1. TAKE q \in Writers \ {p}
      <4>2. HAVE Storing(q)' /\ pc'[q] # "writing"
      <4>3. Mine(q, staged[op[q].cat])' = Mine(q, staged[op[q].cat])
        BY <2>8, <3>1, <4>2 DEF Mine
      <4>4. \A f \in Mine(q, staged[op[q].cat]) : f.data = new[q]
        BY <2>5, <3>1, <4>2 DEF StagedIsNew
      <4>5. QED
        BY <2>3, <4>3, <4>4 DEF Mine
    <3>3. QED
      BY <2>1, <2>3, <2>9, <3>1, <3>2 DEF StagedIsNew
  <2>11. QED
    BY <2>1, <2>3, <2>4, <2>5, <2>6, <2>7, <2>10 DEF StoreTyped, InTxn, c
<1>3. CASE Park(p)
  <2>1. /\ pc[p] = "settling" /\ op[p].kind = "delete" /\ op[p].kind \in Kinds /\ c \in Category
        /\ op[p].expected # Absent => op[p].kind \in CasKinds
    BY <1>3 DEF Park, Settled, RequestInv
  <2>2. {[id |-> MyFile(p), data |-> d] : d \in {final[c]} \ {Absent}} \subseteq Parking
    BY <1>a, <2>1 DEF Parking, StoreTyped
  <2>3. /\ parked' = [parked EXCEPT ![c] =
                        parked[c] \cup {[id |-> MyFile(p), data |-> d] : d \in {final[c]} \ {Absent}}]
        /\ final' = [final EXCEPT ![c] = Absent]
        /\ pc' = [pc EXCEPT ![p] = "prepared"]
        /\ UNCHANGED <<db, stable, staged, backups, lock, op, todo, new, nops, crashes>>
    BY <1>3 DEF Park
  <2> HIDE DEF c
  <2>4. StoreTyped'
    BY <2>1, <2>2, <2>3 DEF StoreTyped
  <2>5. CallsTyped' /\ pc'[p] = "prepared" /\ \A q \in Writers \ {p} : pc'[q] = pc[q]
    BY <2>3 DEF CallsTyped, PC
  <2>6. RequestInv'
    BY <2>1, <2>3, <2>5 DEF RequestInv, c, ValueKinds, TokenKinds
  <2>7. HolderInv' /\ StagedIsNew'
    BY <2>1, <2>3, <2>5 DEF HolderInv, InTxn, StagedIsNew, Storing, Mine, MyFile
  <2>8. QED
    BY <2>1, <2>3, <2>4, <2>5, <2>6, <2>7 DEF StoreTyped, InTxn, c
<1>4. QED
  BY <1>1, <1>2, <1>3

\* What a transaction leaves for its category is a row.
LEMMA WrittenIsRow ==
  ASSUME NEW r \in Request, NEW old \in Row, NEW v \in Content \cup {Absent},
         r.kind # "delete" => v \in Content
  PROVE  /\ Written(r, old, v) \in Row
         /\ Written(r, old, v).row = IF r.kind = "delete" THEN Absent ELSE v
<1>1. Written(r, old, v) \in Row
  BY WrittenTyped
<1>2. r.kind = "delete" => Written(r, old, v).row = Absent
  BY DEF Written
<1>3. r.kind # "delete" => Written(r, old, v).row = v
  BY DEF Written
<1>4. QED
  BY <1>1, <1>2, <1>3

\* COMMIT changes one row and frees the lock; no file changes.
LEMMA WritersCommit ==
  ASSUME WritersInv, NEW p \in Writers, Commit(p)
  PROVE  /\ WritersInv' /\ op[p].cat \in Category /\ InTxn(p)
         /\ UNCHANGED <<final, staged, parked, backups, op, new, nops>> /\ lock' = NoWriter
         /\ \A d \in Category : RowOf(d)' = IF d # op[p].cat THEN RowOf(d)
                                             ELSE IF op[p].kind = "delete" THEN Absent ELSE new[p]
         /\ pc[p] = "prepared" /\ pc'[p] = "committed"
         /\ \A q \in Writers \ {p} : pc'[q] = pc[q]
<1> USE DEF WritersInv
<1> DEFINE c == op[p].cat
<1>1. /\ pc[p] = "prepared" /\ c \in Category /\ op[p] \in Request /\ db[c] \in Row
      /\ new[p] \in Content \cup {Absent}
      /\ op[p].kind # "delete" => new[p] \in Content
      /\ lock = p
  BY DEF Commit, RequestInv, StagedIsNew, Storing, CallsTyped, StoreTyped, HolderInv, InTxn
<1>2. /\ Written(op[p], db[c], new[p]) \in Row
      /\ Written(op[p], db[c], new[p]).row = IF op[p].kind = "delete" THEN Absent ELSE new[p]
  BY <1>1, WrittenIsRow
<1>3. /\ db' = [db EXCEPT ![c] = Written(op[p], db[c], new[p])]
      /\ stable' = IF Synchronous = "full" THEN db' ELSE stable
      /\ lock' = NoWriter /\ pc' = [pc EXCEPT ![p] = "committed"]
      /\ UNCHANGED <<final, staged, parked, backups, op, todo, new, nops, crashes>>
  BY <1>1 DEF Commit, Unlock, files
<1> HIDE DEF c
<1>4. /\ StoreTyped'
      /\ \A d \in Category : RowOf(d)' = IF d # c THEN RowOf(d)
                                          ELSE IF op[p].kind = "delete" THEN Absent ELSE new[p]
  BY <1>1, <1>2, <1>3 DEF StoreTyped, RowOf
<1>5. CallsTyped' /\ pc'[p] = "committed" /\ \A q \in Writers \ {p} : pc'[q] = pc[q]
  BY <1>3 DEF CallsTyped, PC
<1>6. RequestInv' /\ HolderInv'
  BY <1>1, <1>3, <1>5 DEF RequestInv, HolderInv, InTxn
<1>7. StagedIsNew'
  BY <1>1, <1>3, <1>5 DEF StagedIsNew, Storing, Mine, MyFile
<1>8. QED
  BY <1>1, <1>3, <1>4, <1>5, <1>6, <1>7 DEF InTxn, c

\* Moving a process's own file into place changes no category that has nothing pending.
LEMMA WritersPromote ==
  ASSUME WritersInv, NEW p \in Writers, Promote(p) \/ PromoteDelete(p)
  PROVE  /\ WritersInv' /\ op[p].cat \in Category /\ ~InTxn(p)
         /\ UNCHANGED <<db, lock>>
         /\ \A q \in Writers : /\ pc'[q] \in {"writing", "prepared", "committed"} => q # p
                               /\ q # p => /\ pc'[q] = pc[q] /\ op'[q] = op[q]
                                           /\ new'[q] = new[q] /\ nops'[q] = nops[q]
         /\ \A d \in Category :
              d # op[p].cat \/ ~Pending(d) =>
                final'[d] = final[d] /\ staged'[d] = staged[d] /\ parked'[d] = parked[d] /\ backups'[d] = backups[d]
<1> USE DEF WritersInv
<1> DEFINE c == op[p].cat
<1>1. /\ pc[p] = "committed" /\ Leave(p, "idle") /\ "idle" \in PC /\ c \in Category
      /\ UNCHANGED <<db, stable, lock, nops, crashes>>
  BY DEF Promote, PromoteDelete, PC, RequestInv
<1>2. /\ CallsTyped'
      /\ pc'[p] = "idle" /\ op'[p] = NoRequest /\ new'[p] = Absent /\ todo'[p] = {}
      /\ \A q \in Writers \ {p} : /\ pc'[q] = pc[q] /\ op'[q] = op[q] /\ new'[q] = new[q]
                                   /\ todo'[q] = todo[q] /\ nops'[q] = nops[q]
  BY <1>1, Leaving
<1>3. /\ StoreTyped'
      /\ \A d \in Category : staged'[d] \subseteq staged[d]
      /\ \A d \in Category : d # c \/ ~Pending(d) =>
           final'[d] = final[d] /\ staged'[d] = staged[d] /\ parked'[d] = parked[d] /\ backups'[d] = backups[d]
  <2>1. CASE Promote(p)
    <3>1. \A f \in Mine(p, staged[c]) : f.data \in Content
      BY <1>1, <2>1 DEF Promote, StagedIsNew, Storing
    <3>2. CASE \E f \in Mine(p, staged[c]) :
                 final' = [final EXCEPT ![c] = f.data] /\ staged' = [staged EXCEPT ![c] = staged[c] \ {f}]
      BY <1>1, <2>1, <3>1, <3>2 DEF Promote, StoreTyped, Pending, Mine
    <3>3. CASE UNCHANGED <<final, staged>>
      BY <1>1, <2>1, <3>3 DEF Promote, StoreTyped
    <3>4. QED
      BY <2>1, <3>2, <3>3 DEF Promote
  <2>2. CASE PromoteDelete(p)
    <3>1. Data(Mine(p, parked[c])) \subseteq Content
      BY <1>1 DEF Data, Mine, StoreTyped, Parking
    <3>2. /\ backups' = [backups EXCEPT ![c] = backups[c] \cup Data(Mine(p, parked[c]))]
          /\ parked'  = [parked EXCEPT ![c] = parked[c] \ Mine(p, parked[c])]
          /\ UNCHANGED <<final, staged>>
      BY <2>2 DEF PromoteDelete
    <3> HIDE DEF c
    <3>3. QED
      BY <1>1, <3>1, <3>2 DEF StoreTyped, Pending, Mine, Data
  <2>3. QED
    BY <2>1, <2>2
<1>4. RequestInv'
  BY <1>1, <1>2 DEF RequestInv, NoRequest
<1>5. HolderInv'
  BY <1>1, <1>2 DEF HolderInv, InTxn
<1>6. StagedIsNew'
  BY <1>1, <1>2, <1>3 DEF StagedIsNew, Storing, Mine, MyFile, RequestInv
<1>7. QED
  BY <1>1, <1>2, <1>3, <1>4, <1>5, <1>6 DEF InTxn

\* A power loss and a checkpoint keep what holds of the processes.
LEMMA WritersMachine ==
  ASSUME WritersInv, PowerCuts => DirTyped, PowerLoss \/ Checkpoint
  PROVE  WritersInv'
<1> USE DEF WritersInv
<1>1. CASE PowerLoss
  <2>1. NoRequest \in Request /\ NoRequest.kind = "none"
    BY DEF NoRequest, Request
  <2>2. backups' \in [Category -> SUBSET Content] /\ crashes' \in 0 .. MaxCrashes
    BY <1>1, ConstantsAssumption DEF PowerLoss, StoreTyped
  <2>a. DirTyped /\ (\A c \in Category : Dir(c) \in DirState)
    BY <1>1 DEF PowerLoss, StoreTyped, Dir, DirState
  <2>b. PICK left \in [Category -> UNION {unsynced[c] \cup {Dir(c)} : c \in Category}] :
           /\ \A c \in Category : left[c] \in unsynced[c] \cup {Dir(c)}
           /\ final'  = [c \in Category |-> left[c].final]
           /\ staged' = [c \in Category |-> left[c].staged]
           /\ parked' = [c \in Category |-> left[c].parked]
    BY <1>1, PowerLossLeaves
  <2>c. \A c \in Category : left[c] \in DirState
    BY <2>a, <2>b DEF DirTyped
  <2>d. \A d \in DirState : /\ d.final \in Content \cup {Absent}
                            /\ d.staged \in SUBSET Staging /\ d.parked \in SUBSET Parking
    BY DEF DirState
  <2>e. /\ final'  \in [Category -> Content \cup {Absent}]
        /\ staged' \in [Category -> SUBSET Staging]
        /\ parked' \in [Category -> SUBSET Parking]
    BY <2>b, <2>c, <2>d
  <2>3. StoreTyped'
    BY <1>1, <2>2, <2>e DEF PowerLoss, StoreTyped
  <2>4. CallsTyped' /\ \A p \in Writers : pc'[p] = "down" /\ op'[p] = NoRequest /\ new'[p] = Absent
    BY <1>1, <2>1 DEF PowerLoss, CallsTyped, PC
  <2>5. RequestInv' /\ HolderInv' /\ StagedIsNew'
    BY <2>1, <2>4 DEF RequestInv, HolderInv, InTxn, StagedIsNew, Storing
  <2>6. QED
    BY <2>3, <2>4, <2>5
<1>2. CASE Checkpoint
  BY <1>2 DEF Checkpoint, files, StoreTyped, CallsTyped, RequestInv, HolderInv, InTxn, StagedIsNew, Storing, Mine, MyFile
<1>3. QED
  BY <1>1, <1>2

\* What a writer may do in one step.
Acts(p) ==
  \/ Call(p) \/ Acquire(p) \/ GiveUp(p) \/ Work(p)
  \/ SettleError(p) \/ Abort(p) \/ PromoteFails(p) \/ Crash(p) \/ Open(p)

\* The steps of a process, by what they may change.
LEMMA ActsByKind ==
  ASSUME NEW p \in Writers, Acts(p)
  PROVE  \/ \/ GiveUp(p) \/ SettleError(p) \/ FinishOpen(p) \/ Refuse(p) \/ Abort(p) \/ Crash(p)
            \/ PromoteFails(p) \/ ClearDirty(p) \/ \E c \in Category : \E f \in staged[c] : SettleFails(p, c, f)
         \/ Call(p) \/ Acquire(p) \/ Open(p)
         \/ /\ \E c \in Category : SettlesOne(c)
            /\ pc[p] = "settling"
            /\ UNCHANGED <<db, stable, lock, pc, op, todo, new, nops, crashes>>
         \/ StageOpen(p) \/ StageDone(p) \/ Park(p)
         \/ Commit(p)
         \/ Promote(p) \/ PromoteDelete(p)
BY SettlingSettlesOne DEF Acts, Work

\* The processes keep what holds of them; while the maintenance process has the lock, no row
\* changes, and no file of a category that has nothing pending.
LEMMA WritersAct ==
  ASSUME WritersInv, NEW p \in Writers, Acts(p)
  PROVE  /\ WritersInv'
         /\ lock' \in {lock, NoWriter, p}
         /\ lock = Taker =>
              /\ lock' = Taker
              /\ \A c \in Category : /\ RowOf(c)' = RowOf(c)
                                     /\ ~Pending(c) => ~Pending(c)' /\ final'[c] = final[c]
<1>0. InTxn(p) => lock = p /\ p # Taker /\ p # NoWriter
  BY TakerAssumption, ConstantsAssumption DEF WritersInv, HolderInv
<1>1. CASE \/ GiveUp(p) \/ SettleError(p) \/ FinishOpen(p) \/ Refuse(p) \/ Abort(p) \/ Crash(p)
           \/ PromoteFails(p) \/ ClearDirty(p) \/ \E c \in Category : \E f \in staged[c] : SettleFails(p, c, f)
  <2>1. /\ WritersInv' /\ UNCHANGED <<final, staged, parked, backups>>
        /\ lock' \in {lock, NoWriter}
        /\ lock = Taker => lock' = lock
        /\ \A c \in Category : RowOf(c)' = RowOf(c)
    BY <1>1, WritersLeave
  <2>2. QED
    BY <2>1 DEF Pending
<1>2. CASE Call(p) \/ Acquire(p) \/ Open(p)
  <2>1. /\ WritersInv' /\ UNCHANGED <<db, final, staged, parked, backups>>
        /\ lock' \in {lock, p}
        /\ lock' # lock => lock = NoWriter
    BY <1>2, WritersBegin
  <2>2. QED
    BY <2>1, TakerAssumption DEF Pending, RowOf
<1>3. CASE /\ \E c \in Category : SettlesOne(c)
           /\ pc[p] = "settling"
           /\ UNCHANGED <<db, stable, lock, pc, op, todo, new, nops, crashes>>
  <2>1. WritersInv'
    BY <1>3, WritersSettling
  <2>2. QED
    BY <1>0, <1>3, <2>1 DEF InTxn
<1>4. CASE StageOpen(p) \/ StageDone(p) \/ Park(p)
  BY <1>0, <1>4, WritersStage
<1>5. CASE Commit(p)
  BY <1>0, <1>5, WritersCommit
<1>6. CASE Promote(p) \/ PromoteDelete(p)
  <2>1. /\ WritersInv' /\ UNCHANGED <<db, lock>>
        /\ \A d \in Category : ~Pending(d) =>
                final'[d] = final[d] /\ staged'[d] = staged[d] /\ parked'[d] = parked[d]
    BY <1>6, WritersPromote
  <2>2. QED
    BY <2>1 DEF Pending, RowOf
<1>7. QED
  BY <1>1, <1>2, <1>3, <1>4, <1>5, <1>6, ActsByKind

-----------------------------------------------------------------------------
(* The maintenance process. *)

\* A step that changes only backups/ and the maintenance process's lock is no concern of theirs.
LEMMA TakerKeepsWriters ==
  ASSUME WritersInv, UNCHANGED <<db, stable, final, staged, parked, pc, op, todo, new, nops>>,
         crashes' \in 0 .. MaxCrashes, backups' \in [Category -> SUBSET Content],
         lock' = lock \/ lock \in {NoWriter, Taker}
  PROVE  WritersInv'
<1> USE DEF WritersInv
<1>1. StoreTyped' /\ CallsTyped'
  BY DEF StoreTyped, CallsTyped
<1>2. RequestInv' /\ StagedIsNew'
  BY DEF RequestInv, StagedIsNew, Storing, Mine, MyFile
<1>3. HolderInv'
  BY TakerAssumption, ConstantsAssumption DEF HolderInv, InTxn
<1>4. QED
  BY <1>1, <1>2, <1>3

\* An adopted row is a row.
LEMMA AdoptionIsRow ==
  ASSUME NEW old \in Row, NEW v \in Content
  PROVE  Adoption(old, v) \in Row /\ Adoption(old, v).row = v
<1>1. Append(old.history, v) \in Seq(Content)
  BY DEF Row
<1>2. Newest(Append(old.history, v)) \in Seq(Content)
  BY <1>1, NewestIsSuffix
<1>3. QED
  BY <1>2 DEF Adoption, Row

\* A planned category has its file's content in the plan.
LEMMA PlannedFile ==
  ASSUME RecoveryTypeOK, toPlan = {}, NEW c \in Entries
  PROVE  c \in Category /\ plan[c] \in Planned /\ plan[c].file \in Content
BY DEF RecoveryTypeOK, Entries, Planned

\* What the adoption's transaction changes: the rows of entries that are still as planned.
LEMMA AdoptionChanges ==
  ASSUME BaseInv, CommitAdoption
  PROVE  /\ WritersInv' /\ lock = Taker /\ lock' = NoWriter /\ toPlan = {}
         /\ \A c \in Category :
              /\ c \in Entries => /\ ~Pending(c) /\ final[c] = plan[c].file /\ plan[c].file \in Content
                                  /\ RowOf(c)' = plan[c].file
              /\ c \notin Entries => db'[c] = db[c]
              /\ db'[c] # db[c] => c \in ToAdopt
         /\ UNCHANGED <<final, staged, parked, backups, pc, op, todo, new, nops, listed, toPlan, plan, applies>>
         /\ stage' = "applied" /\ adopted' = adopted \cup Entries
<1> USE DEF BaseInv, WritersInv
<1>1. /\ stage = "checked" /\ lock = Taker /\ lock' = NoWriter /\ toPlan = {}
      /\ \A c \in Entries : Adoptable(c)
      /\ UNCHANGED <<final, staged, parked, backups, pc, op, todo, new, nops, crashes, listed, toPlan, plan, applies>>
      /\ stage' = "applied" /\ adopted' = adopted \cup Entries
  BY DEF CommitAdoption, PlanInv, Surveying, Unlock, files, Ended
<1>2. \A c \in Entries : /\ c \in Category /\ plan[c].file \in Content
                         /\ db[c] \in Row
                         /\ Adoption(db[c], plan[c].file) \in Row
                         /\ Adoption(db[c], plan[c].file).row = plan[c].file
  <2>1. \A c \in Entries : c \in Category /\ plan[c].file \in Content /\ db[c] \in Row
    BY <1>1, PlannedFile DEF StoreTyped
  <2>2. QED
    BY <2>1, AdoptionIsRow
<1>3. /\ db' = [c \in Category |-> IF c \in ToAdopt THEN Adoption(db[c], plan[c].file) ELSE db[c]]
      /\ stable' = IF Synchronous = "full" THEN db' ELSE stable
  BY DEF CommitAdoption
<1>4. StoreTyped'
  BY <1>1, <1>2, <1>3 DEF StoreTyped, ToAdopt
<1>5. CallsTyped' /\ RequestInv' /\ StagedIsNew'
  BY <1>1 DEF CallsTyped, RequestInv, StagedIsNew, Storing, Mine, MyFile
<1>6. HolderInv'
  BY <1>1, TakerAssumption DEF HolderInv, InTxn
<1>7. \A c \in Category :
              /\ c \in Entries => /\ ~Pending(c) /\ final[c] = plan[c].file /\ plan[c].file \in Content
                                  /\ RowOf(c)' = plan[c].file
              /\ c \notin Entries => db'[c] = db[c]
              /\ db'[c] # db[c] => c \in ToAdopt
  BY <1>1, <1>2, <1>3 DEF Adoptable, ToAdopt, RowOf
<1>8. QED
  BY <1>1, <1>4, <1>5, <1>6, <1>7

\* Its own steps keep what holds of the processes, of the plan and of the lock.
LEMMA RecoverKeepsBase ==
  ASSUME BaseInv, Recover
  PROVE  BaseInv'
<1> USE DEF BaseInv
<1>a. StoreTyped
  BY DEF WritersInv
<1>b. backups \in [Category -> SUBSET Content] /\ crashes \in 0 .. MaxCrashes
  BY <1>a DEF StoreTyped
<1>1. ASSUME UNCHANGED vars PROVE WritersInv'
  BY <1>b, <1>1, TakerKeepsWriters DEF vars, files
<1>2. CASE PendingNames \/ ListRows \/ Probed \/ \E c \in Category : ProbeRow(c) \/ PlanRow(c)
  <2>1. UNCHANGED vars /\ applies' = applies /\ adopted' = adopted /\ lock' = lock /\ stage \in Surveying
    BY <1>2 DEF PendingNames, ListRows, Probed, ProbeRow, PlanRow, vars, planVars, Surveying
  <2>2. CASE PendingNames \/ Probed
    BY <1>1, <2>1, <2>2
       DEF PendingNames, Probed, planVars, RecoveryTypeOK, RecoveryStage, PlanInv, Surveying, Ended
  <2>3. CASE ListRows
    <3>1. \A c \in Category : db[c].row \in Content \cup {Absent}
      BY <1>a DEF StoreTyped, Row
    <3>2. listed' \in [Category -> Content \cup {Absent}]
      BY <2>3, <3>1 DEF ListRows
    <3>3. QED
      BY <1>1, <2>1, <2>3, <3>2 DEF ListRows, RecoveryTypeOK, RecoveryStage, PlanInv, Surveying, Ended
  <2>4. CASE \E c \in Category : ProbeRow(c)
    <3>1. PICK c \in Category : ProbeRow(c)
      BY <2>4
    <3>2. /\ listed' = [listed EXCEPT ![c] = Absent] /\ toPlan' \in {toPlan, toPlan \cup {c}}
          /\ stage = "probing" /\ UNCHANGED <<stage, plan>>
      BY <3>1 DEF ProbeRow
    <3>3. QED
      BY <1>1, <2>1, <3>2 DEF RecoveryTypeOK, PlanInv, Surveying, Ended
  <2>5. CASE \E c \in Category : PlanRow(c)
    <3>1. PICK c \in Category : PlanRow(c)
      BY <2>5
    <3>2. /\ c \in toPlan /\ plan' = [plan EXCEPT ![c] = [row |-> db[c].row, file |-> Absent]]
          /\ stage = "planning" /\ UNCHANGED <<stage, listed, toPlan>>
      BY <3>1 DEF PlanRow
    <3>3. [row |-> db[c].row, file |-> Absent] \in Planned
      BY <1>a DEF StoreTyped, Row, Planned
    <3>4. plan' \in [Category -> Planned \cup {Absent}] /\ (\A d \in Category \ toPlan : plan'[d] = plan[d])
      BY <3>2, <3>3 DEF RecoveryTypeOK
    <3>5. QED
      BY <1>1, <2>1, <3>2, <3>4 DEF RecoveryTypeOK, PlanInv, Surveying, Ended
  <2>6. QED
    BY <1>2, <2>2, <2>3, <2>4, <2>5
<1>3. CASE \E c \in Category : PlanFile(c)
  <2>1. PICK c \in Category : PlanFile(c)
    BY <1>3
  <2>2. UNCHANGED vars /\ applies' = applies /\ adopted' = adopted /\ stage = "planning" /\ lock' = lock
        /\ c \in toPlan /\ plan[c] # Absent /\ listed' = listed
    BY <2>1 DEF PlanFile, vars
  <2>3. CASE stage' = "no_file" /\ UNCHANGED <<toPlan, plan>>
    BY <1>1, <2>2, <2>3 DEF RecoveryTypeOK, RecoveryStage, PlanInv, Surveying, Ended
  <2>4. CASE /\ final[c] # Absent
             /\ plan'   = [plan EXCEPT ![c].file = final[c]]
             /\ toPlan' = toPlan \ {c}
             /\ UNCHANGED stage
    <3>1. final[c] \in Content
      BY <1>a, <2>4 DEF StoreTyped
    <3>2. plan[c] \in Planned /\ [plan[c] EXCEPT !.file = final[c]] \in Planned
          /\ [plan[c] EXCEPT !.file = final[c]].file = final[c]
      <4>1. plan[c] \in Planned
        BY <2>2 DEF RecoveryTypeOK
      <4>2. QED
        BY <3>1, <4>1 DEF Planned
    <3>3. plan' = [plan EXCEPT ![c] = [plan[c] EXCEPT !.file = final[c]]]
      BY <2>4
    <3>4. plan' \in [Category -> Planned \cup {Absent}] /\ plan'[c] \in Planned /\ plan'[c].file # Absent
          /\ \A d \in Category \ {c} : plan'[d] = plan[d]
      BY <2>4, <3>2, <3>3 DEF RecoveryTypeOK
    <3>5. \A d \in Category : plan[d] # Absent => plan'[d] # Absent
      BY <3>2, <3>3, <3>4, PlanAssumption DEF RecoveryTypeOK
    <3>6. QED
      BY <1>1, <2>2, <2>4, <3>4, <3>5 DEF RecoveryTypeOK, RecoveryStage, PlanInv, Surveying, Ended
  <2>5. QED
    BY <2>1, <2>3, <2>4 DEF PlanFile
<1>4. CASE PlanWritten
  BY <1>1, <1>4 DEF PlanWritten, RecoveryTypeOK, RecoveryStage, PlanInv, Surveying, Ended, vars, planVars
<1>5. CASE Preflight
  BY <1>1, <1>5, RecoveryAssumption DEF Preflight, RecoveryTypeOK, RecoveryStage, PlanInv, Surveying, Ended, vars
<1>6. CASE OpenStore
  <2>1. CASE UNCHANGED vars /\ stage = "opening" /\ stage' = "open"
    BY <1>1, <1>6, <2>1 DEF OpenStore, RecoveryTypeOK, RecoveryStage, PlanInv, Surveying, Ended, vars, planVars
  <2>2. CASE Takes("opening", "settling")
    <3>1. WritersInv'
      BY <1>b, <2>2, TakerKeepsWriters DEF Takes, files
    <3>2. QED
      BY <1>6, <2>2, <3>1 DEF OpenStore, Takes, RecoveryTypeOK, RecoveryStage, PlanInv, Surveying, Ended, planVars
  <2>3. QED
    BY <1>6, <2>1, <2>2 DEF OpenStore
<1>7. CASE SettleFirst
  <2>1. stage = "settling" /\ lock = Taker /\ UNCHANGED planVars
    BY <1>7 DEF SettleFirst, TakerSettles, TakerSettlesStaged, TakerSettlesParked, PlanInv
  <2>2. CASE \E c \in Category : \E f \in staged[c] :
                f.data \in Unreadable /\ TakerSettlesStaged(c, f)
    <3>1. /\ stage' = "failed" /\ lock' = NoWriter /\ crashes' = crashes
          /\ UNCHANGED <<db, stable, final, staged, parked, backups, pc, op, todo, new, nops>>
      BY <2>1, <2>2 DEF TakerSettlesStaged, Unlock
    <3>2. WritersInv'
      BY <1>b, <2>1, <3>1, TakerKeepsWriters
    <3>3. QED
      BY <2>1, <3>1, <3>2 DEF RecoveryTypeOK, RecoveryStage, PlanInv, Surveying, Ended, planVars
  <2>3. CASE \E c \in Category : \/ \E f \in staged[c] : f.data \notin Unreadable /\ TakerSettlesStaged(c, f)
                                 \/ \E f \in parked[c] : TakerSettlesParked(c, f)
    <3>1. /\ UNCHANGED <<db, stable, lock, stage, pc, op, todo, new, nops, crashes>>
          /\ \E c \in Category : SettlesOne(c)
      BY <2>3 DEF TakerSettlesStaged, TakerSettlesParked, SettlesOne
    <3>2. WritersInv'
      BY <3>1, WritersSettling
    <3>3. QED
      BY <2>1, <3>1, <3>2 DEF RecoveryTypeOK, PlanInv, Surveying, Ended, planVars
  <2>4. QED
    BY <1>7, <2>2, <2>3 DEF SettleFirst, TakerSettles
<1>8. CASE OpenDone
  <2>1. /\ stage = "settling" /\ stage' = "open" /\ lock' = NoWriter /\ lock = Taker
        /\ UNCHANGED <<db, stable, final, staged, parked, backups, pc, op, todo, new, nops, crashes, planVars>>
    BY <1>8 DEF OpenDone, TakerSettled, Unlock, PlanInv, files
  <2>2. WritersInv'
    BY <1>b, <2>1, TakerKeepsWriters
  <2>3. QED
    BY <2>1, <2>2 DEF RecoveryTypeOK, RecoveryStage, PlanInv, Surveying, Ended, planVars
<1>9. CASE Lock
  <2>1. WritersInv'
    BY <1>b, <1>9, TakerKeepsWriters DEF Lock, Takes, files
  <2>2. QED
    BY <1>9, <2>1 DEF Lock, Takes, RecoveryTypeOK, RecoveryStage, PlanInv, Surveying, Ended, planVars
<1>10. CASE CheckEntries
  <2>1. /\ stage = "locked" /\ lock = Taker
        /\ UNCHANGED <<db, stable, final, staged, parked, pc, op, todo, new, nops, crashes, planVars>>
    BY <1>10 DEF CheckEntries, PlanInv, planVars
  <2>2. CASE /\ \A c \in Entries : Adoptable(c)
             /\ stage' = "checked"
             /\ backups' = [c \in Category |-> backups[c] \cup (IF c \in ToAdopt THEN {final[c]} ELSE {})]
             /\ UNCHANGED lock
    <3>1. \A c \in ToAdopt : final[c] \in Content
      BY <2>1, <2>2, PlannedFile DEF PlanInv, Surveying, Ended, ToAdopt, Adoptable
    <3>2. backups' \in [Category -> SUBSET Content]
      BY <1>b, <2>2, <3>1
    <3>3. WritersInv'
      BY <1>b, <2>1, <2>2, <3>2, TakerKeepsWriters
    <3>4. \A c \in Entries' : Adoptable(c)'
      BY <2>1, <2>2 DEF Entries, Adoptable, Pending, planVars
    <3>5. QED
      BY <2>1, <2>2, <3>3, <3>4 DEF RecoveryTypeOK, RecoveryStage, PlanInv, Surveying, Ended, planVars
  <2>3. CASE stage' = "refused" /\ Unlock(Taker) /\ UNCHANGED backups
    <3>1. lock' = NoWriter
      BY <2>1, <2>3 DEF Unlock
    <3>2. WritersInv'
      BY <1>b, <2>1, <2>3, <3>1, TakerKeepsWriters
    <3>3. QED
      BY <2>1, <2>3, <3>1, <3>2 DEF RecoveryTypeOK, RecoveryStage, PlanInv, Surveying, Ended, planVars
  <2>4. QED
    BY <1>10, <2>2, <2>3 DEF CheckEntries
<1>11. CASE CommitAdoption
  <2>1. /\ WritersInv' /\ lock' = NoWriter /\ toPlan = {}
        /\ UNCHANGED <<listed, toPlan, plan, applies>>
        /\ stage' = "applied" /\ adopted' = adopted \cup Entries
    BY <1>11, AdoptionChanges
  <2>2. QED
    BY <2>1 DEF RecoveryTypeOK, RecoveryStage, PlanInv, Surveying, Ended, Entries
<1>12. CASE RecoveryFails
  <2>1. /\ stage' = "failed" /\ lock' = IF lock = Taker THEN NoWriter ELSE lock
        /\ crashes < MaxCrashes /\ crashes' = crashes + 1
        /\ UNCHANGED <<db, stable, final, staged, parked, backups, pc, op, todo, new, nops, planVars>>
    BY <1>12 DEF RecoveryFails, FailsBefore, Unlock, files
  <2>2. crashes' \in 0 .. MaxCrashes
    BY <1>b, <2>1, ConstantsAssumption
  <2>3. WritersInv'
    BY <1>b, <2>1, <2>2, TakerKeepsWriters
  <2>4. QED
    BY <2>1, <2>3 DEF RecoveryTypeOK, RecoveryStage, PlanInv, Surveying, Ended, planVars
<1>20. QED
  BY <1>2, <1>3, <1>4, <1>5, <1>6, <1>7, <1>8, <1>9, <1>10, <1>11, <1>12 DEF Recover

\* So do the steps of the other processes and of the machine.
LEMMA BesideKeepsBase ==
  ASSUME BaseInv, PowerCuts => DirTyped, Beside
  PROVE  BaseInv'
<1> USE DEF BaseInv
<1>1. UNCHANGED <<listed, toPlan, plan, applies, adopted>>
  BY DEF Beside, planVars
<1>2. CASE PowerLoss
  <2>1. WritersInv' /\ lock' = NoWriter
    BY <1>2, WritersMachine DEF PowerLoss
  <2>2. \/ stage' = "failed"
        \/ stage' = stage /\ stage \in {"ready", "planned", "applied"} \cup Ended
    BY <1>2 DEF Beside
  <2>3. QED
    BY <1>1, <2>1, <2>2 DEF RecoveryTypeOK, RecoveryStage, PlanInv, Surveying, Ended
<1>3. CASE ~PowerLoss
  <2>1. stage' = stage
    BY <1>3 DEF Beside
  <2>2. CASE Checkpoint
    <3>1. WritersInv' /\ UNCHANGED <<db, final, staged, parked, lock>>
      BY <2>2, WritersMachine DEF Checkpoint, files
    <3>2. QED
      BY <1>1, <2>1, <3>1 DEF RecoveryTypeOK, PlanInv, Entries, Adoptable, Pending
  <2>3. ASSUME NEW p \in Writers, Acts(p)
        PROVE  BaseInv'
    <3>1. /\ WritersInv'
          /\ lock' \in {lock, NoWriter, p}
          /\ lock = Taker =>
               /\ lock' = Taker
               /\ \A c \in Category : /\ RowOf(c)' = RowOf(c)
                                      /\ ~Pending(c) => ~Pending(c)' /\ final'[c] = final[c]
      BY <2>3, WritersAct
    <3>2. RecoveryTypeOK'
      BY <1>1, <2>1, <3>1 DEF RecoveryTypeOK
    <3>3. stage = "checked" => \A c \in Entries' : Adoptable(c)'
      BY <1>1, <3>1 DEF PlanInv, Entries, Adoptable, RowOf
    <3>4. PlanInv'
      BY <1>1, <2>1, <3>1, <3>3 DEF PlanInv, Surveying, Ended
    <3>5. QED
      BY <3>1, <3>2, <3>4
  <2>4. QED
    BY <1>3, <2>2, <2>3 DEF Beside, Next, Acts
<1>4. QED
  BY <1>2, <1>3

\* Every step remembers the directory it changes, makes it durable or leaves it as it is.
LEMMA RecoveryRemembers ==
  ASSUME RecoveryNext
  PROVE  Remember \/ SyncDir \/ UNCHANGED unsynced
<1>1. CASE Recover
  <2>1. CASE SettleFirst
    BY <2>1 DEF SettleFirst, TakerSettles, TakerSettlesStaged, TakerSettlesParked
  <2>2. CASE ~SettleFirst
    BY <1>1, <2>2
       DEF Recover, PendingNames, ListRows, Probed, ProbeRow, PlanRow, PlanFile, PlanWritten, Preflight, OpenStore,
           OpenDone, Lock, CheckEntries, CommitAdoption, RecoveryFails, FailsBefore, Takes, vars, files
  <2>3. QED
    BY <2>1, <2>2
<1>2. CASE Beside
  <2>1. CASE PowerLoss \/ Checkpoint
    BY <2>1 DEF PowerLoss, Checkpoint, files
  <2>2. ASSUME NEW p \in Writers, Acts(p)
        PROVE  Remember \/ SyncDir \/ UNCHANGED unsynced
    <3>1. CASE Settle(p)
      BY <3>1 DEF Settle, SettleStaged, SettleFails, SettleParked, files
    <3>2. CASE ~Settle(p)
      BY <2>2, <3>2
         DEF Acts, Work, Call, Acquire, GiveUp, SettleError, Abort, PromoteFails, Crash, Open, FinishOpen, Refuse,
             StageOpen, StageDone, Park, ClearDirty, Commit, Promote, PromoteDelete, files
    <3>3. QED
      BY <3>1, <3>2
  <2>3. QED
    BY <1>2, <2>1, <2>2 DEF Beside, Next, Acts
<1>3. QED
  BY <1>1, <1>2 DEF RecoveryNext

\* What is remembered of the directory is well-typed.
LEMMA DirStaysTyped ==
  ASSUME StoreTyped, DirTyped, Remember \/ SyncDir \/ UNCHANGED unsynced
  PROVE  DirTyped'
<1>1. \A c \in Category : Dir(c) \in DirState
  BY DEF StoreTyped, Dir, DirState
<1>2. CASE Remember
  <2>1. unsynced' = [c \in Category |-> IF PowerCuts /\ Dir(c)' # Dir(c)
                                        THEN unsynced[c] \cup {Dir(c)} ELSE unsynced[c]]
    BY <1>2 DEF Remember
  <2>2. \A c \in Category : unsynced'[c] \in SUBSET DirState
    <3>1. TAKE c \in Category
    <3>2. unsynced'[c] = unsynced[c] \/ unsynced'[c] = unsynced[c] \cup {Dir(c)}
      BY <2>1, Zenon
    <3>3. QED
      BY <1>1, <3>2 DEF DirTyped
  <2>3. unsynced' = [c \in Category |-> unsynced'[c]]
    BY <2>1, Zenon
  <2>4. QED
    BY <2>2, <2>3 DEF DirTyped
<1>3. CASE SyncDir
  BY <1>3 DEF SyncDir, DirTyped
<1>4. CASE UNCHANGED unsynced
  BY <1>4 DEF DirTyped
<1>5. QED
  BY <1>2, <1>3, <1>4

\* The store an old release left behind, with nothing in flight.
LEMMA BaseInit == RecoveryInit => BaseInv
<1> SUFFICES ASSUME RecoveryInit PROVE BaseInv
  OBVIOUS
<1>1. StoreTyped
  <2>1. /\ db \in [Category -> {[row |-> v, history |-> <<v>>, dirty |-> "upsert"] : v \in Incoming}]
        /\ final \in [Category -> Incoming]
        /\ stable = db /\ crashes = 0
        /\ staged = [c \in Category |-> {}] /\ parked = [c \in Category |-> {}]
        /\ backups = [c \in Category |-> {}]
    BY DEF RecoveryInit, LeftBehind
  <2>2. \A v \in Incoming : v \in Content /\ <<v>> \in Seq(Content)
    BY ConstantsAssumption
  <2>3. \A v \in Incoming : [row |-> v, history |-> <<v>>, dirty |-> "upsert"] \in Row
    <3>1. TAKE v \in Incoming
    <3>2. v \in Content /\ <<v>> \in Seq(Content)
      BY <2>2
    <3>3. QED
      BY <3>2 DEF Row
  <2>4. db \in [Category -> Row]
    BY <2>1, <2>3
  <2>5. final \in [Category -> Content \cup {Absent}]
    BY <2>1, <2>2
  <2>6. QED
    BY <2>1, <2>4, <2>5, ConstantsAssumption DEF StoreTyped
<1>2. NoRequest \in Request /\ NoRequest.kind = "none"
  BY DEF NoRequest, Request
<1>3. CallsTyped
  BY <1>2, ConstantsAssumption DEF RecoveryInit, CallsTyped, PC
<1>4. RequestInv /\ HolderInv /\ StagedIsNew
  BY <1>2 DEF RecoveryInit, RequestInv, HolderInv, InTxn, StagedIsNew, Storing
<1>5. RecoveryTypeOK /\ PlanInv
  BY RecoveryAssumption DEF RecoveryInit, RecoveryTypeOK, RecoveryStage, PlanInv
<1>6. QED
  BY <1>1, <1>3, <1>4, <1>5 DEF BaseInv, WritersInv

\* During a recovery types and bounds hold, the lock has one holder, and between the check
\* of the plan's entries and the commit nobody moves them on; power losses included.
THEOREM RecoveryTypesHold == RecoverySpec => [](BaseInv /\ DirTyped)
<1>1. RecoveryInit => BaseInv /\ DirTyped
  BY BaseInit DEF RecoveryInit, DirTyped
<1>2. BaseInv /\ DirTyped /\ [RecoveryNext]_<<vars, stage, planVars>> => BaseInv' /\ DirTyped'
  <2> SUFFICES ASSUME BaseInv, DirTyped, [RecoveryNext]_<<vars, stage, planVars>>
               PROVE  BaseInv' /\ DirTyped'
    OBVIOUS
  <2>1. CASE RecoveryNext
    <3>1. BaseInv'
      BY <2>1, RecoverKeepsBase, BesideKeepsBase DEF RecoveryNext
    <3>2. DirTyped'
      BY <2>1, RecoveryRemembers, DirStaysTyped DEF BaseInv, WritersInv
    <3>3. QED
      BY <3>1, <3>2
  <2>2. CASE UNCHANGED <<vars, stage, planVars>>
    BY <2>2 DEF vars, files, planVars, BaseInv, WritersInv, StoreTyped, DirTyped, CallsTyped, RequestInv, HolderInv,
                InTxn, StagedIsNew, Storing, Mine, MyFile, RecoveryTypeOK, PlanInv, Entries, Adoptable, Pending
  <2>3. QED
    BY <2>1, <2>2
<1>3. QED
  BY <1>1, <1>2, PTL DEF RecoverySpec

\* Adoption replaces the rows that were planned, and no others, however the store moved on.
THEOREM AdoptionIsAsPlanned == RecoverySpec => AdoptsOnlyWhatWasPlanned
<1> DEFINE Asked == stage = "checked" /\ stage' = "applied" => \A c \in Category : db'[c] # db[c] =>
                      /\ plan[c] # Absent /\ db[c].row = plan[c].row
                      /\ db'[c].row = plan[c].file /\ final[c] = plan[c].file
<1>1. BaseInv /\ [RecoveryNext]_<<vars, stage, planVars>> => [Asked]_<<vars, stage, planVars>>
  <2> SUFFICES ASSUME BaseInv, RecoveryNext, stage = "checked", stage' = "applied",
                      NEW c \in Category, db'[c] # db[c]
               PROVE  /\ plan[c] # Absent /\ db[c].row = plan[c].row
                      /\ db'[c].row = plan[c].file /\ final[c] = plan[c].file
    OBVIOUS
  <2>1. CommitAdoption
    <3>1. ~Beside
      BY DEF Beside
    <3>2. QED
      BY <3>1 DEF RecoveryNext, Recover, PendingNames, ListRows, ProbeRow, Probed, PlanRow, PlanFile, PlanWritten, Preflight, OpenStore, Takes, SettleFirst,
                  TakerSettles, TakerSettlesStaged, TakerSettlesParked, OpenDone, TakerSettled, Lock, CheckEntries,
                  RecoveryFails, FailsBefore
  <2>2. c \in ToAdopt /\ c \in Entries /\ db'[c].row = plan[c].file /\ final[c] = plan[c].file
    BY <2>1, AdoptionChanges DEF RowOf, ToAdopt
  <2>3. Adoptable(c)
    BY <2>2 DEF BaseInv, PlanInv
  <2>4. QED
    BY <2>2, <2>3 DEF ToAdopt, Adoptable, Entries
<1>2. QED
  BY <1>1, RecoveryTypesHold, PTL DEF RecoverySpec, AdoptsOnlyWhatWasPlanned

Changing == {"writing", "prepared", "committed"}

\* A step that leaves a category alone leaves what is known of it.
LEMMA LeftAlone ==
  ASSUME NEW c \in Category, Agreed(c), plan' = plan,
         final'[c] = final[c], staged'[c] = staged[c], parked'[c] = parked[c], backups[c] \subseteq backups'[c],
         RowOf(c)' = RowOf(c),
         \A q \in Writers : pc'[q] \in Changing /\ op'[q].cat = c =>
            pc'[q] = pc[q] /\ op'[q] = op[q] /\ new'[q] = new[q] /\ nops'[q] = nops[q]
  PROVE  Agreed(c)'
<1>1. Shape(c)'
  BY DEF Agreed, Shape, Fits
<1>2. Kept(c)'
  BY DEF Agreed, Kept, Data
<1>3. ASSUME NEW q \in Writers PROVE Knows(q, c)'
  <2>1. CASE pc'[q] \in Changing /\ op'[q].cat = c
    <3>1. /\ pc'[q] = pc[q] /\ op'[q] = op[q] /\ new'[q] = new[q] /\ nops'[q] = nops[q]
          /\ Knows(q, c)
      BY <2>1 DEF Agreed
    <3>2. QED
      BY <3>1 DEF Knows, At, Mine, MyFile, MyFiles
  <2>2. CASE ~(pc'[q] \in Changing /\ op'[q].cat = c)
    BY <2>2 DEF Knows, At, Changing
  <2>3. QED
    BY <2>1, <2>2
<1>4. QED
  BY <1>1, <1>2, <1>3 DEF Agreed

\* Whoever settles a leftover of a category leaves its row in its file.
LEMMA SettlingAgrees ==
  ASSUME WritersInv, NEW c \in Category, Agreed(c), SettlesOne(c), plan' = plan,
         UNCHANGED <<db, pc, op, new, nops>>, \A q \in Writers : pc[q] \notin {"writing", "prepared"}
  PROVE  Agreed(c)'
<1>1. CASE \E f \in staged[c] :
             /\ final'  = IF f.data = db[c].row THEN [final EXCEPT ![c] = f.data] ELSE final
             /\ staged' = [staged EXCEPT ![c] = staged[c] \ {f}]
             /\ UNCHANGED <<parked, backups>>
  <2>1. PICK f \in staged[c] :
             /\ final'  = IF f.data = db[c].row THEN [final EXCEPT ![c] = f.data] ELSE final
             /\ staged' = [staged EXCEPT ![c] = staged[c] \ {f}]
             /\ UNCHANGED <<parked, backups>>
    BY <1>1
  <2>2. staged[c] = {f} /\ parked[c] = {} /\ RowOf(c) \in {final[c], f.data}
    BY DEF Agreed, Shape, Fits
  <2>3. /\ staged'[c] = {} /\ parked'[c] = {} /\ backups' = backups /\ parked' = parked
        /\ final'[c] = RowOf(c) /\ RowOf(c)' = RowOf(c)
    BY <2>1, <2>2 DEF WritersInv, StoreTyped, RowOf
  <2>4. Shape(c)' /\ Kept(c)'
    BY <2>3 DEF Agreed, Shape, Fits, Kept, Data
  <2>5. \A q \in Writers : Knows(q, c)'
    BY <2>3 DEF Knows, At, Mine
  <2>6. QED
    BY <2>4, <2>5 DEF Agreed
<1>2. CASE \E f \in parked[c] :
             /\ staged[c] = {}
             /\ IF db[c].row # Absent
                THEN final' = [final EXCEPT ![c] = f.data] /\ UNCHANGED backups
                ELSE backups' = [backups EXCEPT ![c] = backups[c] \cup {f.data}] /\ UNCHANGED final
             /\ parked' = [parked EXCEPT ![c] = parked[c] \ {f}]
             /\ UNCHANGED staged
  <2>1. PICK f \in parked[c] :
             /\ staged[c] = {}
             /\ IF db[c].row # Absent
                THEN final' = [final EXCEPT ![c] = f.data] /\ UNCHANGED backups
                ELSE backups' = [backups EXCEPT ![c] = backups[c] \cup {f.data}] /\ UNCHANGED final
             /\ parked' = [parked EXCEPT ![c] = parked[c] \ {f}]
             /\ UNCHANGED staged
    BY <1>2
  <2>2. parked[c] = {f} /\ final[c] = Absent /\ RowOf(c) \in {Absent, f.data}
    BY DEF Agreed, Shape, Fits
  <2>3. /\ staged'[c] = {} /\ parked'[c] = {} /\ RowOf(c)' = RowOf(c)
        /\ final'[c] = RowOf(c)
        /\ backups[c] \subseteq backups'[c] /\ (f.data \in backups'[c] \/ f.data = RowOf(c))
    BY <2>1, <2>2 DEF WritersInv, StoreTyped, RowOf
  <2>4. Shape(c)'
    BY <2>3 DEF Shape, Fits
  <2>5. Data(parked[c]) = {f.data}
    BY <2>2 DEF Data
  <2>6. Kept(c)'
    BY <2>3, <2>5 DEF Agreed, Kept
  <2>7. \A q \in Writers : Knows(q, c)'
    BY <2>3 DEF Knows, At, Mine
  <2>8. QED
    BY <2>4, <2>6, <2>7 DEF Agreed
<1>3. QED
  BY <1>1, <1>2 DEF SettlesOne

\* Settling one category leaves the others alone.
LEMMA SettlingLeavesOthers ==
  ASSUME WritersInv, NEW c \in Category, NEW d \in Category, d # c, Agreed(d), SettlesOne(c), plan' = plan,
         UNCHANGED <<db, pc, op, new, nops>>
  PROVE  Agreed(d)'
<1>1. final'[d] = final[d] /\ staged'[d] = staged[d] /\ parked'[d] = parked[d] /\ backups'[d] = backups[d]
  BY DEF SettlesOne, WritersInv, StoreTyped
<1>2. QED
  BY <1>1, LeftAlone DEF RowOf

\* Under the lock a process is alone in its transaction.
LEMMA HolderIsAlone ==
  ASSUME WritersInv, NEW p \in Writers, InTxn(p), NEW q \in Writers, q # p
  PROVE  ~InTxn(q)
BY DEF WritersInv, HolderInv

\* A category whose leftovers the holder of the lock has settled is as its row says.
LEMMA SettledAgrees ==
  ASSUME WritersInv, NEW p \in Writers, Settled(p), op[p].kind \notin {"open", "clear"}, Agreed(op[p].cat)
  PROVE  LET c == op[p].cat IN staged[c] = {} /\ parked[c] = {} /\ final[c] = RowOf(c)
<1>1. todo[p] = {op[p].cat}
  BY DEF Settled, WritersInv, RequestInv
<1>2. QED
  BY <1>1 DEF Settled, Pending, Agreed, Shape, Fits

\* No file of one process is another's.
LEMMA NotMine ==
  ASSUME NEW p \in Writers, NEW q \in Writers, q # p
  PROVE  MyFile(q) # MyFile(p)
BY DEF MyFile

\* A write starts on the row in its file and has put that in backups/ first.
LEMMA StageOpenAgrees ==
  ASSUME WritersInv, NEW p \in Writers, StageOpen(p), NEW c \in Category, c = op[p].cat, Agreed(c), plan' = plan
  PROVE  Agreed(c)'
<1>1. /\ InTxn(p) /\ c \in Category /\ UNCHANGED <<db, op, nops>> /\ WritersInv'
      /\ \A q \in Writers \ {p} : pc'[q] = pc[q] /\ new'[q] = new[q]
  BY WritersStage
<1>2. staged[c] = {} /\ parked[c] = {} /\ final[c] = RowOf(c)
  BY SettledAgrees DEF StageOpen
<1>3. PICK t \in Tears : staged' = [staged EXCEPT ![c] = staged[c] \cup {[id |-> MyFile(p), data |-> t]}]
  BY DEF StageOpen
<1> DEFINE f == [id |-> MyFile(p), data |-> t]
<1>4. /\ backups' = [backups EXCEPT ![c] = backups[c] \cup ({final[c]} \ {Absent})]
      /\ pc' = [pc EXCEPT ![p] = "writing"] /\ UNCHANGED <<final, parked>>
  BY DEF StageOpen
<1>5. f.id = MyFile(p) /\ f \in Staging
  BY <1>1 DEF WritersInv, StoreTyped, CallsTyped, MyFile, FileId, Staging
<1> HIDE DEF f
<1>6. /\ staged'[c] = {f} /\ parked'[c] = {} /\ final'[c] = RowOf(c) /\ RowOf(c)' = RowOf(c)
      /\ backups[c] \subseteq backups'[c] /\ RowOf(c) \in backups'[c] \cup {Absent}
      /\ pc'[p] = "writing" /\ parked'[c] = parked[c]
  BY <1>1, <1>2, <1>3, <1>4 DEF WritersInv, StoreTyped, CallsTyped, RowOf, f
<1>7. Shape(c)'
  BY <1>5, <1>6 DEF Shape, Fits
<1>8. Kept(c)'
  BY <1>6 DEF Agreed, Kept
<1>9. Knows(p, c)'
  BY <1>1, <1>5, <1>6 DEF Knows, At, MyFile
<1>10. ASSUME NEW q \in Writers, q # p PROVE Knows(q, c)'
  <2>1. pc'[q] \notin {"writing", "prepared"}
    BY <1>1, <1>10, HolderIsAlone DEF InTxn
  <2>2. MyFile(q)' # MyFile(p)
    BY <1>1, <1>10, NotMine DEF MyFile
  <2>3. QED
    BY <1>5, <1>6, <2>1, <2>2 DEF Knows, At, Mine
<1>11. QED
  BY <1>7, <1>8, <1>9, <1>10 DEF Agreed

\* What it has written out is what it will commit.
LEMMA StageDoneAgrees ==
  ASSUME WritersInv, NEW p \in Writers, StageDone(p), NEW c \in Category, c = op[p].cat, Agreed(c), plan' = plan
  PROVE  Agreed(c)'
<1>1. /\ InTxn(p) /\ c \in Category /\ UNCHANGED <<db, op, nops>> /\ WritersInv'
      /\ \A q \in Writers \ {p} : pc'[q] = pc[q] /\ new'[q] = new[q]
  BY WritersStage
<1>2. /\ pc[p] = "writing" /\ op[p].kind # "delete"
      /\ staged' = [staged EXCEPT ![c] = {g \in staged[c] : g.id # MyFile(p)}
                                          \cup {[id |-> MyFile(p), data |-> new[p]]}]
      /\ pc' = [pc EXCEPT ![p] = "prepared"] /\ UNCHANGED <<final, parked, backups, new>>
  BY DEF StageDone, WritersInv, RequestInv
<1> DEFINE f == [id |-> MyFile(p), data |-> new[p]]
<1>3. Knows(p, c) /\ At(p, "writing", c)
  BY <1>2 DEF Agreed, At
<1>4. f.id = MyFile(p) /\ f \in Staging
  BY <1>1, <1>2 DEF WritersInv, StagedIsNew, Storing, CallsTyped, MyFile, FileId, Staging
<1>5. PICK g \in Staging : staged[c] = {g} /\ g.id = MyFile(p)
  BY <1>3 DEF Knows
<1>6. staged'[c] = {f}
  BY <1>1, <1>2, <1>5 DEF WritersInv, StoreTyped
<1>7. /\ parked'[c] = {} /\ final'[c] = RowOf(c) /\ RowOf(c)' = RowOf(c)
      /\ RowOf(c) \in backups'[c] \cup {Absent} /\ pc'[p] = "prepared"
      /\ backups' = backups /\ parked' = parked
  BY <1>1, <1>2, <1>3 DEF Knows, RowOf, WritersInv, CallsTyped
<1>8. Shape(c)'
  BY <1>4, <1>6, <1>7 DEF Shape, Fits
<1>9. Kept(c)'
  BY <1>7 DEF Agreed, Kept
<1>10. Knows(p, c)'
  BY <1>1, <1>2, <1>6, <1>7 DEF Knows, At, MyFile, MyFiles
<1>11. ASSUME NEW q \in Writers, q # p PROVE Knows(q, c)'
  <2>1. pc'[q] \notin {"writing", "prepared"}
    BY <1>1, <1>11, HolderIsAlone DEF InTxn
  <2>2. MyFile(q)' # MyFile(p)
    BY <1>1, <1>11, NotMine DEF MyFile
  <2>3. QED
    BY <1>4, <1>6, <1>7, <2>1, <2>2 DEF Knows, At, Mine
<1>12. QED
  BY <1>8, <1>9, <1>10, <1>11 DEF Agreed

\* A delete takes the committed bytes aside.
LEMMA ParkAgrees ==
  ASSUME WritersInv, NEW p \in Writers, Park(p), NEW c \in Category, c = op[p].cat, Agreed(c), plan' = plan
  PROVE  Agreed(c)'
<1>1. /\ InTxn(p) /\ c \in Category /\ UNCHANGED <<db, op, nops>> /\ WritersInv'
      /\ \A q \in Writers \ {p} : pc'[q] = pc[q] /\ new'[q] = new[q]
  BY WritersStage
<1>2. staged[c] = {} /\ parked[c] = {} /\ final[c] = RowOf(c)
  BY SettledAgrees DEF Park
<1>3. /\ op[p].kind = "delete"
      /\ parked' = [parked EXCEPT ![c] =
                      parked[c] \cup {[id |-> MyFile(p), data |-> d] : d \in {final[c]} \ {Absent}}]
      /\ final' = [final EXCEPT ![c] = Absent]
      /\ pc' = [pc EXCEPT ![p] = "prepared"]
      /\ UNCHANGED <<staged, backups>>
  BY DEF Park
<1>4. /\ staged'[c] = {} /\ final'[c] = Absent /\ RowOf(c)' = RowOf(c) /\ pc'[p] = "prepared"
      /\ backups' = backups /\ RowOf(c) \in Content \cup {Absent}
  BY <1>1, <1>2, <1>3 DEF WritersInv, StoreTyped, CallsTyped, RowOf, Row
<1>5. parked'[c] = IF RowOf(c) = Absent THEN {} ELSE MyFiles(p, RowOf(c))
  <2>1. parked'[c] = {[id |-> MyFile(p), data |-> d] : d \in {RowOf(c)} \ {Absent}}
    BY <1>1, <1>2, <1>3 DEF WritersInv, StoreTyped
  <2>2. QED
    BY <2>1 DEF MyFiles
<1>6. MyFile(p)' = MyFile(p) /\ MyFile(p) \in FileId
  BY <1>1 DEF MyFile, FileId, WritersInv, CallsTyped
<1>7. CASE RowOf(c) = Absent
  <2>1. parked'[c] = {}
    BY <1>5, <1>7
  <2>2. Shape(c)'
    BY <1>4, <1>7, <2>1 DEF Shape, Fits
  <2>3. Kept(c)'
    BY <1>2, <1>4, <2>1 DEF Agreed, Kept, Data
  <2>4. Knows(p, c)'
    BY <1>1, <1>3, <1>4, <1>7, <2>1 DEF Knows, At
  <2>5. ASSUME NEW q \in Writers, q # p PROVE Knows(q, c)'
    <3>1. pc'[q] \notin {"writing", "prepared"}
      BY <1>1, <2>5, HolderIsAlone DEF InTxn
    <3>2. QED
      BY <1>4, <2>1, <3>1 DEF Knows, At, Mine
  <2>6. QED
    BY <2>2, <2>3, <2>4, <2>5 DEF Agreed
<1>8. CASE RowOf(c) # Absent
  <2> DEFINE f == [id |-> MyFile(p), data |-> RowOf(c)]
  <2>1. f \in Parking /\ f.data = RowOf(c) /\ f.id = MyFile(p)
    BY <1>4, <1>6, <1>8 DEF Parking
  <2>2. parked'[c] = {f}
    BY <1>5, <1>8 DEF MyFiles
  <2>3. Data(parked'[c]) = {RowOf(c)}
    BY <2>2 DEF Data
  <2> HIDE DEF f
  <2>4. Shape(c)'
    BY <1>4, <2>1, <2>2 DEF Shape, Fits
  <2>5. Kept(c)'
    BY <1>2, <1>4, <2>3 DEF Agreed, Kept, Data
  <2>6. Knows(p, c)'
    BY <1>1, <1>3, <1>4, <1>5, <1>6 DEF Knows, At, MyFiles
  <2>7. ASSUME NEW q \in Writers, q # p PROVE Knows(q, c)'
    <3>1. pc'[q] \notin {"writing", "prepared"}
      BY <1>1, <2>7, HolderIsAlone DEF InTxn
    <3>2. MyFile(q)' # MyFile(p)
      BY <1>1, <2>7, NotMine DEF MyFile
    <3>3. Mine(q, parked[c])' = {} /\ Mine(q, staged[c])' = {}
      BY <1>4, <2>1, <2>2, <3>2 DEF Mine
    <3>4. QED
      BY <3>1, <3>3 DEF Knows, At
  <2>8. QED
    BY <2>4, <2>5, <2>6, <2>7 DEF Agreed
<1>9. QED
  BY <1>7, <1>8

\* COMMIT: the staged file carries the new row, the old one is in backups/; or the row
\* is gone and its bytes are parked.
LEMMA CommitAgrees ==
  ASSUME WritersInv, NEW p \in Writers, Commit(p), NEW c \in Category, c = op[p].cat, Agreed(c), plan' = plan
  PROVE  Agreed(c)'
<1>1. /\ InTxn(p) /\ c \in Category /\ UNCHANGED <<final, staged, parked, backups, op, new, nops>> /\ WritersInv'
      /\ RowOf(c)' = IF op[p].kind = "delete" THEN Absent ELSE new[p]
      /\ pc[p] = "prepared" /\ pc'[p] = "committed"
      /\ \A q \in Writers \ {p} : pc'[q] = pc[q]
  BY WritersCommit DEF InTxn
<1>2. Agreed(c) /\ Knows(p, c) /\ At(p, "prepared", c)
  BY <1>1 DEF Agreed, At
<1>3. ASSUME NEW q \in Writers, q # p
      PROVE  pc'[q] \notin {"writing", "prepared"} /\ MyFile(q)' # MyFile(p)
  <2>1. pc'[q] \notin {"writing", "prepared"}
    BY <1>1, <1>3, HolderIsAlone DEF InTxn
  <2>2. MyFile(q)' # MyFile(p)
    BY <1>1, <1>3, NotMine DEF MyFile
  <2>3. QED
    BY <2>1, <2>2
<1>4. CASE op[p].kind = "delete"
  <2>1. /\ staged[c] = {} /\ final[c] = Absent
        /\ parked[c] = IF RowOf(c) = Absent THEN {} ELSE MyFiles(p, RowOf(c))
        /\ RowOf(c)' = Absent
    BY <1>1, <1>2, <1>4 DEF Knows
  <2>2. Shape(c)'
    BY <1>1, <1>2, <2>1 DEF Agreed, Shape, Fits
  <2>3. Kept(c)'
    <3>1. plan[c].file \in Content /\ plan[c].file \in backups[c] \cup Data(parked[c]) \cup {RowOf(c)}
      BY <1>2 DEF Agreed, Kept
    <3>2. RowOf(c) # Absent => RowOf(c) \in Data(parked[c])
      BY <2>1 DEF Data, MyFiles
    <3>3. plan[c].file \in backups[c] \cup Data(parked[c])
      BY <3>1, <3>2, ConstantsAssumption
    <3>4. QED
      BY <1>1, <1>2, <3>3 DEF Agreed, Kept
  <2>4. Knows(p, c)'
    BY <1>1, <1>4, <2>1 DEF Knows, At
  <2>5. ASSUME NEW q \in Writers, q # p PROVE Knows(q, c)'
    <3>1. \A f \in parked[c] : f.id = MyFile(p)
      BY <2>1 DEF MyFiles
    <3>2. Mine(q, parked[c])' = {} /\ Mine(q, staged[c])' = {}
      BY <1>1, <1>3, <2>1, <2>5, <3>1 DEF Mine
    <3>3. QED
      BY <1>3, <2>5, <3>2 DEF Knows, At
  <2>6. QED
    BY <2>2, <2>3, <2>4, <2>5 DEF Agreed
<1>5. CASE op[p].kind # "delete"
  <2>1. /\ staged[c] = MyFiles(p, new[p]) /\ parked[c] = {} /\ final[c] = RowOf(c)
        /\ RowOf(c) \in backups[c] \cup {Absent} /\ RowOf(c)' = new[p]
    BY <1>1, <1>2, <1>5 DEF Knows
  <2>2. new[p] \in Content /\ MyFile(p) \in FileId
    BY <1>1, <1>5 DEF WritersInv, StagedIsNew, Storing, CallsTyped, MyFile, FileId
  <2> DEFINE f == [id |-> MyFile(p), data |-> new[p]]
  <2>3. f \in Staging /\ f.id = MyFile(p) /\ f.data = new[p] /\ staged[c] = {f}
    BY <2>1, <2>2 DEF Staging, MyFiles
  <2> HIDE DEF f
  <2>4. Shape(c)'
    BY <1>1, <2>1, <2>2, <2>3, ConstantsAssumption DEF Shape, Fits
  <2>5. Kept(c)'
    <3>1. plan[c].file \in Content /\ plan[c].file \in backups[c] \cup Data(parked[c]) \cup {RowOf(c)}
      BY <1>2 DEF Agreed, Kept
    <3>2. plan[c].file \in backups[c]
      BY <2>1, <3>1, ConstantsAssumption DEF Data
    <3>3. QED
      BY <1>1, <1>2, <3>2 DEF Agreed, Kept
  <2>6. Knows(p, c)'
    BY <1>1, <1>5, <2>1, <2>3 DEF Knows, At, Mine
  <2>7. ASSUME NEW q \in Writers, q # p PROVE Knows(q, c)'
    <3>1. Mine(q, parked[c])' = {} /\ Mine(q, staged[c])' = {}
      BY <1>1, <1>3, <2>1, <2>3, <2>7 DEF Mine
    <3>2. QED
      BY <1>3, <2>7, <3>1 DEF Knows, At
  <2>8. QED
    BY <2>4, <2>5, <2>6, <2>7 DEF Agreed
<1>6. QED
  BY <1>4, <1>5

\* After COMMIT the process's own file, if it is still there, carries the row.
LEMMA PromoteAgrees ==
  ASSUME WritersInv, NEW p \in Writers, Promote(p), NEW c \in Category, c = op[p].cat, Agreed(c), plan' = plan
  PROVE  Agreed(c)'
<1>1. /\ UNCHANGED <<db, lock>>
      /\ \A q \in Writers : /\ pc'[q] \in Changing => q # p
                            /\ q # p => /\ pc'[q] = pc[q] /\ op'[q] = op[q]
                                        /\ new'[q] = new[q] /\ nops'[q] = nops[q]
  BY WritersPromote DEF Changing
<1>2. /\ At(p, "committed", c) /\ op[p].kind # "delete" /\ UNCHANGED <<parked, backups>>
      /\ \/ \E f \in Mine(p, staged[c]) :
              /\ final'  = [final EXCEPT ![c] = f.data]
              /\ staged' = [staged EXCEPT ![c] = staged[c] \ {f}]
         \/ UNCHANGED <<final, staged>>
  BY DEF Promote, At
<1>3. CASE UNCHANGED <<final, staged>>
  BY <1>1, <1>2, <1>3, LeftAlone DEF RowOf
<1>4. CASE \E f \in Mine(p, staged[c]) :
              /\ final'  = [final EXCEPT ![c] = f.data]
              /\ staged' = [staged EXCEPT ![c] = staged[c] \ {f}]
  <2>1. PICK f \in Mine(p, staged[c]) :
              /\ final'  = [final EXCEPT ![c] = f.data]
              /\ staged' = [staged EXCEPT ![c] = staged[c] \ {f}]
    BY <1>4
  <2>2. f.id = MyFile(p) /\ f \in staged[c]
    BY DEF Mine
  <2>3. staged[c] = {f} /\ parked[c] = {} /\ f.data = RowOf(c)
    BY <1>2, <2>2 DEF Agreed, Shape, Fits, Knows
  <2>4. /\ staged'[c] = {} /\ final'[c] = RowOf(c) /\ RowOf(c)' = RowOf(c)
        /\ parked'[c] = {} /\ UNCHANGED <<parked, backups>>
    BY <1>1, <1>2, <2>1, <2>3 DEF WritersInv, StoreTyped, RowOf
  <2>5. Shape(c)' /\ Kept(c)'
    BY <2>3, <2>4 DEF Agreed, Shape, Fits, Kept
  <2>6. ASSUME NEW q \in Writers PROVE Knows(q, c)'
    <3>1. ~At(q, "writing", c)' /\ ~At(q, "prepared", c)'
      <4>1. CASE q = p
        BY <1>1, <4>1 DEF Changing, At
      <4>2. CASE q # p
        <5>1. /\ ~\E g \in Staging : staged[c] = {g} /\ g.id = MyFile(q)
              /\ staged[c] # MyFiles(q, new[q]) /\ staged[c] # {}
          BY <2>2, <2>3, <4>2, NotMine DEF MyFiles
        <5>2. ~At(q, "writing", c) /\ ~At(q, "prepared", c)
          BY <5>1 DEF Agreed, Knows
        <5>3. QED
          BY <1>1, <4>2, <5>2 DEF At
      <4>3. QED
        BY <4>1, <4>2
    <3>2. QED
      BY <2>4, <3>1 DEF Knows, Mine
  <2>7. QED
    BY <2>5, <2>6 DEF Agreed
<1>5. QED
  BY <1>2, <1>3, <1>4

\* After COMMIT a delete moves what it parked to backups/.
LEMMA PromoteDeleteAgrees ==
  ASSUME WritersInv, NEW p \in Writers, PromoteDelete(p), NEW c \in Category, c = op[p].cat, Agreed(c), plan' = plan
  PROVE  Agreed(c)'
<1>1. /\ UNCHANGED <<db, lock>>
      /\ \A q \in Writers : /\ pc'[q] \in Changing => q # p
                            /\ q # p => /\ pc'[q] = pc[q] /\ op'[q] = op[q]
                                        /\ new'[q] = new[q] /\ nops'[q] = nops[q]
  BY WritersPromote DEF Changing
<1>2. /\ At(p, "committed", c) /\ op[p].kind = "delete" /\ UNCHANGED <<final, staged>>
      /\ backups' = [backups EXCEPT ![c] = backups[c] \cup Data(Mine(p, parked[c]))]
      /\ parked'  = [parked EXCEPT ![c] = parked[c] \ Mine(p, parked[c])]
  BY DEF PromoteDelete, At
<1>3. /\ backups'[c] = backups[c] \cup Data(Mine(p, parked[c]))
      /\ parked'[c] = parked[c] \ Mine(p, parked[c]) /\ RowOf(c)' = RowOf(c)
      /\ final'[c] = final[c] /\ staged'[c] = staged[c]
  BY <1>1, <1>2 DEF WritersInv, StoreTyped, RowOf
<1>4. CASE Mine(p, parked[c]) = {}
  <2>1. parked'[c] = parked[c] /\ backups[c] \subseteq backups'[c]
    BY <1>3, <1>4
  <2>2. QED
    BY <1>1, <1>3, <2>1, LeftAlone
<1>5. CASE Mine(p, parked[c]) # {}
  <2>1. PICK f \in parked[c] : f.id = MyFile(p)
    BY <1>5 DEF Mine
  <2>2. staged[c] = {} /\ parked[c] = {f} /\ final[c] = Absent /\ RowOf(c) = Absent
    BY <1>2, <1>5, <2>1 DEF Agreed, Shape, Fits, Knows
  <2>3. Mine(p, parked[c]) = {f} /\ Data(parked[c]) = {f.data}
    BY <2>1, <2>2 DEF Mine, Data
  <2>4. /\ staged'[c] = {} /\ parked'[c] = {} /\ final'[c] = Absent /\ RowOf(c)' = Absent
        /\ backups'[c] = backups[c] \cup {f.data}
    BY <1>3, <2>2, <2>3
  <2>5. Shape(c)'
    BY <2>4 DEF Shape, Fits
  <2>6. Kept(c)'
    BY <2>2, <2>3, <2>4, ConstantsAssumption DEF Agreed, Kept
  <2>7. ASSUME NEW q \in Writers PROVE Knows(q, c)'
    <3>1. ~At(q, "writing", c)' /\ ~At(q, "prepared", c)'
      <4>1. CASE q = p
        BY <1>1, <4>1 DEF Changing, At
      <4>2. CASE q # p
        <5>1. ~At(q, "writing", c) /\ ~At(q, "prepared", c)
          BY <2>2 DEF Agreed, Knows, MyFiles
        <5>2. QED
          BY <1>1, <4>2, <5>1 DEF At
      <4>3. QED
        BY <4>1, <4>2
    <3>2. QED
      BY <2>4, <3>1 DEF Knows, Mine
  <2>8. QED
    BY <2>5, <2>6, <2>7 DEF Agreed
<1>6. QED
  BY <1>4, <1>5

\* No step of a process makes an adopted category unreadable or loses what it gained.
LEMMA ActsKeepAgreed ==
  ASSUME WritersInv, NEW p \in Writers, Acts(p), plan' = plan,
         NEW c \in Category, Agreed(c)
  PROVE  Agreed(c)'
<1>1. CASE \/ GiveUp(p) \/ SettleError(p) \/ FinishOpen(p) \/ Refuse(p) \/ Abort(p) \/ Crash(p)
           \/ PromoteFails(p) \/ ClearDirty(p) \/ \E d \in Category : \E f \in staged[d] : SettleFails(p, d, f)
  <2>1. /\ UNCHANGED <<final, staged, parked, backups>>
        /\ \A d \in Category : RowOf(d)' = RowOf(d)
        /\ \A q \in Writers : /\ pc'[q] \in Changing => q # p
                              /\ q # p => /\ pc'[q] = pc[q] /\ op'[q] = op[q]
                                          /\ new'[q] = new[q] /\ nops'[q] = nops[q]
    BY <1>1, WritersLeave DEF Changing
  <2>2. QED
    BY <2>1, LeftAlone
<1>2. CASE Call(p) \/ Acquire(p) \/ Open(p)
  <2>1. /\ UNCHANGED <<db, final, staged, parked, backups>>
        /\ \A q \in Writers : /\ pc'[q] \in Changing => q # p
                              /\ q # p => /\ pc'[q] = pc[q] /\ op'[q] = op[q]
                                          /\ new'[q] = new[q] /\ nops'[q] = nops[q]
    BY <1>2, WritersBegin DEF Changing
  <2>2. QED
    BY <2>1, LeftAlone DEF RowOf
<1>3. CASE /\ \E d \in Category : SettlesOne(d)
           /\ pc[p] = "settling"
           /\ UNCHANGED <<db, stable, lock, pc, op, todo, new, nops, crashes>>
  <2>1. PICK d \in Category : SettlesOne(d)
    BY <1>3
  <2>2. \A q \in Writers : pc[q] \notin {"writing", "prepared"}
    <3>1. \A q \in Writers : q # p => ~InTxn(q)
      BY <1>3, HolderIsAlone DEF InTxn
    <3>2. QED
      BY <1>3, <3>1 DEF InTxn
  <2>3. QED
    BY <1>3, <2>1, <2>2, SettlingAgrees, SettlingLeavesOthers
<1>4. CASE StageOpen(p) \/ StageDone(p) \/ Park(p)
  <2>1. CASE c = op[p].cat
    BY <1>4, <2>1, StageOpenAgrees, StageDoneAgrees, ParkAgrees
  <2>2. CASE c # op[p].cat
    <3>1. /\ UNCHANGED <<db, op, nops>>
          /\ \A q \in Writers \ {p} : pc'[q] = pc[q] /\ new'[q] = new[q]
          /\ backups[c] \subseteq backups'[c] /\ RowOf(c)' = RowOf(c)
          /\ final'[c] = final[c] /\ staged'[c] = staged[c] /\ parked'[c] = parked[c] /\ backups'[c] = backups[c]
      BY <1>4, <2>2, WritersStage DEF RowOf
    <3>2. \A q \in Writers : op'[q].cat = c => q # p
      BY <2>2, <3>1
    <3>3. QED
      BY <3>1, <3>2, LeftAlone DEF RowOf
  <2>3. QED
    BY <2>1, <2>2
<1>5. CASE Commit(p)
  <2>1. CASE c = op[p].cat
    BY <1>5, <2>1, CommitAgrees
  <2>2. CASE c # op[p].cat
    <3>1. /\ UNCHANGED <<final, staged, parked, backups, op, new, nops>> /\ RowOf(c)' = RowOf(c)
          /\ \A q \in Writers \ {p} : pc'[q] = pc[q]
      BY <1>5, <2>2, WritersCommit
    <3>2. \A q \in Writers : op'[q].cat = c => q # p
      BY <2>2, <3>1
    <3>3. QED
      BY <3>1, <3>2, LeftAlone
  <2>3. QED
    BY <2>1, <2>2
<1>6. CASE Promote(p) \/ PromoteDelete(p)
  <2>1. CASE c = op[p].cat
    BY <1>6, <2>1, PromoteAgrees, PromoteDeleteAgrees
  <2>2. CASE c # op[p].cat
    <3>1. /\ UNCHANGED db
          /\ \A q \in Writers : /\ pc'[q] \in Changing => q # p
                                /\ q # p => /\ pc'[q] = pc[q] /\ op'[q] = op[q]
                                            /\ new'[q] = new[q] /\ nops'[q] = nops[q]
          /\ final'[c] = final[c] /\ staged'[c] = staged[c] /\ parked'[c] = parked[c] /\ backups'[c] = backups[c]
      BY <1>6, <2>2, WritersPromote DEF Changing
    <3>2. QED
      BY <3>1, LeftAlone DEF RowOf
  <2>3. QED
    BY <2>1, <2>2
<1>7. QED
  BY <1>1, <1>2, <1>3, <1>4, <1>5, <1>6, ActsByKind

\* Nor does any step of the recovery but the adoption itself.
LEMMA RecoverKeepsAgreed ==
  ASSUME BaseInv, Recover, ~CommitAdoption, NEW c \in adopted, Agreed(c)
  PROVE  Agreed(c)' /\ adopted' = adopted
<1>a. c \in Category
  BY DEF BaseInv, RecoveryTypeOK
<1>b. \A q \in Writers : stage \in {"settling", "locked"} => pc[q] \notin {"writing", "prepared"}
  BY TakerAssumption DEF BaseInv, PlanInv, WritersInv, HolderInv, InTxn
<1>1. CASE SettleFirst
  <2>1. plan' = plan /\ adopted' = adopted /\ stage = "settling" /\ UNCHANGED <<db, pc, op, new, nops>>
    BY <1>1 DEF SettleFirst, TakerSettles, TakerSettlesStaged, TakerSettlesParked, planVars
  <2>2. CASE UNCHANGED <<final, staged, parked, backups>>
    BY <1>a, <2>1, <2>2, LeftAlone DEF RowOf
  <2>3. CASE \E d \in Category : SettlesOne(d)
    <3>1. PICK d \in Category : SettlesOne(d)
      BY <2>3
    <3>2. CASE c = d
      BY <1>a, <1>b, <2>1, <3>1, <3>2, SettlingAgrees DEF BaseInv
    <3>3. CASE c # d
      BY <1>a, <2>1, <3>1, <3>3, SettlingLeavesOthers DEF BaseInv
    <3>4. QED
      BY <2>1, <3>2, <3>3
  <2>4. UNCHANGED <<final, staged, parked, backups>> \/ \E d \in Category : SettlesOne(d)
    BY <1>1 DEF SettleFirst, TakerSettles, TakerSettlesStaged, TakerSettlesParked, SettlesOne
  <2>5. QED
    BY <2>1, <2>2, <2>3, <2>4
<1>2. CASE CheckEntries
  <2>1. /\ UNCHANGED <<db, final, staged, parked, pc, op, new, nops, plan, adopted>>
        /\ stage = "locked"
        /\ \/ backups' = backups
           \/ backups' = [d \in Category |-> backups[d] \cup (IF d \in ToAdopt THEN {final[d]} ELSE {})]
    BY <1>2 DEF CheckEntries, planVars
  <2>2. backups[c] \subseteq backups'[c]
    BY <1>a, <2>1
  <2>3. QED
    BY <1>a, <2>1, <2>2, LeftAlone DEF RowOf
<1>3. CASE PendingNames \/ ListRows \/ Probed \/ \E d \in Category : ProbeRow(d) \/ PlanRow(d) \/ PlanFile(d)
  BY <1>3 DEF PendingNames, ListRows, Probed, ProbeRow, PlanRow, PlanFile, BaseInv, PlanInv, Surveying
<1>4. CASE PlanWritten \/ Preflight \/ OpenStore \/ OpenDone \/ Lock \/ RecoveryFails
  <2>1. UNCHANGED <<db, final, staged, parked, backups, pc, op, new, nops, plan, adopted>>
    BY <1>4 DEF PlanWritten, Preflight, OpenStore, OpenDone, Lock, Takes, RecoveryFails, FailsBefore, vars, planVars, files
  <2>2. QED
    BY <1>a, <2>1, LeftAlone DEF RowOf
<1>5. QED
  BY <1>1, <1>2, <1>3, <1>4 DEF Recover

\* Adoption itself leaves each entry clean, with its file, its row and the plan agreeing.
LEMMA AdoptionAgrees ==
  ASSUME BaseInv, CommitAdoption, NEW c \in adopted', c \in adopted => Agreed(c)
  PROVE  Agreed(c)'
<1>1. /\ lock = Taker /\ toPlan = {} /\ plan' = plan
      /\ UNCHANGED <<final, staged, parked, backups, pc, op, todo, new, nops>>
      /\ adopted' = adopted \cup Entries
  BY AdoptionChanges
<1>2. c \in Category
  BY <1>1 DEF BaseInv, RecoveryTypeOK, Entries
<1>3. CASE c \in Entries
  <2>1. /\ ~Pending(c) /\ final[c] = plan[c].file /\ plan[c].file \in Content
        /\ RowOf(c)' = plan[c].file /\ plan[c] # Absent
    BY <1>2, <1>3, AdoptionChanges DEF Entries
  <2>2. /\ staged'[c] = {} /\ parked'[c] = {} /\ final'[c] = RowOf(c)' /\ plan'[c] = plan[c]
    BY <1>1, <2>1 DEF Pending
  <2>3. Shape(c)' /\ Kept(c)'
    BY <2>1, <2>2 DEF Shape, Fits, Kept
  <2>4. ASSUME NEW q \in Writers PROVE Knows(q, c)'
    <3>1. pc[q] \notin {"writing", "prepared"}
      BY <1>1, TakerAssumption DEF BaseInv, WritersInv, HolderInv, InTxn
    <3>2. QED
      BY <1>1, <2>2, <3>1 DEF Knows, At, Mine
  <2>5. QED
    BY <2>3, <2>4 DEF Agreed
<1>4. CASE c \notin Entries
  <2>1. Agreed(c) /\ db'[c] = db[c]
    BY <1>1, <1>2, <1>4, AdoptionChanges
  <2>2. QED
    BY <1>1, <1>2, <2>1, LeftAlone DEF RowOf
<1>5. QED
  BY <1>3, <1>4

\* What holds of an adopted category is never lost again, short of a power loss.
THEOREM RecoveryInvariant == ASSUME ~PowerCuts PROVE RecoverySpec => []RecoveryInv
<1>1. RecoveryInit => RecoveryInv
  BY BaseInit DEF RecoveryInv, RecoveryInit
<1>2. RecoveryInv /\ [RecoveryNext]_<<vars, stage, planVars>> => RecoveryInv'
  <2> SUFFICES ASSUME RecoveryInv, [RecoveryNext]_<<vars, stage, planVars>> PROVE RecoveryInv'
    OBVIOUS
  <2>a. BaseInv /\ \A c \in adopted : c \in Category /\ Agreed(c)
    BY DEF RecoveryInv, BaseInv, RecoveryTypeOK
  <2>1. CASE Recover
    <3>1. BaseInv'
      BY <2>a, <2>1, RecoverKeepsBase
    <3>2. CASE CommitAdoption
      BY <2>a, <3>1, <3>2, AdoptionAgrees DEF RecoveryInv
    <3>3. CASE ~CommitAdoption
      <4>1. adopted' = adopted \/ adopted = {}
        BY <2>a, <2>1, <3>3, RecoverKeepsAgreed
      <4>2. adopted' = adopted
        BY <2>1, <3>3
           DEF Recover, PendingNames, ListRows, ProbeRow, Probed, PlanRow, PlanFile, PlanWritten, Preflight, OpenStore, SettleFirst, OpenDone, Lock,
               CheckEntries, RecoveryFails, planVars
      <4>3. QED
        BY <2>a, <2>1, <3>1, <3>3, <4>2, RecoverKeepsAgreed DEF RecoveryInv
    <3>4. QED
      BY <3>2, <3>3
  <2>2. CASE Beside
    <3>1. BaseInv' /\ UNCHANGED <<plan, adopted>>
      BY <2>a, <2>2, BesideKeepsBase DEF Beside, planVars
    <3>2. CASE Checkpoint
      <4>1. UNCHANGED <<db, final, staged, parked, backups, pc, op, new, nops>>
        BY <3>2 DEF Checkpoint, files
      <4>2. QED
        BY <2>a, <3>1, <4>1, LeftAlone DEF RecoveryInv, RowOf
    <3>3. ASSUME NEW p \in Writers, Acts(p) PROVE RecoveryInv'
      BY <2>a, <3>1, <3>3, ActsKeepAgreed DEF RecoveryInv, BaseInv
    <3>4. QED
      BY <2>2, <3>2, <3>3 DEF Beside, Next, Acts, PowerLoss
  <2>3. CASE UNCHANGED <<vars, stage, planVars>>
    <3>1. BaseInv'
      BY <2>a, <2>3 DEF vars, files, planVars, BaseInv, WritersInv, StoreTyped, CallsTyped, RequestInv, HolderInv, InTxn,
                        StagedIsNew, Storing, Mine, MyFile, RecoveryTypeOK, PlanInv, Entries, Adoptable, Pending
    <3>2. QED
      BY <2>a, <2>3, <3>1, LeftAlone DEF vars, files, planVars, RecoveryInv, RowOf
  <2>4. QED
    BY <2>1, <2>2, <2>3 DEF RecoveryNext
<1>3. QED
  BY <1>1, <1>2, PTL DEF RecoverySpec

\* An adopted category stays readable and what its history gained stays on disk.
THEOREM AdoptedCanBeRead == ASSUME ~PowerCuts PROVE RecoverySpec => []AdoptedStaysReadable
<1>1. RecoveryInv => AdoptedStaysReadable
  <2> SUFFICES ASSUME RecoveryInv, NEW c \in adopted
               PROVE  Readable(c) /\ plan[c].file \in backups[c] \cup Carried(c)
    BY DEF AdoptedStaysReadable
  <2>1. c \in Category /\ Shape(c) /\ Kept(c) /\ StoreTyped
    BY DEF RecoveryInv, BaseInv, WritersInv, RecoveryTypeOK, Agreed
  <2>2. Readable(c)
    BY <2>1 DEF Shape, Fits, Readable, Carried, Data, RowOf
  <2>3. Data(parked[c]) \subseteq Content
    BY <2>1 DEF StoreTyped, Data, Parking
  <2>4. plan[c].file \in Content /\ plan[c].file # Absent
    BY <2>1, ConstantsAssumption DEF Kept
  <2>5. plan[c].file \in backups[c] \cup Carried(c)
    BY <2>1, <2>2, <2>3, <2>4 DEF Kept, Carried, Readable, RowOf
  <2>6. QED
    BY <2>2, <2>5
<1>2. QED
  BY <1>1, RecoveryInvariant, PTL
=============================================================================
