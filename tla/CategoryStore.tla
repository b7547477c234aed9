--------------------------- MODULE CategoryStore ---------------------------
(***************************************************************************)
(* The write protocol of one store (store/mod.rs, store/atomic_json.rs,    *)
(* store/txn.rs): several processes mutate categories whose content is a   *)
(* JSON file and whose hash, history and sync mark are SQLite rows.  Every *)
(* mutation runs under SQLite's write lock: settle what an interrupted     *)
(* process left, read, stage the new file (or park the deleted one),       *)
(* COMMIT, and only then, outside the lock, rename the file into place.    *)
(*                                                                         *)
(* A content hash is modelled by the content itself (no SHA-256 collision).*)
(* Rows written by one transaction become visible together at COMMIT.      *)
(***************************************************************************)
EXTENDS Naturals, Sequences

CONSTANTS
  Writers,      \* processes with a Store open on the directory
  Category,     \* category names
  Token,        \* keys a merge patch sets or drops, entries an append adds
  Incoming,     \* whole values that a write, an import or a sync brings
  Kinds,        \* operations the clients of this instance call
  Tears,        \* what a staged file cut in the middle of its write looks like
  Unreadable,   \* the tears that are not UTF-8 text
  Synchronous,  \* storage.synchronous: "full" or "normal"
  PowerCuts,    \* whether the machine itself may lose power
  MaxVersions,  \* storage.max_versions
  MaxOps,       \* bound: mutations each process starts
  MaxCrashes,   \* bound: crashes, power losses and I/O errors while settling
  Absent, NoWriter

Content == [kind : {"memory", "log"}, items : SUBSET Token]

LocalKinds  == {"replace", "merge", "drop", "append", "delete"}
ValueKinds  == {"replace", "import", "upsert"}
TokenKinds  == {"merge", "drop", "append"}
CasKinds    == {"replace", "merge", "drop"}
AllKinds    == LocalKinds \cup {"import", "upsert", "clear"}

ASSUME ConstantsAssumption ==
  /\ Incoming \subseteq Content
  /\ Kinds \subseteq AllKinds
  /\ Unreadable \subseteq Tears
  /\ Tears \cap Content = {}
  /\ Absent \notin Content \cup Tears \cup Category \cup Token
  /\ NoWriter \notin Writers
  /\ MaxVersions \in Nat
  /\ MaxOps \in Nat
  /\ MaxCrashes \in Nat
  /\ Synchronous \in {"full", "normal"}
  /\ PowerCuts \in BOOLEAN

VARIABLES
  db,        \* what SQLite has committed: row, history and dirty mark of each category
  stable,    \* what of it a power loss leaves
  final,     \* categories/<name>.json
  staged,    \* the <name>.json.new.<unique> files
  parked,    \* the <name>.json.deleted.<unique> files
  unsynced,  \* earlier states of these that a power loss may bring back
  backups,   \* contents found in backups/ for the category
  lock,      \* holder of SQLite's write lock
  pc, op,    \* where each process is, and the call it serves
  todo,      \* the categories it settles under the lock
  new,       \* the content its transaction will commit
  nops,      \* mutations it has started: names its staged and parked files
  crashes    \* crashes so far

files == <<final, staged, parked, unsynced, backups>>
vars  == <<db, stable, files, lock, pc, op, todo, new, nops, crashes>>

Row     == [row     : Content \cup {Absent},
            history : Seq(Content),
            dirty   : {"clean", "upsert", "delete"}]
FileId  == Writers \X (0 .. MaxOps)
Staging == [id : FileId, data : Content \cup Tears]
Parking == [id : FileId, data : Content]
DirState == [final  : Content \cup {Absent},
             staged : SUBSET Staging,
             parked : SUBSET Parking]
Request == [kind     : AllKinds \cup {"open", "none"},
            cat      : Category \cup {Absent},
            token    : Token \cup {Absent},
            value    : Content \cup {Absent},
            expected : Content \cup {Absent}]
PC      == {"idle", "waiting", "settling", "writing", "prepared", "committed", "down"}

NoRequest   == [kind |-> "none", cat |-> Absent, token |-> Absent,
                value |-> Absent, expected |-> Absent]
OpenRequest == [NoRequest EXCEPT !.kind = "open"]

TypeOK ==
  /\ db      \in [Category -> Row]
  /\ stable  \in [Category -> Row]
  /\ final   \in [Category -> Content \cup {Absent}]
  /\ staged  \in [Category -> SUBSET Staging]
  /\ parked  \in [Category -> SUBSET Parking]
  /\ unsynced \in [Category -> SUBSET DirState]
  /\ backups \in [Category -> SUBSET Content]
  /\ lock    \in Writers \cup {NoWriter}
  /\ pc      \in [Writers -> PC]
  /\ op      \in [Writers -> Request]
  /\ todo    \in [Writers -> SUBSET Category]
  /\ new     \in [Writers -> Content \cup {Absent}]
  /\ nops    \in [Writers -> 0 .. MaxOps]
  /\ crashes \in 0 .. MaxCrashes

Init ==
  /\ db      = [c \in Category |-> [row |-> Absent, history |-> <<>>, dirty |-> "clean"]]
  /\ stable  = db
  /\ final   = [c \in Category |-> Absent]
  /\ staged  = [c \in Category |-> {}]
  /\ parked  = [c \in Category |-> {}]
  /\ unsynced = [c \in Category |-> {}]
  /\ backups = [c \in Category |-> {}]
  /\ lock    = NoWriter
  /\ pc      = [p \in Writers |-> "idle"]
  /\ op      = [p \in Writers |-> NoRequest]
  /\ todo    = [p \in Writers |-> {}]
  /\ new     = [p \in Writers |-> Absent]
  /\ nops    = [p \in Writers |-> 0]
  /\ crashes = 0

-----------------------------------------------------------------------------
(* Reading the store. *)

Data(fs) == {f.data : f \in fs}

\* Everything a reader may serve: final, staged and parked files.
Carried(c) == ({final[c]} \cup Data(staged[c]) \cup Data(parked[c])) \ {Absent}

Pending(c) == staged[c] # {} \/ parked[c] # {}

\* The committed bytes can be resolved.  Without a row an orphan file is served.
Readable(c) == db[c].row = Absent \/ db[c].row \in Carried(c)

Current(c) == IF db[c].row = Absent THEN final[c] ELSE db[c].row

IsLog(v) == v # Absent /\ v.kind = "log"

Items(v) == IF v = Absent THEN {} ELSE v.items

-----------------------------------------------------------------------------
(* The directory.  The file system journals its changes: a power loss brings back  *)
(* the entries of a category as they are or as they once were since the last       *)
(* fsync that had to succeed.  (The one tried after a rename need not clear        *)
(* anything: it may fail, and a power loss may always leave the newest state.)     *)

Dir(c) == [final |-> final[c], staged |-> staged[c], parked |-> parked[c]]

\* A change of the directory that nobody makes durable.
Remember ==
  unsynced' = [c \in Category |-> IF PowerCuts /\ Dir(c)' # Dir(c)
                                  THEN unsynced[c] \cup {Dir(c)} ELSE unsynced[c]]

\* fsync_dir_strict
SyncDir == unsynced' = [c \in Category |-> {}]

-----------------------------------------------------------------------------
(* Entering and leaving a call. *)

MyFile(p) == <<p, nops[p]>>

Leave(p, where) ==
  /\ pc'   = [pc   EXCEPT ![p] = where]
  /\ op'   = [op   EXCEPT ![p] = NoRequest]
  /\ todo' = [todo EXCEPT ![p] = {}]
  /\ new'  = [new  EXCEPT ![p] = Absent]

Unlock(p) == lock' = IF lock = p THEN NoWriter ELSE lock

\* A failed Store::new ends the process; a failed call returns an error.
Fail(p) == Leave(p, IF op[p].kind = "open" THEN "down" ELSE "idle")

\* The kind check of an import happens here, before the lock is taken.
ImportAllowed(r) ==
  r.value.kind = "log" \/ (Readable(r.cat) /\ ~IsLog(Current(r.cat)))

\* The hash a client names in expected_hash is one that it has read.
WellFormed(r) ==
  /\ r.kind \in Kinds
  /\ r.kind \in TokenKinds <=> r.token # Absent
  /\ r.kind \in ValueKinds <=> r.value # Absent
  /\ r.kind = "import" => ImportAllowed(r)
  /\ r.expected # Absent => r.kind \in CasKinds /\ r.expected = db[r.cat].row

Call(p) ==
  /\ pc[p] = "idle"
  /\ nops[p] < MaxOps
  /\ \E k \in Kinds, c \in Category, t \in Token \cup {Absent}, v \in Incoming \cup {Absent} :
     \E e \in {Absent, db[c].row} :
       LET r == [kind |-> k, cat |-> c, token |-> t, value |-> v, expected |-> e]
       IN  /\ WellFormed(r)
           /\ op'   = [op   EXCEPT ![p] = r]
           /\ todo' = [todo EXCEPT ![p] = IF k = "clear" THEN {} ELSE {c}]
  /\ pc'   = [pc EXCEPT ![p] = "waiting"]
  /\ nops' = [nops EXCEPT ![p] = @ + 1]
  /\ UNCHANGED <<db, stable, files, lock, new, crashes>>

\* Mutant: the transaction starts as a deferred one, without the write lock.
AcquireDeferred(p) ==
  /\ pc[p] = "waiting"
  /\ lock' = p
  /\ pc' = [pc EXCEPT ![p] = "settling"]
  /\ UNCHANGED <<db, stable, files, op, todo, new, nops, crashes>>

\* BEGIN IMMEDIATE succeeds.
Acquire(p) ==
  /\ pc[p] = "waiting"
  /\ lock = NoWriter
  /\ lock' = p
  /\ pc' = [pc EXCEPT ![p] = "settling"]
  /\ UNCHANGED <<db, stable, files, op, todo, new, nops, crashes>>

\* BEGIN IMMEDIATE is still busy at the lock deadline.
GiveUp(p) ==
  /\ pc[p] = "waiting"
  /\ lock \notin {NoWriter, p}
  /\ Fail(p)
  /\ UNCHANGED <<db, stable, files, lock, nops, crashes>>

-----------------------------------------------------------------------------
(* Settling, under the lock: staged files first, then parked ones. *)

\* Mutant: whatever is staged is taken for the leftover of an abort.
SettleStagedByDiscarding(p, c, f) ==
  /\ pc[p] = "settling" /\ c \in todo[p]
  /\ f \in staged[c] /\ f.data \notin Unreadable
  /\ staged' = [staged EXCEPT ![c] = @ \ {f}]
  /\ UNCHANGED <<db, stable, final, parked, backups, lock, pc, op, todo, new, nops, crashes>>
  /\ Remember

SettleStaged(p, c, f) ==
  /\ pc[p] = "settling" /\ c \in todo[p]
  /\ f \in staged[c] /\ f.data \notin Unreadable
  /\ final'  = IF f.data = db[c].row THEN [final EXCEPT ![c] = f.data] ELSE final
  /\ staged' = [staged EXCEPT ![c] = @ \ {f}]
  /\ UNCHANGED <<db, stable, parked, backups, lock, pc, op, todo, new, nops, crashes>>
  /\ Remember

\* read_to_string refuses a file that is not UTF-8: the call, or the open, fails.
SettleFails(p, c, f) ==
  /\ pc[p] = "settling" /\ c \in todo[p]
  /\ f \in staged[c] /\ f.data \in Unreadable
  /\ Unlock(p)
  /\ Fail(p)
  /\ UNCHANGED <<db, stable, files, nops, crashes>>

\* An aborted delete is undone, a committed one completed.
SettleParked(p, c, f) ==
  /\ pc[p] = "settling" /\ c \in todo[p]
  /\ staged[c] = {} /\ f \in parked[c]
  /\ IF db[c].row # Absent
     THEN final' = [final EXCEPT ![c] = f.data] /\ UNCHANGED backups
     ELSE backups' = [backups EXCEPT ![c] = @ \cup {f.data}] /\ UNCHANGED final
  /\ parked' = [parked EXCEPT ![c] = @ \ {f}]
  /\ UNCHANGED <<db, stable, staged, lock, pc, op, todo, new, nops, crashes>>
  /\ Remember

\* Any other I/O error, at any file.
SettleError(p) ==
  /\ pc[p] = "settling" /\ crashes < MaxCrashes
  /\ Unlock(p)
  /\ Fail(p)
  /\ crashes' = crashes + 1
  /\ UNCHANGED <<db, stable, files, nops>>

\* Mutant: only staged files count as leftovers.
SettledStagedOnly(p) == pc[p] = "settling" /\ \A c \in todo[p] : staged[c] = {}

Settled(p) == pc[p] = "settling" /\ \A c \in todo[p] : ~Pending(c)

\* reconcile_on_open has nothing left to do: rollback, the store is open.
FinishOpen(p) ==
  /\ Settled(p) /\ op[p].kind = "open"
  /\ Unlock(p)
  /\ Leave(p, "idle")
  /\ UNCHANGED <<db, stable, files, nops, crashes>>

-----------------------------------------------------------------------------
(* The transaction body. *)

\* What a read-modify-write makes of the content read under the lock.
Outcome(r, current) ==
  IF r.kind = "delete" THEN Absent
  ELSE IF r.kind \in ValueKinds THEN r.value
  ELSE [kind  |-> IF r.kind = "append" THEN "log" ELSE "memory",
        items |-> IF r.kind = "drop" THEN Items(current) \ {r.token}
                                     ELSE Items(current) \cup {r.token}]

\* Mutant: only an append looks at the kind of what it finds.
KindMismatchOfAppends(r, current) == r.kind = "append" /\ current # Absent /\ ~IsLog(current)

KindMismatch(r, current) ==
  \/ r.kind \in CasKinds /\ IsLog(current)
  \/ r.kind = "append" /\ current # Absent /\ ~IsLog(current)

\* Mutant: the precondition is checked before the lock is taken, not under it.
ConflictUnchecked(r) == FALSE

\* The precondition is only compared when the category has a row.
Conflict(r) == r.expected # Absent /\ db[r.cat].row \notin {Absent, r.expected}

\* KindMismatch, ConcurrencyConflict, an unreadable category, or an import of
\* what is already there: the transaction is rolled back.
Refused(r) ==
  \/ r.kind \in CasKinds \cup {"append"} /\ ~Readable(r.cat)
  \/ KindMismatch(r, Current(r.cat))
  \/ Conflict(r)
  \/ r.kind = "import" /\ r.value = db[r.cat].row

Refuse(p) ==
  /\ Settled(p) /\ op[p].kind # "open" /\ Refused(op[p])
  /\ Unlock(p)
  /\ Leave(p, "idle")
  /\ UNCHANGED <<db, stable, files, nops, crashes>>

\* Mutant: the overwritten file is not copied to backups/.
StageOpenWithoutBackup(p) ==
  LET c == op[p].cat IN
  /\ Settled(p) /\ op[p].kind \notin {"open", "delete", "clear"} /\ ~Refused(op[p])
  /\ new' = [new EXCEPT ![p] = Outcome(op[p], Current(c))]
  /\ \E t \in Tears : staged' = [staged EXCEPT ![c] = @ \cup {[id |-> MyFile(p), data |-> t]}]
  /\ pc' = [pc EXCEPT ![p] = "writing"]
  /\ UNCHANGED <<db, stable, final, parked, backups, lock, op, todo, nops, crashes>>
  /\ Remember

\* Copy the overwritten file to backups/ and create the staged file; until it
\* is written out and fsynced, what is on disk is some tear.  (A copy that fails is
\* only logged, and copies of one millisecond share a name: see VersionHistory.)
StageOpen(p) ==
  LET c == op[p].cat IN
  /\ Settled(p) /\ op[p].kind \notin {"open", "delete", "clear"} /\ ~Refused(op[p])
  /\ new'     = [new EXCEPT ![p] = Outcome(op[p], Current(c))]
  /\ backups' = [backups EXCEPT ![c] = @ \cup ({final[c]} \ {Absent})]
  /\ \E t \in Tears : staged' = [staged EXCEPT ![c] = @ \cup {[id |-> MyFile(p), data |-> t]}]
  /\ pc' = [pc EXCEPT ![p] = "writing"]
  /\ UNCHANGED <<db, stable, final, parked, lock, op, todo, nops, crashes>>
  /\ Remember

\* Mutant: only the file is fsynced, not the directory that names it.
StageDoneUnsynced(p) ==
  LET c == op[p].cat IN
  /\ pc[p] = "writing"
  /\ staged' = [staged EXCEPT ![c] = {f \in @ : f.id # MyFile(p)}
                                       \cup {[id |-> MyFile(p), data |-> new[p]]}]
  /\ pc' = [pc EXCEPT ![p] = "prepared"]
  /\ UNCHANGED <<db, stable, final, parked, backups, lock, op, todo, new, nops, crashes>>
  /\ Remember

\* The file is written out, it and the directory are fsynced.
StageDone(p) ==
  LET c == op[p].cat IN
  /\ pc[p] = "writing"
  /\ staged' = [staged EXCEPT ![c] = {f \in @ : f.id # MyFile(p)}
                                       \cup {[id |-> MyFile(p), data |-> new[p]]}]
  /\ pc' = [pc EXCEPT ![p] = "prepared"]
  /\ UNCHANGED <<db, stable, final, parked, backups, lock, op, todo, new, nops, crashes>>
  /\ SyncDir

\* A delete parks the file before it touches the rows.
Park(p) ==
  LET c == op[p].cat IN
  /\ Settled(p) /\ op[p].kind = "delete"
  /\ parked' = [parked EXCEPT ![c] =
                  @ \cup {[id |-> MyFile(p), data |-> d] : d \in {final[c]} \ {Absent}}]
  /\ final' = [final EXCEPT ![c] = Absent]
  /\ pc' = [pc EXCEPT ![p] = "prepared"]
  /\ UNCHANGED <<db, stable, staged, backups, lock, op, todo, new, nops, crashes>>
  /\ IF final[c] = Absent THEN UNCHANGED unsynced ELSE SyncDir

\* prune_versions keeps the newest MaxVersions rows.
Newest(h) == SubSeq(h, IF Len(h) <= MaxVersions THEN 1 ELSE Len(h) - MaxVersions + 1, Len(h))

\* The rows the transaction leaves for its category.
Written(r, old, v) ==
  IF r.kind = "delete" THEN [row |-> Absent, history |-> <<>>, dirty |-> "delete"]
  ELSE IF r.kind \in LocalKinds
  THEN [row |-> v, history |-> Newest(Append(old.history, v)), dirty |-> "upsert"]
  ELSE [row |-> v, history |-> Append(old.history, v), dirty |-> old.dirty]

\* COMMIT: the rows change and the lock is free, before the file is renamed.
\* With synchronous = "full" the commit is durable at once.
Commit(p) ==
  LET c == op[p].cat IN
  /\ pc[p] = "prepared"
  /\ db' = [db EXCEPT ![c] = Written(op[p], @, new[p])]
  /\ stable' = IF Synchronous = "full" THEN db' ELSE stable
  /\ Unlock(p)
  /\ pc' = [pc EXCEPT ![p] = "committed"]
  /\ UNCHANGED <<files, op, todo, new, nops, crashes>>

\* clear_dirty: BEGIN, DELETE from the sync queue, COMMIT; no file is touched.
ClearDirty(p) ==
  /\ Settled(p) /\ op[p].kind = "clear"
  /\ db' = [db EXCEPT ![op[p].cat] = [@ EXCEPT !.dirty = "clean"]]
  /\ stable' = IF Synchronous = "full" THEN db' ELSE stable
  /\ Unlock(p)
  /\ Leave(p, "idle")
  /\ UNCHANGED <<files, nops, crashes>>

\* The staged write, the fsync or COMMIT fails, or COMMIT stays busy: rollback
\* on drop.  The file already staged or parked stays for a later settle.
Abort(p) ==
  /\ pc[p] \in {"writing", "prepared"}
  /\ Unlock(p)
  /\ Leave(p, "idle")
  /\ UNCHANGED <<db, stable, files, nops, crashes>>

-----------------------------------------------------------------------------
(* After COMMIT, outside the lock: a missing file was settled by another. *)

Mine(p, fs) == {f \in fs : f.id = MyFile(p)}

\* Mutant: the final file is written again instead of renaming the staged one.
PromoteByWriting(p) ==
  LET c == op[p].cat IN
  /\ pc[p] = "committed" /\ op[p].kind # "delete"
  /\ final'  = [final EXCEPT ![c] = new[p]]
  /\ staged' = [staged EXCEPT ![c] = @ \ Mine(p, @)]
  /\ Leave(p, "idle")
  /\ UNCHANGED <<db, stable, parked, backups, lock, nops, crashes>>
  /\ Remember

Promote(p) ==
  LET c == op[p].cat IN
  /\ pc[p] = "committed" /\ op[p].kind # "delete"
  /\ \/ \E f \in Mine(p, staged[c]) :
          /\ final'  = [final EXCEPT ![c] = f.data]
          /\ staged' = [staged EXCEPT ![c] = @ \ {f}]
     \/ Mine(p, staged[c]) = {} /\ UNCHANGED <<final, staged>>
  /\ Leave(p, "idle")
  /\ UNCHANGED <<db, stable, parked, backups, lock, nops, crashes>>
  /\ Remember

PromoteDelete(p) ==
  LET c == op[p].cat IN
  /\ pc[p] = "committed" /\ op[p].kind = "delete"
  /\ backups' = [backups EXCEPT ![c] = @ \cup Data(Mine(p, parked[c]))]
  /\ parked'  = [parked EXCEPT ![c] = @ \ Mine(p, parked[c])]
  /\ Leave(p, "idle")
  /\ UNCHANGED <<db, stable, final, staged, lock, nops, crashes>>
  /\ Remember

\* The rename fails: the caller gets an error although the commit stands.
PromoteFails(p) ==
  /\ pc[p] = "committed"
  /\ Leave(p, "idle")
  /\ UNCHANGED <<db, stable, files, lock, nops, crashes>>

-----------------------------------------------------------------------------
(* Failure and restart. *)

\* The process dies: SQLite drops its lock and its open transaction.
Crash(p) ==
  /\ pc[p] # "down" /\ crashes < MaxCrashes
  /\ Unlock(p)
  /\ Leave(p, "down")
  /\ crashes' = crashes + 1
  /\ UNCHANGED <<db, stable, files, nops>>

\* What SQLite has not fsynced is undone, and so may be the last changes of the
\* directory; backups are never fsynced: any of them may be gone.
PowerLoss ==
  /\ PowerCuts /\ crashes < MaxCrashes
  /\ db' = stable
  /\ \E left \in [Category -> UNION {unsynced[c] \cup {Dir(c)} : c \in Category}] :
       /\ \A c \in Category : left[c] \in unsynced[c] \cup {Dir(c)}
       /\ final'  = [c \in Category |-> left[c].final]
       /\ staged' = [c \in Category |-> left[c].staged]
       /\ parked' = [c \in Category |-> left[c].parked]
  /\ SyncDir
  /\ backups' \in [Category -> SUBSET UNION {backups[c] : c \in Category}]
  /\ \A c \in Category : backups'[c] \subseteq backups[c]
  /\ lock' = NoWriter
  /\ pc'   = [p \in Writers |-> "down"]
  /\ op'   = [p \in Writers |-> NoRequest]
  /\ todo' = [p \in Writers |-> {}]
  /\ new'  = [p \in Writers |-> Absent]
  /\ crashes' = crashes + 1
  /\ UNCHANGED <<stable, nops>>

\* With synchronous = "normal" the log reaches the disk at a checkpoint.
Checkpoint ==
  /\ stable # db
  /\ stable' = db
  /\ UNCHANGED <<db, files, lock, pc, op, todo, new, nops, crashes>>

\* Store::new creates the schema under the lock (which changes nothing here), then
\* lists the names with leftovers and, if there are any, asks for the lock again.
Open(p) ==
  LET names == {c \in Category : Pending(c)} IN
  /\ pc[p] = "down"
  /\ IF names = {}
     THEN Leave(p, "idle")
     ELSE /\ pc'   = [pc   EXCEPT ![p] = "waiting"]
          /\ op'   = [op   EXCEPT ![p] = OpenRequest]
          /\ todo' = [todo EXCEPT ![p] = names]
          /\ UNCHANGED new
  /\ UNCHANGED <<db, stable, files, lock, nops, crashes>>

-----------------------------------------------------------------------------

Settle(p) == \E c \in Category :
  \/ \E f \in staged[c] : SettleStaged(p, c, f) \/ SettleFails(p, c, f)
  \/ \E f \in parked[c] : SettleParked(p, c, f)

Work(p) ==
  \/ Settle(p) \/ FinishOpen(p) \/ Refuse(p)
  \/ StageOpen(p) \/ StageDone(p) \/ Park(p) \/ ClearDirty(p)
  \/ Commit(p) \/ Promote(p) \/ PromoteDelete(p)

Next ==
  \/ \E p \in Writers :
       \/ Call(p) \/ Acquire(p) \/ GiveUp(p) \/ Work(p)
       \/ SettleError(p) \/ Abort(p) \/ PromoteFails(p) \/ Crash(p) \/ Open(p)
  \/ PowerLoss
  \/ Checkpoint

Spec == Init /\ [][Next]_vars

\* A running process takes its next step, a stopped one is started again, and
\* the retry loop gets the lock when it stays free.  Nothing obliges a client
\* to call, a process to die or an I/O error to happen.
FairSpec ==
  /\ Spec
  /\ \A p \in Writers : WF_vars(Work(p)) /\ WF_vars(Acquire(p)) /\ WF_vars(Open(p))
-----------------------------------------------------------------------------
(* Properties. *)

\* Whatever step a crash cuts, some file of a committed category carries the
\* bytes whose hash its row holds: final, staged or parked.
CommittedIsOnDisk == \A c \in Category : Readable(c)

\* Once nothing is staged or parked for a category, its file and its row agree; and a
\* category without a row never has a file a reader would serve as an orphan: no late
\* rename and no recovery resurrects a deleted category.
FilesAgreeWithRows == \A c \in Category :
  /\ Pending(c) \/ final[c] = db[c].row
  /\ db[c].row = Absent => final[c] = Absent

\* Every content that memory_history still lists can be found on disk, live or
\* as the backup taken before it was overwritten, unless power was lost.  (Backups
\* age and share names in module VersionHistory, not here.)
HistoryPayloadsKept == ~PowerCuts =>
  \A c \in Category : \A i \in DOMAIN db[c].history :
    db[c].history[i] \in backups[c] \cup Carried(c)

\* A file reaches its final name only with exactly the committed bytes: neither a
\* late promotion nor a settle can put older or uncommitted content back.  A power
\* loss may undo a rename that was not fsynced, but then the committed bytes are
\* staged again for the next settle.
FinalOnlyAdvances == [][
  \A c \in Category : final'[c] \notin {final[c], Absent} =>
    \/ final'[c] = db[c].row
    \/ PowerLoss /\ db'[c].row \in Data(staged'[c]) ]_vars

\* A write that named an expected_hash replaces exactly that content, however long
\* it waited for the lock (a category without a row has nothing to compare).
CasReplacesWhatItNamed == [][
  \A p \in Writers : LET r == op[p] IN
    (pc[p] = "prepared" /\ pc'[p] = "committed" /\ r.expected # Absent)
      => db[r.cat].row \in {Absent, r.expected} ]_vars

\* A log loses no entry and does not turn into something else: only a delete ends
\* it.  (Retention is off here: it is the subject of module LogRetention.)
LogsAreNotClobbered == [][
  \A c \in Category : LET old == db[c].row  fresh == db'[c].row IN
    IsLog(old) /\ fresh # Absent => IsLog(fresh) /\ old.items \subseteq fresh.items ]_vars

\* A process that finds leftovers when it starts gets them settled.
LeftoversAreSettled == \A c \in Category, p \in Writers :
  (pc[p] = "waiting" /\ op[p].kind = "open" /\ c \in todo[p]) ~> ~Pending(c)
=============================================================================
