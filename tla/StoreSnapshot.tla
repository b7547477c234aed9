--------------------------- MODULE StoreSnapshot ---------------------------
(***************************************************************************)
(* --snapshot (store/snapshot.rs): one more process takes the write lock   *)
(* on a second connection, settles what is pending, copies the rows with   *)
(* VACUUM INTO and then the files one by one, writes the manifest, lets    *)
(* the lock go and verifies what it wrote.  The processes of CategoryStore *)
(* go on meanwhile: those that have committed still rename their files,    *)
(* and every start and every compaction of a server prunes old backups     *)
(* without the lock (backup.rs).  How old they are is the subject of       *)
(* VersionHistory: here any backup may be pruned at any time.              *)
(* What a power loss leaves of the destination is not modelled: the module *)
(* speaks of a store with ~PowerCuts.                                      *)
(***************************************************************************)
EXTENDS StoreMaintenance, FiniteSets

CONSTANTS
  WithBackups,  \* --with-backups
  MaxPruned     \* bound: backups pruned

ASSUME SnapshotAssumption == WithBackups \in BOOLEAN /\ MaxPruned \in Nat

VARIABLES
  toCopy,         \* category files listed and not copied yet
  backupsToCopy,  \* backups listed and not copied yet
  snapshot,       \* what is in the destination: rows, files, backups
  pruned          \* backups that were pruned at some time

svars == <<stage, toCopy, backupsToCopy, snapshot, pruned>>

Stage == {"ready", "settling", "locked", "listing", "copying", "backups",
          "manifest", "written", "verified", "rejected", "vanished", "failed"}

Snapshot == [rows : [Category -> Row], files : [Category -> Content \cup {Absent}],
             backups : [Category -> SUBSET Content]]

SnapshotTypeOK ==
  /\ lock \in Writers \cup {NoWriter, Taker}
  /\ stage \in Stage
  /\ toCopy \subseteq Category
  /\ backupsToCopy \subseteq Category \X Content
  /\ snapshot \in Snapshot
  /\ pruned \subseteq Category \X Content

NoRow == [row |-> Absent, history |-> <<>>, dirty |-> "clean"]

Nothing == [rows |-> [c \in Category |-> NoRow], files |-> [c \in Category |-> Absent],
            backups |-> [c \in Category |-> {}]]

SnapshotInit ==
  /\ Init
  /\ stage = "ready" /\ toCopy = {} /\ backupsToCopy = {}
  /\ snapshot = Nothing /\ pruned = {}

-----------------------------------------------------------------------------

\* What most steps leave alone.
copied == <<toCopy, backupsToCopy, snapshot, pruned>>

\* The write lock is taken on the guard connection.
Begin == Takes("ready", "settling") /\ UNCHANGED copied

Fails == FailsBefore({"verified", "rejected", "vanished", "failed"}) /\ UNCHANGED copied

\* settle_pending
SettlePending == TakerSettles /\ UNCHANGED copied

Prepared ==
  /\ TakerSettled
  /\ stage' = "locked"
  /\ UNCHANGED <<vars, copied>>

\* VACUUM INTO, on the store connection, sees what is committed.
Vacuum ==
  /\ stage = "locked"
  /\ snapshot' = [snapshot EXCEPT !.rows = db]
  /\ stage' = "listing"
  /\ UNCHANGED <<vars, toCopy, backupsToCopy, pruned>>

\* json_names
ListFiles ==
  /\ stage = "listing"
  /\ toCopy' = {c \in Category : final[c] # Absent}
  /\ stage' = "copying"
  /\ UNCHANGED <<vars, backupsToCopy, snapshot, pruned>>

\* A listed file that is gone when it is copied fails the snapshot.
CopyFile(c) ==
  /\ stage = "copying" /\ c \in toCopy
  /\ IF final[c] = Absent
     THEN stage' = "vanished" /\ Unlock(Taker) /\ UNCHANGED <<toCopy, snapshot>>
     ELSE /\ snapshot' = [snapshot EXCEPT !.files[c] = final[c]]
          /\ toCopy' = toCopy \ {c}
          /\ UNCHANGED <<lock, stage>>
  /\ UNCHANGED <<db, stable, files, pc, op, todo, new, nops, crashes, backupsToCopy, pruned>>

\* read_dir of backups/ opens, if backups are wanted.
ListBackups ==
  /\ stage = "copying" /\ toCopy = {}
  /\ IF WithBackups
     THEN /\ backupsToCopy' = UNION {{c} \X backups[c] : c \in Category}
          /\ stage' = "backups"
     ELSE stage' = "manifest" /\ UNCHANGED backupsToCopy
  /\ UNCHANGED <<vars, toCopy, snapshot, pruned>>

\* The next entry.  One that has been pruned is not met any more or, when the
\* directory was read before, fails the snapshot.
CopyBackup(c, v) ==
  /\ stage = "backups" /\ <<c, v>> \in backupsToCopy
  /\ backupsToCopy' = backupsToCopy \ {<<c, v>>}
  /\ \/ v \in backups[c] /\ snapshot' = [snapshot EXCEPT !.backups[c] = @ \cup {v}]
        /\ UNCHANGED <<lock, stage>>
     \/ v \notin backups[c] /\ UNCHANGED <<lock, stage, snapshot>>
     \/ v \notin backups[c] /\ stage' = "vanished" /\ Unlock(Taker) /\ UNCHANGED snapshot
  /\ UNCHANGED <<db, stable, files, pc, op, todo, new, nops, crashes, toCopy, pruned>>

BackupsCopied ==
  /\ stage = "backups" /\ backupsToCopy = {}
  /\ stage' = "manifest"
  /\ UNCHANGED <<vars, copied>>

\* The manifest is complete; rollback of the guard.
WriteManifest ==
  /\ stage = "manifest"
  /\ stage' = "written" /\ Unlock(Taker)
  /\ UNCHANGED <<db, stable, files, pc, op, todo, new, nops, crashes, copied>>

\* verify: every row has its file with its hash, and there is no other file.
Verify ==
  /\ stage = "written"
  /\ stage' = IF \A c \in Category : snapshot.files[c] = snapshot.rows[c].row
              THEN "verified" ELSE "rejected"
  /\ UNCHANGED <<vars, copied>>

Take ==
  \/ Begin \/ Fails \/ SettlePending \/ Prepared \/ Vacuum \/ ListFiles
  \/ (\E c \in Category : CopyFile(c)) \/ ListBackups
  \/ (\E c \in Category, v \in Content : CopyBackup(c, v)) \/ BackupsCopied
  \/ WriteManifest \/ Verify

\* prune_old_backups, of any process: it takes no lock.
Prune(c, v) ==
  /\ v \in backups[c] /\ Cardinality(pruned) < MaxPruned
  /\ backups' = [backups EXCEPT ![c] = @ \ {v}]
  /\ pruned' = pruned \cup {<<c, v>>}
  /\ UNCHANGED <<db, stable, final, staged, parked, unsynced, lock, pc, op, todo, new, nops,
                 crashes, stage, toCopy, backupsToCopy, snapshot>>

SnapshotNext ==
  \/ Take
  \/ \E c \in Category, v \in Content : Prune(c, v)
  \/ Next /\ UNCHANGED svars

SnapshotSpec == SnapshotInit /\ [][SnapshotNext]_<<vars, svars>>
-----------------------------------------------------------------------------
(* Properties. *)

\* Rows and files of the snapshot are those of one instant: as long as the taker
\* works on the copy, what it has copied is still what the store holds.
OneInstant == stage \in {"copying", "backups", "manifest"} =>
  /\ snapshot.rows = db
  /\ \A c \in Category : c \notin toCopy => snapshot.files[c] = db[c].row

\* A snapshot that was written to its end passes its own verification.
NeverRejected == stage # "rejected"

\* With backups, a snapshot carries the payload of every version it lists, except
\* those whose backup was pruned before it was copied.
HistoryIsCovered == WithBackups /\ stage \in {"manifest", "written", "verified"} =>
  \A c \in Category : LET h == snapshot.rows[c].history IN
    \A i \in DOMAIN h :
      \/ h[i] \in snapshot.backups[c] \cup {snapshot.files[c]}
      \/ <<c, h[i]>> \in pruned /\ (stage = "manifest" => h[i] \notin backups[c])
=============================================================================
