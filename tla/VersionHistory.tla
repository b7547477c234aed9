--------------------------- MODULE VersionHistory ---------------------------
(***************************************************************************)
(* The history of one category: rows in category_version, payloads in      *)
(* backups/ (store/mod.rs, atomic_json::backup_copy, backup.rs).  A        *)
(* mutation is one step here (see CategoryStore).  A backup is named after *)
(* the instant it was made, and read_version finds it by day and hash.     *)
(***************************************************************************)
EXTENDS Naturals, Sequences

CONSTANTS
  Body,         \* contents of the category
  Kinds,        \* mutations of this instance: "local", "bring", "delete", "compact"
  PerDay,       \* instants in a day
  Retention,    \* storage.backup_retention_days
  MaxVersions,  \* storage.max_versions
  Coarse,       \* whether two mutations may fall into the same millisecond
  MaxTime,      \* bound: the last instant of the clock
  MaxHistory,   \* bound: rows in category_version
  Absent

ASSUME HistoryAssumption ==
  /\ Kinds \subseteq {"local", "bring", "delete", "compact"}
  /\ PerDay \in Nat \ {0} /\ Retention \in Nat
  /\ MaxVersions \in Nat
  /\ Coarse \in BOOLEAN
  /\ MaxTime \in Nat /\ MaxHistory \in Nat
  /\ Absent \notin Body \cup Nat

VARIABLES
  live,      \* the category file: its content and modification time
  versions,  \* rows of category_version, oldest first
  copies,    \* files in backups/
  now,       \* the wall clock
  last,      \* instant of the last mutation
  past       \* history: contents that were overwritten or deleted

vars == <<live, versions, copies, now, last, past>>

Time    == 0 .. MaxTime
Live    == [body : Body, mtime : Time]
Version == [body : Body, at : Time]
Copy    == [name : Time, deleted : BOOLEAN, body : Body, mtime : Time, whole : BOOLEAN]
Past    == [body : Body, dated : Time, at : Time, deleted : BOOLEAN, copied : BOOLEAN]

TypeOK ==
  /\ live     \in Live \cup {Absent}
  /\ versions \in Seq(Version)
  /\ copies   \subseteq Copy
  /\ now      \in Time
  /\ last     \in Time \cup {Absent}
  /\ past     \subseteq Past

Init ==
  /\ live = Absent /\ versions = <<>> /\ copies = {}
  /\ now = 0 /\ last = Absent /\ past = {}

-----------------------------------------------------------------------------

Day(t) == t \div PerDay

Newest(vs) == SubSeq(vs, IF Len(vs) <= MaxVersions THEN 1 ELSE Len(vs) - MaxVersions + 1, Len(vs))

\* Mutant: a hard link instead of a copy keeps the time of the original.
CopiedByLink(whole) ==
  [name |-> now, deleted |-> FALSE, body |-> live.body, mtime |-> live.mtime, whole |-> whole]

\* fs::copy makes a new file, or a part of one.
Copied(whole) ==
  [name |-> now, deleted |-> FALSE, body |-> live.body, mtime |-> now, whole |-> whole]

\* finish_delete renames the parked file.
Moved == [name |-> now, deleted |-> TRUE, body |-> live.body, mtime |-> live.mtime, whole |-> TRUE]

\* A file of the same name is overwritten.
Kept(f) == {g \in copies : g.name # f.name \/ g.deleted # f.deleted} \cup {f}

Gone(deleted, copied) ==
  [body |-> live.body, dated |-> live.mtime, at |-> now, deleted |-> deleted, copied |-> copied]

Moment == last # Absent /\ ~Coarse => last < now

\* backup_copy.  A copy that fails is only logged; a part of it may stay.
Backup(whole) ==
  \/ copies' = Kept(Copied(whole))
  \/ ~whole /\ UNCHANGED copies

\* stage_rows; only stage_local_write prunes the versions.
Write(b, local) ==
  /\ Moment /\ Len(versions) < MaxHistory
  /\ live' = [body |-> b, mtime |-> now]
  /\ LET vs == Append(versions, [body |-> b, at |-> now]) IN
     versions' = IF local THEN Newest(vs) ELSE vs
  /\ IF live = Absent
     THEN UNCHANGED <<copies, past>>
     ELSE \E whole \in BOOLEAN : Backup(whole) /\ past' = past \cup {Gone(FALSE, whole)}
  /\ last' = now
  /\ UNCHANGED now

\* The process dies in the middle of the copy: the write does not happen.
DiesCopying ==
  /\ Moment /\ live # Absent /\ Kinds \cap {"local", "bring"} # {}
  /\ copies' = Kept(Copied(FALSE))
  /\ last' = now
  /\ UNCHANGED <<live, versions, now, past>>

WriteLocally == "local" \in Kinds /\ \E b \in Body : Write(b, TRUE)

\* import_category and upsert_synced_category
Bring == "bring" \in Kinds /\ \E b \in Body : Write(b, FALSE)

Delete ==
  /\ "delete" \in Kinds /\ Moment
  /\ live # Absent
  /\ live' = Absent /\ versions' = <<>>
  /\ copies' = Kept(Moved)
  /\ past'   = past \cup {Gone(TRUE, TRUE)}
  /\ last'   = now
  /\ UNCHANGED now

Recent(t) == t + Retention * PerDay >= now

\* Mutant: everything that is not from today is old.
YoungFromToday == {f \in copies : Day(f.mtime) = Day(now)}

\* prune_old_backups goes by the modification time.
Young == {f \in copies : Recent(f.mtime)}

\* from_config of any process that starts.
Startup ==
  /\ copies' = Young
  /\ UNCHANGED <<live, versions, now, last, past>>

\* memory_compact reads keep_versions, prunes backups and no version.
Compact ==
  /\ "compact" \in Kinds
  /\ copies' = Young
  /\ UNCHANGED <<live, versions, now, last, past>>

Tick ==
  /\ now < MaxTime
  /\ now' = now + 1
  /\ UNCHANGED <<live, versions, copies, last, past>>

Next == WriteLocally \/ Bring \/ DiesCopying \/ Delete \/ Startup \/ Compact \/ Tick

Spec == Init /\ [][Next]_vars

-----------------------------------------------------------------------------

\* What read_version tries: the files of the version's day.
SameDay(v) == {f \in copies : Day(f.name) = Day(v.at)}

\* It returns a payload: one of them has the hash, and none ends it with an error first.
Found(v) ==
  /\ \E f \in SameDay(v) : f.whole /\ f.body = v.body
  /\ \A f \in SameDay(v) : f.whole

-----------------------------------------------------------------------------
(* Properties. *)

\* Content overwritten within backup_retention_days has its copy in backups/, if that
\* could be made; content that was deleted has it as long as its last write is within
\* them.  No torn copy replaces a whole one.
OverwrittenIsKept == \A x \in past :
  x.copied /\ Recent(IF x.deleted THEN x.dated ELSE x.at) =>
    \E f \in copies : f.whole /\ f.body = x.body

\* A version that was overwritten on its own day, within the retention, can be read
\* back by its id, unless a torn copy of that day fails the call.
SameDayVersionsAreFound == \A x \in past : LET v == [body |-> x.body, at |-> x.dated] IN
  ~x.deleted /\ x.copied /\ Recent(x.at) /\ Day(x.dated) = Day(x.at) =>
    Found(v) \/ \E f \in SameDay(v) : ~f.whole
=============================================================================
