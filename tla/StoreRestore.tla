---------------------------- MODULE StoreRestore ----------------------------
(***************************************************************************)
(* --restore (store/snapshot.rs): stage a verified copy beside the live    *)
(* store, write the RESTORE_IN_PROGRESS marker, park the live pieces and   *)
(* rename the staged ones into place, one rename at a time, then remove    *)
(* the marker.  The operator has stopped every process of the store, but   *)
(* one may start at any time the marker would turn it away (Store::new).   *)
(* A piece is known by the restore that brought it: 0 is the store before. *)
(***************************************************************************)
EXTENDS Naturals, Sequences

CONSTANTS
  Coverage,     \* whether the snapshots at hand include backups/
  MaxRestores,  \* bound: restores started
  MaxFaults,    \* bound: restores that fail or die before their end
  Absent, Empty

ASSUME RestoreAssumption ==
  /\ Coverage \subseteq BOOLEAN
  /\ MaxRestores \in Nat /\ MaxFaults \in Nat
  /\ {Absent, Empty} \cap Nat = {} /\ Absent # Empty
  /\ Absent \notin [by : Nat, covers : BOOLEAN]

VARIABLES
  live,      \* memory.db, its log files, categories/ and backups/
  staged,    \* pieces in the restore-staging directories
  parked,    \* pieces in the restore-parked directories
  marker,    \* the restore RESTORE_IN_PROGRESS names
  phase,     \* of the restore that runs
  next,      \* the rename it does next
  restores,  \* restores started: the number of the last one
  covers,    \* whether its snapshot includes backups/
  faults,
  ever       \* history: pieces the store has had

vars == <<live, staged, parked, marker, phase, next, restores, covers, faults, ever>>

Piece      == {"db", "wal", "categories", "backups"}   \* wal: -wal, -shm, -journal
Generation == 0 .. MaxRestores
Stored     == Piece \X (Generation \cup {Empty})

TypeOK ==
  /\ live \in [Piece -> Generation \cup {Absent, Empty}]
  /\ staged \subseteq Stored /\ parked \subseteq Stored /\ ever \subseteq Stored
  /\ marker \in [by : Generation, covers : BOOLEAN] \cup {Absent}
  /\ phase \in {"none", "copying", "staged", "swapping"}
  /\ next \in 1 .. 8
  /\ restores \in Generation /\ covers \in BOOLEAN /\ faults \in 0 .. MaxFaults

Pieces(withBackups) == {"db", "categories"} \cup (IF withBackups THEN {"backups"} ELSE {})

Has(f) == {<<p, f[p]>> : p \in {q \in Piece : f[q] # Absent}}

Init ==
  /\ \/ live = [p \in Piece |-> Absent]
     \/ \E w \in {0, Absent} : live = [p \in Piece |-> IF p = "wal" THEN w ELSE 0]
  /\ staged = {} /\ parked = {} /\ marker = Absent
  /\ phase = "none" /\ next = 1 /\ restores = 0 /\ covers = FALSE /\ faults = 0
  /\ ever = Has(live)

-----------------------------------------------------------------------------

Begin(withBackups) ==
  /\ phase = "none" /\ restores < MaxRestores
  /\ phase' = "copying"
  /\ restores' = restores + 1 /\ covers' = withBackups
  /\ UNCHANGED <<live, staged, parked, marker, next, faults, ever>>

\* The copy is complete, fsynced and verified.
Stage ==
  /\ phase = "copying"
  /\ staged' = staged \cup (Pieces(covers) \X {restores})
  /\ phase' = "staged"
  /\ UNCHANGED <<live, parked, marker, next, restores, covers, faults, ever>>

\* A marker that is there already is overwritten.
Mark ==
  /\ phase = "staged"
  /\ marker' = [by |-> restores, covers |-> covers]
  /\ phase' = "swapping" /\ next' = 1
  /\ UNCHANGED <<live, staged, parked, restores, covers, faults, ever>>

Park(p)  == [do |-> "park",  piece |-> p]
Place(p) == [do |-> "place", piece |-> p]

\* Mutant: the log files stay where they are.
SwapWithoutWal ==
  <<Park("db"), Park("categories"), Place("db"), Place("categories")>>
    \o (IF covers THEN <<Park("backups"), Place("backups")>> ELSE <<>>)

\* Mutant: the database is renamed over the live one.
SwapOverwriting ==
  <<Park("wal"), Park("categories"), Place("db"), Place("categories")>>
    \o (IF covers THEN <<Park("backups"), Place("backups")>> ELSE <<>>)

\* The renames, in the order of the code.
Swap ==
  <<Park("db"), Park("wal"), Park("categories"), Place("db"), Place("categories")>>
    \o (IF covers THEN <<Park("backups"), Place("backups")>> ELSE <<>>)

There(p) == live[p] # Absent

\* A rename cannot replace a directory that has something in it.
Replaceable(p) == p = "db" \/ live[p] \in {Absent, Empty}

Rename ==
  LET todo == Swap[next]  p == todo.piece IN
  /\ phase = "swapping" /\ next <= Len(Swap)
  /\ IF todo.do = "park"
     THEN /\ parked' = IF There(p) THEN parked \cup {<<p, live[p]>>} ELSE parked
          /\ live' = [live EXCEPT ![p] = Absent]
          /\ UNCHANGED staged
     ELSE /\ Replaceable(p)
          /\ live' = [live EXCEPT ![p] = restores]
          /\ staged' = staged \ {<<p, restores>>}
          /\ UNCHANGED parked
  /\ next' = next + 1
  /\ ever' = ever \cup Has(live')
  /\ UNCHANGED <<marker, phase, restores, covers, faults>>

Unmark ==
  /\ phase = "swapping" /\ next > Len(Swap)
  /\ marker' = Absent
  /\ phase' = "none" /\ next' = 1
  /\ UNCHANGED <<live, staged, parked, restores, covers, faults, ever>>

\* Mutant: the staging directory is removed whenever the restore fails.
InterruptCleaning ==
  /\ phase # "none" /\ faults < MaxFaults
  /\ phase' = "none" /\ next' = 1 /\ faults' = faults + 1
  /\ staged' = {s \in staged : s[2] # restores}
  /\ UNCHANGED <<live, parked, marker, restores, covers, ever>>

\* An I/O error, a snapshot that fails its verification, or the end of the process.
\* Only a failure of the copy removes what was staged.
Interrupt ==
  /\ phase # "none" /\ faults < MaxFaults
  /\ phase' = "none" /\ next' = 1 /\ faults' = faults + 1
  /\ UNCHANGED <<live, staged, parked, marker, restores, covers, ever>>

Made(p) == IF live[p] = Absent THEN Empty ELSE live[p]

\* Store::new makes the directories before it looks at the marker.
TurnedAway ==
  /\ marker # Absent
  /\ live' = [live EXCEPT !["categories"] = Made("categories"), !["backups"] = Made("backups")]
  /\ ever' = ever \cup Has(live')
  /\ UNCHANGED <<staged, parked, marker, phase, next, restores, covers, faults>>

\* A process opens the store, works and stops; killed, it leaves
\* its log behind, which a checkpoint has emptied otherwise.
Serve ==
  /\ marker = Absent /\ phase = "none"
  /\ \E w \in {Absent, Made("db")} :
       live' = [p \in Piece |-> IF p = "wal" THEN w ELSE Made(p)]
  /\ ever' = (ever \ {<<"wal", live["wal"]>>}) \cup Has(live')
  /\ UNCHANGED <<staged, parked, marker, phase, next, restores, covers, faults>>

Next ==
  \/ \E b \in Coverage : Begin(b)
  \/ Stage \/ Mark \/ Rename \/ Unmark \/ Interrupt
  \/ TurnedAway \/ Serve

Spec == Init /\ [][Next]_vars
-----------------------------------------------------------------------------
(* Properties. *)

\* Without the marker the database, its log and the category files belong together,
\* whatever restores were interrupted before.
SwapIsClosed == marker = Absent =>
  /\ live["db"] = live["categories"]
  /\ live["wal"] \in {Absent, live["db"]}

\* No piece the store ever had is destroyed: it is live or parked.
NothingIsDestroyed == ever \subseteq Has(live) \cup parked \cup (Piece \X {Empty})

\* An interrupted swap can be completed by hand: every piece of the snapshot the
\* marker names is in place or still staged.
CanBeCompleted == marker # Absent =>
  Pieces(marker.covers) \X {marker.by} \subseteq Has(live) \cup staged
=============================================================================
