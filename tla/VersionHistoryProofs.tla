------------------------ MODULE VersionHistoryProofs ------------------------
(***************************************************************************)
(* Theorems about the history of a category, for every retention, any      *)
(* number of versions and any sequence of writes, deletes, prunings and    *)
(* restarts in which no two mutations share a millisecond.                 *)
(***************************************************************************)
EXTENDS VersionHistory, SequenceTheorems, TLAPS

(* The backup that keeps a past content, with the time that prune_old_backups goes by. *)
Keeper(x) == [name |-> x.at, deleted |-> x.deleted, body |-> x.body,
              mtime |-> IF x.deleted THEN x.dated ELSE x.at, whole |-> x.copied]

(* A name is never in use when a backup is made: it is of this instant. *)
NamesArePast ==
  /\ last # Absent => last <= now
  /\ \A f \in copies : last # Absent /\ f.name <= last

(* What was overwritten or deleted is in the backup that was made of it, as long as no
   pruning may remove that. *)
PastIsKept == \A x \in past : x.copied /\ Recent(Keeper(x).mtime) => Keeper(x) \in copies

HistoryInv == TypeOK /\ NamesArePast /\ PastIsKept

-----------------------------------------------------------------------------
(* Types. *)

LEMMA NewestIsSuffix ==
  ASSUME NEW vs \in Seq(Version)
  PROVE  Newest(vs) \in Seq(Version)
BY HistoryAssumption, SubSeqProperties DEF Newest

\* What a mutation keeps of the content it replaces.
LEMMA KeptIsTyped ==
  ASSUME TypeOK, live # Absent, NEW deleted \in BOOLEAN, NEW copied \in BOOLEAN
  PROVE  Gone(deleted, copied) \in Past /\ Kept(Keeper(Gone(deleted, copied))) \subseteq Copy
<1>1. live.body \in Body /\ live.mtime \in Time /\ now \in Time
  BY DEF TypeOK, Live
<1>2. Gone(deleted, copied) \in Past
  BY <1>1 DEF Gone, Past
<1>3. Keeper(Gone(deleted, copied)) \in Copy
  BY <1>1 DEF Keeper, Gone, Copy
<1>4. QED
  BY <1>2, <1>3 DEF Kept, TypeOK

LEMMA CopiesAreKeepers ==
  /\ \A whole \in BOOLEAN : Copied(whole) = Keeper(Gone(FALSE, whole))
  /\ Moved = Keeper(Gone(TRUE, TRUE))
BY DEF Copied, Moved, Keeper, Gone

LEMMA TypeStep ==
  ASSUME TypeOK, [Next]_vars
  PROVE  TypeOK'
<1> USE HistoryAssumption DEF TypeOK
<1>1. ASSUME NEW b \in Body, NEW local \in BOOLEAN, Write(b, local) PROVE TypeOK'
  <2>1. live' \in Live
    BY <1>1 DEF Write, Live
  <2>2. versions' \in Seq(Version)
    <3>1. Append(versions, [body |-> b, at |-> now]) \in Seq(Version)
      BY DEF Version
    <3>2. QED
      BY <1>1, <3>1, NewestIsSuffix DEF Write
  <2>3. copies' \subseteq Copy /\ past' \subseteq Past
    <3>1. CASE live = Absent
      BY <1>1, <3>1 DEF Write
    <3>2. CASE live # Absent
      <4>1. PICK whole \in BOOLEAN : Backup(whole) /\ past' = past \cup {Gone(FALSE, whole)}
        BY <1>1, <3>2 DEF Write
      <4>2. copies' \in {copies, Kept(Keeper(Gone(FALSE, whole)))}
        BY <4>1, CopiesAreKeepers DEF Backup
      <4>3. QED
        BY <3>2, <4>1, <4>2, KeptIsTyped
    <3>3. QED
      BY <3>1, <3>2
  <2>4. QED
    BY <1>1, <2>1, <2>2, <2>3 DEF Write
<1>2. CASE Delete
  <2>1. copies' \subseteq Copy /\ past' \subseteq Past
    BY <1>2, KeptIsTyped, CopiesAreKeepers DEF Delete
  <2>2. <<>> \in Seq(Version)
    OBVIOUS
  <2>3. QED
    BY <1>2, <2>1, <2>2 DEF Delete
<1>3. CASE Startup \/ Compact
  BY <1>3 DEF Startup, Compact, Young
<1>4. CASE Tick
  BY <1>4 DEF Tick, Time
<1>5. CASE UNCHANGED vars
  BY <1>5 DEF vars
<1>6. CASE DiesCopying
  <2>1. copies' \subseteq Copy
    BY <1>6, KeptIsTyped, CopiesAreKeepers DEF DiesCopying
  <2>2. QED
    BY <1>6, <2>1 DEF DiesCopying
<1>7. QED
  BY <1>1, <1>2, <1>3, <1>4, <1>5, <1>6 DEF Next, WriteLocally, Bring

-----------------------------------------------------------------------------
(* The invariant, action by action. *)

LEMMA InitHistory == Init => HistoryInv
<1> SUFFICES ASSUME Init PROVE HistoryInv
  OBVIOUS
<1>1. <<>> \in Seq(Version) /\ 0 \in Time
  BY HistoryAssumption DEF Time
<1>2. QED
  BY <1>1 DEF Init, HistoryInv, TypeOK, NamesArePast, PastIsKept

\* What is recent was recent: the clock does not run backwards.
LEMMA RecentWasRecent ==
  ASSUME NEW t \in Time, now \in Time, now' \in Time, now <= now', Recent(t)'
  PROVE  Recent(t)
<1>1. Retention * PerDay \in Nat
  BY HistoryAssumption
<1>2. QED
  BY <1>1, HistoryAssumption DEF Recent, Time

\* A backup that is made replaces none, and if it is whole it keeps the content.
LEMMA StepBackup ==
  ASSUME ~Coarse, HistoryInv, TypeOK', Moment, last' = now, now' = now, live # Absent,
         NEW deleted \in BOOLEAN, NEW copied \in BOOLEAN,
         past' = past \/ past' = past \cup {Gone(deleted, copied)},
         copies' = Kept(Keeper(Gone(deleted, copied))) \/ (~copied /\ copies' = copies)
  PROVE  HistoryInv'
<1> DEFINE f == Keeper(Gone(deleted, copied))
<1> USE HistoryAssumption DEF HistoryInv
<1>1. f.name = now
  BY DEF Keeper, Gone
<1>2. \A g \in copies : g.name < now
  BY DEF Moment, NamesArePast, TypeOK, Time, Copy
<1>3. copies' = copies \cup {f} \/ (~copied /\ copies' = copies)
  BY <1>1, <1>2 DEF Kept, TypeOK, Time, Copy
<1>4. NamesArePast'
  <2>1. now \in Nat /\ last' # Absent
    BY DEF TypeOK, Time
  <2>2. \A g \in copies \cup {f} : g.name <= now
    BY <1>1, <1>2, <2>1 DEF TypeOK, Time, Copy
  <2>3. QED
    BY <1>3, <2>1, <2>2 DEF NamesArePast
<1>5. PastIsKept'
  <2>1. Gone(deleted, copied).copied = copied
    BY DEF Gone
  <2>2. QED
    BY <1>3, <2>1 DEF PastIsKept, Recent
<1>6. QED
  BY <1>4, <1>5

\* Nothing is overwritten: a first write.
LEMMA StepFirst ==
  ASSUME HistoryInv, TypeOK', last' = now, now' = now, past' = past, copies' = copies
  PROVE  HistoryInv'
<1>1. NamesArePast'
  <2>1. now \in Nat /\ last' # Absent
    BY HistoryAssumption DEF HistoryInv, TypeOK, Time
  <2>2. \A g \in copies : g.name <= now
    BY <2>1 DEF HistoryInv, NamesArePast, TypeOK, Time, Copy
  <2>3. QED
    BY <2>1, <2>2 DEF NamesArePast
<1>2. PastIsKept'
  BY DEF HistoryInv, PastIsKept, Recent
<1>3. QED
  BY <1>1, <1>2 DEF HistoryInv

\* Pruning goes by the time of the file, which is that of the content it keeps.
LEMMA StepPrune ==
  ASSUME HistoryInv, TypeOK', Startup \/ Compact
  PROVE  HistoryInv'
<1>1. copies' = Young /\ UNCHANGED <<now, last, past>>
  BY DEF Startup, Compact
<1>2. NamesArePast'
  BY <1>1 DEF HistoryInv, NamesArePast, Young
<1>3. PastIsKept'
  BY <1>1 DEF HistoryInv, PastIsKept, Young, Recent
<1>4. QED
  BY <1>2, <1>3 DEF HistoryInv

LEMMA StepTick ==
  ASSUME HistoryInv, TypeOK', Tick
  PROVE  HistoryInv'
<1>1. now <= now' /\ UNCHANGED <<copies, last, past>>
  BY DEF Tick, HistoryInv, TypeOK, Time
<1>2. NamesArePast'
  BY <1>1 DEF HistoryInv, NamesArePast, TypeOK, Time
<1>3. ASSUME NEW x \in past, Recent(Keeper(x).mtime)' PROVE Recent(Keeper(x).mtime)
  <2>1. Keeper(x).mtime \in Time
    BY DEF Keeper, HistoryInv, TypeOK, Past
  <2>2. QED
    BY <1>1, <1>3, <2>1, RecentWasRecent DEF HistoryInv, TypeOK
<1>4. PastIsKept'
  BY <1>1, <1>3 DEF HistoryInv, PastIsKept
<1>5. QED
  BY <1>2, <1>4 DEF HistoryInv

LEMMA StepHistory ==
  ASSUME ~Coarse, HistoryInv, [Next]_vars
  PROVE  HistoryInv'
<1>1. TypeOK'
  BY TypeStep DEF HistoryInv
<1>2. ASSUME NEW b \in Body, NEW local \in BOOLEAN, Write(b, local) PROVE HistoryInv'
  <2>1. CASE live = Absent
    BY <1>1, <1>2, <2>1, StepFirst DEF Write
  <2>2. CASE live # Absent
    <3>1. PICK whole \in BOOLEAN : Backup(whole) /\ past' = past \cup {Gone(FALSE, whole)}
      BY <1>2, <2>2 DEF Write
    <3>2. copies' = Kept(Keeper(Gone(FALSE, whole))) \/ (~whole /\ copies' = copies)
      BY <3>1, CopiesAreKeepers DEF Backup
    <3>3. QED
      BY <1>1, <1>2, <2>2, <3>1, <3>2, StepBackup DEF Write
  <2>3. QED
    BY <2>1, <2>2
<1>3. CASE Delete
  BY <1>1, <1>3, CopiesAreKeepers, StepBackup DEF Delete
<1>4. CASE Startup \/ Compact
  BY <1>1, <1>4, StepPrune
<1>5. CASE Tick
  BY <1>1, <1>5, StepTick
<1>6. CASE UNCHANGED vars
  BY <1>1, <1>6 DEF vars, HistoryInv, NamesArePast, PastIsKept, Recent
<1>7. CASE DiesCopying
  <2>1. copies' = Kept(Keeper(Gone(FALSE, FALSE)))
    BY <1>7, CopiesAreKeepers DEF DiesCopying
  <2>2. QED
    BY <1>1, <1>7, <2>1, StepBackup DEF DiesCopying
<1>8. QED
  BY <1>2, <1>3, <1>4, <1>5, <1>6, <1>7 DEF Next, WriteLocally, Bring

(* Where no two mutations share a millisecond, every content that was overwritten or      *)
(* deleted is in the very backup that was made of it, if one could be made, until that    *)
(* is due for pruning.                                                                    *)
THEOREM HistoryInvariant ==
  ASSUME ~Coarse
  PROVE  Spec => []HistoryInv
<1>1. Init => HistoryInv
  BY InitHistory
<1>2. HistoryInv /\ [Next]_vars => HistoryInv'
  BY StepHistory
<1>3. QED
  BY <1>1, <1>2, PTL DEF Spec

-----------------------------------------------------------------------------
(* What memory_restore relies on. *)

(* Content overwritten within the retention has its copy in backups/ if it could be made, *)
(* whichever process prunes; content that was deleted has it while its last write is within the retention.  *)
THEOREM NothingRecentIsLost ==
  ASSUME ~Coarse
  PROVE  Spec => []OverwrittenIsKept
<1>1. HistoryInv => OverwrittenIsKept
  BY DEF HistoryInv, PastIsKept, Keeper, OverwrittenIsKept
<1>2. QED
  BY <1>1, HistoryInvariant, PTL

(* A version that was overwritten on its own day is found by its day and hash, unless     *)
(* a torn copy of that day fails the search.                                              *)
THEOREM VersionsOfOneDayAreFound ==
  ASSUME ~Coarse
  PROVE  Spec => []SameDayVersionsAreFound
<1>1. HistoryInv => SameDayVersionsAreFound
  <2> SUFFICES ASSUME HistoryInv, NEW x \in past,
                      ~x.deleted, x.copied, Recent(x.at), Day(x.dated) = Day(x.at)
               PROVE  LET v == [body |-> x.body, at |-> x.dated] IN
                      Found(v) \/ \E f \in SameDay(v) : ~f.whole
    BY DEF SameDayVersionsAreFound
  <2>1. Keeper(x) \in copies /\ Keeper(x).whole /\ Keeper(x).body = x.body /\ Keeper(x).name = x.at
    BY DEF HistoryInv, PastIsKept, Keeper
  <2>2. QED
    BY <2>1 DEF Found, SameDay
<1>2. QED
  BY <1>1, HistoryInvariant, PTL
=============================================================================
