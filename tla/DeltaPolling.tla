---------------------------- MODULE DeltaPolling ----------------------------
(***************************************************************************)
(* A client that keeps a copy of a category: memory_read, memory_delta and *)
(* memory_write with expected_hash (server.rs), while other processes      *)
(* change the category.  memory_read takes content and hash in one         *)
(* coherent read (see CategoryReaders); memory_delta takes the hash and    *)
(* then, in a second read, the content.  A hash is the content it names.   *)
(***************************************************************************)
EXTENDS Naturals

CONSTANTS
  Distinct,    \* whether every change brings content the category never had
  MaxChanges,  \* bound: changes of the category
  Absent

PollingAssumption == Distinct \in BOOLEAN /\ MaxChanges \in Nat /\ Absent \notin Nat

VARIABLES
  stored,   \* the committed content
  changes,  \* changes so far
  known,    \* the hash the client holds
  copy,     \* the content it holds
  asking,   \* the hash a memory_delta under way has read
  answer    \* what the last memory_delta said, until something else happens

vars == <<stored, changes, known, copy, asking, answer>>

Body == 1 .. MaxChanges

TypeOK ==
  /\ stored \in Body \cup {Absent}
  /\ changes \in 0 .. MaxChanges
  /\ known \in Body \cup {Absent} /\ copy \in Body \cup {Absent}
  /\ known = Absent <=> copy = Absent
  /\ asking \in Body \cup {Absent}
  /\ answer \in {"none", "unchanged", "changed", "deleted"}

Init ==
  /\ stored = Absent /\ changes = 0
  /\ known = Absent /\ copy = Absent /\ asking = Absent /\ answer = "none"

-----------------------------------------------------------------------------

NextBody == IF Distinct THEN {changes + 1} ELSE Body

\* Another process writes or deletes, also in the middle of a memory_delta.
Other ==
  /\ changes < MaxChanges
  /\ stored' \in (NextBody \cup {Absent}) \ {stored}
  /\ changes' = changes + 1 /\ answer' = "none"
  /\ UNCHANGED <<known, copy, asking>>

Read ==
  /\ asking = Absent /\ stored # Absent
  /\ known' = stored /\ copy' = stored /\ answer' = "none"
  /\ UNCHANGED <<stored, changes, asking>>

DeltaMeta ==
  /\ asking = Absent /\ known # Absent
  /\ IF stored = Absent
     THEN answer' = "deleted" /\ known' = Absent /\ copy' = Absent /\ UNCHANGED asking
     ELSE IF stored = known
     THEN answer' = "unchanged" /\ UNCHANGED <<known, copy, asking>>
     ELSE asking' = stored /\ answer' = "none" /\ UNCHANGED <<known, copy>>
  /\ UNCHANGED <<stored, changes>>

\* The second read fails if the category is gone or, maybe, changes.
DeltaValue ==
  /\ asking # Absent /\ asking' = Absent
  /\ \/ /\ stored # Absent
        /\ known' = asking /\ copy' = stored /\ answer' = "changed"
     \/ /\ stored # asking
        /\ answer' = "none" /\ UNCHANGED <<known, copy>>
  /\ UNCHANGED <<stored, changes>>

\* The client replaces what it holds; a deleted category has nothing to compare.
Write ==
  /\ asking = Absent /\ known # Absent /\ changes < MaxChanges
  /\ answer' = "none"
  /\ IF stored \in {Absent, known}
     THEN /\ stored' \in NextBody /\ changes' = changes + 1
          /\ known' = stored' /\ copy' = stored'
     ELSE UNCHANGED <<stored, changes, known, copy>>
  /\ UNCHANGED asking

Next == Other \/ Read \/ DeltaMeta \/ DeltaValue \/ Write

Spec == Init /\ [][Next]_vars
-----------------------------------------------------------------------------
(* Properties. *)

\* A conditional write replaces the content its client holds a copy of: hash and
\* copy may come from two reads, but not so that newer content is overwritten.
WritesReplaceWhatTheySaw == [][
  Write /\ changes' # changes => stored \in {Absent, copy} ]_vars

\* When memory_delta says unchanged, the client's copy is the committed content.
UnchangedIsTrue == answer = "unchanged" => copy = stored
=============================================================================
