-------------------------- MODULE WriteTransaction --------------------------
(***************************************************************************)
(* One mutation of the store and its time (store/txn.rs): BEGIN IMMEDIATE  *)
(* and COMMIT are retried while SQLite is busy, within one budget that     *)
(* starts with BEGIN.  Every attempt lends SQLite's own busy handler what  *)
(* is left of the budget, at most sqlite_busy_timeout_ms.  Times count     *)
(* from the start of the call.  SQLite and the other processes, which take *)
(* the lock and keep it as long as they like, are the environment.         *)
(***************************************************************************)
EXTENDS Naturals

CONSTANTS
  Deadline,      \* storage.lock_deadline_ms
  BusyTimeout,   \* storage.sqlite_busy_timeout_ms
  MinPause,      \* BACKOFF_MIN
  MaxPause,      \* BACKOFF_MAX
  Journals,      \* values of storage.journal_mode in this instance
  MaxElapsed     \* bound: how long a call is observed

ASSUME TimesAssumption ==
  /\ Deadline \in Nat /\ BusyTimeout \in Nat
  /\ MinPause \in Nat \ {0} /\ MaxPause \in Nat
  /\ MinPause <= MaxPause
  /\ Journals \subseteq {"wal", "delete"}
  /\ MaxElapsed \in Nat

VARIABLES
  journal,   \* storage.journal_mode of this installation
  lock,      \* SQLite's write lock: "free", "other", "self"
  phase,     \* "idle", "begin", "open" (under the lock), "commit"
  step,      \* of a retry loop: "try", "statement", "asleep"
  elapsed,   \* since the call began
  until,     \* the deadline of the retry loop
  wake,      \* when the statement or the sleep under way ends at the latest
  pause,     \* the next backoff
  outcome    \* "busy" if the last call ended because SQLite stayed busy

loop  == <<step, until, wake, pause>>
tvars == <<journal, lock, phase, loop, elapsed, outcome>>

TxnTypeOK ==
  /\ journal \in Journals
  /\ lock    \in {"free", "other", "self"}
  /\ phase   \in {"idle", "begin", "open", "commit"}
  /\ step    \in {"try", "statement", "asleep"}
  /\ elapsed \in Nat /\ until \in Nat /\ wake \in Nat
  /\ pause   \in MinPause .. MaxPause
  /\ outcome \in {"none", "busy"}

TxnInit ==
  /\ journal \in Journals
  /\ lock = "free" /\ phase = "idle" /\ step = "try"
  /\ elapsed = 0 /\ until = 0 /\ wake = 0 /\ pause = MinPause
  /\ outcome = "none"

-----------------------------------------------------------------------------
(* retry_busy_on *)

Least(a, b) == IF a <= b THEN a ELSE b

Left == IF until > elapsed THEN until - elapsed ELSE 0

\* remaining_ms
Remaining == IF Deadline > elapsed THEN Deadline - elapsed ELSE 0

Waiting == phase \in {"begin", "commit"}

StartLoop(end) ==
  /\ step' = "try" /\ until' = end
  /\ wake' = 0 /\ pause' = MinPause

LoopEnds == StartLoop(0)

Unlocked == IF phase = "commit" THEN "free" ELSE lock

Ends(how) ==
  /\ phase' = "idle" /\ outcome' = how
  /\ LoopEnds /\ elapsed' = 0

\* Mutant: the busy handler keeps its configured value.
AttemptUncapped ==
  /\ Waiting /\ step = "try"
  /\ step' = "statement" /\ wake' = elapsed + BusyTimeout
  /\ UNCHANGED <<journal, lock, phase, until, pause, elapsed, outcome>>

\* The busy handler is capped, then the statement starts.
Attempt ==
  /\ Waiting /\ step = "try"
  /\ step' = "statement" /\ wake' = elapsed + Least(BusyTimeout, Left)
  /\ UNCHANGED <<journal, lock, phase, until, pause, elapsed, outcome>>

\* What SQLite answers: BEGIN IMMEDIATE waits for the lock, and in journal_mode=delete a
\* COMMIT for readers, who come and go.
Granted  == phase = "begin" => lock = "free"
Occupied == IF phase = "begin" THEN lock # "free" ELSE journal = "delete"

\* between 75 and 125 percent
Jitter(p) == (3 * p) \div 4 .. (5 * p) \div 4

\* Mutant: it gives up when the next pause would not fit.
StillBusyEarly ==
  /\ Waiting /\ step = "statement" /\ Occupied
  /\ IF elapsed + pause >= until
     THEN Ends("busy") /\ lock' = Unlocked
     ELSE /\ \E j \in Jitter(pause) : wake' = elapsed + Least(j, Left)
          /\ step' = "asleep" /\ pause' = Least(2 * pause, MaxPause)
          /\ UNCHANGED <<lock, phase, until, elapsed, outcome>>
  /\ UNCHANGED journal

\* Mutant: the deadline is not looked at.
StillBusyForever ==
  /\ Waiting /\ step = "statement" /\ Occupied
  /\ \E j \in Jitter(pause) : wake' = elapsed + Least(j, Left)
  /\ step' = "asleep" /\ pause' = Least(2 * pause, MaxPause)
  /\ UNCHANGED <<journal, lock, phase, until, elapsed, outcome>>

\* SQLITE_BUSY, when the handler ends or before. A COMMIT that gives up is rolled back.
StillBusy ==
  /\ Waiting /\ step = "statement" /\ Occupied
  /\ IF elapsed >= until
     THEN Ends("busy") /\ lock' = Unlocked
     ELSE /\ \E j \in Jitter(pause) : wake' = elapsed + Least(j, Left)
          /\ step' = "asleep" /\ pause' = Least(2 * pause, MaxPause)
          /\ UNCHANGED <<lock, phase, until, elapsed, outcome>>
  /\ UNCHANGED journal

Wakes ==
  /\ Waiting /\ step = "asleep" /\ elapsed >= wake
  /\ step' = "try"
  /\ UNCHANGED <<journal, lock, phase, until, wake, pause, elapsed, outcome>>

\* SQLITE_LOCKED or any other error is not retried; a transaction is rolled back.
StatementFails ==
  /\ Waiting /\ step = "statement"
  /\ Ends("none") /\ lock' = Unlocked
  /\ UNCHANGED journal

-----------------------------------------------------------------------------
(* WriteTxn *)

Begin ==
  /\ phase = "idle"
  /\ phase' = "begin" /\ elapsed' = 0 /\ outcome' = "none" /\ StartLoop(Deadline)
  /\ UNCHANGED <<journal, lock>>

Begun ==
  /\ phase = "begin" /\ step = "statement" /\ Granted
  /\ phase' = "open" /\ lock' = "self" /\ LoopEnds
  /\ UNCHANGED <<journal, elapsed, outcome>>

Commit ==
  /\ phase = "open"
  /\ phase' = "commit" /\ StartLoop(elapsed + Remaining)
  /\ UNCHANGED <<journal, lock, elapsed, outcome>>

Committed ==
  /\ phase = "commit" /\ step = "statement" /\ Granted
  /\ Ends("none") /\ lock' = "free"
  /\ UNCHANGED journal

\* An error or a refusal under the lock: Drop rolls back.
RolledBack ==
  /\ phase = "open"
  /\ Ends("none") /\ lock' = "free"
  /\ UNCHANGED journal

-----------------------------------------------------------------------------
(* The environment. *)

OtherTakes ==
  /\ lock = "free" /\ lock' = "other"
  /\ UNCHANGED <<journal, phase, loop, elapsed, outcome>>

OtherReleases ==
  /\ lock = "other" /\ lock' = "free"
  /\ UNCHANGED <<journal, phase, loop, elapsed, outcome>>

\* A process may be scheduled late: time passes the end of its waits, too.
Tick ==
  /\ phase # "idle" /\ elapsed < MaxElapsed
  /\ elapsed' = elapsed + 1
  /\ UNCHANGED <<journal, lock, phase, loop, outcome>>

Environment == OtherTakes \/ OtherReleases \/ Tick

Proceed == Attempt \/ StillBusy \/ Wakes \/ Begun \/ Committed

TxnNext ==
  Begin \/ Proceed \/ StatementFails \/ Commit \/ RolledBack \/ Environment

TxnSpec == TxnInit /\ [][TxnNext]_tvars
-----------------------------------------------------------------------------
(* Properties. *)

\* A statement or a sleep that begins ends within the budget of the whole call, BEGIN
\* and COMMIT together; beyond it a statement is tried once and does not wait.
WaitsAreBudgeted == [][
  Waiting /\ step' \in {"statement", "asleep"} /\ step' # step =>
    wake' <= Deadline \/ (step' = "statement" /\ wake' = elapsed) ]_tvars

\* Busy is reported only once the budget is used up, and in WAL mode only by a call that
\* never had the lock: what was done under the lock is not thrown away for its time.
BusyIsEarned == [][
  outcome' = "busy" /\ outcome # "busy" =>
    /\ elapsed >= Deadline
    /\ journal = "wal" => phase = "begin" ]_tvars
=============================================================================
