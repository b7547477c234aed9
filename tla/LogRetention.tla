---------------------------- MODULE LogRetention ----------------------------
(***************************************************************************)
(* One append-only log category (store/log.rs): memory_append stamps an    *)
(* entry with the next id and the time, then prunes by age and by count.   *)
(* An append is one step here: it runs under the write lock, and module    *)
(* CategoryStore shows that such calls are atomic.                         *)
(*                                                                         *)
(* Ids grow in append order, so the array of entries is a set: the oldest  *)
(* entry is the one with the smallest id.  Time is counted in days.        *)
(***************************************************************************)
EXTENDS Integers, FiniteSets

CONSTANTS
  Server,     \* the processes that serve memory_append
  Caps,       \* max_entries that clients and imported logs name
  Days,       \* max_age_days that clients name: u64 values
  Wrap,       \* 2^64, scaled down: "as i64" folds the upper half to negatives
  Reach,      \* the longest span chrono can subtract from now
  Default,    \* max_entries of Retention::default()
  MaxTime,    \* bound: the last day of the clock
  MaxId,      \* bound: ids given out
  Absent, None

ASSUME LogAssumption ==
  /\ Caps \subseteq Nat
  /\ Wrap \in Nat /\ Days \subseteq 0 .. Wrap - 1
  /\ Reach \in Nat
  /\ Default \in Nat \ {0}
  /\ MaxTime \in Nat
  /\ MaxId \in Nat
  /\ None \notin Nat

VARIABLES
  log,        \* the category: absent, or its entries and recorded retention
  now,        \* the wall clock
  poisoned    \* processes whose store mutex is poisoned by a panic

vars == <<log, now, poisoned>>

Retention == [count : Caps \cup {Default, None}, age : Days \cup {None}]
Entry     == [id : Nat, ts : 0 .. MaxTime]
Log       == [entries : SUBSET Entry, retention : Retention]

ASSUME AbsentAssumption == Absent \notin Log

TypeOK ==
  /\ log \in Log \cup {Absent}
  /\ now \in 0 .. MaxTime
  /\ poisoned \subseteq Server

\* No log yet, or one brought by an import: empty or with an entry, with any
\* policy or none.
Imported == {{}} \cup {{e} : e \in [id : {0}, ts : 0 .. MaxTime]}

Init ==
  /\ log \in {Absent} \cup [entries : Imported, retention : Retention]
  /\ now \in 0 .. MaxTime
  /\ poisoned = {}

-----------------------------------------------------------------------------

Unbounded == [count |-> None, age |-> None]

Entries(l) == IF l = Absent THEN {} ELSE l.entries

Latest(es) == CHOOSE e \in es : \A f \in es : f.id <= e.id

\* Mutant: ids count the entries that are left.
NextIdByCount(es) == Cardinality(es)

NextId(es) == IF es = {} THEN 0 ELSE Latest(es).id + 1

\* days as i64
Signed(days) == IF 2 * days < Wrap THEN days ELSE days - Wrap

\* Mutant: max_entries = 0 is taken literally.
AtLeastOneUnguarded(max) == max

AtLeastOne(max) == IF max = 0 THEN 1 ELSE max

\* Mutant: the entries of the cutoff day go too.
YoungExclusive(es, age, t) == IF age = None THEN es ELSE {e \in es : e.ts > t - Signed(age)}

Young(es, age, t) == IF age = None THEN es ELSE {e \in es : e.ts >= t - Signed(age)}

\* Mutant: one entry more than the cap survives.
NewestOneMore(es, max) ==
  IF max = None THEN es
  ELSE {e \in es : Cardinality({f \in es : f.id > e.id}) <= AtLeastOne(max)}

Newest(es, max) ==
  IF max = None THEN es
  ELSE {e \in es : Cardinality({f \in es : f.id > e.id}) < AtLeastOne(max)}

\* Explicit override, else the stored policy if it caps anything, else the default.
Effective(l, override) ==
  IF override # Unbounded THEN override
  ELSE IF l # Absent /\ l.retention # Unbounded THEN l.retention
  ELSE [count |-> Default, age |-> None]

\* chrono::Duration::days, or the subtraction from now, is out of range.
Overflows(r) == r.age # None /\ (Signed(r.age) > Reach \/ Signed(r.age) < -Reach)

Pruned(es, r) == Newest(Young(es, r.age, now), r.count)

\* memory_append refuses max_entries = 0.
Override == {r \in Retention : r.count # 0}

Append(p) == \E override \in Override :
  LET r == Effective(log, override)
      e == [id |-> NextId(Entries(log)), ts |-> now]
  IN  /\ p \notin poisoned /\ e.id < MaxId
      /\ ~Overflows(r)
      /\ log' = [entries |-> Pruned(Entries(log) \cup {e}, r), retention |-> r]
      /\ UNCHANGED <<now, poisoned>>

\* The panic unwinds through the transaction, which rolls back, and through the
\* guard of the store mutex: every later call of this process is refused.
AppendPanics(p) == \E override \in Override :
  /\ p \notin poisoned
  /\ Overflows(Effective(log, override))
  /\ poisoned' = poisoned \cup {p}
  /\ UNCHANGED <<log, now>>

Delete(p) ==
  /\ p \notin poisoned
  /\ log # Absent
  /\ log' = Absent
  /\ UNCHANGED <<now, poisoned>>

\* The wall clock may also be set back.
Tick ==
  /\ now' \in 0 .. MaxTime
  /\ UNCHANGED <<log, poisoned>>

Restart(p) ==
  /\ p \in poisoned
  /\ poisoned' = poisoned \ {p}
  /\ UNCHANGED <<log, now>>

Next ==
  \/ \E p \in Server : Append(p) \/ AppendPanics(p) \/ Delete(p) \/ Restart(p)
  \/ Tick

Spec == Init /\ [][Next]_vars
-----------------------------------------------------------------------------
(* Properties. *)

\* No two entries of a log share an id.
IdsAreUnique == \A e, f \in Entries(log) : e.id = f.id => e = f

\* An append that goes through keeps the entry it adds, under a fresh id.
KeepsAppended == \E e \in log'.entries : e.id = NextId(Entries(log)) /\ e.ts = now

\* What log.rs says of every policy: "Never drop the entry that was just appended".
\* The code does, when the cast makes the age negative and the cutoff a future day.
AppendedIsKept == [][ log' # log /\ log' # Absent => KeepsAppended ]_vars

\* What holds: an append keeps its entry unless the age it prunes by is 2^63 days or
\* more; whatever the cap, an imported 0 included.
KeptUnlessAgeWraps == [][
  log' # log /\ log' # Absent /\ (log'.retention.age # None => 2 * log'.retention.age < Wrap)
    => KeepsAppended ]_vars

\* As long as a log lives no id is given out twice, whatever was pruned meanwhile.
IdsAreNeverReused == [][
  log # Absent /\ log' # Absent => NextId(log'.entries) >= NextId(log.entries) ]_vars

\* After an append the log obeys the policy recorded in it, which always caps.
RetentionIsEnforced == [][
  log' # log /\ log' # Absent =>
    LET r == log'.retention IN
    /\ r # Unbounded
    /\ r.count # None => Cardinality(log'.entries) <= AtLeastOne(r.count)
    /\ r.age # None => \A e \in log'.entries : e.ts >= now - r.age ]_vars

\* An append drops an entry only because it is older than the policy in force
\* allows, or because as many newer ones as the cap allows are kept.
PrunedOnlyForCause == [][
  log # Absent /\ log' # Absent /\ log' # log =>
    LET r == log'.retention IN
    \A e \in log.entries \ log'.entries :
      \/ r.age # None /\ e.ts < now - r.age
      \/ r.count # None /\ Cardinality({f \in log'.entries : f.id > e.id}) >= AtLeastOne(r.count) ]_vars
=============================================================================
