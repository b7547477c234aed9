------------------------- MODULE LogRetentionProofs -------------------------
(***************************************************************************)
(* What TLAPS proves of LogRetention: types, unique ids, and that pruning  *)
(* enforces the policy, whatever the policy; an append keeps what it adds  *)
(* unless its age wraps around; and when no client names such an age, ids  *)
(* are never reused and an entry is dropped only for cause.                *)
(***************************************************************************)
EXTENDS LogRetention, FiniteSetTheorems, WellFoundedInduction, TLAPS

\* The ages clients name are below 2^63 days.
SafeDays == \A d \in Days : 2 * d < Wrap

\* Some entry has the highest id: TLC's sets are finite, a proof needs it said.
HasLatest(es) == es = {} \/ \E e \in es : \A f \in es : f.id <= e.id

LogInv ==
  /\ TypeOK
  /\ IdsAreUnique
  /\ IsFiniteSet(Entries(log))
  /\ HasLatest(Entries(log))

\* The next id is a number above every id in use.
LEMMA NextIdIsFresh ==
  ASSUME NEW es, es \subseteq Entry, HasLatest(es)
  PROVE  NextId(es) \in Nat /\ \A e \in es : e.id < NextId(es)
<1>1. CASE es = {}
  BY <1>1 DEF NextId
<1>2. CASE es # {}
  <2>1. Latest(es) \in es /\ \A f \in es : f.id <= Latest(es).id
    BY <1>2 DEF HasLatest, Latest
  <2>2. QED
    BY <1>2, <2>1 DEF NextId, Entry
<1>3. QED
  BY <1>1, <1>2

\* An age that "as i64" leaves as it is.
InRange(age) == age # None => 2 * age < Wrap

\* Pruning never drops the latest entry when its time is not in the past.
LEMMA PruningKeepsLatest ==
  ASSUME now \in Nat, NEW r \in Retention, InRange(r.age),
         NEW es, es \subseteq Entry,
         NEW e \in es, e.ts = now, \A f \in es : f.id <= e.id
  PROVE  e \in Pruned(es, r)
<1>1. e \in Young(es, r.age, now)
  <2>1. CASE r.age = None
    BY <2>1 DEF Young
  <2>2. CASE r.age # None
    <3>1. r.age \in Nat /\ Signed(r.age) = r.age
      <4>1. r.age \in Days
        BY <2>2 DEF Retention
      <4>2. r.age \in Nat /\ 2 * r.age < Wrap
        <5>1. r.age \in 0 .. Wrap - 1 /\ Wrap \in Nat
          BY <4>1, LogAssumption
        <5>2. 2 * r.age < Wrap
          BY <2>2 DEF InRange
        <5>3. QED
          BY <5>1, <5>2
      <4>3. QED
        BY <4>2 DEF Signed
    <3>2. QED
      <4>1. e.ts >= now - r.age
        BY <3>1
      <4>2. QED
        BY <2>2, <3>1, <4>1 DEF Young
  <2>3. QED
    BY <2>1, <2>2
<1>2. CASE r.count = None
  BY <1>1, <1>2 DEF Pruned, Newest
<1>3. CASE r.count # None
  <2> DEFINE ys == Young(es, r.age, now)
  <2>1. ys \subseteq es
    BY DEF Young
  <2>2. {f \in ys : f.id > e.id} = {}
    BY <2>1 DEF Entry
  <2>3. Cardinality({f \in ys : f.id > e.id}) = 0
    BY <2>2, FS_EmptySet
  <2>4. r.count \in Nat
    BY <1>3, LogAssumption DEF Retention
  <2>5. 0 < AtLeastOne(r.count)
    BY <2>4 DEF AtLeastOne
  <2>6. e \in {g \in ys : Cardinality({f \in ys : f.id > g.id}) < AtLeastOne(r.count)}
    BY <1>1, <2>3, <2>5
  <2>7. QED
    BY <1>3, <2>6 DEF Pruned, Newest
<1>4. QED
  BY <1>2, <1>3

\* Pruning only removes entries.
LEMMA PruningRemoves ==
  ASSUME NEW es, NEW r PROVE Pruned(es, r) \subseteq es
BY DEF Pruned, Newest, Young

\* The entries of a set that are newer than one of them.
Newer(es, e) == {f \in es : f.id > e.id}

\* A set of numbers has a least one.
LEMMA LeastNumber ==
  ASSUME NEW T, T \subseteq Nat, T # {}
  PROVE  \E x \in T : \A y \in T : x <= y
<1>1. PICK x \in T : \A y \in T : <<y, x>> \notin OpToRel(<, Nat)
  BY NatLessThanWellFounded, WFMin
<1>2. \A y \in T : ~(y < x)
  BY <1>1 DEF OpToRel
<1>3. QED
  BY <1>2

\* So a set of entries has an oldest one, and a latest one when their ids are bounded.
LEMMA OldestExists ==
  ASSUME NEW es, es \subseteq Entry, es # {}
  PROVE  \E e \in es : \A f \in es : e.id <= f.id
<1> DEFINE T == {e.id : e \in es}
<1>1. T \subseteq Nat /\ T # {}
  BY DEF Entry
<1> HIDE DEF T
<1>2. PICK x \in T : \A y \in T : x <= y
  BY <1>1, LeastNumber
<1>3. QED
  BY <1>2 DEF T

LEMMA LatestExists ==
  ASSUME NEW es, es \subseteq Entry, es # {}, NEW m \in Nat, \A e \in es : e.id <= m
  PROVE  \E e \in es : \A f \in es : f.id <= e.id
<1> DEFINE T == {m - e.id : e \in es}
<1>1. T \subseteq Nat /\ T # {}
  BY DEF Entry
<1> HIDE DEF T
<1>2. PICK x \in T : \A y \in T : x <= y
  BY <1>1, LeastNumber
<1>3. PICK e \in es : x = m - e.id
  BY <1>2 DEF T
<1>4. \A f \in es : m - e.id <= m - f.id
  BY <1>2, <1>3 DEF T
<1>5. QED
  BY <1>4 DEF Entry

\* What max_entries keeps is never more than the cap.
LEMMA NewestIsCapped ==
  ASSUME NEW es, es \subseteq Entry, IsFiniteSet(es), \A e, f \in es : e.id = f.id => e = f,
         NEW max \in Nat
  PROVE  Cardinality(Newest(es, max)) <= AtLeastOne(max)
<1> DEFINE N == Newest(es, max)
<1>0. max # None /\ AtLeastOne(max) \in Nat \ {0}
  BY LogAssumption DEF AtLeastOne
<1>1. N = {e \in es : Cardinality(Newer(es, e)) < AtLeastOne(max)}
  BY <1>0 DEF Newest, Newer
<1> HIDE DEF N
<1>2. CASE N = {}
  BY <1>0, <1>2, FS_EmptySet DEF N
<1>3. CASE N # {}
  <2>1. PICK e \in N : \A f \in N : e.id <= f.id
    BY <1>1, <1>3, OldestExists
  <2>2. Newer(es, e) \subseteq es /\ e \in es
    BY <1>1 DEF Newer
  <2>3. IsFiniteSet(Newer(es, e)) /\ Cardinality(Newer(es, e)) \in Nat
    BY <2>2, FS_Subset, FS_CardinalityType
  <2>4. e \notin Newer(es, e)
    BY <2>2 DEF Newer, Entry
  <2>5. /\ IsFiniteSet(Newer(es, e) \cup {e})
        /\ Cardinality(Newer(es, e) \cup {e}) = Cardinality(Newer(es, e)) + 1
    BY <2>3, <2>4, FS_AddElement
  <2>6. N \subseteq Newer(es, e) \cup {e}
    <3> SUFFICES ASSUME NEW f \in N, f # e PROVE f.id > e.id /\ f \in es
      BY DEF Newer
    <3>1. f \in es /\ f.id \in Nat /\ e.id \in Nat
      BY <1>1, <2>2 DEF Entry
    <3>2. f.id # e.id
      BY <2>2, <3>1
    <3>3. QED
      BY <2>1, <3>1, <3>2
  <2>7. Cardinality(N) <= Cardinality(Newer(es, e)) + 1 /\ Cardinality(N) \in Nat
    BY <2>5, <2>6, FS_Subset, FS_CardinalityType
  <2>8. Cardinality(Newer(es, e)) < AtLeastOne(max)
    BY <1>1
  <2>9. QED
    BY <1>0, <2>3, <2>7, <2>8 DEF N
<1>4. QED
  BY <1>2, <1>3

\* An entry that max_entries drops has the whole cap of newer entries that are kept.
LEMMA DroppedForNewer ==
  ASSUME NEW es, es \subseteq Entry, IsFiniteSet(es), NEW m \in Nat, \A e \in es : e.id <= m,
         NEW max \in Nat, NEW f \in es \ Newest(es, max)
  PROVE  Cardinality(Newer(Newest(es, max), f)) >= AtLeastOne(max)
<1> DEFINE N == Newest(es, max)
           lost == es \ N
<1>0. max # None /\ AtLeastOne(max) \in Nat \ {0}
  BY LogAssumption DEF AtLeastOne
<1>1. N = {e \in es : Cardinality(Newer(es, e)) < AtLeastOne(max)}
  BY <1>0 DEF Newest, Newer
<1> HIDE DEF N
<1>2. PICK h \in lost : \A e \in lost : e.id <= h.id
  <2>1. f \in lost
    BY DEF N
  <2>2. lost \subseteq Entry /\ lost # {} /\ \A e \in lost : e.id <= m
    BY <2>1
  <2>3. QED
    BY <2>2, LatestExists
<1>3. h \in es /\ f \in lost /\ f.id <= h.id
  BY <1>2 DEF N
<1>4. \A e \in es : e.id \in Nat
  BY DEF Entry
<1>5. Newer(es, h) \subseteq Newer(N, f)
  BY <1>2, <1>3, <1>4 DEF Newer
<1>6. IsFiniteSet(Newer(N, f)) /\ IsFiniteSet(Newer(es, h))
  <2>1. Newer(N, f) \subseteq es /\ Newer(es, h) \subseteq es
    BY <1>1 DEF Newer
  <2>2. QED
    BY <2>1, FS_Subset
<1>7. Cardinality(Newer(es, h)) <= Cardinality(Newer(N, f))
  BY <1>5, <1>6, FS_Subset
<1>8. Cardinality(Newer(es, h)) \in Nat /\ Cardinality(Newer(N, f)) \in Nat
  BY <1>6, FS_CardinalityType
<1>9. Cardinality(Newer(es, h)) >= AtLeastOne(max)
  BY <1>0, <1>1, <1>2, <1>3, <1>8
<1>10. QED
  BY <1>0, <1>7, <1>8, <1>9 DEF N
\* One append records the policy that it has pruned by, and that policy caps something.
LEMMA AppendPrunes ==
  ASSUME LogInv, NEW p \in Server, Append(p)
  PROVE  \E r \in Retention :
           /\ r # Unbounded /\ now' = now
           /\ log' = [entries   |-> Pruned(Entries(log) \cup {[id |-> NextId(Entries(log)), ts |-> now]}, r),
                     retention |-> r]
<1>1. PICK o \in Override : LET r == Effective(log, o) IN
        /\ now' = now
        /\ log' = [entries   |-> Pruned(Entries(log) \cup {[id |-> NextId(Entries(log)), ts |-> now]}, r),
                  retention |-> r]
  BY DEF Append
<1>2. Effective(log, o) \in Retention
  BY DEF Effective, Override, Retention, LogInv, TypeOK, Log
<1>3. Effective(log, o) # Unbounded
  <2>1. [count |-> Default, age |-> None] # Unbounded
    BY LogAssumption DEF Unbounded
  <2>2. QED
    BY <2>1 DEF Effective
<1>4. QED
  BY <1>1, <1>2, <1>3

\* What one append does: it adds a fresh entry and nothing else, and keeps it if its
\* age is in range.
LEMMA AppendStep ==
  ASSUME LogInv, NEW p \in Server, Append(p)
  PROVE  LET e == [id |-> NextId(Entries(log)), ts |-> now] IN
         /\ log' \in Log
         /\ e \in Entry
         /\ InRange(log'.retention.age) => e \in log'.entries
         /\ log'.entries \subseteq Entries(log) \cup {e}
         /\ \A f \in Entries(log) : f.id < e.id
<1> DEFINE es == Entries(log)
<1> DEFINE e == [id |-> NextId(es), ts |-> now]
<1>1. es \subseteq Entry /\ HasLatest(es)
  BY DEF LogInv, TypeOK, Entries, Log
<1>2. e \in Entry /\ (\A f \in es : f.id < e.id)
  BY <1>1, NextIdIsFresh DEF LogInv, TypeOK, Entry
<1>3. PICK r \in Retention : log' = [entries |-> Pruned(es \cup {e}, r), retention |-> r]
  BY AppendPrunes
<1>4. \A f \in es \cup {e} : f.id <= e.id
  BY <1>1, <1>2 DEF Entry
<1>5. InRange(r.age) => e \in Pruned(es \cup {e}, r)
  BY <1>1, <1>2, <1>4, PruningKeepsLatest DEF LogInv, TypeOK, Entry
<1>6. Pruned(es \cup {e}, r) \subseteq es \cup {e}
  BY PruningRemoves
<1>7. log' \in Log
  BY <1>1, <1>2, <1>3, <1>6 DEF Log
<1>8. QED
  BY <1>2, <1>3, <1>5, <1>6, <1>7

\* When no age wraps, every append keeps its entry.
LEMMA SafeAppendKeeps ==
  ASSUME SafeDays, LogInv, NEW p \in Server, Append(p)
  PROVE  [id |-> NextId(Entries(log)), ts |-> now] \in log'.entries
<1>1. log'.retention \in Retention
  BY AppendStep DEF Log
<1>2. log'.retention.age # None => log'.retention.age \in Days
  BY <1>1 DEF Retention
<1>3. QED
  BY <1>2, AppendStep DEF InRange, SafeDays

\* A step other than an append leaves the log or deletes it.
LEMMA OtherSteps ==
  ASSUME [Next]_vars, ~ \E p \in Server : Append(p)
  PROVE  log' \in {log, Absent}
BY DEF Next, vars, AppendPanics, Delete, Restart, Tick

\* At most one entry, which is then the latest.
IsSmall(es) == \A e, f \in es : e = f /\ e.id \in Nat

LEMMA InitialLog ==
  ASSUME Init PROVE LogInv
<1>1. \A es \in Imported : es \in SUBSET Entry /\ IsSmall(es)
  BY LogAssumption DEF Imported, Entry, IsSmall
<1>2. CASE log = Absent
  <2>1. Entries(log) = {}
    BY <1>2 DEF Entries
  <2>2. QED
    BY <1>2, <2>1, FS_EmptySet DEF Init, LogInv, TypeOK, IdsAreUnique, HasLatest
<1>3. CASE log # Absent
  <2>1. PICK es \in Imported, r \in Retention : log = [entries |-> es, retention |-> r]
    BY <1>3 DEF Init
  <2>2. log \in Log /\ Entries(log) = es
    BY <1>1, <1>3, <2>1 DEF Log, Entries
  <2>3. IdsAreUnique /\ HasLatest(Entries(log))
    BY <1>1, <2>2 DEF IsSmall, IdsAreUnique, HasLatest, Imported
  <2>4. IsFiniteSet(Entries(log))
    <3>1. es = {} \/ \E f \in es : es = {f}
      BY DEF Imported
    <3>2. IsFiniteSet(es)
      <4>1. CASE es = {}
        BY <4>1, FS_EmptySet
      <4>2. CASE \E f \in es : es = {f}
        BY <4>2, FS_Singleton
      <4>3. QED
        BY <3>1, <4>1, <4>2
    <3>3. QED
      BY <2>2, <3>2
  <2>5. QED
    BY <2>2, <2>3, <2>4 DEF Init, LogInv, TypeOK
<1>4. QED
  BY <1>2, <1>3

LEMMA LogStep ==
  ASSUME LogInv, [Next]_vars PROVE LogInv'
<1>1. now' \in 0 .. MaxTime /\ poisoned' \subseteq Server
  BY DEF LogInv, TypeOK, Next, vars, Append, AppendPanics, Delete, Restart, Tick
<1>2. CASE \E p \in Server : Append(p)
  <2>1. PICK p \in Server : Append(p)
    BY <1>2
  <2> DEFINE e == [id |-> NextId(Entries(log)), ts |-> now]
  <2>2. /\ log' \in Log
        /\ e \in Entry
        /\ log'.entries \subseteq Entries(log) \cup {e}
        /\ \A f \in Entries(log) : f.id < e.id
    BY <2>1, AppendStep
  <2>3. log' # Absent /\ Entries(log)' = log'.entries
    BY <2>2, AbsentAssumption DEF Entries
  <2>4. Entries(log) \subseteq Entry
    BY DEF LogInv, TypeOK, Entries, Log
  <2>5. \A f, g \in log'.entries : f.id = g.id => f = g
    BY <2>2, <2>4 DEF LogInv, IdsAreUnique, Entry
  <2>6. HasLatest(log'.entries)
    <3>1. e.id \in Nat /\ log'.entries \subseteq Entry /\ \A f \in log'.entries : f.id <= e.id
      BY <2>2, <2>4 DEF Entry
    <3>2. QED
      BY <3>1, LatestExists DEF HasLatest
  <2>7. IsFiniteSet(Entries(log)')
    <3>1. IsFiniteSet(Entries(log) \cup {e})
      BY FS_AddElement DEF LogInv
    <3>2. QED
      BY <2>2, <2>3, <3>1, FS_Subset
  <2>8. QED
    BY <1>1, <2>2, <2>3, <2>5, <2>6, <2>7 DEF LogInv, TypeOK, IdsAreUnique
<1>3. CASE ~ \E p \in Server : Append(p)
  <2>1. log' \in {log, Absent}
    BY <1>3, OtherSteps
  <2>2. QED
    BY <1>1, <2>1, FS_EmptySet DEF LogInv, TypeOK, IdsAreUnique, HasLatest, Entries
<1>4. QED
  BY <1>2, <1>3

\* The invariant of a log, for every policy.
THEOREM LogInvariant == Spec => []LogInv
<1>1. Init => LogInv
  BY InitialLog
<1>2. LogInv /\ [Next]_vars => LogInv'
  BY LogStep
<1>3. QED
  BY <1>1, <1>2, PTL DEF Spec

\* No two entries of a log ever share an id.
THEOREM UniqueIds == Spec => []IdsAreUnique
<1>1. LogInv => IdsAreUnique
  BY DEF LogInv
<1>2. QED
  BY <1>1, LogInvariant, PTL

\* An append keeps the entry it adds, under a fresh id, unless its age is 2^63 days or
\* more (log.rs: "a log always retains at least its newest entry").
THEOREM AppendsAreKept == Spec => KeptUnlessAgeWraps
<1>1. ASSUME LogInv, [Next]_vars
      PROVE  [log' # log /\ log' # Absent
                /\ (log'.retention.age # None => 2 * log'.retention.age < Wrap)
                => KeepsAppended]_vars
  <2>1. CASE \E p \in Server : Append(p)
    BY <2>1, <1>1, AppendStep DEF InRange, KeepsAppended
  <2>2. CASE ~ \E p \in Server : Append(p)
    BY <2>2, <1>1, OtherSteps
  <2>3. QED
    BY <2>1, <2>2
<1>2. QED
  BY <1>1, LogInvariant, PTL DEF Spec, KeptUnlessAgeWraps

\* As long as a log lives its next id never falls: ids are not reused after pruning.
THEOREM IdsOnlyGrow ==
  ASSUME SafeDays PROVE Spec => IdsAreNeverReused
<1>1. ASSUME LogInv, LogInv', [Next]_vars
      PROVE  [log # Absent /\ log' # Absent =>
                NextId(log'.entries) >= NextId(log.entries)]_vars
  <2>1. SUFFICES ASSUME log # Absent, log' # Absent
                 PROVE  NextId(log'.entries) >= NextId(log.entries)
    OBVIOUS
  <2>2. /\ log.entries \subseteq Entry /\ HasLatest(log.entries)
        /\ log'.entries \subseteq Entry /\ HasLatest(log'.entries)
    BY <1>1, <2>1 DEF LogInv, TypeOK, Log, Entries
  <2>3. /\ NextId(log.entries) \in Nat /\ NextId(log'.entries) \in Nat
        /\ \A e \in log'.entries : e.id < NextId(log'.entries)
    BY <2>2, NextIdIsFresh
  <2>4. CASE \E p \in Server : Append(p)
    <3>1. \E e \in log'.entries : e.id = NextId(log.entries)
      BY <1>1, <2>1, <2>4, SafeAppendKeeps DEF Entries
    <3>2. QED
      BY <2>3, <3>1
  <2>5. CASE ~ \E p \in Server : Append(p)
    <3>1. log' = log
      BY <1>1, <2>1, <2>5, OtherSteps
    <3>2. QED
      BY <2>3, <3>1
  <2>6. QED
    BY <2>4, <2>5
<1>2. QED
  BY <1>1, LogInvariant, PTL DEF Spec, IdsAreNeverReused

\* Below 2^63 days, max_age_days keeps the entries of its last days and no others.
LEMMA YoungByAge ==
  ASSUME SafeDays, NEW r \in Retention, r.age # None, NEW es, NEW t
  PROVE  Young(es, r.age, t) = {e \in es : e.ts >= t - r.age}
<1>1. r.age \in Days /\ 2 * r.age < Wrap
  BY DEF Retention, SafeDays
<1>2. Signed(r.age) = r.age
  BY <1>1 DEF Signed
<1>3. QED
  BY <1>2 DEF Young

\* What one append prunes from: the entries that were there and the new one.
LEMMA Candidates ==
  ASSUME LogInv
  PROVE  LET e  == [id |-> NextId(Entries(log)), ts |-> now]
             es == Entries(log) \cup {e}
         IN  /\ es \subseteq Entry /\ IsFiniteSet(es)
             /\ \A f, g \in es : f.id = g.id => f = g
             /\ NextId(Entries(log)) \in Nat /\ \A f \in es : f.id <= NextId(Entries(log))
<1> DEFINE e == [id |-> NextId(Entries(log)), ts |-> now]
<1>1. Entries(log) \subseteq Entry /\ HasLatest(Entries(log)) /\ IsFiniteSet(Entries(log))
  BY DEF LogInv, TypeOK, Entries, Log
<1>2. e \in Entry /\ \A f \in Entries(log) : f.id < e.id
  BY <1>1, NextIdIsFresh DEF LogInv, TypeOK, Entry
<1>3. IsFiniteSet(Entries(log) \cup {e})
  BY <1>1, FS_AddElement
<1>4. \A f, g \in Entries(log) \cup {e} : f.id = g.id => f = g
  BY <1>1, <1>2 DEF LogInv, IdsAreUnique, Entry
<1>5. e.id = NextId(Entries(log)) /\ e.id \in Nat
  BY <1>2 DEF Entry
<1>6. QED
  BY <1>1, <1>2, <1>3, <1>4, <1>5 DEF Entry

\* After an append the log obeys the policy recorded in it, which always caps (log.rs,
\* "prune by age, then by count").
THEOREM RetentionHolds ==
  ASSUME SafeDays PROVE Spec => RetentionIsEnforced
<1>1. ASSUME LogInv, NEW p \in Server, Append(p)
      PROVE  LET r == log'.retention IN
             /\ r # Unbounded
             /\ r.count # None => Cardinality(log'.entries) <= AtLeastOne(r.count)
             /\ r.age # None => \A e \in log'.entries : e.ts >= now - r.age
  <2> DEFINE es == Entries(log) \cup {[id |-> NextId(Entries(log)), ts |-> now]}
  <2>1. PICK r \in Retention : r # Unbounded /\ log' = [entries |-> Pruned(es, r), retention |-> r]
    BY <1>1, AppendPrunes
  <2>2. es \subseteq Entry /\ IsFiniteSet(es) /\ \A f, g \in es : f.id = g.id => f = g
    BY <1>1, Candidates
  <2> HIDE DEF es
  <2> DEFINE ys == Young(es, r.age, now)
  <2>3. ys \subseteq es
    BY DEF Young
  <2>4. IsFiniteSet(ys) /\ ys \subseteq Entry /\ \A f, g \in ys : f.id = g.id => f = g
    BY <2>2, <2>3, FS_Subset
  <2>5. log'.entries = Newest(ys, r.count) /\ log'.retention = r
    BY <2>1 DEF Pruned
  <2>6. r.count # None => Cardinality(log'.entries) <= AtLeastOne(r.count)
    <3>1. r.count # None => r.count \in Nat
      BY LogAssumption DEF Retention
    <3> HIDE DEF ys
    <3>2. QED
      BY <2>4, <2>5, <3>1, NewestIsCapped
  <2>7. r.age # None => \A e \in log'.entries : e.ts >= now - r.age
    <3>1. log'.entries \subseteq ys
      BY <2>5 DEF Newest
    <3>2. r.age # None => ys = {e \in es : e.ts >= now - r.age}
      BY YoungByAge
    <3>3. QED
      BY <3>1, <3>2
  <2>8. QED
    BY <2>1, <2>5, <2>6, <2>7
<1>2. ASSUME LogInv, [Next]_vars
      PROVE  [log' # log /\ log' # Absent =>
                LET r == log'.retention IN
                /\ r # Unbounded
                /\ r.count # None => Cardinality(log'.entries) <= AtLeastOne(r.count)
                /\ r.age # None => \A e \in log'.entries : e.ts >= now - r.age ]_vars
  BY <1>1, <1>2, OtherSteps
<1>3. QED
  BY <1>2, LogInvariant, PTL DEF Spec, RetentionIsEnforced

\* An append drops an entry only because it is too old, or because as many newer ones as
\* the cap allows are kept (log.rs, prune: the age first, then the count).
THEOREM PruningHasCause ==
  ASSUME SafeDays PROVE Spec => PrunedOnlyForCause
<1>1. ASSUME LogInv, log # Absent, NEW p \in Server, Append(p), NEW e \in log.entries \ log'.entries
      PROVE  LET r == log'.retention IN
             \/ r.age # None /\ e.ts < now - r.age
             \/ r.count # None /\ Cardinality({f \in log'.entries : f.id > e.id}) >= AtLeastOne(r.count)
  <2> DEFINE es == Entries(log) \cup {[id |-> NextId(Entries(log)), ts |-> now]}
             m  == NextId(Entries(log))
  <2>1. PICK r \in Retention : log' = [entries |-> Pruned(es, r), retention |-> r]
    BY <1>1, AppendPrunes
  <2>2. es \subseteq Entry /\ IsFiniteSet(es) /\ m \in Nat /\ \A f \in es : f.id <= m
    BY <1>1, Candidates
  <2>3. e \in es
    BY <1>1 DEF Entries
  <2> HIDE DEF es, m
  <2> DEFINE ys == Young(es, r.age, now)
  <2>4. log'.entries = Newest(ys, r.count) /\ log'.retention = r
    BY <2>1 DEF Pruned
  <2>5. CASE e \notin ys
    <3>1. r.age # None
      BY <2>3, <2>5 DEF Young
    <3>2. ~(e.ts >= now - r.age) /\ r.age \in Nat
      <4>1. r.age \in Nat
        <5>1. r.age \in Days
          BY <3>1 DEF Retention
        <5>2. r.age \in 0 .. Wrap - 1
          BY <5>1, LogAssumption
        <5>3. QED
          BY <5>2
      <4>2. QED
        BY <2>3, <2>5, <3>1, <4>1, YoungByAge
    <3>3. e.ts \in Int /\ now \in Int
      BY <1>1, <2>2, <2>3 DEF Entry, LogInv, TypeOK
    <3>4. QED
      BY <2>4, <3>1, <3>2, <3>3
  <2>6. CASE e \in ys
    <3>1. ys \subseteq es
      BY DEF Young
    <3>2. IsFiniteSet(ys) /\ ys \subseteq Entry /\ \A f \in ys : f.id <= m
      BY <2>2, <3>1, FS_Subset
    <3> HIDE DEF ys
    <3>3. e \in ys \ Newest(ys, r.count)
      BY <1>1, <2>4, <2>6
    <3>4. r.count # None
      BY <3>3 DEF Newest
    <3>5. r.count \in Nat
      BY <3>4, LogAssumption DEF Retention
    <3>6. Cardinality(Newer(Newest(ys, r.count), e)) >= AtLeastOne(r.count)
      BY <2>2, <3>2, <3>3, <3>5, DroppedForNewer
    <3>7. QED
      BY <2>4, <3>4, <3>6 DEF Newer
  <2>7. QED
    BY <2>5, <2>6
<1>2. ASSUME LogInv, [Next]_vars
      PROVE  [log # Absent /\ log' # Absent /\ log' # log =>
                LET r == log'.retention IN
                \A e \in log.entries \ log'.entries :
                  \/ r.age # None /\ e.ts < now - r.age
                  \/ r.count # None /\ Cardinality({f \in log'.entries : f.id > e.id}) >= AtLeastOne(r.count) ]_vars
  BY <1>1, <1>2, OtherSteps
<1>3. QED
  BY <1>2, LogInvariant, PTL DEF Spec, PrunedOnlyForCause
=============================================================================
