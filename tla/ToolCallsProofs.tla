--------------------------- MODULE ToolCallsProofs ---------------------------
(***************************************************************************)
(* Theorems about ToolCalls for every configuration, any number of         *)
(* categories, contents and changes, and about what it is built from: the  *)
(* rules of AccessControl, the manifests of SyncManifest and               *)
(* WriteTransaction.  What the server does with SQLite's lock is           *)
(* WriteTransaction, and what it is to a client that keeps a copy is       *)
(* DeltaPolling.                                                           *)
(***************************************************************************)
EXTENDS ToolCalls, SyncManifest, Integers, FiniteSetTheorems, TLAPS

-----------------------------------------------------------------------------
(* Who may write a category. *)


(* The first rule that applies is the one Deciding chooses. *)
LEMMA FirstDecides ==
  ASSUME NEW c, NEW d, NEW i \in 1 .. 7,
         Rules(c, d)[i].if, \A j \in 1 .. i - 1 : ~Rules(c, d)[j].if
  PROVE  Deciding(c, d) = i
<1> DEFINE First(k) == Rules(c, d)[k].if /\ \A j \in 1 .. k - 1 : ~Rules(c, d)[j].if
<1>1. First(i)
  OBVIOUS
<1>2. \A k \in 1 .. 7 : First(k) => k = i
  <2>1. SUFFICES ASSUME NEW k \in 1 .. 7, First(k)  PROVE k = i
    OBVIOUS
  <2>2. ~(k < i)
    BY <2>1
  <2>3. ~(i < k)
    BY <2>1
  <2> QED
    BY <2>2, <2>3
<1> HIDE DEF First
<1>3. (CHOOSE k \in 1 .. 7 : First(k)) = i
  BY <1>1, <1>2
<1> QED
  BY <1>3 DEF Deciding, First

(* When each rule applies. *)
LEMMA RuleConditions ==
  ASSUME NEW c, NEW d
  PROVE  /\ Rules(c, d)[1].if <=> c \in Reserved
         /\ Rules(c, d)[2].if <=> d \in Admins
         /\ Rules(c, d)[3].if <=> c \in Base
         /\ Rules(c, d)[4].if <=> c \in Registered
         /\ Rules(c, d)[5].if <=> c \in Workflow
         /\ Rules(c, d)[6].if <=> c \in Scope[d]
         /\ Rules(c, d)[7].if
BY DEF Rules

(* What each rule decides. *)
LEMMA RuleOutcomes ==
  ASSUME NEW c, NEW d
  PROVE  /\ ~Rules(c, d)[1].allow /\ Rules(c, d)[2].allow /\ ~Rules(c, d)[3].allow
         /\ Rules(c, d)[4].allow = (c = d)
         /\ Rules(c, d)[5].allow = OwnWorkflow(c, d)
         /\ Rules(c, d)[6].allow /\ ~Rules(c, d)[7].allow
<1>1. ~Rules(c, d)[1].allow /\ Rules(c, d)[2].allow /\ ~Rules(c, d)[3].allow
  BY DEF Rules
<1>2. Rules(c, d)[4].allow = (c = d)
  BY DEF Rules
<1>3. Rules(c, d)[5].allow = OwnWorkflow(c, d)
  BY DEF Rules
<1>4. Rules(c, d)[6].allow /\ ~Rules(c, d)[7].allow
  BY DEF Rules
<1> QED
  BY <1>1, <1>2, <1>3, <1>4

(* What the list of rules comes to. *)
LEMMA Decision ==
  ASSUME NEW c, NEW d
  PROVE  Authorized(c, d) <=>
           /\ c \notin Reserved
           /\ \/ d \in Admins
              \/ /\ c \notin Base
                 /\ IF c \in Registered THEN c = d
                    ELSE IF c \in Workflow THEN OwnWorkflow(c, d)
                    ELSE c \in Scope[d]
<1>1. CASE c \in Reserved
  <2>1. Rules(c, d)[1].if
    BY <1>1, RuleConditions
  <2>2. \A j \in 1 .. 0 : ~Rules(c, d)[j].if
    OBVIOUS
  <2>3. Deciding(c, d) = 1
    BY <2>1, <2>2, FirstDecides
  <2> QED
    BY <1>1, <2>3, RuleOutcomes DEF Authorized
<1>2. CASE c \notin Reserved /\ d \in Admins
  <2>1. Rules(c, d)[2].if
    BY <1>2, RuleConditions
  <2>2. \A j \in 1 .. 1 : j = 1
    OBVIOUS
  <2>3. \A j \in 1 .. 1 : ~Rules(c, d)[j].if
    BY <1>2, <2>2, RuleConditions
  <2>4. Deciding(c, d) = 2
    BY <2>1, <2>3, FirstDecides
  <2> QED
    BY <1>2, <2>4, RuleOutcomes DEF Authorized
<1>3. CASE c \notin Reserved /\ d \notin Admins /\ c \in Base
  <2>1. Rules(c, d)[3].if
    BY <1>3, RuleConditions
  <2>2. \A j \in 1 .. 2 : j = 1 \/ j = 2
    OBVIOUS
  <2>3. \A j \in 1 .. 2 : ~Rules(c, d)[j].if
    BY <1>3, <2>2, RuleConditions
  <2>4. Deciding(c, d) = 3
    BY <2>1, <2>3, FirstDecides
  <2> QED
    BY <1>3, <2>4, RuleOutcomes DEF Authorized
<1>4. CASE /\ c \notin Reserved /\ d \notin Admins /\ c \notin Base
           /\ c \in Registered
  <2>1. Rules(c, d)[4].if
    BY <1>4, RuleConditions
  <2>2. \A j \in 1 .. 3 : j = 1 \/ j = 2 \/ j = 3
    OBVIOUS
  <2>3. \A j \in 1 .. 3 : ~Rules(c, d)[j].if
    BY <1>4, <2>2, RuleConditions
  <2>4. Deciding(c, d) = 4
    BY <2>1, <2>3, FirstDecides
  <2> QED
    BY <1>4, <2>4, RuleOutcomes DEF Authorized
<1>5. CASE /\ c \notin Reserved /\ d \notin Admins /\ c \notin Base
           /\ c \notin Registered /\ c \in Workflow
  <2>1. Rules(c, d)[5].if
    BY <1>5, RuleConditions
  <2>2. \A j \in 1 .. 4 : j = 1 \/ j = 2 \/ j = 3 \/ j = 4
    OBVIOUS
  <2>3. \A j \in 1 .. 4 : ~Rules(c, d)[j].if
    BY <1>5, <2>2, RuleConditions
  <2>4. Deciding(c, d) = 5
    BY <2>1, <2>3, FirstDecides
  <2> QED
    BY <1>5, <2>4, RuleOutcomes DEF Authorized
<1>6. CASE /\ c \notin Reserved /\ d \notin Admins /\ c \notin Base
           /\ c \notin Registered /\ c \notin Workflow /\ c \in Scope[d]
  <2>1. Rules(c, d)[6].if
    BY <1>6, RuleConditions
  <2>2. \A j \in 1 .. 5 : j = 1 \/ j = 2 \/ j = 3 \/ j = 4 \/ j = 5
    OBVIOUS
  <2>3. \A j \in 1 .. 5 : ~Rules(c, d)[j].if
    BY <1>6, <2>2, RuleConditions
  <2>4. Deciding(c, d) = 6
    BY <2>1, <2>3, FirstDecides
  <2> QED
    BY <1>6, <2>4, RuleOutcomes DEF Authorized
<1>7. CASE /\ c \notin Reserved /\ d \notin Admins /\ c \notin Base
           /\ c \notin Registered /\ c \notin Workflow /\ c \notin Scope[d]
  <2>1. Rules(c, d)[7].if
    BY <1>7, RuleConditions
  <2>2. \A j \in 1 .. 6 : j = 1 \/ j = 2 \/ j = 3 \/ j = 4 \/ j = 5 \/ j = 6
    OBVIOUS
  <2>3. \A j \in 1 .. 6 : ~Rules(c, d)[j].if
    BY <1>7, <2>2, RuleConditions
  <2>4. Deciding(c, d) = 7
    BY <2>1, <2>3, FirstDecides
  <2> QED
    BY <1>7, <2>4, RuleOutcomes DEF Authorized
<1> QED
  BY <1>1, <1>2, <1>3, <1>4, <1>5, <1>6, <1>7

(* Nobody writes a reserved category and only administrators a base category, however  *)
(* else the configuration lists their names.                                           *)
THEOREM ReservedAndBaseAreProtected ==
  ASSUME NEW c, NEW d, Authorized(c, d)
  PROVE  c \notin Reserved /\ (c \in Base => d \in Admins)
BY Decision

(* Authorization fails closed: what no rule gives to a device it does not get. *)
THEOREM OnlyOwnNames ==
  ASSUME NEW c, NEW d, d \notin Admins, Authorized(c, d)
  PROVE  (c \in Registered /\ c = d) \/ OwnWorkflow(c, d) \/ c \in Scope[d]
BY Decision

(* No two devices, administrators apart, may write the same category unless both have  *)
(* it in the scope of their agents' names: device and workflow categories have one     *)
(* writer, although nothing keeps a device from being registered under a name that     *)
(* is also a workflow or in another's scope.                                           *)
THEOREM DevicesAreSeparate ==
  ASSUME NEW c, NEW d, NEW e, d # e, d \notin Admins, e \notin Admins,
         Authorized(c, d), Authorized(c, e)
  PROVE  c \in Scope[d] \cap Scope[e] /\ c \notin Registered \cup Workflow
<1>1. c \notin Registered
  BY Decision
<1>2. c \notin Workflow
  BY <1>1, Decision DEF OwnWorkflow
<1> QED
  BY <1>1, <1>2, Decision

(* A registered device may write the category of its own name, and its own workflow,   *)
(* unless the name is reserved or a base category.                                     *)
THEOREM OwnersMayWrite ==
  ASSUME NEW c, NEW d, d \in Registered, c \notin Reserved, c \notin Base,
         c = d \/ (c \notin Registered /\ OwnWorkflow(c, d))
  PROVE  Authorized(c, d)
BY Decision DEF OwnWorkflow

-----------------------------------------------------------------------------
(* What two stores have to exchange. *)

(* Every category of either store is in exactly one of the four lists of a diff. *)
THEOREM DiffIsPartition ==
  ASSUME NEW local \in Stores, NEW remote \in Stores
  PROVE  /\ DOMAIN local \cup DOMAIN remote =
              ToPull(local, remote) \cup ToPush(local, remote)
                \cup Conflicts(local, remote) \cup Unchanged(local, remote)
         /\ ToPull(local, remote) \cap ToPush(local, remote) = {}
         /\ (ToPull(local, remote) \cup ToPush(local, remote))
              \cap (Conflicts(local, remote) \cup Unchanged(local, remote)) = {}
         /\ Conflicts(local, remote) \cap Unchanged(local, remote) = {}
BY DEF ToPull, ToPush, Conflicts, Unchanged

(* The leaves of a manifest determine the store it describes. *)
LEMMA LeavesAreFaithful ==
  ASSUME NEW local \in Stores, NEW remote \in Stores, Leaves(local) = Leaves(remote)
  PROVE  local = remote
<1>1. \A s \in Stores : \A n \in DOMAIN s : n \in Names /\ s[n] \in Hashes
  BY DEF Stores
<1>2. ASSUME NEW s \in Stores, NEW t \in Stores, Leaves(s) = Leaves(t), NEW n \in DOMAIN s
      PROVE  n \in DOMAIN t /\ s[n] = t[n]
  <2>1. Leaf[<<n, s[n]>>] \in Leaves(t)
    BY <1>2 DEF Leaves
  <2>2. PICK k \in DOMAIN t : Leaf[<<n, s[n]>>] = Leaf[<<k, t[k]>>]
    BY <2>1 DEF Leaves
  <2>3. <<n, s[n]>> \in Names \X Hashes /\ <<k, t[k]>> \in Names \X Hashes
    BY <1>1
  <2>4. <<n, s[n]>> = <<k, t[k]>>
    BY <2>2, <2>3, DigestAssumption
  <2> QED
    BY <2>4
<1>3. DOMAIN local = DOMAIN remote
  BY <1>2
<1>4. \A n \in DOMAIN local : local[n] = remote[n]
  BY <1>2
<1>5. local = [n \in DOMAIN local |-> local[n]] /\ remote = [n \in DOMAIN remote |-> remote[n]]
  BY DEF Stores
<1> QED
  BY <1>3, <1>4, <1>5

(* Two stores have the same Merkle root exactly when they are the same. *)
LEMMA RootsAreFaithful ==
  ASSUME NEW local \in Stores, NEW remote \in Stores
  PROVE  MerkleRoot(local) = MerkleRoot(remote) <=> local = remote
<1>1. \A s \in Stores : Leaves(s) \in SUBSET {Leaf[a] : a \in Names \X Hashes}
  <2>1. SUFFICES ASSUME NEW s \in Stores, NEW n \in DOMAIN s
                 PROVE  Leaf[<<n, s[n]>>] \in {Leaf[a] : a \in Names \X Hashes}
    BY DEF Leaves
  <2>2. n \in Names /\ s[n] \in Hashes
    BY DEF Stores
  <2> QED
    BY <2>2
<1>2. \A s \in Stores : Digest[Leaves(s)] # NoEntries
  BY <1>1, DigestAssumption
<1>3. ASSUME MerkleRoot(local) = MerkleRoot(remote)  PROVE local = remote
  <2>1. CASE DOMAIN local = {} \/ DOMAIN remote = {}
    <3>1. DOMAIN local = {} /\ DOMAIN remote = {}
      BY <1>2, <1>3, <2>1 DEF MerkleRoot
    <3>2. Leaves(local) = Leaves(remote)
      BY <3>1 DEF Leaves
    <3> QED
      BY <3>2, LeavesAreFaithful
  <2>2. CASE DOMAIN local # {} /\ DOMAIN remote # {}
    <3>1. Digest[Leaves(local)] = Digest[Leaves(remote)]
      BY <1>3, <2>2 DEF MerkleRoot
    <3>2. Leaves(local) = Leaves(remote)
      BY <3>1, <1>1, DigestAssumption
    <3> QED
      BY <3>2, LeavesAreFaithful
  <2> QED
    BY <2>1, <2>2
<1> QED
  BY <1>3

(* sync_diff calls two stores identical exactly when there is nothing to exchange. *)
THEOREM IdenticalIsNothingToDo ==
  ASSUME NEW local \in Stores, NEW remote \in Stores
  PROVE  Identical(local, remote) <=>
           ToPull(local, remote) \cup ToPush(local, remote) \cup Conflicts(local, remote) = {}
<1>1. Identical(local, remote) <=> local = remote
  BY RootsAreFaithful DEF Identical
<1>2. ASSUME local = remote
      PROVE  ToPull(local, remote) \cup ToPush(local, remote) \cup Conflicts(local, remote) = {}
  BY <1>2 DEF ToPull, ToPush, Conflicts
<1>3. ASSUME ToPull(local, remote) \cup ToPush(local, remote) \cup Conflicts(local, remote) = {}
      PROVE  local = remote
  <2>1. DOMAIN local = DOMAIN remote
    BY <1>3 DEF ToPull, ToPush
  <2>2. \A n \in DOMAIN local : local[n] = remote[n]
    BY <1>3, <2>1 DEF Conflicts
  <2>3. local = [n \in DOMAIN local |-> local[n]] /\ remote = [n \in DOMAIN remote |-> remote[n]]
    BY DEF Stores
  <2> QED
    BY <2>1, <2>2, <2>3
<1> QED
  BY <1>1, <1>2, <1>3

-----------------------------------------------------------------------------
(* The write transaction: for every deadline, timeout and backoff, and however others
   use the lock, a call waits within its one budget and gives up only when that is
   used up. *)

(* A retry loop ends no earlier than the deadline, and no later if it can still wait. *)
Budgeted == Waiting => until >= Deadline /\ (until = Deadline \/ until <= elapsed)

(* SQLite's lock is this call's from BEGIN to COMMIT or rollback. *)
LockedInside == lock = "self" <=> phase \in {"open", "commit"}

TxnInv == TxnTypeOK /\ Budgeted /\ LockedInside

LEMMA LeastIsLower ==
  ASSUME NEW a \in Nat, NEW b \in Nat
  PROVE  Least(a, b) \in Nat /\ Least(a, b) <= a /\ Least(a, b) <= b
BY DEF Least

LEMMA LeftIsNat ==
  ASSUME TxnTypeOK  PROVE Left \in Nat
BY DEF TxnTypeOK, Left

(* A jittered pause is a time. *)
LEMMA JitterIsNat ==
  ASSUME NEW p \in Nat, NEW j \in Jitter(p)  PROVE j \in Nat
<1>1. 3 * p \in Nat /\ j \in (3 * p) \div 4 .. (5 * p) \div 4
  BY DEF Jitter
<1>2. (3 * p) \div 4 \in Nat
  BY <1>1, SMT
<1>3. (5 * p) \div 4 \in Int
  BY SMT
<1> QED
  BY <1>1, <1>2, <1>3

LEMMA InitTxn ==
  TxnInit => TxnInv
BY TimesAssumption DEF TxnInit, TxnInv, TxnTypeOK, Budgeted, Waiting, LockedInside

-----------------------------------------------------------------------------
(* One lemma per step. *)

LEMMA AttemptKeeps ==
  ASSUME TxnInv, Attempt  PROVE TxnInv'
<1>1. elapsed + Least(BusyTimeout, Left) \in Nat
  BY LeastIsLower, LeftIsNat, TimesAssumption DEF TxnInv, TxnTypeOK
<1> QED
  BY <1>1 DEF Attempt, TxnInv, TxnTypeOK, Budgeted, Waiting, LockedInside

LEMMA EndsKeeps ==
  ASSUME TxnInv, NEW how \in {"none", "busy"}, Ends(how), lock' = Unlocked, journal' = journal, Waiting
  PROVE  TxnInv'
<1>1. TxnTypeOK'
  BY TimesAssumption DEF TxnInv, TxnTypeOK, Ends, LoopEnds, StartLoop, Unlocked
<1>2. Budgeted' /\ LockedInside'
  BY DEF TxnInv, TxnTypeOK, Ends, Unlocked, Budgeted, LockedInside, Waiting
<1> QED
  BY <1>1, <1>2 DEF TxnInv

LEMMA StillBusyKeeps ==
  ASSUME TxnInv, StillBusy  PROVE TxnInv'
<1>1. CASE elapsed >= until
  BY <1>1, EndsKeeps DEF StillBusy
<1>2. CASE ~(elapsed >= until)
  <2>1. PICK j \in Jitter(pause) : wake' = elapsed + Least(j, Left)
    BY <1>2 DEF StillBusy
  <2>2. pause \in Nat /\ elapsed \in Nat
    BY TimesAssumption DEF TxnInv, TxnTypeOK
  <2>3. wake' \in Nat
    <3>1. j \in Nat /\ Left \in Nat
      BY <2>2, JitterIsNat, LeftIsNat DEF TxnInv
    <3>2. Least(j, Left) \in Nat
      BY <3>1, LeastIsLower
    <3> QED
      BY <2>1, <2>2, <3>2
  <2>4. pause' \in MinPause .. MaxPause
    BY <1>2, TimesAssumption DEF StillBusy, TxnInv, TxnTypeOK, Least
  <2> QED
    BY <1>2, <2>3, <2>4 DEF StillBusy, TxnInv, TxnTypeOK, Budgeted, Waiting, LockedInside
<1> QED
  BY <1>1, <1>2

LEMMA CommitKeeps ==
  ASSUME TxnInv, Commit  PROVE TxnInv'
<1>1. elapsed \in Nat /\ Deadline \in Nat
  BY TimesAssumption DEF TxnInv, TxnTypeOK
<1>2. /\ until' \in Nat /\ until' >= Deadline
      /\ until' = Deadline \/ until' <= elapsed
  BY <1>1 DEF Commit, StartLoop, Remaining
<1> QED
  BY <1>2, TimesAssumption DEF Commit, StartLoop, TxnInv, TxnTypeOK, Budgeted, Waiting, LockedInside

(* Every step keeps the invariant. *)
LEMMA StepTxn ==
  ASSUME TxnInv, [TxnNext]_tvars  PROVE TxnInv'
<1> USE DEF TxnInv, TxnTypeOK, Budgeted, Waiting, LockedInside
<1>1. CASE Begin
  BY <1>1, TimesAssumption DEF Begin, StartLoop
<1>2. CASE Attempt
  BY <1>2, AttemptKeeps
<1>3. CASE StillBusy
  BY <1>3, StillBusyKeeps
<1>4. CASE Wakes
  BY <1>4 DEF Wakes
<1>5. CASE Begun
  BY <1>5, TimesAssumption DEF Begun, LoopEnds, StartLoop
<1>6. CASE Committed
  BY <1>6, TimesAssumption DEF Committed, Ends, LoopEnds, StartLoop
<1>7. CASE StatementFails
  BY <1>7, EndsKeeps DEF StatementFails
<1>8. CASE Commit
  BY <1>8, CommitKeeps
<1>9. CASE RolledBack
  BY <1>9, TimesAssumption DEF RolledBack, Ends, LoopEnds, StartLoop
<1>10. CASE OtherTakes
  BY <1>10 DEF OtherTakes, loop
<1>11. CASE OtherReleases
  BY <1>11 DEF OtherReleases, loop
<1>12. CASE Tick
  BY <1>12 DEF Tick, loop
<1>13. CASE UNCHANGED tvars
  BY <1>13 DEF tvars, loop
<1> QED
  BY <1>1, <1>2, <1>3, <1>4, <1>5, <1>6, <1>7, <1>8, <1>9, <1>10, <1>11, <1>12, <1>13
     DEF TxnNext, Proceed, Environment

(* The inductive invariant of the transaction and its clock. *)
THEOREM TxnInvariant == TxnSpec => []TxnInv
<1>1. TxnInv /\ [TxnNext]_tvars => TxnInv'
  BY StepTxn
<1> QED
  BY <1>1, InitTxn, PTL DEF TxnSpec

-----------------------------------------------------------------------------
(* What the invariant is for. *)

LEMMA StepIsBudgeted ==
  ASSUME TxnInv, [TxnNext]_tvars,
         Waiting, step' \in {"statement", "asleep"}, step' # step
  PROVE  wake' <= Deadline \/ (step' = "statement" /\ wake' = elapsed)
<1>1. elapsed \in Nat /\ until \in Nat /\ Deadline \in Nat /\ BusyTimeout \in Nat /\ Left \in Nat
  BY TimesAssumption, LeftIsNat DEF TxnInv, TxnTypeOK
<1>2. CASE Attempt
  <2>1. wake' = elapsed + Least(BusyTimeout, Left) /\ Least(BusyTimeout, Left) <= Left
        /\ Least(BusyTimeout, Left) \in Nat
    BY <1>1, <1>2, LeastIsLower DEF Attempt
  <2>2. CASE Left = 0
    BY <1>1, <1>2, <2>1, <2>2 DEF Attempt
  <2>3. CASE Left # 0
    <3>1. until > elapsed /\ Left = until - elapsed
      BY <1>1, <2>3 DEF Left
    <3>2. until = Deadline
      BY <1>1, <3>1 DEF TxnInv, Budgeted
    <3> QED
      BY <1>1, <2>1, <3>1, <3>2
  <2> QED
    BY <2>2, <2>3
<1>3. CASE StillBusy
  <2>1. elapsed < until
    BY <1>1, <1>3 DEF StillBusy, Ends, LoopEnds, StartLoop
  <2>2. PICK j \in Jitter(pause) : wake' = elapsed + Least(j, Left)
    BY <1>1, <1>3, <2>1 DEF StillBusy
  <2>3. j \in Nat
    BY JitterIsNat, TimesAssumption DEF TxnInv, TxnTypeOK
  <2>4. Least(j, Left) \in Nat /\ Least(j, Left) <= Left
    BY <1>1, <2>3, LeastIsLower
  <2>5. until = Deadline /\ Left = until - elapsed
    BY <1>1, <2>1 DEF TxnInv, Budgeted, Left
  <2> QED
    BY <1>1, <2>2, <2>4, <2>5
<1>4. Attempt \/ StillBusy
  BY DEF TxnNext, Proceed, Environment, tvars, loop, Begin, Begun, Commit, Committed, RolledBack,
         Wakes, StatementFails, OtherTakes, OtherReleases, Tick, Ends, LoopEnds, StartLoop
<1> QED
  BY <1>2, <1>3, <1>4

(* What a call waits for SQLite, in BEGIN and COMMIT together, ends within             *)
(* lock_deadline_ms of its start, for every value of the timeouts.                     *)
THEOREM WaitingIsBudgeted == TxnSpec => WaitsAreBudgeted
<1>1. TxnInv /\ [TxnNext]_tvars =>
        (Waiting /\ step' \in {"statement", "asleep"} /\ step' # step =>
           wake' <= Deadline \/ (step' = "statement" /\ wake' = elapsed))
  BY StepIsBudgeted
<1> QED
  BY <1>1, TxnInvariant, PTL DEF TxnSpec, WaitsAreBudgeted

LEMMA StepIsEarned ==
  ASSUME TxnInv, [TxnNext]_tvars, outcome' = "busy", outcome # "busy"
  PROVE  elapsed >= Deadline /\ (journal = "wal" => phase = "begin")
<1>1. StillBusy
  BY DEF TxnNext, Proceed, Environment, tvars, Attempt, Begin, Begun, Commit, Committed, RolledBack,
         Wakes, StatementFails, OtherTakes, OtherReleases, Tick, Ends
<1>2. elapsed >= until
  BY <1>1 DEF StillBusy
<1>3. elapsed \in Nat /\ until \in Nat /\ Deadline \in Nat
  BY TimesAssumption DEF TxnInv, TxnTypeOK
<1>4. until >= Deadline
  BY <1>1 DEF StillBusy, TxnInv, Budgeted
<1>5. journal = "wal" => phase = "begin"
  BY <1>1 DEF StillBusy, Occupied
<1> QED
  BY <1>2, <1>3, <1>4, <1>5

(* No call gives up early, and in WAL mode none gives up that had the lock. *)
THEOREM GivingUpIsEarned == TxnSpec => BusyIsEarned
<1>1. TxnInv /\ [TxnNext]_tvars =>
        (outcome' = "busy" /\ outcome # "busy" =>
           elapsed >= Deadline /\ (journal = "wal" => phase = "begin"))
  BY StepIsEarned
<1> QED
  BY <1>1, TxnInvariant, PTL DEF TxnSpec, BusyIsEarned


-----------------------------------------------------------------------------
(* The transactions of the calls. *)

LEMMA StepIsTxnStep ==
  ASSUME [Next]_vars  PROVE [TxnNext]_tvars
<1>1. CASE ChangeCall
  <2>1. Begin
    BY <1>1 DEF ChangeCall, Permitted, MemoryWrite, MemoryAppend, MemoryDelete, HandleWrite, HandleDelete,
                BeginsChange
  <2> QED
    BY <2>1 DEF TxnNext
<1>2. CASE TxnStep \/ Stage \/ Refused \/ Changed
  BY <1>2 DEF TxnStep, Stage, Refused, Changed, TxnNext, Proceed
<1>3. CASE MemoryRead \/ MemoryDelta \/ DeltaValue
  BY <1>3 DEF MemoryRead, MemoryDelta, DeltaValue
<1>4. CASE ReadCall
  BY <1>4 DEF ReadCall, SearchCall, SemanticCall, ContextCall, ListCall, ManifestCall, BeginsReading
<1>5. CASE ReadStep
  BY <1>5 DEF ReadStep, SemanticTexts, SearchFts, SearchLike, Query, ScanList, ScanRead,
              SemanticEntries, ContextRead, ListRows, ListStats, ManifestVersion
<1>6. CASE OtherEnds \/ Surroundings
  BY <1>6 DEF OtherEnds, Surroundings, TxnNext, Environment
<1>7. CASE UNCHANGED vars
  BY <1>7 DEF vars
<1> QED
  BY <1>1, <1>2, <1>3, <1>4, <1>5, <1>6, <1>7 DEF Next

(* The calls of the server use SQLite's lock as WriteTransaction says. *)
THEOREM CallsAreTransactions == Spec => TxnSpec
<1>1. Init => TxnInit
  BY DEF Init
<1>2. [Next]_vars => [TxnNext]_tvars
  BY StepIsTxnStep
<1> QED
  BY <1>1, <1>2, PTL DEF Spec, TxnSpec

(* So every call waits within one budget. *)
THEOREM CallsWaitWithinBudget == Spec => WaitsAreBudgeted
BY CallsAreTransactions, WaitingIsBudgeted

(* And none gives up early. *)
THEOREM CallsGiveUpLate == Spec => BusyIsEarned
BY CallsAreTransactions, GivingUpIsEarned

-----------------------------------------------------------------------------
(* The invariant. *)

(* A row's id is the number of the change that brought it. *)
Numbered(c) ==
  /\ commits[c] \in Nat
  /\ rows[c] # Absent => rows[c].id \in 1 .. commits[c]

StoreInv ==
  /\ rows \in [Category -> {rows[c] : c \in Category}]
  /\ commits \in [Category -> {commits[c] : c \in Category}]
  /\ \A c \in Category : Numbered(c)

(* Only the client's conditional writes expect something, the hash it holds; what was   *)
(* accepted under the lock is still acceptable when the transaction commits.            *)
CallInv ==
  /\ phase # "idle" <=> at = "change"
  /\ at = "value" <=> asking # Absent
  /\ at = "change" =>
       /\ call.cat \in Category
       /\ call.expects # Absent =>
            call.tool = "write" /\ call.cat = Watched /\ call.expects = known
  /\ phase = "commit" => Accepted /\ Room(call.cat)

ServerInv == TxnInv /\ StoreInv /\ CallInv

LEMMA InitServer == Init => ServerInv
<1> SUFFICES ASSUME Init  PROVE ServerInv
  OBVIOUS
<1>1. TxnInv
  BY InitTxn DEF Init
<1>2. StoreInv
  <2>1. \A c \in Category : rows[c] = Absent /\ commits[c] = 0
    BY DEF Init
  <2>2. rows \in [Category -> {rows[c] : c \in Category}]
    BY DEF Init
  <2>3. commits \in [Category -> {commits[c] : c \in Category}]
    BY DEF Init
  <2> QED
    BY <2>1, <2>2, <2>3 DEF StoreInv, Numbered
<1>3. CallInv
  BY DEF Init, TxnInit, CallInv
<1> QED
  BY <1>1, <1>2, <1>3 DEF ServerInv

(* Storing a row of the next number, or deleting one. *)
LEMMA StoreKeeps ==
  ASSUME StoreInv, NEW c \in Category, NEW row,
         row # Absent => row.id = commits[c] + 1,
         Store(c, row)
  PROVE  /\ StoreInv'
         /\ rows'[c] = row /\ commits'[c] = commits[c] + 1
         /\ \A d \in Category \ {c} : rows'[d] = rows[d] /\ commits'[d] = commits[d]
<1>1. /\ rows'[c] = row
      /\ \A d \in Category \ {c} : rows'[d] = rows[d]
  BY DEF Store, StoreInv
<1>2. /\ commits'[c] = commits[c] + 1
      /\ \A d \in Category \ {c} : commits'[d] = commits[d]
  BY DEF Store, StoreInv
<1>3. rows' \in [Category -> {rows'[d] : d \in Category}]
  BY DEF Store, StoreInv
<1>4. commits' \in [Category -> {commits'[d] : d \in Category}]
  BY DEF Store, StoreInv
<1>5. \A d \in Category : Numbered(d)'
  <2>1. commits[c] \in Nat
    BY DEF StoreInv, Numbered
  <2>2. Numbered(c)'
    BY <1>1, <1>2, <2>1 DEF Numbered
  <2>3. \A d \in Category \ {c} : Numbered(d)'
    BY <1>1, <1>2 DEF StoreInv, Numbered
  <2> QED
    BY <2>2, <2>3
<1> QED
  BY <1>1, <1>2, <1>3, <1>4, <1>5 DEF StoreInv

(* A new row has that number and is a row. *)
LEMMA NewRowIsNext ==
  ASSUME StoreInv, NEW c \in Category, Room(c), NEW x \in Content
  PROVE  /\ NewRow(c, x).id = commits[c] + 1
         /\ NewRow(c, x) # Absent
         /\ NewRow(c, x) # rows[c]
<1>1. commits[c] \in Nat /\ MaxChanges[c] \in Nat /\ commits[c] < MaxChanges[c]
  BY ToolsAssumption DEF StoreInv, Numbered, Room
<1>2. commits[c] + 1 \in 1 .. MaxChanges[c]
  BY <1>1
<1>3. NewRow(c, x).id = commits[c] + 1
  BY DEF NewRow
<1>4. NewRow(c, x) # Absent
  BY <1>2, ToolsAssumption DEF NewRow
<1>5. ASSUME NewRow(c, x) = rows[c]  PROVE FALSE
  <2>1. rows[c].id = commits[c] + 1 /\ rows[c] # Absent
    BY <1>3, <1>4, <1>5
  <2> QED
    BY <1>1, <2>1 DEF StoreInv, Numbered
<1> QED
  BY <1>3, <1>4, <1>5

(* Others change the store only while the lock is theirs, so not what a call that has   *)
(* the lock has looked at.                                                             *)
LEMMA OtherEndsKeeps ==
  ASSUME ServerInv, OtherEnds  PROVE StoreInv' /\ CallInv'
<1>1. lock = "other" /\ phase' = phase /\ phase \notin {"open", "commit"}
  BY DEF OtherEnds, OtherReleases, ServerInv, TxnInv, LockedInside
<1>2. CASE UNCHANGED <<store, tools, client>>
  BY <1>1, <1>2 DEF ServerInv, store, tools, client, StoreInv, Numbered, CallInv, Accepted, Room
<1>3. CASE \E c \in Category : OtherCommits(c)
  <2>1. PICK c \in Category : OtherCommits(c)
    BY <1>3
  <2>2. PICK row \in {NewRow(c, x) : x \in Content} \cup {Absent} : Store(c, row)
    BY <2>1 DEF OtherCommits
  <2>3. row # Absent => row.id = commits[c] + 1
    BY <2>1, <2>2, NewRowIsNext DEF ServerInv, OtherCommits
  <2>4. StoreInv'
    BY <2>2, <2>3, StoreKeeps DEF ServerInv
  <2>5. at' = at /\ known' = known /\ asking' = asking /\ (at # "done" => call' = call)
    BY <2>1 DEF OtherCommits
  <2>6. CallInv'
    BY <1>1, <2>5 DEF ServerInv, CallInv
  <2> QED
    BY <2>4, <2>6
<1> QED
  BY <1>2, <1>3 DEF OtherEnds

(* What a commit stores, a row of the next number or none. *)
LEMMA OutcomeIsNext ==
  ASSUME ServerInv, Changed,
         NEW row \in Outcomes(call.cat), row # Absent
  PROVE  row.id = commits[call.cat] + 1 /\ row # rows[call.cat]
<1>1. at = "change" /\ phase = "commit" /\ call.cat \in Category /\ Room(call.cat)
  BY DEF Changed, Committed, ServerInv, CallInv
<1>2. PICK x \in Content : row = NewRow(call.cat, x)
  BY DEF Outcomes
<1> QED
  BY <1>1, <1>2, NewRowIsNext DEF ServerInv

LEMMA ChangedKeeps ==
  ASSUME ServerInv, Changed  PROVE StoreInv' /\ CallInv'
<1>1. call.cat \in Category /\ asking = Absent /\ asking' = asking
      /\ at' = "done" /\ phase' = "idle"
  BY DEF Changed, Committed, Ends, ServerInv, CallInv
<1>2. PICK row \in Outcomes(call.cat) :
        IF row = rows[call.cat] THEN UNCHANGED store ELSE Store(call.cat, row)
  BY DEF Changed
<1>3. StoreInv'
  <2>1. CASE row = rows[call.cat]
    BY <1>2, <2>1 DEF ServerInv, StoreInv, Numbered, store
  <2>2. CASE row # rows[call.cat]
    BY <1>1, <1>2, <2>2, OutcomeIsNext, StoreKeeps DEF ServerInv
  <2> QED
    BY <2>1, <2>2
<1>4. CallInv'
  BY <1>1 DEF CallInv
<1> QED
  BY <1>3, <1>4

(* The other steps leave the store alone. *)
LEMMA StepServer ==
  ASSUME ServerInv, [Next]_vars  PROVE ServerInv'
<1>1. TxnInv'
  BY StepIsTxnStep, StepTxn DEF ServerInv
<1>2. StoreInv' /\ CallInv'
  <2> USE DEF ServerInv, StoreInv, Numbered, CallInv, store
  <2>1. CASE ChangeCall
    <3>1. PICK c \in Category : \E e \in Expected(c), tool \in {"write", "append", "delete"} :
            BeginsChange(tool, c, e) /\ (e # Absent => tool = "write")
      BY <2>1 DEF ChangeCall, Permitted, MemoryWrite, MemoryAppend, MemoryDelete, HandleWrite, HandleDelete, Expected
    <3>2. \A e \in Expected(c) : e # Absent => c = Watched /\ e = known
      BY DEF Expected
    <3> QED
      BY <3>1, <3>2 DEF BeginsChange, Begin, client
  <2>2. CASE TxnStep
    <3>1. phase # "idle" /\ (phase' = "commit" => phase = "commit")
      BY <2>2 DEF TxnStep, Attempt, StillBusy, Wakes, Begun, StatementFails, Ends, Waiting
    <3>2. at = "change" /\ at' = IF phase' = "idle" THEN "done" ELSE at
      BY <2>2, <3>1 DEF TxnStep
    <3>3. UNCHANGED <<rows, index, commits, call, known, asking>>
      BY <2>2 DEF TxnStep, client
    <3>4. StoreInv'
      BY <3>3
    <3>5. phase' = "commit" => Accepted' /\ Room(call.cat)'
      BY <3>1, <3>3 DEF Accepted, Room, Id, IsLog
    <3> QED
      BY <3>1, <3>2, <3>3, <3>4, <3>5
  <2>3. CASE Stage
    BY <2>3 DEF Stage, Commit, tools, client, Accepted, Room, Id, IsLog
  <2>4. CASE Refused
    BY <2>4 DEF Refused, RolledBack, Ends, client
  <2>5. CASE Changed
    BY <2>5, ChangedKeeps
  <2>6. CASE MemoryRead \/ MemoryDelta \/ DeltaValue
    BY <2>6 DEF MemoryRead, MemoryDelta, DeltaValue, tvars
  <2>7. CASE ReadCall
    BY <2>7 DEF ReadCall, SearchCall, SemanticCall, ContextCall, ListCall, ManifestCall,
                BeginsReading, tvars, client
  <2>8. CASE ReadStep
    BY <2>8 DEF ReadStep, SemanticTexts, SearchFts, SearchLike, Query, ScanList, ScanRead,
                SemanticEntries, ContextRead, ListRows, ListStats, ManifestVersion,
                Returns, ReadsOn, Found, tvars, client
  <2>9. CASE OtherEnds
    BY <2>9, OtherEndsKeeps
  <2>10. CASE Surroundings
    BY <2>10 DEF Surroundings, OtherTakes, Tick, tools, client, Accepted, Room, Id, IsLog
  <2>11. CASE UNCHANGED vars
    BY <2>11 DEF vars, tvars, tools, client, Accepted, Room, Id, IsLog
  <2> QED
    BY <2>1, <2>2, <2>3, <2>4, <2>5, <2>6, <2>7, <2>8, <2>9, <2>10, <2>11 DEF Next
<1> QED
  BY <1>1, <1>2 DEF ServerInv

(* The inductive invariant of the server and its store. *)
THEOREM ServerInvariant == Spec => []ServerInv
<1>1. ServerInv /\ [Next]_vars => ServerInv'
  BY StepServer
<1> QED
  BY <1>1, InitServer, PTL DEF Spec

-----------------------------------------------------------------------------
(* The client of the watched category. *)

LEMMA IdOfWatched ==
  ASSUME StoreInv
  PROVE  Id(Watched) = Absent <=> rows[Watched] = Absent
BY ToolsAssumption DEF StoreInv, Numbered, Id

(* To the client a change of the category, by another process or another call of its own *)
(* server, is a change by another process of DeltaPolling.                               *)
LEMMA StoreIsOther ==
  ASSUME ServerInv, Room(Watched), NEW row, row # rows[Watched],
         row # Absent => row.id = commits[Watched] + 1,
         Store(Watched, row), answer' = "none", UNCHANGED <<known, copy, asking>>
  PROVE  Polling!Other
<1>1. Watched \in Category /\ commits[Watched] \in Nat /\ MaxChanges[Watched] \in Nat
  BY ToolsAssumption DEF ServerInv, StoreInv, Numbered
<1>2. rows'[Watched] = row /\ commits'[Watched] = commits[Watched] + 1
  BY <1>1, StoreKeeps DEF ServerInv
<1>3. Id(Watched)' = IF row = Absent THEN Absent ELSE commits[Watched] + 1
  BY <1>2 DEF Id
<1>4. Id(Watched)' # Id(Watched)
  BY <1>1, <1>3, ToolsAssumption DEF Id, ServerInv, StoreInv, Numbered
<1>5. Id(Watched)' \in ({commits[Watched] + 1} \cup {Absent}) \ {Id(Watched)}
  BY <1>3, <1>4
<1> QED
  BY <1>1, <1>2, <1>5 DEF Polling!Other, Polling!NextBody, Room

LEMMA OtherEndsPolls ==
  ASSUME ServerInv, OtherEnds  PROVE [Polling!Next]_(Polling!vars)
<1>1. CASE UNCHANGED <<store, tools, client>>
  BY <1>1 DEF Polling!vars, store, client, Id
<1>2. CASE \E c \in Category : OtherCommits(c)
  <2>1. PICK c \in Category : OtherCommits(c)
    BY <1>2
  <2>2. PICK row \in {NewRow(c, x) : x \in Content} \cup {Absent} : row # rows[c] /\ Store(c, row)
    BY <2>1 DEF OtherCommits
  <2>3. row # Absent => row.id = commits[c] + 1
    BY <2>1, <2>2, NewRowIsNext DEF ServerInv, OtherCommits
  <2>4. CASE c = Watched
    <3>1. Polling!Other
      BY <2>1, <2>2, <2>3, <2>4, StoreIsOther DEF OtherCommits
    <3> QED
      BY <3>1 DEF Polling!Next
  <2>5. CASE c # Watched
    <3>1. rows'[Watched] = rows[Watched] /\ commits'[Watched] = commits[Watched]
      BY <2>2, <2>3, <2>5, StoreKeeps, ToolsAssumption DEF ServerInv
    <3> QED
      BY <2>1, <2>5, <3>1 DEF OtherCommits, Polling!vars, Id
  <2> QED
    BY <2>4, <2>5
<1> QED
  BY <1>1, <1>2 DEF OtherEnds

LEMMA ChangedPolls ==
  ASSUME ServerInv, Changed  PROVE [Polling!Next]_(Polling!vars)
<1>1. PICK row \in Outcomes(call.cat) :
        IF row = rows[call.cat] THEN UNCHANGED store ELSE Store(call.cat, row)
  BY DEF Changed
<1>2. /\ call.cat \in Category /\ asking = Absent /\ asking' = Absent
      /\ Accepted /\ Room(call.cat)
  BY DEF Changed, Committed, ServerInv, CallInv
<1>3. row # Absent => row.id = commits[call.cat] + 1 /\ row # rows[call.cat]
  BY OutcomeIsNext
<1>4. CASE call.expects # Absent
  <2>1. call.tool = "write" /\ call.cat = Watched /\ call.expects = known /\ known # Absent
    BY <1>4 DEF Changed, ServerInv, CallInv
  <2>2. row # Absent
    <3>1. PICK x \in Content : row = NewRow(Watched, x)
      BY <2>1 DEF Outcomes
    <3> QED
      BY <1>2, <2>1, <3>1, NewRowIsNext DEF ServerInv
  <2>3. Store(Watched, row)
    BY <1>1, <1>3, <2>1, <2>2
  <2>4. rows'[Watched] = row /\ commits'[Watched] = commits[Watched] + 1
    BY <1>2, <1>3, <2>1, <2>2, <2>3, StoreKeeps DEF ServerInv
  <2>5. Id(Watched)' = commits[Watched] + 1
    BY <1>3, <2>1, <2>2, <2>4 DEF Id
  <2>6. Id(Watched) \in {Absent, known}
    BY <1>2, <1>4, <2>1 DEF Accepted, Id
  <2>7. answer' = "none" /\ known' = Id(Watched)' /\ copy' = Id(Watched)'
    BY <1>4 DEF Changed
  <2>8. commits[Watched] < MaxChanges[Watched]
    BY <1>2, <2>1 DEF Room
  <2>9. Polling!Write
    BY <1>2, <2>1, <2>4, <2>5, <2>6, <2>7, <2>8 DEF Polling!Write, Polling!NextBody
  <2> QED
    BY <2>9 DEF Polling!Next
<1>5. CASE call.expects = Absent
  <2>1. UNCHANGED <<known, copy, asking>>
        /\ answer' = IF rows'[Watched] # rows[Watched] THEN "none" ELSE answer
    BY <1>5 DEF Changed
  <2>2. CASE row = rows[call.cat]
    BY <1>1, <2>1, <2>2 DEF store, Polling!vars, Id
  <2>3. CASE row # rows[call.cat] /\ call.cat # Watched
    <3>1. rows'[Watched] = rows[Watched] /\ commits'[Watched] = commits[Watched]
      BY <1>1, <1>2, <1>3, <2>3, StoreKeeps, ToolsAssumption DEF ServerInv
    <3> QED
      BY <2>1, <3>1 DEF Polling!vars, Id
  <2>4. CASE row # rows[call.cat] /\ call.cat = Watched
    <3>1. rows'[Watched] = row
      BY <1>1, <1>2, <1>3, <2>4, StoreKeeps DEF ServerInv
    <3>2. Polling!Other
      BY <1>1, <1>2, <1>3, <2>1, <2>4, <3>1, StoreIsOther
    <3> QED
      BY <3>2 DEF Polling!Next
  <2> QED
    BY <2>2, <2>3, <2>4
<1> QED
  BY <1>4, <1>5

LEMMA StepPolls ==
  ASSUME ServerInv, [Next]_vars  PROVE [Polling!Next]_(Polling!vars)
<1> USE DEF Polling!vars, Id
<1>1. CASE ChangeCall
  BY <1>1 DEF ChangeCall, Permitted, MemoryWrite, MemoryAppend, MemoryDelete, HandleWrite, HandleDelete,
              BeginsChange, store, client
<1>2. CASE TxnStep \/ Stage \/ Refused
  BY <1>2 DEF TxnStep, Stage, Refused, store, client
<1>3. CASE Changed
  BY <1>3, ChangedPolls
<1>4. CASE MemoryRead
  <2>1. Polling!Read
    BY <1>4, IdOfWatched DEF MemoryRead, Polling!Read, ServerInv, CallInv, store
  <2> QED
    BY <2>1 DEF Polling!Next
<1>5. CASE MemoryDelta
  <2>1. Polling!DeltaMeta
    BY <1>5 DEF MemoryDelta, Polling!DeltaMeta, ServerInv, CallInv, store
  <2> QED
    BY <2>1 DEF Polling!Next
<1>6. CASE DeltaValue
  <2>1. Polling!DeltaValue
    BY <1>6 DEF DeltaValue, Polling!DeltaValue, ServerInv, CallInv, store
  <2> QED
    BY <2>1 DEF Polling!Next
<1>7. CASE ReadCall
  BY <1>7 DEF ReadCall, SearchCall, SemanticCall, ContextCall, ListCall, ManifestCall, BeginsReading,
              store, client
<1>8. CASE ReadStep
  BY <1>8 DEF ReadStep, SemanticTexts, SearchFts, SearchLike, Query, ScanList, ScanRead,
              SemanticEntries, ContextRead, ListRows, ListStats, ManifestVersion, store, client
<1>9. CASE OtherEnds
  BY <1>9, OtherEndsPolls
<1>10. CASE Surroundings
  BY <1>10 DEF Surroundings, store, client
<1>11. CASE UNCHANGED vars
  BY <1>11 DEF vars, store, client
<1> QED
  BY <1>1, <1>2, <1>3, <1>4, <1>5, <1>6, <1>7, <1>8, <1>9, <1>10, <1>11 DEF Next

(* To a client that keeps a copy of a category the whole server, its other calls, its    *)
(* waits for SQLite and the other processes included, is the protocol of DeltaPolling.   *)
THEOREM ServerImplementsPolling == Spec => ImplementsPolling
<1>1. Init => Polling!Init
  BY ToolsAssumption DEF Init, Polling!Init, Id
<1>2. ServerInv /\ [Next]_vars => [Polling!Next]_(Polling!vars)
  BY StepPolls
<1> QED
  BY <1>1, <1>2, ServerInvariant, PTL DEF Spec, ImplementsPolling, Polling!Spec

-----------------------------------------------------------------------------
(* What is proved of the protocol holds of the server. *)

PollingTheorems == INSTANCE DeltaPollingProofs WITH
  Distinct   <- TRUE,
  MaxChanges <- MaxChanges[Watched],
  stored     <- Id(Watched),
  changes    <- commits[Watched]

LEMMA WatchedIsPolled == Spec => []PollingTheorems!IInv
<1>1. PollingTheorems!PollingAssumption
  BY ToolsAssumption DEF PollingTheorems!PollingAssumption
<1>2. PollingTheorems!Spec => []PollingTheorems!IInv
  BY <1>1, PollingTheorems!AlwaysIInv
<1>3. Polling!Init => PollingTheorems!Init
  BY DEF Polling!Init, PollingTheorems!Init
<1>4. [Polling!Next]_(Polling!vars) => [PollingTheorems!Next]_(PollingTheorems!vars)
  <2>1. UNCHANGED Polling!vars => UNCHANGED PollingTheorems!vars
    BY DEF Polling!vars, PollingTheorems!vars
  <2>2. Polling!Other => PollingTheorems!Other
    BY DEF Polling!Other, PollingTheorems!Other, Polling!NextBody, PollingTheorems!NextBody
  <2>3. Polling!Read => PollingTheorems!Read
    BY DEF Polling!Read, PollingTheorems!Read
  <2>4. Polling!DeltaMeta => PollingTheorems!DeltaMeta
    BY DEF Polling!DeltaMeta, PollingTheorems!DeltaMeta
  <2>5. Polling!DeltaValue => PollingTheorems!DeltaValue
    BY DEF Polling!DeltaValue, PollingTheorems!DeltaValue
  <2>6. Polling!Write => PollingTheorems!Write
    BY DEF Polling!Write, PollingTheorems!Write, Polling!NextBody, PollingTheorems!NextBody
  <2> QED
    BY <2>1, <2>2, <2>3, <2>4, <2>5, <2>6 DEF Polling!Next, PollingTheorems!Next
<1> QED
  BY <1>2, <1>3, <1>4, ServerImplementsPolling, PTL
     DEF ImplementsPolling, Polling!Spec, PollingTheorems!Spec

(* memory_delta says unchanged only to a client whose copy is the committed content,     *)
(* whatever else the server and the other processes do.                                  *)
THEOREM DeltaIsTrue == Spec => []UnchangedIsTrue
<1>1. PollingTheorems!IInv => UnchangedIsTrue
  BY DEF PollingTheorems!IInv, PollingTheorems!Informed, PollingTheorems!Answered, UnchangedIsTrue
<1> QED
  BY <1>1, WatchedIsPolled, PTL

(* A conditional write of the client never replaces content it has not seen, although    *)
(* its hash and its copy may come from two reads and it waits for the lock.              *)
THEOREM ConditionalWritesAreInformed == Spec => WritesReplaceWhatTheySaw
<1>1. ServerInv /\ PollingTheorems!IInv =>
        (Changed /\ call.expects # Absent => Id(Watched) \in {Absent, copy})
  <2> SUFFICES ASSUME ServerInv, PollingTheorems!IInv, Changed, call.expects # Absent
               PROVE  Id(Watched) \in {Absent, copy}
    OBVIOUS
  <2>1. at = "change" /\ Accepted
    BY DEF Changed, Committed, ServerInv, CallInv
  <2>2. call.tool = "write" /\ call.cat = Watched /\ call.expects = known
    BY <2>1 DEF ServerInv, CallInv
  <2>3. Id(Watched) \in {Absent, known}
    BY <2>1, <2>2 DEF Accepted, Id
  <2> QED
    BY <2>3 DEF PollingTheorems!IInv, PollingTheorems!Informed
<1> QED
  BY <1>1, WatchedIsPolled, ServerInvariant, PTL DEF WritesReplaceWhatTheySaw

-----------------------------------------------------------------------------
(* What calls report. *)

Reading == at \notin {"done", "change", "value"}

(* A hit was there during the call and is not newer than its category is now. *)
Reported(h) ==
  /\ h.cat \in Category /\ h.id \in Nat /\ h.id \in seen[h.cat]
  /\ Reading => h.id <= commits[h.cat]
  /\ Reading /\ rows[h.cat] # Absent => h.id <= rows[h.cat].id

VersionFits(h) ==
  h.version = h.id \/ (Touched(h.cat) /\ (h.version > h.id \/ h.version = 0))

SeenInv ==
  /\ seen \in [Category -> {seen[c] : c \in Category}]
  /\ \A c \in Category : IsFiniteSet(seen[c])
  /\ Reading => \A c \in Category : Id(c) \in seen[c]

(* Entries of a manifest have their version, or are still to get it. *)
ManifestInv ==
  call.tool = "manifest" =>
    /\ at \in {"rows", "versions", "done"}
    /\ at = "versions" => \A g, h \in got : g.cat = h.cat => g = h
    /\ at = "versions" => \A h \in got : h.cat \in todo \/ VersionFits(h)
    /\ at = "done" => \A h \in got : VersionFits(h)

(* A search filters by categories of the store. *)
FilterInv == at \in {"texts", "fts", "like"} => call.filter \subseteq Category

ReportInv ==
  /\ index = rows
  /\ at \in {"change", "value"} => got = {}
  /\ \A h \in got : Reported(h)
  /\ SeenInv /\ ManifestInv /\ FilterInv

LEMMA TwoAreTouched ==
  ASSUME NEW S, IsFiniteSet(S), NEW a \in S, NEW b \in S, a # b
  PROVE  Cardinality(S) > 1
<1>1. Cardinality(S) \in Nat /\ IsFiniteSet(S \ {a}) /\ Cardinality(S \ {a}) = Cardinality(S) - 1
  BY FS_RemoveElement, FS_CardinalityType
<1>2. S \ {a} # {}
  OBVIOUS
<1>3. Cardinality(S \ {a}) # 0 /\ Cardinality(S \ {a}) \in Nat
  BY <1>1, <1>2, FS_EmptySet, FS_CardinalityType
<1> QED
  BY <1>1, <1>3

(* A category that was touched stays touched. *)
LEMMA TouchedStays ==
  ASSUME NEW S, IsFiniteSet(S), NEW x
  PROVE  /\ IsFiniteSet(S \cup {x})
         /\ Cardinality(S) > 1 => Cardinality(S \cup {x}) > 1
<1>1. IsFiniteSet(S \cup {x})
      /\ (Cardinality(S \cup {x}) = Cardinality(S) \/ Cardinality(S \cup {x}) = Cardinality(S) + 1)
  BY FS_AddElement
<1> QED
  BY <1>1, FS_CardinalityType

LEMMA InitReport == Init => ReportInv
<1> SUFFICES ASSUME Init  PROVE ReportInv
  OBVIOUS
<1>1. \A c \in Category : seen[c] = {}
  BY DEF Init, NotSeen
<1>2. seen \in [Category -> {seen[c] : c \in Category}]
  BY DEF Init, NotSeen
<1>3. SeenInv
  BY <1>1, <1>2, FS_EmptySet DEF SeenInv, Reading, Init
<1> QED
  BY <1>3 DEF Init, ReportInv, ManifestInv, FilterInv, NoCall

(* Forgetting the last call, or beginning one that reports nothing yet. *)
LEMMA NothingReported ==
  ASSUME got' = {}, seen' = NotSeen, index' = rows', ~Reading',
         call'.tool # "manifest" \/ at' = "done"
  PROVE  ReportInv'
<1>1. \A c \in Category : seen'[c] = {}
  BY DEF NotSeen
<1>2. seen' \in [Category -> {seen'[c] : c \in Category}]
  BY DEF NotSeen
<1>3. SeenInv'
  BY <1>1, <1>2, FS_EmptySet DEF SeenInv
<1> QED
  BY <1>3 DEF ReportInv, ManifestInv, FilterInv, Reading

(* Nothing that a report is about changes. *)
LEMMA ReportStays ==
  ASSUME ReportInv, UNCHANGED <<store, tools>>  PROVE ReportInv'
BY DEF store, tools, ReportInv, SeenInv, ManifestInv, FilterInv, Reported, VersionFits, Touched, Reading, Id

(* A call that reads finds categories as they are. *)
LEMMA ReadReports ==
  ASSUME ServerInv, ReportInv, Reading, UNCHANGED <<store, call, seen>>,
         at' \notin {"change", "value"}, call.tool # "manifest",
         at' \in {"texts", "fts", "like"} => at \in {"texts", "fts", "like"},
         \A h \in got' : \/ h \in got
                         \/ h.cat \in Present /\ h.id = rows[h.cat].id
  PROVE  ReportInv'
<1>1. \A h \in got' : Reported(h)'
  <2> SUFFICES ASSUME NEW h \in got'  PROVE Reported(h)'
    OBVIOUS
  <2>1. CASE h \in got
    BY <2>1 DEF ReportInv, Reported, Reading, store
  <2>2. CASE h.cat \in Present /\ h.id = rows[h.cat].id
    <3>1. h.cat \in Category /\ h.id \in 1 .. commits[h.cat] /\ commits[h.cat] \in Nat
      BY <2>2 DEF Present, ServerInv, StoreInv, Numbered
    <3>2. h.id \in seen[h.cat]
      BY <2>2, <3>1 DEF Present, ReportInv, SeenInv, Id
    <3> QED
      BY <2>2, <3>1, <3>2 DEF Reported, store
  <2> QED
    BY <2>1, <2>2
<1>2. SeenInv'
  BY DEF ReportInv, SeenInv, Reading, Id, store
<1> QED
  BY <1>1, <1>2 DEF ReportInv, ManifestInv, FilterInv, store

(* Another process changes a category while a call reads. *)
LEMMA CommitMeanwhile ==
  ASSUME ServerInv, ReportInv, NEW c \in Category, OtherCommits(c), at # "done"
  PROVE  ReportInv'
<1>1. PICK row \in {NewRow(c, x) : x \in Content} \cup {Absent} : Store(c, row)
  BY DEF OtherCommits
<1>2. row # Absent => row.id = commits[c] + 1
  BY <1>1, NewRowIsNext DEF ServerInv, OtherCommits
<1>3. /\ rows'[c] = row /\ commits'[c] = commits[c] + 1 /\ commits[c] \in Nat
      /\ \A d \in Category \ {c} : rows'[d] = rows[d] /\ commits'[d] = commits[d]
  BY <1>1, <1>2, StoreKeeps DEF ServerInv, StoreInv, Numbered
<1>4. seen' = [seen EXCEPT ![c] = IF @ = {} THEN {} ELSE @ \cup {Id(c)'}]
      /\ UNCHANGED <<call, at, todo, got>>
  BY DEF OtherCommits
<1>5. /\ seen'[c] = IF seen[c] = {} THEN {} ELSE seen[c] \cup {Id(c)'}
      /\ \A d \in Category \ {c} : seen'[d] = seen[d]
      /\ seen' \in [Category -> {seen'[d] : d \in Category}]
  BY <1>4 DEF ReportInv, SeenInv
<1>6. \A d \in Category : seen[d] \subseteq seen'[d] /\ IsFiniteSet(seen'[d])
  <2>1. IsFiniteSet(seen[c] \cup {Id(c)'})
    BY TouchedStays DEF ReportInv, SeenInv
  <2> QED
    BY <1>5, <2>1, FS_EmptySet DEF ReportInv, SeenInv
<1>7. \A d \in Category : Touched(d) => Touched(d)'
  <2>1. SUFFICES ASSUME Touched(c)  PROVE Touched(c)'
    BY <1>5 DEF Touched
  <2>2. CASE seen[c] = {}
    BY <1>5, <2>1, <2>2 DEF Touched
  <2>3. CASE seen[c] # {}
    BY <1>5, <2>1, <2>3, TouchedStays DEF Touched, ReportInv, SeenInv
  <2> QED
    BY <2>2, <2>3
<1>8. index' = rows'
  BY <1>1 DEF Store, Indexed, ReportInv
<1>9. \A h \in got' : Reported(h)'
  <2> SUFFICES ASSUME NEW h \in got  PROVE Reported(h)'
    BY <1>4
  <2>1. Reported(h) /\ h.id \in seen'[h.cat] /\ Reading' = Reading
    BY <1>4, <1>6 DEF ReportInv, Reported, Reading
  <2>2. CASE h.cat = c
    BY <1>2, <1>3, <2>1, <2>2 DEF Reported
  <2>3. CASE h.cat # c
    BY <1>3, <2>1, <2>3 DEF Reported
  <2> QED
    BY <2>2, <2>3
<1>10. SeenInv'
  <2>1. ASSUME Reading  PROVE \A d \in Category : Id(d)' \in seen'[d]
    <3>1. \A d \in Category \ {c} : Id(d)' = Id(d)
      BY <1>3 DEF Id
    <3>2. seen[c] # {}
      BY <2>1 DEF ReportInv, SeenInv
    <3>3. \A d \in Category \ {c} : Id(d)' \in seen'[d]
      BY <1>5, <2>1, <3>1 DEF ReportInv, SeenInv
    <3>4. Id(c)' \in seen'[c]
      BY <1>5, <3>2
    <3> QED
      BY <3>3, <3>4
  <2> QED
    BY <1>4, <1>5, <1>6, <2>1 DEF SeenInv, Reading
<1>11. ManifestInv'
  <2>1. \A h \in got : VersionFits(h) => VersionFits(h)'
    BY <1>7 DEF ReportInv, Reported, VersionFits
  <2> QED
    BY <1>4, <2>1 DEF ReportInv, ManifestInv
<1> QED
  BY <1>4, <1>8, <1>9, <1>10, <1>11 DEF ReportInv, FilterInv

LEMMA OtherEndsReports ==
  ASSUME ServerInv, ReportInv, OtherEnds  PROVE ReportInv'
<1>1. CASE UNCHANGED <<store, tools, client>>
  BY <1>1, ReportStays
<1>2. CASE \E c \in Category : OtherCommits(c)
  <2>1. PICK c \in Category : OtherCommits(c)
    BY <1>2
  <2>2. CASE at = "done"
    <3>1. index' = rows'
      BY <2>1 DEF OtherCommits, Store, Indexed, ReportInv
    <3>2. got' = {} /\ seen' = NotSeen /\ at' = "done"
      BY <2>1, <2>2 DEF OtherCommits, Forget
    <3> QED
      BY <3>1, <3>2, NothingReported DEF Reading
  <2>3. CASE at # "done"
    BY <2>1, <2>3, CommitMeanwhile
  <2> QED
    BY <2>2, <2>3
<1> QED
  BY <1>1, <1>2 DEF OtherEnds

LEMMA ChangedReports ==
  ASSUME ServerInv, ReportInv, Changed  PROVE ReportInv'
<1>1. at = "change" /\ at' = "done" /\ UNCHANGED <<call, todo, got, seen>>
  BY DEF Changed
<1>2. index' = rows'
  BY DEF Changed, store, Store, Indexed, ReportInv
<1> QED
  BY <1>1, <1>2 DEF ReportInv, SeenInv, ManifestInv, FilterInv, Reading

LEMMA ReadCallReports ==
  ASSUME ReportInv, ReadCall  PROVE ReportInv'
<1>1. /\ call'.tool = "manifest" => at' = "rows"
      /\ at' \in {"texts", "fts", "like"} => call'.filter \subseteq Category
  BY DEF ReadCall, SearchCall, SemanticCall, ContextCall, ListCall, ManifestCall, BeginsReading, Filters
<1>2. seen' = [c \in Category |-> {Id(c)}] /\ got' = {} /\ UNCHANGED store
  BY DEF ReadCall, SearchCall, SemanticCall, ContextCall, ListCall, ManifestCall, BeginsReading
<1>3. \A c \in Category : Id(c)' = Id(c)
  BY <1>2 DEF store, Id
<1>4. seen' \in [Category -> {seen'[c] : c \in Category}]
  BY <1>2
<1>5. SeenInv'
  BY <1>2, <1>3, <1>4, FS_Singleton DEF SeenInv
<1> QED
  BY <1>1, <1>2, <1>5 DEF ReportInv, ManifestInv, FilterInv, store

(* The rows of a list or a manifest. *)
LEMMA ListRowsReports ==
  ASSUME ServerInv, ReportInv, ListRows  PROVE ReportInv'
<1>1. at = "rows" /\ Reading /\ UNCHANGED <<store, call, seen>>
  BY DEF ListRows, Reading
<1>2. CASE call.tool = "manifest" /\ Present # {}
  <2>1. at' = "versions" /\ todo' = Present /\ got' = {Hit(c) : c \in Present}
    BY <1>2 DEF ListRows, ReadsOn
  <2>2. \A h \in got' : h.cat \in Present /\ h.id = rows[h.cat].id /\ h = Hit(h.cat)
    BY <2>1 DEF Hit
  <2>3. ManifestInv'
    BY <2>1, <2>2 DEF ManifestInv
  <2>4. \A h \in got' : Reported(h)'
    <3> SUFFICES ASSUME NEW h \in got'  PROVE Reported(h)'
      OBVIOUS
    <3>1. h.cat \in Category /\ h.id \in 1 .. commits[h.cat] /\ commits[h.cat] \in Nat
      BY <2>2 DEF Present, ServerInv, StoreInv, Numbered
    <3>2. h.id \in seen[h.cat]
      BY <1>1, <2>2, <3>1 DEF Present, ReportInv, SeenInv, Id
    <3> QED
      BY <1>1, <2>2, <3>1, <3>2 DEF Reported, store
  <2>5. SeenInv'
    BY <1>1, <2>1 DEF ReportInv, SeenInv, Reading, Id, store
  <2> QED
    BY <1>1, <2>1, <2>3, <2>4, <2>5 DEF ReportInv, FilterInv, store
<1>3. CASE call.tool = "manifest" /\ Present = {}
  <2>1. at' = "done" /\ got' = {}
    BY <1>3 DEF ListRows, Returns
  <2> QED
    BY <1>1, <2>1 DEF ReportInv, SeenInv, ManifestInv, FilterInv, Reading, store
<1>4. CASE call.tool # "manifest"
  <2>1. at' \notin {"change", "value", "texts", "fts", "like"}
    BY <1>4 DEF ListRows, Returns, ReadsOn
  <2>2. \A h \in got' : h.cat \in Present /\ h.id = rows[h.cat].id
    BY <1>4 DEF ListRows, Returns, ReadsOn, Hit
  <2> QED
    BY <1>1, <1>4, <2>1, <2>2, ReadReports
<1> QED
  BY <1>2, <1>3, <1>4

(* An entry gets its version from a later read. *)
LEMMA ManifestVersionReports ==
  ASSUME ServerInv, ReportInv, ManifestVersion  PROVE ReportInv'
<1>1. at = "versions" /\ Reading /\ UNCHANGED <<store, call, seen>>
  BY DEF ManifestVersion, Reading
<1>2. PICK c \in todo : \E entry \in {h \in got : h.cat = c} :
        LET all == (got \ {entry}) \cup {[cat |-> c, id |-> entry.id, version |-> Version(c)]} IN
          IF todo = {c} THEN Returns(all) ELSE ReadsOn("versions", todo \ {c}, all)
  BY DEF ManifestVersion
<1>3. PICK entry \in got : entry.cat = c /\
        LET all == (got \ {entry}) \cup {[cat |-> c, id |-> entry.id, version |-> Version(c)]} IN
          IF todo = {c} THEN Returns(all) ELSE ReadsOn("versions", todo \ {c}, all)
  BY <1>2
<1> DEFINE new == [cat |-> c, id |-> entry.id, version |-> Version(c)]
<1>4. new.cat = c /\ new.id = entry.id /\ new.version = Version(c)
  OBVIOUS
<1>5. got' = (got \ {entry}) \cup {new}
  BY <1>3 DEF Returns, ReadsOn
<1>6. /\ todo = {c} => at' = "done"
      /\ todo # {c} => at' = "versions" /\ todo' = todo \ {c}
  BY <1>3 DEF Returns, ReadsOn
<1> HIDE DEF new
<1>7. at' \in {"versions", "done"}
  BY <1>6
<1>8. Reported(entry) /\ c \in Category /\ entry.id \in Nat /\ entry.id \in seen[c]
  BY <1>3 DEF ReportInv, Reported
<1>9. Reported(new)
  BY <1>3, <1>4, <1>8 DEF Reported
<1>10. \A h \in got' : Reported(h)'
  <2>1. \A h \in got' : Reported(h)
    BY <1>5, <1>9 DEF ReportInv
  <2> QED
    BY <1>1, <2>1 DEF Reported, Reading, store
<1>11. VersionFits(new)
  <2>1. Id(c) \in seen[c] /\ IsFiniteSet(seen[c])
    BY <1>1, <1>8 DEF ReportInv, SeenInv
  <2>2. CASE rows[c] = Absent
    <3>1. Id(c) = Absent /\ Version(c) = 0 /\ entry.id # Absent
      BY <1>8, <2>2, ToolsAssumption DEF Id, Version
    <3>2. Touched(c)
      BY <1>8, <2>1, <3>1, TwoAreTouched DEF Touched
    <3> QED
      BY <1>4, <3>1, <3>2 DEF VersionFits
  <2>3. CASE rows[c] # Absent
    <3>1. /\ Id(c) = rows[c].id /\ Version(c) = rows[c].id
          /\ rows[c].id \in 1 .. commits[c] /\ commits[c] \in Nat
      BY <1>8, <2>3 DEF Id, Version, ServerInv, StoreInv, Numbered
    <3>2. entry.id <= rows[c].id
      BY <1>1, <1>3, <1>8, <2>3 DEF Reported
    <3>3. CASE entry.id = rows[c].id
      BY <1>4, <3>1, <3>3 DEF VersionFits
    <3>4. CASE entry.id # rows[c].id
      <4>1. Touched(c)
        BY <1>8, <2>1, <3>1, <3>4, TwoAreTouched DEF Touched
      <4>2. Version(c) > entry.id
        BY <1>8, <3>1, <3>2, <3>4
      <4> QED
        BY <1>4, <4>1, <4>2 DEF VersionFits
    <3> QED
      BY <3>3, <3>4
  <2> QED
    BY <2>2, <2>3
<1>12. ManifestInv'
  <2> SUFFICES ASSUME call.tool = "manifest"  PROVE ManifestInv'
    BY <1>1 DEF ManifestInv
  <2>1. \A g, h \in got : g.cat = h.cat => g = h
    BY <1>1 DEF ReportInv, ManifestInv
  <2>2. \A h \in got : h.cat \in todo \/ VersionFits(h)
    BY <1>1 DEF ReportInv, ManifestInv
  <2>3. \A h \in got \ {entry} : h.cat # c
    BY <1>3, <2>1
  <2>4. \A g, h \in got' : g.cat = h.cat => g = h
    BY <1>4, <1>5, <2>1, <2>3
  <2>5. \A h \in got' : h.cat \in todo \ {c} \/ VersionFits(h)
    BY <1>5, <1>11, <2>2, <2>3
  <2>6. \A h \in got' : h.cat \in todo \ {c} \/ VersionFits(h)'
    BY <1>1, <2>5 DEF VersionFits, Touched
  <2>7. CASE todo = {c}
    <3>1. \A h \in got' : VersionFits(h)'
      BY <2>6, <2>7
    <3> QED
      BY <1>6, <2>7, <3>1 DEF ManifestInv
  <2>8. CASE todo # {c}
    BY <1>6, <2>4, <2>6, <2>8 DEF ManifestInv
  <2> QED
    BY <2>7, <2>8
<1>13. SeenInv'
  BY <1>1 DEF ReportInv, SeenInv, Reading, Id, store
<1> QED
  BY <1>1, <1>7, <1>10, <1>12, <1>13 DEF ReportInv, FilterInv, store

(* What a read of one category gives is that category as it is. *)
LEMMA GivenIsPresent ==
  ASSUME NEW c, NEW p, NEW hits \in Given(c, p), NEW h \in hits
  PROVE  h.cat \in Present /\ h.id = rows[h.cat].id
BY DEF Given, Hit

LEMMA ReadStepReports ==
  ASSUME ServerInv, ReportInv, ReadStep  PROVE ReportInv'
<1>1. CASE ListRows
  BY <1>1, ListRowsReports
<1>2. CASE ManifestVersion
  BY <1>2, ManifestVersionReports
<1>3. ASSUME Reading, at \notin {"rows", "versions"}  PROVE call.tool # "manifest"
  BY <1>3 DEF ReportInv, ManifestInv, Reading
<1>4. CASE SemanticTexts \/ ListStats \/ ScanList
  <2>1. Reading /\ at \notin {"rows", "versions"} /\ UNCHANGED <<store, call, seen>>
        /\ at' \notin {"change", "value"}
        /\ (at' \in {"texts", "fts", "like"} => at \in {"texts", "fts", "like"})
        /\ got' \subseteq got
    BY <1>4 DEF SemanticTexts, ListStats, ScanList, Reading, Returns, ReadsOn, Found
  <2> QED
    BY <1>3, <2>1, ReadReports
<1>5. CASE SearchFts \/ SearchLike
  <2>1. Reading /\ at \notin {"rows", "versions"} /\ UNCHANGED <<store, call, seen>>
        /\ at' \notin {"change", "value"}
        /\ (at' \in {"texts", "fts", "like"} => at \in {"texts", "fts", "like"})
    BY <1>5 DEF SearchFts, SearchLike, Query, Reading, Returns, ReadsOn, Found
  <2>2. got' = {} \/ \E stage : got' \subseteq Matches(stage)
    BY <1>5 DEF SearchFts, SearchLike, Query, Returns, ReadsOn, Found
  <2>3. call.filter \subseteq Category /\ index = rows
    BY <1>5 DEF SearchFts, SearchLike, Query, ReportInv, FilterInv
  <2>4. \A stage : \A h \in Matches(stage) : h.cat \in Present /\ h.id = rows[h.cat].id
    BY <2>3 DEF Matches, Present
  <2> QED
    BY <1>3, <2>1, <2>2, <2>4, ReadReports
<1>6. CASE SemanticEntries
  <2>1. Reading /\ at \notin {"rows", "versions"} /\ UNCHANGED <<store, call, seen>>
        /\ at' \notin {"change", "value"}
        /\ (at' \in {"texts", "fts", "like"} => at \in {"texts", "fts", "like"})
    BY <1>6 DEF SemanticEntries, Reading, Returns
  <2>2. \A h \in got' : h.cat \in Present /\ h.id = rows[h.cat].id
    BY <1>6 DEF SemanticEntries, Returns, ReportInv, Present
  <2> QED
    BY <1>3, <2>1, <2>2, ReadReports
<1>7. CASE ScanRead
  <2>1. Reading /\ at \notin {"rows", "versions"} /\ UNCHANGED <<store, call, seen>>
        /\ at' \notin {"change", "value"}
        /\ (at' \in {"texts", "fts", "like"} => at \in {"texts", "fts", "like"})
    BY <1>7 DEF ScanRead, Reading, Returns, ReadsOn, Found
  <2>2. got' = {} \/ \E c \in todo : \E hits \in Given(c, "file" \in rows[c].text) : got' = got \cup hits
    BY <1>7 DEF ScanRead, Returns, ReadsOn, Found
  <2> QED
    BY <1>3, <2>1, <2>2, GivenIsPresent, ReadReports
<1>8. CASE ContextRead
  <2>1. Reading /\ at \notin {"rows", "versions"} /\ UNCHANGED <<store, call, seen>>
        /\ at' \notin {"change", "value"}
        /\ (at' \in {"texts", "fts", "like"} => at \in {"texts", "fts", "like"})
    BY <1>8 DEF ContextRead, Reading, Returns, ReadsOn
  <2>2. \E c \in todo : \E hits \in Given(c, TRUE) : got' = got \cup hits
    BY <1>8 DEF ContextRead, Returns, ReadsOn
  <2> QED
    BY <1>3, <2>1, <2>2, GivenIsPresent, ReadReports
<1> QED
  BY <1>1, <1>2, <1>4, <1>5, <1>6, <1>7, <1>8 DEF ReadStep

LEMMA StepReports ==
  ASSUME ServerInv, ReportInv, [Next]_vars  PROVE ReportInv'
<1>1. CASE ChangeCall
  <2>1. /\ got' = {} /\ seen' = NotSeen /\ UNCHANGED store
        /\ at' = "change" /\ call'.tool # "manifest"
    BY <1>1 DEF ChangeCall, Permitted, MemoryWrite, MemoryAppend, MemoryDelete, HandleWrite, HandleDelete,
                BeginsChange
  <2> QED
    BY <2>1, NothingReported DEF ReportInv, Reading, store
<1>2. CASE TxnStep \/ Stage \/ Refused
  <2>1. at = "change"
    BY <1>2 DEF TxnStep, Stage, Refused, Attempt, StillBusy, Wakes, Begun, StatementFails, Waiting,
                ServerInv, CallInv
  <2>2. at' \in {"change", "done"} /\ UNCHANGED <<store, call, todo, got, seen>>
    BY <1>2, <2>1 DEF TxnStep, Stage, Refused, tools
  <2> QED
    BY <2>1, <2>2 DEF ReportInv, SeenInv, ManifestInv, FilterInv, Reading, store
<1>3. CASE Changed
  BY <1>3, ChangedReports
<1>4. CASE MemoryRead \/ MemoryDelta
  <2>1. got' = {} /\ seen' = NotSeen /\ call' = NoCall /\ UNCHANGED store /\ at' \in {"done", "value"}
    BY <1>4 DEF MemoryRead, MemoryDelta, Forget
  <2> QED
    BY <2>1, NothingReported DEF ReportInv, Reading, store, NoCall
<1>5. CASE DeltaValue
  <2>1. at = "value" /\ at' = "done" /\ UNCHANGED <<store, call, todo, got, seen>>
    BY <1>5 DEF DeltaValue
  <2> QED
    BY <2>1 DEF ReportInv, SeenInv, ManifestInv, FilterInv, Reading, store
<1>6. CASE ReadCall
  BY <1>6, ReadCallReports
<1>7. CASE ReadStep
  BY <1>7, ReadStepReports
<1>8. CASE OtherEnds
  BY <1>8, OtherEndsReports
<1>9. CASE Surroundings \/ UNCHANGED vars
  BY <1>9, ReportStays DEF Surroundings, vars
<1> QED
  BY <1>1, <1>2, <1>3, <1>4, <1>5, <1>6, <1>7, <1>8, <1>9 DEF Next

(* A call reports of every category a version it had at some moment of the call, although *)
(* it reads at several; a manifest's version is that of its hash, or a later one.          *)
THEOREM CallsReportWhatWas == Spec => []ReportsAreOfTheCall
<1>1. ServerInv /\ ReportInv /\ [Next]_vars => ReportInv'
  BY StepReports
<1>2. ReportInv => ReportsAreOfTheCall
  BY DEF ReportInv, ManifestInv, Reported, VersionFits, ReportsAreOfTheCall
<1> QED
  BY <1>1, <1>2, InitReport, ServerInvariant, PTL DEF Spec

-----------------------------------------------------------------------------
(* What searches miss. *)

(* A category that stayed as it was and that a stage of the search has not matched. *)
Passed(stage, c) == c \in Present /\ ~Touched(c) => stage \notin rows[c].text

TextInv == \A c \in Present : rows[c].text \subseteq {"fts", "like", "file"}

NoHits == at = "done" /\ got = {}

SearchInv ==
  call.tool = "search" =>
    /\ at \in {"fts", "like", "files", "scan", "done"}
    /\ at \in {"like", "files", "scan"} \/ NoHits =>
         \A c \in call.filter \cap Category : Passed("fts", c)
    /\ at \in {"files", "scan"} \/ NoHits =>
         \A c \in call.filter \cap Category : Passed("like", c)
    /\ at = "scan" => got # {} \/ \A c \in Category \ todo : Passed("file", c)
    /\ NoHits => \A c \in Category : Passed("file", c)

MissInv == TextInv /\ SearchInv

LEMMA InitMiss == Init => MissInv
BY DEF Init, MissInv, TextInv, SearchInv, Present, NoCall

(* Nothing that a search is about changes. *)
LEMMA MissStays ==
  ASSUME MissInv, UNCHANGED <<store, tools>>  PROVE MissInv'
BY DEF store, tools, MissInv, TextInv, SearchInv, NoHits, Passed, Touched, Present

(* Rows are of contents. *)
LEMMA TextStays ==
  ASSUME StoreInv, TextInv, NEW c \in Category, Room(c),
         NEW row \in {NewRow(c, x) : x \in Content} \cup {Absent}, Store(c, row)
  PROVE  TextInv'
<1>1. row # Absent => row.id = commits[c] + 1
  BY NewRowIsNext
<1>2. rows'[c] = row /\ \A d \in Category \ {c} : rows'[d] = rows[d]
  BY <1>1, StoreKeeps
<1>3. row # Absent => row.text \subseteq {"fts", "like", "file"}
  BY ToolsAssumption DEF NewRow
<1> QED
  BY <1>2, <1>3 DEF TextInv, Present

(* A category that another process changes while a call reads is touched. *)
LEMMA CommitTouches ==
  ASSUME ServerInv, ReportInv, NEW c \in Category, OtherCommits(c), Reading
  PROVE  Touched(c)' /\ \A d \in Category \ {c} : rows'[d] = rows[d] /\ seen'[d] = seen[d]
<1>1. PICK row \in {NewRow(c, x) : x \in Content} \cup {Absent} : row # rows[c] /\ Store(c, row)
  BY DEF OtherCommits
<1>2. row # Absent => row.id = commits[c] + 1
  BY <1>1, NewRowIsNext DEF ServerInv, OtherCommits
<1>3. /\ rows'[c] = row /\ \A d \in Category \ {c} : rows'[d] = rows[d]
  BY <1>1, <1>2, StoreKeeps DEF ServerInv
<1>4. Id(c) \in seen[c] /\ IsFiniteSet(seen[c])
  BY DEF ReportInv, SeenInv
<1>5. seen'[c] = seen[c] \cup {Id(c)'} /\ \A d \in Category \ {c} : seen'[d] = seen[d]
  BY <1>4 DEF OtherCommits, ReportInv, SeenInv, Reading
<1>6. Id(c)' # Id(c)
  BY <1>1, <1>2, <1>3, ToolsAssumption DEF Id, ServerInv, StoreInv, Numbered
<1>7. IsFiniteSet(seen'[c]) /\ Id(c) \in seen'[c] /\ Id(c)' \in seen'[c]
  <2>1. IsFiniteSet(seen[c] \cup {Id(c)'})
    BY <1>4, TouchedStays
  <2> QED
    BY <1>4, <1>5, <2>1
<1> QED
  BY <1>3, <1>5, <1>6, <1>7, TwoAreTouched DEF Touched

LEMMA OtherEndsMisses ==
  ASSUME ServerInv, ReportInv, MissInv, OtherEnds  PROVE MissInv'
<1>1. CASE UNCHANGED <<store, tools, client>>
  BY <1>1, MissStays
<1>2. CASE \E c \in Category : OtherCommits(c)
  <2>1. PICK c \in Category : OtherCommits(c)
    BY <1>2
  <2>2. TextInv'
    BY <2>1, TextStays DEF OtherCommits, ServerInv, MissInv
  <2>3. CASE at = "done"
    BY <2>1, <2>2, <2>3 DEF OtherCommits, Forget, NoCall, MissInv, SearchInv
  <2>4. CASE at # "done"
    <3>1. UNCHANGED <<call, at, todo, got>>
      BY <2>1, <2>4 DEF OtherCommits
    <3>2. CASE call.tool # "search"
      BY <2>2, <3>1, <3>2 DEF MissInv, SearchInv
    <3>3. CASE call.tool = "search"
      <4>1. Reading
        BY <2>4, <3>3 DEF MissInv, SearchInv, Reading
      <4>2. ASSUME NEW stage, NEW d \in Category, Passed(stage, d)  PROVE Passed(stage, d)'
        BY <2>1, <4>1, <4>2, CommitTouches DEF Passed, Touched, Present
      <4> QED
        BY <2>2, <2>4, <3>1, <4>2 DEF MissInv, SearchInv, NoHits
    <3> QED
      BY <3>2, <3>3
  <2> QED
    BY <2>3, <2>4
<1> QED
  BY <1>1, <1>2 DEF OtherEnds

LEMMA ReadStepMisses ==
  ASSUME ServerInv, ReportInv, MissInv, ReadStep  PROVE MissInv'
<1>1. UNCHANGED <<store, call, seen>> /\ Reading
  BY DEF ReadStep, SemanticTexts, SearchFts, SearchLike, Query, ScanList, ScanRead,
         SemanticEntries, ContextRead, ListRows, ListStats, ManifestVersion, Reading
<1>2. TextInv'
  BY <1>1 DEF MissInv, TextInv, Present, store
<1>3. CASE call.tool # "search"
  BY <1>1, <1>2, <1>3 DEF MissInv, SearchInv
<1>4. CASE call.tool = "search"
  <2>1. \A stage : \A c \in Category : Passed(stage, c)' <=> Passed(stage, c)
    BY <1>1 DEF Passed, Present, Touched, store
  <2>2. at \in {"fts", "like", "files", "scan"} /\ \A hits : Found(hits) <=> Returns(hits)
    BY <1>1, <1>4 DEF MissInv, SearchInv, Reading, Found
  <2>3. Most = Limit /\ Limit \in Nat \ {0}
    BY <1>4, ToolsAssumption DEF Most
  <2>4. \A stage : Matches(stage) = {} => \A c \in call.filter \cap Category : Passed(stage, c)
    BY DEF Matches, Passed, Present, ReportInv
  <2>5. CASE at = "fts"
    <3>1. SearchFts
      BY <2>5 DEF ReadStep, SemanticTexts, SearchFts, SearchLike, Query, ScanList, ScanRead,
         SemanticEntries, ContextRead, ListRows, ListStats, ManifestVersion
    <3>2. CASE Matches("fts") = {}
      <4>1. at' = "like"
        BY <3>1, <3>2 DEF SearchFts, Query, ReadsOn
      <4> QED
        BY <1>1, <1>2, <2>1, <2>4, <3>2, <4>1 DEF MissInv, SearchInv, NoHits
    <3>3. CASE Matches("fts") # {}
      <4>1. PICK hits \in (SUBSET Matches("fts")) \ {{}} : Found(hits)
        BY <3>1, <3>3, Zenon DEF SearchFts, Query
      <4>2. at' = "done" /\ got' = hits
        BY <1>4, <4>1 DEF Found, Returns
      <4> QED
        BY <1>1, <1>2, <4>2 DEF MissInv, SearchInv, NoHits
    <3> QED
      BY <3>2, <3>3
  <2>6. CASE at = "like"
    <3>1. SearchLike
      BY <2>6 DEF ReadStep, SemanticTexts, SearchFts, SearchLike, Query, ScanList, ScanRead,
         SemanticEntries, ContextRead, ListRows, ListStats, ManifestVersion
    <3>2. CASE Matches("like") = {}
      <4>1. at' = "files"
        BY <3>1, <3>2 DEF SearchLike, Query, ReadsOn
      <4> QED
        BY <1>1, <1>2, <1>4, <2>1, <2>4, <2>6, <3>2, <4>1 DEF MissInv, SearchInv, NoHits
    <3>3. CASE Matches("like") # {}
      <4>1. PICK hits \in (SUBSET Matches("like")) \ {{}} : Found(hits)
        BY <3>1, <3>3, Zenon DEF SearchLike, Query
      <4>2. at' = "done" /\ got' = hits
        BY <1>4, <4>1 DEF Found, Returns
      <4> QED
        BY <1>1, <1>2, <4>2 DEF MissInv, SearchInv, NoHits
    <3> QED
      BY <3>2, <3>3
  <2>7. CASE at = "files"
    <3>1. ScanList
      BY <2>7 DEF ReadStep, SemanticTexts, SearchFts, SearchLike, Query, ScanList, ScanRead,
         SemanticEntries, ContextRead, ListRows, ListStats, ManifestVersion
    <3>2. \A c \in call.filter \cap Category : Passed("fts", c) /\ Passed("like", c)
      BY <1>4, <2>7 DEF MissInv, SearchInv
    <3>3. \A c \in Category \ Present : Passed("file", c)
      BY DEF Passed
    <3>4. CASE Present = {}
      <4>1. at' = "done" /\ got' = {}
        BY <2>2, <3>1, <3>4 DEF ScanList, Returns
      <4> QED
        BY <1>1, <1>2, <2>1, <3>2, <3>3, <3>4, <4>1 DEF MissInv, SearchInv, NoHits
    <3>5. CASE Present # {}
      <4>1. at' = "scan" /\ todo' = Present
        BY <3>1, <3>5 DEF ScanList, ReadsOn
      <4> QED
        BY <1>1, <1>2, <2>1, <3>2, <3>3, <4>1 DEF MissInv, SearchInv, NoHits
    <3> QED
      BY <3>4, <3>5
  <2>8. CASE at = "scan"
    <3>1. ScanRead
      BY <2>8 DEF ReadStep, SemanticTexts, SearchFts, SearchLike, Query, ScanList, ScanRead,
         SemanticEntries, ContextRead, ListRows, ListStats, ManifestVersion
    <3>2. /\ \A c \in call.filter \cap Category : Passed("fts", c) /\ Passed("like", c)
          /\ got # {} \/ \A c \in Category \ todo : Passed("file", c)
      BY <1>4, <2>8 DEF MissInv, SearchInv
    <3>3. PICK c \in todo : \E hits \in Given(c, "file" \in rows[c].text) :
            /\ got' = got \cup hits
            /\ \/ at' = "done" /\ (todo = {c} \/ Cardinality(got \cup hits) >= Most \/ hits # {})
               \/ at' = "scan" /\ todo' = todo \ {c}
      BY <2>2, <3>1 DEF ScanRead, Returns, ReadsOn
    <3>4. PICK hits \in Given(c, "file" \in rows[c].text) :
            /\ got' = got \cup hits
            /\ \/ at' = "done" /\ (todo = {c} \/ Cardinality(got \cup hits) >= Most \/ hits # {})
               \/ at' = "scan" /\ todo' = todo \ {c}
      BY <3>3
    <3>5. CASE got' # {}
      BY <1>1, <1>2, <2>1, <3>2, <3>4, <3>5 DEF MissInv, SearchInv, NoHits
    <3>6. CASE got' = {}
      <4>1. got = {} /\ hits = {} /\ ~(Cardinality(got \cup hits) >= Most)
        BY <2>3, <3>4, <3>6, FS_EmptySet
      <4>2. Passed("file", c)
        BY <4>1 DEF Given, Passed, Hit
      <4>3. \A d \in (Category \ todo) \cup {c} : Passed("file", d)
        BY <3>2, <4>1, <4>2
      <4>4. CASE at' = "done"
        <5>1. \A d \in Category : Passed("file", d)
          BY <3>4, <4>1, <4>3, <4>4
        <5> QED
          BY <1>1, <1>2, <2>1, <3>2, <3>6, <4>4, <5>1 DEF MissInv, SearchInv, NoHits
      <4>5. CASE at' = "scan"
        <5>1. \A d \in Category \ todo' : Passed("file", d)
          BY <3>4, <4>3, <4>5
        <5> QED
          BY <1>1, <1>2, <2>1, <3>2, <4>5, <5>1 DEF MissInv, SearchInv, NoHits
      <4> QED
        BY <3>4, <4>4, <4>5
    <3> QED
      BY <3>5, <3>6
  <2> QED
    BY <2>2, <2>5, <2>6, <2>7, <2>8
<1> QED
  BY <1>3, <1>4

LEMMA StepMisses ==
  ASSUME ServerInv, ReportInv, MissInv, [Next]_vars  PROVE MissInv'
<1> USE DEF MissInv, SearchInv, NoHits
<1>1. CASE ChangeCall
  <2>1. call'.tool # "search" /\ UNCHANGED store
    BY <1>1 DEF ChangeCall, Permitted, MemoryWrite, MemoryAppend, MemoryDelete, HandleWrite, HandleDelete,
                BeginsChange
  <2> QED
    BY <2>1 DEF store, TextInv, Present
<1>2. CASE TxnStep \/ Stage \/ Refused
  <2>1. at = "change" /\ UNCHANGED store /\ call' = call
    BY <1>2 DEF TxnStep, Stage, Refused, Attempt, StillBusy, Wakes, Begun, StatementFails, Waiting,
                ServerInv, CallInv, tools
  <2> QED
    BY <2>1 DEF store, TextInv, Present
<1>3. CASE Changed
  <2>1. at = "change" /\ call' = call /\ call.cat \in Category /\ Room(call.cat)
    BY <1>3 DEF Changed, Committed, ServerInv, CallInv
  <2>2. PICK row \in Outcomes(call.cat) :
          IF row = rows[call.cat] THEN UNCHANGED store ELSE Store(call.cat, row)
    BY <1>3 DEF Changed
  <2>3. row \in {NewRow(call.cat, x) : x \in Content} \cup {Absent}
    BY DEF Outcomes
  <2>4. TextInv'
    <3>1. CASE row = rows[call.cat]
      BY <2>2, <3>1 DEF store, TextInv, Present
    <3>2. CASE row # rows[call.cat]
      BY <2>1, <2>2, <2>3, <3>2, TextStays DEF ServerInv
    <3> QED
      BY <3>1, <3>2
  <2> QED
    BY <2>1, <2>4
<1>4. CASE MemoryRead \/ MemoryDelta
  BY <1>4 DEF MemoryRead, MemoryDelta, Forget, NoCall, store, TextInv, Present
<1>5. CASE DeltaValue
  BY <1>5 DEF DeltaValue, store, TextInv, Present
<1>6. CASE ReadCall
  <2>1. UNCHANGED store /\ (call'.tool = "search" => at' = "fts")
    BY <1>6 DEF ReadCall, SearchCall, SemanticCall, ContextCall, ListCall, ManifestCall, BeginsReading
  <2> QED
    BY <2>1 DEF store, TextInv, Present
<1>7. CASE ReadStep
  BY <1>7, ReadStepMisses
<1>8. CASE OtherEnds
  BY <1>8, OtherEndsMisses
<1>9. CASE Surroundings \/ UNCHANGED vars
  BY <1>9, MissStays DEF Surroundings, vars
<1> QED
  BY <1>1, <1>2, <1>3, <1>4, <1>5, <1>6, <1>7, <1>8, <1>9 DEF Next

(* A search that reports nothing has missed nothing that stayed as it was while it ran,   *)
(* for any number of categories, although its stages look at different instants.          *)
THEOREM SearchesMissNothing == Spec => []NothingIsMissed
<1>1. ServerInv /\ ReportInv /\ MissInv /\ [Next]_vars => MissInv'
  BY StepMisses
<1>2. ServerInv /\ ReportInv /\ [Next]_vars => ReportInv'
  BY StepReports
<1>3. MissInv => NothingIsMissed
  BY DEF MissInv, TextInv, SearchInv, NoHits, Passed, Present, NothingIsMissed
<1> QED
  BY <1>1, <1>2, <1>3, InitMiss, InitReport, ServerInvariant, PTL DEF Spec
=============================================================================
