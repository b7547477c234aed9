------------------------- MODULE CategoryStoreSteps -------------------------
(***************************************************************************)
(* Every action of the write protocol preserves the types and the          *)
(* inductive invariant: one lemma per action, in it one step per conjunct  *)
(* of CoreInv.  The last section adds what a power loss may bring back.    *)
(***************************************************************************)
EXTENDS CategoryStoreInvariant, TLAPS

-----------------------------------------------------------------------------
(* Types, action by action, and facts about the helpers. *)


\* Processes work one call at a time: two of them never name a file alike.
LEMMA FileNamesAreUnique ==
  ASSUME TypeOK, NEW p \in Writers, NEW q \in Writers, p # q
  PROVE  MyFile(p) # MyFile(q)
BY DEF MyFile

\* An outcome is a content, except for a delete.
LEMMA OutcomeIsContent ==
  ASSUME NEW r \in Request, NEW v \in Content \cup {Absent}, r.kind \in Kinds \ {"clear", "delete"},
         r.kind \in ValueKinds => r.value \in Incoming,
         r.kind \in TokenKinds => r.token \in Token
  PROVE  Outcome(r, v) \in Content
<1>1. CASE r.kind \in ValueKinds
  BY <1>1, ConstantsAssumption DEF Outcome
<1>2. CASE r.kind \notin ValueKinds
  <2>1. r.kind \in TokenKinds
    BY <1>2, ConstantsAssumption DEF AllKinds, LocalKinds, ValueKinds, TokenKinds
  <2>2. Items(v) \cup {r.token} \subseteq Token
    BY <2>1 DEF Items, Content
  <2>3. QED
    BY <1>2, <2>1, <2>2 DEF Outcome, Content, TokenKinds
<1>3. QED
  BY <1>1, <1>2

\* prune_versions yields a sequence made of the newest entries.
LEMMA NewestIsSuffix ==
  ASSUME NEW h \in Seq(Content)
  PROVE  /\ Newest(h) \in Seq(Content)
         /\ \A i \in DOMAIN Newest(h) : \E j \in DOMAIN h : Newest(h)[i] = h[j]
<1> DEFINE first == IF Len(h) <= MaxVersions THEN 1 ELSE Len(h) - MaxVersions + 1
<1>1. first \in 1 .. (Len(h) + 1)
  BY ConstantsAssumption
<1>2. Newest(h) = SubSeq(h, first, Len(h))
  BY DEF Newest
<1> HIDE DEF first
<1>3. \A i \in DOMAIN Newest(h) : /\ first + i - 1 \in DOMAIN h
                                   /\ Newest(h)[i] = h[first + i - 1]
  BY <1>1, <1>2
<1>4. QED
  BY <1>1, <1>2, <1>3

-----------------------------------------------------------------------------
(* Type correctness, action by action. *)

\* Leaving a call keeps the per-process variables well-typed.
LEMMA LeaveTyped ==
  ASSUME TypeOK, NEW p \in Writers, NEW where \in PC, Leave(p, where)
  PROVE  /\ pc' \in [Writers -> PC] /\ op' \in [Writers -> Request]
         /\ todo' \in [Writers -> SUBSET Category]
         /\ new' \in [Writers -> Content \cup {Absent}]
<1>1. NoRequest \in Request
  BY DEF NoRequest, Request
<1>2. QED
  BY <1>1 DEF Leave, TypeOK

\* Whatever a step makes of the directory, at most its last state is added to what
\* a power loss may bring back.
LEMMA RememberAddsDir ==
  ASSUME TypeOK, Remember \/ SyncDir \/ UNCHANGED unsynced
  PROVE  /\ unsynced' = [c \in Category |-> unsynced'[c]]
         /\ \A c \in Category : unsynced'[c] \subseteq unsynced[c] \cup {Dir(c)}
<1>1. CASE Remember
  <2>1. unsynced' = [c \in Category |-> IF PowerCuts /\ Dir(c)' # Dir(c)
                                        THEN unsynced[c] \cup {Dir(c)} ELSE unsynced[c]]
    BY <1>1 DEF Remember
  <2>2. QED
    BY <2>1, Zenon
<1>2. CASE SyncDir
  BY <1>2 DEF SyncDir
<1>3. CASE UNCHANGED unsynced
  BY <1>3 DEF TypeOK
<1>4. QED
  BY <1>1, <1>2, <1>3

\* What is remembered of the directory is well-typed.
LEMMA RememberTyped ==
  ASSUME TypeOK, Remember \/ SyncDir \/ UNCHANGED unsynced
  PROVE  unsynced' \in [Category -> SUBSET DirState]
<1>1. \A c \in Category : Dir(c) \in DirState
  BY DEF TypeOK, Dir, DirState
<1>2. \A c \in Category : unsynced'[c] \in SUBSET DirState
  BY <1>1, RememberAddsDir DEF TypeOK
<1>3. QED
  BY <1>2, RememberAddsDir

LEMMA TypeCall ==
  ASSUME TypeOK, NEW p \in Writers, Call(p)
  PROVE  TypeOK'
<1>1. PICK k \in Kinds, c \in Category, t \in Token \cup {Absent}, v \in Incoming \cup {Absent} :
        \E e \in {Absent, db[c].row} :
          LET r == [kind |-> k, cat |-> c, token |-> t, value |-> v, expected |-> e]
          IN  /\ WellFormed(r)
              /\ op'   = [op   EXCEPT ![p] = r]
              /\ todo' = [todo EXCEPT ![p] = IF k = "clear" THEN {} ELSE {c}]
  BY DEF Call
<1>2. PICK e \in {Absent, db[c].row} :
        /\ op'   = [op   EXCEPT ![p] = [kind |-> k, cat |-> c, token |-> t, value |-> v, expected |-> e]]
        /\ todo' = [todo EXCEPT ![p] = IF k = "clear" THEN {} ELSE {c}]
  BY <1>1
<1>3. db[c].row \in Content \cup {Absent}
  BY DEF TypeOK, Row
<1>4. [kind |-> k, cat |-> c, token |-> t, value |-> v, expected |-> e] \in Request
  BY <1>3, ConstantsAssumption DEF Request
<1>5. nops'[p] \in 0 .. MaxOps
  BY ConstantsAssumption DEF Call, TypeOK
<1>6. QED
  BY <1>2, <1>4, <1>5 DEF Call, TypeOK, files, PC

LEMMA TypeSettle ==
  ASSUME TypeOK, NEW p \in Writers, Settle(p)
  PROVE  TypeOK'
<1>1. PICK c \in Category : \/ \E f \in staged[c] : SettleStaged(p, c, f) \/ SettleFails(p, c, f)
                            \/ \E f \in parked[c] : SettleParked(p, c, f)
  BY DEF Settle
<1>2. CASE \E f \in staged[c] : SettleStaged(p, c, f)
  <2>1. unsynced' \in [Category -> SUBSET DirState]
    BY <1>2, RememberTyped DEF SettleStaged
  <2>2. PICK f \in staged[c] : SettleStaged(p, c, f)
    BY <1>2
  <2>3. final' \in [Category -> Content \cup {Absent}]
    BY <2>2 DEF SettleStaged, TypeOK, Row
  <2>4. QED
    BY <2>1, <2>2, <2>3 DEF SettleStaged, TypeOK
<1>3. CASE \E f \in staged[c] : SettleFails(p, c, f)
  <2>1. PICK where \in PC : Leave(p, where)
    BY <1>3 DEF SettleFails, Fail, PC
  <2>2. QED
    BY <1>3, <2>1, LeaveTyped DEF SettleFails, Unlock, TypeOK, files
<1>4. CASE \E f \in parked[c] : SettleParked(p, c, f)
  <2>1. PICK f \in parked[c] : SettleParked(p, c, f)
    BY <1>4
  <2>2. f.data \in Content
    BY DEF TypeOK, Parking
  <2>3. final' \in [Category -> Content \cup {Absent}] /\ backups' \in [Category -> SUBSET Content]
    BY <2>1, <2>2 DEF SettleParked, TypeOK
  <2>4. unsynced' \in [Category -> SUBSET DirState]
    BY <2>1, RememberTyped DEF SettleParked
  <2>5. QED
    BY <2>1, <2>3, <2>4 DEF SettleParked, TypeOK
<1>5. QED
  BY <1>1, <1>2, <1>3, <1>4

LEMMA TypeStage ==
  ASSUME CoreInv, NEW p \in Writers, StageOpen(p) \/ StageDone(p) \/ Park(p)
  PROVE  TypeOK'
<1> USE DEF CoreInv
<1>1. CASE StageOpen(p)
  <2> DEFINE c == op[p].cat
  <2>1. /\ op[p].kind \in Kinds \ {"clear", "delete"} /\ c \in Category
        /\ op[p].kind \in ValueKinds => op[p].value \in Incoming
        /\ op[p].kind \in TokenKinds => op[p].token \in Token
    BY <1>1 DEF StageOpen, Settled, RequestInv
  <2>2. op[p] \in Request /\ Current(c) \in Content \cup {Absent}
    BY <2>1 DEF TypeOK, Row, Current
  <2>3. Outcome(op[p], Current(c)) \in Content
    BY <2>1, <2>2, OutcomeIsContent
  <2>4. MyFile(p) \in FileId
    BY DEF MyFile, FileId, TypeOK
  <2>5. PICK t \in Tears : staged' = [staged EXCEPT ![c] = @ \cup {[id |-> MyFile(p), data |-> t]}]
    BY <1>1 DEF StageOpen
  <2>6. staged' \in [Category -> SUBSET Staging]
    BY <2>1, <2>4, <2>5 DEF TypeOK, Staging
  <2>7. backups' \in [Category -> SUBSET Content]
    BY <1>1, <2>1 DEF StageOpen, TypeOK
  <2>8. new' \in [Writers -> Content \cup {Absent}]
    BY <1>1, <2>3 DEF StageOpen, TypeOK
  <2>9. pc' \in [Writers -> PC]
    BY <1>1 DEF StageOpen, TypeOK, PC
  <2>10. unsynced' \in [Category -> SUBSET DirState]
    BY <1>1, RememberTyped DEF StageOpen
  <2>11. QED
    BY <1>1, <2>6, <2>7, <2>8, <2>9, <2>10 DEF StageOpen, TypeOK
<1>2. CASE StageDone(p)
  <2> DEFINE c == op[p].cat
  <2>1. c \in Category /\ new[p] \in Content
    BY <1>2 DEF StageDone, RequestInv, WritingInv, At
  <2>2. [id |-> MyFile(p), data |-> new[p]] \in Staging
    BY <2>1 DEF MyFile, FileId, Staging, TypeOK
  <2>3. staged' \in [Category -> SUBSET Staging]
    BY <1>2, <2>1, <2>2 DEF StageDone, TypeOK
  <2>4. unsynced' \in [Category -> SUBSET DirState]
    BY <1>2, RememberTyped DEF StageDone
  <2>5. QED
    BY <1>2, <2>3, <2>4 DEF StageDone, TypeOK, PC
<1>3. CASE Park(p)
  <2> DEFINE c == op[p].cat
  <2>1. c \in Category
    BY <1>3 DEF Park, Settled, RequestInv
  <2>2. {[id |-> MyFile(p), data |-> d] : d \in {final[c]} \ {Absent}} \subseteq Parking
    BY <2>1 DEF MyFile, FileId, Parking, TypeOK
  <2>3. parked' \in [Category -> SUBSET Parking]
    BY <1>3, <2>1, <2>2 DEF Park, TypeOK
  <2>4. unsynced' \in [Category -> SUBSET DirState]
    BY <1>3, RememberTyped DEF Park
  <2>5. QED
    BY <1>3, <2>3, <2>4 DEF Park, TypeOK, PC
<1>4. QED
  BY <1>1, <1>2, <1>3

\* A commit writes a well-formed row.
LEMMA WrittenTyped ==
  ASSUME NEW r \in Request, NEW old \in Row, NEW v \in Content \cup {Absent},
         r.kind # "delete" => v \in Content
  PROVE  Written(r, old, v) \in Row
<1>1. CASE r.kind = "delete"
  BY <1>1 DEF Written, Row
<1>2. CASE r.kind # "delete"
  <2>1. v \in Content /\ Append(old.history, v) \in Seq(Content)
    BY <1>2 DEF Row
  <2>2. Newest(Append(old.history, v)) \in Seq(Content)
    BY <2>1, NewestIsSuffix
  <2>3. QED
    BY <1>2, <2>1, <2>2 DEF Written, Row
<1>3. QED
  BY <1>1, <1>2

LEMMA TypeCommit ==
  ASSUME CoreInv, NEW p \in Writers, Commit(p) \/ ClearDirty(p)
  PROVE  TypeOK'
<1> USE DEF CoreInv
<1> DEFINE c == op[p].cat
<1>1. CASE Commit(p)
  <2>1. c \in Category /\ op[p] \in Request /\ db[c] \in Row /\ new[p] \in Content \cup {Absent}
    BY <1>1 DEF Commit, RequestInv, TypeOK
  <2>2. op[p].kind # "delete" => new[p] \in Content
    BY <1>1, <2>1 DEF Commit, PreparedInv, At
  <2>3. Written(op[p], db[c], new[p]) \in Row
    BY <2>1, <2>2, WrittenTyped
  <2>4. db' \in [Category -> Row]
    BY <1>1, <2>1, <2>3 DEF Commit, TypeOK
  <2>5. QED
    BY <1>1, <2>4 DEF Commit, Unlock, TypeOK, PC, files
<1>2. CASE ClearDirty(p)
  <2>1. c \in Category
    BY <1>2 DEF ClearDirty, Settled, RequestInv, TypeOK
  <2>2. db' \in [Category -> Row]
    <3>1. db[c] \in Row
      BY <2>1 DEF TypeOK
    <3> HIDE DEF c
    <3>2. [db[c] EXCEPT !.dirty = "clean"] \in Row
      BY <3>1 DEF Row
    <3>3. db' = [db EXCEPT ![c] = [db[c] EXCEPT !.dirty = "clean"]]
      BY <1>2 DEF ClearDirty, c
    <3>4. QED
      BY <2>1, <3>2, <3>3 DEF TypeOK
  <2>3. Leave(p, "idle") /\ "idle" \in PC
    BY <1>2 DEF ClearDirty, PC
  <2>4. QED
    BY <1>2, <2>2, <2>3, LeaveTyped DEF ClearDirty, Unlock, TypeOK, files
<1>3. QED
  BY <1>1, <1>2

LEMMA TypePromote ==
  ASSUME CoreInv, NEW p \in Writers, Promote(p) \/ PromoteDelete(p) \/ PromoteFails(p)
  PROVE  TypeOK'
<1> USE DEF CoreInv
<1> DEFINE c == op[p].cat
<1>1. Leave(p, "idle") /\ "idle" \in PC /\ c \in Category
  BY DEF Promote, PromoteDelete, PromoteFails, PC, RequestInv
<1>2. CASE Promote(p)
  <2>1. \A f \in Mine(p, staged[c]) : f.data \in Content
    <3>1. db[c].row \in Content \cup {Absent}
      BY <1>1 DEF TypeOK, Row
    <3>2. \A f \in Mine(p, staged[c]) : f.data = db[c].row /\ f.data \in Content \cup Tears
      BY <1>1, <1>2 DEF Promote, CommittedInv, At, Mine, TypeOK, Staging, RowOf
    <3>3. QED
      BY <3>1, <3>2, ConstantsAssumption
  <2>2. unsynced' \in [Category -> SUBSET DirState]
    BY <1>2, RememberTyped DEF Promote
  <2>3. final' \in [Category -> Content \cup {Absent}] /\ staged' \in [Category -> SUBSET Staging]
    BY <1>1, <1>2, <2>1 DEF Promote, TypeOK
  <2>4. QED
    BY <1>1, <1>2, <2>2, <2>3, LeaveTyped DEF Promote, TypeOK
<1>3. CASE PromoteDelete(p)
  <2>1. Data(Mine(p, parked[c])) \subseteq Content
    BY <1>1 DEF Data, Mine, TypeOK, Parking
  <2>2. unsynced' \in [Category -> SUBSET DirState]
    BY <1>3, RememberTyped DEF PromoteDelete
  <2>3. QED
    BY <1>1, <1>3, <2>1, <2>2, LeaveTyped DEF PromoteDelete, TypeOK
<1>4. CASE PromoteFails(p)
  BY <1>1, <1>4, LeaveTyped DEF PromoteFails, TypeOK, files
<1>5. QED
  BY <1>2, <1>3, <1>4

\* The actions that only move the lock, leave a call or restart a process.
LEMMA TypeControl ==
  ASSUME TypeOK, NEW p \in Writers,
         \/ Acquire(p) \/ GiveUp(p) \/ SettleError(p) \/ FinishOpen(p) \/ Refuse(p)
         \/ Abort(p) \/ Crash(p) \/ Open(p)
  PROVE  TypeOK'
<1>1. CASE Acquire(p)
  BY <1>1 DEF Acquire, TypeOK, PC, files
<1>2. CASE GiveUp(p) \/ FinishOpen(p) \/ Refuse(p) \/ Abort(p)
  <2>1. PICK where \in PC : Leave(p, where)
    BY <1>2 DEF GiveUp, Fail, FinishOpen, Refuse, Abort, PC
  <2>2. lock' \in Writers \cup {NoWriter} /\ UNCHANGED <<db, stable, files, nops, crashes>>
    BY <1>2 DEF GiveUp, FinishOpen, Refuse, Abort, Unlock, TypeOK
  <2>3. QED
    BY <2>1, <2>2, LeaveTyped DEF TypeOK, files
<1>3. CASE Crash(p) \/ SettleError(p)
  <2>1. PICK where \in PC : Leave(p, where)
    BY <1>3 DEF Crash, SettleError, Fail, PC
  <2>2. crashes' \in 0 .. MaxCrashes /\ lock' \in Writers \cup {NoWriter}
    BY <1>3, ConstantsAssumption DEF Crash, SettleError, Unlock, TypeOK
  <2>3. QED
    BY <1>3, <2>1, <2>2, LeaveTyped DEF Crash, SettleError, TypeOK, files
<1>4. CASE Open(p)
  <2> DEFINE names == {c \in Category : Pending(c)}
  <2>1. CASE names = {}
    <3>1. Leave(p, "idle") /\ "idle" \in PC
      BY <1>4, <2>1 DEF Open, PC
    <3>2. QED
      BY <1>4, <3>1, LeaveTyped DEF Open, TypeOK, files
  <2>2. CASE names # {}
    <3>1. OpenRequest \in Request
      BY DEF OpenRequest, NoRequest, Request
    <3>2. QED
      BY <1>4, <2>2, <3>1 DEF Open, TypeOK, PC, files
  <2>3. QED
    BY <2>1, <2>2
<1>5. QED
  BY <1>1, <1>2, <1>3, <1>4

\* A power loss leaves, of each category, some state of the directory that was
\* remembered or is there.
LEMMA PowerLossLeaves ==
  ASSUME PowerLoss
  PROVE  \E left \in [Category -> UNION {unsynced[c] \cup {Dir(c)} : c \in Category}] :
           /\ \A c \in Category : left[c] \in unsynced[c] \cup {Dir(c)}
           /\ final'  = [c \in Category |-> left[c].final]
           /\ staged' = [c \in Category |-> left[c].staged]
           /\ parked' = [c \in Category |-> left[c].parked]
BY DEF PowerLoss

LEMMA TypeMachine ==
  ASSUME TypeOK, PowerLoss \/ Checkpoint
  PROVE  TypeOK'
<1>1. CASE PowerLoss
  <2>1. NoRequest \in Request /\ "down" \in PC
    BY DEF NoRequest, Request, PC
  <2>2. crashes' \in 0 .. MaxCrashes
    BY <1>1, ConstantsAssumption DEF PowerLoss, TypeOK
  <2>3. backups' \in [Category -> SUBSET Content]
    BY <1>1 DEF PowerLoss, TypeOK
  <2>4. PICK left \in [Category -> UNION {unsynced[c] \cup {Dir(c)} : c \in Category}] :
           /\ \A c \in Category : left[c] \in unsynced[c] \cup {Dir(c)}
           /\ final'  = [c \in Category |-> left[c].final]
           /\ staged' = [c \in Category |-> left[c].staged]
           /\ parked' = [c \in Category |-> left[c].parked]
    BY <1>1, PowerLossLeaves
  <2>5. \A c \in Category : left[c] \in DirState
    <3>1. \A c \in Category : Dir(c) \in DirState /\ unsynced[c] \subseteq DirState
      BY DEF TypeOK, Dir, DirState
    <3>2. QED
      BY <2>4, <3>1
  <2>6. /\ final'  \in [Category -> Content \cup {Absent}]
        /\ staged' \in [Category -> SUBSET Staging]
        /\ parked' \in [Category -> SUBSET Parking]
    <3>1. \A d \in DirState : /\ d.final \in Content \cup {Absent}
                              /\ d.staged \in SUBSET Staging /\ d.parked \in SUBSET Parking
      BY DEF DirState
    <3>2. QED
      BY <2>4, <2>5, <3>1
  <2>7. unsynced' \in [Category -> SUBSET DirState]
    BY <1>1, RememberTyped DEF PowerLoss
  <2>8. QED
    BY <1>1, <2>1, <2>2, <2>3, <2>6, <2>7 DEF PowerLoss, TypeOK
<1>2. CASE Checkpoint
  BY <1>2 DEF Checkpoint, TypeOK, files
<1>3. QED
  BY <1>1, <1>2

-----------------------------------------------------------------------------
(* The inductive invariant, action by action. *)

\* After settling, the category of a call is clean: one file, and it is the row.
LEMMA SettledIsClean ==
  ASSUME CoreInv, NEW p \in Writers, NEW c \in Category, Settled(p), op[p].cat = c,
         op[p].kind \notin {"open", "clear"}
  PROVE  /\ staged[c] = {} /\ parked[c] = {}
         /\ final[c] = RowOf(c) /\ Current(c) = RowOf(c)
<1> USE DEF CoreInv
<1>1. todo[p] = {c}
  BY DEF Settled, RequestInv
<1>2. staged[c] = {} /\ parked[c] = {}
  BY <1>1 DEF Settled, Pending
<1>3. final[c] = RowOf(c)
  BY <1>2 DEF ShapeInv, Shape, Fits
<1>4. QED
  BY <1>2, <1>3 DEF Current, RowOf

\* Inside a transaction a process is alone.
LEMMA AloneInTxn ==
  ASSUME CoreInv, NEW p \in Writers, InTxn(p), NEW q \in Writers, q # p
  PROVE  lock = p /\ ~InTxn(q)
BY DEF CoreInv, LockInv

\* Accepting a call touches no file and no row.
LEMMA StepCall ==
  ASSUME CoreInv, TypeOK', NEW p \in Writers, Call(p)
  PROVE  CoreInv'
<1> USE DEF CoreInv, files
<1>1. LockInv'
  BY DEF Call, LockInv, InTxn, TypeOK
<1>2. RequestInv'
  <2>1. PICK k \in Kinds, cat \in Category, t \in Token \cup {Absent}, v \in Incoming \cup {Absent} :
          \E e \in {Absent, db[cat].row} :
            LET r == [kind |-> k, cat |-> cat, token |-> t, value |-> v, expected |-> e]
            IN  /\ WellFormed(r)
                /\ op'   = [op   EXCEPT ![p] = r]
                /\ todo' = [todo EXCEPT ![p] = IF k = "clear" THEN {} ELSE {cat}]
    BY DEF Call
  <2>2. PICK e \in {Absent, db[cat].row} :
          LET r == [kind |-> k, cat |-> cat, token |-> t, value |-> v, expected |-> e]
          IN  /\ WellFormed(r)
              /\ op'   = [op   EXCEPT ![p] = r]
              /\ todo' = [todo EXCEPT ![p] = IF k = "clear" THEN {} ELSE {cat}]
    BY <2>1
  <2>3. op'[p] = [kind |-> k, cat |-> cat, token |-> t, value |-> v, expected |-> e]
    BY <2>2 DEF TypeOK
  <2>4. /\ e # Absent => k \in CasKinds
        /\ k \in ValueKinds => v \in Incoming
        /\ k \in TokenKinds => t \in Token
        /\ k # "clear" => todo'[p] = {cat}
    BY <2>2 DEF WellFormed, TypeOK
  <2>5. pc'[p] = "waiting" /\ new' = new /\ pc[p] = "idle"
    BY DEF Call, TypeOK
  <2>6. \A q \in Writers \ {p} : pc'[q] = pc[q] /\ op'[q] = op[q] /\ todo'[q] = todo[q]
    BY <2>2 DEF Call, TypeOK
  <2>7. QED
    BY <2>3, <2>4, <2>5, <2>6 DEF RequestInv
<1>3. ShapeInv'
  BY DEF Call, ShapeInv, Shape, Fits, RowOf, TypeOK
<1>4. WritingInv'
  <2>1. \A q \in Writers, d \in Category : At(q, "writing", d)' =>
          /\ At(q, "writing", d)
          /\ op'[q] = op[q] /\ nops'[q] = nops[q] /\ new'[q] = new[q]
    BY DEF Call, At, TypeOK
  <2>2. UNCHANGED <<db, final, staged, parked>>
    BY DEF Call
  <2>3. QED
    BY <2>1, <2>2 DEF WritingInv, MyFiles, MyFile, RowOf
<1>5. PreparedInv'
  <2>1. \A q \in Writers, d \in Category : At(q, "prepared", d)' =>
          /\ At(q, "prepared", d)
          /\ op'[q] = op[q] /\ nops'[q] = nops[q] /\ new'[q] = new[q]
    BY DEF Call, At, TypeOK
  <2>2. UNCHANGED <<db, final, staged, parked>>
    BY DEF Call
  <2>3. QED
    BY <2>1, <2>2 DEF PreparedInv, MyFiles, MyFile, RowOf
<1>6. DecisionInv'
  BY DEF Call, DecisionInv, At, RowOf, TypeOK, LockInv, InTxn
<1>7. CommittedInv'
  <2>1. \A q \in Writers, d \in Category : At(q, "committed", d)' =>
          /\ At(q, "committed", d)
          /\ op'[q] = op[q] /\ nops'[q] = nops[q] /\ new'[q] = new[q]
    BY DEF Call, At, TypeOK
  <2>2. UNCHANGED <<db, final, staged, parked>>
    BY DEF Call
  <2>3. QED
    BY <2>1, <2>2 DEF CommittedInv, Mine, MyFile, RowOf
<1>8. HistoryInv'
  BY DEF Call, HistoryInv, RowOf, TypeOK
<1>9. StableInv'
  BY DEF Call, StableInv, TypeOK
<1>10. QED
  BY <1>1, <1>2, <1>3, <1>4, <1>5, <1>6, <1>7, <1>8, <1>9

\* Taking the free lock.
LEMMA StepAcquire ==
  ASSUME CoreInv, TypeOK', NEW p \in Writers, Acquire(p)
  PROVE  CoreInv'
<1> USE DEF CoreInv, files
<1>1. LockInv'
  BY ConstantsAssumption DEF Acquire, LockInv, InTxn, TypeOK
<1>2. RequestInv'
  BY DEF Acquire, RequestInv, NoRequest, TypeOK
<1>3. ShapeInv'
  BY DEF Acquire, ShapeInv, Shape, Fits, RowOf, TypeOK
<1>4. WritingInv'
  BY DEF Acquire, WritingInv, At, MyFiles, MyFile, RowOf, TypeOK, LockInv, InTxn
<1>5. PreparedInv'
  <2>1. \A q \in Writers, d \in Category : At(q, "prepared", d)' => At(q, "prepared", d)
    BY DEF Acquire, At, TypeOK
  <2>2. UNCHANGED <<db, final, staged, parked, op, new, nops>>
    BY DEF Acquire
  <2>3. \A q \in Writers, x \in Content \cup {Absent} : MyFiles(q, x)' = MyFiles(q, x)
    BY <2>2 DEF MyFiles, MyFile
  <2>4. QED
    BY <2>1, <2>2 DEF PreparedInv, MyFiles, MyFile, RowOf
<1>6. DecisionInv'
  BY DEF Acquire, DecisionInv, At, RowOf, TypeOK, LockInv, InTxn
<1>7. CommittedInv'
  BY DEF Acquire, CommittedInv, At, Mine, MyFile, RowOf, TypeOK
<1>8. HistoryInv'
  BY DEF Acquire, HistoryInv, RowOf, TypeOK
<1>9. StableInv'
  BY DEF Acquire, StableInv, TypeOK
<1>10. QED
  BY <1>1, <1>2, <1>3, <1>4, <1>5, <1>6, <1>7, <1>8, <1>9

\* Giving up after the deadline: the process never held the lock.
LEMMA StepGiveUp ==
  ASSUME CoreInv, TypeOK', NEW p \in Writers, GiveUp(p)
  PROVE  CoreInv'
<1> USE DEF CoreInv, files
<1>1. LockInv'
  BY DEF GiveUp, Fail, Leave, LockInv, InTxn, TypeOK
<1>2. RequestInv'
  BY DEF GiveUp, Fail, Leave, RequestInv, NoRequest, TypeOK
<1>3. ShapeInv'
  BY DEF GiveUp, Fail, Leave, ShapeInv, Shape, Fits, RowOf, TypeOK
<1>4. WritingInv'
  <2>1. \A q \in Writers, d \in Category : At(q, "writing", d)' =>
          /\ At(q, "writing", d)
          /\ op'[q] = op[q] /\ nops'[q] = nops[q] /\ new'[q] = new[q]
    BY DEF GiveUp, Fail, Leave, At, TypeOK
  <2>2. UNCHANGED <<db, final, staged, parked>>
    BY DEF GiveUp
  <2>3. QED
    BY <2>1, <2>2 DEF WritingInv, MyFiles, MyFile, RowOf
<1>5. PreparedInv'
  <2>1. \A q \in Writers, d \in Category : At(q, "prepared", d)' =>
          /\ At(q, "prepared", d)
          /\ op'[q] = op[q] /\ nops'[q] = nops[q] /\ new'[q] = new[q]
    BY DEF GiveUp, Fail, Leave, At, TypeOK
  <2>2. UNCHANGED <<db, final, staged, parked>>
    BY DEF GiveUp
  <2>3. QED
    BY <2>1, <2>2 DEF PreparedInv, MyFiles, MyFile, RowOf
<1>6. DecisionInv'
  BY DEF GiveUp, Fail, Leave, DecisionInv, At, RowOf, TypeOK, LockInv, InTxn
<1>7. CommittedInv'
  <2>1. \A q \in Writers, d \in Category : At(q, "committed", d)' =>
          /\ At(q, "committed", d)
          /\ op'[q] = op[q] /\ nops'[q] = nops[q] /\ new'[q] = new[q]
    BY DEF GiveUp, Fail, Leave, At, TypeOK
  <2>2. UNCHANGED <<db, final, staged, parked>>
    BY DEF GiveUp
  <2>3. QED
    BY <2>1, <2>2 DEF CommittedInv, Mine, MyFile, RowOf
<1>8. HistoryInv'
  BY DEF GiveUp, Fail, Leave, HistoryInv, RowOf, TypeOK
<1>9. StableInv'
  BY DEF GiveUp, Fail, Leave, StableInv, TypeOK
<1>10. QED
  BY <1>1, <1>2, <1>3, <1>4, <1>5, <1>6, <1>7, <1>8, <1>9

\* Settling a staged file leaves the category clean: promoted if it is the
\* committed one, discarded otherwise.
LEMMA StepSettleStaged ==
  ASSUME CoreInv, TypeOK', NEW p \in Writers, NEW c \in Category, NEW f \in staged[c],
         SettleStaged(p, c, f)
  PROVE  CoreInv'
<1> USE DEF CoreInv, files
<1>1. LockInv'
  BY DEF SettleStaged, LockInv, InTxn, TypeOK
<1>2. RequestInv'
  BY DEF SettleStaged, RequestInv, NoRequest, TypeOK
<1>3. ShapeInv'
  BY DEF SettleStaged, ShapeInv, Shape, Fits, RowOf, TypeOK
<1>4. WritingInv'
  BY DEF SettleStaged, WritingInv, At, MyFiles, MyFile, RowOf, TypeOK, LockInv, InTxn
<1>5. PreparedInv'
  BY DEF SettleStaged, PreparedInv, At, MyFiles, MyFile, RowOf, TypeOK, LockInv, InTxn
<1>6. DecisionInv'
  BY DEF SettleStaged, DecisionInv, At, RowOf, TypeOK, LockInv, InTxn
<1>7. CommittedInv'
  BY DEF SettleStaged, CommittedInv, At, Mine, MyFile, RowOf, TypeOK
<1>8. HistoryInv'
  BY DEF SettleStaged, HistoryInv, RowOf, TypeOK
<1>9. StableInv'
  BY DEF SettleStaged, StableInv, TypeOK
<1>10. QED
  BY <1>1, <1>2, <1>3, <1>4, <1>5, <1>6, <1>7, <1>8, <1>9

\* An I/O error while settling leaves files and rows as they are.
LEMMA StepSettleError ==
  ASSUME CoreInv, TypeOK', NEW p \in Writers, SettleError(p)
  PROVE  CoreInv'
<1> USE DEF CoreInv, files
<1>1. LockInv'
  BY ConstantsAssumption DEF SettleError, Fail, Leave, Unlock, LockInv, InTxn, TypeOK
<1>2. RequestInv'
  BY DEF SettleError, Fail, Leave, Unlock, RequestInv, NoRequest, TypeOK
<1>3. ShapeInv'
  BY DEF SettleError, Fail, Leave, Unlock, ShapeInv, Shape, Fits, RowOf, TypeOK
<1>4. WritingInv'
  BY DEF SettleError, Fail, Leave, Unlock, WritingInv, At, MyFiles, MyFile, RowOf, TypeOK, LockInv, InTxn
<1>5. PreparedInv'
  <2>1. \A q \in Writers, d \in Category : At(q, "prepared", d)' =>
          /\ At(q, "prepared", d)
          /\ op'[q] = op[q] /\ nops'[q] = nops[q] /\ new'[q] = new[q]
    BY DEF SettleError, Fail, Leave, At, TypeOK
  <2>2. UNCHANGED <<db, final, staged, parked>>
    BY DEF SettleError
  <2>3. QED
    BY <2>1, <2>2 DEF PreparedInv, MyFiles, MyFile, RowOf
<1>6. DecisionInv'
  BY DEF SettleError, Fail, Leave, Unlock, DecisionInv, At, RowOf, TypeOK, LockInv, InTxn
<1>7. CommittedInv'
  <2>1. \A q \in Writers, d \in Category : At(q, "committed", d)' =>
          /\ At(q, "committed", d)
          /\ op'[q] = op[q] /\ nops'[q] = nops[q]
    BY DEF SettleError, Fail, Leave, At, TypeOK
  <2>2. UNCHANGED <<db, staged, parked>>
    BY DEF SettleError
  <2>3. QED
    BY <2>1, <2>2 DEF CommittedInv, Mine, MyFile, RowOf
<1>8. HistoryInv'
  BY DEF SettleError, Fail, Leave, Unlock, HistoryInv, RowOf, TypeOK
<1>9. StableInv'
  BY DEF SettleError, Fail, Leave, Unlock, StableInv, TypeOK
<1>10. QED
  BY <1>1, <1>2, <1>3, <1>4, <1>5, <1>6, <1>7, <1>8, <1>9

\* An unreadable staged file ends the call and is left where it is.
LEMMA StepSettleFails ==
  ASSUME CoreInv, TypeOK', NEW p \in Writers, NEW c \in Category, NEW f \in staged[c],
         SettleFails(p, c, f)
  PROVE  CoreInv'
<1> USE DEF CoreInv, files
<1>1. LockInv'
  BY ConstantsAssumption DEF SettleFails, Fail, Leave, Unlock, LockInv, InTxn, TypeOK
<1>2. RequestInv'
  BY DEF SettleFails, Fail, Leave, Unlock, RequestInv, NoRequest, TypeOK
<1>3. ShapeInv'
  BY DEF SettleFails, Fail, Leave, Unlock, ShapeInv, Shape, Fits, RowOf, TypeOK
<1>4. WritingInv'
  BY DEF SettleFails, Fail, Leave, Unlock, WritingInv, At, MyFiles, MyFile, RowOf, TypeOK, LockInv, InTxn
<1>5. PreparedInv'
  <2>1. \A q \in Writers, d \in Category : At(q, "prepared", d)' =>
          /\ At(q, "prepared", d)
          /\ op'[q] = op[q] /\ nops'[q] = nops[q] /\ new'[q] = new[q]
    BY DEF SettleFails, Fail, Leave, At, TypeOK
  <2>2. UNCHANGED <<db, final, staged, parked>>
    BY DEF SettleFails
  <2>3. QED
    BY <2>1, <2>2 DEF PreparedInv, MyFiles, MyFile, RowOf
<1>6. DecisionInv'
  BY DEF SettleFails, Fail, Leave, Unlock, DecisionInv, At, RowOf, TypeOK, LockInv, InTxn
<1>7. CommittedInv'
  BY DEF SettleFails, Fail, Leave, Unlock, CommittedInv, At, Mine, MyFile, RowOf, TypeOK
<1>8. HistoryInv'
  BY DEF SettleFails, Fail, Leave, Unlock, HistoryInv, RowOf, TypeOK
<1>9. StableInv'
  BY DEF SettleFails, Fail, Leave, Unlock, StableInv, TypeOK
<1>10. QED
  BY <1>1, <1>2, <1>3, <1>4, <1>5, <1>6, <1>7, <1>8, <1>9

\* Settling a parked file restores the committed content or completes a delete.
LEMMA StepSettleParked ==
  ASSUME CoreInv, TypeOK', NEW p \in Writers, NEW c \in Category, NEW f \in parked[c],
         SettleParked(p, c, f)
  PROVE  CoreInv'
<1> USE DEF CoreInv, files
<1>1. LockInv'
  BY DEF SettleParked, LockInv, InTxn, TypeOK
<1>2. RequestInv'
  BY DEF SettleParked, RequestInv, NoRequest, TypeOK
<1>3. ShapeInv'
  <2>1. db' = db /\ staged' = staged /\ staged[c] = {} /\ parked[c] = {f} /\ RowOf(c) \in {Absent, f.data}
    BY DEF SettleParked, ShapeInv, Shape, Fits
  <2>2. parked'[c] = {} /\ final'[c] = RowOf(c)
    BY <2>1 DEF SettleParked, ShapeInv, Shape, Fits, RowOf, TypeOK
  <2>3. \A d \in Category : d # c => final'[d] = final[d] /\ parked'[d] = parked[d]
    BY DEF SettleParked, TypeOK
  <2>4. QED
    BY <2>1, <2>2, <2>3 DEF ShapeInv, Shape, Fits, RowOf
<1>4. WritingInv'
  BY DEF SettleParked, WritingInv, At, MyFiles, MyFile, RowOf, TypeOK, LockInv, InTxn
<1>5. PreparedInv'
  BY DEF SettleParked, PreparedInv, At, MyFiles, MyFile, RowOf, TypeOK, LockInv, InTxn
<1>6. DecisionInv'
  BY DEF SettleParked, DecisionInv, At, RowOf, TypeOK, LockInv, InTxn
<1>7. CommittedInv'
  BY DEF SettleParked, CommittedInv, At, Mine, MyFile, RowOf, TypeOK
<1>8. HistoryInv'
  BY DEF SettleParked, HistoryInv, RowOf, TypeOK
<1>9. StableInv'
  BY DEF SettleParked, StableInv, TypeOK
<1>10. QED
  BY <1>1, <1>2, <1>3, <1>4, <1>5, <1>6, <1>7, <1>8, <1>9

\* Finishing an open.
LEMMA StepFinishOpen ==
  ASSUME CoreInv, TypeOK', NEW p \in Writers, FinishOpen(p)
  PROVE  CoreInv'
<1> USE DEF CoreInv, files
<1>1. LockInv'
  BY ConstantsAssumption DEF FinishOpen, Settled, Leave, Unlock, LockInv, InTxn, TypeOK
<1>2. RequestInv'
  BY DEF FinishOpen, Settled, Leave, Unlock, RequestInv, NoRequest, TypeOK
<1>3. ShapeInv'
  BY DEF FinishOpen, Settled, Leave, Unlock, ShapeInv, Shape, Fits, RowOf, TypeOK
<1>4. WritingInv'
  BY DEF FinishOpen, Settled, Leave, Unlock, WritingInv, At, MyFiles, MyFile, RowOf, TypeOK, LockInv, InTxn
<1>5. PreparedInv'
  <2>1. \A q \in Writers, d \in Category : At(q, "prepared", d)' =>
          /\ At(q, "prepared", d)
          /\ op'[q] = op[q] /\ nops'[q] = nops[q] /\ new'[q] = new[q]
    BY DEF FinishOpen, Settled, Leave, At, TypeOK
  <2>2. UNCHANGED <<db, final, staged, parked>>
    BY DEF FinishOpen
  <2>3. QED
    BY <2>1, <2>2 DEF PreparedInv, MyFiles, MyFile, RowOf
<1>6. DecisionInv'
  BY DEF FinishOpen, Settled, Leave, Unlock, DecisionInv, At, RowOf, TypeOK, LockInv, InTxn
<1>7. CommittedInv'
  <2>1. \A q \in Writers, d \in Category : At(q, "committed", d)' =>
          /\ At(q, "committed", d)
          /\ op'[q] = op[q] /\ nops'[q] = nops[q]
    BY DEF FinishOpen, Settled, Leave, At, TypeOK
  <2>2. UNCHANGED <<db, staged, parked>>
    BY DEF FinishOpen
  <2>3. QED
    BY <2>1, <2>2 DEF CommittedInv, Mine, MyFile, RowOf
<1>8. HistoryInv'
  BY DEF FinishOpen, Settled, Leave, Unlock, HistoryInv, RowOf, TypeOK
<1>9. StableInv'
  BY DEF FinishOpen, Settled, Leave, Unlock, StableInv, TypeOK
<1>10. QED
  BY <1>1, <1>2, <1>3, <1>4, <1>5, <1>6, <1>7, <1>8, <1>9

\* Refusing a call rolls back.
LEMMA StepRefuse ==
  ASSUME CoreInv, TypeOK', NEW p \in Writers, Refuse(p)
  PROVE  CoreInv'
<1> USE DEF CoreInv, files
<1>1. LockInv'
  BY ConstantsAssumption DEF Refuse, Settled, Leave, Unlock, LockInv, InTxn, TypeOK
<1>2. RequestInv'
  BY DEF Refuse, Settled, Leave, Unlock, RequestInv, NoRequest, TypeOK
<1>3. ShapeInv'
  BY DEF Refuse, Settled, Leave, Unlock, ShapeInv, Shape, Fits, RowOf, TypeOK
<1>4. WritingInv'
  BY DEF Refuse, Settled, Leave, Unlock, WritingInv, At, MyFiles, MyFile, RowOf, TypeOK, LockInv, InTxn
<1>5. PreparedInv'
  <2>1. \A q \in Writers, d \in Category : At(q, "prepared", d)' =>
          /\ At(q, "prepared", d)
          /\ op'[q] = op[q] /\ nops'[q] = nops[q] /\ new'[q] = new[q]
    BY DEF Refuse, Settled, Leave, At, TypeOK
  <2>2. UNCHANGED <<db, final, staged, parked>>
    BY DEF Refuse
  <2>3. QED
    BY <2>1, <2>2 DEF PreparedInv, MyFiles, MyFile, RowOf
<1>6. DecisionInv'
  BY DEF Refuse, Settled, Leave, Unlock, DecisionInv, At, RowOf, TypeOK, LockInv, InTxn
<1>7. CommittedInv'
  <2>1. \A q \in Writers, d \in Category : At(q, "committed", d)' =>
          /\ At(q, "committed", d)
          /\ op'[q] = op[q] /\ nops'[q] = nops[q]
    BY DEF Refuse, Settled, Leave, At, TypeOK
  <2>2. UNCHANGED <<db, staged, parked>>
    BY DEF Refuse
  <2>3. QED
    BY <2>1, <2>2 DEF CommittedInv, Mine, MyFile, RowOf
<1>8. HistoryInv'
  BY DEF Refuse, Settled, Leave, Unlock, HistoryInv, RowOf, TypeOK
<1>9. StableInv'
  BY DEF Refuse, Settled, Leave, Unlock, StableInv, TypeOK
<1>10. QED
  BY <1>1, <1>2, <1>3, <1>4, <1>5, <1>6, <1>7, <1>8, <1>9

\* Staging starts from a clean category: the file created is its only pending one.
LEMMA StepStageOpen ==
  ASSUME CoreInv, TypeOK', NEW p \in Writers, NEW c \in Category,
         op[p].cat = c, StageOpen(p)
  PROVE  CoreInv'
<1> USE DEF CoreInv, files
<1>a. staged[c] = {} /\ parked[c] = {} /\ final[c] = RowOf(c) /\ Current(c) = RowOf(c)
  BY SettledIsClean DEF StageOpen
<1>b. PICK t \in Tears : staged' = [staged EXCEPT ![c] = MyFiles(p, t)]
  <2>1. PICK t \in Tears : staged' = [staged EXCEPT ![c] = staged[c] \cup {[id |-> MyFile(p), data |-> t]}]
    BY DEF StageOpen
  <2>2. staged[c] \cup {[id |-> MyFile(p), data |-> t]} = MyFiles(p, t)
    BY <1>a DEF MyFiles
  <2>3. QED
    BY <2>1, <2>2
<1>c. /\ RowOf(c)' = RowOf(c) /\ final'[c] = final[c] /\ parked'[c] = parked[c]
      /\ op'[p] = op[p] /\ MyFile(p)' = MyFile(p) /\ new'[p] = Outcome(op[p], RowOf(c))
  BY <1>a DEF StageOpen, RowOf, MyFile, TypeOK
<1>d. staged'[c] = MyFiles(p, t) /\ [id |-> MyFile(p), data |-> t] \in Staging
  BY <1>b DEF TypeOK, MyFile, FileId, Staging
<1>e. \A q \in Writers : q # p => ~InTxn(q) /\ pc'[q] = pc[q] /\ op'[q] = op[q]
  BY AloneInTxn DEF StageOpen, Settled, InTxn, TypeOK
<1>1. LockInv'
  BY DEF StageOpen, Settled, LockInv, InTxn, TypeOK
<1>2. RequestInv'
  BY DEF StageOpen, Settled, RequestInv, NoRequest, TypeOK
<1>3. ShapeInv'
  <2>1. Shape(c)'
    BY <1>a, <1>c, <1>d DEF Shape, Fits, MyFiles
  <2>2. ASSUME NEW d \in Category, d # c PROVE Shape(d)'
    BY <1>b, <2>2 DEF StageOpen, ShapeInv, Shape, Fits, RowOf, TypeOK
  <2>3. QED
    BY <2>1, <2>2 DEF ShapeInv
<1>4. WritingInv'
  <2>1. new'[p] \in Content
    <3>1. op[p] \in Request /\ RowOf(c) \in Content \cup {Absent}
      BY DEF TypeOK, Row, RowOf
    <3>2. /\ op[p].kind \in Kinds \ {"clear", "delete"}
          /\ op[p].kind \in ValueKinds => op[p].value \in Incoming
          /\ op[p].kind \in TokenKinds => op[p].token \in Token
      BY DEF StageOpen, Settled, RequestInv
    <3>3. QED
      BY <1>c, <3>1, <3>2, OutcomeIsContent
  <2>2. staged'[c] = MyFiles(p, t)'
    BY <1>c, <1>d DEF MyFiles
  <2>3. \A q \in Writers, d \in Category : At(q, "writing", d)' => q = p /\ d = c
    BY <1>c, <1>e DEF At, InTxn
  <2>4. QED
    BY <1>a, <1>c, <2>1, <2>2, <2>3 DEF WritingInv
<1>5. PreparedInv'
  BY DEF StageOpen, Settled, PreparedInv, At, MyFiles, MyFile, RowOf, TypeOK, LockInv, InTxn
<1>6. DecisionInv'
  <2>1. backups'[c] = backups[c] \cup ({final[c]} \ {Absent})
    BY DEF StageOpen, TypeOK
  <2>2. RowOf(c)' \in backups'[c] \cup {Absent}
    BY <1>a, <1>c, <2>1
  <2>3. /\ ~KindMismatch(op[p], RowOf(c))
        /\ op[p].expected = Absent \/ RowOf(c) \in {Absent, op[p].expected}
    BY <1>a DEF StageOpen, Refused, Conflict, RowOf
  <2>4. \A q \in Writers, d \in Category :
          At(q, "writing", d)' \/ At(q, "prepared", d)' => q = p /\ d = c
    BY <1>c, <1>e DEF At, InTxn
  <2>5. QED
    BY <1>c, <2>2, <2>3, <2>4 DEF DecisionInv
<1>7. CommittedInv'
  BY DEF StageOpen, Settled, CommittedInv, At, Mine, MyFile, RowOf, TypeOK
<1>8. HistoryInv'
  BY DEF StageOpen, Settled, HistoryInv, RowOf, TypeOK
<1>9. StableInv'
  BY DEF StageOpen, Settled, StableInv, TypeOK
<1>10. QED
  BY <1>1, <1>2, <1>3, <1>4, <1>5, <1>6, <1>7, <1>8, <1>9

\* The staged file is complete.
LEMMA StepStageDone ==
  ASSUME CoreInv, TypeOK', NEW p \in Writers, NEW c \in Category,
         op[p].cat = c, StageDone(p)
  PROVE  CoreInv'
<1> USE DEF CoreInv, files
<1>a. PICK t \in Tears : staged[c] = MyFiles(p, t)
  BY DEF StageDone, WritingInv, At
<1>b. op[p].kind # "delete" /\ new[p] \in Content /\ parked[c] = {} /\ final[c] = RowOf(c)
  BY DEF StageDone, WritingInv, At, RequestInv
<1>c. staged' = [staged EXCEPT ![c] = MyFiles(p, new[p])]
  <2>1. {f \in staged[c] : f.id # MyFile(p)} \cup {[id |-> MyFile(p), data |-> new[p]]} = MyFiles(p, new[p])
    BY <1>a DEF MyFiles
  <2>2. QED
    BY <2>1 DEF StageDone
<1>d. /\ [id |-> MyFile(p), data |-> new[p]] \in Staging
      /\ RowOf(c)' = RowOf(c) /\ MyFile(p)' = MyFile(p) /\ final' = final /\ parked' = parked
  BY <1>b DEF StageDone, MyFile, FileId, Staging, RowOf, TypeOK
<1>e. \A q \in Writers : q # p => ~InTxn(q) /\ pc'[q] = pc[q]
  BY AloneInTxn DEF StageDone, InTxn, TypeOK
<1>1. LockInv'
  BY DEF StageDone, LockInv, InTxn, TypeOK
<1>2. RequestInv'
  BY DEF StageDone, RequestInv, NoRequest, TypeOK
<1>3. ShapeInv'
  <2>1. staged'[c] = {[id |-> MyFile(p), data |-> new[p]]}
    BY <1>c DEF MyFiles, TypeOK
  <2>2. Shape(c)'
    <3>1. RowOf(c)' = final'[c] /\ parked'[c] = {}
      BY <1>b, <1>d
    <3>2. QED
      BY <1>d, <2>1, <3>1 DEF Shape, Fits
  <2>3. ASSUME NEW d \in Category, d # c PROVE Shape(d)'
    BY <1>c, <2>3 DEF StageDone, ShapeInv, Shape, Fits, RowOf, TypeOK
  <2>4. QED
    BY <2>2, <2>3 DEF ShapeInv
<1>4. WritingInv'
  BY DEF StageDone, WritingInv, At, MyFiles, MyFile, RowOf, TypeOK, LockInv, InTxn
<1>5. PreparedInv'
  <2>1. staged'[c] = MyFiles(p, new[p])'
    BY <1>c, <1>d DEF StageDone, MyFiles, TypeOK
  <2>2. \A q \in Writers, d \in Category : At(q, "prepared", d)' => q = p /\ d = c
    BY <1>e DEF StageDone, At, InTxn
  <2>3. op' = op /\ new' = new
    BY DEF StageDone
  <2>4. QED
    BY <1>b, <1>d, <2>1, <2>2, <2>3 DEF PreparedInv
<1>6. DecisionInv'
  BY DEF StageDone, DecisionInv, At, RowOf, TypeOK, LockInv, InTxn
<1>7. CommittedInv'
  BY SMTT(30) DEF StageDone, CommittedInv, At, Mine, MyFile, RowOf, TypeOK
<1>8. HistoryInv'
  BY DEF StageDone, HistoryInv, RowOf, TypeOK
<1>9. StableInv'
  BY DEF StageDone, StableInv, TypeOK
<1>10. QED
  BY <1>1, <1>2, <1>3, <1>4, <1>5, <1>6, <1>7, <1>8, <1>9

\* Parking the file of a category that is to be deleted.
LEMMA StepPark ==
  ASSUME CoreInv, TypeOK', NEW p \in Writers, NEW c \in Category,
         op[p].cat = c, Park(p)
  PROVE  CoreInv'
<1> USE DEF CoreInv, files
<1>a. staged[c] = {} /\ parked[c] = {} /\ final[c] = RowOf(c)
  BY SettledIsClean DEF Park
<1>b. /\ RowOf(c)' = RowOf(c) /\ MyFile(p)' = MyFile(p) /\ final'[c] = Absent /\ staged' = staged
      /\ op' = op /\ new' = new
  BY DEF Park, RowOf, MyFile, TypeOK
<1>c. parked'[c] = {[id |-> MyFile(p), data |-> d] : d \in {RowOf(c)} \ {Absent}}
  BY <1>a DEF Park, TypeOK
<1>d. RowOf(c) # Absent => /\ [id |-> MyFile(p), data |-> RowOf(c)] \in Parking
                           /\ parked'[c] = {[id |-> MyFile(p), data |-> RowOf(c)]}
  BY <1>c DEF MyFile, FileId, Parking, RowOf, Row, TypeOK
<1>e. RowOf(c) = Absent => parked'[c] = {}
  BY <1>c
<1>f. \A q \in Writers : q # p => ~InTxn(q) /\ pc'[q] = pc[q]
  BY AloneInTxn DEF Park, Settled, InTxn, TypeOK
<1>1. LockInv'
  BY DEF Park, Settled, LockInv, InTxn, TypeOK
<1>2. RequestInv'
  BY DEF Park, Settled, RequestInv, NoRequest, TypeOK
<1>3. ShapeInv'
  <2>1. Shape(c)'
    <3>1. CASE RowOf(c) = Absent
      BY <1>a, <1>b, <1>e, <3>1 DEF Shape, Fits
    <3>2. CASE RowOf(c) # Absent
      BY <1>a, <1>b, <1>d, <3>2 DEF Shape, Fits
    <3>3. QED
      BY <3>1, <3>2
  <2>2. ASSUME NEW d \in Category, d # c PROVE Shape(d)'
    BY <2>2 DEF Park, ShapeInv, Shape, Fits, RowOf, TypeOK
  <2>3. QED
    BY <2>1, <2>2 DEF ShapeInv
<1>4. WritingInv'
  BY DEF Park, Settled, WritingInv, At, MyFiles, MyFile, RowOf, TypeOK, LockInv, InTxn
<1>5. PreparedInv'
  <2>1. new[p] = Absent /\ op[p].kind = "delete"
    BY DEF Park, Settled, RequestInv
  <2>2. \A q \in Writers, d \in Category : At(q, "prepared", d)' => q = p /\ d = c
    BY <1>b, <1>f DEF At, InTxn
  <2>3. \/ parked'[c] = {} /\ RowOf(c)' = Absent
        \/ parked'[c] = MyFiles(p, RowOf(c))' /\ RowOf(c)' # Absent
    BY <1>b, <1>d, <1>e DEF MyFiles
  <2>4. QED
    BY <1>a, <1>b, <2>1, <2>2, <2>3 DEF PreparedInv
<1>6. DecisionInv'
  <2>1. /\ new'[p] = Absent /\ op'[p] = op[p] /\ op[p].kind = "delete" /\ op[p].expected = Absent
    BY DEF Park, Settled, RequestInv, CasKinds
  <2>2. \A q \in Writers, d \in Category :
          At(q, "writing", d)' \/ At(q, "prepared", d)' => q = p /\ d = c
    BY <1>b, <1>f DEF At, InTxn
  <2>3. QED
    BY <2>1, <2>2 DEF DecisionInv, Outcome, KindMismatch, CasKinds
<1>7. CommittedInv'
  <2> SUFFICES ASSUME NEW q \in Writers, NEW d \in Category, At(q, "committed", d)'
               PROVE  IF op[q].kind = "delete"
                      THEN Mine(q, parked'[d]) # {} => RowOf(d) = Absent
                      ELSE \A f \in Mine(q, staged[d]) : f.data = RowOf(d)
    BY <1>b DEF Park, CommittedInv, At, Mine, MyFile, RowOf
  <2>1. q # p /\ At(q, "committed", d)
    BY <1>b DEF Park, At, TypeOK
  <2>2. Mine(q, parked'[d]) = Mine(q, parked[d])
    <3>1. CASE d # c
      BY <3>1 DEF Park, TypeOK
    <3>2. CASE d = c
      <4>1. MyFile(q) # MyFile(p)
        BY <2>1, FileNamesAreUnique
      <4>2. QED
        BY <1>a, <1>c, <3>2, <4>1 DEF Mine
    <3>3. QED
      BY <3>1, <3>2
  <2>3. QED
    BY <2>1, <2>2 DEF CommittedInv
<1>8. HistoryInv'
  BY DEF Park, Settled, HistoryInv, RowOf, TypeOK
<1>9. StableInv'
  BY DEF Park, Settled, StableInv, TypeOK
<1>10. QED
  BY <1>1, <1>2, <1>3, <1>4, <1>5, <1>6, <1>7, <1>8, <1>9

\* The commit: the staged bytes become the committed ones, the parked file garbage.
LEMMA StepCommit ==
  ASSUME CoreInv, TypeOK', NEW p \in Writers, NEW c \in Category,
         op[p].cat = c, Commit(p)
  PROVE  CoreInv'
<1> USE DEF CoreInv, files
<1>a. op[p].kind \in Kinds \ {"clear"}
  BY DEF Commit, RequestInv
<1>b. db'[c] = Written(op[p], db[c], new[p]) /\ \A d \in Category : d # c => db'[d] = db[d]
  BY DEF Commit, TypeOK
<1>d. op[p].kind # "delete" =>
        /\ staged[c] = MyFiles(p, new[p]) /\ parked[c] = {} /\ new[p] \in Content
        /\ RowOf(c) \in backups[c] \cup {Absent}
  BY DEF Commit, PreparedInv, DecisionInv, At
<1>e. op[p].kind = "delete" =>
        /\ staged[c] = {} /\ final[c] = Absent /\ new[p] = Absent
        /\ parked[c] = {} \/ (RowOf(c) # Absent /\ parked[c] = MyFiles(p, RowOf(c)))
  BY DEF Commit, PreparedInv, At
<1>c. RowOf(c)' = new[p]
  BY <1>b, <1>e DEF Written, RowOf
<1>f. files' = files /\ op' = op /\ new' = new /\ nops' = nops
  BY DEF Commit
<1>1. LockInv'
  BY ConstantsAssumption DEF Commit, Unlock, LockInv, InTxn, TypeOK
<1>2. RequestInv'
  BY DEF Commit, Unlock, RequestInv, NoRequest, TypeOK
<1>3. ShapeInv'
  <2>1. Shape(c)'
    <3>1. CASE op[p].kind = "delete"
      <4>1. parked[c] \subseteq Parking
        BY DEF TypeOK
      <4>2. parked[c] = {} \/ \E f \in Parking : parked[c] = {f}
        BY <1>e, <3>1, <4>1 DEF MyFiles
      <4>3. QED
        BY <1>c, <1>e, <1>f, <3>1, <4>2 DEF Shape, Fits
    <3>2. CASE op[p].kind # "delete"
      <4>1. [id |-> MyFile(p), data |-> new[p]] \in Staging
        BY <1>d, <3>2 DEF MyFile, FileId, Staging, TypeOK
      <4>2. new[p] # Absent
        BY <1>d, <3>2, ConstantsAssumption
      <4>3. staged[c] = {[id |-> MyFile(p), data |-> new[p]]} /\ parked[c] = {}
        BY <1>d, <3>2 DEF MyFiles
      <4>4. QED
        BY <1>c, <1>f, <4>1, <4>2, <4>3 DEF Shape, Fits
    <3>3. QED
      BY <3>1, <3>2
  <2>2. ASSUME NEW d \in Category, d # c PROVE Shape(d)'
    BY <1>b, <1>f, <2>2 DEF ShapeInv, Shape, Fits, RowOf
  <2>3. QED
    BY <2>1, <2>2 DEF ShapeInv
<1>4. WritingInv'
  BY DEF Commit, Unlock, WritingInv, At, MyFiles, MyFile, RowOf, TypeOK, LockInv, InTxn
<1>5. PreparedInv'
  BY DEF Commit, Unlock, PreparedInv, At, MyFiles, MyFile, RowOf, TypeOK, LockInv, InTxn
<1>6. DecisionInv'
  BY DEF Commit, Unlock, DecisionInv, At, RowOf, TypeOK, LockInv, InTxn
<1>7. CommittedInv'
  <2> SUFFICES ASSUME NEW q \in Writers, NEW d \in Category, At(q, "committed", d)'
               PROVE  IF op[q].kind = "delete"
                      THEN Mine(q, parked[d]) # {} => RowOf(d)' = Absent
                      ELSE \A f \in Mine(q, staged[d]) : f.data = RowOf(d)'
    BY <1>f DEF CommittedInv, Mine, MyFile
  <2>1. CASE q = p
    <3>1. d = c
      BY <1>f, <2>1 DEF At
    <3>2. op[p].kind # "delete" => \A f \in staged[c] : f.data = new[p]
      BY <1>d DEF MyFiles
    <3>3. QED
      BY <1>c, <1>e, <2>1, <3>1, <3>2 DEF Mine
  <2>2. CASE q # p
    <3>1. At(q, "committed", d)
      BY <1>f, <2>2 DEF Commit, TypeOK, At
    <3>2. CASE d # c
      BY <1>b, <3>1, <3>2 DEF CommittedInv, RowOf
    <3>3. CASE d = c
      <4>1. \A f \in staged[c] \cup parked[c] : f.id = MyFile(p)
        BY <1>d, <1>e DEF MyFiles
      <4>2. MyFile(q) # MyFile(p)
        BY <2>2, FileNamesAreUnique
      <4>3. Mine(q, staged[c]) = {} /\ Mine(q, parked[c]) = {}
        BY <4>1, <4>2 DEF Mine
      <4>4. QED
        BY <3>3, <4>3
    <3>4. QED
      BY <3>2, <3>3
  <2>3. QED
    BY <2>1, <2>2
<1>8. HistoryInv'
  <2> SUFFICES ASSUME ~PowerCuts
               PROVE  \A d \in Category : \A i \in DOMAIN db'[d].history :
                        db'[d].history[i] \in backups'[d] \cup {RowOf(d)'}
    BY DEF HistoryInv
  <2>1. backups' = backups
    BY DEF Commit
  <2>2. \A d \in Category : d # c =>
          \A i \in DOMAIN db'[d].history : db'[d].history[i] \in backups'[d] \cup {RowOf(d)'}
    BY <1>b, <2>1 DEF HistoryInv, RowOf
  <2>3. CASE op[p].kind = "delete"
    <3>1. db'[c].history = <<>>
      BY <1>b, <2>3 DEF Written
    <3>2. QED
      BY <2>2, <3>1 DEF HistoryInv
  <2>4. CASE op[p].kind # "delete"
    <3>1. RowOf(c) \in backups[c] \cup {Absent} /\ new[p] \in Content
      BY <1>d, <2>4
    <3>2. db[c].history \in Seq(Content)
      BY DEF TypeOK, Row
    <3>3. \A i \in DOMAIN db[c].history : db[c].history[i] \in backups[c] \cup {new[p]}
      <4>1. \A i \in DOMAIN db[c].history : db[c].history[i] # Absent
        BY <3>2, ConstantsAssumption
      <4>2. QED
        BY <3>1, <4>1 DEF HistoryInv
    <3>4. PICK h : h = Append(db[c].history, new[p])
      OBVIOUS
    <3>5. h \in Seq(Content)
      BY <3>1, <3>2, <3>4
    <3>6. \A i \in DOMAIN h : h[i] \in backups[c] \cup {new[p]}
      <4>1. \A i \in DOMAIN h : h[i] = new[p] \/ (i \in DOMAIN db[c].history /\ h[i] = db[c].history[i])
        BY <3>1, <3>2, <3>4
      <4>2. QED
        BY <3>3, <4>1
    <3>7. \A i \in DOMAIN Newest(h) : Newest(h)[i] \in backups[c] \cup {new[p]}
      BY <3>5, <3>6, NewestIsSuffix
    <3>8. db'[c].history \in {h, Newest(h)}
      BY <1>b, <2>4, <3>4 DEF Written
    <3>9. \A i \in DOMAIN db'[c].history : db'[c].history[i] \in backups[c] \cup {new[p]}
      BY <3>6, <3>7, <3>8
    <3>10. QED
      BY <1>c, <2>1, <2>2, <3>9 DEF HistoryInv
  <2>5. QED
    BY <2>3, <2>4
<1>9. StableInv'
  BY DEF Commit, Unlock, StableInv, TypeOK
<1>10. QED
  BY <1>1, <1>2, <1>3, <1>4, <1>5, <1>6, <1>7, <1>8, <1>9

\* Clearing a sync mark.
LEMMA StepClearDirty ==
  ASSUME CoreInv, TypeOK', NEW p \in Writers, ClearDirty(p)
  PROVE  CoreInv'
<1> USE DEF CoreInv, files
<1>1. LockInv'
  BY ConstantsAssumption DEF ClearDirty, Settled, Leave, Unlock, LockInv, InTxn, TypeOK
<1>2. RequestInv'
  BY DEF ClearDirty, Settled, Leave, Unlock, RequestInv, NoRequest, TypeOK
<1>3. ShapeInv'
  BY DEF ClearDirty, Settled, Leave, Unlock, ShapeInv, Shape, Fits, RowOf, TypeOK
<1>4. WritingInv'
  BY DEF ClearDirty, Settled, Leave, Unlock, WritingInv, At, MyFiles, MyFile, RowOf, TypeOK, LockInv, InTxn
<1>5. PreparedInv'
  BY DEF ClearDirty, Settled, Leave, Unlock, PreparedInv, At, MyFiles, MyFile, RowOf, TypeOK, LockInv, InTxn
<1>6. DecisionInv'
  BY DEF ClearDirty, Settled, Leave, Unlock, DecisionInv, At, RowOf, TypeOK, LockInv, InTxn
<1>7. CommittedInv'
  <2>1. \A q \in Writers, d \in Category : At(q, "committed", d)' =>
          /\ At(q, "committed", d)
          /\ op'[q] = op[q] /\ nops'[q] = nops[q]
    BY DEF ClearDirty, Settled, Leave, At, TypeOK
  <2>2. \A c \in Category : db'[c].row = db[c].row
    BY DEF ClearDirty, Settled, TypeOK
  <2>3. UNCHANGED <<staged, parked>>
    BY DEF ClearDirty
  <2>4. QED
    BY <2>1, <2>2, <2>3 DEF CommittedInv, Mine, MyFile, RowOf
<1>8. HistoryInv'
  BY DEF ClearDirty, Settled, Leave, Unlock, HistoryInv, RowOf, TypeOK
<1>9. StableInv'
  BY DEF ClearDirty, Settled, Leave, Unlock, StableInv, TypeOK
<1>10. QED
  BY <1>1, <1>2, <1>3, <1>4, <1>5, <1>6, <1>7, <1>8, <1>9

\* An abort leaves its file behind, with the row unchanged.
LEMMA StepAbort ==
  ASSUME CoreInv, TypeOK', NEW p \in Writers, Abort(p)
  PROVE  CoreInv'
<1> USE DEF CoreInv, files
<1>1. LockInv'
  BY ConstantsAssumption DEF Abort, Leave, Unlock, LockInv, InTxn, TypeOK
<1>2. RequestInv'
  BY DEF Abort, Leave, Unlock, RequestInv, NoRequest, TypeOK
<1>3. ShapeInv'
  BY DEF Abort, Leave, Unlock, ShapeInv, Shape, Fits, RowOf, TypeOK
<1>4. WritingInv'
  <2>1. \A q \in Writers, d \in Category : At(q, "writing", d)' =>
          /\ At(q, "writing", d)
          /\ op'[q] = op[q] /\ nops'[q] = nops[q] /\ new'[q] = new[q]
    BY DEF Abort, Leave, At, TypeOK
  <2>2. UNCHANGED <<db, final, staged, parked>>
    BY DEF Abort
  <2>3. QED
    BY <2>1, <2>2 DEF WritingInv, MyFiles, MyFile, RowOf
<1>5. PreparedInv'
  <2>1. \A q \in Writers, d \in Category : At(q, "prepared", d)' =>
          /\ At(q, "prepared", d)
          /\ op'[q] = op[q] /\ nops'[q] = nops[q] /\ new'[q] = new[q]
    BY DEF Abort, Leave, At, TypeOK
  <2>2. UNCHANGED <<db, final, staged, parked>>
    BY DEF Abort
  <2>3. QED
    BY <2>1, <2>2 DEF PreparedInv, MyFiles, MyFile, RowOf
<1>6. DecisionInv'
  BY DEF Abort, Leave, Unlock, DecisionInv, At, RowOf, TypeOK, LockInv, InTxn
<1>7. CommittedInv'
  <2>1. \A q \in Writers, d \in Category : At(q, "committed", d)' =>
          /\ At(q, "committed", d)
          /\ op'[q] = op[q] /\ nops'[q] = nops[q] /\ new'[q] = new[q]
    BY DEF Abort, Leave, At, TypeOK
  <2>2. UNCHANGED <<db, final, staged, parked>>
    BY DEF Abort
  <2>3. QED
    BY <2>1, <2>2 DEF CommittedInv, Mine, MyFile, RowOf
<1>8. HistoryInv'
  BY DEF Abort, Leave, Unlock, HistoryInv, RowOf, TypeOK
<1>9. StableInv'
  BY DEF Abort, Leave, Unlock, StableInv, TypeOK
<1>10. QED
  BY <1>1, <1>2, <1>3, <1>4, <1>5, <1>6, <1>7, <1>8, <1>9

\* A late promotion: the file it still finds carries exactly the committed bytes.
LEMMA StepPromote ==
  ASSUME CoreInv, TypeOK', NEW p \in Writers, NEW c \in Category,
         op[p].cat = c, Promote(p)
  PROVE  CoreInv'
<1> USE DEF CoreInv, files
<1>a. op[p].kind # "delete" /\ ~InTxn(p) /\ Leave(p, "idle") /\ parked' = parked /\ db' = db
  BY DEF Promote, InTxn
<1>b. \A f \in Mine(p, staged[c]) : f.data = RowOf(c)
  BY <1>a DEF Promote, CommittedInv, At
<1>c. \/ UNCHANGED <<final, staged>>
      \/ \E f \in Mine(p, staged[c]) : /\ final'  = [final EXCEPT ![c] = RowOf(c)]
                                       /\ staged' = [staged EXCEPT ![c] = @ \ {f}]
  BY <1>b DEF Promote
<1>d. ASSUME NEW q \in Writers, q # p, NEW v, staged[c] = MyFiles(q, v) \/ staged[c] = {}
      PROVE  UNCHANGED <<final, staged>>
  <2>1. MyFile(q) # MyFile(p)
    BY <1>d, FileNamesAreUnique
  <2>2. Mine(p, staged[c]) = {}
    BY <1>d, <2>1 DEF Mine, MyFiles
  <2>3. QED
    BY <1>c, <2>2
<1>e. /\ \A q \in Writers : /\ q # p => pc'[q] = pc[q] /\ op'[q] = op[q] /\ new'[q] = new[q]
                            /\ MyFile(q)' = MyFile(q)
      /\ pc'[p] = "idle"
  BY <1>a DEF Promote, Leave, MyFile, TypeOK
<1>f. ASSUME NEW d \in Category, d # c PROVE final'[d] = final[d] /\ staged'[d] = staged[d]
  BY <1>c, <1>f DEF TypeOK
<1>1. LockInv'
  BY DEF Promote, Leave, LockInv, InTxn, TypeOK
<1>2. RequestInv'
  BY DEF Promote, Leave, RequestInv, NoRequest, TypeOK
<1>3. ShapeInv'
  <2>1. Shape(c)'
    <3>1. CASE UNCHANGED <<final, staged>>
      BY <1>a, <3>1 DEF ShapeInv, Shape, Fits, RowOf
    <3>2. CASE \E f \in Mine(p, staged[c]) : /\ final'  = [final EXCEPT ![c] = RowOf(c)]
                                            /\ staged' = [staged EXCEPT ![c] = @ \ {f}]
      <4>1. PICK f \in staged[c] : /\ final'  = [final EXCEPT ![c] = RowOf(c)]
                                   /\ staged' = [staged EXCEPT ![c] = @ \ {f}]
        BY <3>2 DEF Mine
      <4>2. staged[c] = {f} /\ parked[c] = {}
        BY DEF ShapeInv, Shape, Fits
      <4>3. staged'[c] = {} /\ parked'[c] = {} /\ final'[c] = RowOf(c)'
        BY <1>a, <4>1, <4>2 DEF RowOf, TypeOK
      <4>4. QED
        BY <4>3 DEF Shape, Fits
    <3>3. QED
      BY <1>c, <3>1, <3>2
  <2>2. ASSUME NEW d \in Category, d # c PROVE Shape(d)'
    BY <1>a, <1>f, <2>2 DEF ShapeInv, Shape, Fits, RowOf
  <2>3. QED
    BY <2>1, <2>2 DEF ShapeInv
<1>4. WritingInv'
  <2> SUFFICES ASSUME NEW q \in Writers, NEW d \in Category, At(q, "writing", d)'
               PROVE  /\ \E t \in Tears : staged'[d] = MyFiles(q, t)
                      /\ parked[d] = {} /\ final'[d] = RowOf(d) /\ new[q] \in Content
    BY <1>a, <1>e DEF WritingInv, At, MyFiles, RowOf
  <2>1. q # p /\ At(q, "writing", d)
    BY <1>e DEF At
  <2>2. /\ \E t \in Tears : staged[d] = MyFiles(q, t)
        /\ parked[d] = {} /\ final[d] = RowOf(d) /\ new[q] \in Content
    BY <2>1 DEF WritingInv
  <2>3. final'[d] = final[d] /\ staged'[d] = staged[d]
    <3>1. CASE d # c
      BY <1>f, <3>1
    <3>2. CASE d = c
      BY <1>d, <2>1, <2>2, <3>2
    <3>3. QED
      BY <3>1, <3>2
  <2>4. QED
    BY <2>2, <2>3
<1>5. PreparedInv'
  <2>a. /\ \A q \in Writers, d \in Category : At(q, "prepared", d)' =>
             op'[q] = op[q] /\ new'[q] = new[q] /\ MyFile(q)' = MyFile(q)
        /\ parked' = parked /\ db' = db
    BY <1>a, <1>e DEF At
  <2> SUFFICES ASSUME NEW q \in Writers, NEW d \in Category, At(q, "prepared", d)'
               PROVE  IF op[q].kind = "delete"
                      THEN /\ staged'[d] = {} /\ final'[d] = Absent /\ new[q] = Absent
                           /\ \/ parked[d] = {} /\ RowOf(d) = Absent
                              \/ parked[d] = MyFiles(q, RowOf(d)) /\ RowOf(d) # Absent
                      ELSE /\ staged'[d] = MyFiles(q, new[q])
                           /\ parked[d] = {} /\ final'[d] = RowOf(d) /\ new[q] \in Content
    BY <2>a DEF PreparedInv, MyFiles, RowOf
  <2>1. q # p /\ At(q, "prepared", d)
    BY <1>e DEF At
  <2>2. IF op[q].kind = "delete"
        THEN /\ staged[d] = {} /\ final[d] = Absent /\ new[q] = Absent
             /\ \/ parked[d] = {} /\ RowOf(d) = Absent
                \/ parked[d] = MyFiles(q, RowOf(d)) /\ RowOf(d) # Absent
        ELSE /\ staged[d] = MyFiles(q, new[q])
             /\ parked[d] = {} /\ final[d] = RowOf(d) /\ new[q] \in Content
    BY <2>1 DEF PreparedInv
  <2>3. final'[d] = final[d] /\ staged'[d] = staged[d]
    <3>1. CASE d # c
      BY <1>f, <3>1
    <3>2. CASE d = c
      <4>1. (\E v : staged[c] = MyFiles(q, v)) \/ staged[c] = {}
        BY <2>2, <3>2
      <4>2. QED
        BY <1>d, <2>1, <3>2, <4>1
    <3>3. QED
      BY <3>1, <3>2
  <2>4. QED
    BY <2>2, <2>3
<1>6. DecisionInv'
  BY DEF Promote, Leave, DecisionInv, At, RowOf, TypeOK, LockInv, InTxn
<1>7. CommittedInv'
  <2> SUFFICES ASSUME NEW q \in Writers, NEW d \in Category, At(q, "committed", d)'
               PROVE  IF op[q].kind = "delete"
                      THEN Mine(q, parked[d]) # {} => RowOf(d) = Absent
                      ELSE \A f \in Mine(q, staged'[d]) : f.data = RowOf(d)
    BY <1>a, <1>e DEF CommittedInv, At, Mine, RowOf
  <2>1. At(q, "committed", d)
    BY <1>e DEF At
  <2>2. CASE d # c
    BY <1>f, <2>1, <2>2 DEF CommittedInv, Mine
  <2>3. CASE d = c
    <3>1. staged'[c] \subseteq staged[c]
      BY <1>c DEF TypeOK
    <3>2. QED
      BY <2>1, <2>3, <3>1 DEF CommittedInv, Mine
  <2>4. QED
    BY <2>2, <2>3
<1>8. HistoryInv'
  BY DEF Promote, Leave, HistoryInv, RowOf, TypeOK
<1>9. StableInv'
  BY DEF Promote, Leave, StableInv, TypeOK
<1>10. QED
  BY <1>1, <1>2, <1>3, <1>4, <1>5, <1>6, <1>7, <1>8, <1>9

\* Completing a delete: the file it still finds is garbage.
LEMMA StepPromoteDelete ==
  ASSUME CoreInv, TypeOK', NEW p \in Writers, NEW c \in Category,
         op[p].cat = c, PromoteDelete(p)
  PROVE  CoreInv'
<1> USE DEF CoreInv, files
<1>a. /\ op[p].kind = "delete" /\ Leave(p, "idle")
      /\ final' = final /\ staged' = staged /\ db' = db
  BY DEF PromoteDelete
<1>b. Mine(p, parked[c]) # {} => RowOf(c) = Absent
  BY <1>a DEF PromoteDelete, CommittedInv, At
<1>c. parked'[c] = parked[c] \ Mine(p, parked[c]) /\ \A d \in Category : d # c => parked'[d] = parked[d]
  BY DEF PromoteDelete, TypeOK
<1>d. ASSUME NEW q \in Writers, q # p, NEW v, parked[c] = MyFiles(q, v) \/ parked[c] = {}
      PROVE  parked'[c] = parked[c]
  <2>1. MyFile(q) # MyFile(p)
    BY <1>d, FileNamesAreUnique
  <2>2. Mine(p, parked[c]) = {}
    BY <1>d, <2>1 DEF Mine, MyFiles
  <2>3. QED
    BY <1>c, <2>2
<1>e. /\ \A q \in Writers : /\ q # p => pc'[q] = pc[q] /\ op'[q] = op[q] /\ new'[q] = new[q]
                            /\ MyFile(q)' = MyFile(q)
      /\ pc'[p] = "idle"
  BY <1>a DEF PromoteDelete, Leave, MyFile, TypeOK
<1>1. LockInv'
  BY DEF PromoteDelete, Leave, LockInv, InTxn, TypeOK
<1>2. RequestInv'
  BY DEF PromoteDelete, Leave, RequestInv, NoRequest, TypeOK
<1>3. ShapeInv'
  <2>1. Shape(c)'
    <3>1. CASE Mine(p, parked[c]) = {}
      <4>1. parked'[c] = parked[c]
        BY <1>c, <3>1
      <4>2. QED
        BY <1>a, <4>1 DEF ShapeInv, Shape, Fits, RowOf
    <3>2. CASE Mine(p, parked[c]) # {}
      <4>1. parked[c] # {} /\ RowOf(c) = Absent
        BY <1>b, <3>2 DEF Mine
      <4>2. staged[c] = {} /\ final[c] = Absent /\ parked[c] = Mine(p, parked[c])
        BY <3>2, <4>1 DEF ShapeInv, Shape, Fits, Mine
      <4>3. staged'[c] = {} /\ final'[c] = Absent /\ parked'[c] = {} /\ RowOf(c)' = Absent
        BY <1>a, <1>c, <4>1, <4>2 DEF RowOf
      <4>4. QED
        BY <4>3 DEF Shape, Fits
    <3>3. QED
      BY <3>1, <3>2
  <2>2. ASSUME NEW d \in Category, d # c PROVE Shape(d)'
    BY <1>a, <1>c, <2>2 DEF ShapeInv, Shape, Fits, RowOf
  <2>3. QED
    BY <2>1, <2>2 DEF ShapeInv
<1>4. WritingInv'
  <2> SUFFICES ASSUME NEW q \in Writers, NEW d \in Category, At(q, "writing", d)'
               PROVE  /\ \E t \in Tears : staged[d] = MyFiles(q, t)
                      /\ parked'[d] = {} /\ final[d] = RowOf(d) /\ new[q] \in Content
    BY <1>a, <1>e, SMTT(30) DEF WritingInv, At, MyFiles, RowOf
  <2>1. q # p /\ At(q, "writing", d)
    BY <1>e DEF At
  <2>2. /\ \E t \in Tears : staged[d] = MyFiles(q, t)
        /\ parked[d] = {} /\ final[d] = RowOf(d) /\ new[q] \in Content
    BY <2>1 DEF WritingInv
  <2>3. parked'[d] = parked[d]
    BY <1>c, <1>d, <2>1, <2>2
  <2>4. QED
    BY <2>2, <2>3
<1>5. PreparedInv'
  <2>a. /\ \A q \in Writers, d \in Category : At(q, "prepared", d)' =>
             op'[q] = op[q] /\ new'[q] = new[q] /\ MyFile(q)' = MyFile(q)
        /\ final' = final /\ staged' = staged /\ db' = db
    BY <1>a, <1>e DEF At
  <2> SUFFICES ASSUME NEW q \in Writers, NEW d \in Category, At(q, "prepared", d)'
               PROVE  IF op[q].kind = "delete"
                      THEN /\ staged[d] = {} /\ final[d] = Absent /\ new[q] = Absent
                           /\ \/ parked'[d] = {} /\ RowOf(d) = Absent
                              \/ parked'[d] = MyFiles(q, RowOf(d)) /\ RowOf(d) # Absent
                      ELSE /\ staged[d] = MyFiles(q, new[q])
                           /\ parked'[d] = {} /\ final[d] = RowOf(d) /\ new[q] \in Content
    BY <2>a DEF PreparedInv, MyFiles, RowOf
  <2>1. q # p /\ At(q, "prepared", d)
    BY <1>e DEF At
  <2>2. IF op[q].kind = "delete"
        THEN /\ staged[d] = {} /\ final[d] = Absent /\ new[q] = Absent
             /\ \/ parked[d] = {} /\ RowOf(d) = Absent
                \/ parked[d] = MyFiles(q, RowOf(d)) /\ RowOf(d) # Absent
        ELSE /\ staged[d] = MyFiles(q, new[q])
             /\ parked[d] = {} /\ final[d] = RowOf(d) /\ new[q] \in Content
    BY <2>1 DEF PreparedInv
  <2>3. parked'[d] = parked[d]
    BY <1>c, <1>d, <2>1, <2>2
  <2>4. QED
    BY <2>2, <2>3
<1>6. DecisionInv'
  BY DEF PromoteDelete, Leave, DecisionInv, At, RowOf, TypeOK, LockInv, InTxn
<1>7. CommittedInv'
  <2> SUFFICES ASSUME NEW q \in Writers, NEW d \in Category, At(q, "committed", d)'
               PROVE  IF op[q].kind = "delete"
                      THEN Mine(q, parked'[d]) # {} => RowOf(d) = Absent
                      ELSE \A f \in Mine(q, staged[d]) : f.data = RowOf(d)
    BY <1>a, <1>e DEF CommittedInv, At, Mine, RowOf
  <2>1. At(q, "committed", d)
    BY <1>e DEF At
  <2>2. parked'[d] \subseteq parked[d]
    BY <1>c
  <2>3. QED
    BY <2>1, <2>2 DEF CommittedInv, Mine
<1>8. HistoryInv'
  BY DEF PromoteDelete, Leave, HistoryInv, RowOf, TypeOK
<1>9. StableInv'
  BY DEF PromoteDelete, Leave, StableInv, TypeOK
<1>10. QED
  BY <1>1, <1>2, <1>3, <1>4, <1>5, <1>6, <1>7, <1>8, <1>9

\* A failed rename leaves the committed file staged.
LEMMA StepPromoteFails ==
  ASSUME CoreInv, TypeOK', NEW p \in Writers, PromoteFails(p)
  PROVE  CoreInv'
<1> USE DEF CoreInv, files
<1>1. LockInv'
  BY DEF PromoteFails, Leave, LockInv, InTxn, TypeOK
<1>2. RequestInv'
  BY DEF PromoteFails, Leave, RequestInv, NoRequest, TypeOK
<1>3. ShapeInv'
  BY DEF PromoteFails, Leave, ShapeInv, Shape, Fits, RowOf, TypeOK
<1>4. WritingInv'
  <2>1. \A q \in Writers, d \in Category : At(q, "writing", d)' =>
          /\ At(q, "writing", d)
          /\ op'[q] = op[q] /\ nops'[q] = nops[q] /\ new'[q] = new[q]
    BY DEF PromoteFails, Leave, At, TypeOK
  <2>2. UNCHANGED <<db, final, staged, parked>>
    BY DEF PromoteFails
  <2>3. QED
    BY <2>1, <2>2 DEF WritingInv, MyFiles, MyFile, RowOf
<1>5. PreparedInv'
  <2>1. \A q \in Writers, d \in Category : At(q, "prepared", d)' =>
          /\ At(q, "prepared", d)
          /\ op'[q] = op[q] /\ nops'[q] = nops[q] /\ new'[q] = new[q]
    BY DEF PromoteFails, Leave, At, TypeOK
  <2>2. UNCHANGED <<db, final, staged, parked>>
    BY DEF PromoteFails
  <2>3. QED
    BY <2>1, <2>2 DEF PreparedInv, MyFiles, MyFile, RowOf
<1>6. DecisionInv'
  BY DEF PromoteFails, Leave, DecisionInv, At, RowOf, TypeOK, LockInv, InTxn
<1>7. CommittedInv'
  <2>1. \A q \in Writers, d \in Category : At(q, "committed", d)' =>
          /\ At(q, "committed", d)
          /\ op'[q] = op[q] /\ nops'[q] = nops[q] /\ new'[q] = new[q]
    BY DEF PromoteFails, Leave, At, TypeOK
  <2>2. UNCHANGED <<db, final, staged, parked>>
    BY DEF PromoteFails
  <2>3. QED
    BY <2>1, <2>2 DEF CommittedInv, Mine, MyFile, RowOf
<1>8. HistoryInv'
  BY DEF PromoteFails, Leave, HistoryInv, RowOf, TypeOK
<1>9. StableInv'
  BY DEF PromoteFails, Leave, StableInv, TypeOK
<1>10. QED
  BY <1>1, <1>2, <1>3, <1>4, <1>5, <1>6, <1>7, <1>8, <1>9

\* A crash leaves files and rows as they are.
LEMMA StepCrash ==
  ASSUME CoreInv, TypeOK', NEW p \in Writers, Crash(p)
  PROVE  CoreInv'
<1> USE DEF CoreInv, files
<1>1. LockInv'
  BY ConstantsAssumption DEF Crash, Leave, Unlock, LockInv, InTxn, TypeOK
<1>2. RequestInv'
  BY DEF Crash, Leave, Unlock, RequestInv, NoRequest, TypeOK
<1>3. ShapeInv'
  BY DEF Crash, Leave, Unlock, ShapeInv, Shape, Fits, RowOf, TypeOK
<1>4. WritingInv'
  <2>1. \A q \in Writers, d \in Category : At(q, "writing", d)' =>
          /\ At(q, "writing", d)
          /\ op'[q] = op[q] /\ nops'[q] = nops[q] /\ new'[q] = new[q]
    BY DEF Crash, Leave, At, TypeOK
  <2>2. UNCHANGED <<db, final, staged, parked>>
    BY DEF Crash
  <2>3. QED
    BY <2>1, <2>2 DEF WritingInv, MyFiles, MyFile, RowOf
<1>5. PreparedInv'
  <2>1. \A q \in Writers, d \in Category : At(q, "prepared", d)' =>
          /\ At(q, "prepared", d)
          /\ op'[q] = op[q] /\ nops'[q] = nops[q] /\ new'[q] = new[q]
    BY DEF Crash, Leave, At, TypeOK
  <2>2. UNCHANGED <<db, final, staged, parked>>
    BY DEF Crash
  <2>3. QED
    BY <2>1, <2>2 DEF PreparedInv, MyFiles, MyFile, RowOf
<1>6. DecisionInv'
  BY DEF Crash, Leave, Unlock, DecisionInv, At, RowOf, TypeOK, LockInv, InTxn
<1>7. CommittedInv'
  <2>1. \A q \in Writers, d \in Category : At(q, "committed", d)' =>
          /\ At(q, "committed", d)
          /\ op'[q] = op[q] /\ nops'[q] = nops[q] /\ new'[q] = new[q]
    BY DEF Crash, Leave, At, TypeOK
  <2>2. UNCHANGED <<db, final, staged, parked>>
    BY DEF Crash
  <2>3. QED
    BY <2>1, <2>2 DEF CommittedInv, Mine, MyFile, RowOf
<1>8. HistoryInv'
  BY DEF Crash, Leave, Unlock, HistoryInv, RowOf, TypeOK
<1>9. StableInv'
  BY DEF Crash, Leave, Unlock, StableInv, TypeOK
<1>10. QED
  BY <1>1, <1>2, <1>3, <1>4, <1>5, <1>6, <1>7, <1>8, <1>9

\* Starting again.
LEMMA StepOpen ==
  ASSUME CoreInv, TypeOK', NEW p \in Writers, Open(p)
  PROVE  CoreInv'
<1> USE DEF CoreInv, files
<1>1. LockInv'
  BY DEF Open, Leave, OpenRequest, LockInv, InTxn, TypeOK
<1>2. RequestInv'
  <2>1. /\ pc'[p] \notin {"writing", "prepared", "committed"} /\ new'[p] = Absent
        /\ pc'[p] \in {"waiting", "settling"} => op'[p].kind = "open"
    BY DEF Open, Leave, OpenRequest, RequestInv, NoRequest, TypeOK
  <2>2. \A q \in Writers \ {p} : /\ pc'[q] = pc[q] /\ op'[q] = op[q] /\ todo'[q] = todo[q]
                                /\ new'[q] = new[q]
    BY DEF Open, Leave, TypeOK
  <2>3. QED
    BY <2>1, <2>2 DEF RequestInv
<1>3. ShapeInv'
  BY DEF Open, Leave, OpenRequest, ShapeInv, Shape, Fits, RowOf, TypeOK
<1>4. WritingInv'
  <2>1. \A q \in Writers, d \in Category : At(q, "writing", d)' =>
          /\ At(q, "writing", d)
          /\ op'[q] = op[q] /\ nops'[q] = nops[q] /\ new'[q] = new[q]
    BY DEF Open, Leave, OpenRequest, At, TypeOK
  <2>2. UNCHANGED <<db, final, staged, parked>>
    BY DEF Open
  <2>3. QED
    BY <2>1, <2>2 DEF WritingInv, MyFiles, MyFile, RowOf
<1>5. PreparedInv'
  <2>1. \A q \in Writers, d \in Category : At(q, "prepared", d)' =>
          /\ At(q, "prepared", d)
          /\ op'[q] = op[q] /\ nops'[q] = nops[q] /\ new'[q] = new[q]
    BY DEF Open, Leave, OpenRequest, At, TypeOK
  <2>2. UNCHANGED <<db, final, staged, parked>>
    BY DEF Open
  <2>3. QED
    BY <2>1, <2>2 DEF PreparedInv, MyFiles, MyFile, RowOf
<1>6. DecisionInv'
  BY DEF Open, Leave, OpenRequest, DecisionInv, At, RowOf, TypeOK, LockInv, InTxn
<1>7. CommittedInv'
  <2>1. \A q \in Writers, d \in Category : At(q, "committed", d)' =>
          /\ At(q, "committed", d)
          /\ op'[q] = op[q] /\ nops'[q] = nops[q] /\ new'[q] = new[q]
    BY DEF Open, Leave, OpenRequest, At, TypeOK
  <2>2. UNCHANGED <<db, final, staged, parked>>
    BY DEF Open
  <2>3. QED
    BY <2>1, <2>2 DEF CommittedInv, Mine, MyFile, RowOf
<1>8. HistoryInv'
  BY DEF Open, Leave, OpenRequest, HistoryInv, RowOf, TypeOK
<1>9. StableInv'
  BY DEF Open, Leave, OpenRequest, StableInv, TypeOK
<1>10. QED
  BY <1>1, <1>2, <1>3, <1>4, <1>5, <1>6, <1>7, <1>8, <1>9

-----------------------------------------------------------------------------
(* The invariant is inductive. *)

LEMMA TypeInit == Init => TypeOK
<1>1. NoRequest \in Request
  BY DEF NoRequest, Request
<1>2. <<>> \in Seq(Content)
  OBVIOUS
<1>3. QED
  BY <1>1, <1>2, ConstantsAssumption DEF Init, TypeOK, Row, PC

\* The store starts empty and clean.
LEMMA CoreInit == Init => CoreInv
<1> SUFFICES ASSUME Init PROVE CoreInv
  OBVIOUS
<1>1. TypeOK
  BY TypeInit
<1>2. LockInv
  BY ConstantsAssumption DEF Init, LockInv, InTxn
<1>3. RequestInv
  BY DEF Init, RequestInv, NoRequest
<1>4. ShapeInv
  BY DEF Init, ShapeInv, Shape, Fits, RowOf
<1>5. WritingInv /\ PreparedInv /\ DecisionInv /\ CommittedInv
  BY DEF Init, WritingInv, PreparedInv, DecisionInv, CommittedInv, At
<1>6. HistoryInv
  BY DEF Init, HistoryInv
<1>7. StableInv
  BY DEF Init, StableInv
<1>8. QED
  BY <1>1, <1>2, <1>3, <1>4, <1>5, <1>6, <1>7 DEF CoreInv

\* A process that serves a call or waits to commit has a category.
LEMMA CategoryOfCall ==
  ASSUME CoreInv, NEW p \in Writers,
         StageOpen(p) \/ StageDone(p) \/ Park(p) \/ Commit(p) \/ Promote(p) \/ PromoteDelete(p)
  PROVE  \E c \in Category : op[p].cat = c
BY DEF CoreInv, RequestInv, StageOpen, StageDone, Park, Settled, Commit, Promote, PromoteDelete

\* A power loss takes back no commit of a durable store, and what it leaves of the
\* directory fits the rows.
LEMMA StepPowerLoss ==
  ASSUME Durable, CoreInv, UndoInv, TypeOK', PowerLoss
  PROVE  CoreInv'
<1> USE DEF CoreInv
<1>1. db' = db /\ stable' = stable
  BY DEF PowerLoss, Durable, StableInv, TypeOK
<1>2. pc' = [q \in Writers |-> "down"]
  BY DEF PowerLoss
<1>3. LockInv'
  BY ConstantsAssumption DEF PowerLoss, LockInv, InTxn
<1>4. RequestInv'
  BY DEF PowerLoss, RequestInv
<1>5. ShapeInv'
  <2> SUFFICES ASSUME NEW c \in Category
               PROVE  Fits(RowOf(c), final'[c], staged'[c], parked'[c])
    BY <1>1 DEF ShapeInv, Shape, Fits, RowOf
  <2>1. PICK d \in unsynced[c] \cup {Dir(c)} :
          final'[c] = d.final /\ staged'[c] = d.staged /\ parked'[c] = d.parked
    BY PowerLossLeaves
  <2>2. Fits(RowOf(c), d.final, d.staged, d.parked)
    <3>1. CASE d \in unsynced[c]
      BY <3>1 DEF UndoInv
    <3>2. CASE d = Dir(c)
      BY <3>2 DEF ShapeInv, Shape, Dir
    <3>3. QED
      BY <3>1, <3>2
  <2>3. QED
    BY <2>1, <2>2
<1>6. WritingInv' /\ PreparedInv' /\ DecisionInv' /\ CommittedInv'
  BY <1>2 DEF WritingInv, PreparedInv, DecisionInv, CommittedInv, At
<1>7. HistoryInv' /\ StableInv'
  BY <1>1 DEF PowerLoss, HistoryInv, StableInv
<1>8. QED
  BY <1>3, <1>4, <1>5, <1>6, <1>7

LEMMA StepQuiet ==
  ASSUME CoreInv, TypeOK', StableInv',
         UNCHANGED <<db, final, staged, parked, backups, lock, pc, op, todo, new, nops>>
  PROVE  CoreInv'
<1> USE DEF CoreInv
<1>1. LockInv' /\ RequestInv'
  BY DEF LockInv, InTxn, RequestInv
<1>2. ShapeInv' /\ HistoryInv'
  BY DEF ShapeInv, Shape, Fits, HistoryInv, RowOf
<1>3. WritingInv'
  BY DEF WritingInv, At, MyFiles, MyFile, RowOf
<1>4. PreparedInv'
  BY DEF PreparedInv, At, MyFiles, MyFile, RowOf
<1>5. DecisionInv'
  BY DEF DecisionInv, At, RowOf
<1>6. CommittedInv'
  BY DEF CommittedInv, At, Mine, MyFile, RowOf
<1>7. QED
  BY <1>1, <1>2, <1>3, <1>4, <1>5, <1>6

LEMMA StepCheckpoint ==
  ASSUME CoreInv, TypeOK', Checkpoint
  PROVE  CoreInv'
<1>1. StableInv'
  BY DEF Checkpoint, StableInv
<1>2. QED
  BY <1>1, StepQuiet DEF Checkpoint, files

LEMMA StepStutter ==
  ASSUME CoreInv, UNCHANGED vars
  PROVE  CoreInv'
<1>1. TypeOK' /\ StableInv'
  BY DEF CoreInv, TypeOK, StableInv, vars, files
<1>2. QED
  BY <1>1, StepQuiet DEF vars, files

\* What the processes see stays in order.
LEMMA CoreStep ==
  ASSUME Durable, CoreInv, UndoInv, [Next]_vars
  PROVE  CoreInv'
<1>1. ASSUME NEW p \in Writers, Call(p) PROVE CoreInv'
  BY <1>1, TypeCall, StepCall DEF CoreInv
<1>2. ASSUME NEW p \in Writers, Acquire(p) \/ GiveUp(p) PROVE CoreInv'
  BY <1>2, TypeControl, StepAcquire, StepGiveUp DEF CoreInv
<1>3. ASSUME NEW p \in Writers, Settle(p) PROVE CoreInv'
  BY <1>3, TypeSettle, StepSettleStaged, StepSettleFails, StepSettleParked DEF CoreInv, Settle
<1>4. ASSUME NEW p \in Writers, SettleError(p) \/ FinishOpen(p) \/ Refuse(p) PROVE CoreInv'
  BY <1>4, TypeControl, StepSettleError, StepFinishOpen, StepRefuse DEF CoreInv
<1>5. ASSUME NEW p \in Writers, StageOpen(p) \/ StageDone(p) \/ Park(p) PROVE CoreInv'
  BY <1>5, CategoryOfCall, TypeStage, StepStageOpen, StepStageDone, StepPark
<1>6. ASSUME NEW p \in Writers, Commit(p) \/ ClearDirty(p) PROVE CoreInv'
  BY <1>6, CategoryOfCall, TypeCommit, StepCommit, StepClearDirty
<1>7. ASSUME NEW p \in Writers, Promote(p) \/ PromoteDelete(p) \/ PromoteFails(p) PROVE CoreInv'
  BY <1>7, CategoryOfCall, TypePromote, StepPromote, StepPromoteDelete, StepPromoteFails
<1>8. ASSUME NEW p \in Writers, Abort(p) \/ Crash(p) \/ Open(p) PROVE CoreInv'
  BY <1>8, TypeControl, StepAbort, StepCrash, StepOpen DEF CoreInv
<1>9. CASE PowerLoss \/ Checkpoint
  BY <1>9, TypeMachine, StepPowerLoss, StepCheckpoint DEF CoreInv
<1>10. CASE UNCHANGED vars
  BY <1>10, StepStutter
<1>11. QED
  BY <1>1, <1>2, <1>3, <1>4, <1>5, <1>6, <1>7, <1>8, <1>9, <1>10 DEF Next, Work

-----------------------------------------------------------------------------
(* What a power loss may bring back. *)

\* A step that changes no row adds to the past of the directory a state that fitted
\* the row when it was left.
LEMMA UndoKept ==
  ASSUME CoreInv, UndoInv, Remember \/ SyncDir \/ UNCHANGED unsynced,
         \A c \in Category : RowOf(c)' = RowOf(c)
  PROVE  UndoInv'
<1> SUFFICES ASSUME NEW c \in Category, NEW d \in unsynced'[c]
             PROVE  Fits(RowOf(c), d.final, d.staged, d.parked)
  BY DEF UndoInv, Fits
<1>1. d \in unsynced[c] \cup {Dir(c)}
  BY RememberAddsDir DEF CoreInv
<1>2. CASE d \in unsynced[c]
  BY <1>2 DEF UndoInv
<1>3. CASE d = Dir(c)
  BY <1>3 DEF CoreInv, ShapeInv, Shape, Dir
<1>4. QED
  BY <1>1, <1>2, <1>3

\* COMMIT changes a row only when nothing of its category can be brought back.
LEMMA UndoOfCommit ==
  ASSUME CoreInv, UndoInv, SyncedInv, NEW p \in Writers, NEW c \in Category,
         op[p].cat = c, Commit(p)
  PROVE  UndoInv'
<1>1. unsynced' = unsynced /\ At(p, "prepared", c)
  BY DEF Commit, files, At
<1>2. \A d \in Category : d # c => RowOf(d)' = RowOf(d)
  BY DEF Commit, RowOf, CoreInv, TypeOK
<1>3. unsynced[c] = {} \/ RowOf(c)' = RowOf(c)
  <2>1. CASE op[p].kind = "delete" /\ RowOf(c) = Absent
    <3>1. db'[c] = Written(op[p], db[c], new[p])
      BY DEF Commit, CoreInv, TypeOK
    <3>2. RowOf(c)' = Absent
      BY <2>1, <3>1 DEF Written, RowOf
    <3>3. QED
      BY <2>1, <3>2
  <2>2. QED
    BY <1>1, <2>1 DEF SyncedInv
<1>4. QED
  BY <1>1, <1>2, <1>3 DEF UndoInv, Fits

\* What holds of the past of the directory when a process is about to commit holds
\* while nobody touches the category.
LEMMA SyncedKept ==
  ASSUME SyncedInv,
         \A q \in Writers, c \in Category : At(q, "prepared", c)' =>
           /\ At(q, "prepared", c) /\ op'[q] = op[q] /\ RowOf(c)' = RowOf(c)
           /\ unsynced'[c] = unsynced[c]
  PROVE  SyncedInv'
BY DEF SyncedInv

\* Staging and parking end with the fsync of the directory, except where there is
\* nothing to park.
LEMMA SyncedByFsync ==
  ASSUME CoreInv, SyncedInv, NEW p \in Writers, NEW c \in Category, op[p].cat = c,
         StageDone(p) \/ Park(p)
  PROVE  SyncedInv'
<1>1. CASE SyncDir
  BY <1>1 DEF SyncDir, SyncedInv
<1>2. CASE ~SyncDir
  <2>1. Park(p) /\ final[c] = Absent /\ unsynced' = unsynced
    BY <1>2 DEF StageDone, Park
  <2>2. RowOf(c) = Absent /\ op[p].kind = "delete"
    BY <2>1, SettledIsClean DEF Park
  <2>3. op' = op /\ RowOf(c)' = RowOf(c)
    BY <2>1 DEF Park, RowOf
  <2>4. \A q \in Writers, d \in Category : At(q, "prepared", d)' => q = p /\ d = c
    <3>1. \A q \in Writers : q # p => ~InTxn(q) /\ pc'[q] = pc[q]
      BY <2>1, AloneInTxn DEF Park, Settled, InTxn, CoreInv, TypeOK
    <3>2. QED
      BY <2>3, <3>1 DEF At, InTxn
  <2>5. QED
    BY <2>2, <2>3, <2>4 DEF SyncedInv
<1>3. QED
  BY <1>1, <1>2

\* Settling and staging work alone under the lock: nobody is about to commit.
LEMMA SyncedAlone ==
  ASSUME CoreInv, SyncedInv, NEW p \in Writers, InTxn(p), pc'[p] # "prepared",
         \A q \in Writers : q # p => pc'[q] = pc[q]
  PROVE  SyncedInv'
<1>1. \A q \in Writers : pc'[q] # "prepared"
  BY AloneInTxn DEF InTxn
<1>2. QED
  BY <1>1 DEF SyncedInv, At

\* A late rename touches no file of a category about to be committed.
LEMMA SyncedPromote ==
  ASSUME CoreInv, SyncedInv, NEW p \in Writers, NEW c \in Category, op[p].cat = c,
         Promote(p) \/ PromoteDelete(p)
  PROVE  SyncedInv'
<1> SUFFICES ASSUME NEW q \in Writers, NEW d \in Category, At(q, "prepared", d)'
             PROVE  /\ At(q, "prepared", d) /\ op'[q] = op[q] /\ RowOf(d)' = RowOf(d)
                    /\ unsynced'[d] = unsynced[d]
  BY SyncedKept
<1>1. Leave(p, "idle") /\ db' = db /\ Remember
  BY DEF Promote, PromoteDelete
<1>2. q # p /\ At(q, "prepared", d) /\ op'[q] = op[q] /\ RowOf(d)' = RowOf(d)
  BY <1>1 DEF Leave, At, RowOf, CoreInv, TypeOK
<1>3. MyFile(q) # MyFile(p)
  BY <1>2, FileNamesAreUnique DEF CoreInv
<1>4. (\A f \in staged[d] \cup parked[d] : f.id = MyFile(q))
  BY <1>2 DEF CoreInv, PreparedInv, MyFiles
<1>5. Mine(p, staged[d]) = {} /\ Mine(p, parked[d]) = {}
  BY <1>3, <1>4 DEF Mine
<1>6. final'[d] = final[d] /\ staged'[d] = staged[d] /\ parked'[d] = parked[d]
  <2>1. CASE Promote(p)
    <3>1. parked' = parked
      BY <2>1 DEF Promote
    <3>2. CASE d = c
      BY <1>5, <2>1, <3>1, <3>2 DEF Promote
    <3>3. CASE d # c
      BY <2>1, <3>1, <3>3 DEF Promote, CoreInv, TypeOK
    <3>4. QED
      BY <3>2, <3>3
  <2>2. CASE PromoteDelete(p)
    <3>1. UNCHANGED <<final, staged>>
      BY <2>2 DEF PromoteDelete
    <3>2. CASE d = c
      BY <1>5, <2>2, <3>1, <3>2 DEF PromoteDelete, CoreInv, TypeOK
    <3>3. CASE d # c
      BY <2>2, <3>1, <3>3 DEF PromoteDelete, CoreInv, TypeOK
    <3>4. QED
      BY <3>2, <3>3
  <2>3. QED
    BY <2>1, <2>2
<1>7. Dir(d)' = Dir(d)
  BY <1>6 DEF Dir
<1>8. unsynced'[d] = unsynced[d]
  BY <1>1, <1>7 DEF Remember
<1>9. QED
  BY <1>2, <1>8

\* Steps that leave rows and directory alone, and let nobody reach its commit.
LEMMA PastKept ==
  ASSUME CoreInv, UndoInv, SyncedInv, UNCHANGED unsynced,
         \A c \in Category : RowOf(c)' = RowOf(c),
         \A q \in Writers : pc'[q] = "prepared" => pc[q] = "prepared" /\ op'[q] = op[q]
  PROVE  UndoInv' /\ SyncedInv'
<1>1. UndoInv'
  BY UndoKept
<1>2. SyncedInv'
  BY SyncedKept DEF At
<1>3. QED
  BY <1>1, <1>2

\* The invariant holds initially.
LEMMA InvariantInit == Init => IInv
<1>1. Init => UndoInv /\ SyncedInv
  BY DEF Init, UndoInv, SyncedInv
<1>2. QED
  BY <1>1, CoreInit DEF IInv

\* The invariant is inductive.
LEMMA InvariantStep ==
  ASSUME Durable, IInv, [Next]_vars
  PROVE  IInv'
<1> USE DEF IInv
<1>1. CoreInv'
  BY CoreStep
<1>2. ASSUME NEW p \in Writers,
             \/ Call(p) \/ Acquire(p) \/ GiveUp(p) \/ SettleError(p) \/ FinishOpen(p)
             \/ Refuse(p) \/ Abort(p) \/ PromoteFails(p) \/ Crash(p) \/ Open(p)
      PROVE  UndoInv' /\ SyncedInv'
  <2>1. UNCHANGED <<db, unsynced>>
    BY <1>2 DEF Call, Acquire, GiveUp, SettleError, FinishOpen, Refuse, Abort, PromoteFails,
                Crash, Open, files
  <2>2. \A q \in Writers : q # p => pc'[q] = pc[q] /\ op'[q] = op[q]
    BY <1>2 DEF Call, Acquire, GiveUp, SettleError, FinishOpen, Refuse, Abort, PromoteFails,
                Crash, Open, Fail, Leave, CoreInv, TypeOK
  <2>3. pc'[p] # "prepared"
    BY <1>2 DEF Call, Acquire, GiveUp, SettleError, FinishOpen, Refuse, Abort, PromoteFails,
                Crash, Open, Fail, Leave, CoreInv, TypeOK
  <2>4. QED
    BY <2>1, <2>2, <2>3, PastKept DEF RowOf
<1>3. ASSUME NEW p \in Writers, Settle(p) PROVE UndoInv' /\ SyncedInv'
  <2>1. PICK c \in Category : \/ \E f \in staged[c] : SettleStaged(p, c, f) \/ SettleFails(p, c, f)
                              \/ \E f \in parked[c] : SettleParked(p, c, f)
    BY <1>3 DEF Settle
  <2>2. db' = db /\ (Remember \/ SyncDir \/ UNCHANGED unsynced)
    BY <2>1 DEF SettleStaged, SettleFails, SettleParked, files
  <2>3. InTxn(p) /\ pc'[p] # "prepared" /\ \A q \in Writers : q # p => pc'[q] = pc[q]
    BY <2>1 DEF SettleStaged, SettleFails, SettleParked, Fail, Leave, InTxn, CoreInv, TypeOK
  <2>4. QED
    BY <2>2, <2>3, UndoKept, SyncedAlone DEF RowOf
<1>4. ASSUME NEW p \in Writers, StageOpen(p) PROVE UndoInv' /\ SyncedInv'
  <2>1. db' = db /\ Remember
    BY <1>4 DEF StageOpen
  <2>2. InTxn(p) /\ pc'[p] # "prepared" /\ \A q \in Writers : q # p => pc'[q] = pc[q]
    BY <1>4 DEF StageOpen, Settled, InTxn, CoreInv, TypeOK
  <2>3. QED
    BY <2>1, <2>2, UndoKept, SyncedAlone DEF RowOf
<1>5. ASSUME NEW p \in Writers, StageDone(p) \/ Park(p) PROVE UndoInv' /\ SyncedInv'
  <2>1. db' = db /\ (Remember \/ SyncDir \/ UNCHANGED unsynced)
    BY <1>5 DEF StageDone, Park
  <2>2. SyncedInv'
    BY <1>5, CategoryOfCall, SyncedByFsync
  <2>3. QED
    BY <2>1, <2>2, UndoKept DEF RowOf
<1>6. ASSUME NEW p \in Writers, Commit(p) \/ ClearDirty(p) PROVE UndoInv' /\ SyncedInv'
  <2>1. InTxn(p) /\ pc'[p] # "prepared" /\ \A q \in Writers : q # p => pc'[q] = pc[q]
    BY <1>6 DEF Commit, ClearDirty, Settled, Leave, InTxn, CoreInv, TypeOK
  <2>2. SyncedInv'
    BY <2>1, SyncedAlone
  <2>3. CASE Commit(p)
    BY <2>2, <2>3, CategoryOfCall, UndoOfCommit
  <2>4. CASE ClearDirty(p)
    <3>1. unsynced' = unsynced /\ \A c \in Category : RowOf(c)' = RowOf(c)
      BY <2>4 DEF ClearDirty, files, RowOf, CoreInv, TypeOK
    <3>2. QED
      BY <2>2, <3>1, UndoKept
  <2>5. QED
    BY <1>6, <2>3, <2>4
<1>7. ASSUME NEW p \in Writers, Promote(p) \/ PromoteDelete(p) PROVE UndoInv' /\ SyncedInv'
  <2>1. db' = db /\ Remember
    BY <1>7 DEF Promote, PromoteDelete
  <2>2. QED
    BY <1>7, <2>1, CategoryOfCall, SyncedPromote, UndoKept DEF RowOf
<1>8. ASSUME PowerLoss PROVE UndoInv' /\ SyncedInv'
  <2>1. unsynced' = [c \in Category |-> {}] /\ pc' = [q \in Writers |-> "down"]
    BY <1>8 DEF PowerLoss, SyncDir
  <2>2. QED
    BY <2>1 DEF UndoInv, SyncedInv, At
<1>9. ASSUME Checkpoint \/ UNCHANGED vars PROVE UndoInv' /\ SyncedInv'
  <2>1. UNCHANGED <<db, unsynced, pc, op>>
    BY <1>9 DEF Checkpoint, vars, files
  <2>2. /\ \A c \in Category : RowOf(c)' = RowOf(c)
        /\ \A q \in Writers : pc'[q] = "prepared" => pc[q] = "prepared" /\ op'[q] = op[q]
    BY <2>1 DEF RowOf
  <2>3. QED
    BY <2>1, <2>2, PastKept
<1>10. QED
  BY <1>1, <1>2, <1>3, <1>4, <1>5, <1>6, <1>7, <1>8, <1>9 DEF Next, Work
=============================================================================
