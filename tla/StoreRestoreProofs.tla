------------------------- MODULE StoreRestoreProofs -------------------------
(***************************************************************************)
(* Theorems about --restore, for any number of restores and failures,      *)
(* whatever the snapshots include and whenever a process starts.           *)
(***************************************************************************)
EXTENDS StoreRestore, SequenceTheorems, TLAPS

(* The pieces of the snapshot that are to be swapped in are staged. *)
StagedInv == phase = "staged" => Pieces(covers) \X {restores} \subseteq staged

(* What the renames done so far have achieved: nothing is overwritten, and a piece that
   is not in place yet is still staged. *)
SwapInv == phase = "swapping" =>
  /\ marker = [by |-> restores, covers |-> covers]
  /\ next <= Len(Swap) + 1
  /\ next \in 2 .. 4 => live["db"] = Absent
  /\ next > 2 => live["wal"] = Absent
  /\ IF next > 4 THEN live["db"] = restores ELSE <<"db", restores>> \in staged
  /\ IF next > 5 THEN live["categories"] = restores ELSE <<"categories", restores>> \in staged
  /\ covers => IF next > 7 THEN live["backups"] = restores ELSE <<"backups", restores>> \in staged

RestoreInv ==
  /\ TypeOK
  /\ StagedInv
  /\ SwapInv
  /\ SwapIsClosed
  /\ NothingIsDestroyed
  /\ CanBeCompleted

-----------------------------------------------------------------------------
(* The sequence of renames and the pieces, spelled out. *)

LEMMA SwapSteps ==
  ASSUME covers \in BOOLEAN
  PROVE  /\ Len(Swap) = IF covers THEN 7 ELSE 5
         /\ Swap[1] = Park("db") /\ Swap[2] = Park("wal") /\ Swap[3] = Park("categories")
         /\ Swap[4] = Place("db") /\ Swap[5] = Place("categories")
         /\ covers => Swap[6] = Park("backups") /\ Swap[7] = Place("backups")
<1> DEFINE s == <<Park("db"), Park("wal"), Park("categories"), Place("db"), Place("categories")>>
           t == <<Park("backups"), Place("backups")>>
           Step == [do : {"park", "place"}, piece : Piece]
<1>1. s \in Seq(Step) /\ t \in Seq(Step) /\ <<>> \in Seq(Step)
  <2>1. \A p \in Piece : Park(p) \in Step /\ Place(p) \in Step
    BY DEF Park, Place
  <2> HIDE DEF Step
  <2>2. QED
    BY <2>1 DEF Piece
<1>2. Swap = s \o (IF covers THEN t ELSE <<>>)
  BY DEF Swap
<1>3. /\ Len(s) = 5 /\ Len(t) = 2 /\ Len(<<>>) = 0
      /\ s[1] = Park("db") /\ s[2] = Park("wal") /\ s[3] = Park("categories")
      /\ s[4] = Place("db") /\ s[5] = Place("categories")
      /\ t[1] = Park("backups") /\ t[2] = Place("backups")
  OBVIOUS
<1> HIDE DEF s, t, Step
<1>4. CASE covers
  <2>1. Swap = s \o t
    BY <1>2, <1>4
  <2>2. /\ Len(s \o t) = Len(s) + Len(t)
        /\ \A i \in 1 .. Len(s) + Len(t) : (s \o t)[i] = IF i <= Len(s) THEN s[i] ELSE t[i - Len(s)]
    BY <1>1, ConcatProperties, Zenon
  <2>3. Len(Swap) = 7 /\ \A i \in 1 .. 7 : Swap[i] = IF i <= 5 THEN s[i] ELSE t[i - 5]
    BY <1>3, <2>1, <2>2
  <2>4. QED
    BY <1>3, <1>4, <2>3
<1>5. CASE ~covers
  <2>1. Swap = s
    BY <1>1, <1>2, <1>5, ConcatEmptySeq, Zenon
  <2>2. QED
    BY <1>3, <1>5, <2>1
<1>6. QED
  BY <1>4, <1>5

LEMMA HasIsStored ==
  ASSUME NEW f \in [Piece -> Generation \cup {Absent, Empty}]
  PROVE  Has(f) \subseteq Stored
BY DEF Has, Stored

-----------------------------------------------------------------------------
(* Types, action by action. *)

LEMMA TypeInit == Init => TypeOK
<1> SUFFICES ASSUME Init PROVE TypeOK
  OBVIOUS
<1>1. live \in [Piece -> Generation \cup {Absent, Empty}]
  BY RestoreAssumption DEF Init, Generation
<1>2. ever \subseteq Stored
  BY <1>1, HasIsStored DEF Init
<1>3. /\ staged = {} /\ parked = {} /\ marker = Absent
      /\ phase = "none" /\ next = 1 /\ restores = 0 /\ covers = FALSE /\ faults = 0
  BY DEF Init
<1>4. MaxRestores \in Nat /\ MaxFaults \in Nat
  BY RestoreAssumption
<1>5. next \in 1 .. 8 /\ restores \in 0 .. MaxRestores /\ faults \in 0 .. MaxFaults
  BY <1>3, <1>4
<1>6. QED
  BY <1>1, <1>2, <1>3, <1>5 DEF TypeOK, Generation

LEMMA TypeQuiet ==
  ASSUME TypeOK, (\E b \in Coverage : Begin(b)) \/ Stage \/ Mark \/ Unmark \/ Interrupt
  PROVE  TypeOK'
<1> USE RestoreAssumption
<1>1. \A b \in Coverage : Begin(b) => TypeOK'
  BY DEF TypeOK, Begin, Generation
<1>2. Stage => TypeOK'
  BY DEF TypeOK, Stage, Pieces, Piece, Stored, Generation
<1>3. Mark \/ Unmark \/ Interrupt => TypeOK'
  BY DEF TypeOK, Mark, Unmark, Interrupt
<1>4. QED
  BY <1>1, <1>2, <1>3

LEMMA TypeRename ==
  ASSUME TypeOK, Rename
  PROVE  TypeOK'
<1> DEFINE todo == Swap[next]
           p == todo.piece
<1>1. next \in 1 .. 7 /\ next' = next + 1
  BY SwapSteps DEF TypeOK, Rename
<1>2. p \in Piece
  BY <1>1, SwapSteps DEF TypeOK, Rename, Park, Place, Piece
<1>3. live' \in [Piece -> Generation \cup {Absent, Empty}]
  BY <1>2 DEF TypeOK, Rename
<1>4. parked' \subseteq Stored
  BY <1>2 DEF TypeOK, Rename, There, Stored
<1>5. staged' \subseteq Stored
  BY DEF TypeOK, Rename
<1>6. ever' \subseteq Stored
  BY <1>3, HasIsStored DEF TypeOK, Rename
<1>7. QED
  BY <1>1, <1>3, <1>4, <1>5, <1>6 DEF TypeOK, Rename

LEMMA TypeOpen ==
  ASSUME TypeOK, TurnedAway \/ Serve
  PROVE  TypeOK'
<1>1. live' \in [Piece -> Generation \cup {Absent, Empty}]
  BY DEF TypeOK, TurnedAway, Serve, Made, Piece
<1>2. ever' \subseteq Stored
  BY <1>1, HasIsStored DEF TypeOK, TurnedAway, Serve
<1>3. QED
  BY <1>1, <1>2 DEF TypeOK, TurnedAway, Serve

-----------------------------------------------------------------------------
(* The invariant, action by action. *)

LEMMA InitRestore == Init => RestoreInv
<1> SUFFICES ASSUME Init PROVE RestoreInv
  OBVIOUS
<1>1. TypeOK
  BY TypeInit
<1>2. StagedInv /\ SwapInv
  BY DEF Init, StagedInv, SwapInv
<1>3. SwapIsClosed
  BY DEF Init, SwapIsClosed, Piece
<1>4. NothingIsDestroyed /\ CanBeCompleted
  BY DEF Init, NothingIsDestroyed, CanBeCompleted
<1>5. QED
  BY <1>1, <1>2, <1>3, <1>4 DEF RestoreInv

\* Nothing moves: a restore begins, stages its pieces, or stops.
LEMMA StepQuiet ==
  ASSUME RestoreInv, TypeOK', (\E b \in Coverage : Begin(b)) \/ Stage \/ Interrupt
  PROVE  RestoreInv'
<1> USE DEF RestoreInv
<1>1. live' = live /\ parked' = parked /\ marker' = marker /\ ever' = ever /\ staged \subseteq staged'
  BY DEF Begin, Stage, Interrupt
<1>2. SwapIsClosed' /\ NothingIsDestroyed'
  BY <1>1 DEF SwapIsClosed, NothingIsDestroyed, Has
<1>3. CanBeCompleted'
  BY <1>1 DEF CanBeCompleted, Has, Pieces
<1>4. StagedInv' /\ SwapInv'
  BY DEF Begin, Stage, Interrupt, StagedInv, SwapInv, Pieces
<1>5. QED
  BY <1>2, <1>3, <1>4

\* From here on the marker names this restore, whose pieces are all staged.
LEMMA StepMark ==
  ASSUME RestoreInv, TypeOK', Mark
  PROVE  RestoreInv'
<1> USE DEF RestoreInv
<1>1. marker' # Absent /\ marker'.by = restores /\ marker'.covers = covers
  BY RestoreAssumption DEF Mark, TypeOK, Generation
<1>2. SwapIsClosed'
  BY <1>1 DEF SwapIsClosed
<1>3. NothingIsDestroyed'
  BY DEF Mark, NothingIsDestroyed, Has
<1>4. CanBeCompleted'
  BY <1>1 DEF CanBeCompleted, Mark, StagedInv, Pieces
<1>5. StagedInv'
  BY DEF Mark, StagedInv
<1>6. SwapInv'
  BY SwapSteps DEF Mark, StagedInv, SwapInv, Pieces, TypeOK, Swap
<1>7. QED
  BY <1>2, <1>3, <1>4, <1>5, <1>6

\* A piece is parked before anything takes its place, and placed where nothing is.
LEMMA StepRename ==
  ASSUME RestoreInv, TypeOK', Rename
  PROVE  RestoreInv'
<1> USE DEF RestoreInv
<1> DEFINE todo == Swap[next]
           p == todo.piece
<1>1. /\ phase = "swapping" /\ phase' = phase /\ restores' = restores /\ covers' = covers
      /\ marker' = marker /\ marker = [by |-> restores, covers |-> covers] /\ marker # Absent
      /\ next \in 1 .. 7 /\ next' = next + 1 /\ (next > 5 => covers)
      /\ Swap' = Swap
  BY RestoreAssumption, SwapSteps DEF Rename, SwapInv, TypeOK, Generation, Swap, Park, Place
<1>2. SwapIsClosed'
  BY <1>1 DEF SwapIsClosed
<1>3. StagedInv'
  BY <1>1 DEF StagedInv
<1>4. CASE todo.do = "park"
  <2>1. /\ next \in {1, 2, 3, 6}
        /\ p = IF next = 1 THEN "db" ELSE IF next = 2 THEN "wal"
               ELSE IF next = 3 THEN "categories" ELSE "backups"
    BY <1>1, <1>4, SwapSteps DEF Park, Place, TypeOK
  <2>2. /\ live' = [live EXCEPT ![p] = Absent] /\ staged' = staged
        /\ parked' = IF There(p) THEN parked \cup {<<p, live[p]>>} ELSE parked
    BY <1>4 DEF Rename
  <2>3. NothingIsDestroyed'
    <3>1. Has(live) \subseteq Has(live') \cup parked'
      BY <2>2 DEF Has, There, TypeOK
    <3>2. parked \subseteq parked'
      BY <2>2
    <3>3. QED
      BY <3>1, <3>2 DEF NothingIsDestroyed, Rename
  <2>4. SwapInv'
    BY <1>1, <2>1, <2>2, SwapSteps DEF SwapInv, TypeOK, Piece
  <2>5. CanBeCompleted'
    <3>1. \A q \in Pieces(covers) : <<q, restores>> \in Has(live) \cup staged
      BY <1>1 DEF CanBeCompleted
    <3>2. \A q \in Pieces(covers) : live[q] = restores => q # p \/ <<q, restores>> \in staged
      BY <1>1, <2>1, RestoreAssumption DEF SwapInv, Pieces, TypeOK, Generation
    <3>3. \A q \in Piece : q # p => live'[q] = live[q]
      BY <2>2 DEF TypeOK
    <3>4. \A q \in Pieces(covers) : <<q, restores>> \in Has(live') \cup staged'
      BY <2>2, <3>1, <3>2, <3>3 DEF Has
    <3>5. QED
      BY <1>1, <3>4 DEF CanBeCompleted, Pieces
  <2>6. QED
    BY <1>2, <1>3, <2>3, <2>4, <2>5
<1>5. CASE todo.do = "place"
  <2>1. /\ next \in {4, 5, 7}
        /\ p = IF next = 4 THEN "db" ELSE IF next = 5 THEN "categories" ELSE "backups"
    BY <1>1, <1>5, SwapSteps DEF Park, Place, TypeOK
  <2>2. /\ live' = [live EXCEPT ![p] = restores] /\ parked' = parked
        /\ staged' = staged \ {<<p, restores>>} /\ Replaceable(p)
    BY <1>5 DEF Rename
  <2>3. p \in Piece /\ restores \in Nat /\ live[p] \in {Absent, Empty}
    BY <1>1, <2>1, <2>2 DEF SwapInv, Replaceable, Piece, TypeOK, Generation
  <2>4. NothingIsDestroyed'
    <3>1. Has(live) \subseteq Has(live') \cup (Piece \X {Empty})
      BY <2>2, <2>3, RestoreAssumption DEF Has, TypeOK
    <3>2. QED
      BY <2>2, <3>1 DEF NothingIsDestroyed, Rename
  <2>5. SwapInv'
    BY <1>1, <2>1, <2>2, SwapSteps DEF SwapInv, TypeOK, Piece
  <2>6. CanBeCompleted'
    <3>1. \A q \in Pieces(covers) : <<q, restores>> \in Has(live') \cup staged'
      BY <1>1, <2>2, <2>3, RestoreAssumption DEF CanBeCompleted, Has, Pieces, TypeOK, Piece
    <3>2. QED
      BY <1>1, <3>1 DEF CanBeCompleted, Pieces
  <2>7. QED
    BY <1>2, <1>3, <2>4, <2>5, <2>6
<1>6. QED
  BY <1>1, <1>4, <1>5, SwapSteps DEF Park, Place, TypeOK

\* The swap is complete: all that is live came with this snapshot.
LEMMA StepUnmark ==
  ASSUME RestoreInv, TypeOK', Unmark
  PROVE  RestoreInv'
<1> USE DEF RestoreInv
<1>1. next > 5 /\ live["db"] = restores /\ live["categories"] = restores /\ live["wal"] = Absent
  BY SwapSteps DEF Unmark, SwapInv, TypeOK
<1>2. SwapIsClosed'
  BY <1>1 DEF Unmark, SwapIsClosed
<1>3. NothingIsDestroyed'
  BY DEF Unmark, NothingIsDestroyed, Has
<1>4. StagedInv' /\ SwapInv' /\ CanBeCompleted'
  BY DEF Unmark, StagedInv, SwapInv, CanBeCompleted
<1>5. QED
  BY <1>2, <1>3, <1>4

\* It makes directories where there is nothing.
LEMMA StepTurnedAway ==
  ASSUME RestoreInv, TypeOK', TurnedAway
  PROVE  RestoreInv'
<1> USE DEF RestoreInv
<1>1. \A q \in Piece : live'[q] = live[q] \/ (live[q] = Absent /\ live'[q] = Empty /\ q \in {"categories", "backups"})
  BY DEF TurnedAway, Made, TypeOK, Piece
<1>2. Has(live) \subseteq Has(live')
  BY <1>1 DEF Has
<1>3. NothingIsDestroyed'
  BY <1>2 DEF TurnedAway, NothingIsDestroyed
<1>4. CanBeCompleted'
  BY <1>2 DEF TurnedAway, CanBeCompleted, Pieces
<1>5. SwapIsClosed' /\ StagedInv'
  BY DEF TurnedAway, SwapIsClosed, StagedInv, Pieces
<1>6. SwapInv'
  BY <1>1, RestoreAssumption DEF TurnedAway, SwapInv, Piece, TypeOK, Generation, Swap
<1>7. QED
  BY <1>3, <1>4, <1>5, <1>6

\* Its log may be gone when it ends, and nothing else.
LEMMA StepServe ==
  ASSUME RestoreInv, TypeOK', Serve
  PROVE  RestoreInv'
<1> USE DEF RestoreInv
<1>1. PICK w \in {Absent, Made("db")} : live' = [q \in Piece |-> IF q = "wal" THEN w ELSE Made(q)]
  BY DEF Serve
<1>2. SwapIsClosed'
  BY <1>1 DEF Serve, SwapIsClosed, Made, Piece
<1>3. Has(live) \ {<<"wal", live["wal"]>>} \subseteq Has(live')
  BY <1>1, RestoreAssumption DEF Has, Made, TypeOK
<1>4. NothingIsDestroyed'
  BY <1>3 DEF Serve, NothingIsDestroyed
<1>5. StagedInv' /\ SwapInv' /\ CanBeCompleted'
  BY DEF Serve, StagedInv, SwapInv, CanBeCompleted
<1>6. QED
  BY <1>2, <1>4, <1>5

LEMMA StepRestore ==
  ASSUME RestoreInv, [Next]_vars
  PROVE  RestoreInv'
<1>1. CASE (\E b \in Coverage : Begin(b)) \/ Stage \/ Interrupt
  BY <1>1, TypeQuiet, StepQuiet DEF RestoreInv
<1>2. CASE Mark
  BY <1>2, TypeQuiet, StepMark DEF RestoreInv
<1>3. CASE Rename
  BY <1>3, TypeRename, StepRename DEF RestoreInv
<1>4. CASE Unmark
  BY <1>4, TypeQuiet, StepUnmark DEF RestoreInv
<1>5. CASE TurnedAway
  BY <1>5, TypeOpen, StepTurnedAway DEF RestoreInv
<1>6. CASE Serve
  BY <1>6, TypeOpen, StepServe DEF RestoreInv
<1>7. CASE UNCHANGED vars
  BY <1>7 DEF vars, RestoreInv, TypeOK, StagedInv, SwapInv, SwapIsClosed, NothingIsDestroyed,
              CanBeCompleted, Has, Swap, Pieces
<1>8. QED
  BY <1>1, <1>2, <1>3, <1>4, <1>5, <1>6, <1>7 DEF Next

THEOREM RestoreInvariant == Spec => []RestoreInv
<1>1. Init => RestoreInv
  BY InitRestore
<1>2. RestoreInv /\ [Next]_vars => RestoreInv'
  BY StepRestore
<1>3. QED
  BY <1>1, <1>2, PTL DEF Spec

-----------------------------------------------------------------------------
(* What an operator relies on. *)

(* However many restores were interrupted, and wherever: a store without the marker has  *)
(* a database, a log and category files of one restore.                                  *)
THEOREM StoreIsNeverMixed == Spec => []SwapIsClosed
<1>1. RestoreInv => SwapIsClosed
  BY DEF RestoreInv
<1>2. QED
  BY <1>1, RestoreInvariant, PTL

(* No rename of any restore, complete or cut off, destroys a piece the store had.        *)
THEOREM RestoreDestroysNothing == Spec => []NothingIsDestroyed
<1>1. RestoreInv => NothingIsDestroyed
  BY DEF RestoreInv
<1>2. QED
  BY <1>1, RestoreInvariant, PTL

(* As long as the marker is there, every piece of the snapshot it names is in place or   *)
(* staged: the swap can be completed by hand.                                            *)
THEOREM SwapCanBeCompleted == Spec => []CanBeCompleted
<1>1. RestoreInv => CanBeCompleted
  BY DEF RestoreInv
<1>2. QED
  BY <1>1, RestoreInvariant, PTL
=============================================================================
