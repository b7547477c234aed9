-------------------------- MODULE CategoryReaders --------------------------
(***************************************************************************)
(* Readers of a store (Store::read_consistent and                          *)
(* atomic_json::committed_content) beside the writers of CategoryStore.  A *)
(* reader takes no lock and changes nothing: it reads the row, lists the   *)
(* staged and the parked files, then opens one candidate after the other,  *)
(* while writers commit, rename, settle and crash between any two steps.   *)
(* A power loss ends the reads too: the module speaks of a store with      *)
(* ~PowerCuts.                                                             *)
(***************************************************************************)
EXTENDS CategoryStore

CONSTANTS
  Readers,
  MaxAttempts   \* 40 in the code

ASSUME ReadersAssumption == MaxAttempts \in Nat \ {0}

VARIABLES
  rpc,      \* where each reader is
  rcat,     \* the category it reads
  rrow,     \* the row of the current attempt
  rlist,    \* candidates still to open: staged and parked files, by name
  rtry,     \* attempts that found nothing
  rvalue,   \* what it served
  seen,     \* history: the committed values of rcat since the read began
  quiet     \* history: rcat has not changed since the attempt read the row

rvars == <<rpc, rcat, rrow, rlist, rtry, rvalue, seen, quiet>>

RPC == {"idle", "row", "orphan", "list", "park", "final", "probe", "miss",
        "served", "notfound", "ioerror", "inconsistent"}

Answered == {"served", "notfound", "ioerror", "inconsistent"}

Candidate == [place : {"staged", "parked"}, id : FileId]

ReadersTypeOK ==
  /\ rpc    \in [Readers -> RPC]
  /\ rcat   \in [Readers -> Category]
  /\ rrow   \in [Readers -> Content \cup {Absent}]
  /\ rlist  \in [Readers -> SUBSET Candidate]
  /\ rtry   \in [Readers -> 0 .. MaxAttempts]
  /\ rvalue \in [Readers -> Content \cup {Absent}]
  /\ seen   \in [Readers -> SUBSET (Content \cup {Absent})]
  /\ quiet  \in [Readers -> BOOLEAN]

InitReaders ==
  /\ rpc    = [r \in Readers |-> "idle"]
  /\ rcat   \in [Readers -> Category]
  /\ rrow   = [r \in Readers |-> Absent]
  /\ rlist  = [r \in Readers |-> {}]
  /\ rtry   = [r \in Readers |-> 0]
  /\ rvalue = [r \in Readers |-> Absent]
  /\ seen   = [r \in Readers |-> {}]
  /\ quiet  = [r \in Readers |-> TRUE]

Goto(r, where) == rpc' = [rpc EXCEPT ![r] = where]

StartRead(r) ==
  /\ rpc[r] = "idle"
  /\ Goto(r, "row")
  /\ seen' = [seen EXCEPT ![r] = {db[rcat[r]].row}]
  /\ UNCHANGED <<vars, rcat, rrow, rlist, rtry, rvalue, quiet>>

\* get_meta; without a row, an orphan file of that name is still served.
ReadRow(r) ==
  /\ rpc[r] = "row"
  /\ rrow'  = [rrow  EXCEPT ![r] = db[rcat[r]].row]
  /\ quiet' = [quiet EXCEPT ![r] = TRUE]
  /\ Goto(r, IF db[rcat[r]].row = Absent THEN "orphan" ELSE "list")
  /\ UNCHANGED <<vars, rcat, rlist, rtry, rvalue, seen>>

ReadOrphan(r) ==
  /\ rpc[r] = "orphan"
  /\ rvalue' = [rvalue EXCEPT ![r] = final[rcat[r]]]
  /\ Goto(r, IF final[rcat[r]] = Absent THEN "notfound" ELSE "served")
  /\ UNCHANGED <<vars, rcat, rrow, rlist, rtry, seen, quiet>>

Names(place, fs) == {[place |-> place, id |-> f.id] : f \in fs}

ListStaged(r) ==
  /\ rpc[r] = "list"
  /\ rlist' = [rlist EXCEPT ![r] = Names("staged", staged[rcat[r]])]
  /\ Goto(r, "park")
  /\ UNCHANGED <<vars, rcat, rrow, rtry, rvalue, seen, quiet>>

\* Mutant: a reader does not know of parked files.
ListParkedNever(r) ==
  /\ rpc[r] = "park"
  /\ Goto(r, "final")
  /\ UNCHANGED <<vars, rcat, rrow, rlist, rtry, rvalue, seen, quiet>>

ListParked(r) ==
  /\ rpc[r] = "park"
  /\ rlist' = [rlist EXCEPT ![r] = @ \cup Names("parked", parked[rcat[r]])]
  /\ Goto(r, "final")
  /\ UNCHANGED <<vars, rcat, rrow, rtry, rvalue, seen, quiet>>

\* The hash of the bytes read decides, not the name they were read under.
Serve(r, v) == rvalue' = [rvalue EXCEPT ![r] = v] /\ Goto(r, "served")

\* Mutant: the final file is served whatever its hash.
ProbeFinalUnchecked(r) ==
  /\ rpc[r] = "final"
  /\ IF final[rcat[r]] # Absent
     THEN Serve(r, final[rcat[r]])
     ELSE Goto(r, "probe") /\ UNCHANGED rvalue
  /\ UNCHANGED <<vars, rcat, rrow, rlist, rtry, seen, quiet>>

ProbeFinal(r) ==
  /\ rpc[r] = "final"
  /\ IF final[rcat[r]] = rrow[r]
     THEN Serve(r, rrow[r])
     ELSE Goto(r, "probe") /\ UNCHANGED rvalue
  /\ UNCHANGED <<vars, rcat, rrow, rlist, rtry, seen, quiet>>

\* The files a name leads to now: none if it has been renamed or removed.
Bytes(r, cand) ==
  {f.data : f \in {g \in (IF cand.place = "staged" THEN staged ELSE parked)[rcat[r]] :
                     g.id = cand.id}}

\* Staged candidates come before parked ones.
FirstPlace(r) == IF \E x \in rlist[r] : x.place = "staged" THEN "staged" ELSE "parked"

Probe(r) ==
  /\ rpc[r] = "probe"
  /\ \E cand \in {x \in rlist[r] : x.place = FirstPlace(r)} :
       /\ rlist' = [rlist EXCEPT ![r] = @ \ {cand}]
       /\ \/ rrow[r] \in Bytes(r, cand) /\ Serve(r, rrow[r])
          \/ Bytes(r, cand) \cap Unreadable # {} /\ Goto(r, "ioerror") /\ UNCHANGED rvalue
          \/ /\ Bytes(r, cand) \cap (Unreadable \cup {rrow[r]}) = {}
             /\ UNCHANGED <<rpc, rvalue>>
  /\ UNCHANGED <<vars, rcat, rrow, rtry, seen, quiet>>

\* committed_content returned None.
Miss(r) ==
  /\ rpc[r] = "probe" /\ rlist[r] = {}
  /\ rtry' = [rtry EXCEPT ![r] = @ + 1]
  /\ Goto(r, "miss")
  /\ UNCHANGED <<vars, rcat, rrow, rlist, rvalue, seen, quiet>>

Retry(r) ==
  /\ rpc[r] = "miss"
  /\ Goto(r, IF rtry[r] < MaxAttempts THEN "row" ELSE "inconsistent")
  /\ UNCHANGED <<vars, rcat, rrow, rlist, rtry, rvalue, seen, quiet>>

Read(r) ==
  \/ StartRead(r) \/ ReadRow(r) \/ ReadOrphan(r) \/ ListStaged(r) \/ ListParked(r)
  \/ ProbeFinal(r) \/ Probe(r) \/ Miss(r) \/ Retry(r)

\* A step of the store, recorded for the readers that are under way.
Untouched(c) == db'[c] = db[c] /\ final'[c] = final[c] /\ staged'[c] = staged[c] /\ parked'[c] = parked[c]

StoreStep ==
  /\ Next
  /\ seen'  = [r \in Readers |->
                 IF rpc[r] = "idle" THEN {}
                 ELSE IF rpc[r] \in Answered THEN seen[r]
                 ELSE seen[r] \cup {db'[rcat[r]].row}]
  /\ quiet' = [r \in Readers |-> quiet[r] /\ (rpc[r] \in {"idle", "miss"} \cup Answered \/ Untouched(rcat[r]))]
  /\ UNCHANGED <<rpc, rcat, rrow, rlist, rtry, rvalue>>

ReadersInit == Init /\ InitReaders

ReadersNext == StoreStep \/ \E r \in Readers : Read(r)

ReadersSpec == ReadersInit /\ [][ReadersNext]_<<vars, rvars>>

-----------------------------------------------------------------------------

\* A read returns what the category held at some instant of that very read: never
\* uncommitted bytes, never a value replaced or deleted before the read began.
ReadsAreCurrent == \A r \in Readers :
  /\ rpc[r] = "served"   => rvalue[r] \in seen[r]
  /\ rpc[r] = "notfound" => Absent \in seen[r]

\* An attempt finds nothing only if the category changed under it: whatever a crash
\* left behind, a read with no writer beside it succeeds without recovery.
UndisturbedReadsSucceed == \A r \in Readers :
  rpc[r] \in {"miss", "ioerror"} => ~quiet[r]
=============================================================================
