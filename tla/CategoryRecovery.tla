-------------------------- MODULE CategoryRecovery --------------------------
(***************************************************************************)
(* --adopt-json (store/recovery.rs, main.rs): the operator has a plan      *)
(* written of every category no file of which has the committed hash, and  *)
(* then applies it: a read-only preflight, Store::new, and one transaction *)
(* that points the rows at the files.  Each of these reads anew while the  *)
(* processes of CategoryStore go on.  The store is one an old release left *)
(* behind: a file may be newer than its row.                               *)
(***************************************************************************)
EXTENDS StoreMaintenance

CONSTANT MaxApplies   \* bound: times the plan is applied

ASSUME RecoveryAssumption == MaxApplies \in Nat

VARIABLES
  listed,    \* committed contents that verify_store has listed and not looked for yet
  toPlan,    \* divergent categories that are not described yet
  plan,      \* the manifest: row and file of each divergent category
  applies,   \* times it has been applied
  adopted    \* history: categories whose adoption is committed

planVars == <<listed, toPlan, plan, applies, adopted>>

RecoveryStage == {"ready", "listing", "probing", "planning", "planned", "opening", "settling", "open",
          "locked", "checked", "refused", "no_file", "applied", "failed"}

Ended == {"refused", "no_file", "failed"}

Planned == [row : Content \cup {Absent}, file : Content \cup {Absent}]

ASSUME PlanAssumption == Absent \notin Planned

RecoveryTypeOK ==
  /\ lock \in Writers \cup {NoWriter, Taker}
  /\ stage \in RecoveryStage
  /\ listed \in [Category -> Content \cup {Absent}]
  /\ toPlan \subseteq Category
  /\ plan \in [Category -> Planned \cup {Absent}]
  /\ \A c \in Category \ toPlan : plan[c] # Absent => plan[c].file # Absent
  /\ applies \in 0 .. MaxApplies
  /\ adopted \subseteq Category

\* What an old release left: the file was written first and the row may be older.
LeftBehind ==
  /\ db \in [Category -> {[row |-> v, history |-> <<v>>, dirty |-> "upsert"] : v \in Incoming}]
  /\ final \in [Category -> Incoming]

RecoveryInit ==
  /\ LeftBehind
  /\ stable  = db
  /\ staged  = [c \in Category |-> {}]
  /\ parked  = [c \in Category |-> {}]
  /\ unsynced = [c \in Category |-> {}]
  /\ backups = [c \in Category |-> {}]
  /\ lock    = NoWriter
  /\ pc      = [p \in Writers |-> "idle"]
  /\ op      = [p \in Writers |-> NoRequest]
  /\ todo    = [p \in Writers |-> {}]
  /\ new     = [p \in Writers |-> Absent]
  /\ nops    = [p \in Writers |-> 0]
  /\ crashes = 0
  /\ stage = "ready" /\ toPlan = {} /\ applies = 0 /\ adopted = {}
  /\ listed = [c \in Category |-> Absent]
  /\ plan = [c \in Category |-> Absent]

-----------------------------------------------------------------------------
(* plan(): verify_store first, then a look at each mismatch. *)

SomePending == \E c \in Category : Pending(c)

Divergent == {c \in Category : ~Readable(c)}

\* What pending_names finds ends the plan.
PendingNames ==
  /\ stage = "ready"
  /\ stage' = IF SomePending THEN "refused" ELSE "listing"
  /\ UNCHANGED <<vars, planVars>>

ListRows ==
  /\ stage = "listing" /\ stage' = "probing"
  /\ listed' = [c \in Category |-> db[c].row]
  /\ UNCHANGED <<vars, toPlan, plan, applies, adopted>>

\* committed_content, once (CategoryReaders takes it apart): a file that is renamed
\* while it looks may be missed.
ProbeRow(c) ==
  /\ stage = "probing" /\ listed[c] # Absent
  /\ listed' = [listed EXCEPT ![c] = Absent]
  /\ \/ listed[c] \in Carried(c) /\ UNCHANGED toPlan
     \/ listed[c] # final[c]     /\ toPlan' = toPlan \cup {c}
  /\ UNCHANGED <<vars, stage, plan, applies, adopted>>

Probed ==
  /\ stage = "probing" /\ stage' = "planning"
  /\ \A c \in Category : listed[c] = Absent
  /\ UNCHANGED <<vars, planVars>>

\* The row is read again for the manifest: it may be another, or gone.
PlanRow(c) ==
  /\ stage = "planning" /\ c \in toPlan
  /\ \A d \in toPlan : plan[d] = Absent
  /\ plan' = [plan EXCEPT ![c] = [row |-> db[c].row, file |-> Absent]]
  /\ UNCHANGED <<vars, stage, listed, toPlan, applies, adopted>>

\* A missing file ends the whole plan with an I/O error.
PlanFile(c) ==
  /\ stage = "planning" /\ c \in toPlan /\ plan[c] # Absent
  /\ IF final[c] = Absent
     THEN stage' = "no_file" /\ UNCHANGED <<toPlan, plan>>
     ELSE /\ plan'   = [plan EXCEPT ![c].file = final[c]]
          /\ toPlan' = toPlan \ {c}
          /\ UNCHANGED stage
  /\ UNCHANGED <<vars, listed, applies, adopted>>

PlanWritten ==
  /\ stage = "planning" /\ toPlan = {}
  /\ stage' = "planned"
  /\ UNCHANGED <<vars, planVars>>

-----------------------------------------------------------------------------
(* --apply *)

Entries == {c \in Category : plan[c] # Absent}

\* Still as planned, or already adopted.
StillPlanned(c) == final[c] = plan[c].file /\ (Readable(c) \/ db[c].row = plan[c].row)

\* Read-only, without the lock; a second plan must be possible.
Preflight ==
  /\ stage \in {"planned", "applied"} /\ applies < MaxApplies
  /\ applies' = applies + 1
  /\ stage' = IF SomePending \/ (\E c \in Divergent : final[c] = Absent)
                 \/ \E c \in Entries : ~StillPlanned(c)
              THEN "refused" ELSE "opening"
  /\ UNCHANGED <<vars, listed, toPlan, plan, adopted>>

\* Store::new finds nothing pending, or settles it under the lock.
OpenStore ==
  /\ \/ stage = "opening" /\ ~SomePending /\ stage' = "open" /\ UNCHANGED vars
     \/ SomePending /\ Takes("opening", "settling")
  /\ UNCHANGED planVars

SettleFirst == TakerSettles /\ UNCHANGED planVars

OpenDone ==
  /\ TakerSettled /\ stage' = "open" /\ Unlock(Taker)
  /\ UNCHANGED <<db, stable, files, pc, op, todo, new, nops, crashes, planVars>>

\* adopt_plan
Lock == Takes("open", "locked") /\ UNCHANGED planVars

\* Mutant: pending files are not looked at.
AdoptableWithPending(c) ==
  /\ final[c] = plan[c].file
  /\ db[c].row \in {plan[c].file, plan[c].row}

Adoptable(c) ==
  /\ ~Pending(c)
  /\ final[c] = plan[c].file
  /\ db[c].row \in {plan[c].file, plan[c].row}

ToAdopt == {c \in Entries : db[c].row # plan[c].file}

\* All entries are checked first; each adopted file is copied to backups/.
CheckEntries ==
  /\ stage = "locked"
  /\ IF \A c \in Entries : Adoptable(c)
     THEN /\ stage' = "checked"
          /\ backups' = [c \in Category |-> backups[c] \cup (IF c \in ToAdopt THEN {final[c]} ELSE {})]
          /\ UNCHANGED lock
     ELSE stage' = "refused" /\ Unlock(Taker) /\ UNCHANGED backups
  /\ UNCHANGED <<db, stable, final, staged, parked, unsynced, pc, op, todo, new, nops, crashes, planVars>>

Adoption(old, v) ==
  [row |-> v, history |-> Newest(Append(old.history, v)), dirty |-> "upsert"]

CommitAdoption ==
  /\ stage = "checked"
  /\ db' = [c \in Category |-> IF c \in ToAdopt THEN Adoption(db[c], plan[c].file) ELSE db[c]]
  /\ stable' = IF Synchronous = "full" THEN db' ELSE stable
  /\ adopted' = adopted \cup Entries
  /\ stage' = "applied" /\ Unlock(Taker)
  /\ UNCHANGED <<files, pc, op, todo, new, nops, crashes, listed, toPlan, plan, applies>>

RecoveryFails == FailsBefore(Ended) /\ UNCHANGED planVars

Recover ==
  \/ PendingNames \/ ListRows \/ Probed \/ PlanWritten
  \/ \E c \in Category : ProbeRow(c) \/ PlanRow(c) \/ PlanFile(c)
  \/ Preflight \/ OpenStore \/ SettleFirst \/ OpenDone
  \/ Lock \/ CheckEntries \/ CommitAdoption \/ RecoveryFails

\* A power loss ends the recovery too.
Beside ==
  /\ Next /\ UNCHANGED planVars
  /\ stage' = IF PowerLoss /\ stage \notin {"ready", "planned", "applied"} \cup Ended
              THEN "failed" ELSE stage

RecoveryNext == Recover \/ Beside

RecoverySpec == RecoveryInit /\ [][RecoveryNext]_<<vars, stage, planVars>>
-----------------------------------------------------------------------------
(* Properties. *)

\* An adoption replaces exactly the rows that were planned, by the file that was
\* planned and is still there: never a value somebody has written since.
AdoptsOnlyWhatWasPlanned == [][
  stage = "checked" /\ stage' = "applied" => \A c \in Category : db'[c] # db[c] =>
    /\ plan[c] # Absent /\ db[c].row = plan[c].row
    /\ db'[c].row = plan[c].file /\ final[c] = plan[c].file ]_<<vars, stage, planVars>>

\* An adopted category can be read from then on, whatever was in flight beside it and is
\* written after it, and what its history gained stays on disk.
AdoptedStaysReadable == \A c \in adopted :
  Readable(c) /\ plan[c].file \in backups[c] \cup Carried(c)
=============================================================================
