------------------------- MODULE StoreMaintenance -------------------------
(***************************************************************************)
(* A maintenance process beside the writers of CategoryStore: it has one   *)
(* store open, takes the write lock like them and settles what is pending. *)
(* What it then does is the subject of StoreSnapshot and CategoryRecovery. *)
(***************************************************************************)
EXTENDS CategoryStore

CONSTANT Taker   \* the maintenance process

ASSUME TakerAssumption == Taker \notin Writers \cup {NoWriter}

VARIABLE stage   \* where it is

\* Mutant: it works beside the writers instead of locking them out.
TakesUnlocked(from, to) ==
  /\ stage = from /\ stage' = to
  /\ UNCHANGED vars

\* BEGIN IMMEDIATE
Takes(from, to) ==
  /\ stage = from /\ stage' = to
  /\ lock = NoWriter /\ lock' = Taker
  /\ UNCHANGED <<db, stable, files, pc, op, todo, new, nops, crashes>>

\* An error, a lock that is busy at its deadline, or the end of the process.
FailsBefore(ends) ==
  /\ stage \notin ends /\ crashes < MaxCrashes
  /\ stage' = "failed" /\ Unlock(Taker)
  /\ crashes' = crashes + 1
  /\ UNCHANGED <<db, stable, files, pc, op, todo, new, nops>>

\* settle_locked, the same as in any transaction.
TakerSettlesStaged(c, f) ==
  /\ stage = "settling"
  /\ IF f.data \in Unreadable
     THEN stage' = "failed" /\ Unlock(Taker) /\ UNCHANGED <<final, staged>>
     ELSE /\ final'  = IF f.data = db[c].row THEN [final EXCEPT ![c] = f.data] ELSE final
          /\ staged' = [staged EXCEPT ![c] = @ \ {f}]
          /\ UNCHANGED <<lock, stage>>
  /\ UNCHANGED <<db, stable, parked, backups, pc, op, todo, new, nops, crashes>>
  /\ Remember

TakerSettlesParked(c, f) ==
  /\ stage = "settling" /\ staged[c] = {}
  /\ IF db[c].row # Absent
     THEN final' = [final EXCEPT ![c] = f.data] /\ UNCHANGED backups
     ELSE backups' = [backups EXCEPT ![c] = @ \cup {f.data}] /\ UNCHANGED final
  /\ parked' = [parked EXCEPT ![c] = @ \ {f}]
  /\ UNCHANGED <<db, stable, staged, lock, stage, pc, op, todo, new, nops, crashes>>
  /\ Remember

TakerSettles == \E c \in Category :
  \/ \E f \in staged[c] : TakerSettlesStaged(c, f)
  \/ \E f \in parked[c] : TakerSettlesParked(c, f)

\* Mutant: nothing is settled.
TakerSettledNothing == stage = "settling"

TakerSettled == stage = "settling" /\ \A c \in Category : ~Pending(c)
=============================================================================
