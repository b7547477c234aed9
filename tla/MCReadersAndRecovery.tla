------------------------ MODULE MCReadersAndRecovery ------------------------
(* Small instances of CategoryReaders and CategoryRecovery for TLC: beside the     *)
(* writers of one store there are readers, or the operator who adopts what is left *)
(* of an old release.                                                              *)
EXTENDS CategoryReaders, CategoryRecovery, TLC

CONSTANTS t1, t2

\* Writers may commit the same bytes again: two values, two processes.
MCValues == {[kind |-> "memory", items |-> {t1}], [kind |-> "memory", items |-> {t2}]}

VARIABLE beside   \* who is beside the writers: "readers" or "operator"

InitBeside ==
  \/ /\ beside = "readers" /\ ReadersInit
     /\ stage = "ready" /\ toPlan = {} /\ applies = 0 /\ adopted = {}
     /\ listed = [c \in Category |-> Absent] /\ plan = listed
  \/ beside = "operator" /\ RecoveryInit /\ InitReaders

NextBeside ==
  /\ \/ beside = "readers" /\ ReadersNext /\ UNCHANGED <<stage, planVars>>
     \/ beside = "operator" /\ RecoveryNext /\ UNCHANGED rvars
  /\ UNCHANGED beside

BesideSpec == InitBeside /\ [][NextBeside]_<<vars, rvars, stage, planVars, beside>>

Symmetry == Permutations(Writers) \cup Permutations(Token)
=============================================================================
