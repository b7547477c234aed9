------------------------ MODULE DeltaPollingProofs ------------------------
(***************************************************************************)
(* Proofs about DeltaPolling for any number of changes, when every change  *)
(* brings content the category never had: hash and copy may be apart, but  *)
(* then the hash is one the category never returns to.                     *)
(***************************************************************************)
EXTENDS DeltaPolling, TLAPS

\* What has been seen or stored so far is numbered up to changes.
Numbered ==
  /\ changes \in 0 .. MaxChanges
  /\ stored \in 1 .. changes \cup {Absent}
  /\ known  \in 1 .. changes \cup {Absent}
  /\ copy   \in 1 .. changes \cup {Absent}
  /\ asking \in 1 .. changes \cup {Absent}
  /\ known = Absent <=> copy = Absent
  /\ answer \in {"none", "unchanged", "changed", "deleted"}

\* A client that holds the hash of the committed content holds that content.
Informed == known = stored => copy = stored

\* The answer is about the committed content.
Answered == answer = "unchanged" => known = stored

IInv == Numbered /\ Informed /\ Answered

\* The invariant holds before anything is written or read.
THEOREM InitIInv == ASSUME PollingAssumption PROVE Init => IInv
  BY DEF PollingAssumption, Init, IInv, Numbered, Informed, Answered

\* Every step keeps the invariant: only a hash that is still the committed one can
\* be matched by a later change, and changes bring other hashes.
THEOREM StepIInv == ASSUME PollingAssumption, Distinct PROVE IInv /\ [Next]_vars => IInv'
<1> SUFFICES ASSUME IInv, [Next]_vars PROVE IInv'
  OBVIOUS
<1> USE DEF PollingAssumption, IInv, Numbered, Informed, Answered
<1>1. CASE Other
  BY <1>1 DEF Other, NextBody
<1>2. CASE Read
  BY <1>2 DEF Read
<1>3. CASE DeltaMeta
  BY <1>3 DEF DeltaMeta
<1>4. CASE DeltaValue
  BY <1>4 DEF DeltaValue
<1>5. CASE Write
  BY <1>5 DEF Write, NextBody
<1>6. CASE UNCHANGED vars
  BY <1>6 DEF vars
<1> QED
  BY <1>1, <1>2, <1>3, <1>4, <1>5, <1>6 DEF Next

\* The invariant holds in every state of the polling protocol.
THEOREM AlwaysIInv == ASSUME PollingAssumption, Distinct PROVE Spec => []IInv
<1>1. Init => IInv
  BY InitIInv
<1>2. IInv /\ [Next]_vars => IInv'
  BY StepIInv
<1> QED
  BY <1>1, <1>2, PTL DEF Spec

\* The types of the model (memory_read, memory_delta and memory_write keep hash and
\* copy together: both present or both absent).
THEOREM TypeCorrect == ASSUME PollingAssumption, Distinct PROVE Spec => []TypeOK
<1>1. IInv => TypeOK
  BY DEF PollingAssumption, IInv, Numbered, TypeOK, Body
<1> QED
  BY <1>1, AlwaysIInv, PTL

\* memory_delta says unchanged only to a client whose copy is the committed content.
THEOREM UnchangedTrue == ASSUME PollingAssumption, Distinct PROVE Spec => []UnchangedIsTrue
<1>1. IInv => UnchangedIsTrue
  BY DEF IInv, Informed, Answered, UnchangedIsTrue
<1> QED
  BY <1>1, AlwaysIInv, PTL

\* A memory_write with expected_hash never overwrites content its client has not seen.
THEOREM WritesInformed == ASSUME PollingAssumption, Distinct PROVE Spec => WritesReplaceWhatTheySaw
<1>1. IInv /\ [Next]_vars =>
        [Write /\ changes' # changes => stored \in {Absent, copy}]_vars
  BY DEF IInv, Informed, Write
<1> QED
  BY <1>1, AlwaysIInv, PTL DEF Spec, WritesReplaceWhatTheySaw
=============================================================================
