---------------------- MODULE CategoryStoreRefinement ----------------------
(***************************************************************************)
(* The store implements one atomic register per category.  The value of a  *)
(* category is what its files and its row resolve to; Lost is no value of  *)
(* the register, so a row whose bytes no file carries refines nothing.     *)
(***************************************************************************)
EXTENDS CategoryStore

CONSTANT Lost

ASSUME LostAssumption == Lost \notin Content \cup {Absent}

Resolved == [c \in Category |-> IF Readable(c) THEN Current(c) ELSE Lost]

Register == INSTANCE CategoryRegister WITH value <- Resolved

\* Every step of the protocol is one call taking effect, or changes no value:
\* calls are atomic and durable at their COMMIT whatever interleaves or crashes.
ImplementsRegister == Register!Spec
=============================================================================
