--------------------------- MODULE MCStoreRestore ---------------------------
(* Small instances of StoreRestore for TLC. *)
EXTENDS StoreRestore
=============================================================================
