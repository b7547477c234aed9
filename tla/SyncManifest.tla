---------------------------- MODULE SyncManifest ----------------------------
(***************************************************************************)
(* Manifests and their comparison (sync.rs).  For sync a store is a        *)
(* function from the names of its categories to the hashes of their        *)
(* contents.  SHA-256 is taken to be without collisions.                   *)
(***************************************************************************)
EXTENDS Naturals

CONSTANTS
  Names,     \* names of categories
  Hashes,    \* content hashes
  Leaf,      \* of <<name, hash>> the digest of "name:hash"
  Digest,    \* of a set of leaves the digest of their sorted concatenation
  NoEntries  \* "empty", which is no digest

ASSUME DigestAssumption ==
  /\ \A a, b \in Names \X Hashes : Leaf[a] = Leaf[b] => a = b
  /\ \A S, T \in SUBSET {Leaf[a] : a \in Names \X Hashes} : Digest[S] = Digest[T] => S = T
  /\ \A S \in SUBSET {Leaf[a] : a \in Names \X Hashes} : Digest[S] # NoEntries

-----------------------------------------------------------------------------

Stores == UNION {[D -> Hashes] : D \in SUBSET Names}

\* The leaves of the entries of a manifest; leaves of one length, sorted, are a set.
Leaves(s) == {Leaf[<<n, s[n]>>] : n \in DOMAIN s}

\* compute_merkle_root
MerkleRoot(s) == IF DOMAIN s = {} THEN NoEntries ELSE Digest[Leaves(s)]

\* compute_diff
ToPull(local, remote)    == DOMAIN remote \ DOMAIN local
ToPush(local, remote)    == DOMAIN local \ DOMAIN remote
Conflicts(local, remote) == {n \in DOMAIN local \cap DOMAIN remote : local[n] # remote[n]}
Unchanged(local, remote) == {n \in DOMAIN local \cap DOMAIN remote : local[n] = remote[n]}

\* What sync_diff reports as identical.
Identical(local, remote) == MerkleRoot(local) = MerkleRoot(remote)
=============================================================================
