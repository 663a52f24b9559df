---------------------------- MODULE MCItemStores ----------------------------
(* Instances of ItemStores for TLC. *)
EXTENDS ItemStores, TLC

\* Batches are interchangeable, and so are the refs of a source.
Symmetry == Permutations(Batches) \cup Permutations(Refs \ Unrelated)
=============================================================================
