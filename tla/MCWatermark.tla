---------------------------- MODULE MCWatermark ----------------------------
(* Instances of Watermark for TLC. *)
EXTENDS Watermark, TLC

\* Batches are interchangeable, and so are the ordinary refs.
Symmetry == Permutations(Batches) \cup Permutations(Refs \ (LateRefs \cup Unreadable))
=============================================================================
