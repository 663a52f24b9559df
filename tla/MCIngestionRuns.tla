-------------------------- MODULE MCIngestionRuns --------------------------
(* Instances of IngestionRuns for TLC. *)
EXTENDS IngestionRuns, TLC

\* Threads of the API are interchangeable, and so are batches.
Symmetry == Permutations(Handlers) \cup Permutations(Batches)
=============================================================================
