------------------------------- MODULE Orders -------------------------------
(***************************************************************************)
(* Sorting: a finite set in the order of a relation that is a strict total *)
(* order on it.                                                            *)
(***************************************************************************)
EXTENDS Integers, Sequences, FiniteSets

\* What comes before x.
Preceding(S, R, x) == {y \in S : <<y, x>> \in R}

\* sorted() and ORDER BY: the n-th has n - 1 before it.
Sorted(S, R) == [n \in 1..Cardinality(S) |->
                   CHOOSE x \in S : Cardinality(Preceding(S, R, x)) = n - 1]
=============================================================================
