----------------------------- MODULE OrdersProofs -----------------------------
(***************************************************************************)
(* What sorting yields, for every finite set and every strict total order  *)
(* on it. Nothing here is by induction: the places of the elements are     *)
(* distinct, and there are as many as there are elements.                  *)
(***************************************************************************)
EXTENDS Orders, FiniteSetTheorems, TLAPS

\* R is a strict total order on S.
StrictOrder(S, R) ==
  /\ \A x \in S : <<x, x>> \notin R
  /\ \A x, y, z \in S : <<x, y>> \in R /\ <<y, z>> \in R => <<x, z>> \in R
  /\ \A x, y \in S : x # y => <<x, y>> \in R \/ <<y, x>> \in R

\* What comes before an element is finite and leaves out the element itself, so
\* that its place is within the set; the places are in the order of the elements.
LEMMA Places ==
  ASSUME NEW S, IsFiniteSet(S), NEW R, StrictOrder(S, R)
  PROVE  /\ Cardinality(S) \in Nat
         /\ \A x \in S : /\ IsFiniteSet(Preceding(S, R, x))
                         /\ Cardinality(Preceding(S, R, x)) \in 0..(Cardinality(S) - 1)
         /\ \A x, y \in S : <<x, y>> \in R <=>
              Cardinality(Preceding(S, R, x)) < Cardinality(Preceding(S, R, y))
         /\ \A x, y \in S :
              Cardinality(Preceding(S, R, x)) = Cardinality(Preceding(S, R, y)) => x = y
<1>1. Cardinality(S) \in Nat
  BY FS_CardinalityType
<1>2. ASSUME NEW x \in S
      PROVE  /\ IsFiniteSet(Preceding(S, R, x))
             /\ Cardinality(Preceding(S, R, x)) \in 0..(Cardinality(S) - 1)
  <2>1. Preceding(S, R, x) \in SUBSET (S \ {x})
    BY DEF Preceding, StrictOrder
  <2>2. IsFiniteSet(S \ {x}) /\ Cardinality(S \ {x}) = Cardinality(S) - 1
    BY FS_RemoveElement
  <2>3. /\ IsFiniteSet(Preceding(S, R, x))
        /\ Cardinality(Preceding(S, R, x)) <= Cardinality(S \ {x})
    BY <2>1, <2>2, FS_Subset
  <2>4. Cardinality(Preceding(S, R, x)) \in Nat
    BY <2>3, FS_CardinalityType
  <2> QED
    BY <1>1, <2>2, <2>3, <2>4
<1>3. ASSUME NEW x \in S, NEW y \in S, <<x, y>> \in R
      PROVE  Cardinality(Preceding(S, R, x)) < Cardinality(Preceding(S, R, y))
  <2>1. Preceding(S, R, x) \cup {x} \in SUBSET Preceding(S, R, y)
    BY <1>3 DEF Preceding, StrictOrder
  <2>2. x \notin Preceding(S, R, x)
    BY DEF Preceding, StrictOrder
  <2>3. /\ IsFiniteSet(Preceding(S, R, x) \cup {x})
        /\ Cardinality(Preceding(S, R, x) \cup {x}) = Cardinality(Preceding(S, R, x)) + 1
    BY <1>2, <2>2, FS_AddElement
  <2>4. Cardinality(Preceding(S, R, x) \cup {x}) <= Cardinality(Preceding(S, R, y))
    BY <1>2, <2>1, FS_Subset
  <2> QED
    BY <1>1, <1>2, <2>3, <2>4
<1>4. ASSUME NEW x \in S, NEW y \in S
      PROVE  /\ <<x, y>> \in R <=>
                  Cardinality(Preceding(S, R, x)) < Cardinality(Preceding(S, R, y))
             /\ Cardinality(Preceding(S, R, x)) = Cardinality(Preceding(S, R, y)) => x = y
  <2>1. x = y \/ <<x, y>> \in R \/ <<y, x>> \in R
    BY DEF StrictOrder
  <2>2. /\ Cardinality(Preceding(S, R, x)) \in Int
        /\ Cardinality(Preceding(S, R, y)) \in Int
    BY <1>1, <1>2
  <2>3. x = y => <<x, y>> \notin R
    BY DEF StrictOrder
  <2> QED
    BY <1>3, <2>1, <2>2, <2>3
<1> QED
  BY <1>1, <1>2, <1>4

\* The set in its order: every element is in one place of the sequence, and what
\* is related comes first.
LEMMA SortedIs ==
  ASSUME NEW S, IsFiniteSet(S), NEW R, StrictOrder(S, R)
  PROVE  /\ Cardinality(S) \in Nat
         /\ Sorted(S, R) \in [1..Cardinality(S) -> S]
         /\ \A n \in 1..Cardinality(S) :
              Cardinality(Preceding(S, R, Sorted(S, R)[n])) = n - 1
         /\ \A x \in S : \E n \in 1..Cardinality(S) : Sorted(S, R)[n] = x
         /\ \A m, n \in 1..Cardinality(S) :
              /\ m < n <=> <<Sorted(S, R)[m], Sorted(S, R)[n]>> \in R
              /\ Sorted(S, R)[m] = Sorted(S, R)[n] => m = n
<1> DEFINE N == Cardinality(S)
           Place(x) == Cardinality(Preceding(S, R, x))
           f == [x \in S |-> Place(x)]
<1>1. N \in Nat
  BY FS_CardinalityType
<1>2. \A x \in S : Place(x) \in 0..(N - 1)
  BY Places
<1>3. \A x, y \in S : Place(x) = Place(y) => x = y
  BY Places
<1>4. \A x, y \in S : <<x, y>> \in R <=> Place(x) < Place(y)
  BY Places
<1> HIDE DEF Place
<1>5. f \in Injection(S, 0..(N - 1))
  BY <1>2, <1>3 DEF Injection, IsInjective
<1>6. IsFiniteSet(0..(N - 1)) /\ Cardinality(0..(N - 1)) = N
  BY <1>1, FS_Interval
<1>7. f \in Surjection(S, 0..(N - 1))
  BY <1>5, <1>6, FS_Injection
<1>8. \A k \in 0..(N - 1) : \E x \in S : Place(x) = k
  BY <1>7 DEF Surjection
<1> DEFINE s == [n \in 1..N |-> CHOOSE x \in S : Place(x) = n - 1]
<1>9. Sorted(S, R) = s
  BY DEF Sorted, Place
<1>10. ASSUME NEW n \in 1..N PROVE s[n] \in S /\ Place(s[n]) = n - 1
  <2>1. n - 1 \in 0..(N - 1)
    BY <1>1
  <2>2. \E x \in S : Place(x) = n - 1
    BY <1>8, <2>1
  <2> QED
    BY <2>2
<1> HIDE DEF s
<1>11. s \in [1..N -> S]
  BY <1>10 DEF s
<1>12. ASSUME NEW x \in S PROVE \E n \in 1..N : s[n] = x
  <2>1. Place(x) + 1 \in 1..N
    BY <1>1, <1>2
  <2>2. s[Place(x) + 1] \in S /\ Place(s[Place(x) + 1]) = Place(x)
    BY <1>2, <1>10, <2>1
  <2>3. s[Place(x) + 1] = x
    BY <1>3, <2>2
  <2> QED
    BY <2>1, <2>3
<1>13. ASSUME NEW m \in 1..N, NEW n \in 1..N
       PROVE  /\ m < n <=> <<s[m], s[n]>> \in R
              /\ s[m] = s[n] => m = n
  <2>1. Place(s[m]) = m - 1 /\ Place(s[n]) = n - 1 /\ s[m] \in S /\ s[n] \in S
    BY <1>10
  <2>2. <<s[m], s[n]>> \in R <=> m - 1 < n - 1
    BY <1>4, <2>1
  <2> QED
    BY <1>1, <2>1, <2>2
<1> QED
  BY <1>1, <1>9, <1>10, <1>11, <1>12, <1>13 DEF Place
=============================================================================
