----------------------------- MODULE DataLemmas ------------------------------
(***************************************************************************)
(* Induction over numbers, stated with sets, and ranks in an order: what the *)
(* proofs about lists of models, artifacts, events and tasks rest on.        *)
(***************************************************************************)
EXTENDS Integers, Sequences, FiniteSetTheorems, WellFoundedInduction, TLAPS

\* A set of numbers has a least element.
LEMMA LeastNatural ==
  ASSUME NEW T, T \subseteq Nat, T # {}
  PROVE  \E x \in T : \A y \in T : x <= y
<1> DEFINE R == OpToRel(<, Nat)
<1>1. IsWellFoundedOn(R, Nat)
  BY Zenon, NatLessThanWellFounded
<1>2. \A y, x \in T : y < x => <<y, x>> \in R
  BY DEF OpToRel
<1> HIDE DEF R
<1>3. PICK x \in T : \A y \in T : ~ (<<y, x>> \in R)
  BY <1>1, WFMin
<1>4. \A y \in T : ~ (y < x)
  BY <1>2, <1>3
<1> QED BY <1>4

\* A set of numbers up to n has a greatest element.
LEMMA GreatestNatural ==
  ASSUME NEW n \in Nat, NEW T, T \subseteq 0..n, T # {}
  PROVE  \E x \in T : \A y \in T : y <= x
<1> DEFINE S == {n - x : x \in T}
<1>1. S \subseteq Nat /\ S # {}
  <2>1. \A x \in T : x \in 0..n
    OBVIOUS
  <2>2. \A x \in 0..n : n - x \in Nat
    OBVIOUS
  <2> QED BY <2>1, <2>2
<1>2. PICK s \in S : \A r \in S : s <= r
  BY <1>1, LeastNatural
<1>3. PICK x \in T : s = n - x
  OBVIOUS
<1>4. \A y \in T : n - x <= n - y
  BY <1>2, <1>3
<1> HIDE DEF S
<1>5. \A y \in T : y \in 0..n /\ x \in 0..n
  OBVIOUS
<1> QED BY <1>4, <1>5

\* What holds of 0 and goes from each number to the next holds of all.
LEMMA NaturalInduction ==
  ASSUME NEW S, S \subseteq Nat, 0 \in S, \A n \in S : n + 1 \in S
  PROVE  S = Nat
<1> SUFFICES ASSUME Nat \ S # {} PROVE FALSE
  OBVIOUS
<1>1. PICK m \in Nat \ S : \A k \in Nat \ S : m <= k
  BY LeastNatural
<1>2. m - 1 \in Nat /\ ~(m <= m - 1)
  OBVIOUS
<1>3. m - 1 \in S
  BY <1>1, <1>2
<1> QED BY <1>1, <1>3

\* In a finite set that R orders totally, every place up to the size of the set
\* is taken by the one element that as many come before.
LEMMA RanksAreTaken ==
  ASSUME NEW S, IsFiniteSet(S), NEW R,
         \A x \in S : <<x, x>> \notin R,
         \A x, y, z \in S : <<x, y>> \in R /\ <<y, z>> \in R => <<x, z>> \in R,
         \A x, y \in S : x = y \/ <<x, y>> \in R \/ <<y, x>> \in R,
         NEW rank \in [S -> Nat],
         \A x \in S : rank[x] = Cardinality({y \in S : <<y, x>> \in R})
  PROVE  /\ \A k \in 0..(Cardinality(S) - 1) : \E x \in S : rank[x] = k
         /\ \A x, y \in S : rank[x] = rank[y] => x = y
         /\ \A x, y \in S : <<x, y>> \in R => rank[x] < rank[y]
<1> DEFINE Down(x) == {y \in S : <<y, x>> \in R}
<1>1. PICK n \in Nat : n = Cardinality(S)
  BY FS_CardinalityType
<1>2. ASSUME NEW x \in S, NEW y \in S, <<x, y>> \in R PROVE rank[x] < rank[y]
  <2>1. Down(x) \subseteq Down(y) /\ x \in Down(y) /\ x \notin Down(x)
    BY <1>2
  <2>2. IsFiniteSet(Down(y))
    BY FS_Subset
  <2>3. rank[x] = Cardinality(Down(x)) /\ rank[y] = Cardinality(Down(y))
    OBVIOUS
  <2> HIDE DEF Down
  <2>4. Cardinality(Down(x)) <= Cardinality(Down(y)) /\ Cardinality(Down(x)) # Cardinality(Down(y))
    BY <2>1, <2>2, FS_Subset
  <2> QED BY <2>3, <2>4
<1>3. \A x, y \in S : rank[x] = rank[y] => x = y
  <2>1. \A x, y \in S : <<x, y>> \in R => rank[x] # rank[y]
    BY <1>2
  <2>2. \A x, y \in S : x = y \/ <<x, y>> \in R \/ <<y, x>> \in R
    OBVIOUS
  <2> QED BY <2>1, <2>2, Zenon
<1>4. ASSUME NEW x \in S PROVE rank[x] \in 0..(n - 1)
  <2>1. Down(x) \subseteq S /\ x \notin Down(x)
    OBVIOUS
  <2>2. rank[x] = Cardinality(Down(x))
    OBVIOUS
  <2> HIDE DEF Down
  <2>3. Cardinality(Down(x)) <= n /\ Cardinality(Down(x)) # n
    BY <1>1, <2>1, FS_Subset
  <2> QED BY <1>1, <2>2, <2>3
<1>5. rank \in Injection(S, 0..(n - 1))
  <2>1. rank \in [S -> 0..(n - 1)]
    BY <1>4
  <2>2. IsInjective(rank)
    BY <1>3 DEF IsInjective
  <2> QED BY <2>1, <2>2 DEF Injection
<1>6. IsFiniteSet(0..(n - 1)) /\ Cardinality(0..(n - 1)) = n
  <2>1. 0 \in Int /\ n - 1 \in Int /\ (0 > n - 1 => n = 0) /\ (n - 1) - 0 + 1 = n
    BY <1>1
  <2> QED BY <2>1, FS_Interval
<1>7. rank \in Surjection(S, 0..(n - 1))
  BY <1>1, <1>5, <1>6, FS_Injection
<1>8. \A k \in 0..(n - 1) : \E x \in S : rank[x] = k
  BY <1>7 DEF Surjection
<1> QED BY <1>1, <1>2, <1>3, <1>8

\* A list that has every entry once.
OnceEach(s) == \A i, j \in DOMAIN s : s[i] = s[j] => i = j
=============================================================================
