----------------------------- MODULE DataLemmas -----------------------------
(***************************************************************************)
(* What the proofs need to know of the data the models are built from: the *)
(* least element of a set of numbers, induction up to a number, what a     *)
(* fold over a sequence computes, and that a finite set can be sorted.     *)
(* Induction over an operator is beyond the provers; here it is over a set *)
(* of numbers, by its least element, and steps are functions.              *)
(***************************************************************************)
EXTENDS Naturals, SequencesExt, WellFoundedInduction, FiniteSetTheorems, SequenceTheorems, TLAPS

LEMMA LeastIsOne ==
  ASSUME NEW S \in SUBSET Nat, S # {}
  PROVE  Min(S) \in S /\ \A y \in S : Min(S) <= y
<1> DEFINE less == OpToRel(<, Nat)
<1>1. \A x, y \in Nat : <<y, x>> \in less <=> y < x
  BY DEF OpToRel
<1>2. IsWellFoundedOn(less, Nat)
  BY NatLessThanWellFounded
<1> HIDE DEF less
<1>3. PICK x \in S : \A y \in S : ~(<<y, x>> \in less)
  BY <1>2, WFMin
<1>4. x \in Nat /\ \A y \in S : y \in Nat /\ ~(<<y, x>> \in less)
  BY <1>3
<1>5. \A y \in S : y \in Nat /\ ~(y < x)
  BY <1>1, <1>4, Zenon
<1>6. \A y \in S : x <= y
  BY <1>4, <1>5
<1> QED BY <1>6 DEF Min

(* Induction up to n, over a set. *)
LEMMA UpTo ==
  ASSUME NEW n \in Nat, NEW T, 0 \in T, \A k \in 1..n : k - 1 \in T => k \in T
  PROVE  \A k \in 0..n : k \in T
<1> DEFINE Bad == {k \in 0..n : k \notin T}
<1> SUFFICES ASSUME Bad # {} PROVE FALSE
  OBVIOUS
<1>1. Bad \in SUBSET Nat
  OBVIOUS
<1>2. Min(Bad) \in Bad /\ \A y \in Bad : Min(Bad) <= y
  BY <1>1, LeastIsOne
<1> DEFINE m == Min(Bad)
<1> HIDE DEF m
<1>3. m \in 0..n /\ m \notin T /\ \A y \in Bad : m <= y
  BY <1>2 DEF m
<1>4. m \in 1..n
  BY <1>3
<1>5. m - 1 \in T
  BY <1>3, <1>4
<1> QED BY <1>3, <1>4, <1>5

(* Induction over all numbers. *)
LEMMA AllNat ==
  ASSUME NEW T, 0 \in T, \A k \in Nat : k \in T => k + 1 \in T
  PROVE  \A k \in Nat : k \in T
<1> SUFFICES ASSUME NEW n \in Nat PROVE n \in T
  OBVIOUS
<1>1. \A k \in 1..n : k - 1 \in T => k \in T
  <2> SUFFICES ASSUME NEW k \in 1..n, k - 1 \in T PROVE k \in T
    OBVIOUS
  <2>1. k - 1 \in Nat /\ (k - 1) + 1 = k
    OBVIOUS
  <2> QED BY <2>1
<1> QED BY <1>1, UpTo

-----------------------------------------------------------------------------
LEMMA GreatestOfSubset ==
  ASSUME NEW n \in Nat, NEW S \in SUBSET (1..n), n \in S
  PROVE  Max(S) = n /\ S \ {n} \in SUBSET (1..(n - 1))
<1>1. \A x \in S : (\A y \in S : x >= y) <=> x = n
  OBVIOUS
<1>2. Max(S) = n
  BY <1>1 DEF Max
<1> QED BY <1>2

LEMMA GreatestIsOne ==
  ASSUME NEW n \in Nat, NEW S \in SUBSET (1..n), S # {}
  PROVE  Max(S) \in S /\ \A y \in S : Max(S) >= y
<1> DEFINE D == {n - y : y \in S}
<1>1. D \in SUBSET Nat /\ D # {}
  <2>1. \A y \in S : n - y \in Nat
    OBVIOUS
  <2> QED BY <2>1
<1>2. Min(D) \in D /\ \A y \in D : Min(D) <= y
  BY <1>1, LeastIsOne
<1>3. PICK x \in S : Min(D) = n - x
  BY <1>2
<1>4. \A y \in S : n - x <= n - y
  BY <1>2, <1>3
<1>5. \A y \in S : x >= y
  BY <1>4
<1> QED BY <1>5 DEF Max

(* The places of the first k elements, without the last of them. *)
LEMMA Prefix ==
  ASSUME NEW n \in Nat, NEW k \in 1..n
  PROVE  /\ 1..k \in SUBSET (1..n) /\ 1..k # {}
         /\ Max(1..k) = k /\ (1..k) \ {k} = 1..(k - 1)
<1>1. 1..k \in SUBSET (1..k) /\ k \in 1..k /\ k \in Nat
  OBVIOUS
<1>2. Max(1..k) = k
  BY <1>1, GreatestOfSubset
<1>3. 1..k \in SUBSET (1..n) /\ 1..k # {} /\ (1..k) \ {k} = 1..(k - 1)
  OBVIOUS
<1> QED BY <1>2, <1>3

(* A fold is defined: for a step from A and B to A there is a table over    *)
(* the sets of places that satisfies the equation of its definition.        *)
Table(base, step, n, s, t) ==
  t = [S \in SUBSET (1..n) |-> IF S = {} THEN base ELSE step[<<t[S \ {Max(S)}], s[Max(S)]>>]]

LEMMA FoldDefined ==
  ASSUME NEW A, NEW B, NEW base \in A, NEW step \in [A \X B -> A], NEW s,
         NEW n \in Nat, s \in [1..n -> B]
  PROVE  \E t \in [SUBSET (1..n) -> A] : Table(base, step, n, s, t)
<1> DEFINE T == {k \in 0..n : \E t \in [SUBSET (1..k) -> A] : Table(base, step, k, s, t)}
<1>1. 0 \in T
  <2> DEFINE t == [S \in SUBSET (1..0) |-> base]
  <2>1. t \in [SUBSET (1..0) -> A]
    OBVIOUS
  <2>2. Table(base, step, 0, s, t)
    BY DEF Table
  <2> HIDE DEF t
  <2>3. \E v \in [SUBSET (1..0) -> A] : Table(base, step, 0, s, v)
    BY <2>1, <2>2
  <2>4. 0 \in 0..n
    OBVIOUS
  <2> QED BY <2>3, <2>4, Zenon
<1>2. ASSUME NEW k \in 1..n, k - 1 \in T
      PROVE  k \in T
  <2>1. PICK t \in [SUBSET (1..(k - 1)) -> A] : Table(base, step, k - 1, s, t)
    BY <1>2
  <2> DEFINE u == [S \in SUBSET (1..k) |-> IF k \in S THEN step[<<t[S \ {k}], s[k]>>] ELSE t[S]]
  <2>2. \A S \in SUBSET (1..k) : k \notin S => S \in SUBSET (1..(k - 1))
    OBVIOUS
  <2>3. \A S \in SUBSET (1..k) : k \in S => Max(S) = k /\ S \ {k} \in SUBSET (1..(k - 1))
    BY GreatestOfSubset
  <2>4. \A S \in SUBSET (1..(k - 1)) :
           t[S] = IF S = {} THEN base ELSE step[<<t[S \ {Max(S)}], s[Max(S)]>>]
    BY <2>1, Zenon DEF Table
  <2>5. u \in [SUBSET (1..k) -> A]
    <3> SUFFICES ASSUME NEW S \in SUBSET (1..k)
                 PROVE  (IF k \in S THEN step[<<t[S \ {k}], s[k]>>] ELSE t[S]) \in A
      OBVIOUS
    <3>1. CASE k \in S
      <4>1. t[S \ {k}] \in A /\ s[k] \in B
        BY <3>1, <2>3
      <4> QED BY <3>1, <4>1
    <3>2. CASE k \notin S
      BY <3>2, <2>2
    <3> QED BY <3>1, <3>2
  <2>6. ASSUME NEW S \in SUBSET (1..k)
        PROVE  u[S] = IF S = {} THEN base ELSE step[<<u[S \ {Max(S)}], s[Max(S)]>>]
    <3>1. CASE k \in S
      <4>1. u[S \ {k}] = t[S \ {k}]
        BY <3>1, <2>3
      <4>2. S # {} /\ Max(S) = k /\ u[S] = step[<<t[S \ {k}], s[k]>>]
        BY <3>1, <2>3
      <4> HIDE DEF u
      <4> QED BY <4>1, <4>2
    <3>2. CASE k \notin S
      <4>1. S \in SUBSET (1..(k - 1)) /\ u[S] = t[S]
        BY <3>2, <2>2
      <4>2. \A R \in SUBSET (1..(k - 1)) : R \in SUBSET (1..k) /\ k \notin R
        OBVIOUS
      <4>3. S \ {Max(S)} \in SUBSET (1..(k - 1))
        BY <4>1
      <4>4. u[S \ {Max(S)}] = t[S \ {Max(S)}]
        BY <4>2, <4>3
      <4> HIDE DEF u
      <4> QED BY <4>1, <4>4, <2>4
    <3> QED BY <3>1, <3>2
  <2>7. Table(base, step, k, s, u)
    <3>1. DOMAIN u = SUBSET (1..k) /\ u = [S \in SUBSET (1..k) |-> u[S]]
      OBVIOUS
    <3> HIDE DEF u
    <3> QED BY <3>1, <2>6 DEF Table
  <2> HIDE DEF u
  <2> QED BY <2>5, <2>7
<1> HIDE DEF T
<1>3. \A k \in 0..n : k \in T
  BY <1>1, <1>2, UpTo
<1>4. n \in T
  BY <1>3
<1> QED BY <1>4 DEF T

(* What a fold passes through: r[k] is its value after the first k elements. *)
Chain(base, step, n, s, t, r) ==
  r[0] = base /\ r[n] = t[1..n] /\ \A k \in 1..n : r[k] = step[<<r[k - 1], s[k]>>]

LEMMA FoldSteps ==
  ASSUME NEW A, NEW B, NEW base \in A, NEW step \in [A \X B -> A], NEW s,
         NEW n \in Nat, s \in [1..n -> B]
  PROVE  \E t \in [SUBSET (1..n) -> A], r \in [0..n -> A] :
           Table(base, step, n, s, t) /\ Chain(base, step, n, s, t, r)
<1>1. PICK t \in [SUBSET (1..n) -> A] : Table(base, step, n, s, t)
  BY FoldDefined
<1>2. \A S \in SUBSET (1..n) :
         t[S] = IF S = {} THEN base ELSE step[<<t[S \ {Max(S)}], s[Max(S)]>>]
  BY <1>1, Zenon DEF Table
<1> DEFINE r == [k \in 0..n |-> t[1..k]]
<1>3. \A k \in 0..n : 1..k \in SUBSET (1..n)
  OBVIOUS
<1>4. r \in [0..n -> A] /\ r[n] = t[1..n]
  BY <1>3
<1>5. r[0] = base
  <2>1. 1..0 = {} /\ {} \in SUBSET (1..n) /\ 0 \in 0..n
    OBVIOUS
  <2>2. r[0] = t[1..0] /\ t[{}] = base
    BY <1>2, <2>1, Zenon
  <2> HIDE DEF r
  <2> QED BY <2>1, <2>2, Zenon
<1>6. ASSUME NEW k \in 1..n
      PROVE  r[k] = step[<<r[k - 1], s[k]>>]
  <2>1. /\ 1..k \in SUBSET (1..n) /\ 1..k # {}
        /\ Max(1..k) = k /\ (1..k) \ {k} = 1..(k - 1)
    BY Prefix
  <2>2. t[1..k] = step[<<t[(1..k) \ {Max(1..k)}], s[Max(1..k)]>>]
    BY <1>2, <2>1, Zenon
  <2>3. t[1..k] = step[<<t[1..(k - 1)], s[k]>>]
    BY <2>1, <2>2, Zenon
  <2>4. r[k] = t[1..k] /\ r[k - 1] = t[1..(k - 1)]
    OBVIOUS
  <2> HIDE DEF r
  <2> QED BY <2>3, <2>4, Zenon
<1> HIDE DEF r
<1> QED BY <1>1, <1>4, <1>5, <1>6 DEF Chain

(* Two tables that go on alike end alike. *)
LEMMA FoldsAgree ==
  ASSUME NEW n \in Nat, NEW t, NEW u, t[{}] = u[{}],
         \A S \in SUBSET (1..n) :
           S # {} /\ t[S \ {Max(S)}] = u[S \ {Max(S)}] => t[S] = u[S]
  PROVE  t[1..n] = u[1..n]
<1> DEFINE T == {k \in 0..n : t[1..k] = u[1..k]}
<1>1. 0 \in T
  <2>1. 1..0 = {} /\ 0 \in 0..n
    OBVIOUS
  <2>2. t[1..0] = u[1..0]
    BY <2>1, Zenon
  <2> QED BY <2>1, <2>2, Zenon
<1>2. ASSUME NEW k \in 1..n, k - 1 \in T
      PROVE  k \in T
  <2>1. /\ 1..k \in SUBSET (1..n) /\ 1..k # {}
        /\ Max(1..k) = k /\ (1..k) \ {k} = 1..(k - 1)
    BY Prefix
  <2>2. t[1..(k - 1)] = u[1..(k - 1)]
    BY <1>2, Zenon
  <2>3. t[(1..k) \ {Max(1..k)}] = u[(1..k) \ {Max(1..k)}]
    BY <2>1, <2>2, Zenon
  <2>4. t[1..k] = u[1..k]
    BY <2>1, <2>3, Zenon
  <2>5. k \in 0..n
    OBVIOUS
  <2> QED BY <2>4, <2>5, Zenon
<1> HIDE DEF T
<1>3. n \in T
  BY <1>1, <1>2, UpTo
<1> QED BY <1>3 DEF T

-----------------------------------------------------------------------------
(* A sequence without repetition that is as long as a set has elements has  *)
(* all of them.                                                             *)
LEMMA AllAreListed ==
  ASSUME NEW S, IsFiniteSet(S), NEW s \in SetToSeqs(S)
  PROVE  /\ Cardinality(S) \in Nat /\ s \in [1..Cardinality(S) -> S]
         /\ \A x \in S : \E k \in 1..Cardinality(S) : s[k] = x
<1> DEFINE D == 1..Cardinality(S)
<1>1. Cardinality(S) \in Nat
  BY FS_CardinalityType
<1>2. Cardinality(D) = Cardinality(S)
  BY <1>1, FS_Interval
<1>3. s \in Injection(D, S)
  BY DEF SetToSeqs, Injection, IsInjective
<1>4. s \in Surjection(D, S)
  BY <1>2, <1>3, FS_Injection
<1> QED BY <1>1, <1>3, <1>4 DEF Surjection, Injection

(* A strict total order, as a set of pairs. *)
Orders(R, S) ==
  /\ \A x \in S : <<x, x>> \notin R
  /\ \A x, y, z \in S : <<x, y>> \in R /\ <<y, z>> \in R => <<x, z>> \in R
  /\ \A x, y \in S : x # y => <<x, y>> \in R \/ <<y, x>> \in R

(* A finite set can be sorted: an element's place is one more than the      *)
(* number of elements before it.                                            *)
LEMMA Sortable ==
  ASSUME NEW S, IsFiniteSet(S), NEW R, Orders(R, S)
  PROVE  \E s \in SetToSeqs(S) : \A k, l \in DOMAIN s : k < l => <<s[k], s[l]>> \in R
<1> DEFINE n      == Cardinality(S)
           pre(x) == {y \in S : <<y, x>> \in R}
           place  == [x \in S |-> Cardinality(pre(x)) + 1]
<1>1. n \in Nat
  BY FS_CardinalityType
<1>2. ASSUME NEW x \in S
      PROVE  IsFiniteSet(pre(x)) /\ Cardinality(pre(x)) \in Nat
  BY FS_Subset, FS_CardinalityType
<1>3. ASSUME NEW x \in S
      PROVE  Cardinality(pre(x)) < n
  <2>1. pre(x) \in SUBSET S /\ pre(x) # S
    BY DEF Orders
  <2>2. Cardinality(pre(x)) <= n /\ Cardinality(pre(x)) # n
    BY <2>1, FS_Subset
  <2> QED BY <1>1, <1>2, <2>2
<1>4. ASSUME NEW x \in S, NEW y \in S, <<x, y>> \in R
      PROVE  place[x] < place[y]
  <2>1. pre(x) \in SUBSET pre(y) /\ pre(x) # pre(y)
    BY <1>4 DEF Orders
  <2>2. Cardinality(pre(x)) <= Cardinality(pre(y)) /\ Cardinality(pre(x)) # Cardinality(pre(y))
    BY <1>2, <2>1, FS_Subset
  <2> QED BY <1>2, <2>2
<1>5. place \in [S -> 1..n]
  BY <1>1, <1>2, <1>3
<1> HIDE DEF place
<1>6. ASSUME NEW x \in S, NEW y \in S
      PROVE  /\ place[x] \in Nat /\ place[y] \in Nat
             /\ x = y \/ place[x] < place[y] \/ place[y] < place[x]
  <2>1. place[x] \in Nat /\ place[y] \in Nat
    BY <1>1, <1>5
  <2>2. x # y => <<x, y>> \in R \/ <<y, x>> \in R
    BY DEF Orders
  <2> QED BY <1>4, <2>1, <2>2
<1>7. place \in Surjection(S, 1..n)
  <2>1. Cardinality(1..n) = n /\ IsFiniteSet(1..n)
    BY <1>1, FS_Interval
  <2>2. place \in Injection(S, 1..n)
    BY <1>5, <1>6 DEF Injection, IsInjective
  <2> HIDE DEF n
  <2>3. Cardinality(1..n) = Cardinality(S)
    BY <2>1 DEF n
  <2> QED BY <2>1, <2>2, <2>3, FS_Injection
<1>8. \A k \in 1..n : \E x \in S : place[x] = k
  BY <1>7 DEF Surjection
<1> DEFINE s == [k \in 1..n |-> CHOOSE x \in S : place[x] = k]
<1>9. \A k \in 1..n : s[k] \in S /\ place[s[k]] = k
  BY <1>8
<1>10. DOMAIN s = 1..n /\ s \in [1..n -> S]
  BY <1>8
<1> HIDE DEF s
<1>11. s \in SetToSeqs(S)
  BY <1>9, <1>10 DEF SetToSeqs
<1>12. ASSUME NEW k \in 1..n, NEW l \in 1..n, k < l
       PROVE  <<s[k], s[l]>> \in R
  <2> DEFINE x == s[k]  y == s[l]
  <2>1. x \in S /\ y \in S /\ place[x] = k /\ place[y] = l /\ k < l
    BY <1>9, <1>12
  <2> HIDE DEF x, y
  <2>2. x # y /\ ~(place[y] < place[x])
    BY <1>1, <2>1
  <2>3. ~(<<y, x>> \in R)
    BY <1>4, <2>1, <2>2
  <2>4. <<x, y>> \in R
    BY <2>1, <2>2, <2>3 DEF Orders
  <2> QED BY <2>4 DEF x, y
<1> QED BY <1>10, <1>11, <1>12
=============================================================================
