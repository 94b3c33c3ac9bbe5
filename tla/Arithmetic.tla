----------------------------- MODULE Arithmetic -----------------------------
(* Facts about quotients, remainders and counts that the proofs share. *)
EXTENDS Integers, FiniteSets, FiniteSetTheorems, TLAPS

\* A positive multiple of n is at least n.
LEMMA MultipleAtLeast ==
    ASSUME NEW n \in Nat \ {0}, NEW k \in Int, k >= 1
    PROVE  n * k >= n
<1>1. n * (k - 1) >= 0
  OBVIOUS
<1>2. n * k = n * (k - 1) + n
  OBVIOUS
<1> QED
  BY <1>1, <1>2

\* Quotient and remainder recompose the dividend.
LEMMA DivisionFacts ==
    ASSUME NEW n \in Nat \ {0}, NEW x \in Int
    PROVE  /\ x \div n \in Int
           /\ x % n \in 0 .. n - 1
           /\ x = n * (x \div n) + (x % n)
OBVIOUS

\* Quotient and remainder are unique.
LEMMA DivisionUnique ==
    ASSUME NEW n \in Nat \ {0}, NEW q \in Int, NEW r \in 0 .. n - 1, NEW x \in Int, x = n * q + r
    PROVE  x \div n = q /\ x % n = r
<1> DEFINE p == x \div n
<1> DEFINE m == x % n
<1>1. p \in Int /\ m \in 0 .. n - 1 /\ x = n * p + m
  BY DivisionFacts
<1> HIDE DEF p, m
<1>2. n * (p - q) = r - m /\ n * (q - p) = m - r
  BY <1>1
<1>3. ~(p - q >= 1)
  <2>1. p - q >= 1 => n * (p - q) >= n
    BY <1>1, MultipleAtLeast
  <2> QED BY <1>1, <1>2, <2>1
<1>4. ~(q - p >= 1)
  <2>1. q - p >= 1 => n * (q - p) >= n
    BY <1>1, MultipleAtLeast
  <2> QED BY <1>1, <1>2, <2>1
<1>5. p = q
  BY <1>1, <1>3, <1>4
<1> QED
  BY <1>1, <1>5 DEF p, m

\* Two numbers less than n apart have different remainders.
LEMMA RemaindersDistinct ==
    ASSUME NEW n \in Nat \ {0}, NEW a \in Int, NEW b \in Int, a < b, b < a + n
    PROVE  a % n # b % n
<1> DEFINE p == a \div n
<1> DEFINE q == b \div n
<1>1. SUFFICES ASSUME a % n = b % n PROVE FALSE
  OBVIOUS
<1>2. p \in Int /\ q \in Int /\ a = n * p + (a % n) /\ b = n * q + (a % n)
  BY <1>1, DivisionFacts
<1>3. a % n \in Int
  BY DivisionFacts
<1> HIDE DEF p, q
<1>4. n * (q - p) = b - a /\ n * (p - q) = a - b
  BY <1>2, <1>3
<1>5. CASE q - p >= 1
  <2>1. n * (q - p) >= n
    BY <1>2, <1>5, MultipleAtLeast
  <2> QED BY <1>4, <2>1
<1>6. CASE p - q >= 1
  <2>1. n * (p - q) >= n
    BY <1>2, <1>6, MultipleAtLeast
  <2> QED BY <1>4, <2>1
<1>7. CASE p = q
  BY <1>2, <1>3, <1>7
<1> QED
  BY <1>2, <1>5, <1>6, <1>7

\* Consecutive numbers have different remainders.
LEMMA RemaindersDiffer ==
    ASSUME NEW n \in Nat \ {0, 1}, NEW g \in Int
    PROVE  (g - 1) % n # g % n
<1> DEFINE h == (g - 1) \div n
<1> DEFINE k == (g - 1) % n
<1>1. h \in Int /\ k \in 0 .. n - 1 /\ g - 1 = n * h + k
  <2> DEFINE x == g - 1
  <2>1. n \in Nat \ {0} /\ x \in Int
    OBVIOUS
  <2> HIDE DEF x
  <2>2. x \div n \in Int /\ x % n \in 0 .. n - 1 /\ x = n * (x \div n) + (x % n)
    BY <2>1, DivisionFacts
  <2> QED BY <2>2 DEF x
<1> HIDE DEF h
<1>2. CASE k = n - 1
  <2> DEFINE q == h + 1
  <2>1. g = n * q + 0 /\ q \in Int /\ 0 \in 0 .. n - 1
    BY <1>1, <1>2
  <2> HIDE DEF q
  <2>2. g % n = 0
    BY <2>1, DivisionUnique
  <2> QED BY <1>2, <2>2
<1>3. CASE k # n - 1
  <2> DEFINE r == k + 1
  <2>1. g = n * h + r /\ r \in 0 .. n - 1
    BY <1>1, <1>3
  <2> HIDE DEF r
  <2>2. g % n = r
    BY <1>1, <2>1, DivisionUnique
  <2>3. r # k
    BY <1>1 DEF r
  <2> QED BY <2>2, <2>3
<1> QED
  BY <1>2, <1>3

\* A set loses one element.
LEMMA OneLess ==
    ASSUME NEW S, IsFiniteSet(S), NEW x \in S
    PROVE  /\ Cardinality(S) \in Nat /\ Cardinality(S) > 0
           /\ Cardinality(S \ {x}) = Cardinality(S) - 1
<1>1. Cardinality(S) \in Nat
  BY FS_CardinalityType
<1>2. Cardinality(S) # 0
  BY FS_EmptySet
<1>3. Cardinality(S \ {x}) = Cardinality(S) - 1
  BY FS_RemoveElement
<1> QED
  BY <1>1, <1>2, <1>3

\* A set gains one element.
LEMMA OneMore ==
    ASSUME NEW S, IsFiniteSet(S), NEW x, x \notin S
    PROVE  Cardinality(S \union {x}) = Cardinality(S) + 1
BY FS_AddElement

\* Disjoint sets add up.
LEMMA DisjointUnion ==
    ASSUME NEW S, NEW T, IsFiniteSet(S), IsFiniteSet(T), S \intersect T = {}
    PROVE  IsFiniteSet(S \union T) /\ Cardinality(S \union T) = Cardinality(S) + Cardinality(T)
<1>1. /\ IsFiniteSet(S \union T)
      /\ Cardinality(S \union T) = Cardinality(S) + Cardinality(T) - Cardinality(S \intersect T)
  BY FS_Union
<1>2. Cardinality(S \intersect T) = 0 /\ Cardinality(S) \in Nat /\ Cardinality(T) \in Nat
  BY FS_EmptySet, FS_CardinalityType
<1> QED
  BY <1>1, <1>2
=============================================================================
