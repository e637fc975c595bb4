--------------------------- MODULE CountingLemmas ---------------------------
(***************************************************************************)
(* Facts about sequences, finite sets, products and powers of two that the *)
(* proofs of several components need and the library does not state.       *)
(***************************************************************************)
EXTENDS Integers, Sequences, FiniteSets, Functions,
        SequenceTheorems, FiniteSetTheorems, TLAPS

LEMMA DomainOfSeq == \A S : \A seq \in Seq(S) : DOMAIN seq = 1 .. Len(seq) /\ Len(seq) \in Nat
BY LenProperties

\* Disjoint sets are counted one by one.
LEMMA DisjointUnion ==
    ASSUME NEW S, NEW T, IsFiniteSet(S), IsFiniteSet(T), S \cap T = {}
    PROVE  /\ IsFiniteSet(S \cup T)
           /\ Cardinality(S \cup T) = Cardinality(S) + Cardinality(T)
<1>1. Cardinality(S \cap T) = 0
  BY FS_EmptySet
<1>2. Cardinality(S) \in Nat /\ Cardinality(T) \in Nat
  BY FS_CardinalityType
<1>3. /\ IsFiniteSet(S \cup T)
      /\ Cardinality(S \cup T) = Cardinality(S) + Cardinality(T) - Cardinality(S \cap T)
  BY FS_Union
<1> QED  BY <1>1, <1>2, <1>3

\* A function has at most as many values as arguments, and as many if it is
\* injective.
LEMMA ElementsOf ==
    ASSUME NEW f, NEW I, IsFiniteSet(I)
    PROVE  /\ IsFiniteSet({f[i] : i \in I})
           /\ Cardinality({f[i] : i \in I}) <= Cardinality(I)
           /\ (\A i, j \in I : f[i] = f[j] => i = j)
                  => Cardinality({f[i] : i \in I}) = Cardinality(I)
<1> DEFINE E == {f[i] : i \in I}
           g == [i \in I |-> f[i]]
<1>1. g \in Surjection(I, E)
  BY DEF Surjection
<1>2. (\A i, j \in I : f[i] = f[j] => i = j) => g \in Injection(I, E)
  BY DEF Injection, IsInjective
<1> HIDE DEF g, E
<1>3. /\ IsFiniteSet(E) /\ Cardinality(E) <= Cardinality(I)
      /\ Cardinality(E) = Cardinality(I) <=> g \in Injection(I, E)
  BY <1>1, FS_Surjection
<1>4. (\A i, j \in I : f[i] = f[j] => i = j) => Cardinality(E) = Cardinality(I)
  BY <1>2, <1>3
<1> QED  BY <1>3, <1>4 DEF E

\* A set covered by two finite ones is no larger than both together.
LEMMA CoverBound ==
    ASSUME NEW S, NEW T, NEW R, IsFiniteSet(S), IsFiniteSet(T), R \subseteq S \cup T
    PROVE  /\ IsFiniteSet(R) /\ Cardinality(R) \in Nat
           /\ Cardinality(S) \in Nat /\ Cardinality(T) \in Nat
           /\ Cardinality(R) <= Cardinality(S) + Cardinality(T)
<1>1. /\ Cardinality(S) \in Nat /\ Cardinality(T) \in Nat
      /\ Cardinality(S \cap T) \in Nat
  BY FS_CardinalityType, FS_Intersection
<1>2. /\ IsFiniteSet(S \cup T)
      /\ Cardinality(S \cup T) = Cardinality(S) + Cardinality(T) - Cardinality(S \cap T)
  BY FS_Union
<1>3. IsFiniteSet(R) /\ Cardinality(R) <= Cardinality(S \cup T) /\ Cardinality(R) \in Nat
  BY <1>2, FS_Subset, FS_CardinalityType
<1> QED  BY <1>1, <1>2, <1>3

-----------------------------------------------------------------------------
(* Finite sets of integers                                                  *)

\* How many elements of K are not above k.
Rank(K, k) == Cardinality({j \in K : j <= k})

\* Of a finite set of integers each has its own rank, and the ranks are 1, 2, ...
\* up to the size of the set, in the order of the integers.
LEMMA Ranks ==
    ASSUME NEW K \in SUBSET Int, IsFiniteSet(K)
    PROVE  /\ \A k \in K : Rank(K, k) \in 1 .. Cardinality(K)
           /\ \A k, l \in K : k < l => Rank(K, k) < Rank(K, l)
           /\ \A n \in 1 .. Cardinality(K) : \E k \in K : Rank(K, k) = n
  <1> DEFINE UpTo(k) == {j \in K : j <= k}
  <1>1. \A k : IsFiniteSet(UpTo(k)) /\ Cardinality(UpTo(k)) \in Nat
                /\ Cardinality(UpTo(k)) <= Cardinality(K)
    BY FS_Subset, FS_CardinalityType
  <1>2. Cardinality(K) \in Nat
    BY FS_CardinalityType
  <1>3. ASSUME NEW k \in K, NEW l \in K, k < l
        PROVE  Rank(K, k) < Rank(K, l)
    <2>1. l \notin UpTo(k) /\ UpTo(k) \cup {l} \in SUBSET UpTo(l)
      <3>1. k \in Int /\ l \in Int /\ \A j \in K : j \in Int
        OBVIOUS
      <3>2. ~(l <= k) /\ l <= l /\ \A j \in K : j <= k => j <= l
        BY <1>3, <3>1
      <3> QED
        BY <3>2
    <2>2. Cardinality(UpTo(k) \cup {l}) = Cardinality(UpTo(k)) + 1
      BY <1>1, <2>1, FS_AddElement
    <2>3. Cardinality(UpTo(k) \cup {l}) <= Cardinality(UpTo(l))
      BY <1>1, <2>1, FS_Subset
    <2>4. /\ Cardinality(UpTo(k)) \in Nat /\ Cardinality(UpTo(l)) \in Nat
          /\ Rank(K, k) = Cardinality(UpTo(k)) /\ Rank(K, l) = Cardinality(UpTo(l))
      BY <1>1 DEF Rank
    <2> HIDE DEF UpTo
    <2> QED
      BY <2>2, <2>3, <2>4
  <1>4. ASSUME NEW k \in K
        PROVE  Rank(K, k) \in 1 .. Cardinality(K)
    <2>1. k \in UpTo(k)
      OBVIOUS
    <2>2. Cardinality(UpTo(k)) # 0
      BY <1>1, <2>1, FS_EmptySet
    <2>3. Rank(K, k) = Cardinality(UpTo(k))
      BY DEF Rank
    <2> HIDE DEF UpTo
    <2> QED
      BY <1>1, <1>2, <2>2, <2>3
  <1>5. \A n \in 1 .. Cardinality(K) : \E k \in K : Rank(K, k) = n
    <2> DEFINE N == 1 .. Cardinality(K)
               r == [k \in K |-> Rank(K, k)]
    <2>1. IsFiniteSet(N) /\ Cardinality(N) = Cardinality(K)
      BY <1>2, FS_Interval
    <2>2. r \in [K -> N]
      BY <1>4
    <2>3. \A k, l \in K : r[k] = r[l] => k = l
      <3> SUFFICES ASSUME NEW k \in K, NEW l \in K, Rank(K, k) = Rank(K, l), k # l
                   PROVE  FALSE
        OBVIOUS
      <3>1. k < l \/ l < k
        OBVIOUS
      <3>2. Rank(K, k) \in Int /\ Rank(K, l) \in Int
        BY <1>4
      <3> QED
        BY <1>3, <3>1, <3>2
    <2>4. \A k \in K : r[k] = Rank(K, k)
      OBVIOUS
    <2> HIDE DEF r, N
    <2>5. r \in Injection(K, N)
      BY <2>2, <2>3 DEF Injection, IsInjective
    <2>6. r \in Surjection(K, N)
      BY <2>1, <2>5, FS_Injection
    <2> QED
      BY <2>4, <2>6 DEF Surjection, N
  <1> QED
    BY <1>3, <1>4, <1>5

\* A finite set of integers has a least element: the one of rank 1.
LEMMA LeastOf ==
    ASSUME NEW K \in SUBSET Int, IsFiniteSet(K), K # {}
    PROVE  \E k \in K : \A l \in K : k <= l
  <1>1. Cardinality(K) \in Nat /\ Cardinality(K) # 0
    BY FS_CardinalityType, FS_EmptySet
  <1>2. PICK k \in K : Rank(K, k) = 1
    <2>1. 1 \in 1 .. Cardinality(K)
      BY <1>1
    <2> QED
      BY <2>1, Ranks
  <1>3. ASSUME NEW l \in K PROVE k <= l
    <2>1. Rank(K, l) \in Int /\ Rank(K, l) >= 1
      BY <1>1, Ranks
    <2>2. ~(l < k)
      BY <1>2, <2>1, Ranks
    <2> QED
      BY <2>2
  <1> QED
    BY <1>3

-----------------------------------------------------------------------------
(* Products. Each fact about them is stated here once, so that the proofs that *)
(* use one keep the products themselves out of their arithmetic.               *)

LEMMA ProductNat ==
    ASSUME NEW a \in Nat, NEW b \in Nat
    PROVE  a * b \in Nat
  BY SMTT(30)

LEMMA NextMultiple ==
    ASSUME NEW n \in Nat, NEW t \in Nat
    PROVE  /\ (n + 1) * t = n * t + t
           /\ n * t \in Nat
  <1>1. (n + 1) * t = n * t + t
    BY SMTT(30)
  <1> QED
    BY <1>1, ProductNat

LEMMA ProductGrows ==
    ASSUME NEW a \in Nat, NEW b \in Nat, NEW c \in Nat, a <= b
    PROVE  c * a <= c * b
  <1>1. PICK k \in Nat : b = a + k
    <2>1. b - a \in Nat /\ b = a + (b - a)
      OBVIOUS
    <2> QED
      BY <2>1
  <1>2. c * (a + k) = c * a + c * k
    BY SMTT(30)
  <1>3. PICK p \in Nat, q \in Nat : p = c * a /\ q = c * k
    BY ProductNat
  <1>4. c * b = p + q
    BY <1>1, <1>2, <1>3, Zenon
  <1>5. p + q >= p
    OBVIOUS
  <1> QED
    BY <1>3, <1>4, <1>5, Zenon

-----------------------------------------------------------------------------
(* Powers of two: 2^n counts the subsets of 1 .. n.                         *)

LEMMA PowerOfTwo ==
    ASSUME NEW n \in Nat
    PROVE  /\ IsFiniteSet(SUBSET (1 .. n))
           /\ Cardinality(SUBSET (1 .. n)) = 2 ^ n
           /\ 2 ^ n \in Nat
  <1>1. IsFiniteSet(1 .. n) /\ Cardinality(1 .. n) = n
    BY FS_Interval
  <1>2. /\ IsFiniteSet(SUBSET (1 .. n))
        /\ Cardinality(SUBSET (1 .. n)) = 2 ^ Cardinality(1 .. n)
    BY <1>1, FS_SUBSET
  <1>3. Cardinality(SUBSET (1 .. n)) \in Nat
    BY <1>2, FS_CardinalityType
  <1> QED
    BY <1>1, <1>2, <1>3

\* The subsets of 1 .. n + 1 are those without n + 1 and as many with it.
LEMMA PowerDoubles ==
    ASSUME NEW n \in Nat
    PROVE  2 ^ (n + 1) = 2 * 2 ^ n
  <1> DEFINE Without == SUBSET (1 .. n)
             With == {T \cup {n + 1} : T \in SUBSET (1 .. n)}
             add == [T \in Without |-> T \cup {n + 1}]
  <1>1. n + 1 \in Nat /\ n + 1 \notin 1 .. n /\ 1 .. n + 1 = (1 .. n) \cup {n + 1}
    OBVIOUS
  <1>2. SUBSET (1 .. n + 1) = Without \cup With
    <2>1. Without \cup With \subseteq SUBSET (1 .. n + 1)
      BY <1>1
    <2>2. ASSUME NEW T \in SUBSET (1 .. n + 1) PROVE T \in Without \cup With
      <3>1. CASE n + 1 \notin T
        BY <1>1, <3>1
      <3>2. CASE n + 1 \in T
        <4>1. T \ {n + 1} \in SUBSET (1 .. n) /\ T = (T \ {n + 1}) \cup {n + 1}
          BY <1>1, <3>2
        <4> QED
          BY <4>1
      <3> QED
        BY <3>1, <3>2
    <2> QED
      BY <2>1, <2>2
  <1>3. Without \cap With = {}
    BY <1>1
  <1>4. add \in Bijection(Without, With)
    <2>1. \A T, U \in Without : add[T] = add[U] => T = U
      <3> SUFFICES ASSUME NEW T \in Without, NEW U \in Without,
                          T \cup {n + 1} = U \cup {n + 1}
                   PROVE  T = U
        OBVIOUS
      <3>1. n + 1 \notin T /\ n + 1 \notin U
        BY <1>1
      <3> QED
        BY <3>1
    <2>2. add \in [Without -> With] /\ \A U \in With : \E T \in Without : add[T] = U
      OBVIOUS
    <2> HIDE DEF Without, With, add
    <2>3. add \in Injection(Without, With) /\ add \in Surjection(Without, With)
      BY <2>1, <2>2 DEF Injection, Surjection, IsInjective
    <2> QED
      BY <2>3 DEF Bijection
  <1>5. IsFiniteSet(Without) /\ Cardinality(Without) = 2 ^ n /\ 2 ^ n \in Nat
    BY PowerOfTwo
  <1>6. Cardinality(SUBSET (1 .. n + 1)) = 2 ^ (n + 1)
    BY <1>1, PowerOfTwo
  <1> HIDE DEF With, Without, add
  <1>7. IsFiniteSet(With) /\ Cardinality(With) = Cardinality(Without)
    BY <1>4, <1>5, FS_Bijection DEF ExistsBijection
  <1>8. /\ Cardinality(Without \cup With)
               = Cardinality(Without) + Cardinality(With) - Cardinality(Without \cap With)
        /\ Cardinality(Without \cap With) = 0
    BY <1>3, <1>5, <1>7, FS_Union, FS_EmptySet
  <1>9. Cardinality(Without \cup With) = 2 ^ n + 2 ^ n
    BY <1>5, <1>7, <1>8
  <1>10. Cardinality(SUBSET (1 .. n + 1)) = 2 ^ n + 2 ^ n
    BY <1>2, <1>9, Zenon
  <1> QED
    BY <1>5, <1>6, <1>10

LEMMA PowerGrows ==
    ASSUME NEW m \in Nat, NEW n \in Nat, m <= n
    PROVE  2 ^ m <= 2 ^ n
  <1> DEFINE S == SUBSET (1 .. m)
             T == SUBSET (1 .. n)
  <1>1. S \in SUBSET T
    BY SMT
  <1>2. /\ IsFiniteSet(T) /\ Cardinality(T) = 2 ^ n
        /\ Cardinality(S) = 2 ^ m
    BY PowerOfTwo
  <1> HIDE DEF S, T
  <1>3. Cardinality(S) <= Cardinality(T)
    BY <1>1, <1>2, FS_Subset
  <1> QED
    BY <1>2, <1>3

LEMMA PowerOfNone == 2 ^ 0 = 1
  <1>1. SUBSET (1 .. 0) = {{}}
    OBVIOUS
  <1>2. Cardinality({{}}) = 1
    BY FS_Singleton
  <1> QED
    BY <1>1, <1>2, PowerOfTwo

LEMMA PowerFive ==
    ASSUME NEW n \in Nat
    PROVE  2 ^ (n + 5) = 32 * 2 ^ n
  <1>1. \A k \in Nat : 2 ^ (k + 1) = 2 * 2 ^ k /\ 2 ^ k \in Nat
    BY PowerDoubles, PowerOfTwo
  <1>2. ASSUME NEW k \in Nat
        PROVE  2 ^ (k + 2) = 4 * 2 ^ k
    <2>1. 2 ^ ((k + 1) + 1) = 2 * 2 ^ (k + 1) /\ (k + 1) + 1 = k + 2
      BY <1>1
    <2> QED
      BY <1>1, <2>1
  <1>3. 2 ^ (((n + 2) + 2) + 1) = 2 * 2 ^ ((n + 2) + 2) /\ ((n + 2) + 2) + 1 = n + 5
    BY <1>1
  <1>4. 2 ^ ((n + 2) + 2) = 4 * 2 ^ (n + 2) /\ 2 ^ (n + 2) = 4 * 2 ^ n
    BY <1>2
  <1> QED
    BY <1>1, <1>3, <1>4

LEMMA PowerTen ==
    ASSUME NEW n \in Nat
    PROVE  2 ^ (n + 10) = 1024 * 2 ^ n
  <1>1. 2 ^ ((n + 5) + 5) = 32 * 2 ^ (n + 5) /\ 2 ^ (n + 5) = 32 * 2 ^ n
    <2>1. n + 5 \in Nat
      OBVIOUS
    <2> QED
      BY <2>1, PowerFive, Zenon
  <1>2. (n + 5) + 5 = n + 10
    OBVIOUS
  <1>3. 2 ^ n \in Nat
    BY PowerOfTwo
  <1> QED
    BY <1>1, <1>2, <1>3

\* What remains when a multiple of d and something below d is divided by d.
LEMMA MultipleModulo ==
    ASSUME NEW q \in Nat, NEW d \in Nat \ {0}, NEW r \in 0 .. d - 1
    PROVE  (d * q + r) % d = r
  BY SMTT(30)
=============================================================================
