-------------------------- MODULE SelfUpdateProofs --------------------------
(***************************************************************************)
(* SelfUpdate, for any set of versions and any number of signals and       *)
(* crashes: what is installed, what an exit for a restart promises, that   *)
(* no version is ever replaced by an older one, that a shutdown request    *)
(* wins, and that staged files do not pile up. And VersionOrder, for       *)
(* version strings of any length: a total order, that of the numbers which *)
(* the segments spell.                                                     *)
(***************************************************************************)
EXTENDS MCSelfUpdate, CountingLemmas

-----------------------------------------------------------------------------
(* The order of versions                                                    *)

\* Every segment a version has or lacks counts as an integer.
LEMMA SegmentType ==
    ASSUME NEW v, v.segments \in Seq(Int), NEW i \in Nat
    PROVE  Segment(v, i) \in Int
  BY DEF Segment

\* No version is higher than itself: an agent does not update to what it is
\* (manager.go:386-405).
THEOREM HigherIrreflexive ==
    ASSUME NEW v, v.segments \in Seq(Int)
    PROVE  ~IsHigherVersion(v, v)
  <1> SUFFICES ASSUME NEW i \in DOMAIN v.segments, Segment(v, i) > Segment(v, i)
               PROVE  FALSE
    BY DEF IsHigherVersion
  <1>1. i \in Nat
    OBVIOUS
  <1> QED
    BY <1>1, SegmentType

\* Higher than higher is higher, for strings of any lengths: a chain of updates
\* never comes back to where it was (manager.go:386-405).
THEOREM HigherTransitive ==
    ASSUME NEW u, u.segments \in Seq(Int),
           NEW v, v.segments \in Seq(Int),
           NEW w, w.segments \in Seq(Int),
           IsHigherVersion(u, v), IsHigherVersion(v, w)
    PROVE  IsHigherVersion(u, w)
  <1>1. PICK i \in DOMAIN u.segments :
            Segment(u, i) > Segment(v, i) /\ SameUpTo(u, v, i - 1)
    BY DEF IsHigherVersion
  <1>2. PICK j \in DOMAIN v.segments :
            Segment(v, j) > Segment(w, j) /\ SameUpTo(v, w, j - 1)
    BY DEF IsHigherVersion
  <1>3. i \in 1 .. Len(u.segments) /\ j \in 1 .. Len(v.segments)
    BY SMTT(30)
  <1>4. \A n \in Nat : /\ Segment(u, n) \in Int
                       /\ Segment(v, n) \in Int
                       /\ Segment(w, n) \in Int
    BY SegmentType
  <1>5. Parses(u) /\ Parses(w)
    BY DEF IsHigherVersion
  <1>6. ASSUME NEW k \in DOMAIN u.segments,
               Segment(u, k) > Segment(w, k), SameUpTo(u, w, k - 1)
        PROVE  IsHigherVersion(u, w)
    BY <1>5, <1>6 DEF IsHigherVersion
  <1>7. CASE i <= j
    <2>0. /\ Segment(u, i) \in Int /\ Segment(v, i) \in Int /\ Segment(w, i) \in Int
          /\ i < j => Segment(v, i) = Segment(w, i)
      <3>1. i \in Nat /\ (i < j => i \in 1 .. j - 1)
        BY <1>3
      <3>2. i < j => Segment(v, i) = Segment(w, i)
        BY <1>2, <3>1 DEF SameUpTo
      <3> QED
        BY <1>4, <3>1, <3>2
    <2>1. Segment(v, i) >= Segment(w, i)
      <3>1. CASE i < j
        BY <2>0, <3>1
      <3>2. CASE i = j
        BY <1>2, <2>0, <3>2
      <3> QED
        BY <1>3, <1>7, <3>1, <3>2
    <2>2. Segment(u, i) > Segment(w, i)
      BY <1>1, <2>0, <2>1
    <2>3. SameUpTo(u, w, i - 1)
      BY <1>1, <1>2, <1>3, <1>7 DEF SameUpTo
    <2> QED
      BY <1>3, <1>6, <2>2, <2>3
  <1>8. CASE j < i
    <2>1. Segment(u, j) = Segment(v, j)
      BY <1>1, <1>3, <1>8 DEF SameUpTo
    <2>2. Segment(u, j) > Segment(w, j)
      BY <1>2, <2>1
    <2>3. SameUpTo(u, w, j - 1)
      BY <1>1, <1>2, <1>3, <1>8 DEF SameUpTo
    <2>4. j \in DOMAIN u.segments
      <3>1. DOMAIN u.segments = 1 .. Len(u.segments)
        OBVIOUS
      <3> QED
        BY <1>3, <1>8, <3>1
    <2> QED
      BY <1>6, <2>2, <2>3, <2>4
  <1> QED
    BY <1>3, <1>7, <1>8

\* Two versions of one number: they agree in every segment that either has, and
\* whatever one of them lacks is zero in the other.
SameNumber(v, w) == \A n \in Nat \ {0} : Segment(v, n) = Segment(w, n)

\* Two versions with different numbers differ first in some segment.
LEMMA FirstDifference ==
    ASSUME NEW v, v.segments \in Seq(Int),
           NEW w, w.segments \in Seq(Int),
           ~SameNumber(v, w)
    PROVE  \E d \in Nat \ {0} : Segment(v, d) # Segment(w, d) /\ SameUpTo(v, w, d - 1)
  <1>1. PICK n \in Nat \ {0} : Segment(v, n) # Segment(w, n)
    BY DEF SameNumber
  <1> DEFINE D == {d \in 1 .. n : Segment(v, d) # Segment(w, d)}
  <1>2. IsFiniteSet(1 .. n)
    BY <1>1, FS_Interval
  <1>3. IsFiniteSet(D) /\ D # {} /\ D \in SUBSET Int
    <2>1. D \subseteq 1 .. n /\ n \in D
      BY <1>1
    <2>2. 1 .. n \subseteq Int
      OBVIOUS
    <2> QED
      BY <1>2, <2>1, <2>2, FS_Subset
  <1> HIDE DEF D
  <1>4. PICK d \in D : \A e \in D : d <= e
    BY <1>3, LeastOf
  <1>5. d \in 1 .. n /\ Segment(v, d) # Segment(w, d)
    BY <1>4 DEF D
  <1>6. ASSUME NEW e \in 1 .. d - 1 PROVE Segment(v, e) = Segment(w, e)
    <2>1. e \in 1 .. n /\ ~(d <= e)
      BY <1>1, <1>5
    <2>2. e \notin D
      BY <1>4, <2>1
    <2> QED
      BY <2>1, <2>2 DEF D
  <1> QED
    BY <1>5, <1>6 DEF SameUpTo

\* Versions that can be read, of any two lengths, compare in exactly one way: one
\* of them is higher, or they are the same number and the agent stays where it is
\* (manager.go:386-405).
THEOREM HigherTotal ==
    ASSUME NEW v, v.segments \in Seq(Int), Parses(v),
           NEW w, w.segments \in Seq(Int), Parses(w)
    PROVE  /\ IsHigherVersion(v, w) \/ IsHigherVersion(w, v) \/ SameNumber(v, w)
           /\ IsHigherVersion(v, w) => ~IsHigherVersion(w, v)
           /\ SameNumber(v, w) => ~IsHigherVersion(v, w) /\ ~IsHigherVersion(w, v)
  <1>1. \A n \in Nat : /\ Segment(v, n) \in Nat /\ Segment(w, n) \in Nat
                       /\ Segment(v, n) > 0 => n \in DOMAIN v.segments
                       /\ Segment(w, n) > 0 => n \in DOMAIN w.segments
    BY VersionOrderAssumption DEF Parses, Segment
  <1>2. ASSUME ~SameNumber(v, w)
        PROVE  IsHigherVersion(v, w) \/ IsHigherVersion(w, v)
    <2>1. PICK d \in Nat \ {0} : Segment(v, d) # Segment(w, d) /\ SameUpTo(v, w, d - 1)
      BY <1>2, FirstDifference
    <2>2. SameUpTo(w, v, d - 1)
      BY <2>1 DEF SameUpTo
    <2>3. CASE Segment(v, d) > Segment(w, d)
      <3>1. d \in DOMAIN v.segments
        BY <1>1, <2>3
      <3> QED
        BY <2>1, <2>3, <3>1 DEF IsHigherVersion
    <2>4. CASE Segment(w, d) > Segment(v, d)
      <3>1. d \in DOMAIN w.segments
        BY <1>1, <2>4
      <3> QED
        BY <2>2, <2>4, <3>1 DEF IsHigherVersion
    <2> QED
      BY <1>1, <2>1, <2>3, <2>4
  <1>3. ASSUME IsHigherVersion(v, w), IsHigherVersion(w, v) PROVE FALSE
    BY <1>3, HigherTransitive, HigherIrreflexive
  <1>4. ASSUME NEW i \in Nat, SameNumber(v, w), i # 0
        PROVE  ~(Segment(v, i) > Segment(w, i)) /\ ~(Segment(w, i) > Segment(v, i))
    <2>1. Segment(v, i) = Segment(w, i) /\ Segment(v, i) \in Nat
      BY <1>1, <1>4 DEF SameNumber
    <2> QED
      BY <2>1
  <1>5. \A i \in DOMAIN v.segments \cup DOMAIN w.segments : i \in Nat /\ i # 0
    <2>1. /\ DOMAIN v.segments = 1 .. Len(v.segments)
          /\ DOMAIN w.segments = 1 .. Len(w.segments)
      BY LenProperties
    <2> QED
      BY <2>1
  <1>6. SameNumber(v, w) => ~IsHigherVersion(v, w) /\ ~IsHigherVersion(w, v)
    BY <1>4, <1>5 DEF IsHigherVersion
  <1> QED
    BY <1>2, <1>3, <1>6

\* The number a with one more digit x behind it.
Shift(a, x) == a * Base + x

LEMMA BaseType == MaxInt \in Nat /\ Base \in Nat /\ Base - 1 = MaxInt /\ Base >= 1
  BY VersionOrderAssumption DEF Base

LEMMA ShiftType ==
    ASSUME NEW a \in Int, NEW x \in 0 .. Base - 1
    PROVE  Shift(a, x) \in Int
  <1>1. Base \in Int /\ x \in Int
    BY BaseType
  <1>2. a * Base \in Int
    BY <1>1
  <1> QED
    BY <1>1, <1>2 DEF Shift

\* Whatever the digits, a greater number stays greater.
LEMMA ShiftGrows ==
    ASSUME NEW a \in Int, NEW c \in Int,
           NEW x \in 0 .. Base - 1, NEW y \in 0 .. Base - 1,
           a > c
    PROVE  Shift(a, x) > Shift(c, y)
  <1>1. PICK B \in Nat : B = Base
    BY BaseType
  <1>2. PICK n \in Nat : a = c + (1 + n)
    <2>1. a - c - 1 \in Nat /\ a = c + (1 + (a - c - 1))
      OBVIOUS
    <2> QED
      BY <2>1
  <1>3. (c + (1 + n)) * B = c * B + (B + n * B)
    BY SMTT(30)
  <1>4. PICK p \in Int, q \in Nat : p = c * B /\ q = n * B
    <2>1. c * B \in Int /\ n * B \in Nat
      OBVIOUS
    <2> QED
      BY <2>1
  <1>5. Shift(a, x) = p + (B + q) + x /\ Shift(c, y) = p + y
    <2>1. Shift(a, x) = (c + (1 + n)) * B + x /\ Shift(c, y) = c * B + y
      BY <1>1, <1>2 DEF Shift
    <2> QED
      BY <1>3, <1>4, <2>1, Zenon
  <1>6. x \in Int /\ y \in Int /\ 0 <= x /\ y <= B - 1
    BY <1>1
  <1> QED
    BY <1>5, <1>6

\* Two numbers of which the last digit is known compare by what is before it,
\* and by that digit if there is no difference before.
LEMMA DigitByDigit ==
    ASSUME NEW a \in Int, NEW c \in Int,
           NEW x \in 0 .. Base - 1, NEW y \in 0 .. Base - 1
    PROVE  /\ Shift(a, x) > Shift(c, y) <=> a > c \/ (a = c /\ x > y)
           /\ Shift(a, x) = Shift(c, y) <=> a = c /\ x = y
  <1>1. Shift(a, x) \in Int /\ Shift(c, y) \in Int
    BY ShiftType
  <1>2. a > c => Shift(a, x) > Shift(c, y)
    BY ShiftGrows
  <1>3. c > a => Shift(c, y) > Shift(a, x)
    BY ShiftGrows
  <1>4. a = c => (Shift(a, x) > Shift(c, y) <=> x > y)
               /\ (Shift(a, x) = Shift(c, y) <=> x = y)
    <2>1. x \in Int /\ y \in Int
      BY BaseType
    <2>2. PICK p \in Int : p = a * Base
      <3>1. Base \in Int
        BY BaseType
      <3> QED
        BY <3>1
    <2>3. a = c => Shift(a, x) = p + x /\ Shift(c, y) = p + y
      BY <2>2 DEF Shift
    <2> QED
      BY <2>1, <2>3
  <1>5. x \in Int /\ y \in Int
    BY BaseType
  <1> QED
    BY <1>1, <1>2, <1>3, <1>4, <1>5

\* Of versions with at most three segments the higher one spells the greater
\* number, lengths and trailing zeros notwithstanding, and a string that cannot be
\* read is never higher (manager.go:374-406).
THEOREM HigherIsNumeric ==
    ASSUME NEW v, v.segments \in Seq(Int), Len(v.segments) <= 3,
           NEW w, w.segments \in Seq(Int), Len(w.segments) <= 3
    PROVE  IsHigherVersion(v, w) <=> Parses(v) /\ Parses(w) /\ Weight(v) > Weight(w)
  <1> SUFFICES ASSUME Parses(v), Parses(w)
               PROVE  IsHigherVersion(v, w) <=> Weight(v) > Weight(w)
    BY DEF IsHigherVersion
  <1>1. /\ DOMAIN v.segments = 1 .. Len(v.segments) /\ Len(v.segments) \in Nat
        /\ DOMAIN w.segments = 1 .. Len(w.segments) /\ Len(w.segments) \in Nat
    OBVIOUS
  <1>2. MaxInt \in Nat /\ Base \in Nat /\ Base - 1 = MaxInt
    BY BaseType
  <1>3. \A i \in Nat : /\ Segment(v, i) \in 0 .. Base - 1
                       /\ Segment(w, i) \in 0 .. Base - 1
    BY <1>2 DEF Parses, Segment
  <1>4. PICK v1 \in 0 .. Base - 1, v2 \in 0 .. Base - 1, v3 \in 0 .. Base - 1 :
            v1 = Segment(v, 1) /\ v2 = Segment(v, 2) /\ v3 = Segment(v, 3)
    BY <1>3
  <1>5. PICK w1 \in 0 .. Base - 1, w2 \in 0 .. Base - 1, w3 \in 0 .. Base - 1 :
            w1 = Segment(w, 1) /\ w2 = Segment(w, 2) /\ w3 = Segment(w, 3)
    BY <1>3
  <1> DEFINE First == v1 > w1
             Second == v1 = w1 /\ v2 > w2
             Third == v1 = w1 /\ v2 = w2 /\ v3 > w3
  <1>6. Weight(v) > Weight(w) <=> First \/ Second \/ Third
    <2>1. /\ v1 \in Int /\ v2 \in Int /\ w1 \in Int /\ w2 \in Int
          /\ Shift(v1, v2) \in Int /\ Shift(w1, w2) \in Int
      BY <1>2, ShiftType
    <2>2. /\ Weight(v) = Shift(Shift(v1, v2), v3)
          /\ Weight(w) = Shift(Shift(w1, w2), w3)
      BY <1>4, <1>5 DEF Weight, Shift
    <2>3. Shift(Shift(v1, v2), v3) > Shift(Shift(w1, w2), w3)
              <=> \/ Shift(v1, v2) > Shift(w1, w2)
                  \/ Shift(v1, v2) = Shift(w1, w2) /\ v3 > w3
      BY <2>1, DigitByDigit
    <2>4. Shift(v1, v2) > Shift(w1, w2) <=> v1 > w1 \/ (v1 = w1 /\ v2 > w2)
      BY <2>1, DigitByDigit
    <2>5. Shift(v1, v2) = Shift(w1, w2) <=> v1 = w1 /\ v2 = w2
      BY <2>1, DigitByDigit
    <2> QED
      BY <2>2, <2>3, <2>4, <2>5, Zenon
  <1>7. ASSUME First \/ Second \/ Third
        PROVE  IsHigherVersion(v, w)
    <2>1. ASSUME NEW i \in {1, 2, 3}, Segment(v, i) > Segment(w, i),
                 SameUpTo(v, w, i - 1)
          PROVE  IsHigherVersion(v, w)
      <3>1. i \in DOMAIN v.segments
        <4>1. CASE i \notin DOMAIN v.segments
          <5>1. Segment(v, i) = 0 /\ i \in Nat
            BY <4>1 DEF Segment
          <5>2. Segment(w, i) \in 0 .. Base - 1
            BY <1>3, <5>1
          <5> QED
            BY <1>2, <2>1, <5>1, <5>2
        <4> QED
          BY <4>1
      <3> QED
        BY <2>1, <3>1 DEF IsHigherVersion
    <2>2. CASE First
      <3>1. SameUpTo(v, w, 1 - 1)
        BY DEF SameUpTo
      <3> QED
        BY <1>4, <1>5, <2>1, <2>2, <3>1
    <2>3. CASE Second
      <3>1. SameUpTo(v, w, 2 - 1)
        BY <1>4, <1>5, <2>3 DEF SameUpTo
      <3> QED
        BY <1>4, <1>5, <2>1, <2>3, <3>1
    <2>4. CASE Third
      <3>1. \A i \in 1 .. 3 - 1 : i = 1 \/ i = 2
        OBVIOUS
      <3>2. SameUpTo(v, w, 3 - 1)
        BY <1>4, <1>5, <2>4, <3>1 DEF SameUpTo
      <3> QED
        BY <1>4, <1>5, <2>1, <2>4, <3>2
    <2> QED
      BY <1>7, <2>2, <2>3, <2>4
  <1>8. ASSUME IsHigherVersion(v, w)
        PROVE  First \/ Second \/ Third
    <2>1. PICK i \in DOMAIN v.segments :
              Segment(v, i) > Segment(w, i) /\ SameUpTo(v, w, i - 1)
      BY <1>8 DEF IsHigherVersion
    <2>2. i = 1 \/ i = 2 \/ i = 3
      BY SMTT(30), <1>1
    <2>3. CASE i = 1
      BY <1>4, <1>5, <2>1, <2>3
    <2>4. CASE i = 2
      <3>1. 1 \in 1 .. i - 1
        BY <2>4
      <3>2. Segment(v, 1) = Segment(w, 1)
        BY <2>1, <3>1 DEF SameUpTo
      <3> QED
        BY <1>4, <1>5, <2>1, <2>4, <3>2
    <2>5. CASE i = 3
      <3>1. 1 \in 1 .. i - 1 /\ 2 \in 1 .. i - 1
        BY <2>5
      <3>2. Segment(v, 1) = Segment(w, 1) /\ Segment(v, 2) = Segment(w, 2)
        BY <2>1, <3>1 DEF SameUpTo
      <3> QED
        BY <1>4, <1>5, <2>1, <2>5, <3>2
    <2> QED
      BY <2>2, <2>3, <2>4, <2>5
  <1> QED
    BY <1>6, <1>7, <1>8

\* f[n] is the number that the first n segments of v spell, to n = N.
Spells(f, v, N) ==
    /\ f \in [0 .. N -> Int]
    /\ f[0] = 0
    /\ \A i \in 1 .. N : f[i] = Shift(f[i - 1], Segment(v, i))

LEMMA DigitType ==
    ASSUME NEW v, v.segments \in Seq(Int), Parses(v), NEW i \in Nat
    PROVE  /\ Segment(v, i) \in 0 .. Base - 1
           /\ Segment(v, i) > 0 => i \in DOMAIN v.segments
  <1>1. MaxInt \in Nat /\ Base - 1 = MaxInt
    BY BaseType
  <1>2. CASE i \in DOMAIN v.segments
    BY <1>1, <1>2 DEF Parses, Segment
  <1>3. CASE i \notin DOMAIN v.segments
    <2>1. Segment(v, i) = 0
      BY <1>3 DEF Segment
    <2> QED
      BY <1>1, <2>1
  <1> QED
    BY <1>2, <1>3

\* There is such a number, however many segments it has: the least N without one
\* would have one.
LEMMA NumberExists ==
    ASSUME NEW v, v.segments \in Seq(Int), Parses(v), NEW N \in Nat
    PROVE  \E f : Spells(f, v, N)
  <1> DEFINE K == {n \in 0 .. N : ~\E f : Spells(f, v, n)}
  <1>1. SUFFICES ASSUME K # {} PROVE FALSE
    <2>1. N \in 0 .. N
      OBVIOUS
    <2> QED
      BY <2>1, Zenon
  <1>2. K \in SUBSET Int /\ IsFiniteSet(K)
    <2>1. IsFiniteSet(0 .. N)
      BY FS_Interval
    <2> QED
      BY <2>1, FS_Subset
  <1>3. PICK n \in K : \A l \in K : n <= l
    BY <1>1, <1>2, LeastOf
  <1>4. n \in Nat /\ n <= N /\ ~\E f : Spells(f, v, n)
    BY <1>3
  <1>5. n # 0
    <2>1. Spells([i \in 0 .. 0 |-> 0], v, 0)
      BY DEF Spells
    <2> QED
      BY <1>4, <2>1
  <1>6. n - 1 \in 0 .. N /\ ~(n <= n - 1)
    BY <1>4, <1>5
  <1>7. PICK f : Spells(f, v, n - 1)
    BY <1>3, <1>6
  <1> HIDE DEF K
  <1> DEFINE g == [i \in 0 .. n |-> IF i = n THEN Shift(f[n - 1], Segment(v, n)) ELSE f[i]]
  <1>8. f \in [0 .. n - 1 -> Int] /\ f[0] = 0
        /\ \A i \in 1 .. n - 1 : f[i] = Shift(f[i - 1], Segment(v, i))
    BY <1>7 DEF Spells
  <1>9. \A i \in 0 .. n : i # n => i \in 0 .. n - 1 /\ g[i] = f[i] /\ f[i] \in Int
    BY <1>4, <1>8
  <1>10. n \in 0 .. n /\ n - 1 \in 0 .. n /\ n - 1 # n /\ 0 \in 0 .. n /\ 0 # n
    BY <1>4, <1>5
  <1>11. g[n] = Shift(f[n - 1], Segment(v, n)) /\ g[n] \in Int
    BY <1>4, <1>9, <1>10, DigitType, ShiftType
  <1>12. g \in [0 .. n -> Int] /\ g[0] = 0
    BY <1>8, <1>9, <1>10, <1>11
  <1> HIDE DEF g
  <1>13. ASSUME NEW i \in 1 .. n
         PROVE  g[i] = Shift(g[i - 1], Segment(v, i))
    <2>1. CASE i = n
      BY <1>9, <1>10, <1>11, <2>1
    <2>2. CASE i # n
      <3>1. i \in 1 .. n - 1 /\ i \in 0 .. n /\ i - 1 \in 0 .. n /\ i - 1 # n
        BY <1>4, <2>2
      <3> QED
        BY <1>8, <1>9, <2>2, <3>1
    <2> QED
      BY <2>1, <2>2
  <1> QED
    BY <1>4, <1>12, <1>13 DEF Spells

\* The first n segments of two versions compare as the numbers they spell.
PrefixesCompare(f, g, v, w, n) ==
    /\ f[n] > g[n] <=> \E i \in 1 .. n : /\ Segment(v, i) > Segment(w, i)
                                         /\ SameUpTo(v, w, i - 1)
    /\ f[n] = g[n] <=> SameUpTo(v, w, n)

\* One more segment decides if no segment before it does.
LEMMA LongerPrefix ==
    ASSUME NEW v, v.segments \in Seq(Int), Parses(v),
           NEW w, w.segments \in Seq(Int), Parses(w),
           NEW N \in Nat, NEW f, Spells(f, v, N), NEW g, Spells(g, w, N),
           NEW n \in 1 .. N, PrefixesCompare(f, g, v, w, n - 1)
    PROVE  PrefixesCompare(f, g, v, w, n)
  <1>1. n \in Nat /\ n - 1 \in 0 .. N
    OBVIOUS
  <1>2. PICK a \in Int, c \in Int : a = f[n - 1] /\ c = g[n - 1]
    BY <1>1 DEF Spells
  <1>3. PICK x \in 0 .. Base - 1, y \in 0 .. Base - 1 :
            x = Segment(v, n) /\ y = Segment(w, n)
    BY <1>1, DigitType
  <1>4. f[n] = Shift(a, x) /\ g[n] = Shift(c, y)
    BY <1>2, <1>3 DEF Spells
  <1>5. /\ f[n] > g[n] <=> a > c \/ (a = c /\ x > y)
        /\ f[n] = g[n] <=> a = c /\ x = y
    BY <1>4, DigitByDigit
  <1>6. \A i : i \in 1 .. n <=> i \in 1 .. n - 1 \/ i = n
    BY <1>1
  <1>7. /\ a > c <=> \E i \in 1 .. n - 1 : /\ Segment(v, i) > Segment(w, i)
                                          /\ SameUpTo(v, w, i - 1)
        /\ a = c <=> SameUpTo(v, w, n - 1)
    BY <1>2 DEF PrefixesCompare
  <1>8. SameUpTo(v, w, n) <=> SameUpTo(v, w, n - 1) /\ x = y
    BY <1>3, <1>6 DEF SameUpTo
  <1>9. (\E i \in 1 .. n : Segment(v, i) > Segment(w, i) /\ SameUpTo(v, w, i - 1))
            <=> \/ \E i \in 1 .. n - 1 : /\ Segment(v, i) > Segment(w, i)
                                        /\ SameUpTo(v, w, i - 1)
                \/ x > y /\ SameUpTo(v, w, n - 1)
    BY <1>3, <1>6
  <1> QED
    BY <1>5, <1>7, <1>8, <1>9, Zenon DEF PrefixesCompare

\* Versions of any lengths compare as the numbers that their segments spell,
\* missing segments read as zeros (manager.go:374-406).
THEOREM HigherIsNumericAtAnyLength ==
    ASSUME NEW v, v.segments \in Seq(Int), Parses(v),
           NEW w, w.segments \in Seq(Int), Parses(w),
           NEW N \in Nat, Len(v.segments) <= N, Len(w.segments) <= N
    PROVE  \E f, g : /\ Spells(f, v, N) /\ Spells(g, w, N)
                     /\ IsHigherVersion(v, w) <=> f[N] > g[N]
                     /\ SameUpTo(v, w, N) <=> f[N] = g[N]
  <1>1. PICK f, g : Spells(f, v, N) /\ Spells(g, w, N)
    BY NumberExists
  <1> DEFINE K == {n \in 0 .. N : ~PrefixesCompare(f, g, v, w, n)}
  <1>2. K = {}
    <2>1. SUFFICES ASSUME K # {} PROVE FALSE
      OBVIOUS
    <2>2. K \in SUBSET Int /\ IsFiniteSet(K)
      <3>1. IsFiniteSet(0 .. N)
        BY FS_Interval
      <3> QED
        BY <3>1, FS_Subset
    <2>3. PICK n \in K : \A l \in K : n <= l
      BY <2>1, <2>2, LeastOf
    <2>4. n \in 0 .. N /\ ~PrefixesCompare(f, g, v, w, n)
      BY <2>3
    <2>5. n # 0
      <3>1. f[0] = 0 /\ g[0] = 0
        BY <1>1 DEF Spells
      <3>2. SameUpTo(v, w, 0) /\ ~\E i \in 1 .. 0 : TRUE
        BY DEF SameUpTo
      <3>3. PrefixesCompare(f, g, v, w, 0)
        BY <3>1, <3>2 DEF PrefixesCompare
      <3> QED
        BY <2>4, <3>3
    <2>6. n \in 1 .. N /\ n - 1 \in 0 .. N /\ ~(n <= n - 1)
      BY <2>4, <2>5
    <2>7. PrefixesCompare(f, g, v, w, n - 1)
      BY <2>3, <2>6
    <2> QED
      BY <1>1, <2>4, <2>6, <2>7, LongerPrefix
  <1>3. PrefixesCompare(f, g, v, w, N)
    BY <1>2
  <1> HIDE DEF K
  <1>4. \A i \in 1 .. N : Segment(v, i) > Segment(w, i) => i \in DOMAIN v.segments
    <2> SUFFICES ASSUME NEW i \in 1 .. N, Segment(v, i) > Segment(w, i)
                 PROVE  i \in DOMAIN v.segments
      OBVIOUS
    <2>1. i \in Nat
      OBVIOUS
    <2>2. Segment(v, i) \in 0 .. Base - 1 /\ Segment(w, i) \in 0 .. Base - 1
      BY <2>1, DigitType
    <2>3. Segment(v, i) > 0
      BY <2>2, BaseType
    <2> QED
      BY <2>1, <2>3, DigitType
  <1>5. DOMAIN v.segments \subseteq 1 .. N
    <2>1. DOMAIN v.segments = 1 .. Len(v.segments) /\ Len(v.segments) \in Nat
      BY LenProperties
    <2> QED
      BY <2>1
  <1>6. IsHigherVersion(v, w)
            <=> \E i \in 1 .. N : Segment(v, i) > Segment(w, i) /\ SameUpTo(v, w, i - 1)
    BY <1>4, <1>5 DEF IsHigherVersion
  <1> QED
    BY <1>1, <1>3, <1>6 DEF PrefixesCompare

-----------------------------------------------------------------------------
(* The inductive invariant                                                  *)

\* A staged file that has been verified for the release it belongs to.
Good(r) ==
    /\ r.file # NoFile
    /\ r.file.ver = r.ver
    /\ r.file.intact /\ r.file.whole
    /\ IsHigherVersion(r.ver, binary.ver)

\* <executable>.new is either half a copy or a verified newer executable.
NewFileGood ==
    newFile # NoFile /\ newFile.whole =>
        newFile.intact /\ IsHigherVersion(newFile.ver, binary.ver)

\* The update goroutine works on newer releases only, and has verified those it
\* hands over.
WorkGood ==
    /\ upd \in Working => IsHigherVersion(release.ver, binary.ver)
    /\ upd = "verify" => release.file # NoFile /\ release.file.whole
    /\ upd \in {"staged", "send"} => Good(release)

ReadyGood == ready # <<>> => Good(Head(ready))

\* The release that main took is verified until it is promoted or discarded.
TakenGood ==
    /\ main \in {"select", "cancel", "decide"} /\ restartRelease # NoRelease
           => Good(restartRelease)
    /\ main \in {"promote", "copy"} => Good(restartRelease)
    /\ main \in {"promoted", "exit 57"} =>
           newFile # NoFile /\ newFile.whole /\ restartRelease.file = NoFile
    /\ main = "exit 0" => restartRelease.file = NoFile

\* Before the context is done nothing was passed over; from then on no download
\* begins, so that files only move from one place to the next.
Underway == IF upd \in Working THEN 1 ELSE 0
FilesBounded ==
    /\ main \notin {"select", "cancel", "crashed"} => cancelled
    /\ ~cancelled => passedOver = 0 /\ (main = "select" => restartRelease = NoRelease)
    /\ cancelled => passedOver + Len(ready) + Underway <= 2

Inv ==
    /\ TypeOK
    /\ OnlyVerifiedInstalled
    /\ NewFileGood
    /\ WorkGood
    /\ ReadyGood
    /\ TakenGood
    /\ FilesBounded

\* The invariant holds initially.
LEMMA InitInv == Init => Inv
  <1> SUFFICES ASSUME Init PROVE Inv
    OBVIOUS
  <1>1. TypeOK
    <2>1. binary \in File
      BY DEF Init, File
    <2>2. /\ release \in Release /\ restartRelease \in Release
          /\ ready \in {<<>>} \cup {<<r>> : r \in Release}
      BY DEF Init, NoRelease, Release
    <2>3. signals \in 0 .. MaxSignals /\ crashes \in 0 .. MaxCrashes
      BY SelfUpdateAssumption DEF Init
    <2> QED
      BY <2>1, <2>2, <2>3 DEF Init, TypeOK, Ended
  <1>2. OnlyVerifiedInstalled
    BY DEF Init, OnlyVerifiedInstalled
  <1>3. NewFileGood /\ WorkGood /\ ReadyGood /\ TakenGood
    BY DEF Init, NewFileGood, WorkGood, ReadyGood, TakenGood, Working
  <1>4. FilesBounded
    BY DEF Init, FilesBounded, Underway, Working
  <1> QED
    BY <1>1, <1>2, <1>3, <1>4 DEF Inv

\* Every step keeps the types.
LEMMA TypeStep ==
    ASSUME TypeOK, TakenGood, [Next]_vars
    PROVE  TypeOK'
  <1> USE SelfUpdateAssumption DEF TypeOK, disk, history
  <1>1. CASE Check
    BY <1>1 DEF Check, UpdGoto, File, Release
  <1>2. CASE Download
    <2>1. PICK ok \in BOOLEAN :
              release' = [release EXCEPT !.file =
                              [ver |-> offered, intact |-> ok, whole |-> TRUE]]
      BY <1>2 DEF Download
    <2>2. [ver |-> offered, intact |-> ok, whole |-> TRUE] \in File
      BY DEF File
    <2>3. release' \in Release
      BY <2>1, <2>2 DEF Release
    <2> QED
      BY <1>2, <2>3 DEF Download, UpdGoto
  <1>3. CASE DownloadFailed
    BY <1>3 DEF DownloadFailed, UpdGoto, NoRelease, Release
  <1>4. CASE Verified
    BY <1>4 DEF Verified, UpdGoto
  <1>5. CASE Rejected
    BY <1>5 DEF Rejected, UpdGoto, NoRelease, Release
  <1>6. CASE StagedTooLate
    BY <1>6 DEF StagedTooLate, UpdGoto, NoRelease, Release
  <1>7. CASE StagedInTime
    BY <1>7 DEF StagedInTime, UpdGoto
  <1>8. CASE Send
    BY <1>8 DEF Send, UpdGoto, NoRelease, Release
  <1>9. CASE UpdExit
    BY <1>9 DEF UpdExit, UpdGoto
  <1>10. CASE MainSignal
    BY <1>10 DEF MainSignal, updating, MainGoto
  <1>11. CASE MainRelease
    BY <1>11 DEF MainRelease, updating, MainGoto
  <1>12. CASE MainCancel
    BY <1>12 DEF MainCancel, updating, MainGoto
  <1>13. CASE MainStopped
    BY <1>13 DEF MainStopped, updating, MainGoto
  <1>14. CASE Decide
    BY <1>14 DEF Decide, updating, MainGoto, Ended
  <1>15. CASE Discard
    <2>1. restartRelease' \in Release
      BY <1>15 DEF Discard, Release
    <2> QED
      BY <1>15, <2>1 DEF Discard, updating, MainGoto, Ended
  <1>16. CASE Rename
    BY <1>16 DEF Rename, updating, MainGoto, File, Release
  <1>17. CASE CopyStart
    <2>1. newFile' \in File \cup {NoFile}
      <3>1. restartRelease.file \in File
        BY <1>17 DEF CopyStart, MainGoto, TakenGood, Good, Release
      <3> QED
        BY <1>17, <3>1 DEF CopyStart, File
    <2> QED
      BY <1>17, <2>1 DEF CopyStart, updating, MainGoto
  <1>18. CASE CopyDone
    BY <1>18 DEF CopyDone, updating, MainGoto, File, Release
  <1>19. CASE CopyFailed
    BY <1>19 DEF CopyFailed, updating, MainGoto
  <1>20. CASE PromoteFailed
    BY <1>20 DEF PromoteFailed, updating, MainGoto
  <1>21. CASE ExitForRestart
    BY <1>21 DEF ExitForRestart, updating, MainGoto, Ended
  <1>22. CASE Publish
    BY <1>22 DEF Publish, updating
  <1>23. CASE Signal
    BY <1>23 DEF Signal, updating
  <1>24. CASE Crash
    <2>1. crashes' \in 0 .. MaxCrashes
      BY <1>24 DEF Crash
    <2> QED
      BY <1>24, <2>1 DEF Crash, updating, Ended
  <1>25. CASE Start
    BY <1>25 DEF Start, NoRelease, Release
  <1>26. CASE UNCHANGED vars
    BY <1>26 DEF vars
  <1> QED
    BY <1>1, <1>2, <1>3, <1>4, <1>5, <1>6, <1>7, <1>8, <1>9, <1>10, <1>11, <1>12,
       <1>13, <1>14, <1>15, <1>16, <1>17, <1>18, <1>19, <1>20, <1>21, <1>22,
       <1>23, <1>24, <1>25, <1>26
    DEF Next, UpdateStep, MainStep

\* Files only become what they are by being verified, and what has been verified
\* stays so while a binary is installed.
LEMMA GoodStep ==
    ASSUME Inv, UpdateStep \/ MainStep \/ Publish \/ Signal \/ Crash
    PROVE  (NewFileGood /\ WorkGood /\ ReadyGood /\ TakenGood)'
  <1> USE DEF Inv, TypeOK, disk, history, updating
  <1>1. binary' = binary
    BY DEF UpdateStep, MainStep, Publish, Signal, Crash, Check, Download,
       DownloadFailed, Verified, Rejected, StagedTooLate, StagedInTime, Send,
       UpdExit, MainSignal, MainRelease, MainCancel, MainStopped, Decide,
       Discard, Rename, CopyStart, CopyDone, CopyFailed, PromoteFailed,
       ExitForRestart
  <1>2. CASE Check
    BY <1>2, <1>1 DEF Check, UpdGoto, Working, NewFileGood, WorkGood, ReadyGood,
       TakenGood, Good, Running, Ended
  <1>3. CASE Download
    <2>1. PICK ok \in BOOLEAN :
              release' = [release EXCEPT !.file =
                              [ver |-> offered, intact |-> ok, whole |-> TRUE]]
      BY <1>3 DEF Download
    <2>2. [ver |-> offered, intact |-> ok, whole |-> TRUE] # NoFile
      <3>1. [ver |-> offered, intact |-> ok, whole |-> TRUE] \in File
        BY DEF File
      <3> QED
        BY <3>1, SelfUpdateAssumption
    <2>3. release'.ver = release.ver /\ release'.file # NoFile /\ release'.file.whole
      <3>1. /\ release'.ver = release.ver
            /\ release'.file = [ver |-> offered, intact |-> ok, whole |-> TRUE]
        BY <2>1 DEF Release
      <3> QED
        BY <2>2, <3>1
    <2> QED
      BY <1>3, <1>1, <2>3 DEF Download, UpdGoto, Working, NewFileGood, WorkGood,
         ReadyGood, TakenGood, Good
  <1>4. CASE DownloadFailed
    BY <1>4, <1>1 DEF DownloadFailed, UpdGoto, Working, NewFileGood, WorkGood,
       ReadyGood, TakenGood, Good, Running, Ended
  <1>5. CASE Verified
    BY <1>5, <1>1 DEF Verified, UpdGoto, Working, NewFileGood, WorkGood,
       ReadyGood, TakenGood, Good, Running, Ended
  <1>6. CASE Rejected
    BY <1>6, <1>1 DEF Rejected, UpdGoto, Working, NewFileGood, WorkGood,
       ReadyGood, TakenGood, Good, Running, Ended
  <1>7. CASE StagedTooLate
    BY <1>7, <1>1 DEF StagedTooLate, UpdGoto, Working, NewFileGood, WorkGood,
       ReadyGood, TakenGood, Good, Running, Ended
  <1>8. CASE StagedInTime
    BY <1>8, <1>1 DEF StagedInTime, UpdGoto, Working, NewFileGood, WorkGood,
       ReadyGood, TakenGood, Good, Running, Ended
  <1>9. CASE Send
    <2>1. ready' # <<>> => Good(Head(ready'))
      <3>1. CASE ready = <<>>
        <4>1. Head(ready') = release
          BY <1>9, <3>1 DEF Send
        <4> QED
          BY <1>9, <4>1 DEF Send, UpdGoto, WorkGood
      <3>2. CASE ready # <<>>
        BY <1>9, <3>2 DEF Send, ReadyGood
      <3> QED
        BY <3>1, <3>2
    <2> QED
      BY <1>9, <1>1, <2>1 DEF Send, UpdGoto, Working, NewFileGood, WorkGood,
         ReadyGood, TakenGood, Good
  <1>10. CASE UpdExit
    BY <1>10, <1>1 DEF UpdExit, UpdGoto, Working, NewFileGood, WorkGood,
       ReadyGood, TakenGood, Good, Running, Ended
  <1>11. CASE MainSignal
    BY <1>11, <1>1 DEF MainSignal, MainGoto, Working, NewFileGood, WorkGood,
       ReadyGood, TakenGood, Good
  <1>12. CASE MainRelease
    BY <1>12, <1>1 DEF MainRelease, MainGoto, Working, NewFileGood, WorkGood,
       ReadyGood, TakenGood, Good
  <1>13. CASE MainCancel
    BY <1>13, <1>1 DEF MainCancel, MainGoto, Working, NewFileGood, WorkGood,
       ReadyGood, TakenGood, Good
  <1>14. CASE MainStopped
    BY <1>14, <1>1 DEF MainStopped, MainGoto, Working, NewFileGood, WorkGood,
       ReadyGood, TakenGood, Good
  <1>15. CASE Decide
    <2>1. restartRelease = NoRelease => restartRelease.file = NoFile
      BY DEF NoRelease
    <2>2. /\ main = "decide"
          /\ UNCHANGED <<newFile, upd, release, ready, restartRelease>>
          /\ \/ main' = "exit 0" /\ restartRelease = NoRelease
             \/ main' \in {"discard", "promote"} /\ restartRelease # NoRelease
      BY <1>15 DEF Decide, MainGoto
    <2> QED
      BY <1>1, <2>1, <2>2 DEF Working, NewFileGood, WorkGood, ReadyGood,
         TakenGood, Good
  <1>16. CASE Discard
    <2>1. restartRelease'.file = NoFile
      BY <1>16 DEF Discard, Release
    <2> QED
      BY <1>16, <1>1, <2>1 DEF Discard, MainGoto, Working, NewFileGood, WorkGood,
         ReadyGood, TakenGood, Good
  <1>17. CASE Rename
    BY <1>17, <1>1 DEF Rename, MainGoto, Working, NewFileGood, WorkGood,
       ReadyGood, TakenGood, Good
  <1>18. CASE CopyStart
    BY <1>18, <1>1 DEF CopyStart, MainGoto, Working, NewFileGood, WorkGood,
       ReadyGood, TakenGood, Good
  <1>19. CASE CopyDone
    BY <1>19, <1>1 DEF CopyDone, MainGoto, Working, NewFileGood, WorkGood,
       ReadyGood, TakenGood, Good
  <1>20. CASE CopyFailed
    BY <1>20, <1>1 DEF CopyFailed, MainGoto, Working, NewFileGood, WorkGood,
       ReadyGood, TakenGood, Good
  <1>21. CASE PromoteFailed
    BY <1>21, <1>1 DEF PromoteFailed, MainGoto, Working, NewFileGood, WorkGood,
       ReadyGood, TakenGood, Good
  <1>22. CASE ExitForRestart
    BY <1>22, <1>1 DEF ExitForRestart, MainGoto, Working, NewFileGood, WorkGood,
       ReadyGood, TakenGood, Good
  <1>23. CASE Publish
    BY <1>23, <1>1 DEF Publish, Working, NewFileGood, WorkGood, ReadyGood,
       TakenGood, Good, Running, Ended
  <1>24. CASE Signal
    BY <1>24, <1>1 DEF Signal, Working, NewFileGood, WorkGood, ReadyGood,
       TakenGood, Good, Running, Ended
  <1>25. CASE Crash
    BY <1>25, <1>1 DEF Crash, Working, NewFileGood, WorkGood, ReadyGood,
       TakenGood, Good, Running, Ended
  <1> QED
    BY <1>2, <1>3, <1>4, <1>5, <1>6, <1>7, <1>8, <1>9, <1>10, <1>11, <1>12,
       <1>13, <1>14, <1>15, <1>16, <1>17, <1>18, <1>19, <1>20, <1>21, <1>22,
       <1>23, <1>24, <1>25 DEF UpdateStep, MainStep

\* A file that is begun before the context is done is counted where it is, and
\* every step takes it to one next place at most.
LEMMA FilesStep ==
    ASSUME Inv, UpdateStep \/ MainStep \/ Publish \/ Signal \/ Crash
    PROVE  FilesBounded'
  <1>0. \A n \in Nat, k, l, u \in {0, 1} :
            /\ 0 + l + u <= 2
            /\ n + k + 1 <= 2 => n + k <= 2 /\ n + 1 <= 2
    OBVIOUS
  <1> USE DEF Inv, TypeOK, disk, history, updating
  <1>1. /\ Underway \in {0, 1} /\ Underway' \in {0, 1}
        /\ upd' = upd => Underway' = Underway
    BY DEF Underway
  <1>2. Len(ready) \in {0, 1} /\ (Len(ready) = 0 <=> ready = <<>>)
    OBVIOUS
  <1>3. CASE Check
    BY <1>3, <1>1, <1>2 DEF Check, UpdGoto, Working, FilesBounded, Underway,
       Running, Ended
  <1>4. CASE Download
    <2>1. /\ Underway' = Underway
          /\ UNCHANGED <<main, ready, restartRelease, passedOver, cancelled>>
      BY <1>4 DEF Download, UpdGoto, Underway, Working
    <2> QED
      BY <1>1, <1>2, <2>1 DEF FilesBounded
  <1>5. CASE DownloadFailed
    <2>1. Underway' = 0 /\ UNCHANGED <<main, ready, restartRelease, passedOver,
    cancelled>>
      BY <1>5 DEF DownloadFailed, UpdGoto, Underway, Working
    <2> QED
      BY <1>1, <1>2, <2>1 DEF FilesBounded
  <1>6. CASE Verified
    <2>1. /\ Underway' = Underway
          /\ UNCHANGED <<main, ready, restartRelease, passedOver, cancelled>>
      BY <1>6 DEF Verified, UpdGoto, Underway, Working
    <2> QED
      BY <1>1, <1>2, <2>1 DEF FilesBounded
  <1>7. CASE Rejected
    <2>1. Underway' = 0 /\ UNCHANGED <<main, ready, restartRelease, passedOver,
    cancelled>>
      BY <1>7 DEF Rejected, UpdGoto, Underway, Working
    <2> QED
      BY <1>1, <1>2, <2>1 DEF FilesBounded
  <1>8. CASE StagedTooLate
    <2>1. Underway' = 0 /\ UNCHANGED <<main, ready, restartRelease, passedOver,
    cancelled>>
      BY <1>8 DEF StagedTooLate, UpdGoto, Underway, Working
    <2> QED
      BY <1>1, <1>2, <2>1 DEF FilesBounded
  <1>9. CASE StagedInTime
    <2>1. /\ Underway' = Underway
          /\ UNCHANGED <<main, ready, restartRelease, passedOver, cancelled>>
      BY <1>9 DEF StagedInTime, UpdGoto, Underway, Working
    <2> QED
      BY <1>1, <1>2, <2>1 DEF FilesBounded
  <1>10. CASE Send
    <2>1. /\ Underway = 1 /\ Underway' = 0
          /\ UNCHANGED <<main, restartRelease, passedOver, cancelled>>
      BY <1>10 DEF Send, UpdGoto, Underway, Working
    <2>2. Len(ready') \in {Len(ready), 1}
      BY <1>10 DEF Send
    <2>3. cancelled => passedOver + Len(ready') <= 2
      <3>1. cancelled => passedOver + Len(ready) + 1 <= 2
        BY <2>1 DEF FilesBounded
      <3>2. Len(ready') = Len(ready) \/ Len(ready') = 1
        BY <2>2
      <3> QED
        BY <1>0, <1>2, <3>1, <3>2
    <2>4. cancelled => passedOver' + Len(ready') + Underway' <= 2
      BY <1>2, <2>1, <2>2, <2>3
    <2> QED
      BY <2>1, <2>4 DEF FilesBounded
  <1>11. CASE UpdExit
    <2>1. /\ Underway' = Underway
          /\ UNCHANGED <<main, ready, restartRelease, passedOver, cancelled>>
      BY <1>11 DEF UpdExit, UpdGoto, Underway, Working
    <2> QED
      BY <1>1, <1>2, <2>1 DEF FilesBounded
  <1>12. CASE MainSignal
    <2>1. /\ Underway' = Underway /\ cancelled' /\ main' = "select"
          /\ UNCHANGED <<main, ready, restartRelease, passedOver>>
      BY <1>1, <1>12 DEF MainSignal, MainGoto
    <2>2. Underway' \in {0, 1} /\ Len(ready') \in {0, 1}
      BY <1>1, <1>2, <2>1
    <2>3. passedOver' + Len(ready') + Underway' <= 2
      <3>1. CASE cancelled
        BY <1>1, <1>2, <2>1, <3>1 DEF FilesBounded
      <3>2. CASE ~cancelled
        <4>1. passedOver' = 0
          BY <2>1, <3>2 DEF FilesBounded
        <4> QED
          BY <1>0, <2>2, <4>1
      <3> QED
        BY <3>1, <3>2
    <2> QED
      BY <2>1, <2>3 DEF FilesBounded
  <1>13. CASE MainRelease
    <2>1. /\ Underway' = Underway /\ UNCHANGED cancelled /\ main = "select"
          /\ Len(ready) = 1 /\ Len(ready') = 0
      BY <1>1, <1>2, <1>13 DEF MainRelease
    <2>2. CASE restartRelease = NoRelease
      <3>1. main' = "cancel" /\ UNCHANGED passedOver
        BY <1>13, <2>2 DEF MainRelease
      <3> QED
        BY <1>1, <2>1, <3>1 DEF FilesBounded
    <2>3. CASE restartRelease # NoRelease
      <3>1. cancelled /\ passedOver' = passedOver + 1 /\ UNCHANGED <<restartRelease, main>>
        BY <1>13, <2>3 DEF MainRelease, FilesBounded
      <3> QED
        BY <1>1, <2>1, <3>1 DEF FilesBounded
    <2> QED
      BY <2>2, <2>3
  <1>14. CASE MainCancel
    <2>1. /\ Underway' = Underway /\ cancelled' /\ main' = "select"
          /\ UNCHANGED <<ready, restartRelease, passedOver>>
      BY <1>1, <1>14 DEF MainCancel, MainGoto
    <2>2. Underway' \in {0, 1} /\ Len(ready') \in {0, 1}
      BY <1>1, <1>2, <2>1
    <2>3. passedOver' + Len(ready') + Underway' <= 2
      <3>1. CASE cancelled
        BY <1>1, <1>2, <2>1, <3>1 DEF FilesBounded
      <3>2. CASE ~cancelled
        <4>1. passedOver' = 0
          BY <2>1, <3>2 DEF FilesBounded
        <4> QED
          BY <1>0, <2>2, <4>1
      <3> QED
        BY <3>1, <3>2
    <2> QED
      BY <2>1, <2>3 DEF FilesBounded
  <1>15. CASE MainStopped
    BY <1>15, <1>1, <1>2 DEF MainStopped, MainGoto, FilesBounded
  <1>16. CASE Decide
    BY <1>16, <1>1, <1>2 DEF Decide, MainGoto, FilesBounded
  <1>17. CASE Discard
    BY <1>17, <1>1, <1>2 DEF Discard, MainGoto, FilesBounded
  <1>18. CASE Rename
    BY <1>18, <1>1, <1>2 DEF Rename, MainGoto, FilesBounded
  <1>19. CASE CopyStart
    BY <1>19, <1>1, <1>2 DEF CopyStart, MainGoto, FilesBounded
  <1>20. CASE CopyDone
    BY <1>20, <1>1, <1>2 DEF CopyDone, MainGoto, FilesBounded
  <1>21. CASE CopyFailed
    BY <1>21, <1>1, <1>2 DEF CopyFailed, MainGoto, FilesBounded
  <1>22. CASE PromoteFailed
    BY <1>22, <1>1, <1>2 DEF PromoteFailed, MainGoto, FilesBounded
  <1>23. CASE ExitForRestart
    BY <1>23, <1>1, <1>2 DEF ExitForRestart, MainGoto, FilesBounded
  <1>24. CASE Publish
    BY <1>24, <1>1, <1>2 DEF Publish, FilesBounded, Running, Ended
  <1>25. CASE Signal
    BY <1>25, <1>1, <1>2 DEF Signal, FilesBounded, Running, Ended
  <1>26. CASE Crash
    BY <1>26, <1>1, <1>2 DEF Crash, FilesBounded, Running, Ended
  <1> QED
    BY <1>3, <1>4, <1>5, <1>6, <1>7, <1>8, <1>9, <1>10, <1>11, <1>12, <1>13,
       <1>14, <1>15, <1>16, <1>17, <1>18, <1>19, <1>20, <1>21, <1>22, <1>23,
       <1>24, <1>25, <1>26 DEF UpdateStep, MainStep

\* A new process starts from files alone; what it swaps in has been verified.
LEMMA StartStep ==
    ASSUME Inv, Start
    PROVE  /\ (OnlyVerifiedInstalled /\ NewFileGood /\ WorkGood /\ ReadyGood)'
           /\ (TakenGood /\ FilesBounded)'
  <1>1. OnlyVerifiedInstalled'
    BY DEF Inv, Start, OnlyVerifiedInstalled, NewFileGood
  <1>2. (NewFileGood /\ WorkGood /\ ReadyGood /\ TakenGood)'
    BY DEF Start, NewFileGood, WorkGood, ReadyGood, TakenGood, Working
  <1>3. FilesBounded'
    <2>1. Underway' = 0 /\ Len(ready') = 0
      BY DEF Start, Underway, Working
    <2> QED
      BY <2>1 DEF Start, FilesBounded
  <1> QED
    BY <1>1, <1>2, <1>3

\* The invariant is inductive.
LEMMA StepInv == Inv /\ [Next]_vars => Inv'
  <1> SUFFICES ASSUME Inv, [Next]_vars PROVE Inv'
    OBVIOUS
  <1>1. TypeOK'
    BY TypeStep DEF Inv
  <1>2. CASE UpdateStep \/ MainStep \/ Publish \/ Signal \/ Crash
    <2>1. binary' = binary
      BY <1>2 DEF UpdateStep, MainStep, Publish, Signal, Crash, disk, Check,
         Download, DownloadFailed, Verified, Rejected, StagedTooLate,
         StagedInTime, Send, UpdExit, MainSignal, MainRelease, MainCancel,
         MainStopped, Decide, Discard, Rename, CopyStart, CopyDone, CopyFailed,
         PromoteFailed, ExitForRestart
    <2>2. OnlyVerifiedInstalled'
      BY <2>1 DEF Inv, OnlyVerifiedInstalled
    <2> QED
      BY <1>1, <1>2, <2>2, GoodStep, FilesStep DEF Inv
  <1>3. CASE Start
    BY <1>1, <1>3, StartStep DEF Inv
  <1>4. CASE UNCHANGED vars
    <2>1. (OnlyVerifiedInstalled /\ NewFileGood /\ ReadyGood)'
      BY <1>4 DEF vars, Inv, OnlyVerifiedInstalled, NewFileGood, ReadyGood, Good
    <2>2. WorkGood'
      BY <1>4 DEF vars, Inv, WorkGood, Good
    <2>3. TakenGood'
      BY <1>4 DEF vars, Inv, TakenGood, Good
    <2>4. FilesBounded'
      BY <1>4 DEF vars, Inv, FilesBounded, Underway
    <2> QED
      BY <1>1, <2>1, <2>2, <2>3, <2>4 DEF Inv
  <1> QED
    BY <1>2, <1>3, <1>4 DEF Next

\* Inv is an invariant of the specification.
LEMMA Invariance == Spec => []Inv
  BY InitInv, StepInv, PTL DEF Spec

-----------------------------------------------------------------------------
(* Theorems                                                                 *)

\* Every variable has its type and updateReadyCh holds one release
\* (main.go:220, 431-435).
THEOREM TypeCorrect == Spec => []TypeOK
  BY Invariance, PTL DEF Inv

\* What is installed has passed the digest and is whole, after any number of
\* crashes and changes of what the gateway serves (manager.go:191-199, 216-264).
THEOREM InstalledIsVerified == Spec => []OnlyVerifiedInstalled
  BY Invariance, PTL DEF Inv

\* An exit for a restart has a whole, newer executable in place
\* (main.go:267-274).
THEOREM RestartIsWorthIt == Spec => []RestartHasNewBinary
  <1>1. Inv => RestartHasNewBinary
    BY DEF Inv, TakenGood, NewFileGood, RestartHasNewBinary
  <1> QED
    BY <1>1, Invariance, PTL

\* The staged file of the release that main took is gone when main ends, and at
\* most two others outlive a process, however many it downloaded
\* (main.go:267-277, 284-286, 427-435).
THEOREM FilesStayFew == Spec => []FewFilesLeft
  <1>1. Inv => FewFilesLeft
    BY DEF Inv, TakenGood, FilesBounded, Underway, FewFilesLeft
  <1> QED
    BY <1>1, Invariance, PTL

\* No executable is replaced by one that is not higher (manager.go:79-85).
THEOREM VersionsClimb == Spec => NeverDowngraded
  <1>1. Inv /\ [Next]_vars =>
            [binary'.ver = binary.ver \/ IsHigherVersion(binary'.ver, binary.ver)]_vars
    <2> SUFFICES ASSUME Inv, Next
                 PROVE  binary'.ver = binary.ver \/ IsHigherVersion(binary'.ver, binary.ver)
      OBVIOUS
    <2>1. CASE Start
      BY <2>1 DEF Start, Inv, NewFileGood
    <2>2. CASE UpdateStep \/ MainStep \/ Publish \/ Signal \/ Crash
      BY <2>2 DEF UpdateStep, MainStep, Publish, Signal, Crash, disk, Decide,
         Check, Download, DownloadFailed, Verified, Rejected, StagedTooLate,
         StagedInTime, Send, UpdExit, MainSignal, MainRelease, MainCancel,
         MainStopped, Discard, Rename, CopyStart, CopyDone, CopyFailed,
         PromoteFailed, ExitForRestart
    <2> QED
      BY <2>1, <2>2 DEF Next
  <1> QED
    BY <1>1, Invariance, PTL DEF Spec, NeverDowngraded

\* The installed executable is of a higher version than v.
Above(v) == IsHigherVersion(binary.ver, v)

\* Once a higher version than v is installed, no later executable is v or below
\* it, through any number of updates, crashes and changes of what the gateway
\* announces (manager.go:79-85, 216-264, 386-405).
THEOREM NeverBack ==
    ASSUME NEW v \in Versions
    PROVE  Spec => [](Above(v) => [](/\ Above(v)
                                       /\ binary.ver # v
                                       /\ ~IsHigherVersion(v, binary.ver)))
  <1> DEFINE Step == binary'.ver = binary.ver \/ IsHigherVersion(binary'.ver, binary.ver)
  <1>1. \A u \in Versions : u.segments \in Seq(Int)
    BY SelfUpdateAssumption
  <1>2. TypeOK => binary.ver \in Versions
    BY DEF TypeOK, File
  <1>3. TypeOK /\ TypeOK' /\ Above(v) /\ [Step]_vars => Above(v)'
    <2> SUFFICES ASSUME TypeOK, TypeOK', Above(v), [Step]_vars
                 PROVE  IsHigherVersion(binary'.ver, v)
      BY DEF Above
    <2>1. binary.ver \in Versions /\ binary'.ver \in Versions
      BY DEF TypeOK, File
    <2>2. binary'.ver = binary.ver \/ IsHigherVersion(binary'.ver, binary.ver)
      BY DEF vars
    <2> QED
      BY <1>1, <2>1, <2>2, HigherTransitive DEF Above
  <1>4. TypeOK /\ Above(v) => binary.ver # v /\ ~IsHigherVersion(v, binary.ver)
    BY <1>1, <1>2, HigherIrreflexive, HigherTransitive DEF Above
  <1>5. Spec => [][Step]_vars
    BY VersionsClimb DEF NeverDowngraded
  <1> HIDE DEF Step
  <1> QED
    BY <1>3, <1>4, <1>5, TypeCorrect, PTL

\* A signal that was sent to a process is not forgotten: it waits in signalCh, or
\* main knows why it shuts down.
Remembered == told => signalCh \/ external

LEMMA RememberedStep == Remembered /\ [Next]_vars => Remembered'
  <1> SUFFICES ASSUME Remembered, [Next]_vars PROVE Remembered'
    OBVIOUS
  <1>1. CASE UNCHANGED <<told, signalCh, external>>
    BY <1>1 DEF Remembered
  <1>2. CASE MainSignal \/ Decide
    BY <1>2 DEF MainSignal, Decide, Remembered, history
  <1>3. CASE Signal \/ Start
    BY <1>3 DEF Signal, Start, Remembered
  <1>4. UNCHANGED <<told, signalCh, external>> \/ MainSignal \/ Decide \/ Signal \/ Start
    BY DEF Next, UpdateStep, MainStep, Publish, Crash, Check, Download, DownloadFailed,
       Verified, Rejected, StagedTooLate, StagedInTime, Send, UpdExit, MainRelease,
       MainCancel, MainStopped, Discard, Rename, CopyStart, CopyDone, CopyFailed,
       PromoteFailed, ExitForRestart, history, vars
  <1> QED
    BY <1>1, <1>2, <1>3, <1>4

\* A process that was sent a signal begins no promotion, whether the signal came
\* before the release, with it, or while the queue was flushed
\* (main.go:237-240, 258-266).
THEOREM ShutdownHasPriority == Spec => ShutdownWins
  <1>1. Init => Remembered
    BY DEF Init, Remembered
  <1>2. Remembered /\ [Next]_vars =>
            [main \notin Promoting /\ main' \in Promoting => ~told]_vars
    <2> SUFFICES ASSUME Remembered, Next, main \notin Promoting, main' \in Promoting
                 PROVE  ~told
      OBVIOUS
    <2>1. Decide
      BY DEF Next, UpdateStep, MainStep, Publish, Signal, Crash, Start, Check, Download,
         DownloadFailed, Verified, Rejected, StagedTooLate, StagedInTime, Send, UpdExit,
         MainSignal, MainRelease, MainCancel, MainStopped, Discard, Rename, CopyStart,
         CopyDone, CopyFailed, PromoteFailed, ExitForRestart, MainGoto, Promoting
    <2>2. ~(external \/ signalCh)
      BY <2>1 DEF Decide, MainGoto, Promoting
    <2> QED
      BY <2>2 DEF Remembered
  <1> QED
    BY <1>1, <1>2, RememberedStep, PTL DEF Spec, ShutdownWins

\* All samples are sequences of at most three integers.
LEMMA SamplesShort ==
    ASSUME NEW v \in OrderSamples
    PROVE  v.segments \in Seq(Int) /\ Len(v.segments) <= 3
  <1> DEFINE Cores == {<<>>, <<0>>, <<1>>, <<1, 9, 1>>, <<1, 10, 0>>, <<2, 0>>,
                       <<2, 0, 1>>, <<0, 99>>, <<1, NotANumber>>,
                       <<1, MaxInt + 1>>, <<NotANumber, 3>>}
  <1>1. MaxInt + 1 \in Int /\ NotANumber \in Int
    BY VersionOrderAssumption DEF NotANumber
  <1>2. \A s \in Cores \cup {<<1, 9>>, <<1, 10>>, <<2>>, <<NotANumber>>} :
            s \in Seq(Int) /\ Len(s) <= 3
    <2> DEFINE Ones == {<<0>>, <<1>>, <<2>>, <<NotANumber>>}
               Twos == {<<2, 0>>, <<0, 99>>, <<1, 9>>, <<1, 10>>, <<1, NotANumber>>,
                        <<1, MaxInt + 1>>, <<NotANumber, 3>>}
               Threes == {<<1, 9, 1>>, <<1, 10, 0>>, <<2, 0, 1>>}
    <2>1. /\ \A s \in Ones : \E a \in Int : s = <<a>>
          /\ \A s \in Twos : \E a, b \in Int : s = <<a, b>>
          /\ \A s \in Threes : \E a, b, c \in Int : s = <<a, b, c>>
      BY <1>1
    <2>2. Cores \cup {<<1, 9>>, <<1, 10>>, <<2>>, <<NotANumber>>}
              \subseteq {<<>>} \cup Ones \cup Twos \cup Threes
      OBVIOUS
    <2> HIDE DEF Cores, Ones, Twos, Threes
    <2>3. \A s \in {<<>>} \cup Ones \cup Twos \cup Threes : s \in Seq(Int) /\ Len(s) <= 3
      <3> SUFFICES ASSUME NEW s \in {<<>>} \cup Ones \cup Twos \cup Threes
                   PROVE  s \in Seq(Int) /\ Len(s) <= 3
        OBVIOUS
      <3>1. CASE s = <<>>
        BY <3>1
      <3>2. CASE s \in Ones
        <4>1. PICK a \in Int : s = <<a>>
          BY <2>1, <3>2
        <4> QED
          BY <4>1
      <3>3. CASE s \in Twos
        <4>1. PICK a \in Int, b \in Int : s = <<a, b>>
          BY <2>1, <3>3
        <4> QED
          BY <4>1
      <3>4. CASE s \in Threes
        <4>1. PICK a \in Int, b \in Int, c \in Int : s = <<a, b, c>>
          BY <2>1, <3>4
        <4> QED
          BY <4>1
      <3> QED
        BY <3>1, <3>2, <3>3, <3>4
    <2> QED
      BY <2>2, <2>3, Zenon
  <1>3. ASSUME v \in MCVersions
        PROVE  v.segments \in {<<1, 9>>, <<1, 10>>, <<2>>, <<NotANumber>>}
    <2>1. \A s, t : Version(s, t).segments = s
      BY DEF Version
    <2> QED
      BY <1>3, <2>1 DEF MCVersions
  <1>4. ASSUME v \in {Version(s, "") : s \in Cores} PROVE v.segments \in Cores
    <2>1. PICK s \in Cores : v = Version(s, "")
      BY <1>4
    <2> HIDE DEF Cores
    <2> QED
      BY <2>1 DEF Version
  <1>5. v \in MCVersions \/ v \in {Version(s, "") : s \in Cores}
    BY DEF OrderSamples
  <1> HIDE DEF Cores
  <1> QED
    BY <1>2, <1>3, <1>4, <1>5, Zenon

\* Whatever of at most three segments the gateway announces, the agent orders it
\* against each sample as a number (manager.go:374-406).
THEOREM OrderNumeric ==
    ASSUME \A v \in Versions : Len(v.segments) <= 3
    PROVE  Spec => []OrderIsNumeric
  <1>1. TypeOK => OrderIsNumeric
    <2> SUFFICES ASSUME TypeOK, NEW v \in OrderSamples
                 PROVE  IsHigherVersion(offered, v) <=>
                            Parses(offered) /\ Parses(v) /\ Weight(offered) > Weight(v)
      BY DEF OrderIsNumeric
    <2>1. offered.segments \in Seq(Int) /\ Len(offered.segments) <= 3
      BY SelfUpdateAssumption DEF TypeOK
    <2> QED
      BY <2>1, SamplesShort, HigherIsNumeric
  <1> QED
    BY <1>1, TypeCorrect, PTL
=============================================================================
