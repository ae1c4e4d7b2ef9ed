--------------------------- MODULE SequenceLemmas ---------------------------
(***************************************************************************)
(* Least elements, counting, and sequences as sets of their elements: what *)
(* the proofs about queues and buffers use of sets and sequences.          *)
(***************************************************************************)
EXTENDS Integers, SequencesExt, FiniteSetTheorems, SequenceTheorems,
        WellFoundedInduction, TLAPS

\* A set of numbers has a least one.
LEMMA LeastElement ==
  ASSUME NEW S, S \subseteq Nat, S # {}
  PROVE  \E x \in S : \A y \in S : x <= y
  <1> DEFINE R == OpToRel(<, Nat)
  <1>1. IsWellFoundedOn(R, Nat)
    BY NatLessThanWellFounded
  <1>2. \E x \in S : \A y \in S : <<y, x>> \notin R
    <2> HIDE DEF R
    <2> QED
      BY <1>1, WFMin
  <1>3. PICK x \in S : \A y \in S : <<y, x>> \notin R
    BY <1>2
  <1>4. ASSUME NEW y \in S PROVE x <= y
    <2>1. x \in Nat /\ y \in Nat /\ <<y, x>> \notin R
      BY <1>3
    <2>2. ~(y < x)
      BY <2>1 DEF OpToRel
    <2> HIDE DEF R
    <2>3. x \in Nat /\ y \in Nat
      BY <2>1
    <2>4. QED
      BY <2>2, <2>3
  <1>5. QED
    BY <1>4

LEMMA LeastNat ==
  ASSUME NEW S, S \subseteq Nat, S # {}
  PROVE  Min(S) \in S /\ \A y \in S : Min(S) <= y
  BY LeastElement DEF Min

LEMMA MinOfTwo ==
  ASSUME NEW a \in Int, NEW b \in Int
  PROVE  Min({a, b}) = IF a <= b THEN a ELSE b
  BY DEF Min

LEMMA MaxOfTwo ==
  ASSUME NEW a \in Int, NEW b \in Int
  PROVE  Max({a, b}) = IF a >= b THEN a ELSE b
  BY DEF Max

-----------------------------------------------------------------------------
(***************************************************************************)
(* Counting.                                                               *)
(***************************************************************************)
LEMMA CountSplit ==
  ASSUME NEW S, IsFiniteSet(S), NEW T, T \subseteq S
  PROVE  /\ IsFiniteSet(T) /\ IsFiniteSet(S \ T)
         /\ Cardinality(S) \in Nat /\ Cardinality(T) \in Nat /\ Cardinality(S \ T) \in Nat
         /\ Cardinality(S) = Cardinality(T) + Cardinality(S \ T)
  <1>1. S \cap T = T
    OBVIOUS
  <1>2. IsFiniteSet(T) /\ IsFiniteSet(S \ T)
    BY FS_Subset, FS_Difference
  <1>3. Cardinality(S \ T) = Cardinality(S) - Cardinality(T)
    BY <1>1, FS_Difference
  <1>4. Cardinality(S) \in Nat /\ Cardinality(T) \in Nat /\ Cardinality(S \ T) \in Nat
    BY <1>2, FS_CardinalityType
  <1>5. QED
    BY <1>2, <1>3, <1>4

LEMMA CountUnion ==
  ASSUME NEW S, IsFiniteSet(S), NEW T, IsFiniteSet(T), S \cap T = {}
  PROVE  /\ IsFiniteSet(S \cup T)
         /\ Cardinality(S) \in Nat /\ Cardinality(T) \in Nat
         /\ Cardinality(S \cup T) = Cardinality(S) + Cardinality(T)
  <1>1. /\ IsFiniteSet(S \cup T)
        /\ Cardinality(S \cup T) = Cardinality(S) + Cardinality(T) - Cardinality(S \cap T)
    BY FS_Union
  <1>2. Cardinality(S \cap T) = 0
    BY FS_EmptySet
  <1>3. Cardinality(S) \in Nat /\ Cardinality(T) \in Nat
    BY FS_CardinalityType
  <1>4. QED
    BY <1>1, <1>2, <1>3

LEMMA CountImage ==
  ASSUME NEW S, IsFiniteSet(S), NEW F, DOMAIN F = S, F = [x \in S |-> F[x]],
         \A x, y \in S : F[x] = F[y] => x = y
  PROVE  LET T == {F[x] : x \in S}
         IN IsFiniteSet(T) /\ Cardinality(T) = Cardinality(S)
  <1> DEFINE T == {F[x] : x \in S}
  <1>1. F \in Bijection(S, T)
    BY DEF Bijection, Injection, Surjection, IsInjective
  <1>2. ExistsBijection(S, T)
    BY <1>1 DEF ExistsBijection
  <1> HIDE DEF T
  <1>3. IsFiniteSet(T) /\ Cardinality(T) = Cardinality(S)
    BY <1>2, FS_Bijection
  <1>4. QED
    BY <1>3 DEF T

(***************************************************************************)
(* The members of a set of numbers are ranked without gaps.                *)
(***************************************************************************)
LEMMA RankedSet ==
  ASSUME NEW S, S \subseteq Int, IsFiniteSet(S)
  PROVE  LET rank(i) == Cardinality({j \in S : j <= i})
         IN /\ IsFiniteSet(S) /\ Cardinality(S) \in Nat
            /\ \A i \in S : rank(i) \in 1 .. Cardinality(S)
            /\ \A i, k \in S : rank(i) = rank(k) => i = k
            /\ \A m \in 1 .. Cardinality(S) : \E i \in S : rank(i) = m
  <1> DEFINE R(i) == {j \in S : j <= i}
             F    == [i \in S |-> Cardinality(R(i))]
             T    == {F[i] : i \in S}
             N    == Cardinality(S)
  <1>1. IsFiniteSet(S) /\ N \in Nat
    BY FS_CardinalityType
  <1>2. ASSUME NEW i \in S
        PROVE  IsFiniteSet(R(i)) /\ Cardinality(R(i)) \in 1 .. N
    <2>1. R(i) \subseteq S /\ i \in R(i)
      OBVIOUS
    <2> HIDE DEF R
    <2>2. IsFiniteSet(R(i)) /\ Cardinality(R(i)) <= N
      BY <1>1, <2>1, FS_Subset
    <2>3. Cardinality(R(i)) \in Nat /\ Cardinality(R(i)) # 0
      BY <2>1, <2>2, FS_CardinalityType, FS_EmptySet
    <2> HIDE DEF N
    <2>4. QED
      BY <1>1, <2>2, <2>3
  <1>3. ASSUME NEW i \in S, NEW k \in S, Cardinality(R(i)) = Cardinality(R(k))
        PROVE  i = k
    <2>1. ASSUME NEW a \in S, NEW b \in S, a <= b, Cardinality(R(a)) = Cardinality(R(b))
          PROVE  a = b
      <3>1. a \in Int /\ b \in Int /\ b \in R(b) /\ R(a) \subseteq R(b)
        <4>1. a \in Int /\ b \in Int /\ \A j \in S : j \in Int
          OBVIOUS
        <4>2. b <= b /\ \A j \in S : j <= a => j <= b
          BY <2>1, <4>1
        <4>3. QED
          BY <4>1, <4>2
      <3>2. b \in R(a) => b <= a
        OBVIOUS
      <3> HIDE DEF R
      <3>3. R(b) = R(a)
        BY <1>2, <2>1, <3>1, FS_Subset
      <3>4. QED
        BY <2>1, <3>1, <3>2, <3>3
    <2>2. i \in Int /\ k \in Int
      OBVIOUS
    <2> HIDE DEF R
    <2>3. i <= k \/ k <= i
      BY <2>2
    <2>4. QED
      BY <1>3, <2>1, <2>3
  <1>4. T = 1 .. N
    <2>1. \A i \in S : F[i] = Cardinality(R(i))
      OBVIOUS
    <2>2. DOMAIN F = S /\ F = [i \in S |-> F[i]]
      OBVIOUS
    <2> HIDE DEF F, R, N
    <2>3. \A i, k \in S : F[i] = F[k] => i = k
      BY <1>3, <2>1
    <2>4. IsFiniteSet(T) /\ Cardinality(T) = N
      BY <1>1, <2>2, <2>3, CountImage DEF N
    <2>5. T \subseteq 1 .. N
      BY <1>2, <2>1
    <2>6. IsFiniteSet(1 .. N) /\ Cardinality(1 .. N) = N
      BY <1>1, FS_Interval
    <2> HIDE DEF T
    <2>7. QED
      BY <2>4, <2>5, <2>6, FS_Subset
  <1>5. ASSUME NEW m \in 1 .. N PROVE \E i \in S : Cardinality(R(i)) = m
    BY <1>4
  <1>6. QED
    BY <1>1, <1>2, <1>3, <1>5

\* The same for a set of positions.
LEMMA Ranked ==
  ASSUME NEW n \in Nat, NEW S, S \subseteq 1 .. n
  PROVE  LET rank(i) == Cardinality({j \in S : j <= i})
         IN /\ IsFiniteSet(S) /\ Cardinality(S) \in Nat
            /\ \A i \in S : rank(i) \in 1 .. Cardinality(S)
            /\ \A i, k \in S : rank(i) = rank(k) => i = k
            /\ \A m \in 1 .. Cardinality(S) : \E i \in S : rank(i) = m
  <1>1. IsFiniteSet(1 .. n) /\ S \subseteq Int
    BY FS_Interval
  <1>2. IsFiniteSet(S)
    BY <1>1, FS_Subset
  <1>3. QED
    BY <1>1, <1>2, RankedSet

-----------------------------------------------------------------------------
(***************************************************************************)
(* Sequences.                                                              *)
(***************************************************************************)
LEMMA ElementsOfSeq ==
  ASSUME NEW S, NEW s \in Seq(S)
  PROVE  /\ ToSet(s) \subseteq S
         /\ \A e : Contains(s, e) <=> e \in ToSet(s)
         /\ s = <<>> <=> ToSet(s) = {}
         /\ s # <<>> => Head(s) \in ToSet(s) /\ Head(s) = s[1] /\ 1 \in DOMAIN s
  BY EmptySeq, LenProperties, HeadTailProperties DEF ToSet, Contains

LEMMA AppendElements ==
  ASSUME NEW S, NEW s \in Seq(S), NEW e \in S
  PROVE  /\ Append(s, e) \in Seq(S) /\ Append(s, e) # <<>>
         /\ Len(Append(s, e)) = Len(s) + 1
         /\ ToSet(Append(s, e)) = ToSet(s) \cup {e}
         /\ IsInjective(s) /\ e \notin ToSet(s) => IsInjective(Append(s, e))
         /\ s # <<>> => Head(Append(s, e)) = Head(s)
         /\ s = <<>> => Head(Append(s, e)) = e
  <1>1. /\ Append(s, e) \in Seq(S) /\ Append(s, e) # <<>>
        /\ Len(s) \in Nat /\ DOMAIN s = 1 .. Len(s)
        /\ Len(Append(s, e)) = Len(s) + 1
        /\ DOMAIN Append(s, e) = 1 .. Len(s) + 1
        /\ \A i \in 1 .. Len(s) : Append(s, e)[i] = s[i]
        /\ Append(s, e)[Len(s) + 1] = e
    BY AppendProperties, LenProperties
  <1>2. ToSet(Append(s, e)) = ToSet(s) \cup {e}
    <2>1. ASSUME NEW x \in ToSet(Append(s, e)) PROVE x \in ToSet(s) \cup {e}
      BY <1>1, <2>1 DEF ToSet
    <2>2. ASSUME NEW x \in ToSet(s) PROVE x \in ToSet(Append(s, e))
      BY <1>1 DEF ToSet
    <2>3. e \in ToSet(Append(s, e))
      BY <1>1 DEF ToSet
    <2>4. QED
      BY <2>1, <2>2, <2>3
  <1>3. ASSUME IsInjective(s), e \notin ToSet(s) PROVE IsInjective(Append(s, e))
    BY <1>1, <1>3 DEF IsInjective, ToSet
  <1>4. Head(Append(s, e)) = IF s = <<>> THEN e ELSE Head(s)
    BY HeadTailAppend
  <1>5. QED
    BY <1>1, <1>2, <1>3, <1>4

LEMMA ConcatElements ==
  ASSUME NEW S, NEW s \in Seq(S), NEW t \in Seq(S)
  PROVE  /\ s \o t \in Seq(S) /\ Len(s \o t) = Len(s) + Len(t)
         /\ ToSet(s \o t) = ToSet(s) \cup ToSet(t)
         /\ IsInjective(s) /\ IsInjective(t) /\ ToSet(s) \cap ToSet(t) = {}
              => IsInjective(s \o t)
         /\ s # <<>> => s \o t # <<>> /\ Head(s \o t) = Head(s)
  <1>1. /\ s \o t \in Seq(S)
        /\ Len(s) \in Nat /\ DOMAIN s = 1 .. Len(s)
        /\ Len(t) \in Nat /\ DOMAIN t = 1 .. Len(t)
        /\ Len(s \o t) = Len(s) + Len(t)
        /\ DOMAIN (s \o t) = 1 .. Len(s) + Len(t)
        /\ \A i \in 1 .. Len(s) + Len(t) :
             (s \o t)[i] = IF i <= Len(s) THEN s[i] ELSE t[i - Len(s)]
    BY ConcatProperties, LenProperties
  <1>2. ToSet(s \o t) = ToSet(s) \cup ToSet(t)
    <2>1. ASSUME NEW x \in ToSet(s \o t) PROVE x \in ToSet(s) \cup ToSet(t)
      <3>1. PICK i \in 1 .. Len(s) + Len(t) : x = (s \o t)[i]
        BY <1>1 DEF ToSet
      <3>2. CASE i <= Len(s)
        BY <1>1, <3>1, <3>2 DEF ToSet
      <3>3. CASE i > Len(s)
        <4>1. i - Len(s) \in 1 .. Len(t) /\ x = t[i - Len(s)]
          BY <1>1, <3>1, <3>3
        <4>2. QED
          BY <1>1, <4>1 DEF ToSet
      <3>4. QED
        BY <1>1, <3>2, <3>3
    <2>2. ASSUME NEW x \in ToSet(s) PROVE x \in ToSet(s \o t)
      BY <1>1 DEF ToSet
    <2>3. ASSUME NEW x \in ToSet(t) PROVE x \in ToSet(s \o t)
      <3>1. PICK i \in 1 .. Len(t) : x = t[i]
        BY <1>1 DEF ToSet
      <3>2. Len(s) + i \in 1 .. Len(s) + Len(t) /\ (s \o t)[Len(s) + i] = x
        BY <1>1, <3>1
      <3>3. QED
        BY <1>1, <3>2 DEF ToSet
    <2>4. QED
      BY <2>1, <2>2, <2>3
  <1>3. ASSUME IsInjective(s), IsInjective(t), ToSet(s) \cap ToSet(t) = {}
        PROVE  IsInjective(s \o t)
    <2> SUFFICES ASSUME NEW i \in 1 .. Len(s) + Len(t), NEW j \in 1 .. Len(s) + Len(t),
                        (s \o t)[i] = (s \o t)[j]
                 PROVE  i = j
      BY <1>1 DEF IsInjective
    <2>1. CASE i <= Len(s) /\ j <= Len(s)
      BY <1>1, <1>3, <2>1 DEF IsInjective
    <2>2. CASE i > Len(s) /\ j > Len(s)
      <3>1. i - Len(s) \in 1 .. Len(t) /\ j - Len(s) \in 1 .. Len(t)
        BY <1>1, <2>2
      <3>2. t[i - Len(s)] = t[j - Len(s)]
        BY <1>1, <2>2
      <3>3. QED
        BY <1>1, <1>3, <3>1, <3>2 DEF IsInjective
    <2>3. CASE i <= Len(s) /\ j > Len(s)
      <3>1. j - Len(s) \in 1 .. Len(t) /\ s[i] = t[j - Len(s)]
        BY <1>1, <2>3
      <3>2. s[i] \in ToSet(s) /\ s[i] \in ToSet(t)
        BY <1>1, <2>3, <3>1 DEF ToSet
      <3>3. QED
        BY <1>3, <3>2
    <2>4. CASE i > Len(s) /\ j <= Len(s)
      <3>1. i - Len(s) \in 1 .. Len(t) /\ s[j] = t[i - Len(s)]
        BY <1>1, <2>4
      <3>2. s[j] \in ToSet(s) /\ s[j] \in ToSet(t)
        BY <1>1, <2>4, <3>1 DEF ToSet
      <3>3. QED
        BY <1>3, <3>2
    <2>5. QED
      BY <1>1, <2>1, <2>2, <2>3, <2>4
  <1>4. ASSUME s # <<>> PROVE s \o t # <<>> /\ Head(s \o t) = Head(s)
    <2>1. Len(s) > 0 /\ Head(s) = s[1]
      BY <1>1, <1>4, EmptySeq, ElementsOfSeq
    <2>2. s \o t # <<>> /\ Head(s \o t) = (s \o t)[1]
      BY <1>1, <2>1, EmptySeq, ElementsOfSeq
    <2>3. QED
      BY <1>1, <2>1, <2>2
  <1>5. QED
    BY <1>1, <1>2, <1>3, <1>4

LEMMA TailElements ==
  ASSUME NEW S, NEW s \in Seq(S), s # <<>>, IsInjective(s)
  PROVE  /\ Tail(s) \in Seq(S) /\ Len(Tail(s)) = Len(s) - 1
         /\ Head(s) \in ToSet(s)
         /\ ToSet(Tail(s)) = ToSet(s) \ {Head(s)}
         /\ IsInjective(Tail(s))
  <1>1. /\ Tail(s) \in Seq(S) /\ Len(s) \in Nat \ {0} /\ DOMAIN s = 1 .. Len(s)
        /\ Len(Tail(s)) = Len(s) - 1 /\ DOMAIN Tail(s) = 1 .. Len(s) - 1
        /\ \A i \in 1 .. Len(s) - 1 : Tail(s)[i] = s[i + 1]
        /\ Head(s) = s[1]
    BY HeadTailProperties, LenProperties, EmptySeq, ElementsOfSeq
  <1>2. \A x \in ToSet(Tail(s)) : x \in ToSet(s) /\ x # Head(s)
    BY <1>1 DEF ToSet, IsInjective
  <1>3. ASSUME NEW x \in ToSet(s), x # Head(s) PROVE x \in ToSet(Tail(s))
    <2>1. PICK i \in 1 .. Len(s) : x = s[i]
      BY <1>1 DEF ToSet
    <2>2. i - 1 \in 1 .. Len(s) - 1 /\ Tail(s)[i - 1] = x
      BY <1>1, <1>3, <2>1
    <2>3. QED
      BY <1>1, <2>2 DEF ToSet
  <1>4. IsInjective(Tail(s))
    BY <1>1 DEF IsInjective
  <1>5. QED
    BY <1>1, <1>2, <1>3, <1>4, ElementsOfSeq
\* The front of a queue and the rest of it.
LEMMA FrontOfSeq ==
  ASSUME NEW S, NEW s \in Seq(S), NEW n \in 0 .. Len(s)
  PROVE  LET u == SubSeq(s, 1, n)
         IN /\ u \in Seq(S) /\ Len(u) = n /\ DOMAIN u = 1 .. n
            /\ \A i \in 1 .. n : u[i] = s[i]
  <1> DEFINE u == SubSeq(s, 1, n)
  <1>1. Len(s) \in Nat /\ 1 \in Int /\ n \in Int /\ \A i \in 1 .. n : s[i] \in S
    BY LenProperties, ElementOfSeq
  <1>2. /\ u \in Seq(S) /\ Len(u) = IF 1 <= n THEN n - 1 + 1 ELSE 0
        /\ \A i \in 1 .. n - 1 + 1 : u[i] = s[1 + i - 1]
    BY <1>1, SubSeqProperties
  <1> HIDE DEF u
  <1>3. n - 1 + 1 = n /\ \A i \in 1 .. n : 1 + i - 1 = i
    BY <1>1
  <1>4. u \in Seq(S) /\ Len(u) = n /\ \A i \in 1 .. n : u[i] = s[i]
    BY <1>1, <1>2, <1>3
  <1>5. DOMAIN u = 1 .. n
    BY <1>4, LenProperties
  <1>6. QED
    BY <1>4, <1>5 DEF u

LEMMA RestOfSeq ==
  ASSUME NEW S, NEW s \in Seq(S), NEW n \in 0 .. Len(s)
  PROVE  LET v == SubSeq(s, n + 1, Len(s))
         IN /\ v \in Seq(S) /\ Len(v) = Len(s) - n /\ DOMAIN v = 1 .. Len(s) - n
            /\ \A i \in 1 .. Len(s) - n : v[i] = s[n + i]
  <1> DEFINE len == Len(s)
             v   == SubSeq(s, n + 1, len)
  <1>1. len \in Nat /\ n \in 0 .. len /\ n + 1 \in Int
        /\ \A i \in n + 1 .. len : s[i] \in S
    BY LenProperties, ElementOfSeq
  <1> HIDE DEF len
  <1>2. /\ v \in Seq(S) /\ Len(v) = IF n + 1 <= len THEN len - (n + 1) + 1 ELSE 0
        /\ \A i \in 1 .. len - (n + 1) + 1 : v[i] = s[n + 1 + i - 1]
    BY <1>1, SubSeqProperties
  <1> HIDE DEF v
  <1>3. /\ len - (n + 1) + 1 = len - n
        /\ (IF n + 1 <= len THEN len - n ELSE 0) = len - n
        /\ \A i \in 1 .. len - n : n + 1 + i - 1 = n + i
    BY <1>1
  <1>4. Len(v) = len - n
    BY <1>2, <1>3
  <1>5. \A i \in 1 .. len - n : v[i] = s[n + i]
    BY <1>2, <1>3
  <1>6. DOMAIN v = 1 .. len - n
    BY <1>2, <1>4, LenProperties
  <1>7. QED
    BY <1>2, <1>4, <1>5, <1>6 DEF v, len

LEMMA RemoveAtElements ==
  ASSUME NEW S, NEW s \in Seq(S), NEW n \in DOMAIN s
  PROVE  /\ RemoveAt(s, n) \in Seq(S) /\ Len(RemoveAt(s, n)) = Len(s) - 1
         /\ ToSet(RemoveAt(s, n)) \subseteq ToSet(s)
         /\ IsInjective(s) => /\ IsInjective(RemoveAt(s, n))
                             /\ ToSet(RemoveAt(s, n)) = ToSet(s) \ {s[n]}
  <1> DEFINE u == SubSeq(s, 1, n - 1)
             v == SubSeq(s, n + 1, Len(s))
  <1>1. /\ Len(s) \in Nat /\ DOMAIN s = 1 .. Len(s) /\ n \in 1 .. Len(s)
        /\ \A i \in 1 .. Len(s) : s[i] \in S
    BY LenProperties, ElementOfSeq
  <1>2. /\ u \in Seq(S) /\ Len(u) = n - 1 /\ DOMAIN u = 1 .. n - 1
        /\ \A i \in 1 .. n - 1 : u[i] = s[i]
    <2>1. n - 1 \in 0 .. Len(s)
      BY <1>1
    <2>2. QED
      BY <2>1, FrontOfSeq
  <1>3. /\ v \in Seq(S) /\ Len(v) = Len(s) - n /\ DOMAIN v = 1 .. Len(s) - n
        /\ \A i \in 1 .. Len(s) - n : v[i] = s[n + i]
    <2>1. n \in 0 .. Len(s)
      BY <1>1
    <2>2. QED
      BY <2>1, RestOfSeq
  <1>4. RemoveAt(s, n) = u \o v
    BY DEF RemoveAt
  <1> HIDE DEF u, v
  <1>5. /\ u \o v \in Seq(S) /\ Len(u \o v) = Len(s) - 1
        /\ ToSet(u \o v) = ToSet(u) \cup ToSet(v)
        /\ IsInjective(u) /\ IsInjective(v) /\ ToSet(u) \cap ToSet(v) = {}
             => IsInjective(u \o v)
    <2>1. Len(u \o v) = Len(u) + Len(v)
      BY <1>2, <1>3, ConcatElements
    <2>2. Len(u \o v) = Len(s) - 1
      BY <1>1, <1>2, <1>3, <2>1
    <2>3. QED
      BY <1>2, <1>3, <2>2, ConcatElements
  <1>6. ToSet(u) \subseteq ToSet(s) /\ ToSet(v) \subseteq ToSet(s)
    <2>1. ASSUME NEW x \in ToSet(u) PROVE x \in ToSet(s)
      BY <1>1, <1>2 DEF ToSet
    <2>2. ASSUME NEW x \in ToSet(v) PROVE x \in ToSet(s)
      <3>1. PICK i \in 1 .. Len(s) - n : x = s[n + i]
        BY <1>3 DEF ToSet
      <3>2. n + i \in DOMAIN s
        BY <1>1
      <3>3. QED
        BY <3>1, <3>2 DEF ToSet
    <2>3. QED
      BY <2>1, <2>2
  <1>7. ASSUME IsInjective(s)
        PROVE  IsInjective(u \o v) /\ ToSet(u \o v) = ToSet(s) \ {s[n]}
    <2>1. IsInjective(u) /\ IsInjective(v)
      <3>1. IsInjective(u)
        BY <1>1, <1>2, <1>7 DEF IsInjective
      <3>2. ASSUME NEW i \in 1 .. Len(s) - n, NEW j \in 1 .. Len(s) - n, v[i] = v[j]
            PROVE  i = j
        <4>1. n + i \in DOMAIN s /\ n + j \in DOMAIN s /\ s[n + i] = s[n + j]
          BY <1>1, <1>3, <3>2
        <4>2. n + i = n + j
          BY <1>7, <4>1 DEF IsInjective
        <4>3. QED
          BY <1>1, <4>2
      <3>3. QED
        BY <1>3, <3>1, <3>2 DEF IsInjective
    <2>2. ASSUME NEW x \in ToSet(u), x \in ToSet(v) PROVE FALSE
      <3>1. PICK i \in 1 .. n - 1 : x = s[i]
        BY <1>2 DEF ToSet
      <3>2. PICK j \in 1 .. Len(s) - n : x = s[n + j]
        BY <1>3, <2>2 DEF ToSet
      <3>3. i \in DOMAIN s /\ n + j \in DOMAIN s /\ i # n + j
        BY <1>1
      <3>4. QED
        BY <1>7, <3>1, <3>2, <3>3 DEF IsInjective
    <2>3. s[n] \notin ToSet(u) /\ s[n] \notin ToSet(v)
      <3>1. \A i \in 1 .. n - 1 : u[i] # s[n]
        BY <1>1, <1>2, <1>7 DEF IsInjective
      <3>2. \A i \in 1 .. Len(s) - n : v[i] # s[n]
        <4>1. ASSUME NEW i \in 1 .. Len(s) - n PROVE v[i] # s[n]
          <5>1. n + i \in DOMAIN s /\ n \in DOMAIN s /\ n + i # n
            BY <1>1
          <5>2. QED
            BY <1>3, <1>7, <5>1 DEF IsInjective
        <4>2. QED
          BY <4>1
      <3>3. QED
        BY <1>2, <1>3, <3>1, <3>2 DEF ToSet
    <2>4. ASSUME NEW x \in ToSet(s), x # s[n] PROVE x \in ToSet(u) \cup ToSet(v)
      <3>1. PICK i \in 1 .. Len(s) : x = s[i] /\ i # n
        BY <1>1, <2>4 DEF ToSet
      <3>2. CASE i < n
        <4>1. i \in 1 .. n - 1
          BY <1>1, <3>2
        <4>2. QED
          BY <1>2, <3>1, <4>1 DEF ToSet
      <3>3. CASE i > n
        <4>1. i - n \in 1 .. Len(s) - n /\ n + (i - n) = i
          BY <1>1, <3>3
        <4>2. v[i - n] = x
          BY <1>3, <3>1, <4>1
        <4>3. QED
          BY <1>3, <4>1, <4>2 DEF ToSet
      <3>4. QED
        BY <1>1, <3>1, <3>2, <3>3
    <2>5. QED
      BY <1>5, <1>6, <2>1, <2>2, <2>3, <2>4
  <1>8. QED
    BY <1>4, <1>5, <1>6, <1>7

LEMMA RemoveFirstElements ==
  ASSUME NEW S, NEW s \in Seq(S), NEW e, IsInjective(s)
  PROVE  /\ RemoveFirst(s, e) \in Seq(S) /\ IsInjective(RemoveFirst(s, e))
         /\ Len(RemoveFirst(s, e)) = IF e \in ToSet(s) THEN Len(s) - 1 ELSE Len(s)
         /\ ToSet(RemoveFirst(s, e)) = ToSet(s) \ {e}
  <1> DEFINE I == {i \in 1 .. Len(s) : s[i] = e}
  <1>1. Len(s) \in Nat /\ DOMAIN s = 1 .. Len(s)
    BY LenProperties
  <1>2. CASE I = {}
    <2>1. e \notin ToSet(s) /\ RemoveFirst(s, e) = s
      BY <1>1, <1>2 DEF RemoveFirst, ToSet
    <2>2. QED
      BY <2>1
  <1>3. CASE I # {}
    <2>1. Min(I) \in I
      <3>1. I \subseteq Nat
        BY <1>1
      <3> HIDE DEF I
      <3>2. QED
        BY <1>3, <3>1, LeastNat
    <2>2. RemoveFirst(s, e) = RemoveAt(s, Min(I))
      BY <1>3 DEF RemoveFirst, SelectInSeq
    <2>3. Min(I) \in DOMAIN s /\ s[Min(I)] = e
      BY <1>1, <2>1
    <2>4. e \in ToSet(s)
      BY <2>3 DEF ToSet
    <2> DEFINE n == Min(I)
    <2> HIDE DEF I, n
    <2>5. n \in DOMAIN s /\ s[n] = e /\ RemoveFirst(s, e) = RemoveAt(s, n)
      BY <2>2, <2>3 DEF n
    <2>6. QED
      BY <2>4, <2>5, RemoveAtElements
  <1>4. QED
    BY <1>2, <1>3

\* A queue without repetitions has as many elements as its length says.
LEMMA InjectiveCount ==
  ASSUME NEW S, NEW s \in Seq(S), IsInjective(s)
  PROVE  IsFiniteSet(ToSet(s)) /\ Cardinality(ToSet(s)) = Len(s)
  <1>1. Len(s) \in Nat /\ DOMAIN s = 1 .. Len(s)
    BY LenProperties
  <1>2. IsFiniteSet(1 .. Len(s)) /\ Cardinality(1 .. Len(s)) = Len(s)
    BY <1>1, FS_Interval, SMTT(30)
  <1>3. s \in Bijection(1 .. Len(s), ToSet(s))
    BY <1>1 DEF Bijection, Injection, Surjection, IsInjective, ToSet
  <1>4. ExistsBijection(1 .. Len(s), ToSet(s))
    BY <1>3 DEF ExistsBijection
  <1>5. QED
    BY <1>2, <1>4, FS_Bijection

\* Cutting such a queue in two splits its elements.
LEMMA CutElements ==
  ASSUME NEW S, NEW s \in Seq(S), NEW n \in 0 .. Len(s), IsInjective(s)
  PROVE  LET front == SubSeq(s, 1, n)
             rest  == SubSeq(s, n + 1, Len(s))
         IN /\ front \in Seq(S) /\ rest \in Seq(S)
            /\ IsInjective(front) /\ IsInjective(rest)
            /\ ToSet(front) \subseteq ToSet(s)
            /\ ToSet(rest) = ToSet(s) \ ToSet(front)
            /\ Len(front) = n /\ Len(rest) = Len(s) - n
  <1> DEFINE u == SubSeq(s, 1, n)
             v == SubSeq(s, n + 1, Len(s))
  <1>1. Len(s) \in Nat /\ DOMAIN s = 1 .. Len(s) /\ \A i \in 1 .. Len(s) : s[i] \in S
    BY LenProperties, ElementOfSeq
  <1>2. /\ u \in Seq(S) /\ Len(u) = n /\ DOMAIN u = 1 .. n
        /\ \A i \in 1 .. n : u[i] = s[i]
    BY <1>1, FrontOfSeq
  <1>3. /\ v \in Seq(S) /\ Len(v) = Len(s) - n /\ DOMAIN v = 1 .. Len(s) - n
        /\ \A i \in 1 .. Len(s) - n : v[i] = s[n + i]
    BY <1>1, RestOfSeq
  <1> HIDE DEF u, v
  <1>4. IsInjective(u) /\ ToSet(u) \subseteq ToSet(s)
    BY <1>1, <1>2 DEF IsInjective, ToSet
  <1>5. IsInjective(v)
    <2>1. ASSUME NEW i \in 1 .. Len(s) - n, NEW j \in 1 .. Len(s) - n, v[i] = v[j]
          PROVE  i = j
      <3>1. n + i \in DOMAIN s /\ n + j \in DOMAIN s /\ s[n + i] = s[n + j]
        BY <1>1, <1>3, <2>1
      <3>2. n + i = n + j
        BY <3>1 DEF IsInjective
      <3>3. QED
        BY <1>1, <3>2
    <2>2. QED
      BY <1>3, <2>1 DEF IsInjective
  <1>6. ToSet(v) = ToSet(s) \ ToSet(u)
    <2>1. ASSUME NEW i \in 1 .. Len(s) - n PROVE v[i] \in ToSet(s) \ ToSet(u)
      <3>1. n + i \in DOMAIN s /\ v[i] = s[n + i]
        BY <1>1, <1>3
      <3>2. ASSUME NEW j \in 1 .. n, u[j] = v[i] PROVE FALSE
        <4>1. j \in DOMAIN s /\ s[j] = s[n + i]
          BY <1>1, <1>2, <3>1, <3>2
        <4>2. j = n + i
          BY <3>1, <4>1 DEF IsInjective
        <4>3. QED
          BY <1>1, <4>2
      <3>3. QED
        BY <1>2, <3>1, <3>2 DEF ToSet
    <2>2. ASSUME NEW i \in DOMAIN s, s[i] \notin ToSet(u) PROVE s[i] \in ToSet(v)
      <3>1. i \notin 1 .. n
        BY <1>2, <2>2 DEF ToSet
      <3>2. i - n \in 1 .. Len(s) - n /\ n + (i - n) = i
        BY <1>1, <3>1
      <3>3. v[i - n] = s[i]
        BY <1>3, <3>2
      <3>4. QED
        BY <1>3, <3>2, <3>3 DEF ToSet
    <2>3. QED
      BY <1>1, <1>3, <2>1, <2>2, SMTT(30) DEF ToSet
  <1>7. QED
    BY <1>2, <1>3, <1>4, <1>5, <1>6 DEF u, v

-----------------------------------------------------------------------------
(***************************************************************************)
(* The order of two elements.                                              *)
(***************************************************************************)
Before(s, a, b) == \A i, k \in DOMAIN s : s[i] = a /\ s[k] = b => i < k

LEMMA BeforeAppend ==
  ASSUME NEW S, NEW s \in Seq(S), NEW e \in S, NEW a, NEW b, a # b
  PROVE  /\ Before(s, a, b) /\ e # a => Before(Append(s, e), a, b)
         /\ b \notin ToSet(s) => Before(Append(s, e), a, b)
  <1>1. /\ Len(s) \in Nat /\ DOMAIN s = 1 .. Len(s)
        /\ DOMAIN Append(s, e) = 1 .. Len(s) + 1
        /\ \A i \in 1 .. Len(s) : Append(s, e)[i] = s[i]
        /\ Append(s, e)[Len(s) + 1] = e
    BY AppendProperties, LenProperties
  <1>2. ASSUME (Before(s, a, b) /\ e # a) \/ b \notin ToSet(s),
               NEW i \in 1 .. Len(s) + 1, NEW k \in 1 .. Len(s) + 1,
               Append(s, e)[i] = a, Append(s, e)[k] = b
        PROVE  i < k
    <2>1. CASE k = Len(s) + 1
      <3>1. e = b /\ i # Len(s) + 1
        BY <1>1, <1>2, <2>1
      <3>2. QED
        BY <1>1, <2>1, <3>1
    <2>2. CASE k # Len(s) + 1
      <3>1. k \in DOMAIN s /\ s[k] = b
        BY <1>1, <1>2, <2>2
      <3>2. b \in ToSet(s)
        BY <3>1 DEF ToSet
      <3>3. i # Len(s) + 1
        BY <1>1, <1>2, <3>2
      <3>4. i \in DOMAIN s /\ s[i] = a
        BY <1>1, <1>2, <3>3
      <3>5. QED
        BY <1>2, <3>1, <3>2, <3>4 DEF Before
    <2>3. QED
      BY <2>1, <2>2
  <1>3. QED
    BY <1>1, <1>2 DEF Before

LEMMA BeforeTail ==
  ASSUME NEW S, NEW s \in Seq(S), s # <<>>, NEW a, NEW b, Before(s, a, b)
  PROVE  /\ Before(Tail(s), a, b)
         /\ Head(s) = b => a \notin ToSet(s)
  <1>1. /\ Tail(s) \in Seq(S) /\ Len(s) \in Nat \ {0} /\ DOMAIN s = 1 .. Len(s)
        /\ Len(Tail(s)) = Len(s) - 1 /\ DOMAIN Tail(s) = 1 .. Len(s) - 1
        /\ \A i \in 1 .. Len(s) - 1 : Tail(s)[i] = s[i + 1]
        /\ Head(s) = s[1]
    BY HeadTailProperties, LenProperties, EmptySeq, ElementsOfSeq
  <1>2. ASSUME NEW i \in 1 .. Len(s) - 1, NEW k \in 1 .. Len(s) - 1,
               Tail(s)[i] = a, Tail(s)[k] = b
        PROVE  i < k
    <2>1. /\ i + 1 \in DOMAIN s /\ k + 1 \in DOMAIN s
          /\ s[i + 1] = a /\ s[k + 1] = b
      BY <1>1, <1>2
    <2>2. i + 1 < k + 1
      BY <2>1 DEF Before
    <2>3. QED
      BY <1>1, <2>2
  <1>3. ASSUME Head(s) = b, NEW i \in DOMAIN s, s[i] = a PROVE FALSE
    <2>1. 1 \in DOMAIN s /\ s[1] = b
      BY <1>1, <1>3
    <2>2. i < 1
      BY <1>3, <2>1 DEF Before
    <2>3. QED
      BY <1>1, <2>2
  <1>4. QED
    BY <1>1, <1>2, <1>3 DEF Before, ToSet

\* Functions on 1 .. n are sequences, also over more or just their elements.
LEMMA FunctionSeq ==
  ASSUME NEW S, NEW n \in Nat, NEW f \in [1 .. n -> S]
  PROVE  f \in Seq(S) /\ Len(f) = n
  BY SeqDef, LenProperties

LEMMA SeqOfMore ==
  ASSUME NEW S, NEW T, S \subseteq T, NEW s \in Seq(S)
  PROVE  s \in Seq(T)
  <1>1. Len(s) \in Nat /\ s \in [1 .. Len(s) -> S]
    BY LenProperties
  <1>2. s \in [1 .. Len(s) -> T]
    BY <1>1
  <1>3. QED
    BY <1>1, <1>2, FunctionSeq

LEMMA SeqOfElements ==
  ASSUME NEW S, NEW s \in Seq(S)
  PROVE  s \in Seq(ToSet(s))
  <1>1. Len(s) \in Nat /\ s \in [1 .. Len(s) -> S] /\ DOMAIN s = 1 .. Len(s)
    BY LenProperties
  <1>2. s \in [1 .. Len(s) -> ToSet(s)]
    BY <1>1 DEF ToSet
  <1>3. QED
    BY <1>1, <1>2, FunctionSeq
=============================================================================
