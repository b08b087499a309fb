------------------------------ MODULE ListProofs ------------------------------
(***************************************************************************)
(* What the proofs about plans and migrations need to know of numbers, of  *)
(* sorting and of lists.                                                   *)
(***************************************************************************)
EXTENDS Integers, FiniteSets, SequencesExt, TLAPS,
        WellFoundedInduction, FiniteSetTheorems, SequenceTheorems

-----------------------------------------------------------------------------
(* Numbers.                                                                *)

\* A non-empty set of numbers has a least element.
LEMMA LeastNat ==
  ASSUME NEW T \in SUBSET Nat, T # {}
  PROVE  \E x \in T : \A y \in T : x <= y
<1> DEFINE R == {ss \in Nat \X Nat : ss[1] < ss[2]}
<1>1. IsWellFoundedOn(R, Nat)
  BY NatLessThanWellFounded DEF OpToRel
<1>2. PICK x \in T : \A y \in T : ~ (<<y, x>> \in R)
  BY <1>1, WFMin
<1>3. \A y \in T : ~ (y < x)
  BY <1>2
<1> QED
  BY <1>3

\* What is true of 0 and passes from each number below n to the next is true
\* of n.
LEMMA UpTo ==
  ASSUME NEW n \in Nat, NEW S, 0 \in S, \A i \in 0 .. n - 1 : i \in S => i + 1 \in S
  PROVE  \A i \in 0 .. n : i \in S
<1> DEFINE T == {i \in 0 .. n : i \notin S}
<1> SUFFICES ASSUME T # {} PROVE FALSE
  OBVIOUS
<1>1. T \in SUBSET Nat
  OBVIOUS
<1>2. PICK x \in T : \A y \in T : x <= y
  BY <1>1, LeastNat
<1>3. x \in 0 .. n /\ x \notin S /\ x # 0
  OBVIOUS
<1>4. x - 1 \in 0 .. n - 1 /\ x - 1 \notin T
  BY <1>1, <1>2, <1>3
<1>5. x - 1 \in S /\ (x - 1) + 1 = x
  BY <1>3, <1>4
<1> QED
  BY <1>3, <1>4, <1>5

-----------------------------------------------------------------------------
(* Sorting.                                                                *)

\* What a strict total order on the positions 1..n sorts can be sorted: each
\* position goes to the place that the number of those below it gives.
LEMMA CanBeSorted ==
  ASSUME NEW n \in Nat, NEW lt,
         \A i, j \in 1 .. n : ~(<<i, j>> \in lt /\ <<j, i>> \in lt),
         \A i, j \in 1 .. n : i # j => <<i, j>> \in lt \/ <<j, i>> \in lt,
         \A i, j, k \in 1 .. n : <<i, j>> \in lt /\ <<j, k>> \in lt => <<i, k>> \in lt
  PROVE  \E p \in Injection(1 .. n, 1 .. n) : \A i, j \in 1 .. n : i < j => ~(<<p[j], p[i]>> \in lt)
<1> DEFINE D        == 1 .. n
           Below(k) == {j \in D : j = k \/ <<j, k>> \in lt}
           rank     == [k \in D |-> Cardinality(Below(k))]
<1>1. IsFiniteSet(D) /\ Cardinality(D) = n
  BY FS_Interval
<1>2. ASSUME NEW k \in D
      PROVE  /\ IsFiniteSet(Below(k)) /\ Cardinality(Below(k)) \in Nat
             /\ Cardinality(Below(k)) <= n /\ Cardinality(Below(k)) # 0
  <2>1. Below(k) \in SUBSET D /\ k \in Below(k)
    BY <1>2
  <2> HIDE DEF Below, D
  <2>2. IsFiniteSet(Below(k)) /\ Cardinality(Below(k)) <= n
    BY <1>1, <2>1, FS_Subset
  <2>3. Cardinality(Below(k)) \in Nat
    BY <2>2, FS_CardinalityType
  <2>4. Cardinality(Below(k)) # 0
    BY <2>1, <2>2, FS_EmptySet
  <2> QED
    BY <2>2, <2>3, <2>4
<1>3. rank \in [D -> D] /\ \A k \in D : rank[k] = Cardinality(Below(k))
  BY <1>2
<1>4. ASSUME NEW i \in D, NEW k \in D, <<i, k>> \in lt PROVE rank[i] < rank[k]
  <2>1. Below(i) \in SUBSET Below(k)
    BY <1>4
  <2>2. k \in Below(k) /\ k \notin Below(i)
    BY <1>4
  <2> HIDE DEF Below, rank
  <2>3. /\ Cardinality(Below(i)) <= Cardinality(Below(k))
        /\ Cardinality(Below(k)) = Cardinality(Below(i)) => Below(k) = Below(i)
    BY <1>2, <2>1, FS_Subset
  <2>4. Cardinality(Below(i)) # Cardinality(Below(k))
    BY <2>2, <2>3
  <2> QED
    BY <1>2, <1>3, <2>3, <2>4
<1> HIDE DEF rank, Below
<1>5. rank \in Injection(D, D)
  <2>1. ASSUME NEW i \in D, NEW k \in D, i # k PROVE rank[i] # rank[k]
    <3>1. <<i, k>> \in lt \/ <<k, i>> \in lt
      BY <2>1
    <3>2. rank[i] < rank[k] \/ rank[k] < rank[i]
      BY <1>4, <3>1
    <3> QED
      BY <1>3, <3>2
  <2> QED
    BY <1>3, <2>1 DEF Injection, IsInjective
<1>6. \A i \in D : \E k \in D : rank[k] = i
  <2> HIDE DEF D
  <2>1. rank \in Surjection(D, D)
    BY <1>1, <1>5, FS_Injection
  <2> QED
    BY <2>1 DEF Surjection
<1> DEFINE p == [i \in D |-> CHOOSE k \in D : rank[k] = i]
<1>7. p \in [D -> D] /\ \A i \in D : rank[p[i]] = i
  BY <1>6
<1> HIDE DEF p
<1>8. p \in Injection(D, D)
  <2>1. ASSUME NEW i \in D, NEW j \in D, p[i] = p[j] PROVE i = j
    BY <1>7, <2>1
  <2> HIDE DEF D
  <2> QED
    BY <1>7, <2>1 DEF Injection, IsInjective
<1>9. ASSUME NEW i \in D, NEW j \in D, i < j PROVE ~(<<p[j], p[i]>> \in lt)
  <2> SUFFICES ASSUME <<p[j], p[i]>> \in lt PROVE FALSE
    OBVIOUS
  <2>1. rank[p[j]] < rank[p[i]]
    BY <1>4, <1>7
  <2> QED
    BY <1>7, <1>9, <2>1
<1> QED
  BY <1>8, <1>9

-----------------------------------------------------------------------------
(* Lists: sequences, whatever their elements are.                          *)

IsList(s) == s \in Seq(ToSet(s))

\* Everything that is a sequence is a list.
LEMMA SeqIsList ==
  ASSUME NEW S, NEW s \in Seq(S)
  PROVE  IsList(s) /\ ToSet(s) \subseteq S
BY DEF IsList, ToSet

LEMMA MapIsList ==
  ASSUME NEW n \in Nat, NEW s, s = [i \in 1 .. n |-> s[i]]
  PROVE  IsList(s) /\ ToSet(s) = {s[i] : i \in 1 .. n} /\ Len(s) = n
<1> DEFINE S == {s[i] : i \in 1 .. n}
<1>1. s \in [1 .. n -> S]
  OBVIOUS
<1>2. s \in Seq(S) /\ Len(s) = n /\ DOMAIN s = 1 .. n
  BY <1>1
<1> QED
  BY <1>2 DEF IsList, ToSet

LEMMA ListLength ==
  ASSUME NEW s, IsList(s)
  PROVE  /\ Len(s) \in Nat
         /\ DOMAIN s = 1 .. Len(s)
         /\ s = [i \in 1 .. Len(s) |-> s[i]]
         /\ \A i \in 1 .. Len(s) : s[i] \in ToSet(s)
         /\ \A x \in ToSet(s) : \E i \in 1 .. Len(s) : s[i] = x
<1>1. s \in Seq(ToSet(s))
  BY DEF IsList
<1>2. Len(s) \in Nat /\ DOMAIN s = 1 .. Len(s) /\ s \in [1 .. Len(s) -> ToSet(s)]
  BY <1>1
<1> QED
  BY <1>2 DEF ToSet

\* A list has finitely many elements.
LEMMA ListFinite ==
  ASSUME NEW s, IsList(s)
  PROVE  IsFiniteSet(ToSet(s))
<1>1. Len(s) \in Nat /\ s \in Surjection(1 .. Len(s), ToSet(s))
  BY ListLength DEF Surjection
<1>2. IsFiniteSet(1 .. Len(s))
  BY <1>1, FS_Interval
<1> QED
  BY <1>1, <1>2, FS_Surjection

LEMMA ListAppended ==
  ASSUME NEW s, IsList(s), NEW x
  PROVE  IsList(Append(s, x)) /\ ToSet(Append(s, x)) \subseteq ToSet(s) \cup {x}
<1>1. s \in Seq(ToSet(s) \cup {x})
  BY DEF IsList
<1>2. Append(s, x) \in Seq(ToSet(s) \cup {x})
  BY <1>1
<1>3. ToSet(Append(s, x)) \subseteq ToSet(s) \cup {x}
  BY <1>2 DEF ToSet
<1> QED
  BY <1>2, <1>3, SeqIsList

LEMMA EmptyList == IsList(<<>>) /\ ToSet(<<>>) = {}
BY DEF IsList, ToSet

LEMMA SingleList ==
  ASSUME NEW x
  PROVE  IsList(<<x>>) /\ ToSet(<<x>>) = {x}
<1>1. DOMAIN <<x>> = 1 .. 1
  OBVIOUS
<1>2. ToSet(<<x>>) = {x}
  BY <1>1 DEF ToSet
<1>3. <<x>> \in Seq({x})
  OBVIOUS
<1> QED
  BY <1>2, <1>3 DEF IsList

LEMMA ListsJoined ==
  ASSUME NEW s, NEW t, IsList(s), IsList(t)
  PROVE  IsList(s \o t) /\ ToSet(s \o t) = ToSet(s) \cup ToSet(t)
<1> DEFINE S == ToSet(s) \cup ToSet(t)
           m == Len(s)
           n == Len(t)
<1>1. s \in Seq(S) /\ t \in Seq(S)
  BY DEF IsList
<1>2. m \in Nat /\ n \in Nat
  BY ListLength
<1>3. s \o t \in Seq(S) /\ Len(s \o t) = m + n
  BY <1>1
<1>4. \A i \in 1 .. m + n : (s \o t)[i] = IF i <= m THEN s[i] ELSE t[i - m]
  BY <1>1
<1>5. DOMAIN (s \o t) = 1 .. m + n
  BY <1>3
<1>6. ToSet(s \o t) \subseteq S
  BY <1>3, SeqIsList
<1>7. ASSUME NEW x \in ToSet(s) PROVE x \in ToSet(s \o t)
  <2>1. PICK i \in 1 .. m : s[i] = x
    BY ListLength
  <2>2. i \in 1 .. m + n /\ (s \o t)[i] = x
    BY <1>2, <1>4, <2>1
  <2> QED
    BY <1>5, <2>2 DEF ToSet
<1>8. ASSUME NEW x \in ToSet(t) PROVE x \in ToSet(s \o t)
  <2>1. PICK i \in 1 .. n : t[i] = x
    BY ListLength
  <2>2. i + m \in 1 .. m + n /\ (s \o t)[i + m] = x
    BY <1>2, <1>4, <2>1
  <2> QED
    BY <1>5, <2>2 DEF ToSet
<1> QED
  BY <1>3, <1>6, <1>7, <1>8 DEF IsList

LEMMA ListReversed ==
  ASSUME NEW s, IsList(s)
  PROVE  IsList(Reverse(s)) /\ ToSet(Reverse(s)) \subseteq ToSet(s)
<1> DEFINE n == Len(s)
           r == Reverse(s)
<1>1. n \in Nat /\ \A i \in 1 .. n : s[i] \in ToSet(s)
  BY ListLength
<1>2. r = [i \in 1 .. n |-> s[(n - i) + 1]]
  BY DEF Reverse
<1>3. r \in [1 .. n -> ToSet(s)]
  BY <1>1, <1>2
<1>4. r \in Seq(ToSet(s))
  BY <1>1, <1>3
<1> QED
  BY <1>4, SeqIsList

\* The beginnings of a list of lists, flattened one after the other.
Flattens(f, k, ss) ==
  f = [i \in 1 .. k |-> IF i = 1 THEN ss[i] ELSE f[i - 1] \o ss[i]]

LEMMA FlattensAt ==
  ASSUME NEW f, NEW k, NEW ss, Flattens(f, k, ss), NEW i \in 1 .. k
  PROVE  f[i] = IF i = 1 THEN ss[i] ELSE f[i - 1] \o ss[i]
<1> DEFINE g == [j \in 1 .. k |-> IF j = 1 THEN ss[j] ELSE f[j - 1] \o ss[j]]
<1>1. f = g
  BY DEF Flattens
<1>2. g[i] = IF i = 1 THEN ss[i] ELSE f[i - 1] \o ss[i]
  OBVIOUS
<1> HIDE DEF g
<1> QED
  BY <1>1, <1>2

LEMMA FlattenDefined ==
  ASSUME NEW ss, Len(ss) \in Nat, Len(ss) # 0
  PROVE  \E f : /\ \A i \in 1 .. Len(ss) :
                     f[i] = IF i = 1 THEN ss[i] ELSE f[i - 1] \o ss[i]
                /\ FlattenSeq(ss) = f[Len(ss)]
<1> DEFINE n == Len(ss)
           S == {k \in 0 .. n - 1 : \E f : Flattens(f, k + 1, ss)}
<1>1. 0 \in S
  <2> DEFINE f == [i \in 1 .. 1 |-> ss[i]]
  <2>1. f = [i \in 1 .. 1 |-> IF i = 1 THEN ss[i] ELSE f[i - 1] \o ss[i]]
    <3>1. \A i \in 1 .. 1 : i = 1
      OBVIOUS
    <3> QED
      BY <3>1
  <2> HIDE DEF f
  <2>2. Flattens(f, 0 + 1, ss)
    BY <2>1 DEF Flattens
  <2>3. 0 \in 0 .. n - 1
    OBVIOUS
  <2> QED
    BY <2>2, <2>3
<1>2. ASSUME NEW k \in 0 .. (n - 1) - 1, k \in S PROVE k + 1 \in S
  <2>1. PICK f : Flattens(f, k + 1, ss)
    BY <1>2
  <2> DEFINE g == [i \in 1 .. (k + 1) + 1 |-> IF i <= k + 1 THEN f[i] ELSE f[k + 1] \o ss[k + 2]]
  <2>2. ASSUME NEW i \in 1 .. (k + 1) + 1
        PROVE  g[i] = IF i = 1 THEN ss[i] ELSE g[i - 1] \o ss[i]
    <3>1. CASE i <= k + 1
      <4>1. g[i] = f[i] /\ (i # 1 => g[i - 1] = f[i - 1])
        BY <3>1
      <4>2. f[i] = IF i = 1 THEN ss[i] ELSE f[i - 1] \o ss[i]
        BY <2>1, <3>1, FlattensAt
      <4> QED
        BY <4>1, <4>2
    <3>2. CASE i = k + 2
      BY <3>2
    <3> QED
      BY <3>1, <3>2
  <2>3. Flattens(g, (k + 1) + 1, ss)
    BY <2>2, Zenon DEF Flattens
  <2> HIDE DEF g
  <2>4. k + 1 \in 0 .. n - 1
    OBVIOUS
  <2> QED
    BY <2>3, <2>4
<1>3. n - 1 \in S
  <2> HIDE DEF S
  <2>1. n - 1 \in Nat
    OBVIOUS
  <2>2. \A k \in 0 .. (n - 1) - 1 : k \in S => k + 1 \in S
    BY <1>2
  <2> HIDE DEF n
  <2>3. \A k \in 0 .. n - 1 : k \in S
    BY <1>1, <2>1, <2>2, UpTo
  <2> QED
    BY <2>1, <2>3
<1> DEFINE f[i \in 1 .. n] == IF i = 1 THEN ss[i] ELSE f[i - 1] \o ss[i]
<1>4. Flattens(f, n, ss)
  <2>1. \E g : Flattens(g, (n - 1) + 1, ss)
    BY <1>3
  <2>2. (n - 1) + 1 = n
    OBVIOUS
  <2> QED
    BY <2>1, <2>2 DEF Flattens
<1>5. FlattenSeq(ss) = f[n]
  BY DEF FlattenSeq
<1> HIDE DEF f
<1>6. ASSUME NEW i \in 1 .. n PROVE f[i] = IF i = 1 THEN ss[i] ELSE f[i - 1] \o ss[i]
  BY <1>4, FlattensAt
<1> QED
  BY <1>5, <1>6

LEMMA ListsFlattened ==
  ASSUME NEW ss, IsList(ss), \A s \in ToSet(ss) : IsList(s)
  PROVE  /\ IsList(FlattenSeq(ss))
         /\ ToSet(FlattenSeq(ss)) \subseteq UNION {ToSet(s) : s \in ToSet(ss)}
<1> DEFINE n == Len(ss)
           All == UNION {ToSet(s) : s \in ToSet(ss)}
<1>1. n \in Nat /\ \A i \in 1 .. n : ss[i] \in ToSet(ss)
  BY ListLength
<1>2. CASE n = 0
  <2>1. FlattenSeq(ss) = ss
    BY <1>2 DEF FlattenSeq
  <2>2. ToSet(ss) = {}
    BY <1>2, ListLength
  <2> QED
    BY <2>1, <2>2
<1>3. CASE n # 0
  <2>1. PICK f : /\ \A i \in 1 .. n : f[i] = IF i = 1 THEN ss[i] ELSE f[i - 1] \o ss[i]
                 /\ FlattenSeq(ss) = f[n]
    BY <1>1, <1>3, FlattenDefined
  <2> DEFINE S == {k \in 0 .. n - 1 : IsList(f[k + 1]) /\ ToSet(f[k + 1]) \subseteq All}
  <2>2. \A i \in 1 .. n : IsList(ss[i]) /\ ToSet(ss[i]) \subseteq All
    BY <1>1
  <2> HIDE DEF All
  <2>3. 0 \in S
    <3>1. 0 + 1 = 1 /\ 1 \in 1 .. n /\ 0 \in 0 .. n - 1
      BY <1>1, <1>3
    <3>2. f[1] = ss[1]
      BY <2>1, <3>1
    <3> QED
      BY <2>2, <3>1, <3>2
  <2>4. ASSUME NEW k \in 0 .. (n - 1) - 1, k \in S PROVE k + 1 \in S
    <3>1. /\ (k + 1) + 1 \in 1 .. n /\ (k + 1) + 1 # 1 /\ ((k + 1) + 1) - 1 = k + 1
          /\ k + 1 \in 0 .. n - 1
      BY <1>1
    <3> DEFINE j == (k + 1) + 1
    <3>2. f[j] = f[k + 1] \o ss[j]
      BY <2>1, <3>1
    <3>3. IsList(f[k + 1]) /\ ToSet(f[k + 1]) \subseteq All
      BY <2>4
    <3>4. IsList(ss[j]) /\ ToSet(ss[j]) \subseteq All
      BY <2>2, <3>1
    <3>5. IsList(f[j]) /\ ToSet(f[j]) \subseteq All
      BY <3>2, <3>3, <3>4, ListsJoined
    <3> QED
      BY <3>1, <3>5
  <2>5. n - 1 \in S
    <3> HIDE DEF S
    <3>1. n - 1 \in Nat
      BY <1>1, <1>3
    <3>2. \A k \in 0 .. (n - 1) - 1 : k \in S => k + 1 \in S
      BY <2>4
    <3> HIDE DEF n
    <3>3. \A k \in 0 .. n - 1 : k \in S
      BY <2>3, <3>1, <3>2, UpTo
    <3> QED
      BY <3>1, <3>3
  <2>6. (n - 1) + 1 = n
    BY <1>1
  <2> QED
    BY <2>1, <2>5, <2>6 DEF All
<1> QED
  BY <1>2, <1>3

\* Nothing gets lost.
LEMMA AllFlattened ==
  ASSUME NEW ss, IsList(ss), \A s \in ToSet(ss) : IsList(s), NEW s \in ToSet(ss)
  PROVE  ToSet(s) \subseteq ToSet(FlattenSeq(ss))
<1> DEFINE n == Len(ss)
<1>1. n \in Nat /\ \A i \in 1 .. n : IsList(ss[i])
  BY ListLength
<1>2. PICK at \in 1 .. n : s = ss[at]
  BY ListLength
<1>3. n # 0
  BY <1>1, <1>2
<1>4. PICK f : /\ \A i \in 1 .. n : f[i] = IF i = 1 THEN ss[i] ELSE f[i - 1] \o ss[i]
               /\ FlattenSeq(ss) = f[n]
  BY <1>1, <1>3, FlattenDefined
<1> DEFINE S == {k \in 0 .. n - 1 : IsList(f[k + 1]) /\ \A j \in 1 .. k + 1 : ToSet(ss[j]) \subseteq ToSet(f[k + 1])}
<1>5. 0 \in S
  <2>1. 0 + 1 = 1 /\ 1 \in 1 .. n /\ 0 \in 0 .. n - 1 /\ \A j \in 1 .. 1 : j = 1
    BY <1>1, <1>3
  <2>2. f[1] = ss[1]
    BY <1>4, <2>1
  <2> QED
    BY <1>1, <2>1, <2>2
<1>6. ASSUME NEW k \in 0 .. (n - 1) - 1, k \in S PROVE k + 1 \in S
  <2>1. /\ (k + 1) + 1 \in 1 .. n /\ (k + 1) + 1 # 1 /\ ((k + 1) + 1) - 1 = k + 1
        /\ k + 1 \in 0 .. n - 1
        /\ \A i \in 1 .. (k + 1) + 1 : i \in 1 .. k + 1 \/ i = (k + 1) + 1
    BY <1>1
  <2> DEFINE j == (k + 1) + 1
  <2>2. f[j] = f[k + 1] \o ss[j]
    BY <1>4, <2>1
  <2>3. IsList(f[k + 1]) /\ \A i \in 1 .. k + 1 : ToSet(ss[i]) \subseteq ToSet(f[k + 1])
    BY <1>6
  <2>4. IsList(f[j]) /\ ToSet(f[j]) = ToSet(f[k + 1]) \cup ToSet(ss[j])
    BY <1>1, <2>1, <2>2, <2>3, ListsJoined
  <2>5. \A i \in 1 .. j : ToSet(ss[i]) \subseteq ToSet(f[j])
    BY <2>1, <2>3, <2>4
  <2> QED
    BY <2>1, <2>4, <2>5
<1>7. n - 1 \in S
  <2> HIDE DEF S
  <2>1. n - 1 \in Nat
    BY <1>1, <1>3
  <2>2. \A k \in 0 .. (n - 1) - 1 : k \in S => k + 1 \in S
    BY <1>6
  <2> HIDE DEF n
  <2>3. \A k \in 0 .. n - 1 : k \in S
    BY <1>5, <2>1, <2>2, UpTo
  <2> QED
    BY <2>1, <2>3
<1>8. (n - 1) + 1 = n
  BY <1>1
<1> QED
  BY <1>2, <1>4, <1>7, <1>8
=============================================================================
