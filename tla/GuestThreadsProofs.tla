------------------------- MODULE GuestThreadsProofs -------------------------
(***************************************************************************)
(* The threads of a simulated program: for every program, number of        *)
(* threads, set of futexes and length of the queues, no live thread gets   *)
(* lost, and a well-behaved program finds each of its threads in one place *)
(* and with the registers it left.                                         *)
(***************************************************************************)
EXTENDS GuestThreads, NatFacts, SequenceTheorems

-----------------------------------------------------------------------------
(* Queues, as the sets of their elements and as their lengths.             *)

\* The elements of a sequence are of its type and finitely many, at most its length.
LEMMA QueueSet ==
  ASSUME NEW S, NEW s \in Seq(S)
  PROVE  /\ ToSet(s) \subseteq S
         /\ \A x \in S : x \in ToSet(s) <=> \E i \in 1 .. Len(s) : s[i] = x
         /\ IsFiniteSet(ToSet(s))
         /\ Cardinality(ToSet(s)) \in Nat
         /\ Cardinality(ToSet(s)) <= Len(s)
<1>1. DOMAIN s = 1 .. Len(s) /\ Len(s) \in Nat /\ s \in [1 .. Len(s) -> S]
  BY LenProperties
<1>2. ToSet(s) = {s[i] : i \in 1 .. Len(s)}
  BY <1>1 DEF ToSet
<1>3. ToSet(s) \subseteq S
  BY <1>1, <1>2
<1>4. s \in Surjection(1 .. Len(s), ToSet(s))
  BY <1>1, <1>2 DEF Surjection
<1>5. IsFiniteSet(1 .. Len(s)) /\ Cardinality(1 .. Len(s)) = Len(s)
  <2>1. Cardinality(1 .. Len(s)) = IF 1 > Len(s) THEN 0 ELSE Len(s) - 1 + 1
    BY <1>1, FS_Interval
  <2>2. IsFiniteSet(1 .. Len(s))
    BY <1>1, FS_Interval
  <2> QED BY <1>1, <2>1, <2>2
<1>6. IsFiniteSet(ToSet(s)) /\ Cardinality(ToSet(s)) <= Len(s)
  BY <1>4, <1>5, FS_Surjection
<1>7. Cardinality(ToSet(s)) \in Nat
  BY <1>6, FS_CardinalityType
<1> QED BY <1>2, <1>3, <1>6, <1>7

LEMMA AppendSet ==
  ASSUME NEW S, NEW s \in Seq(S), NEW x \in S
  PROVE  /\ Append(s, x) \in Seq(S) /\ Append(s, x) # << >>
         /\ Len(Append(s, x)) = Len(s) + 1 /\ Len(s) \in Nat
         /\ ToSet(Append(s, x)) = ToSet(s) \cup {x}
<1>1. Append(s, x) \in Seq(S) /\ Append(s, x) # << >> /\ Len(Append(s, x)) = Len(s) + 1 /\ Len(s) \in Nat
  BY AppendProperties, LenProperties
<1>2. (\A i \in 1 .. Len(s) : Append(s, x)[i] = s[i]) /\ Append(s, x)[Len(s) + 1] = x
  BY AppendProperties
<1>3. ASSUME NEW y \in S
      PROVE  y \in ToSet(Append(s, x)) <=> y \in ToSet(s) \cup {x}
  <2>1. y \in ToSet(Append(s, x)) <=> \E i \in 1 .. Len(s) + 1 : Append(s, x)[i] = y
    BY <1>1, QueueSet
  <2>2. y \in ToSet(s) <=> \E i \in 1 .. Len(s) : s[i] = y
    BY QueueSet
  <2>3. \A i \in 1 .. Len(s) + 1 : i \in 1 .. Len(s) \/ i = Len(s) + 1
    BY <1>1
  <2>4. Len(s) + 1 \in 1 .. Len(s) + 1 /\ \A i \in 1 .. Len(s) : i \in 1 .. Len(s) + 1
    BY <1>1
  <2> QED BY <1>2, <2>1, <2>2, <2>3, <2>4
<1>4. ToSet(Append(s, x)) \subseteq S /\ ToSet(s) \subseteq S
  BY <1>1, QueueSet
<1> QED BY <1>1, <1>3, <1>4

LEMMA HeadTailSet ==
  ASSUME NEW S, NEW s \in Seq(S), s # << >>
  PROVE  /\ Tail(s) \in Seq(S) /\ Head(s) \in S
         /\ Len(Tail(s)) + 1 = Len(s) /\ Len(s) \in Nat
         /\ ToSet(Tail(s)) \cup {Head(s)} = ToSet(s)
         /\ Head(s) \in ToSet(s)
<1>1. /\ Tail(s) \in Seq(S) /\ Head(s) \in S /\ Len(Tail(s)) = Len(s) - 1 /\ Len(s) \in Nat \ {0}
      /\ \A i \in 1 .. Len(Tail(s)) : Tail(s)[i] = s[i + 1]
  BY HeadTailProperties, EmptySeq
<1>2. Head(s) = s[1]
  BY <1>1
<1>3. ASSUME NEW y \in S
      PROVE  y \in ToSet(s) <=> y \in ToSet(Tail(s)) \cup {Head(s)}
  <2>1. y \in ToSet(Tail(s)) <=> \E i \in 1 .. Len(s) - 1 : s[i + 1] = y
    <3> DEFINE t == Tail(s)
    <3>1. t \in Seq(S) /\ Len(t) = Len(s) - 1 /\ \A i \in 1 .. Len(t) : t[i] = s[i + 1]
      BY <1>1
    <3> HIDE DEF t
    <3>2. y \in ToSet(t) <=> \E i \in 1 .. Len(t) : t[i] = y
      BY <3>1, QueueSet
    <3> QED BY <3>1, <3>2 DEF t
  <2>2. y \in ToSet(s) <=> \E i \in 1 .. Len(s) : s[i] = y
    BY QueueSet
  <2>3. ASSUME NEW i \in 1 .. Len(s), s[i] = y, i # 1 PROVE \E j \in 1 .. Len(s) - 1 : s[j + 1] = y
    <3>1. i - 1 \in 1 .. Len(s) - 1 /\ (i - 1) + 1 = i
      BY <1>1, <2>3
    <3> QED BY <2>3, <3>1
  <2>4. \A j \in 1 .. Len(s) - 1 : j + 1 \in 1 .. Len(s)
    BY <1>1
  <2>5. 1 \in 1 .. Len(s)
    BY <1>1
  <2> QED BY <1>2, <2>1, <2>2, <2>3, <2>4, <2>5
<1>4. ToSet(Tail(s)) \subseteq S /\ ToSet(s) \subseteq S
  BY <1>1, QueueSet
<1>5. ToSet(Tail(s)) \cup {Head(s)} = ToSet(s)
  BY <1>1, <1>3, <1>4
<1> QED BY <1>1, <1>5

LEMMA ConcatSet ==
  ASSUME NEW S, NEW s \in Seq(S), NEW t \in Seq(S)
  PROVE  /\ s \o t \in Seq(S)
         /\ Len(s \o t) = Len(s) + Len(t) /\ Len(s) \in Nat /\ Len(t) \in Nat
         /\ ToSet(s \o t) = ToSet(s) \cup ToSet(t)
<1>1. /\ s \o t \in Seq(S) /\ Len(s \o t) = Len(s) + Len(t) /\ Len(s) \in Nat /\ Len(t) \in Nat
      /\ \A i \in 1 .. Len(s) + Len(t) : (s \o t)[i] = IF i <= Len(s) THEN s[i] ELSE t[i - Len(s)]
  BY ConcatProperties, LenProperties
<1>2. ASSUME NEW y \in S
      PROVE  y \in ToSet(s \o t) <=> y \in ToSet(s) \cup ToSet(t)
  <2>1. y \in ToSet(s \o t) <=> \E i \in 1 .. Len(s) + Len(t) : (s \o t)[i] = y
    <3> DEFINE u == s \o t
    <3>1. u \in Seq(S) /\ Len(u) = Len(s) + Len(t)
      BY <1>1
    <3> HIDE DEF u
    <3>2. y \in ToSet(u) <=> \E i \in 1 .. Len(u) : u[i] = y
      BY <3>1, QueueSet
    <3> QED BY <3>1, <3>2 DEF u
  <2>2. y \in ToSet(s) <=> \E i \in 1 .. Len(s) : s[i] = y
    BY QueueSet
  <2>3. y \in ToSet(t) <=> \E i \in 1 .. Len(t) : t[i] = y
    BY QueueSet
  <2>4. ASSUME NEW i \in 1 .. Len(t), t[i] = y PROVE \E j \in 1 .. Len(s) + Len(t) : (s \o t)[j] = y
    <3>1. /\ i + Len(s) \in 1 .. Len(s) + Len(t) /\ ~(i + Len(s) <= Len(s)) /\ (i + Len(s)) - Len(s) = i
      BY <1>1
    <3> QED BY <1>1, <2>4, <3>1
  <2>5. ASSUME NEW i \in 1 .. Len(s), s[i] = y PROVE \E j \in 1 .. Len(s) + Len(t) : (s \o t)[j] = y
    <3>1. i \in 1 .. Len(s) + Len(t) /\ i <= Len(s)
      BY <1>1
    <3> QED BY <1>1, <2>5, <3>1
  <2>6. ASSUME NEW i \in 1 .. Len(s) + Len(t), (s \o t)[i] = y
        PROVE  (\E j \in 1 .. Len(s) : s[j] = y) \/ (\E j \in 1 .. Len(t) : t[j] = y)
    <3>1. CASE i <= Len(s)
      BY <1>1, <2>6, <3>1
    <3>2. CASE ~(i <= Len(s))
      <4>1. i - Len(s) \in 1 .. Len(t)
        BY <1>1, <3>2
      <4> QED BY <1>1, <2>6, <3>2, <4>1
    <3> QED BY <3>1, <3>2
  <2> QED BY <2>1, <2>2, <2>3, <2>4, <2>5, <2>6
<1>3. ToSet(s \o t) \subseteq S /\ ToSet(s) \subseteq S /\ ToSet(t) \subseteq S
  BY <1>1, QueueSet
<1> QED BY <1>1, <1>2, <1>3

\* The indices of I have the ranks from 0 on, each one its own.
LEMMA Ranks ==
  ASSUME NEW I \in SUBSET Nat, IsFiniteSet(I)
  PROVE  /\ Cardinality(I) \in Nat
         /\ \A i \in I : Cardinality({j \in I : j < i}) \in 0 .. Cardinality(I) - 1
         /\ \A h, i \in I : h # i => Cardinality({j \in I : j < h}) # Cardinality({j \in I : j < i})
         /\ \A k \in 1 .. Cardinality(I) : \E i \in I : Cardinality({j \in I : j < i}) = k - 1
<1> DEFINE below(i) == {j \in I : j < i}
           n == Cardinality(I)
<1>0. n \in Nat
  BY FS_CardinalityType
<1>1. ASSUME NEW i \in I
      PROVE  IsFiniteSet(below(i)) /\ Cardinality(below(i)) \in 0 .. n - 1
  <2>1. below(i) \in SUBSET (I \ {i}) /\ IsFiniteSet(I \ {i}) /\ Cardinality(I \ {i}) = n - 1
    BY FS_RemoveElement
  <2>2. IsFiniteSet(below(i)) /\ Cardinality(below(i)) <= n - 1
    BY <2>1, FS_Subset
  <2>3. Cardinality(below(i)) \in Nat
    BY <2>2, FS_CardinalityType
  <2> HIDE DEF n, below
  <2> QED BY <1>0, <2>2, <2>3
<1>2. ASSUME NEW h \in I, NEW i \in I, h < i
      PROVE  Cardinality(below(h)) # Cardinality(below(i))
  <2>1. below(h) \in SUBSET below(i) /\ h \in below(i) /\ h \notin below(h)
    <3>1. \A j \in I : j < h => j < i
      BY <1>2
    <3>2. ~(h < h)
      OBVIOUS
    <3> QED BY <1>2, <3>1, <3>2
  <2>0. IsFiniteSet(below(i))
    BY <1>1
  <2> HIDE DEF below
  <2>2. Cardinality(below(i)) = Cardinality(below(h)) => below(i) = below(h)
    BY <2>0, <2>1, FS_Subset
  <2> QED BY <2>1, <2>2
<1>3. ASSUME NEW h \in I, NEW i \in I, h # i
      PROVE  Cardinality(below(h)) # Cardinality(below(i))
  <2>1. h < i \/ i < h
    BY <1>3
  <2> HIDE DEF below
  <2> QED BY <1>2, <2>1
<1> DEFINE T == 1 .. n
           f == [i \in I |-> Cardinality(below(i)) + 1]
<1> HIDE DEF below
<1>4. IsFiniteSet(T) /\ Cardinality(T) = n
  <2>1. Cardinality(T) = IF 1 > n THEN 0 ELSE n - 1 + 1
    BY <1>0, FS_Interval
  <2>2. IsFiniteSet(T)
    BY <1>0, FS_Interval
  <2> HIDE DEF n
  <2> QED BY <1>0, <2>1, <2>2
<1> HIDE DEF n
<1>5. f \in [I -> T]
  BY <1>0, <1>1
<1>6. f \in Injection(I, T)
  <2>1. \A h, i \in I : f[h] = f[i] => h = i
    BY <1>0, <1>1, <1>3
  <2> QED BY <1>5, <2>1 DEF Injection, IsInjective
<1> HIDE DEF T, f
<1>7. f \in Surjection(I, T)
  BY <1>4, <1>6, FS_Injection DEF n
<1>8. ASSUME NEW k \in 1 .. n PROVE \E i \in I : Cardinality(below(i)) = k - 1
  <2>1. PICK i \in I : f[i] = k
    BY <1>7 DEF Surjection, T
  <2>2. Cardinality(below(i)) + 1 = k /\ Cardinality(below(i)) \in Int
    BY <1>0, <1>1, <2>1 DEF f
  <2> QED BY <2>2
<1> QED BY <1>0, <1>1, <1>3, <1>8 DEF n, below

\* PickFrom() takes the elements at the indices, each once.
LEMMA PickFromSet ==
  ASSUME NEW S, NEW s \in Seq(S), NEW I \in SUBSET (1 .. Len(s))
  PROVE  /\ PickFrom(s, I) \in Seq(S)
         /\ IsFiniteSet(I) /\ Cardinality(I) \in Nat
         /\ Len(PickFrom(s, I)) = Cardinality(I)
         /\ ToSet(PickFrom(s, I)) = {s[i] : i \in I}
<1>1. Len(s) \in Nat /\ s \in [1 .. Len(s) -> S]
  BY LenProperties
<1>2. IsFiniteSet(I) /\ I \in SUBSET Nat
  <2>1. IsFiniteSet(1 .. Len(s))
    BY <1>1, FS_Interval
  <2>2. IsFiniteSet(I)
    BY <2>1, FS_Subset
  <2> QED BY <1>1, <2>2
<1> DEFINE n == Cardinality(I)
           rank(i) == Cardinality({j \in I : j < i})
           at == [k \in 1 .. n |-> CHOOSE i \in I : rank(i) = k - 1]
           picked == [k \in 1 .. n |-> s[at[k]]]
<1>3. PickFrom(s, I) = picked
  BY DEF PickFrom
<1>4. /\ n \in Nat
      /\ \A i \in I : rank(i) \in 0 .. n - 1
      /\ \A h, i \in I : h # i => rank(h) # rank(i)
      /\ \A k \in 1 .. n : \E i \in I : rank(i) = k - 1
  BY <1>2, Ranks
<1> HIDE DEF n, rank
<1>5. \A k \in 1 .. n : at[k] \in I /\ rank(at[k]) = k - 1
  BY <1>4
<1>6. \A i \in I : rank(i) + 1 \in 1 .. n /\ at[rank(i) + 1] = i
  <2> TAKE i \in I
  <2>1. rank(i) \in Int /\ rank(i) + 1 \in 1 .. n /\ (rank(i) + 1) - 1 = rank(i)
    BY <1>4
  <2>2. at[rank(i) + 1] \in I /\ rank(at[rank(i) + 1]) = rank(i)
    BY <1>5, <2>1
  <2> HIDE DEF at
  <2> QED BY <1>4, <2>1, <2>2
<1> HIDE DEF at
<1>7. picked \in [1 .. n -> S]
  BY <1>1, <1>5
<1>8. picked \in Seq(S) /\ Len(picked) = n
  <2> HIDE DEF picked
  <2> QED BY <1>4, <1>7
<1>9. ToSet(picked) = {s[i] : i \in I}
  <2>1. ToSet(picked) = {s[at[k]] : k \in 1 .. n}
    BY DEF ToSet
  <2> QED BY <1>5, <1>6, <2>1
<1> HIDE DEF picked
<1> QED BY <1>2, <1>3, <1>4, <1>8, <1>9 DEF n

\* RemoveFirst() takes one occurrence of an element that is there.
LEMMA RemoveFirstSet ==
  ASSUME NEW S, NEW s \in Seq(S), NEW x \in S
  PROVE  /\ RemoveFirst(s, x) \in Seq(S)
         /\ ToSet(s) \subseteq ToSet(RemoveFirst(s, x)) \cup {x}
         /\ ToSet(RemoveFirst(s, x)) \subseteq ToSet(s)
         /\ x \in ToSet(s) => Len(RemoveFirst(s, x)) + 1 = Len(s)
         /\ Len(s) \in Nat
<1>1. Len(s) \in Nat /\ \A i \in 1 .. Len(s) : s[i] \in S
  BY LenProperties
<1>2. x \in ToSet(s) <=> \E i \in 1 .. Len(s) : s[i] = x
  BY QueueSet
<1>3. CASE x \notin ToSet(s)
  <2>1. RemoveFirst(s, x) = s
    BY <1>2, <1>3 DEF RemoveFirst
  <2> QED BY <1>1, <1>3, <2>1
<1>4. CASE x \in ToSet(s)
  <2> DEFINE J == {i \in 1 .. Len(s) : s[i] = x}
             k == Min(J)
             a == SubSeq(s, 1, k - 1)
             b == SubSeq(s, k + 1, Len(s))
  <2>1. J # {} /\ J \in SUBSET Nat
    BY <1>1, <1>2, <1>4
  <2>2. RemoveFirst(s, x) = a \o b
    BY <1>2, <1>4, <2>1 DEF RemoveFirst, SelectInSeq, RemoveAt
  <2>3. k \in J
    <3>1. \E m \in J : \A j \in J : m <= j
      BY <2>1, LeastNat
    <3> QED BY <3>1 DEF Min
  <2>4. k \in 1 .. Len(s) /\ s[k] = x
    BY <2>3
  <2> HIDE DEF J, k
  <2>5. /\ a \in Seq(S) /\ Len(a) = k - 1 /\ \A i \in 1 .. k - 1 : a[i] = s[i]
        /\ b \in Seq(S) /\ Len(b) = Len(s) - k /\ \A i \in 1 .. Len(s) - k : b[i] = s[k + i]
    <3>1. a \in Seq(S) /\ Len(a) = (IF 1 <= k - 1 THEN (k - 1) - 1 + 1 ELSE 0) /\ \A i \in 1 .. (k - 1) - 1 + 1 : a[i] = s[1 + i - 1]
      <4>1. \A i \in 1 .. k - 1 : s[i] \in S
        BY <1>1, <2>4
      <4> QED BY <2>4, <4>1, SubSeqProperties
    <3>2. b \in Seq(S) /\ Len(b) = (IF k + 1 <= Len(s) THEN Len(s) - (k + 1) + 1 ELSE 0)
          /\ \A i \in 1 .. Len(s) - (k + 1) + 1 : b[i] = s[(k + 1) + i - 1]
      <4>1. \A i \in k + 1 .. Len(s) : s[i] \in S
        BY <1>1, <2>4
      <4>2. k + 1 \in Int /\ Len(s) \in Int
        BY <1>1, <2>4
      <4> QED BY <4>1, <4>2, SubSeqProperties
    <3> HIDE DEF a, b
    <3>3. Len(a) = k - 1 /\ Len(b) = Len(s) - k
      BY <1>1, <2>4, <3>1, <3>2
    <3>4. \A i \in 1 .. k - 1 : a[i] = s[i]
      <4>1. (k - 1) - 1 + 1 = k - 1 /\ \A i \in 1 .. k - 1 : 1 + i - 1 = i
        BY <2>4
      <4> QED BY <3>1, <4>1
    <3>5. \A i \in 1 .. Len(s) - k : b[i] = s[k + i]
      <4>1. Len(s) - (k + 1) + 1 = Len(s) - k /\ \A i \in 1 .. Len(s) - k : (k + 1) + i - 1 = k + i
        BY <1>1, <2>4
      <4> QED BY <3>2, <4>1
    <3> QED BY <3>1, <3>2, <3>3, <3>4, <3>5
  <2> HIDE DEF a, b
  <2>6. a \o b \in Seq(S) /\ Len(a \o b) = Len(a) + Len(b) /\ ToSet(a \o b) = ToSet(a) \cup ToSet(b)
    BY <2>5, ConcatSet
  <2>7. Len(a \o b) + 1 = Len(s)
    BY <1>1, <2>4, <2>5, <2>6
  <2>8. \A y \in S : /\ y \in ToSet(a) <=> \E i \in 1 .. k - 1 : s[i] = y
                     /\ y \in ToSet(b) <=> \E i \in 1 .. Len(s) - k : s[k + i] = y
                     /\ y \in ToSet(s) <=> \E i \in 1 .. Len(s) : s[i] = y
    <3>1. \A y \in S : y \in ToSet(a) <=> \E i \in 1 .. k - 1 : s[i] = y
      <4>1. \A y \in S : y \in ToSet(a) <=> \E i \in 1 .. Len(a) : a[i] = y
        BY <2>5, QueueSet
      <4> QED BY <2>5, <4>1
    <3>2. \A y \in S : y \in ToSet(b) <=> \E i \in 1 .. Len(s) - k : s[k + i] = y
      <4>1. \A y \in S : y \in ToSet(b) <=> \E i \in 1 .. Len(b) : b[i] = y
        BY <2>5, QueueSet
      <4> QED BY <2>5, <4>1
    <3> QED BY <3>1, <3>2, QueueSet
  <2>9. ASSUME NEW y \in S, y \in ToSet(s), y # x PROVE y \in ToSet(a) \cup ToSet(b)
    <3>1. PICK i \in 1 .. Len(s) : s[i] = y
      BY <2>8, <2>9
    <3>2. CASE i < k
      <4>1. i \in 1 .. k - 1
        BY <2>4, <3>2
      <4> QED BY <2>8, <3>1, <4>1
    <3>3. CASE i > k
      <4>1. i - k \in 1 .. Len(s) - k /\ k + (i - k) = i
        BY <1>1, <2>4, <3>3
      <4> QED BY <2>8, <3>1, <4>1
    <3>4. i # k
      BY <2>4, <2>9, <3>1
    <3> QED BY <2>4, <3>2, <3>3, <3>4
  <2>10. ASSUME NEW y \in S, y \in ToSet(a) \cup ToSet(b) PROVE y \in ToSet(s)
    <3>1. (\A i \in 1 .. k - 1 : i \in 1 .. Len(s)) /\ (\A i \in 1 .. Len(s) - k : k + i \in 1 .. Len(s))
      BY <1>1, <2>4
    <3> QED BY <2>8, <2>10, <3>1
  <2>11. ToSet(a) \cup ToSet(b) \subseteq S /\ ToSet(s) \subseteq S
    BY <2>5, QueueSet
  <2> QED BY <1>1, <2>2, <2>6, <2>7, <2>9, <2>10, <2>11
<1> QED BY <1>3, <1>4

-----------------------------------------------------------------------------
(* The inductive invariant.                                                *)

\* Whatever the guest does: the main thread is never forgotten, a thread that runs is
\* alive, no live thread is lost, and a new id is nobody's.
Reachable ==
  /\ 0 \in threads /\ current \in threads
  /\ threads \subseteq {current} \cup Waiting
  /\ threads \subseteq 0 .. counter

\* What a well-behaved guest adds: there are as many places as threads, and the main
\* thread is not blocked, so that there is somebody to resume when a thread exits.
Tight ==
  /\ Len(suspended) + Len(blocked) + 1 = Cardinality(threads)
  /\ Waiting \cup {current} = threads
  /\ 0 \notin ToSet(blocked)

Fresh == a0 # Stale /\ \A t \in Waiting : stored[t] # Stale

ThreadsInv ==
  /\ TypeOK
  /\ status = "running" => Reachable /\ (WellBehaved => Tight /\ Fresh)

\* What AnswersDelivered says of one step.
Delivers ==
  WellBehaved => \A t \in ToSet(suspended) : current # t /\ current' = t => a0' = stored[t]

Statuses == {"running", "stopped", "exception", "undefined"}

\* As many places as threads: the thread on the processor waits in no queue.
LEMMA OnePlaceEach ==
  ASSUME NEW s \in Seq(Tids), NEW b \in Seq(Tids), NEW c \in Tids, NEW T,
         T = (ToSet(s) \cup ToSet(b)) \cup {c},
         Len(s) + Len(b) + 1 = Cardinality(T)
  PROVE  c \notin ToSet(s) \cup ToSet(b)
<1> DEFINE W == ToSet(s) \cup ToSet(b)
           P == ToSet(s)
           Q == ToSet(b)
<1>1. IsFiniteSet(P) /\ Cardinality(P) \in Nat /\ Cardinality(P) <= Len(s)
  BY QueueSet
<1>2. IsFiniteSet(Q) /\ Cardinality(Q) \in Nat /\ Cardinality(Q) <= Len(b)
  BY QueueSet
<1>3. Len(s) \in Nat /\ Len(b) \in Nat
  BY LenProperties
<1> HIDE DEF P, Q
<1>4. IsFiniteSet(P \cup Q) /\ Cardinality(P \cup Q) = Cardinality(P) + Cardinality(Q) - Cardinality(P \cap Q)
  BY <1>1, <1>2, FS_Union
<1>5. Cardinality(P \cap Q) \in Nat
  <2>1. IsFiniteSet(P \cap Q)
    BY <1>1, FS_Intersection
  <2> QED BY <2>1, FS_CardinalityType
<1>6. IsFiniteSet(W) /\ Cardinality(W) <= Len(s) + Len(b)
  <2>1. W = P \cup Q
    BY DEF P, Q
  <2> HIDE DEF W
  <2> QED BY <1>1, <1>2, <1>3, <1>4, <1>5, <2>1
<1>7. Cardinality(W) \in Nat
  BY <1>6, FS_CardinalityType
<1> HIDE DEF W
<1>8. SUFFICES ASSUME c \in W PROVE FALSE
  BY DEF W
<1>9. T = W
  BY <1>8 DEF W
<1>10. Cardinality(T) = Cardinality(W)
  BY <1>9
<1> DEFINE n == Cardinality(W)
           l == Len(s)
           m == Len(b)
<1>11. l + m + 1 = n /\ n <= l + m /\ l \in Nat /\ m \in Nat /\ n \in Nat
  BY <1>3, <1>6, <1>7, <1>10
<1> HIDE DEF n, l, m
<1> QED BY <1>11

\* There are finitely many threads.
LEMMA LiveFinite ==
  ASSUME NEW T \in SUBSET Tids
  PROVE  IsFiniteSet(T) /\ Cardinality(T) \in Nat
<1>1. IsFiniteSet(Tids)
  BY GuestAssumption, FS_Interval DEF Tids
<1>2. IsFiniteSet(T)
  BY <1>1, FS_Subset
<1> QED BY <1>2, FS_CardinalityType

\* What one call has to leave typed when it touches no queue.
LEMMA TidFacts ==
  /\ 0 \in Tids /\ Tids \subseteq Nat
  /\ Stale \in Int /\ Stale < 0 /\ Error \in Int /\ Error # Stale
  /\ \A n \in Nat : n # Stale
BY GuestAssumption DEF Tids, Stale, Error

\* Saving and resuming keeps the registers' type.
LEMMA ResumeType ==
  ASSUME NEW t \in Tids, NEW live, NEW saved \in [Tids -> Int], status \in Statuses,
         Resume(t, live, saved)
  PROVE  /\ current' = t
         /\ stored' \in [Tids -> Int] /\ a0' \in Int
         /\ status' \in Statuses
         /\ status' = "running" => t \in live /\ a0' = saved[t] /\ stored' = [saved EXCEPT ![t] = Stale]
         /\ t \in live => a0' = saved[t] /\ stored' = [saved EXCEPT ![t] = Stale] /\ status' = status
BY TidFacts DEF Resume, Statuses

\* One thread leaves the processor and another, that was waiting, enters it.
LEMMA Switch ==
  ASSUME ThreadsInv, status = "running", NEW t \in Tids, NEW v \in Int,
         Resume(t, threads, Save(current, v)),
         UNCHANGED <<guest, threads, counter>>,
         suspended' \in Seq(Tids), blocked' \in Seq(Tids),
         (ToSet(suspended') \cup ToSet(blocked')) \cup {t} = Waiting \cup {current},
         WellBehaved => /\ v # Stale /\ 0 \notin ToSet(blocked')
                        /\ Len(suspended') + Len(blocked') = Len(suspended) + Len(blocked)
  PROVE  /\ current' \in Tids /\ stored' \in [Tids -> Int] /\ a0' \in Int
         /\ status' \in Statuses
         /\ status' = "running" => Reachable' /\ (WellBehaved => Tight' /\ Fresh')
         /\ Delivers
<1>0. TypeOK /\ Reachable /\ (WellBehaved => Tight /\ Fresh)
  BY DEF ThreadsInv
<1>1. Save(current, v) \in [Tids -> Int]
  BY <1>0 DEF Save, TypeOK
<1> DEFINE saved == Save(current, v)
<1>2. \A x \in Tids : saved[x] = IF x = current THEN v ELSE stored[x]
  BY <1>0 DEF Save, TypeOK
<1> HIDE DEF saved
<1>3. /\ current' = t
      /\ stored' \in [Tids -> Int] /\ a0' \in Int
      /\ status' \in Statuses
      /\ status' = "running" => t \in threads /\ a0' = saved[t] /\ stored' = [saved EXCEPT ![t] = Stale]
      /\ t \in threads => a0' = saved[t]
  BY <1>0, <1>1, ResumeType DEF saved, TypeOK, Statuses
<1>4. Waiting' = ToSet(suspended') \cup ToSet(blocked')
  BY DEF Waiting
<1>5. ASSUME status' = "running" PROVE Reachable'
  BY <1>0, <1>3, <1>4, <1>5 DEF Reachable
<1>6. ASSUME WellBehaved PROVE Tight'
  BY <1>0, <1>3, <1>4, <1>6 DEF Tight
<1>7. ASSUME WellBehaved PROVE t \in threads /\ a0' = saved[t]
  BY <1>0, <1>3, <1>7 DEF Tight
<1>8. ASSUME WellBehaved, status' = "running" PROVE Fresh'
  <2>1. Waiting \subseteq Tids /\ Waiting' \subseteq Tids
    <3>1. ToSet(suspended) \subseteq Tids /\ ToSet(blocked) \subseteq Tids
      BY <1>0, QueueSet DEF TypeOK
    <3>2. ToSet(suspended') \subseteq Tids /\ ToSet(blocked') \subseteq Tids
      BY QueueSet
    <3> QED BY <1>4, <3>1, <3>2 DEF Waiting
  <2>2. \A x \in Waiting' \cup {t} : saved[x] # Stale
    BY <1>0, <1>2, <1>4, <1>8, <2>1 DEF Fresh
  <2>3. t \notin Waiting'
    <3>1. threads = (ToSet(suspended') \cup ToSet(blocked')) \cup {t}
      BY <1>0, <1>8 DEF Tight
    <3>2. Len(suspended') + Len(blocked') + 1 = Cardinality(threads)
      BY <1>0, <1>8 DEF Tight
    <3> QED BY <1>4, <3>1, <3>2, OnePlaceEach
  <2>4. \A x \in Waiting' : stored'[x] = saved[x]
    BY <1>1, <1>3, <1>8, <2>1, <2>3 DEF saved
  <2> QED BY <1>3, <1>8, <2>2, <2>4 DEF Fresh
<1>9. current' \in Tids
  BY <1>3
<1>10. Delivers
  BY <1>2, <1>3, <1>7 DEF Delivers
<1> QED BY <1>3, <1>5, <1>6, <1>8, <1>9, <1>10

\* The next thread of a queue enters the processor.
LEMMA WakeupNextQueue ==
  ASSUME NEW live, NEW saved, NEW queue \in Seq(Tids), queue # << >>, WakeupNext(live, saved, queue)
  PROVE  /\ Head(queue) \in Tids /\ Resume(Head(queue), live, saved)
         /\ suspended' \in Seq(Tids) /\ Len(suspended') + 1 = Len(queue) /\ Len(suspended') \in Nat
         /\ ToSet(suspended') \cup {Head(queue)} = ToSet(queue)
         /\ Head(queue) \in ToSet(queue)
<1>1. suspended' = Tail(queue) /\ Resume(Head(queue), live, saved)
  BY DEF WakeupNext
<1>2. /\ Tail(queue) \in Seq(Tids) /\ Head(queue) \in Tids
      /\ Len(Tail(queue)) + 1 = Len(queue)
      /\ ToSet(Tail(queue)) \cup {Head(queue)} = ToSet(queue)
      /\ Head(queue) \in ToSet(queue)
  BY HeadTailSet
<1>3. Len(Tail(queue)) \in Nat
  BY <1>2, LenProperties
<1> QED BY <1>1, <1>2, <1>3

-----------------------------------------------------------------------------
(* What a call leaves typed apart from the queues.                         *)

RestTyped ==
  /\ reason \in [Tids -> 0 .. WordSpan - 1] /\ bits \in [Tids -> SUBSET AllBits]
  /\ clearTid \in [Tids -> Addr \cup {Null}] /\ mem \in [Addr -> Int]

LEMMA TypeParts ==
  ASSUME RestTyped', UNCHANGED <<guest, threads, counter>>, TypeOK,
         suspended' \in Seq(Tids), blocked' \in Seq(Tids),
         current' \in Tids, stored' \in [Tids -> Int], a0' \in Int, status' \in Statuses
  PROVE  TypeOK'
<1>1. guest' \in Guests /\ threads' \subseteq Tids /\ counter' \in Tids
  BY DEF TypeOK
<1>2. /\ reason' \in [Tids -> 0 .. WordSpan - 1] /\ bits' \in [Tids -> SUBSET AllBits]
      /\ clearTid' \in [Tids -> Addr \cup {Null}] /\ mem' \in [Addr -> Int]
  BY DEF RestTyped
<1> QED BY <1>1, <1>2 DEF TypeOK, Statuses

LEMMA RestUnchanged ==
  ASSUME TypeOK, UNCHANGED <<reason, bits, clearTid, mem>>
  PROVE  RestTyped'
BY DEF TypeOK, RestTyped

\* The thread on the processor is answered and goes on, or the machine stops.
LEMMA Quiet ==
  ASSUME ThreadsInv, UNCHANGED <<guest, threads, current, suspended, blocked, stored, counter>>,
         RestTyped', a0' \in Int, status' \in Statuses,
         status' = "running" => status = "running" /\ (WellBehaved => a0' # Stale)
  PROVE  ThreadsInv' /\ Delivers
<1>0. TypeOK
  BY DEF ThreadsInv
<1>1. TypeOK'
  BY <1>0, TypeParts DEF TypeOK
<1>2. Waiting' = Waiting /\ WellBehaved' = WellBehaved
  BY DEF Waiting, WellBehaved
<1>3. ASSUME status' = "running" PROVE Reachable'
  BY <1>2, <1>3 DEF ThreadsInv, Reachable
<1>4. ASSUME status' = "running", WellBehaved PROVE Tight' /\ Fresh'
  BY <1>2, <1>4 DEF ThreadsInv, Tight, Fresh
<1>5. Delivers
  BY DEF Delivers
<1> QED BY <1>1, <1>2, <1>3, <1>4, <1>5 DEF ThreadsInv

\* A thread that leaves the processor and one that enters it, with the rest.
LEMMA SwitchStep ==
  ASSUME ThreadsInv, status = "running", NEW t \in Tids, NEW v \in Int,
         Resume(t, threads, Save(current, v)),
         UNCHANGED <<guest, threads, counter>>,
         suspended' \in Seq(Tids), blocked' \in Seq(Tids), RestTyped',
         (ToSet(suspended') \cup ToSet(blocked')) \cup {t} = Waiting \cup {current},
         WellBehaved => /\ v # Stale /\ 0 \notin ToSet(blocked')
                        /\ Len(suspended') + Len(blocked') = Len(suspended) + Len(blocked)
  PROVE  ThreadsInv' /\ Delivers
<1>0. TypeOK
  BY DEF ThreadsInv
<1>1. /\ current' \in Tids /\ stored' \in [Tids -> Int] /\ a0' \in Int
      /\ status' \in Statuses
      /\ status' = "running" => Reachable' /\ (WellBehaved => Tight' /\ Fresh')
      /\ Delivers
  BY Switch
<1>2. TypeOK'
  BY <1>0, <1>1, TypeParts
<1>3. WellBehaved' = WellBehaved
  BY DEF WellBehaved
<1> QED BY <1>1, <1>2, <1>3 DEF ThreadsInv

\* suspend() and wakeup_next(): the caller goes to the end of the queue.
LEMMA YieldStep ==
  ASSUME ThreadsInv, status = "running", NEW v \in Int,
         WakeupNext(threads, Save(current, v), Append(suspended, current)),
         UNCHANGED <<guest, threads, counter, blocked>>, RestTyped',
         WellBehaved => v # Stale
  PROVE  ThreadsInv' /\ Delivers
<1>0. TypeOK /\ suspended \in Seq(Tids) /\ blocked \in Seq(Tids) /\ current \in Tids
  BY DEF ThreadsInv, TypeOK
<1>1. PICK q \in Seq(Tids) : q = Append(suspended, current)
  BY <1>0, AppendSet
<1>2. q # << >> /\ Len(q) = Len(suspended) + 1 /\ Len(suspended) \in Nat /\ ToSet(q) = ToSet(suspended) \cup {current}
  BY <1>0, <1>1, AppendSet
<1>3. /\ Head(q) \in Tids /\ Resume(Head(q), threads, Save(current, v))
      /\ suspended' \in Seq(Tids) /\ Len(suspended') + 1 = Len(q) /\ Len(suspended') \in Nat
      /\ ToSet(suspended') \cup {Head(q)} = ToSet(q)
  BY <1>1, <1>2, WakeupNextQueue
<1>4. blocked' \in Seq(Tids) /\ ToSet(blocked') = ToSet(blocked) /\ Len(blocked') = Len(blocked)
  BY <1>0
<1>5. (ToSet(suspended') \cup ToSet(blocked')) \cup {Head(q)} = Waiting \cup {current}
  BY <1>2, <1>3, <1>4 DEF Waiting
<1>6. Len(suspended') + Len(blocked') = Len(suspended) + Len(blocked)
  BY <1>2, <1>3, <1>4
<1>7. WellBehaved => 0 \notin ToSet(blocked')
  BY <1>4 DEF ThreadsInv, Tight
<1> QED BY <1>3, <1>4, <1>5, <1>6, <1>7, SwitchStep

\* block(): the caller goes to the blocked threads.
LEMMA BlockStep ==
  ASSUME ThreadsInv, Running, MayBlock, CanBlock, NEW v \in Nat, NEW word \in Nat, NEW extra \in SUBSET AllBits,
         Block(v, word, extra), UNCHANGED <<guest, threads, counter, clearTid, mem>>
  PROVE  ThreadsInv' /\ Delivers
<1>0. TypeOK /\ suspended \in Seq(Tids) /\ blocked \in Seq(Tids) /\ current \in Tids /\ status = "running"
  BY DEF ThreadsInv, TypeOK, Running
<1>1. /\ blocked' \in Seq(Tids) /\ Len(blocked') = Len(blocked) + 1 /\ Len(blocked) \in Nat
      /\ ToSet(blocked') = ToSet(blocked) \cup {current}
  BY <1>0, AppendSet DEF Block
<1>2. /\ Head(suspended) \in Tids /\ Resume(Head(suspended), threads, Save(current, v))
      /\ suspended' \in Seq(Tids) /\ Len(suspended') + 1 = Len(suspended) /\ Len(suspended') \in Nat
      /\ ToSet(suspended') \cup {Head(suspended)} = ToSet(suspended)
  BY <1>0, WakeupNextQueue DEF Block, CanBlock
<1>3. RestTyped'
  <2>1. word % WordSpan \in 0 .. WordSpan - 1
    BY GuestAssumption
  <2>2. reason' \in [Tids -> 0 .. WordSpan - 1] /\ bits' \in [Tids -> SUBSET AllBits]
    BY <1>0, <2>1 DEF Block, TypeOK
  <2> QED BY <1>0, <2>2 DEF RestTyped, TypeOK
<1>4. (ToSet(suspended') \cup ToSet(blocked')) \cup {Head(suspended)} = Waiting \cup {current}
  BY <1>1, <1>2 DEF Waiting
<1>5. Len(suspended') + Len(blocked') = Len(suspended) + Len(blocked)
  BY <1>1, <1>2
<1>6. WellBehaved => 0 \notin ToSet(blocked')
  <2> SUFFICES ASSUME WellBehaved PROVE 0 \notin ToSet(blocked')
    OBVIOUS
  <2>1. current # 0
    BY DEF WellBehaved, MayBlock, Liberties
  <2>2. 0 \notin ToSet(blocked)
    BY <1>0 DEF ThreadsInv, Tight
  <2> QED BY <1>1, <2>1, <2>2
<1>7. v \in Int /\ v # Stale
  BY TidFacts
<1> QED BY <1>0, <1>1, <1>2, <1>3, <1>4, <1>5, <1>6, <1>7, SwitchStep

\* A set of indices and what it leaves.
LEMMA SplitSize ==
  ASSUME NEW n \in Nat, NEW W \in SUBSET (1 .. n)
  PROVE  Cardinality((1 .. n) \ W) + Cardinality(W) = n
<1> DEFINE V == (1 .. n) \ W
           N == 1 .. n
<1>1. IsFiniteSet(N) /\ Cardinality(N) = n
  <2>1. Cardinality(N) = IF 1 > n THEN 0 ELSE n - 1 + 1
    BY FS_Interval
  <2>2. IsFiniteSet(N)
    BY FS_Interval
  <2> QED BY <2>1, <2>2
<1>2. V \cup W = N /\ V \cap W = {} /\ V \in SUBSET N /\ W \in SUBSET N
  OBVIOUS
<1> HIDE DEF N, V
<1>3. IsFiniteSet(V) /\ IsFiniteSet(W)
  BY <1>1, <1>2, FS_Subset
<1>4. Cardinality(V) \in Nat /\ Cardinality(W) \in Nat
  BY <1>3, FS_CardinalityType
<1>5. Cardinality(V \cup W) = Cardinality(V) + Cardinality(W) - Cardinality(V \cap W)
  BY <1>3, FS_Union
<1>6. Cardinality(V \cap W) = 0
  BY <1>2, FS_EmptySet
<1>7. Cardinality(V) + Cardinality(W) = n
  BY <1>1, <1>2, <1>4, <1>5, <1>6
<1> QED BY <1>7 DEF V

\* wakeup_blocked(): threads move from one queue to the other.
LEMMA WakeStep ==
  ASSUME ThreadsInv, Running, NEW max, NEW word, NEW mask,
         WakeupBlocked(max, word, mask),
         UNCHANGED <<guest, threads, current, stored, reason, bits, clearTid, counter, mem, status>>,
         a0' = a0 \/ a0' \in Nat \cup {Error}
  PROVE  ThreadsInv' /\ Delivers
<1>0. TypeOK /\ suspended \in Seq(Tids) /\ blocked \in Seq(Tids) /\ current \in Tids /\ status = "running"
  BY DEF ThreadsInv, TypeOK, Running
<1>1. Len(blocked) \in Nat /\ DOMAIN blocked = 1 .. Len(blocked)
  BY <1>0, LenProperties
<1>2. PICK W \in SUBSET (1 .. Len(blocked)) : W = Awakened(max, word, mask)
  BY <1>1 DEF Awakened
<1>3. PICK V \in SUBSET (1 .. Len(blocked)) : V = (1 .. Len(blocked)) \ W
  OBVIOUS
<1>4. /\ PickFrom(blocked, W) \in Seq(Tids) /\ IsFiniteSet(W) /\ Cardinality(W) \in Nat
      /\ Len(PickFrom(blocked, W)) = Cardinality(W)
      /\ ToSet(PickFrom(blocked, W)) = {blocked[i] : i \in W}
  BY <1>0, PickFromSet
<1>5. /\ PickFrom(blocked, V) \in Seq(Tids) /\ IsFiniteSet(V) /\ Cardinality(V) \in Nat
      /\ Len(PickFrom(blocked, V)) = Cardinality(V)
      /\ ToSet(PickFrom(blocked, V)) = {blocked[i] : i \in V}
  BY <1>0, PickFromSet
<1>6. Cardinality(V) + Cardinality(W) = Len(blocked)
  BY <1>1, <1>3, SplitSize
<1>7. suspended' = suspended \o PickFrom(blocked, W) /\ blocked' = PickFrom(blocked, V)
  BY <1>1, <1>2, <1>3 DEF WakeupBlocked
<1>8. /\ suspended' \in Seq(Tids) /\ Len(suspended') = Len(suspended) + Cardinality(W) /\ Len(suspended) \in Nat
      /\ ToSet(suspended') = ToSet(suspended) \cup {blocked[i] : i \in W}
  <2>1. PICK p \in Seq(Tids) : p = PickFrom(blocked, W)
    BY <1>4
  <2>2. /\ suspended \o p \in Seq(Tids) /\ Len(suspended \o p) = Len(suspended) + Len(p) /\ Len(suspended) \in Nat
        /\ ToSet(suspended \o p) = ToSet(suspended) \cup ToSet(p)
    BY <1>0, <2>1, ConcatSet
  <2>3. suspended' = suspended \o p
    BY <1>7, <2>1
  <2>4. Len(p) = Cardinality(W) /\ ToSet(p) = {blocked[i] : i \in W}
    BY <1>4, <2>1
  <2> QED BY <2>2, <2>3, <2>4
<1>9. /\ blocked' \in Seq(Tids) /\ Len(blocked') = Cardinality(V)
      /\ ToSet(blocked') = {blocked[i] : i \in V}
  BY <1>5, <1>7
<1>10. ToSet(blocked) = {blocked[i] : i \in 1 .. Len(blocked)}
  BY <1>1 DEF ToSet
<1>11. {blocked[i] : i \in W} \cup {blocked[i] : i \in V} = {blocked[i] : i \in 1 .. Len(blocked)}
  BY <1>3
<1>12. Waiting' = Waiting
  BY <1>8, <1>9, <1>10, <1>11 DEF Waiting
<1>13. Len(suspended') + Len(blocked') = Len(suspended) + Len(blocked)
  <2> DEFINE x == Cardinality(V)
             y == Cardinality(W)
             l == Len(suspended)
             m == Len(blocked)
  <2>1. x \in Nat /\ y \in Nat /\ l \in Nat /\ m \in Nat /\ x + y = m
    BY <1>1, <1>4, <1>5, <1>6, <1>8
  <2>2. Len(suspended') = l + y /\ Len(blocked') = x
    BY <1>8, <1>9
  <2> HIDE DEF x, y, l, m
  <2>3. (l + y) + x = l + m
    BY <2>1
  <2> QED BY <2>2, <2>3 DEF l, m
<1>14. ToSet(blocked') \subseteq ToSet(blocked)
  BY <1>9, <1>10, <1>11
<1>15. a0' \in Int /\ (a0' = a0 \/ a0' # Stale)
  BY <1>0, TidFacts DEF TypeOK
<1>16. TypeOK'
  <2>1. RestTyped'
    BY <1>0, RestUnchanged
  <2>2. current' \in Tids /\ stored' \in [Tids -> Int] /\ status' \in Statuses
    BY <1>0 DEF TypeOK, Statuses
  <2> QED BY <1>0, <1>8, <1>9, <1>15, <2>1, <2>2, TypeParts
<1>17. WellBehaved' = WellBehaved
  BY DEF WellBehaved
<1>18. Reachable'
  BY <1>0, <1>12 DEF ThreadsInv, Reachable
<1>19. ASSUME WellBehaved PROVE Tight' /\ Fresh'
  BY <1>0, <1>12, <1>13, <1>14, <1>15, <1>19 DEF ThreadsInv, Tight, Fresh
<1>20. Delivers
  BY DEF Delivers
<1> QED BY <1>16, <1>17, <1>18, <1>19, <1>20 DEF ThreadsInv

\* create(): the child takes the processor and its parent waits.
LEMMA CreateStep ==
  ASSUME ThreadsInv, Running, NEW flags, NEW ctid, NEW ptid, NEW clear \in Addr \cup {Null},
         Create(flags, ctid, ptid, clear),
         UNCHANGED <<guest, blocked, reason, bits>>
  PROVE  ThreadsInv' /\ Delivers
<1>0. /\ TypeOK /\ suspended \in Seq(Tids) /\ blocked \in Seq(Tids) /\ current \in Tids /\ status = "running"
      /\ stored \in [Tids -> Int] /\ threads \in SUBSET Tids /\ counter \in Tids /\ mem \in [Addr -> Int]
      /\ clearTid \in [Tids -> Addr \cup {Null}]
  BY DEF ThreadsInv, TypeOK, Running
<1>1. CASE Cardinality(threads) >= MaxThreads
  <2>1. /\ UNCHANGED <<threads, current, suspended, stored, clearTid, counter, a0, mem>>
        /\ status' = "exception"
    BY <1>1 DEF Create
  <2>2. RestTyped' /\ a0' \in Int /\ status' \in Statuses
    BY <1>0, <2>1, RestUnchanged DEF TypeOK, Statuses
  <2> QED BY <2>1, <2>2, Quiet
<1>2. CASE ~(Cardinality(threads) >= MaxThreads)
  <2>1. PICK tid \in Tids : tid = counter + 1
    BY <1>2 DEF Create
  <2>2. /\ counter' = tid /\ threads' = threads \cup {tid}
        /\ clearTid' = [clearTid EXCEPT ![tid] = clear]
        /\ suspended' = Append(suspended, current)
        /\ stored' = [stored EXCEPT ![current] = tid]
        /\ current' = tid /\ a0' = 0 /\ status' = status
    BY <1>2, <2>1 DEF Create, Save
  <2>3. mem' \in [Addr -> Int]
    <3>1. mem' = [a \in Addr |-> IF \/ a = ctid /\ "child_settid" \in flags
                                    \/ a = ptid /\ "parent_settid" \in flags
                                   THEN tid ELSE mem[a]]
      BY <1>2, <2>1 DEF Create
    <3> QED BY <1>0, <3>1, TidFacts
  <2>4. /\ suspended' \in Seq(Tids) /\ Len(suspended') = Len(suspended) + 1 /\ Len(suspended) \in Nat
        /\ ToSet(suspended') = ToSet(suspended) \cup {current}
    BY <1>0, <2>2, AppendSet
  <2>5. TypeOK'
    <3>1. /\ threads' \subseteq Tids /\ current' \in Tids /\ stored' \in [Tids -> Int] /\ counter' \in Tids
          /\ a0' \in Int /\ clearTid' \in [Tids -> Addr \cup {Null}]
      BY <1>0, <2>2, TidFacts
    <3> QED BY <1>0, <2>2, <2>3, <2>4, <3>1 DEF TypeOK
  <2>6. tid \notin threads /\ threads \cup {tid} \subseteq 0 .. counter'
    <3>1. threads \subseteq 0 .. counter
      BY <1>0 DEF ThreadsInv, Reachable
    <3> QED BY <1>0, <2>1, <2>2, <3>1, TidFacts
  <2>7. Waiting' = Waiting \cup {current}
    BY <2>4 DEF Waiting
  <2>8. Reachable'
    BY <1>0, <2>2, <2>6, <2>7 DEF ThreadsInv, Reachable
  <2>9. ASSUME WellBehaved PROVE Tight' /\ Fresh' /\ Delivers
    <3>0. Tight /\ Fresh
      BY <1>0, <2>9 DEF ThreadsInv
    <3>1. IsFiniteSet(threads) /\ Cardinality(threads) \in Nat
      BY <1>0, LiveFinite
    <3>2. Cardinality(threads') = Cardinality(threads) + 1
      BY <2>2, <2>6, <3>1, FS_AddElement
    <3>3. Len(blocked) \in Nat
      BY <1>0, LenProperties
    <3>4. Len(suspended') + Len(blocked') + 1 = Cardinality(threads')
      BY <2>4, <3>0, <3>1, <3>2, <3>3 DEF Tight
    <3>5. Tight'
      BY <2>2, <2>7, <3>0, <3>4 DEF Tight
    <3>6. Waiting \subseteq threads /\ current \in threads
      BY <3>0 DEF Tight
    <3>7. tid # Stale /\ a0' # Stale
      BY <2>2, TidFacts
    <3>8. Fresh'
      BY <1>0, <2>2, <2>7, <3>0, <3>6, <3>7 DEF Fresh
    <3>9. Delivers
      BY <2>2, <2>6, <3>6 DEF Delivers, Waiting
    <3> QED BY <3>5, <3>8, <3>9
  <2>10. WellBehaved' = WellBehaved
    BY DEF WellBehaved
  <2>11. Delivers
    BY <2>9 DEF Delivers
  <2> QED BY <2>5, <2>8, <2>9, <2>10, <2>11 DEF ThreadsInv
<1> QED BY <1>1, <1>2

\* exit(): a thread goes for good; the main thread never does.
LEMMA ExitStep ==
  ASSUME ThreadsInv, Running, NEW t \in threads, NEW saved \in [Tids -> Int],
         NEW ended \in {"stopped", status}, NEW answer \in Int,
         Exit(t, saved, ended, answer), UNCHANGED guest,
         WellBehaved => t = current /\ saved = stored /\ ended = "stopped"
  PROVE  ThreadsInv' /\ Delivers
<1>0. /\ TypeOK /\ suspended \in Seq(Tids) /\ blocked \in Seq(Tids) /\ current \in Tids /\ status = "running"
      /\ stored \in [Tids -> Int] /\ threads \in SUBSET Tids /\ t \in Tids /\ mem \in [Addr -> Int] /\ a0 \in Int
      /\ Reachable /\ (WellBehaved => Tight /\ Fresh)
  BY DEF ThreadsInv, TypeOK, Running
<1>1. RestTyped' /\ UNCHANGED <<blocked, counter>> /\ threads' = threads \ ({t} \ {0})
  <2>0. mem' = IF clearTid[t] = Null THEN mem ELSE [mem EXCEPT ![clearTid[t]] = 0]
    BY DEF Exit
  <2>1. mem' \in [Addr -> Int]
    <3>1. \A c \in Addr : [mem EXCEPT ![c] = 0] \in [Addr -> Int]
      BY <1>0
    <3>2. clearTid[t] \in Addr \cup {Null}
      BY <1>0 DEF TypeOK
    <3> QED BY <1>0, <2>0, <3>1, <3>2
  <2> QED BY <1>0, <2>1 DEF Exit, RestTyped, TypeOK
<1>2. WellBehaved' = WellBehaved
  BY DEF WellBehaved
<1>3. CASE t = 0
  <2>1. UNCHANGED <<threads, current, suspended, stored>> /\ status' = ended /\ a0' = answer
    BY <1>1, <1>3 DEF Exit
  <2>2. status' \in Statuses /\ (status' = "running" => ~WellBehaved)
    BY <1>0, <2>1 DEF Statuses
  <2> QED BY <1>0, <1>1, <2>1, <2>2, Quiet
<1>4. CASE t # 0 /\ t # current
  <2>1. UNCHANGED <<current, suspended, stored, a0, status>> /\ threads' = threads \ {t}
    BY <1>1, <1>4 DEF Exit
  <2>2. Waiting' = Waiting /\ ~WellBehaved
    BY <1>1, <1>4, <2>1 DEF Waiting
  <2>3. Reachable'
    BY <1>0, <1>1, <1>4, <2>1, <2>2 DEF Reachable
  <2>4. TypeOK'
    <3>1. threads' \subseteq Tids
      BY <1>0, <2>1
    <3> QED BY <1>0, <1>1, <2>1, <3>1 DEF TypeOK, RestTyped
  <2> QED BY <1>2, <2>2, <2>3, <2>4 DEF ThreadsInv, Delivers
<1>5. CASE t # 0 /\ t = current
  <2>1. WakeupNext(threads \ {t}, saved, suspended) /\ threads' = threads \ {t}
    BY <1>1, <1>5 DEF Exit
  <2>2. threads' \subseteq Tids /\ threads' \subseteq Waiting /\ 0 \in threads' /\ threads' \subseteq 0 .. counter'
    BY <1>0, <1>1, <1>5, <2>1 DEF Reachable
  <2>3. CASE suspended = << >>
    <3>1. suspended' = suspended /\ Resume(0, threads \ {t}, saved)
      BY <2>1, <2>3 DEF WakeupNext
    <3>2. current' = 0 /\ stored' \in [Tids -> Int] /\ a0' \in Int /\ status' \in Statuses
      BY <1>0, <3>1, TidFacts, ResumeType DEF TypeOK, Statuses
    <3>3. TypeOK'
      BY <1>0, <1>1, <2>2, <3>1, <3>2, TidFacts DEF TypeOK, RestTyped, Statuses
    <3>4. Waiting' = Waiting
      BY <1>1, <3>1 DEF Waiting
    <3>5. Reachable'
      BY <2>2, <3>2, <3>4 DEF Reachable
    <3>6. ~WellBehaved
      <4>1. ToSet(suspended) = {}
        BY <2>3 DEF ToSet
      <4> QED BY <1>0, <1>5, <4>1 DEF Tight, Waiting, Reachable
    <3> QED BY <1>2, <3>3, <3>5, <3>6 DEF ThreadsInv, Delivers
  <2>4. CASE suspended # << >>
    <3>0. PICK h \in Tids : h = Head(suspended)
      BY <1>0, <2>1, <2>4, WakeupNextQueue
    <3>1. /\ Resume(h, threads \ {t}, saved)
          /\ suspended' \in Seq(Tids) /\ Len(suspended') + 1 = Len(suspended) /\ Len(suspended') \in Nat
          /\ ToSet(suspended') \cup {h} = ToSet(suspended)
          /\ h \in ToSet(suspended)
      BY <1>0, <2>1, <2>4, <3>0, WakeupNextQueue
    <3>2. /\ current' = h /\ stored' \in [Tids -> Int] /\ a0' \in Int /\ status' \in Statuses
          /\ status' = "running" => h \in threads' /\ a0' = saved[h] /\ stored' = [saved EXCEPT ![h] = Stale]
          /\ h \in threads' => a0' = saved[h]
      BY <1>0, <2>1, <3>1, ResumeType DEF TypeOK, Statuses
    <3>3. TypeOK'
      BY <1>0, <1>1, <2>2, <3>1, <3>2 DEF TypeOK, RestTyped, Statuses
    <3>4. Waiting' \cup {h} = Waiting
      BY <1>1, <3>1 DEF Waiting
    <3>5. ASSUME status' = "running" PROVE Reachable'
      BY <2>2, <3>2, <3>4, <3>5 DEF Reachable
    <3>6. ASSUME WellBehaved PROVE Tight' /\ (status' = "running" => Fresh') /\ Delivers
      <4>0. Tight /\ Fresh /\ saved = stored
        BY <1>0, <3>6
      <4>1. current \notin Waiting
        BY <1>0, <4>0, OnePlaceEach DEF Tight, Waiting
      <4>2. threads' = Waiting /\ h \in threads'
        BY <1>5, <2>1, <3>1, <4>0, <4>1 DEF Tight, Waiting
      <4>3. IsFiniteSet(threads) /\ Cardinality(threads) \in Nat
        BY <1>0, LiveFinite
      <4>4. Cardinality(threads') = Cardinality(threads) - 1
        BY <2>1, <4>3, FS_RemoveElement
      <4>5. Len(blocked) \in Nat /\ Len(blocked') = Len(blocked)
        BY <1>0, <1>1, LenProperties
      <4>6. Len(suspended') + Len(blocked') + 1 = Cardinality(threads')
        BY <3>1, <4>0, <4>3, <4>4, <4>5 DEF Tight
      <4>7. Tight'
        <5>1. 0 \notin ToSet(blocked')
          BY <1>1, <4>0 DEF Tight
        <5> QED BY <3>2, <3>4, <4>2, <4>6, <5>1 DEF Tight
      <4>8. h \notin Waiting'
        <5>1. blocked' \in Seq(Tids)
          BY <1>0, <1>1
        <5>2. threads' = (ToSet(suspended') \cup ToSet(blocked')) \cup {h}
          BY <3>4, <4>2 DEF Waiting
        <5>3. h \notin ToSet(suspended') \cup ToSet(blocked')
          BY <3>1, <4>6, <5>1, <5>2, OnePlaceEach
        <5> QED BY <5>3 DEF Waiting
      <4>9. Waiting \subseteq Tids
        BY <2>2, <4>2
      <4>10. a0' = stored[h]
        BY <3>2, <4>0, <4>2
      <4>11. ASSUME status' = "running" PROVE Fresh'
        <5>1. \A x \in Waiting' : stored'[x] = stored[x]
          BY <1>0, <3>2, <3>4, <4>0, <4>8, <4>9, <4>11
        <5>2. h \in Waiting
          BY <4>2
        <5> QED BY <3>4, <4>0, <4>10, <5>1, <5>2 DEF Fresh
      <4>12. Delivers
        BY <3>2, <4>10 DEF Delivers
      <4> QED BY <4>7, <4>11, <4>12
    <3>7. Delivers
      BY <3>6 DEF Delivers
    <3> QED BY <1>2, <3>3, <3>5, <3>6, <3>7 DEF ThreadsInv
  <2> QED BY <2>3, <2>4
<1> QED BY <1>3, <1>4, <1>5

LEMMA YieldToStep ==
  ASSUME ThreadsInv, NEW t \in Tids, YieldTo(t), UNCHANGED guest
  PROVE  ThreadsInv' /\ Delivers
<1>0. /\ TypeOK /\ suspended \in Seq(Tids) /\ blocked \in Seq(Tids) /\ current \in Tids /\ status = "running"
      /\ Reachable /\ (WellBehaved => Tight /\ Fresh)
  BY DEF ThreadsInv, TypeOK, Running, YieldTo, Native
<1>1. RestTyped' /\ UNCHANGED <<threads, blocked, counter>>
  BY <1>0, RestUnchanged DEF YieldTo
<1>2. CASE t \notin threads \/ t = current
  <2>1. UNCHANGED <<current, suspended, stored, status>> /\ (a0' = 0 \/ a0' = Error)
    BY <1>2 DEF YieldTo
  <2>2. a0' \in Int /\ a0' # Stale /\ status' \in Statuses
    BY <1>0, <2>1, TidFacts DEF Statuses
  <2> QED BY <1>0, <1>1, <2>1, <2>2, Quiet
<1>3. CASE ~(t \notin threads \/ t = current)
  <2>1. suspended' = RemoveFirst(Append(suspended, current), t) /\ Resume(t, threads, Save(current, 0))
    BY <1>3 DEF YieldTo
  <2>2. PICK q \in Seq(Tids) : q = Append(suspended, current)
    BY <1>0, AppendSet
  <2>3. Len(q) = Len(suspended) + 1 /\ Len(suspended) \in Nat /\ ToSet(q) = ToSet(suspended) \cup {current}
    BY <1>0, <2>2, AppendSet
  <2>4. /\ suspended' \in Seq(Tids) /\ ToSet(q) \subseteq ToSet(suspended') \cup {t} /\ ToSet(suspended') \subseteq ToSet(q)
        /\ t \in ToSet(q) => Len(suspended') + 1 = Len(q)
    <3>1. suspended' = RemoveFirst(q, t)
      BY <2>1, <2>2
    <3>2. /\ RemoveFirst(q, t) \in Seq(Tids)
          /\ ToSet(q) \subseteq ToSet(RemoveFirst(q, t)) \cup {t}
          /\ ToSet(RemoveFirst(q, t)) \subseteq ToSet(q)
          /\ t \in ToSet(q) => Len(RemoveFirst(q, t)) + 1 = Len(q)
      BY RemoveFirstSet
    <3> QED BY <3>1, <3>2
  <2>5. t \in Waiting
    BY <1>0, <1>3 DEF Reachable
  <2>6. (ToSet(suspended') \cup ToSet(blocked')) \cup {t} = Waiting \cup {current}
    BY <1>1, <2>3, <2>4, <2>5 DEF Waiting
  <2>7. ASSUME WellBehaved
        PROVE  /\ 0 \notin ToSet(blocked')
               /\ Len(suspended') + Len(blocked') = Len(suspended) + Len(blocked)
    <3>1. 0 \notin ToSet(blocked')
      BY <1>0, <1>1, <2>7 DEF Tight
    <3>2. t \notin ToSet(blocked)
      BY <2>7 DEF YieldTo, WellBehaved, Liberties
    <3>3. Len(suspended') + 1 = Len(suspended) + 1
      BY <2>3, <2>4, <2>5, <3>2 DEF Waiting
    <3>4. Len(suspended') \in Nat /\ Len(blocked) \in Nat
      BY <1>0, <2>4, LenProperties
    <3>5. Len(suspended') = Len(suspended)
      BY <2>3, <3>3, <3>4
    <3> QED BY <1>1, <3>1, <3>5
  <2>8. 0 \in Int /\ 0 # Stale /\ blocked' \in Seq(Tids)
    BY <1>0, <1>1, TidFacts
  <2> QED BY <1>0, <1>1, <2>1, <2>4, <2>6, <2>7, <2>8, SwitchStep
<1> QED BY <1>2, <1>3

LEMMA UnblockThreadStep ==
  ASSUME ThreadsInv, NEW t \in Tids, UnblockThread(t), UNCHANGED guest
  PROVE  ThreadsInv' /\ Delivers
<1>0. /\ TypeOK /\ suspended \in Seq(Tids) /\ blocked \in Seq(Tids) /\ current \in Tids /\ status = "running"
      /\ Reachable /\ (WellBehaved => Tight /\ Fresh)
  BY DEF ThreadsInv, TypeOK, Running, UnblockThread, Native
<1>1. RestTyped' /\ UNCHANGED <<threads, counter>>
  BY <1>0, RestUnchanged DEF UnblockThread
<1>2. CASE t \notin ToSet(blocked)
  <2>1. UNCHANGED <<current, suspended, blocked, stored, status>> /\ a0' = Error
    BY <1>2 DEF UnblockThread
  <2>2. a0' \in Int /\ a0' # Stale /\ status' \in Statuses
    BY <1>0, <2>1, TidFacts DEF Statuses
  <2> QED BY <1>0, <1>1, <2>1, <2>2, Quiet
<1>3. CASE t \in ToSet(blocked)
  <2>1. /\ suspended' = Append(suspended, current) /\ blocked' = RemoveFirst(blocked, t)
        /\ Resume(t, threads, Save(current, 0))
    BY <1>3 DEF UnblockThread
  <2>2. /\ suspended' \in Seq(Tids) /\ Len(suspended') = Len(suspended) + 1 /\ Len(suspended) \in Nat
        /\ ToSet(suspended') = ToSet(suspended) \cup {current}
    BY <1>0, <2>1, AppendSet
  <2>3. /\ blocked' \in Seq(Tids) /\ ToSet(blocked) \subseteq ToSet(blocked') \cup {t} /\ ToSet(blocked') \subseteq ToSet(blocked)
        /\ Len(blocked') + 1 = Len(blocked) /\ Len(blocked) \in Nat
    BY <1>0, <1>3, <2>1, RemoveFirstSet
  <2>4. (ToSet(suspended') \cup ToSet(blocked')) \cup {t} = Waiting \cup {current}
    BY <1>3, <2>2, <2>3 DEF Waiting
  <2>5. Len(blocked') \in Nat
    BY <2>3, LenProperties
  <2>6. Len(suspended') + Len(blocked') = Len(suspended) + Len(blocked)
    BY <2>2, <2>3, <2>5
  <2>7. WellBehaved => 0 \notin ToSet(blocked')
    BY <1>0, <2>3 DEF Tight
  <2>8. 0 \in Int /\ 0 # Stale
    BY TidFacts
  <2> QED BY <1>0, <1>1, <2>1, <2>2, <2>3, <2>4, <2>6, <2>7, <2>8, SwitchStep
<1> QED BY <1>2, <1>3

\* suspend_and_yield(): nobody else can run, or the caller waits its turn.
LEMMA SuspendAndYieldStep ==
  ASSUME ThreadsInv, Running, NEW v \in {0, Error}, SuspendAndYield(v),
         UNCHANGED <<guest, threads, blocked, reason, bits, clearTid, counter, mem>>
  PROVE  ThreadsInv' /\ Delivers
<1>0. TypeOK /\ status = "running"
  BY DEF ThreadsInv, Running
<1>1. RestTyped' /\ v \in Int /\ v # Stale
  BY <1>0, RestUnchanged, TidFacts
<1>2. CASE suspended = << >>
  <2>1. UNCHANGED <<current, suspended, stored, status>> /\ a0' = v
    BY <1>2 DEF SuspendAndYield
  <2>2. status' \in Statuses
    BY <1>0, <2>1 DEF Statuses
  <2> QED BY <1>0, <1>1, <2>1, <2>2, Quiet
<1>3. CASE suspended # << >>
  <2>1. WakeupNext(threads, Save(current, v), Append(suspended, current))
    BY <1>3 DEF SuspendAndYield
  <2> QED BY <1>0, <1>1, <2>1, YieldStep
<1> QED BY <1>2, <1>3

-----------------------------------------------------------------------------
(* One step per call.                                                      *)

LEMMA FutexWaitStep ==
  ASSUME ThreadsInv, NEW a \in Addr, NEW v \in {0, 1}, NEW m \in Masks \cup {{}},
         FutexWait(a, v, m), UNCHANGED guest
  PROVE  ThreadsInv' /\ Delivers
<1>0. TypeOK /\ Running /\ status = "running" /\ MayBlock /\ mem \in [Addr -> Int]
  BY DEF ThreadsInv, TypeOK, FutexWait, Posix, Running
<1>1. CASE mem[a] = v /\ CanBlock
  <2>1. Block(0, a, m) /\ UNCHANGED <<threads, clearTid, counter, mem>>
    BY <1>1 DEF FutexWait
  <2>2. 0 \in Nat /\ a \in Nat /\ m \in SUBSET AllBits
    BY GuestAssumption DEF AllBits
  <2> QED BY <1>0, <1>1, <2>1, <2>2, BlockStep
<1>2. CASE mem[a] = v /\ ~CanBlock
  <2>1. /\ mem' = [mem EXCEPT ![a] = 0] /\ a0' = 0
        /\ UNCHANGED <<threads, current, suspended, blocked, stored, reason, bits, clearTid, counter, status>>
    BY <1>2 DEF FutexWait
  <2>2. RestTyped'
    BY <1>0, <2>1 DEF RestTyped, TypeOK
  <2>3. a0' \in Int /\ a0' # Stale /\ status' \in Statuses
    BY <1>0, <2>1, TidFacts DEF Statuses
  <2> QED BY <1>0, <2>1, <2>2, <2>3, Quiet
<1>3. CASE mem[a] # v
  <2>1. SuspendAndYield(Error) /\ UNCHANGED <<threads, blocked, reason, bits, clearTid, counter, mem>>
    BY <1>3 DEF FutexWait
  <2> QED BY <1>0, <2>1, SuspendAndYieldStep
<1> QED BY <1>1, <1>2, <1>3

LEMMA TgkillStep ==
  ASSUME ThreadsInv, NEW t \in Tids, Tgkill(t), UNCHANGED guest
  PROVE  ThreadsInv' /\ Delivers
<1>0. TypeOK /\ Running /\ stored \in [Tids -> Int] /\ a0 \in Int
  BY DEF ThreadsInv, TypeOK, Tgkill, Posix
<1>1. CASE t \in threads
  <2>1. Exit(t, stored, "stopped", a0)
    BY <1>1 DEF Tgkill
  <2>2. WellBehaved => t = current
    BY DEF Tgkill, WellBehaved, Liberties
  <2> QED BY <1>0, <1>1, <2>1, <2>2, ExitStep
<1>2. CASE t \notin threads
  <2>1. /\ status' = "stopped"
        /\ UNCHANGED <<threads, current, suspended, blocked, stored, reason, bits, clearTid, counter, a0, mem>>
    BY <1>2 DEF Tgkill
  <2>2. RestTyped' /\ a0' \in Int /\ status' \in Statuses
    BY <1>0, <2>1, RestUnchanged DEF Statuses
  <2> QED BY <2>1, <2>2, Quiet
<1> QED BY <1>1, <1>2

LEMMA ExitThreadcallStep ==
  ASSUME ThreadsInv, NEW value \in {0, 1}, ExitThreadcall(value), UNCHANGED guest
  PROVE  ThreadsInv' /\ Delivers
<1>0. /\ TypeOK /\ Running /\ stored \in [Tids -> Int] /\ value \in Int
      /\ suspended \in Seq(Tids) /\ current \in threads
  BY DEF ThreadsInv, TypeOK, Reachable, ExitThreadcall, Native, Running
<1>1. PICK next \in Tids : next = IF suspended = << >> THEN 0 ELSE Head(suspended)
  BY <1>0, HeadTailSet, TidFacts
<1>2. Exit(current, Save(next, value), status, value)
  BY <1>1 DEF ExitThreadcall
<1>3. Save(next, value) \in [Tids -> Int]
  BY <1>0 DEF Save
<1>4. ~WellBehaved
  BY DEF ExitThreadcall, WellBehaved, Liberties
<1> QED BY <1>0, <1>2, <1>3, <1>4, ExitStep

LEMMA BlockCallStep ==
  ASSUME ThreadsInv, NEW why \in {0, 1}, BlockCall(why), UNCHANGED guest
  PROVE  ThreadsInv' /\ Delivers
<1>0. TypeOK /\ Running /\ status = "running" /\ MayBlock
  BY DEF ThreadsInv, BlockCall, Native, Running
<1>1. CASE CanBlock
  <2>1. Block(why, 0, {}) /\ UNCHANGED <<threads, clearTid, counter, mem>>
    BY <1>1 DEF BlockCall
  <2>2. why \in Nat /\ 0 \in Nat /\ {} \in SUBSET AllBits
    OBVIOUS
  <2> QED BY <1>0, <1>1, <2>1, <2>2, BlockStep
<1>2. CASE ~CanBlock
  <2>1. /\ a0' = Error
        /\ UNCHANGED <<threads, current, suspended, blocked, stored, reason, bits, clearTid, counter, mem, status>>
    BY <1>2 DEF BlockCall
  <2>2. RestTyped' /\ a0' \in Int /\ a0' # Stale /\ status' \in Statuses
    BY <1>0, <2>1, RestUnchanged, TidFacts DEF Statuses
  <2> QED BY <1>0, <2>1, <2>2, Quiet
<1> QED BY <1>1, <1>2

\* Every call keeps the invariant and delivers the answer of the thread it resumes.
LEMMA CallStep ==
  ASSUME ThreadsInv, Next
  PROVE  ThreadsInv' /\ Delivers
<1>0. TypeOK /\ UNCHANGED guest /\ a0 \in Int /\ current \in Tids /\ mem \in [Addr -> Int] /\ clearTid \in [Tids -> Addr \cup {Null}]
  BY DEF ThreadsInv, TypeOK, Next
<1>1. ASSUME NEW a \in Addr, NEW v \in {0, 1}, Store(a, v) PROVE ThreadsInv' /\ Delivers
  <2>1. /\ mem' = [mem EXCEPT ![a] = v] /\ status = "running"
        /\ UNCHANGED <<threads, current, suspended, blocked, stored, reason, bits, clearTid, counter, a0, status>>
    BY <1>1 DEF Store, Running
  <2>2. RestTyped' /\ a0' \in Int /\ status' \in Statuses
    BY <1>0, <2>1 DEF RestTyped, TypeOK, Statuses
  <2>3. WellBehaved => a0' # Stale
    BY <2>1 DEF ThreadsInv, Fresh
  <2> QED BY <1>0, <2>1, <2>2, <2>3, Quiet
<1>2. ASSUME Preempt PROVE ThreadsInv' /\ Delivers
  <2>1. /\ WakeupNext(threads, Save(current, a0), Append(suspended, current)) /\ status = "running"
        /\ UNCHANGED <<threads, blocked, reason, bits, clearTid, counter, mem>>
    BY <1>2 DEF Preempt, Running
  <2>2. RestTyped'
    BY <1>0, <2>1, RestUnchanged
  <2>3. WellBehaved => a0 # Stale
    BY <2>1 DEF ThreadsInv, Fresh
  <2> QED BY <1>0, <2>1, <2>2, <2>3, YieldStep
<1>3. ASSUME SchedYield PROVE ThreadsInv' /\ Delivers
  BY <1>0, <1>3, SuspendAndYieldStep DEF SchedYield
<1>4. ASSUME CallRefused PROVE ThreadsInv' /\ Delivers
  <2>1. /\ a0' = Error /\ status = "running"
        /\ UNCHANGED <<threads, current, suspended, blocked, stored, reason, bits, clearTid, counter, mem, status>>
    BY <1>4 DEF CallRefused, Running
  <2>2. RestTyped' /\ a0' \in Int /\ a0' # Stale /\ status' \in Statuses
    BY <1>0, <2>1, RestUnchanged, TidFacts DEF Statuses
  <2> QED BY <1>0, <2>1, <2>2, Quiet
<1>5. ASSUME NEW a \in Addr, SetTidAddress(a) PROVE ThreadsInv' /\ Delivers
  <2>1. /\ a0' = current /\ status = "running" /\ clearTid' = [clearTid EXCEPT ![current] = a]
        /\ UNCHANGED <<threads, current, suspended, blocked, stored, reason, bits, counter, mem, status>>
    BY <1>5 DEF SetTidAddress, Posix, Running
  <2>2. RestTyped' /\ a0' \in Int /\ a0' # Stale /\ status' \in Statuses
    <3>1. clearTid' \in [Tids -> Addr \cup {Null}]
      BY <1>0, <2>1
    <3>2. RestTyped'
      BY <1>0, <2>1, <3>1 DEF RestTyped, TypeOK
    <3> QED BY <1>0, <2>1, <3>2, TidFacts DEF Statuses
  <2> QED BY <1>0, <2>1, <2>2, Quiet
<1>6. ASSUME NEW f, NEW c \in Addr, NEW p \in Addr, NEW s \in Addr \cup {Null}, Clone(f, c, p, s)
      PROVE  ThreadsInv' /\ Delivers
  <2>1. PICK clear \in Addr \cup {Null} : clear = IF s # Null THEN s ELSE IF "child_cleartid" \in f THEN c ELSE Null
    OBVIOUS
  <2>2. Running /\ Create(f, c, p, clear) /\ UNCHANGED <<blocked, reason, bits>>
    BY <1>6, <2>1 DEF Clone, Posix
  <2> QED BY <1>0, <2>2, CreateStep
<1>7. ASSUME NEW a \in Addr, NEW f, Microclone(a, f) PROVE ThreadsInv' /\ Delivers
  <2>1. PICK clear \in Addr \cup {Null} : clear = IF "child_cleartid" \in f THEN a ELSE Null
    OBVIOUS
  <2>2. Running /\ Create({"child_settid"} \cup f, a, Null, clear) /\ UNCHANGED <<blocked, reason, bits>>
    BY <1>7, <2>1 DEF Microclone, Native
  <2> QED BY <1>0, <2>2, CreateStep
<1>8. ASSUME NEW t \in Tids, Tgkill(t) \/ YieldTo(t) \/ UnblockThread(t) PROVE ThreadsInv' /\ Delivers
  BY <1>0, <1>8, TgkillStep, YieldToStep, UnblockThreadStep
<1>9. ASSUME NEW a \in Addr, NEW v \in {0, 1}, NEW m \in Masks \cup {{}}, FutexWait(a, v, m)
      PROVE  ThreadsInv' /\ Delivers
  BY <1>0, <1>9, FutexWaitStep
<1>10. ASSUME NEW a \in Addr, NEW n \in 0 .. 2, NEW m, FutexWake(a, n, m) PROVE ThreadsInv' /\ Delivers
  <2>1. /\ Running /\ WakeupBlocked(n, a, m) /\ a0' = Cardinality(Awakened(n, a, m))
        /\ UNCHANGED <<threads, current, stored, reason, bits, clearTid, counter, mem, status>>
    BY <1>10 DEF FutexWake, Posix
  <2>2. a0' \in Nat
    <3>1. blocked \in Seq(Tids)
      BY <1>0 DEF TypeOK
    <3>2. PICK W \in SUBSET (1 .. Len(blocked)) : W = Awakened(n, a, m)
      BY <3>1, LenProperties DEF Awakened
    <3>3. Cardinality(W) \in Nat
      BY <3>1, PickFromSet
    <3> QED BY <2>1, <3>2, <3>3
  <2> QED BY <1>0, <2>1, <2>2, WakeStep
<1>11. ASSUME NEW r \in {0, 1}, ExitCall(r) PROVE ThreadsInv' /\ Delivers
  <2>1. Running /\ Exit(current, stored, "stopped", r)
    BY <1>11 DEF ExitCall
  <2>2. current \in threads /\ stored \in [Tids -> Int] /\ r \in Int
    BY <1>0, <2>1 DEF ThreadsInv, Reachable, TypeOK, Running
  <2> QED BY <1>0, <2>1, <2>2, ExitStep
<1>12. ASSUME NEW r \in {0, 1}, UnblockCall(r) PROVE ThreadsInv' /\ Delivers
  <2>1. /\ Running /\ WakeupBlocked(64, r, AllBits) /\ (a0' = Error \/ a0' = a0)
        /\ UNCHANGED <<threads, current, stored, reason, bits, clearTid, counter, mem, status>>
    BY <1>12 DEF UnblockCall, Native
  <2> QED BY <1>0, <2>1, WakeStep
<1>13. ASSUME NEW r \in {0, 1}, BlockCall(r) \/ ExitThreadcall(r) PROVE ThreadsInv' /\ Delivers
  BY <1>0, <1>13, BlockCallStep, ExitThreadcallStep
<1>14. Call
  BY DEF Next
<1> QED BY <1>1, <1>2, <1>3, <1>4, <1>5, <1>6, <1>7, <1>8, <1>9, <1>10, <1>11, <1>12, <1>13, <1>14 DEF Call

LEMMA StutterStep ==
  ASSUME ThreadsInv, UNCHANGED vars
  PROVE  ThreadsInv' /\ Delivers
<1>0. TypeOK
  BY DEF ThreadsInv
<1>1. UNCHANGED <<guest, threads, current, suspended, blocked, stored, counter, reason, bits, clearTid, mem, a0, status>>
  BY DEF vars
<1>2. RestTyped' /\ a0' \in Int /\ status' \in Statuses
  BY <1>0, <1>1, RestUnchanged DEF TypeOK, Statuses
<1>3. status = "running" => (WellBehaved => a0' # Stale)
  BY <1>1 DEF ThreadsInv, Fresh
<1> QED BY <1>1, <1>2, <1>3, Quiet

LEMMA ThreadsInit == Init => ThreadsInv
<1> SUFFICES ASSUME Init PROVE ThreadsInv
  OBVIOUS
<1>1. 0 \in Tids /\ 0 \in 0 .. WordSpan - 1 /\ Stale \in Int
  BY GuestAssumption, TidFacts
<1>2. TypeOK
  BY <1>1 DEF Init, TypeOK
<1>3. ToSet(suspended) = {} /\ ToSet(blocked) = {} /\ Len(suspended) = 0 /\ Len(blocked) = 0
  BY DEF Init, ToSet
<1>4. Cardinality(threads) = 1
  BY FS_Singleton DEF Init
<1>5. Reachable
  BY DEF Init, Reachable
<1>6. Tight /\ Fresh
  BY <1>3, <1>4, TidFacts DEF Init, Tight, Fresh, Waiting
<1> QED BY <1>2, <1>5, <1>6 DEF ThreadsInv

-----------------------------------------------------------------------------
(* The theorems.                                                           *)

\* Whatever threads the guest creates, blocks, wakes and ends, and in whatever order,
\* the four structures of MultiThreading agree as the invariant says.
THEOREM ThreadsInvariant == Spec => []ThreadsInv
<1>1. Init => ThreadsInv
  BY ThreadsInit
<1>2. ThreadsInv /\ [Next]_vars => ThreadsInv'
  BY CallStep, StutterStep
<1> QED BY <1>1, <1>2, PTL DEF Spec

\* No live thread is lost, and a well-behaved guest finds each of its threads in exactly
\* one of m_current, m_suspended and m_blocked, and nothing else there.
THEOREM LiveThreadsInOnePlace == Spec => []OnePlace
<1>1. ThreadsInv => OnePlace
  BY DEF ThreadsInv, Reachable, Tight, OnePlace
<1> QED BY <1>1, ThreadsInvariant, PTL

\* Thread::suspend() and resume(): no thread of a well-behaved guest goes on from
\* registers it has already gone on from.
THEOREM RegistersAreFresh == Spec => []FreshRegisters
<1>1. ThreadsInv => FreshRegisters
  BY DEF ThreadsInv, Fresh, FreshRegisters
<1> QED BY <1>1, ThreadsInvariant, PTL

\* The answer a system call stores for a thread that leaves the processor is the one it
\* finds in A0 when it is resumed, by whichever call.
THEOREM AnswersAreDelivered == Spec => AnswersDelivered
<1>1. ThreadsInv /\ [Next]_vars => [Delivers]_vars
  BY CallStep, StutterStep
<1>2. Spec => [][Delivers]_vars
  BY <1>1, ThreadsInvariant, PTL DEF Spec
<1> QED BY <1>2, PTL DEF AnswersDelivered, Delivers

\* "A blocked thread can only be resumed by unblocking it" holds of a well-behaved guest:
\* the fallback of wakeup_next() is reached only after the main thread has blocked, or
\* another liberty was taken.
THEOREM WellBehavedBlockedWait ==
  Spec => [](WellBehaved /\ status = "running" => BlockedDoesNotRun)
<1>1. ThreadsInv => (WellBehaved /\ status = "running" => BlockedDoesNotRun)
  <2> SUFFICES ASSUME ThreadsInv, WellBehaved, status = "running" PROVE BlockedDoesNotRun
    OBVIOUS
  <2>1. Tight /\ suspended \in Seq(Tids) /\ blocked \in Seq(Tids) /\ current \in Tids
    BY DEF ThreadsInv, TypeOK
  <2>2. current \notin ToSet(suspended) \cup ToSet(blocked)
    BY <2>1, OnePlaceEach DEF Tight, Waiting
  <2> QED BY <2>2 DEF BlockedDoesNotRun
<1> QED BY <1>1, ThreadsInvariant, PTL
=============================================================================
