----------------------------- MODULE ViewProofs -----------------------------
(***************************************************************************)
(* The views of a project.  Breakpoints: for a source of any length and    *)
(* chunks of any size, the bitmask and the sorted list answer as one, a    *)
(* breakpoint keeps the condition it was given, and the markers of an      *)
(* assembled source are breakpoints.  Memory pane: for a memory of any     *)
(* size and bursts of any writes, the set of modified intervals stays      *)
(* canonical, and a burst repaints all that it must.                       *)
(***************************************************************************)
EXTENDS Breakpoints, MemoryPane, NatFacts, SequenceTheorems

-----------------------------------------------------------------------------
(* The set of breakpoints.                                                 *)

Masks == SUBSET (0 .. MaxLines \div Chunk)

\* The two lists are in step and sorted, and the bitmask hides nothing of them.
Searchable(s) ==
  /\ s \in [bps : Seq(Addresses), conds : Seq(Conditions), mask : Masks]
  /\ Len(s.conds) = Len(s.bps)
  /\ \A j, k \in 1 .. Len(s.bps) : j < k => s.bps[j] < s.bps[k]
  /\ \A k \in 1 .. Len(s.bps) : s.bps[k] \div Chunk \in s.mask

\* Each breakpoint has the condition that g says.
Conform(s, g) == \A k \in 1 .. Len(s.bps) : s.conds[k] = g[s.bps[k]]

LEMMA SearchableFacts ==
  ASSUME NEW s, Searchable(s)
  PROVE  /\ s.bps \in Seq(Addresses) /\ s.conds \in Seq(Conditions) /\ s.mask \in Masks
         /\ Len(s.bps) \in Nat /\ DOMAIN s.bps = 1 .. Len(s.bps) /\ DOMAIN s.conds = 1 .. Len(s.bps)
         /\ \A k \in 1 .. Len(s.bps) : /\ s.bps[k] \in Addresses /\ s.bps[k] \in Nat
                                       /\ s.conds[k] \in Conditions
         /\ ToSet(s.bps) = {s.bps[k] : k \in 1 .. Len(s.bps)}
         /\ ToSet(s.bps) \subseteq Addresses
<1>1. s.bps \in Seq(Addresses) /\ s.conds \in Seq(Conditions) /\ s.mask \in Masks
  BY DEF Searchable
<1>2. Len(s.bps) \in Nat /\ DOMAIN s.bps = 1 .. Len(s.bps) /\ DOMAIN s.conds = 1 .. Len(s.bps)
  BY <1>1 DEF Searchable
<1>3. \A k \in 1 .. Len(s.bps) : s.bps[k] \in Addresses /\ s.conds[k] \in Conditions
  <2> TAKE k \in 1 .. Len(s.bps)
  <2>1. s.bps[k] \in Addresses
    BY <1>1, ElementOfSeq
  <2>2. Len(s.conds) = Len(s.bps)
    BY DEF Searchable
  <2>3. s.conds[k] \in Conditions
    BY <1>1, <2>2, ElementOfSeq
  <2> QED BY <2>1, <2>3
<1>4. \A a \in Addresses : a \in Nat
  BY BreakpointsAssumption DEF Addresses
<1>5. ToSet(s.bps) = {s.bps[k] : k \in 1 .. Len(s.bps)}
  BY <1>2 DEF ToSet
<1>6. ToSet(s.bps) \subseteq Addresses
  BY <1>3, <1>5
<1> QED BY <1>1, <1>2, <1>3, <1>4, <1>5, <1>6

\* hasBP() answers what the list holds.
LEMMA HasFacts ==
  ASSUME NEW s, Searchable(s), NEW a
  PROVE  HasBP(s, a) <=> a \in ToSet(s.bps)
<1>1. ToSet(s.bps) = {s.bps[k] : k \in 1 .. Len(s.bps)}
  BY SearchableFacts
<1>2. \A k \in 1 .. Len(s.bps) : s.bps[k] \div Chunk \in s.mask
  BY DEF Searchable
<1> QED BY <1>1, <1>2 DEF HasBP

\* An address is in a chunk of the bitmask.
LEMMA ChunkOf ==
  ASSUME NEW a \in Addresses
  PROVE  a \div Chunk \in 0 .. MaxLines \div Chunk
<1>1. a \in Nat /\ a <= MaxLines /\ MaxLines \in Nat /\ Chunk \in Nat \ {0}
  BY BreakpointsAssumption DEF Addresses
<1>2. /\ a \div Chunk \in Int /\ MaxLines \div Chunk \in Int
      /\ 0 <= a \div Chunk /\ a \div Chunk <= MaxLines \div Chunk
  BY <1>1, DivMonotone
<1> QED BY <1>2

\* lower_bound() finds the place of an address in the sorted list.
LEMMA LowerBoundFacts ==
  ASSUME NEW s, Searchable(s), NEW a \in Addresses
  PROVE  /\ LowerBound(s, a) \in 1 .. Len(s.bps) + 1
         /\ \A k \in 1 .. Len(s.bps) : k < LowerBound(s, a) <=> s.bps[k] < a
<1> DEFINE N == Len(s.bps)
           S == {k \in DOMAIN s.bps : s.bps[k] < a}
<1>0. /\ N \in Nat /\ DOMAIN s.bps = 1 .. N /\ a \in Nat
      /\ \A k \in 1 .. N : s.bps[k] \in Nat
  BY SearchableFacts, BreakpointsAssumption DEF Addresses
<1>1. \A j, k \in 1 .. N : j < k => s.bps[j] < s.bps[k]
  BY DEF Searchable
<1>2. PICK m \in 0 .. N : S = 1 .. m /\ Cardinality(S) = m
  <2>1. S \in SUBSET (1 .. N)
    BY <1>0
  <2>2. \A i \in S, j \in 1 .. N : j < i => j \in S
    <3> TAKE i \in S, j \in 1 .. N
    <3> HAVE j < i
    <3>1. s.bps[j] < s.bps[i] /\ s.bps[i] < a
      BY <1>0, <1>1
    <3> QED BY <1>0, <3>1
  <2> HIDE DEF S, N
  <2> QED BY <1>0, <2>1, <2>2, FirstPlaces
<1>3. LowerBound(s, a) = m + 1
  BY <1>2 DEF LowerBound
<1>4. \A k \in 1 .. N : k \in S <=> s.bps[k] < a
  BY <1>0
<1>5. \A k \in 1 .. N : k \in 1 .. m <=> k < m + 1
  BY <1>0
<1> HIDE DEF S, N
<1> QED BY <1>0, <1>2, <1>3, <1>4, <1>5 DEF N

\* Inserting into a list, and removing from it.
InsertedAt(t, q, i, e) ==
  /\ Len(t) = Len(q) + 1
  /\ \A k \in 1 .. i - 1 : t[k] = q[k]
  /\ t[i] = e
  /\ \A k \in i + 1 .. Len(q) + 1 : t[k] = q[k - 1]

RemovedAt(t, q, i) ==
  /\ Len(t) = Len(q) - 1
  /\ \A k \in 1 .. i - 1 : t[k] = q[k]
  /\ \A k \in i .. Len(q) - 1 : t[k] = q[k + 1]

LEMMA InsertAtFacts ==
  ASSUME NEW S, NEW q \in Seq(S), NEW i \in 1 .. Len(q) + 1, NEW e \in S
  PROVE  InsertAt(q, i, e) \in Seq(S) /\ InsertedAt(InsertAt(q, i, e), q, i, e)
<1> DEFINE a == SubSeq(q, 1, i - 1)
           b == SubSeq(q, i, Len(q))
<1>1. a \in Seq(S) /\ Len(a) = i - 1 /\ \A k \in 1 .. i - 1 : a[k] = q[k]
  OBVIOUS
<1>2. b \in Seq(S) /\ Len(b) = Len(q) - i + 1 /\ \A k \in 1 .. Len(q) - i + 1 : b[k] = q[i + k - 1]
  OBVIOUS
<1>3. InsertAt(q, i, e) = a \o <<e>> \o b
  BY DEF InsertAt
<1> HIDE DEF a, b
<1>4. /\ a \o <<e>> \in Seq(S) /\ Len(a \o <<e>>) = i
      /\ \A k \in 1 .. i - 1 : (a \o <<e>>)[k] = q[k]
      /\ (a \o <<e>>)[i] = e
  BY <1>1
<1> DEFINE c == a \o <<e>>
<1>5. c \in Seq(S) /\ Len(c) = i /\ (\A k \in 1 .. i - 1 : c[k] = q[k]) /\ c[i] = e
  BY <1>4
<1> HIDE DEF c
<1>6. c \o b \in Seq(S) /\ Len(c \o b) = Len(q) + 1
  <2>1. c \o b \in Seq(S) /\ Len(c \o b) = Len(c) + Len(b)
    BY <1>2, <1>5, ConcatProperties
  <2>2. Len(q) \in Nat
    OBVIOUS
  <2> QED BY <1>2, <1>5, <2>1, <2>2
<1>7. \A k \in 1 .. i : (c \o b)[k] = c[k]
  BY <1>2, <1>5
<1>8. ASSUME NEW k \in i + 1 .. Len(q) + 1 PROVE (c \o b)[k] = q[k - 1]
  <2>1. k \in 1 .. Len(c) + Len(b) /\ k > Len(c)
    BY <1>2, <1>5
  <2>2. (c \o b)[k] = b[k - i]
    BY <1>2, <1>5, <2>1
  <2>3. k - i \in 1 .. Len(q) - i + 1 /\ i + (k - i) - 1 = k - 1
    OBVIOUS
  <2> QED BY <1>2, <2>2, <2>3
<1>9. InsertedAt(c \o b, q, i, e)
  BY <1>5, <1>6, <1>7, <1>8 DEF InsertedAt
<1> QED BY <1>3, <1>6, <1>9 DEF c

LEMMA RemoveAtFacts ==
  ASSUME NEW S, NEW q \in Seq(S), NEW i \in 1 .. Len(q)
  PROVE  RemoveAt(q, i) \in Seq(S) /\ RemovedAt(RemoveAt(q, i), q, i)
<1> DEFINE a == SubSeq(q, 1, i - 1)
           b == SubSeq(q, i + 1, Len(q))
<1>1. a \in Seq(S) /\ Len(a) = i - 1 /\ \A k \in 1 .. i - 1 : a[k] = q[k]
  OBVIOUS
<1>2. b \in Seq(S) /\ Len(b) = Len(q) - i /\ \A k \in 1 .. Len(q) - i : b[k] = q[i + k]
  OBVIOUS
<1>3. RemoveAt(q, i) = a \o b
  BY DEF RemoveAt
<1> HIDE DEF a, b
<1>4. a \o b \in Seq(S) /\ Len(a \o b) = Len(q) - 1
  <2>1. a \o b \in Seq(S) /\ Len(a \o b) = Len(a) + Len(b)
    BY <1>1, <1>2, ConcatProperties
  <2>2. Len(q) \in Nat
    OBVIOUS
  <2> QED BY <1>1, <1>2, <2>1, <2>2
<1>5. \A k \in 1 .. i - 1 : (a \o b)[k] = q[k]
  BY <1>1, <1>2
<1>6. ASSUME NEW k \in i .. Len(q) - 1 PROVE (a \o b)[k] = q[k + 1]
  <2>1. k \in 1 .. Len(a) + Len(b) /\ k > Len(a)
    BY <1>1, <1>2
  <2>2. (a \o b)[k] = b[k - (i - 1)]
    BY <1>1, <1>2, <2>1
  <2>3. k - (i - 1) \in 1 .. Len(q) - i /\ i + (k - (i - 1)) = k + 1
    OBVIOUS
  <2> QED BY <1>2, <2>2, <2>3
<1>7. RemovedAt(a \o b, q, i)
  BY <1>4, <1>5, <1>6 DEF RemovedAt
<1> QED BY <1>3, <1>4, <1>7

\* addBP() adds the breakpoint, without a condition, and changes no other.
LEMMA AddFacts ==
  ASSUME NEW s, Searchable(s), NEW a \in Addresses
  PROVE  /\ Searchable(AddBP(s, a))
         /\ ToSet(AddBP(s, a).bps) = ToSet(s.bps) \cup {a}
         /\ \A g : Conform(s, g) /\ (a \notin ToSet(s.bps) => g[a] = "none") => Conform(AddBP(s, a), g)
<1>1. CASE HasBP(s, a)
  <2>1. AddBP(s, a) = s /\ a \in ToSet(s.bps)
    BY <1>1, HasFacts DEF AddBP
  <2> QED BY <2>1
<1>2. CASE ~HasBP(s, a)
  <2> DEFINE n == Len(s.bps)
             p == LowerBound(s, a)
             bps == InsertAt(s.bps, p, a)
             conds == InsertAt(s.conds, p, "none")
             t == AddBP(s, a)
  <2>1. /\ s.bps \in Seq(Addresses) /\ s.conds \in Seq(Conditions) /\ s.mask \in Masks /\ n \in Nat
        /\ Len(s.conds) = n
        /\ \A k \in 1 .. n : s.bps[k] \in Nat
        /\ ToSet(s.bps) = {s.bps[k] : k \in 1 .. n} /\ a \in Nat
    <3>1. Len(s.conds) = n
      BY DEF Searchable
    <3>2. a \in Nat
      BY BreakpointsAssumption DEF Addresses
    <3> QED BY <3>1, <3>2, SearchableFacts
  <2>2. /\ p \in 1 .. n + 1
        /\ \A k \in 1 .. n : k < p <=> s.bps[k] < a
    BY LowerBoundFacts
  <2>3. a \notin ToSet(s.bps) /\ \A k \in 1 .. n : s.bps[k] # a
    BY <1>2, <2>1, HasFacts
  <2>4. /\ bps \in Seq(Addresses) /\ Len(bps) = n + 1
        /\ \A k \in 1 .. p - 1 : bps[k] = s.bps[k]
        /\ bps[p] = a
        /\ \A k \in p + 1 .. n + 1 : bps[k] = s.bps[k - 1]
    <3>1. p \in 1 .. Len(s.bps) + 1
      BY <2>2
    <3> HIDE DEF p
    <3>2. bps \in Seq(Addresses) /\ InsertedAt(bps, s.bps, p, a)
      BY <2>1, <3>1, InsertAtFacts
    <3> HIDE DEF bps
    <3> QED BY <3>2 DEF InsertedAt
  <2>5. /\ conds \in Seq(Conditions) /\ Len(conds) = n + 1
        /\ \A k \in 1 .. p - 1 : conds[k] = s.conds[k]
        /\ conds[p] = "none"
        /\ \A k \in p + 1 .. n + 1 : conds[k] = s.conds[k - 1]
    <3>1. "none" \in Conditions
      BY DEF Conditions
    <3>2. p \in 1 .. Len(s.conds) + 1
      BY <2>1, <2>2
    <3> HIDE DEF p
    <3>3. conds \in Seq(Conditions) /\ InsertedAt(conds, s.conds, p, "none")
      BY <2>1, <3>1, <3>2, InsertAtFacts
    <3> HIDE DEF conds
    <3> QED BY <2>1, <3>3 DEF InsertedAt
  <2>6. t = [bps |-> bps, conds |-> conds, mask |-> s.mask \cup {a \div Chunk}]
    BY <1>2 DEF AddBP
  <2>7. t.bps = bps /\ t.conds = conds /\ t.mask = s.mask \cup {a \div Chunk}
    BY <2>6
  <2>8. t.mask \in Masks
    BY <2>1, <2>7, ChunkOf DEF Masks
  <2>9. t \in [bps : Seq(Addresses), conds : Seq(Conditions), mask : Masks]
    <3> HIDE DEF bps, conds
    <3> QED BY <2>4, <2>5, <2>6, <2>7, <2>8
  <2> HIDE DEF n, p, bps, conds, t
  <2>10. \A k \in 1 .. n + 1 : k \in 1 .. p - 1 \/ k = p \/ (k \in p + 1 .. n + 1 /\ k - 1 \in 1 .. n)
    BY <2>1, <2>2
  <2>11. \A k \in 1 .. p - 1 : k \in 1 .. n
    BY <2>1, <2>2
  <2>12. \A k \in 1 .. p - 1 : s.bps[k] < a
    BY <2>1, <2>2, <2>11
  <2>13. \A k \in p + 1 .. n + 1 : k - 1 \in 1 .. n /\ a < s.bps[k - 1]
    <3> TAKE k \in p + 1 .. n + 1
    <3>1. k - 1 \in 1 .. n /\ ~(k - 1 < p)
      BY <2>1, <2>2
    <3>2. ~(s.bps[k - 1] < a) /\ s.bps[k - 1] # a /\ s.bps[k - 1] \in Nat
      BY <2>1, <2>2, <2>3, <3>1
    <3> QED BY <2>1, <3>1, <3>2
  <2>14. ASSUME NEW j \in 1 .. n + 1, NEW k \in 1 .. n + 1, j < k PROVE bps[j] < bps[k]
    <3>0. \A x, y \in 1 .. n : x < y => s.bps[x] < s.bps[y]
      BY DEF Searchable, n
    <3>1. CASE j \in 1 .. p - 1 /\ k \in 1 .. p - 1
      BY <2>4, <2>11, <2>14, <3>0, <3>1
    <3>2. CASE j \in 1 .. p - 1 /\ k = p
      BY <2>4, <2>12, <3>2
    <3>3. CASE j \in 1 .. p - 1 /\ k \in p + 1 .. n + 1
      <4>1. bps[j] = s.bps[j] /\ bps[k] = s.bps[k - 1] /\ s.bps[j] < a /\ a < s.bps[k - 1]
        BY <2>4, <2>12, <2>13, <3>3
      <4>2. s.bps[j] \in Nat /\ s.bps[k - 1] \in Nat
        BY <2>1, <2>11, <2>13, <3>3
      <4> QED BY <2>1, <4>1, <4>2
    <3>4. CASE j = p /\ k \in p + 1 .. n + 1
      BY <2>4, <2>13, <3>4
    <3>5. CASE j \in p + 1 .. n + 1 /\ k \in p + 1 .. n + 1
      <4>1. bps[j] = s.bps[j - 1] /\ bps[k] = s.bps[k - 1] /\ j - 1 \in 1 .. n /\ k - 1 \in 1 .. n /\ j - 1 < k - 1
        BY <2>1, <2>2, <2>4, <2>13, <2>14, <3>5
      <4> QED BY <3>0, <4>1
    <3> QED BY <2>1, <2>2, <2>10, <2>14, <3>1, <3>2, <3>3, <3>4, <3>5
  <2>15. ASSUME NEW k \in 1 .. n + 1 PROVE bps[k] \div Chunk \in t.mask
    <3>0. \A x \in 1 .. n : s.bps[x] \div Chunk \in s.mask
      BY DEF Searchable, n
    <3> QED BY <2>4, <2>7, <2>10, <2>11, <3>0
  <2>16. Searchable(t)
    BY <2>4, <2>5, <2>7, <2>9, <2>14, <2>15 DEF Searchable
  <2>17. ToSet(t.bps) = ToSet(s.bps) \cup {a}
    <3>1. ToSet(t.bps) = {bps[k] : k \in 1 .. n + 1}
      <4>1. ToSet(t.bps) = {t.bps[k] : k \in 1 .. Len(t.bps)}
        BY <2>16, SearchableFacts
      <4> QED BY <2>4, <2>7, <4>1
    <3>2. \A k \in 1 .. n + 1 : bps[k] \in ToSet(s.bps) \cup {a}
      BY <2>1, <2>4, <2>10, <2>11
    <3>3. ASSUME NEW k \in 1 .. n PROVE \E j \in 1 .. n + 1 : bps[j] = s.bps[k]
      <4>1. CASE k < p
        <5>1. k \in 1 .. p - 1 /\ k \in 1 .. n + 1
          BY <2>1, <2>2, <4>1
        <5> QED BY <2>4, <5>1
      <4>2. CASE ~(k < p)
        <5>1. k + 1 \in p + 1 .. n + 1 /\ k + 1 \in 1 .. n + 1 /\ k + 1 - 1 = k
          BY <2>1, <2>2, <4>2
        <5>2. bps[k + 1] = s.bps[k]
          BY <2>4, <5>1
        <5> QED BY <5>1, <5>2
      <4> QED BY <4>1, <4>2
    <3>4. p \in 1 .. n + 1 /\ bps[p] = a
      BY <2>2, <2>4
    <3>5. ToSet(t.bps) \subseteq ToSet(s.bps) \cup {a}
      BY <3>1, <3>2
    <3>6. ToSet(s.bps) \subseteq ToSet(t.bps)
      BY <2>1, <3>1, <3>3
    <3>7. a \in ToSet(t.bps)
      BY <3>1, <3>4
    <3> QED BY <3>5, <3>6, <3>7
  <2>18. ASSUME NEW g, Conform(s, g), g[a] = "none" PROVE Conform(t, g)
    <3>1. \A k \in 1 .. n : s.conds[k] = g[s.bps[k]]
      BY <2>18 DEF Conform, n
    <3>2. ASSUME NEW k \in 1 .. n + 1 PROVE conds[k] = g[bps[k]]
      <4>1. CASE k \in 1 .. p - 1
        BY <2>4, <2>5, <2>11, <3>1, <4>1
      <4>2. CASE k = p
        BY <2>4, <2>5, <2>18, <4>2
      <4>3. CASE k \in p + 1 .. n + 1
        BY <2>4, <2>5, <2>13, <3>1, <4>3
      <4> QED BY <2>10, <4>1, <4>2, <4>3
    <3> QED BY <2>4, <2>7, <3>2 DEF Conform
  <2> QED BY <2>3, <2>16, <2>17, <2>18 DEF t
<1> QED BY <1>1, <1>2

\* removeBP() removes the breakpoint with its condition, and the bit of its chunk only
\* with the last breakpoint in it.
LEMMA RemoveFacts ==
  ASSUME NEW s, Searchable(s), NEW a \in Addresses
  PROVE  /\ Searchable(RemoveBP(s, a))
         /\ ToSet(RemoveBP(s, a).bps) = ToSet(s.bps) \ {a}
         /\ \A g : Conform(s, g) => Conform(RemoveBP(s, a), g)
<1>1. CASE ~HasBP(s, a)
  <2>1. RemoveBP(s, a) = s /\ a \notin ToSet(s.bps)
    BY <1>1, HasFacts DEF RemoveBP
  <2> QED BY <2>1
<1>2. CASE HasBP(s, a)
  <2> DEFINE n == Len(s.bps)
             p == LowerBound(s, a)
             bps == RemoveAt(s.bps, p)
             conds == RemoveAt(s.conds, p)
             t == RemoveBP(s, a)
  <2>1. /\ s.bps \in Seq(Addresses) /\ s.conds \in Seq(Conditions) /\ s.mask \in Masks /\ n \in Nat
        /\ Len(s.conds) = n
        /\ \A k \in 1 .. n : s.bps[k] \in Nat
        /\ ToSet(s.bps) = {s.bps[k] : k \in 1 .. n} /\ a \in Nat
    <3>1. Len(s.conds) = n
      BY DEF Searchable
    <3>2. a \in Nat
      BY BreakpointsAssumption DEF Addresses
    <3> QED BY <3>1, <3>2, SearchableFacts
  <2>2. /\ p \in 1 .. n + 1
        /\ \A k \in 1 .. n : k < p <=> s.bps[k] < a
    BY LowerBoundFacts
  <2>0. \A x, y \in 1 .. n : x < y => s.bps[x] < s.bps[y]
    BY DEF Searchable
  <2>3. p \in 1 .. n /\ s.bps[p] = a
    <3>1. PICK x \in 1 .. n : s.bps[x] = a
      BY <1>2, <2>1, HasFacts
    <3> HIDE DEF p, n
    <3>2. ~(x < p)
      BY <2>1, <2>2, <3>1
    <3>3. p \in 1 .. n
      BY <2>1, <2>2, <3>2
    <3>4. ~(s.bps[p] < a)
      BY <2>2, <3>3
    <3>5. ~(p < x)
      BY <2>0, <3>1, <3>3, <3>4
    <3>6. p = x
      BY <3>2, <3>3, <3>5
    <3> QED BY <3>1, <3>6
  <2>4. /\ bps \in Seq(Addresses) /\ Len(bps) = n - 1
        /\ \A k \in 1 .. p - 1 : bps[k] = s.bps[k]
        /\ \A k \in p .. n - 1 : bps[k] = s.bps[k + 1]
    <3>1. p \in 1 .. Len(s.bps)
      BY <2>3
    <3> HIDE DEF p
    <3>2. bps \in Seq(Addresses) /\ RemovedAt(bps, s.bps, p)
      BY <2>1, <3>1, RemoveAtFacts
    <3> HIDE DEF bps
    <3> QED BY <3>2 DEF RemovedAt
  <2>5. /\ conds \in Seq(Conditions) /\ Len(conds) = n - 1
        /\ \A k \in 1 .. p - 1 : conds[k] = s.conds[k]
        /\ \A k \in p .. n - 1 : conds[k] = s.conds[k + 1]
    <3>1. p \in 1 .. Len(s.conds)
      BY <2>1, <2>3
    <3> HIDE DEF p
    <3>2. conds \in Seq(Conditions) /\ RemovedAt(conds, s.conds, p)
      BY <2>1, <3>1, RemoveAtFacts
    <3> HIDE DEF conds
    <3> QED BY <2>1, <3>2 DEF RemovedAt
  <2> DEFINE mask == IF LastOfChunk(bps, a) THEN s.mask \ {a \div Chunk} ELSE s.mask
  <2>6. t = [bps |-> bps, conds |-> conds, mask |-> mask]
    BY <1>2 DEF RemoveBP
  <2>7. t.bps = bps /\ t.conds = conds /\ t.mask = mask
    BY <2>6
  <2>8. t.mask \in Masks
    BY <2>1, <2>7 DEF Masks
  <2>9. t \in [bps : Seq(Addresses), conds : Seq(Conditions), mask : Masks]
    <3> HIDE DEF bps, conds, mask
    <3> QED BY <2>4, <2>5, <2>6, <2>7, <2>8
  <2>m. \A k \in DOMAIN bps : ~(LastOfChunk(bps, a) /\ bps[k] \div Chunk = a \div Chunk)
    BY DEF LastOfChunk, ToSet
  <2>n. t.mask = IF LastOfChunk(bps, a) THEN s.mask \ {a \div Chunk} ELSE s.mask
    BY <2>7
  <2> HIDE DEF n, p, bps, conds, t, mask
  <2>10. \A k \in 1 .. n - 1 : \/ k \in 1 .. p - 1 /\ k \in 1 .. n
                               \/ k \in p .. n - 1 /\ k + 1 \in 1 .. n
    BY <2>1, <2>3
  <2>11. ASSUME NEW k \in 1 .. n - 1
         PROVE  \E x \in 1 .. n : /\ bps[k] = s.bps[x] /\ conds[k] = s.conds[x] /\ x # p
                                  /\ x = IF k < p THEN k ELSE k + 1
    <3>1. CASE k \in 1 .. p - 1 /\ k \in 1 .. n
      <4>1. bps[k] = s.bps[k] /\ conds[k] = s.conds[k] /\ k < p /\ k # p
        BY <2>3, <2>4, <2>5, <3>1
      <4> QED BY <3>1, <4>1
    <3>2. CASE k \in p .. n - 1 /\ k + 1 \in 1 .. n
      <4>1. bps[k] = s.bps[k + 1] /\ conds[k] = s.conds[k + 1] /\ ~(k < p) /\ k + 1 # p
        BY <2>3, <2>4, <2>5, <3>2
      <4> QED BY <3>2, <4>1
    <3> QED BY <2>10, <3>1, <3>2
  <2>12. ASSUME NEW j \in 1 .. n - 1, NEW k \in 1 .. n - 1, j < k PROVE bps[j] < bps[k]
    <3>1. PICK x \in 1 .. n : bps[j] = s.bps[x] /\ x = IF j < p THEN j ELSE j + 1
      BY <2>11
    <3>2. PICK y \in 1 .. n : bps[k] = s.bps[y] /\ y = IF k < p THEN k ELSE k + 1
      BY <2>11
    <3>3. x < y
      BY <2>1, <2>3, <2>12, <3>1, <3>2
    <3> QED BY <2>0, <3>1, <3>2, <3>3
  <2>13. ASSUME NEW k \in 1 .. n - 1 PROVE bps[k] \div Chunk \in t.mask
    <3>1. \A x \in 1 .. n : s.bps[x] \div Chunk \in s.mask
      BY DEF Searchable, n
    <3>2. bps[k] \div Chunk \in s.mask
      BY <2>11, <3>1
    <3>3. k \in DOMAIN bps
      BY <2>4
    <3> QED BY <2>m, <2>n, <3>2, <3>3
  <2>14. Searchable(t)
    BY <2>4, <2>5, <2>7, <2>9, <2>12, <2>13 DEF Searchable
  <2>15. ToSet(t.bps) = ToSet(s.bps) \ {a}
    <3>1. ToSet(t.bps) = {bps[k] : k \in 1 .. n - 1}
      <4>1. ToSet(t.bps) = {t.bps[k] : k \in 1 .. Len(t.bps)}
        BY <2>14, SearchableFacts
      <4> QED BY <2>4, <2>7, <4>1
    <3>2. ASSUME NEW k \in 1 .. n - 1 PROVE bps[k] \in ToSet(s.bps) /\ bps[k] # a
      <4>1. PICK x \in 1 .. n : bps[k] = s.bps[x] /\ x # p
        BY <2>11
      <4>2. x < p \/ p < x
        BY <2>3, <4>1
      <4>3. s.bps[x] < s.bps[p] \/ s.bps[p] < s.bps[x]
        BY <2>0, <2>3, <4>2
      <4>4. s.bps[x] # a
        BY <2>1, <2>3, <4>3
      <4> QED BY <2>1, <4>1, <4>4
    <3>3. ASSUME NEW x \in 1 .. n, s.bps[x] # a PROVE \E k \in 1 .. n - 1 : bps[k] = s.bps[x]
      <4>0. x # p
        BY <2>3, <3>3
      <4>1. CASE x < p
        <5>1. x \in 1 .. p - 1 /\ x \in 1 .. n - 1
          BY <2>1, <2>3, <4>1
        <5> QED BY <2>4, <5>1
      <4>2. CASE p < x
        <5>1. x - 1 \in p .. n - 1 /\ x - 1 \in 1 .. n - 1 /\ (x - 1) + 1 = x
          BY <2>1, <2>3, <4>2
        <5>2. bps[x - 1] = s.bps[x]
          BY <2>4, <5>1
        <5> QED BY <5>1, <5>2
      <4> QED BY <2>3, <4>0, <4>1, <4>2
    <3>4. ToSet(t.bps) \subseteq ToSet(s.bps) \ {a}
      BY <3>1, <3>2
    <3>5. ToSet(s.bps) \ {a} \subseteq ToSet(t.bps)
      BY <2>1, <3>1, <3>3
    <3> QED BY <3>4, <3>5
  <2>16. ASSUME NEW g, Conform(s, g) PROVE Conform(t, g)
    <3>1. \A x \in 1 .. n : s.conds[x] = g[s.bps[x]]
      BY <2>16 DEF Conform, n
    <3>2. ASSUME NEW k \in 1 .. n - 1 PROVE conds[k] = g[bps[k]]
      BY <2>11, <3>1
    <3> QED BY <2>4, <2>7, <3>2 DEF Conform
  <2> QED BY <2>14, <2>15, <2>16 DEF t
<1> QED BY <1>1, <1>2

\* modify_condition() changes the condition of one breakpoint.
LEMMA ModifyFacts ==
  ASSUME NEW s, Searchable(s), NEW a \in ToSet(s.bps), NEW c \in Conditions
  PROVE  /\ Searchable(ModifyCondition(s, a, c))
         /\ ModifyCondition(s, a, c).bps = s.bps
         /\ \A g : Conform(s, g) /\ a \in DOMAIN g => Conform(ModifyCondition(s, a, c), [g EXCEPT ![a] = c])
<1> DEFINE n == Len(s.bps)
           p == LowerBound(s, a)
           t == ModifyCondition(s, a, c)
<1>1. /\ s.bps \in Seq(Addresses) /\ s.conds \in Seq(Conditions) /\ s.mask \in Masks /\ n \in Nat
      /\ Len(s.conds) = n /\ DOMAIN s.conds = 1 .. n
      /\ \A k \in 1 .. n : s.bps[k] \in Nat
      /\ ToSet(s.bps) = {s.bps[k] : k \in 1 .. n} /\ a \in Addresses /\ a \in Nat
  <2>1. Len(s.conds) = n
    BY DEF Searchable
  <2>2. a \in Addresses
    BY SearchableFacts
  <2>3. a \in Nat
    BY <2>2, BreakpointsAssumption DEF Addresses
  <2> QED BY <2>1, <2>2, <2>3, SearchableFacts
<1>2. /\ p \in 1 .. n + 1
      /\ \A k \in 1 .. n : k < p <=> s.bps[k] < a
  BY <1>1, LowerBoundFacts
<1>3. \A x, y \in 1 .. n : x < y => s.bps[x] < s.bps[y]
  BY DEF Searchable
<1>4. PICK x \in 1 .. n : s.bps[x] = a
  BY <1>1
<1>h. HasBP(s, a)
  BY HasFacts
<1>5. t = [s EXCEPT !.conds[p] = c]
  BY <1>h DEF ModifyCondition
<1>6. s \in [bps : Seq(Addresses), conds : Seq(Conditions), mask : Masks]
  BY DEF Searchable
<1> HIDE DEF n, p, t
<1>7. p = x
  <2>1. ~(x < p)
    BY <1>1, <1>2, <1>4
  <2>2. p \in 1 .. n
    BY <1>1, <1>2, <2>1
  <2>3. ~(s.bps[p] < a)
    BY <1>2, <2>2
  <2>4. ~(p < x)
    BY <1>3, <1>4, <2>2, <2>3
  <2> QED BY <2>1, <2>2, <2>4
<1>8. t.bps = s.bps /\ t.mask = s.mask /\ t.conds = [s.conds EXCEPT ![p] = c]
      /\ t = [bps |-> s.bps, conds |-> [s.conds EXCEPT ![p] = c], mask |-> s.mask]
  BY <1>5, <1>6
<1>9. [s.conds EXCEPT ![p] = c] \in Seq(Conditions) /\ Len([s.conds EXCEPT ![p] = c]) = n
  <2>1. p \in 1 .. Len(s.conds)
    BY <1>1, <1>4, <1>7
  <2>2. /\ [s.conds EXCEPT ![p] = c] \in Seq(Conditions)
        /\ Len([s.conds EXCEPT ![p] = c]) = Len(s.conds)
    BY <1>1, <2>1, ExceptSeq
  <2> QED BY <1>1, <2>2
<1>10. t \in [bps : Seq(Addresses), conds : Seq(Conditions), mask : Masks]
  BY <1>1, <1>8, <1>9
<1>11. Searchable(t)
  BY <1>8, <1>9, <1>10 DEF Searchable, n
<1>12. ASSUME NEW g, Conform(s, g), a \in DOMAIN g PROVE Conform(t, [g EXCEPT ![a] = c])
  <2> DEFINE h == [g EXCEPT ![a] = c]
  <2>1. \A k \in 1 .. n : s.conds[k] = g[s.bps[k]]
    BY <1>12 DEF Conform, n
  <2>2. h[a] = c /\ \A b : b # a /\ b \in DOMAIN g => h[b] = g[b]
    BY <1>12
  <2>3. ASSUME NEW k \in 1 .. n PROVE t.conds[k] = h[s.bps[k]]
    <3>1. CASE k = p
      BY <1>1, <1>4, <1>7, <1>8, <2>2, <3>1
    <3>2. CASE k # p
      <4>1. k < x \/ x < k
        BY <1>7, <3>2
      <4>2. s.bps[k] < s.bps[x] \/ s.bps[x] < s.bps[k]
        BY <1>3, <4>1
      <4>3. s.bps[k] # a
        BY <1>1, <1>4, <4>2
      <4>4. t.conds[k] = s.conds[k]
        BY <1>1, <1>8, <3>2
      <4>5. h[s.bps[k]] = g[s.bps[k]]
        BY <4>3
      <4> QED BY <2>1, <4>4, <4>5
    <3> QED BY <3>1, <3>2
  <2> QED BY <1>8, <2>3 DEF Conform, n
<1> QED BY <1>8, <1>11, <1>12 DEF t

\* onRequestAllBreakpoints(), as the function that goes down the lines.
AskLine(line, before) ==
  IF line = 0 THEN bs
  ELSE IF line \in srcMarks THEN AddBP(before, AddressOf(line)) ELSE before

Asks(f, n) == f = [line \in 0 .. n |-> AskLine(line, f[line - 1])]

LEMMA AsksExists ==
  ASSUME NEW n \in Nat
  PROVE  \E f : Asks(f, n)
<1> DEFINE I == {k \in Nat : \E f : Asks(f, k)}
<1>1. 0 \in I
  <2> DEFINE f == [line \in 0 .. 0 |-> bs]
  <2>1. \A line \in 0 .. 0 : line = 0
    OBVIOUS
  <2>2. \A line \in 0 .. 0 : AskLine(line, f[line - 1]) = bs
    BY <2>1 DEF AskLine
  <2>3. Asks(f, 0)
    BY <2>2, Zenon DEF Asks
  <2> QED BY <2>3
<1>2. ASSUME NEW k \in Nat, k \in I PROVE k + 1 \in I
  <2>1. PICK f : Asks(f, k)
    BY <1>2
  <2> DEFINE g == [line \in 0 .. k + 1 |-> AskLine(line, f[line - 1])]
  <2>2. \A line \in 0 .. k : g[line] = f[line]
    <3>1. \A line \in 0 .. k : f[line] = AskLine(line, f[line - 1])
      BY <2>1, Zenon DEF Asks
    <3>2. \A line \in 0 .. k + 1 : g[line] = AskLine(line, f[line - 1])
      BY Zenon
    <3>3. \A line \in 0 .. k : line \in 0 .. k + 1
      OBVIOUS
    <3> QED BY <3>1, <3>2, <3>3, Zenon
  <2>3. ASSUME NEW line \in 0 .. k + 1 PROVE g[line] = AskLine(line, g[line - 1])
    <3>1. g[line] = AskLine(line, f[line - 1])
      BY Zenon
    <3> HIDE DEF g
    <3>2. CASE line = 0
      BY <3>1, <3>2 DEF AskLine
    <3>3. CASE line # 0
      <4>1. line - 1 \in 0 .. k
        BY <3>3
      <4> QED BY <2>2, <3>1, <4>1, Zenon
    <3> QED BY <3>2, <3>3
  <2>4. g = [line \in 0 .. k + 1 |-> g[line]]
    BY Zenon
  <2> HIDE DEF g
  <2>5. Asks(g, k + 1)
    BY <2>3, <2>4, Zenon DEF Asks
  <2> QED BY <2>5
<1> HIDE DEF I
<1>3. Nat \subseteq I
  BY <1>1, <1>2, SetInduction
<1>4. n \in I
  BY <1>3
<1> QED BY <1>4 DEF I

LEMMA RequestedAsks ==
  ASSUME NEW n \in Nat
  PROVE  \E f : Asks(f, n) /\ Requested(n) = f[n]
<1> DEFINE f == CHOOSE f : Asks(f, n)
<1>1. Asks(f, n)
  BY AsksExists, Zenon
<1>2. Requested(n) = f[n]
  BY Zenon DEF Requested, Asks, AskLine
<1> QED BY <1>1, <1>2

\* The source's markers become breakpoints, without a condition where there was none.
LEMMA RequestedFacts ==
  ASSUME Searchable(bs), srcMarks \subseteq Lines, NEW n \in 0 .. MaxLines
  PROVE  /\ Searchable(Requested(n))
         /\ ToSet(Requested(n).bps) = ToSet(bs.bps) \cup {AddressOf(line) : line \in srcMarks \cap 1 .. n}
         /\ \A g : Conform(bs, g) /\ (\A a \in Addresses \ ToSet(bs.bps) : g[a] = "none") => Conform(Requested(n), g)
<1>0. n \in Nat /\ MaxLines \in Nat
  BY BreakpointsAssumption
<1>1. PICK f : Asks(f, n) /\ Requested(n) = f[n]
  BY <1>0, RequestedAsks
<1>2. \A line \in 0 .. n : f[line] = AskLine(line, f[line - 1])
  BY <1>1, Zenon DEF Asks
<1> DEFINE Set(k) == ToSet(bs.bps) \cup {AddressOf(line) : line \in srcMarks \cap 1 .. k}
           Good(g) == Conform(bs, g) /\ \A a \in Addresses \ ToSet(bs.bps) : g[a] = "none"
           I == {k \in 0 .. n : /\ Searchable(f[k])
                                /\ ToSet(f[k].bps) = Set(k)
                                /\ \A g : Good(g) => Conform(f[k], g)}
<1>3. 0 \in I
  <2>1. 0 \in 0 .. n /\ srcMarks \cap 1 .. 0 = {}
    BY <1>0
  <2>2. f[0] = bs
    BY <1>2, <2>1 DEF AskLine
  <2>3. Set(0) = ToSet(bs.bps)
    BY <2>1
  <2> HIDE DEF Set
  <2> QED BY <2>1, <2>2, <2>3
<1>4. ASSUME NEW k \in 0 .. n - 1, k \in I PROVE k + 1 \in I
  <2>1. k + 1 \in 0 .. n /\ k + 1 # 0 /\ (k + 1) - 1 = k /\ k + 1 \in 1 .. k + 1
    BY <1>0
  <2>2. f[k + 1] = IF k + 1 \in srcMarks THEN AddBP(f[k], AddressOf(k + 1)) ELSE f[k]
    BY <1>2, <2>1 DEF AskLine
  <2>3. Searchable(f[k]) /\ ToSet(f[k].bps) = Set(k) /\ \A g : Good(g) => Conform(f[k], g)
    BY <1>4
  <2>4. CASE k + 1 \notin srcMarks
    <3>1. srcMarks \cap 1 .. k + 1 = srcMarks \cap 1 .. k
      <4>1. \A l \in 1 .. k + 1 : l \in 1 .. k \/ l = k + 1
        OBVIOUS
      <4>2. \A l \in 1 .. k : l \in 1 .. k + 1
        OBVIOUS
      <4> QED BY <2>4, <4>1, <4>2
    <3>2. Set(k + 1) = Set(k)
      BY <3>1
    <3> HIDE DEF Set, Good
    <3> QED BY <2>1, <2>2, <2>3, <2>4, <3>2
  <2>5. CASE k + 1 \in srcMarks
    <3> DEFINE a == AddressOf(k + 1)
    <3>1. a \in Addresses
      BY <1>0, <2>5 DEF AddressOf, Addresses
    <3>2. Set(k + 1) = Set(k) \cup {a}
      <4>1. \A l \in 1 .. k + 1 : l \in 1 .. k \/ l = k + 1
        OBVIOUS
      <4>2. \A l \in 1 .. k : l \in 1 .. k + 1
        OBVIOUS
      <4>3. Set(k + 1) \subseteq Set(k) \cup {a}
        BY <4>1
      <4>4. Set(k) \subseteq Set(k + 1)
        BY <4>2
      <4>5. a \in Set(k + 1)
        BY <2>1, <2>5
      <4> QED BY <4>3, <4>4, <4>5
    <3>3. f[k + 1] = AddBP(f[k], a)
      BY <2>2, <2>5
    <3>4. \A g : Good(g) /\ a \notin Set(k) => g[a] = "none"
      BY <3>1
    <3> HIDE DEF Set, Good, a
    <3>5. Searchable(AddBP(f[k], a)) /\ ToSet(AddBP(f[k], a).bps) = ToSet(f[k].bps) \cup {a}
      BY <2>3, <3>1, AddFacts
    <3>6. \A g : Conform(f[k], g) /\ (a \notin ToSet(f[k].bps) => g[a] = "none") => Conform(AddBP(f[k], a), g)
      BY <2>3, <3>1, AddFacts
    <3>7. \A g : Good(g) => Conform(AddBP(f[k], a), g)
      BY <2>3, <3>4, <3>6
    <3> QED BY <2>1, <2>3, <3>2, <3>3, <3>5, <3>7
  <2> QED BY <2>4, <2>5
<1> HIDE DEF I
<1>5. 0 .. n \subseteq I
  BY <1>0, <1>3, <1>4, SetInductionTo
<1>6. n \in I
  BY <1>0, <1>5
<1> QED BY <1>1, <1>6 DEF I

-----------------------------------------------------------------------------
(* The invariant of the breakpoints.                                       *)

LinesInv ==
  /\ lines \in Lines /\ mapped \in 0 .. lines /\ listed \in 0 .. mapped
  /\ srcMarks \subseteq 1 .. lines /\ listMarks \subseteq 1 .. lines

TableInv ==
  /\ Searchable(bs)
  /\ DOMAIN given = ToSet(bs.bps) /\ Conform(bs, given)
  /\ ToSet(bs.bps) \subseteq DOMAIN editors /\ DOMAIN editors \subseteq Addresses

\* The table shows the conditions that were given, but for the texts that were kept.
TextInv ==
  /\ DOMAIN editors \ ToSet(bs.bps) \subseteq kept
  /\ \A a \in ToSet(bs.bps) \ kept : given[a] = "cond" <=> editors[a] = "cond"

FreshInv ==
  fresh => /\ mapped = lines /\ listed = lines /\ listMarks = srcMarks
           /\ \A line \in srcMarks : AddressOf(line) \in ToSet(bs.bps)

BreakpointsInv == LinesInv /\ TableInv /\ TextInv /\ FreshInv

\* The conditions given so far, and none for the addresses that are no breakpoint.
GivenOrNone == [a \in Addresses |-> IF a \in DOMAIN given THEN given[a] ELSE "none"]

LEMMA GivenBefore ==
  ASSUME TableInv
  PROVE  Conform(bs, GivenOrNone) /\ \A a \in Addresses \ ToSet(bs.bps) : GivenOrNone[a] = "none"
<1>1. /\ ToSet(bs.bps) = {bs.bps[k] : k \in 1 .. Len(bs.bps)}
      /\ ToSet(bs.bps) \subseteq Addresses
  BY SearchableFacts DEF TableInv
<1>2. \A k \in 1 .. Len(bs.bps) : bs.conds[k] = given[bs.bps[k]]
  BY DEF TableInv, Conform
<1>3. DOMAIN given = ToSet(bs.bps)
  BY DEF TableInv
<1>4. \A a \in Addresses : GivenOrNone[a] = IF a \in DOMAIN given THEN given[a] ELSE "none"
  BY DEF GivenOrNone
<1> QED BY <1>1, <1>2, <1>3, <1>4 DEF Conform

LEMMA GivenAfter ==
  ASSUME NEW s, Searchable(s), Conform(s, GivenOrNone)
  PROVE  Conform(s, GivenIn(s)) /\ DOMAIN GivenIn(s) = ToSet(s.bps)
<1>1. /\ ToSet(s.bps) = {s.bps[k] : k \in 1 .. Len(s.bps)}
      /\ ToSet(s.bps) \subseteq Addresses
  BY SearchableFacts
<1>2. \A k \in 1 .. Len(s.bps) : s.conds[k] = GivenOrNone[s.bps[k]]
  BY DEF Conform
<1>3. \A a \in Addresses : GivenOrNone[a] = IF a \in DOMAIN given THEN given[a] ELSE "none"
  BY DEF GivenOrNone
<1>4. \A a \in ToSet(s.bps) : GivenIn(s)[a] = IF a \in DOMAIN given THEN given[a] ELSE "none"
  BY DEF GivenIn
<1>5. DOMAIN GivenIn(s) = ToSet(s.bps)
  BY DEF GivenIn
<1> QED BY <1>1, <1>2, <1>3, <1>4, <1>5 DEF Conform

LEMMA LinesFacts ==
  ASSUME LinesInv
  PROVE  /\ lines \in Nat /\ mapped \in Nat /\ listed \in Nat /\ MaxLines \in Nat
         /\ lines \in 1 .. MaxLines /\ listed <= mapped /\ mapped <= lines
         /\ \A line \in 1 .. lines : AddressOf(line) \in Addresses /\ line \in Lines
         /\ srcMarks \subseteq Lines
<1>1. lines \in 1 .. MaxLines /\ MaxLines \in Nat
  BY BreakpointsAssumption DEF LinesInv, Lines
<1>2. lines \in Nat /\ mapped \in Nat /\ listed \in Nat /\ listed <= mapped /\ mapped <= lines
  BY <1>1 DEF LinesInv
<1>3. \A line \in 1 .. lines : AddressOf(line) \in Addresses /\ line \in Lines
  BY <1>1 DEF AddressOf, Addresses, Lines
<1>4. srcMarks \subseteq Lines
  BY <1>3 DEF LinesInv
<1> QED BY <1>1, <1>2, <1>3, <1>4

LEMMA AddressOneToOne ==
  ASSUME NEW l \in Nat, NEW m \in Nat, AddressOf(l) = AddressOf(m)
  PROVE  l = m
BY DEF AddressOf

LEMMA BreakpointsStart == Init => BreakpointsInv
<1> SUFFICES ASSUME Init PROVE BreakpointsInv
  OBVIOUS
<1>1. LinesInv
  BY BreakpointsAssumption DEF Init, LinesInv, Lines
<1>2. bs = [bps |-> <<>>, conds |-> <<>>, mask |-> {}] /\ bs.bps = <<>> /\ bs.conds = <<>> /\ bs.mask = {}
  BY DEF Init, EmptySet
<1>3. bs \in [bps : Seq(Addresses), conds : Seq(Conditions), mask : Masks]
  <2>1. <<>> \in Seq(Addresses) /\ <<>> \in Seq(Conditions) /\ {} \in Masks
    BY DEF Masks
  <2> QED BY <1>2, <2>1
<1>4. Len(bs.bps) = 0 /\ Len(bs.conds) = 0 /\ 1 .. 0 = {}
  BY <1>2
<1>5. Searchable(bs)
  BY <1>3, <1>4 DEF Searchable
<1>6. ToSet(bs.bps) = {}
  BY <1>4, <1>5, SearchableFacts
<1>7. DOMAIN given = {} /\ DOMAIN editors = {}
  BY DEF Init
<1>8. TableInv
  BY <1>4, <1>5, <1>6, <1>7 DEF TableInv, Conform
<1>9. TextInv
  BY <1>6, <1>7 DEF TextInv
<1>10. FreshInv
  BY DEF Init, FreshInv
<1> QED BY <1>1, <1>8, <1>9, <1>10 DEF BreakpointsInv

\* After a signal of the set s the table shows the conditions of the history.
LEMMA TextAfter ==
  ASSUME TableInv, TextInv, NEW s,
         given' = GivenIn(s), editors' = OnBreakpointsChanged(editors, s), bs' = s,
         kept \cap ToSet(s.bps) \subseteq kept'
  PROVE  TextInv'
<1>1. DOMAIN given = ToSet(bs.bps) /\ ToSet(bs.bps) \subseteq DOMAIN editors
  BY DEF TableInv
<1>2. DOMAIN editors' = ToSet(s.bps)
  BY DEF OnBreakpointsChanged
<1>3. ASSUME NEW a \in ToSet(s.bps) \ kept' PROVE given'[a] = "cond" <=> editors'[a] = "cond"
  <2>1. a \notin kept
    BY <1>3
  <2>2. /\ given'[a] = IF a \in DOMAIN given THEN given[a] ELSE "none"
        /\ editors'[a] = IF a \in DOMAIN editors THEN editors[a] ELSE "none"
    BY <1>3 DEF GivenIn, OnBreakpointsChanged
  <2>3. a \in DOMAIN editors => a \in DOMAIN given
    BY <1>1, <2>1 DEF TextInv
  <2>4. a \in DOMAIN given => (given[a] = "cond" <=> editors[a] = "cond")
    BY <1>1, <2>1 DEF TextInv
  <2> QED BY <1>1, <2>2, <2>3, <2>4
<1> QED BY <1>2, <1>3 DEF TextInv

\* updateBPAtAddress() keeps the set and the table, and changes one address.
LEMMA UpdateFacts ==
  ASSUME TableInv, TextInv, NEW a \in Addresses, NEW add \in BOOLEAN, UpdateBPAtAddress(a, add)
  PROVE  /\ TableInv' /\ TextInv'
         /\ ToSet(bs'.bps) = IF add THEN ToSet(bs.bps) \cup {a} ELSE ToSet(bs.bps) \ {a}
<1> DEFINE s == IF add THEN AddBP(bs, a) ELSE RemoveBP(bs, a)
<1>1. Searchable(bs)
  BY DEF TableInv
<1>2. Conform(bs, GivenOrNone) /\ \A x \in Addresses \ ToSet(bs.bps) : GivenOrNone[x] = "none"
  BY GivenBefore
<1>3. /\ Searchable(s) /\ Conform(s, GivenOrNone)
      /\ ToSet(s.bps) = IF add THEN ToSet(bs.bps) \cup {a} ELSE ToSet(bs.bps) \ {a}
  <2>1. CASE add
    <3>1. a \notin ToSet(bs.bps) => GivenOrNone[a] = "none"
      BY <1>2
    <3>2. /\ Searchable(AddBP(bs, a)) /\ ToSet(AddBP(bs, a).bps) = ToSet(bs.bps) \cup {a}
          /\ Conform(AddBP(bs, a), GivenOrNone)
      BY <1>1, <1>2, <3>1, AddFacts
    <3> QED BY <2>1, <3>2
  <2>2. CASE ~add
    <3>1. /\ Searchable(RemoveBP(bs, a)) /\ ToSet(RemoveBP(bs, a).bps) = ToSet(bs.bps) \ {a}
          /\ Conform(RemoveBP(bs, a), GivenOrNone)
      BY <1>1, <1>2, RemoveFacts
    <3> QED BY <2>2, <3>1
  <2> QED BY <2>1, <2>2
<1>4. /\ bs' = s /\ given' = GivenIn(s)
      /\ editors' = IF s = bs THEN editors ELSE OnBreakpointsChanged(editors, s)
      /\ kept' = IF s = bs THEN kept ELSE kept \cap ToSet(s.bps)
  BY DEF UpdateBPAtAddress
<1> HIDE DEF s
<1>5. Conform(s, GivenIn(s)) /\ DOMAIN GivenIn(s) = ToSet(s.bps)
  BY <1>3, GivenAfter
<1>6. ToSet(bs.bps) \subseteq DOMAIN editors /\ DOMAIN editors \subseteq Addresses
  BY DEF TableInv
<1>7. DOMAIN OnBreakpointsChanged(editors, s) = ToSet(s.bps)
  BY DEF OnBreakpointsChanged
<1>8. ToSet(s.bps) \subseteq Addresses
  BY <1>3, SearchableFacts
<1>9. ToSet(s.bps) \subseteq DOMAIN editors' /\ DOMAIN editors' \subseteq Addresses
  BY <1>4, <1>6, <1>7, <1>8
<1>10. Searchable(bs)' /\ Conform(bs, given)' /\ (DOMAIN given)' = ToSet(s.bps)
  BY <1>3, <1>4, <1>5
<1>11. TextInv'
  <2>1. CASE s = bs
    <3>1. \A x \in ToSet(bs.bps) : GivenIn(s)[x] = given[x]
      <4>1. DOMAIN given = ToSet(bs.bps)
        BY DEF TableInv
      <4> QED BY <2>1, <4>1 DEF GivenIn
    <3>2. bs' = bs /\ editors' = editors /\ kept' = kept /\ \A x \in ToSet(bs.bps) : given'[x] = given[x]
      BY <1>4, <2>1, <3>1
    <3> QED BY <3>2 DEF TextInv
  <2>2. CASE s # bs
    <3>1. editors' = OnBreakpointsChanged(editors, s) /\ kept' = kept \cap ToSet(s.bps)
      BY <1>4, <2>2
    <3> QED BY <1>4, <3>1, TextAfter
  <2> QED BY <2>1, <2>2
<1> QED BY <1>3, <1>4, <1>9, <1>10, <1>11 DEF TableInv

LEMMA MarkedFacts ==
  ASSUME NEW marks, NEW line, NEW add \in BOOLEAN
  PROVE  \A l : l \in Marked(marks, line, add) <=> IF l = line THEN add ELSE l \in marks
BY DEF Marked

\* On a source that is assembled a click marks both margins and moves one breakpoint.
LEMMA ClickFacts ==
  ASSUME BreakpointsInv, NEW line \in 1 .. lines, NEW add \in BOOLEAN,
         UpdateBPAtAddress(AddressOf(line), add),
         srcMarks' = Marked(srcMarks, line, add), listMarks' = Marked(listMarks, line, add),
         UNCHANGED <<lines, mapped, listed, fresh>>
  PROVE  BreakpointsInv'
<1> USE DEF BreakpointsInv
<1>0. /\ lines \in Nat /\ AddressOf(line) \in Addresses
      /\ srcMarks \subseteq 1 .. lines /\ listMarks \subseteq 1 .. lines
  BY LinesFacts DEF LinesInv
<1>1. /\ TableInv' /\ TextInv'
      /\ ToSet(bs'.bps) = IF add THEN ToSet(bs.bps) \cup {AddressOf(line)}
                          ELSE ToSet(bs.bps) \ {AddressOf(line)}
  BY <1>0, UpdateFacts
<1>2. /\ \A l : l \in srcMarks' <=> IF l = line THEN add ELSE l \in srcMarks
      /\ \A l : l \in listMarks' <=> IF l = line THEN add ELSE l \in listMarks
  BY MarkedFacts
<1>3. srcMarks' \subseteq 1 .. lines /\ listMarks' \subseteq 1 .. lines
  BY <1>0, <1>2
<1>4. LinesInv'
  BY <1>3 DEF LinesInv
<1>5. FreshInv'
  <2> SUFFICES ASSUME fresh'
               PROVE  /\ mapped' = lines' /\ listed' = lines' /\ listMarks' = srcMarks'
                      /\ \A l \in srcMarks' : AddressOf(l) \in ToSet(bs'.bps)
    BY DEF FreshInv, AddressOf
  <2>1. /\ mapped = lines /\ listed = lines /\ listMarks = srcMarks
        /\ \A l \in srcMarks : AddressOf(l) \in ToSet(bs.bps)
    BY DEF FreshInv
  <2>2. listMarks' = srcMarks'
    BY <2>1
  <2>3. ASSUME NEW l \in srcMarks' PROVE AddressOf(l) \in ToSet(bs'.bps)
    <3>1. CASE l = line
      BY <1>1, <1>2, <2>3, <3>1
    <3>2. CASE l # line
      <4>1. l \in srcMarks /\ AddressOf(l) \in ToSet(bs.bps)
        BY <1>2, <2>1, <2>3, <3>2
      <4>2. l \in Nat /\ line \in Nat
        BY <1>0, <4>1
      <4>3. AddressOf(l) # AddressOf(line)
        BY <3>2, <4>2, AddressOneToOne
      <4> QED BY <1>1, <4>1, <4>3
    <3> QED BY <3>1, <3>2
  <2> QED BY <2>1, <2>2, <2>3
<1> QED BY <1>1, <1>4, <1>5

LEMMA BreakpointsStep == BreakpointsInv /\ [Next]_vars => BreakpointsInv'
<1> SUFFICES ASSUME BreakpointsInv, [Next]_vars PROVE BreakpointsInv'
  OBVIOUS
<1> USE DEF BreakpointsInv
<1>0. /\ lines \in Nat /\ mapped \in Nat /\ listed \in Nat /\ MaxLines \in Nat
      /\ lines \in 1 .. MaxLines /\ listed <= mapped /\ mapped <= lines
      /\ \A line \in 1 .. lines : AddressOf(line) \in Addresses /\ line \in Lines
      /\ srcMarks \subseteq Lines
      /\ srcMarks \subseteq 1 .. lines /\ listMarks \subseteq 1 .. lines
      /\ mapped \in 0 .. lines /\ listed \in 0 .. mapped /\ lines \in Lines
  BY LinesFacts DEF LinesInv
<1>t. /\ Searchable(bs) /\ DOMAIN given = ToSet(bs.bps) /\ Conform(bs, given)
      /\ ToSet(bs.bps) \subseteq DOMAIN editors /\ DOMAIN editors \subseteq Addresses
  BY DEF TableInv
<1>1. ASSUME NEW line \in 1 .. lines, ClickSource(line) PROVE BreakpointsInv'
  <2> DEFINE add == line \notin srcMarks
  <2>1. add \in BOOLEAN /\ srcMarks' = Marked(srcMarks, line, add) /\ UNCHANGED <<lines, mapped, listed, fresh>>
    BY <1>1 DEF ClickSource
  <2>2. CASE line <= mapped /\ line <= listed
    <3>1. UpdateBPAtAddress(AddressOf(line), add) /\ listMarks' = Marked(listMarks, line, add)
      BY <1>1, <2>2 DEF ClickSource
    <3> HIDE DEF add
    <3> QED BY <2>1, <3>1, ClickFacts
  <2>3. CASE ~(line <= mapped /\ line <= listed)
    <3>1. listMarks' = listMarks
      BY <1>1, <2>3 DEF ClickSource
    <3>2. ~fresh
      BY <1>0, <2>3 DEF FreshInv
    <3>3. FreshInv'
      BY <2>1, <3>2 DEF FreshInv
    <3>4. srcMarks' \subseteq 1 .. lines
      <4>1. \A l : l \in srcMarks' <=> IF l = line THEN add ELSE l \in srcMarks
        BY <2>1, MarkedFacts
      <4> QED BY <1>0, <4>1
    <3>5. LinesInv'
      BY <1>0, <2>1, <3>1, <3>4 DEF LinesInv
    <3>6. TableInv' /\ TextInv'
      <4>1. CASE line <= mapped
        <5>1. UpdateBPAtAddress(AddressOf(line), add)
          BY <1>1, <4>1 DEF ClickSource
        <5> HIDE DEF add
        <5> QED BY <1>0, <2>1, <5>1, UpdateFacts
      <4>2. CASE ~(line <= mapped)
        <5>1. UNCHANGED <<bs, editors, given, kept>>
          BY <1>1, <4>2 DEF ClickSource
        <5> QED BY <1>t, <5>1 DEF TableInv, TextInv
      <4> QED BY <4>1, <4>2
    <3> QED BY <3>3, <3>5, <3>6
  <2> QED BY <2>2, <2>3
<1>2. ASSUME NEW i \in 1 .. lines, InsertLine(i) PROVE BreakpointsInv'
  <2>1. /\ lines < MaxLines /\ lines' = lines + 1 /\ fresh' = FALSE
        /\ srcMarks' = {IF l >= i THEN l + 1 ELSE l : l \in srcMarks}
        /\ UNCHANGED <<mapped, listed, listMarks, bs, editors, given, kept>>
    BY <1>2 DEF InsertLine
  <2>2. FreshInv'
    BY <2>1 DEF FreshInv
  <2>3. TableInv' /\ TextInv'
    BY <1>t, <2>1 DEF TableInv, TextInv
  <2>4. srcMarks' \subseteq 1 .. lines + 1
    BY <1>0, <2>1
  <2>5. listMarks' \subseteq 1 .. lines + 1
    BY <1>0, <2>1
  <2>6. lines' \in Lines /\ mapped' \in 0 .. lines' /\ listed' \in 0 .. mapped'
    BY <1>0, <2>1 DEF Lines
  <2>7. LinesInv'
    BY <2>1, <2>4, <2>5, <2>6 DEF LinesInv
  <2> QED BY <2>2, <2>3, <2>7
<1>3. ASSUME NEW line \in 1 .. listed, ClickListing(line) PROVE BreakpointsInv'
  <2> DEFINE add == line \notin listMarks
  <2>1. /\ add \in BOOLEAN /\ UpdateBPAtAddress(AddressOf(line), add)
        /\ srcMarks' = Marked(srcMarks, line, add) /\ listMarks' = Marked(listMarks, line, add)
        /\ UNCHANGED <<lines, mapped, listed, fresh>>
    BY <1>3 DEF ClickListing
  <2>2. line \in 1 .. lines
    BY <1>0
  <2> HIDE DEF add
  <2> QED BY <2>1, <2>2, ClickFacts
<1>4. ASSUME NEW row \in DOMAIN bs.bps, NEW text \in Texts \ {"none"}, EditCondition(row, text)
      PROVE  BreakpointsInv'
  <2> DEFINE a == bs.bps[row]
             c == IF text = "cond" THEN "cond" ELSE "none"
  <2>1. /\ editors' = [x \in DOMAIN editors \cup {a} |-> IF x = a THEN text ELSE editors[x]]
        /\ bs' = ModifyCondition(bs, a, c) /\ given' = [given EXCEPT ![a] = c]
        /\ kept' = kept \ {a} /\ UNCHANGED <<lines, mapped, listed, fresh>>
        /\ IF HasBP(bs, a) THEN OnBPConditionChanged(a) ELSE UNCHANGED <<srcMarks, listMarks>>
    BY <1>4 DEF EditCondition
  <2>2. a \in ToSet(bs.bps)
    BY DEF ToSet
  <2>3. c \in Conditions /\ (c = "cond" <=> text = "cond")
    BY DEF Conditions
  <2>4. a \in Addresses
    BY <1>t, <2>2
  <2> HIDE DEF a, c
  <2>5. /\ Searchable(bs') /\ bs'.bps = bs.bps
        /\ \A g : Conform(bs, g) /\ a \in DOMAIN g => Conform(bs', [g EXCEPT ![a] = c])
    BY <1>t, <2>1, <2>2, <2>3, ModifyFacts
  <2>6. Conform(bs', given')
    BY <1>t, <2>1, <2>2, <2>5
  <2>7. DOMAIN given' = DOMAIN given /\ DOMAIN editors' = DOMAIN editors \cup {a}
    BY <2>1
  <2>8. TableInv'
    BY <1>t, <2>4, <2>5, <2>6, <2>7 DEF TableInv
  <2>9. TextInv'
    <3>1. /\ \A x \in ToSet(bs.bps) : given'[x] = IF x = a THEN c ELSE given[x]
          /\ \A x \in ToSet(bs.bps) : editors'[x] = IF x = a THEN text ELSE editors[x]
      BY <1>t, <2>1
    <3> QED BY <2>1, <2>2, <2>3, <2>5, <2>7, <3>1 DEF TextInv
  <2>10. PICK line : line = LineOf(a)
    OBVIOUS
  <2>11. line \in Nat /\ 1 <= line /\ AddressOf(line) = a
    BY <2>4, <2>10, BreakpointsAssumption DEF LineOf, AddressOf, Addresses
  <2>12. /\ \A l \in srcMarks' : l \in srcMarks \/ (l = line /\ line <= mapped)
         /\ \A l \in listMarks' : l \in listMarks \/ (l = line /\ line <= mapped)
         /\ mapped = listed /\ listMarks = srcMarks => listMarks' = srcMarks'
    <3>1. CASE HasBP(bs, a)
      <4>1. /\ listMarks' = IF line <= mapped /\ line <= listed THEN listMarks \cup {line} ELSE listMarks
            /\ srcMarks' = IF line <= mapped THEN srcMarks \cup {line} ELSE srcMarks
        BY <2>1, <2>10, <3>1 DEF OnBPConditionChanged
      <4> QED BY <4>1
    <3>2. CASE ~HasBP(bs, a)
      BY <2>1, <3>2
    <3> QED BY <3>1, <3>2
  <2>13. line <= mapped => line \in 1 .. lines
    BY <1>0, <2>11
  <2>14. LinesInv'
    BY <1>0, <2>1, <2>12, <2>13 DEF LinesInv
  <2>15. FreshInv'
    <3> SUFFICES ASSUME fresh'
                 PROVE  /\ mapped' = lines' /\ listed' = lines' /\ listMarks' = srcMarks'
                        /\ \A l \in srcMarks' : AddressOf(l) \in ToSet(bs'.bps)
      BY DEF FreshInv, AddressOf
    <3>1. /\ mapped = lines /\ listed = lines /\ listMarks = srcMarks
          /\ \A l \in srcMarks : AddressOf(l) \in ToSet(bs.bps)
      BY <2>1 DEF FreshInv
    <3> QED BY <2>1, <2>2, <2>5, <2>11, <2>12, <3>1
  <2> QED BY <2>8, <2>9, <2>14, <2>15
<1>5. ASSUME AssembleSucceeds PROVE BreakpointsInv'
  <2> DEFINE s == Requested(lines)
  <2>1. /\ mapped' = lines /\ listed' = lines /\ listMarks' = srcMarks /\ bs' = s /\ given' = GivenIn(s)
        /\ editors' = OnBreakpointsChanged(OnBreakpointsChanged(editors, bs), s)
        /\ kept' = kept \cap ToSet(bs.bps) /\ UNCHANGED <<lines, srcMarks>>
    BY <1>5 DEF AssembleSucceeds
  <2>2. Conform(bs, GivenOrNone) /\ \A a \in Addresses \ ToSet(bs.bps) : GivenOrNone[a] = "none"
    BY GivenBefore
  <2>3. lines \in 0 .. MaxLines
    BY <1>0
  <2>4. /\ Searchable(s)
        /\ ToSet(s.bps) = ToSet(bs.bps) \cup {AddressOf(line) : line \in srcMarks \cap 1 .. lines}
    BY <1>0, <1>t, <2>3, RequestedFacts
  <2>5. Conform(s, GivenOrNone)
    BY <1>0, <1>t, <2>2, <2>3, RequestedFacts
  <2> HIDE DEF s
  <2>6. Conform(s, GivenIn(s)) /\ DOMAIN GivenIn(s) = ToSet(s.bps)
    BY <2>4, <2>5, GivenAfter
  <2>7. DOMAIN editors' = ToSet(s.bps)
    BY <2>1 DEF OnBreakpointsChanged
  <2>8. ToSet(s.bps) \subseteq Addresses
    BY <2>4, SearchableFacts
  <2>9. TableInv'
    BY <2>1, <2>4, <2>6, <2>7, <2>8 DEF TableInv
  <2>10. LinesInv'
    BY <1>0, <2>1 DEF LinesInv
  <2>11. \A line \in srcMarks : AddressOf(line) \in ToSet(s.bps)
    BY <1>0, <2>4
  <2>12. FreshInv'
    BY <2>1, <2>11 DEF FreshInv, AddressOf
  <2>13. TextInv'
    <3>1. ASSUME NEW x \in ToSet(s.bps) \ kept' PROVE given'[x] = "cond" <=> editors'[x] = "cond"
      <4>1. given'[x] = IF x \in DOMAIN given THEN given[x] ELSE "none"
        BY <2>1, <3>1 DEF GivenIn
      <4>2. PICK shows : shows = OnBreakpointsChanged(editors, bs)
        OBVIOUS
      <4>3. DOMAIN shows = ToSet(bs.bps) /\ \A y \in ToSet(bs.bps) : shows[y] = editors[y]
        BY <1>t, <4>2 DEF OnBreakpointsChanged
      <4>4. editors'[x] = IF x \in DOMAIN shows THEN shows[x] ELSE "none"
        BY <2>1, <3>1, <4>2 DEF OnBreakpointsChanged
      <4>5. x \in ToSet(bs.bps) => x \notin kept
        BY <2>1, <3>1
      <4> QED BY <1>t, <4>1, <4>3, <4>4, <4>5 DEF TextInv
    <3> QED BY <2>1, <2>7, <3>1 DEF TextInv
  <2> QED BY <2>9, <2>10, <2>12, <2>13
<1>6. ASSUME AssembleFails PROVE BreakpointsInv'
  <2>1. /\ listed' = 0 /\ listMarks' = {} /\ fresh' = FALSE
        /\ UNCHANGED <<lines, mapped, srcMarks, bs, editors, given, kept>>
    BY <1>6 DEF AssembleFails
  <2>2. LinesInv'
    BY <1>0, <2>1 DEF LinesInv
  <2>3. TableInv' /\ TextInv'
    BY <1>t, <2>1 DEF TableInv, TextInv
  <2>4. FreshInv'
    BY <2>1 DEF FreshInv
  <2> QED BY <2>2, <2>3, <2>4
<1>7. ASSUME RemoveAllBreakpoints PROVE BreakpointsInv'
  <2>1. /\ bs' = ClearBPs(bs) /\ editors' = OnBreakpointsChanged(editors, bs) /\ given' = <<>>
        /\ srcMarks' = {} /\ listMarks' = {} /\ kept' = ToSet(bs.bps)
        /\ UNCHANGED <<lines, mapped, listed, fresh>>
    BY <1>7 DEF RemoveAllBreakpoints
  <2>2. bs \in [bps : Seq(Addresses), conds : Seq(Conditions), mask : Masks]
    BY <1>t DEF Searchable
  <2>3. bs' = [bps |-> <<>>, conds |-> <<>>, mask |-> bs.mask] /\ bs.mask \in Masks
    BY <2>1, <2>2 DEF ClearBPs
  <2>4. <<>> \in Seq(Addresses) /\ <<>> \in Seq(Conditions)
    OBVIOUS
  <2>5. bs' \in [bps : Seq(Addresses), conds : Seq(Conditions), mask : Masks]
    BY <2>3, <2>4
  <2>6. bs'.bps = <<>> /\ bs'.conds = <<>> /\ Len(bs'.bps) = 0 /\ Len(bs'.conds) = 0 /\ 1 .. 0 = {}
    BY <2>3
  <2>7. Searchable(bs')
    BY <2>5, <2>6 DEF Searchable
  <2>8. ToSet(bs'.bps) = {}
    BY <2>6, <2>7, SearchableFacts
  <2>9. DOMAIN given' = {} /\ DOMAIN editors' = ToSet(bs.bps)
    BY <2>1 DEF OnBreakpointsChanged
  <2>10. ToSet(bs.bps) \subseteq Addresses
    BY <1>t
  <2>11. TableInv'
    BY <2>6, <2>7, <2>8, <2>9, <2>10 DEF TableInv, Conform
  <2>12. LinesInv'
    BY <1>0, <2>1 DEF LinesInv
  <2>13. FreshInv'
    BY <2>1 DEF FreshInv
  <2>14. TextInv'
    BY <2>1, <2>8, <2>9 DEF TextInv
  <2> QED BY <2>11, <2>12, <2>13, <2>14
<1>8. CASE UNCHANGED vars
  <2>1. UNCHANGED <<lines, mapped, listed, srcMarks, listMarks, bs, editors, given, kept, fresh>>
    BY <1>8 DEF vars
  <2>2. LinesInv'
    BY <1>0, <2>1 DEF LinesInv
  <2>3. TableInv' /\ TextInv'
    BY <1>t, <2>1 DEF TableInv, TextInv
  <2>4. FreshInv'
    BY <2>1 DEF FreshInv, AddressOf
  <2> QED BY <2>2, <2>3, <2>4
<1> QED BY <1>1, <1>2, <1>3, <1>4, <1>5, <1>6, <1>7, <1>8 DEF Next

LEMMA BreakpointsInvariant == Spec => []BreakpointsInv
BY BreakpointsStart, BreakpointsStep, PTL DEF Spec

\* BreakpointSet: hasBP()'s bitmask and binary search answer what the list holds, through
\* every addBP(), removeBP(), modify_condition() and clearBPs() the views can ask for.
THEOREM BreakpointsAreFound == Spec => []SetIsSearchable
<1>1. BreakpointsInv => SetIsSearchable
  <2> SUFFICES ASSUME BreakpointsInv PROVE SetIsSearchable
    OBVIOUS
  <2>1. LinesInv /\ Searchable(bs) /\ DOMAIN editors \subseteq Addresses
    BY DEF BreakpointsInv, TableInv
  <2>2. /\ lines \in Lines /\ mapped \in 0 .. MaxLines /\ listed \in 0 .. MaxLines
        /\ srcMarks \subseteq Lines /\ listMarks \subseteq Lines
    <3>1. listMarks \subseteq 1 .. lines /\ lines \in Lines
      BY <2>1 DEF LinesInv
    <3>2. /\ lines \in Nat /\ mapped \in Nat /\ listed \in Nat /\ MaxLines \in Nat
          /\ lines \in 1 .. MaxLines /\ listed <= mapped /\ mapped <= lines
          /\ (\A line \in 1 .. lines : line \in Lines) /\ srcMarks \subseteq Lines
      BY <2>1, LinesFacts
    <3> QED BY <3>1, <3>2
  <2>3. bs \in [bps : Seq(Addresses), conds : Seq(Conditions), mask : SUBSET (0 .. MaxLines \div Chunk)]
    BY <2>1 DEF Searchable, Masks
  <2>4. TypeOK
    BY <2>1, <2>2, <2>3 DEF TypeOK
  <2>5. \A a \in ToSet(bs.bps) : HasBP(bs, a)
    BY <2>1, HasFacts
  <2>6. DOMAIN bs.bps = 1 .. Len(bs.bps)
    BY <2>1, SearchableFacts
  <2>7. \A j, k \in 1 .. Len(bs.bps) : j < k => bs.bps[j] < bs.bps[k]
    BY <2>1 DEF Searchable
  <2> QED BY <2>4, <2>5, <2>6, <2>7 DEF SetIsSearchable
<1> QED BY <1>1, BreakpointsInvariant, PTL

\* notifyPCChanged() and BreakpointTableModel::data(): the condition at a breakpoint's
\* place is the one it was given, and its row has an editor, which shows that condition
\* unless the address was a breakpoint when all were removed.
THEOREM ConditionsStayTheirs == Spec => []ConditionsBelong
<1>1. BreakpointsInv => ConditionsBelong
  <2> SUFFICES ASSUME BreakpointsInv PROVE ConditionsBelong
    OBVIOUS
  <2>1. Searchable(bs) /\ Conform(bs, given) /\ ToSet(bs.bps) \subseteq DOMAIN editors
    BY DEF BreakpointsInv, TableInv
  <2>2. DOMAIN bs.bps = 1 .. Len(bs.bps) /\ DOMAIN bs.conds = 1 .. Len(bs.bps)
    BY <2>1, SearchableFacts
  <2>3. \A k \in 1 .. Len(bs.bps) : bs.bps[k] \in ToSet(bs.bps)
    BY <2>1, SearchableFacts
  <2>4. \A a \in ToSet(bs.bps) \ kept : given[a] = "cond" <=> editors[a] = "cond"
    BY DEF BreakpointsInv, TextInv
  <2> QED BY <2>1, <2>2, <2>3, <2>4 DEF ConditionsBelong, Conform
<1> QED BY <1>1, BreakpointsInvariant, PTL

\* The markers of an assembled source are active breakpoints, and the listing shows the
\* same ones, through clicks in either margin, edits of the text and of conditions, which
\* mark the line the last assembly put at the address, and reassemblies.
THEOREM MarkersStayActive == Spec => []MarkersActive
<1>1. BreakpointsInv => MarkersActive
  <2> SUFFICES ASSUME BreakpointsInv, fresh
               PROVE  (\A line \in srcMarks : HasBP(bs, AddressOf(line))) /\ listMarks = srcMarks
    BY DEF MarkersActive
  <2>1. Searchable(bs) /\ listMarks = srcMarks /\ \A line \in srcMarks : AddressOf(line) \in ToSet(bs.bps)
    BY DEF BreakpointsInv, TableInv, FreshInv
  <2>2. ASSUME NEW line \in srcMarks PROVE HasBP(bs, AddressOf(line))
    BY <2>1, HasFacts
  <2> QED BY <2>1, <2>2
<1> QED BY <1>1, BreakpointsInvariant, PTL

-----------------------------------------------------------------------------
(* The set of intervals.                                                   *)

Intervals == {i \in [lo : Address, hi : Address] : i.lo <= i.hi}

Apart(i, j) == i.hi + 1 < j.lo \/ j.hi + 1 < i.lo

\* No two intervals overlap or border on each other.
Canonical(s) == s \subseteq Intervals /\ \A i, j \in s : i # j => Apart(i, j)

\* The addresses in the intervals.
Cells(s) == {a \in Address : \E i \in s : i.lo <= a /\ a <= i.hi}

LEMMA IntervalFacts ==
  ASSUME NEW i \in Intervals
  PROVE  i.lo \in Nat /\ i.hi \in Nat /\ i.lo <= i.hi /\ i.lo \in Address /\ i.hi \in Address
         /\ i.lo < Bytes /\ i.hi < Bytes
<1>1. i.lo \in Address /\ i.hi \in Address /\ i.lo <= i.hi
  BY DEF Intervals
<1> QED BY <1>1, PaneAssumption DEF Address

LEMMA IntervalOf ==
  ASSUME NEW x \in Address, NEW y \in Address, x <= y
  PROVE  [lo |-> x, hi |-> y] \in Intervals
BY DEF Intervals

\* In a canonical set, an interval before another ends before the other's neighbour.
LEMMA Ordered ==
  ASSUME NEW s, Canonical(s), NEW i \in s, NEW j \in s
  PROVE  /\ Before(i, j) <=> i.lo < j.lo
         /\ i.lo < j.lo => i.hi + 1 < j.lo
         /\ i.lo = j.lo => i = j
<1>1. i \in Intervals /\ j \in Intervals
  BY DEF Canonical
<1>2. i.lo \in Nat /\ i.hi \in Nat /\ i.lo <= i.hi /\ j.lo \in Nat /\ j.hi \in Nat /\ j.lo <= j.hi
  BY <1>1, IntervalFacts
<1>3. CASE i = j
  BY <1>2, <1>3 DEF Before
<1>4. CASE i # j
  <2>1. i.hi + 1 < j.lo \/ j.hi + 1 < i.lo
    BY <1>4 DEF Canonical, Apart
  <2> QED BY <1>2, <2>1 DEF Before
<1> QED BY <1>3, <1>4

LEMMA LastInterval ==
  ASSUME NEW s, Canonical(s), NEW t \in SUBSET s, t # {}
  PROVE  \E i \in t : \A j \in t : j = i \/ (Before(j, i) /\ j.lo < i.lo)
<1> DEFINE T == {i.lo : i \in t}
<1>1. PICK N \in Nat : N = Bytes - 1
  BY PaneAssumption
<1>2. \A i \in t : i.lo \in Nat /\ i.lo \in Address
  BY IntervalFacts DEF Canonical
<1>3. T \in SUBSET (0 .. N) /\ T # {}
  BY <1>1, <1>2 DEF Address
<1>4. PICK m \in T : \A k \in T : k <= m
  <2> HIDE DEF T
  <2> QED BY <1>1, <1>3, GreatestNat
<1>5. PICK i \in t : m = i.lo
  BY <1>4
<1>6. ASSUME NEW j \in t PROVE j = i \/ (Before(j, i) /\ j.lo < i.lo)
  <2>1. j.lo \in T
    OBVIOUS
  <2>2. j.lo <= i.lo
    BY <1>4, <1>5, <2>1
  <2>3. i \in s /\ j \in s /\ i.lo \in Nat /\ j.lo \in Nat
    BY <1>2
  <2>4. j.lo = i.lo \/ j.lo < i.lo
    BY <2>2, <2>3
  <2>5. (Before(j, i) <=> j.lo < i.lo) /\ (j.lo = i.lo => j = i)
    BY <2>3, Ordered
  <2> QED BY <2>4, <2>5
<1> QED BY <1>6

LEMMA FirstInterval ==
  ASSUME NEW s, Canonical(s), NEW t \in SUBSET s, t # {}
  PROVE  \E i \in t : \A j \in t : j = i \/ (Before(i, j) /\ i.lo < j.lo)
<1> DEFINE T == {i.lo : i \in t}
<1>2. \A i \in t : i.lo \in Nat
  BY IntervalFacts DEF Canonical
<1>3. T \in SUBSET Nat /\ T # {}
  BY <1>2
<1>4. PICK m \in T : \A k \in T : m <= k
  <2> HIDE DEF T
  <2> QED BY <1>3, LeastNat
<1>5. PICK i \in t : m = i.lo
  BY <1>4
<1>6. ASSUME NEW j \in t PROVE j = i \/ (Before(i, j) /\ i.lo < j.lo)
  <2>1. j.lo \in T
    OBVIOUS
  <2>2. i.lo <= j.lo
    BY <1>4, <1>5, <2>1
  <2>3. i \in s /\ j \in s /\ i.lo \in Nat /\ j.lo \in Nat
    BY <1>2
  <2>4. j.lo = i.lo \/ i.lo < j.lo
    BY <2>2, <2>3
  <2>5. (Before(i, j) <=> i.lo < j.lo) /\ (j.lo = i.lo => j = i)
    BY <2>3, Ordered
  <2> QED BY <2>4, <2>5
<1> QED BY <1>6

\* std::prev() of the lower bound.
LEMMA PrevFacts ==
  ASSUME NEW s, Canonical(s), NEW new, Lower(s, new) # {}
  PROVE  /\ Prev(s, new) \in s /\ Prev(s, new) \in Lower(s, new)
         /\ \A j \in Lower(s, new) : j = Prev(s, new) \/ j.hi + 1 < Prev(s, new).lo
<1> DEFINE t == Lower(s, new)
           p == Prev(s, new)
<1>1. t \in SUBSET s /\ t # {}
  BY DEF Lower
<1> DEFINE Final(i) == \A j \in t : j = i \/ Before(j, i)
<1>2. \E i \in t : Final(i)
  <2> HIDE DEF t
  <2> QED BY <1>1, LastInterval
<1>3. p \in t /\ \A j \in t : j = p \/ Before(j, p)
  <2>1. p = CHOOSE i \in t : Final(i)
    BY DEF Prev
  <2>2. p \in t /\ Final(p)
    <3> HIDE DEF t, p, Final
    <3> QED BY <1>2, <2>1
  <2> QED BY <2>2
<1> HIDE DEF t, p
<1>4. ASSUME NEW j \in t, j # p PROVE j.hi + 1 < p.lo
  <2>1. j \in s /\ p \in s /\ Before(j, p)
    BY <1>1, <1>3, <1>4
  <2> QED BY <2>1, Ordered
<1>5. p \in s /\ p \in t /\ \A j \in t : j = p \/ j.hi + 1 < p.lo
  BY <1>1, <1>3, <1>4
<1> QED BY <1>5 DEF t, p

\* contains() of the sink looks at one interval, and it is the one that could hold the
\* address.
LEMMA ContainsFacts ==
  ASSUME NEW s, Canonical(s), NEW a \in Address
  PROVE  SinkContains(s, a) <=> a \in Cells(s)
<1> DEFINE at == [lo |-> a, hi |-> a]
           lower == Lower(s, at)
           upper == s \ lower
           First(i) == \A j \in upper : j = i \/ Before(i, j)
           lb == CHOOSE i \in upper : First(i)
           prev == Prev(s, at)
           Holds(i) == i.lo <= a /\ a <= i.hi
<1>0. a \in Nat
  BY PaneAssumption DEF Address
<1>1. \A i \in s : i.lo \in Nat /\ i.hi \in Nat /\ i.lo <= i.hi
  BY IntervalFacts DEF Canonical
<1>2. \A i \in s : (i \in lower <=> i.lo < a) /\ (i \in upper <=> a <= i.lo)
  <2> TAKE i \in s
  <2>1. at.lo = a /\ at.hi = a
    OBVIOUS
  <2>2. Before(i, at) <=> i.lo < a
    BY <1>0, <1>1, <2>1 DEF Before
  <2>3. i \in lower <=> i.lo < a
    BY <2>2 DEF Lower
  <2>4. i \in upper <=> ~(i.lo < a)
    BY <2>3
  <2> QED BY <1>0, <1>1, <2>3, <2>4
<1>3. lower \in SUBSET s /\ upper \in SUBSET s
  BY DEF Lower
<1>4. SinkContains(s, a) =
        CASE s = {} -> FALSE
          [] s # {} /\ lower = {} -> Holds(lb)
          [] lower # {} /\ upper # {} /\ lb.lo <= a -> Holds(lb)
          [] OTHER -> Holds(prev)
  BY DEF SinkContains
<1>5. upper # {} => lb \in upper /\ \A j \in upper : j = lb \/ Before(lb, j)
  <2> SUFFICES ASSUME upper # {} PROVE lb \in upper /\ First(lb)
    OBVIOUS
  <2>1. \E i \in upper : First(i)
    <3> HIDE DEF upper
    <3> QED BY <1>3, FirstInterval
  <2> HIDE DEF upper, First
  <2> QED BY <2>1
<1>6. lower # {} => prev \in s /\ prev \in lower /\ \A j \in lower : j = prev \/ j.hi + 1 < prev.lo
  BY PrevFacts
<1>7. a \in Cells(s) <=> \E i \in s : Holds(i)
  BY DEF Cells
<1>c. s # {} /\ lower = {} => upper # {}
  BY <1>3
<1>d. SinkContains(s, a) <=> \/ lower = {} /\ upper # {} /\ Holds(lb)
                             \/ lower # {} /\ upper # {} /\ lb.lo <= a /\ Holds(lb)
                             \/ lower # {} /\ ~(upper # {} /\ lb.lo <= a) /\ Holds(prev)
  <2>1. s = {} => lower = {} /\ upper = {}
    BY <1>3
  <2>2. Holds(lb) \in BOOLEAN /\ Holds(prev) \in BOOLEAN
    OBVIOUS
  <2> HIDE DEF lower, upper, lb, prev, Holds
  <2>3. CASE s = {}
    BY <1>4, <2>1, <2>3
  <2>4. CASE s # {} /\ lower = {}
    BY <1>4, <1>c, <2>2, <2>4
  <2>5. CASE s # {} /\ lower # {} /\ upper # {} /\ lb.lo <= a
    BY <1>4, <2>2, <2>5
  <2>6. CASE s # {} /\ lower # {} /\ ~(upper # {} /\ lb.lo <= a)
    BY <1>4, <2>2, <2>6
  <2> QED BY <2>3, <2>4, <2>5, <2>6
<1> HIDE DEF lower, upper, lb, prev, First, at
<1>8. SinkContains(s, a) => \E i \in s : Holds(i)
  BY <1>3, <1>5, <1>6, <1>d
<1>9. ASSUME NEW i \in s, Holds(i) PROVE SinkContains(s, a)
  <2>0. i.lo \in Nat /\ i.hi \in Nat /\ i.lo <= a /\ a <= i.hi
    BY <1>1, <1>9
  <2>1. CASE i.lo = a
    <3>1. i \in upper
      BY <1>0, <1>2, <2>1
    <3>2. lb \in upper /\ (i = lb \/ Before(lb, i))
      BY <1>5, <3>1
    <3>3. a <= lb.lo /\ lb \in s /\ lb.lo \in Nat
      BY <1>1, <1>2, <1>3, <3>2
    <3>4. Before(lb, i) => lb.lo < i.lo
      BY <3>3, Ordered
    <3>5. i = lb
      BY <1>0, <2>1, <3>2, <3>3, <3>4
    <3>6. lb.lo <= a /\ Holds(lb)
      BY <1>9, <3>5
    <3> QED BY <1>d, <3>1, <3>6
  <2>2. CASE i.lo < a
    <3>1. i \in lower
      BY <1>2, <2>2
    <3>2. prev \in s /\ prev \in lower /\ (i = prev \/ i.hi + 1 < prev.lo) /\ prev.lo \in Nat
      BY <1>1, <1>6, <3>1
    <3>3. prev.lo < a
      BY <1>2, <3>2
    <3>4. i = prev
      BY <1>0, <2>0, <3>2, <3>3
    <3>5. ASSUME upper # {}, lb.lo <= a PROVE FALSE
      <4>1. lb \in s /\ a <= lb.lo /\ lb.lo \in Nat
        BY <1>1, <1>2, <1>3, <1>5, <3>5
      <4>2. lb.lo = a /\ i.lo < lb.lo
        BY <1>0, <2>0, <2>2, <3>5, <4>1
      <4>3. i.hi + 1 < lb.lo
        BY <4>1, <4>2, Ordered
      <4> QED BY <1>0, <2>0, <4>2, <4>3
    <3> QED BY <1>9, <1>d, <3>1, <3>4, <3>5
  <2> QED BY <1>0, <2>0, <2>1, <2>2
<1> QED BY <1>7, <1>8, <1>9

\* Where the new interval ends.
LEMMA EndFacts ==
  ASSUME NEW t \in SUBSET Intervals, NEW new \in Intervals
  PROVE  /\ EndAfter(t, new) \in Address /\ EndAfter(t, new) \in Nat
         /\ new.hi <= EndAfter(t, new)
         /\ \A i \in t : i.hi <= EndAfter(t, new)
         /\ EndAfter(t, new) = new.hi \/ \E i \in t : EndAfter(t, new) = i.hi
<1> DEFINE T == {new.hi} \union {i.hi : i \in t}
           Top(x) == \A y \in T : x >= y
           e == EndAfter(t, new)
<1>1. PICK N \in Nat : N = Bytes - 1 /\ Address = 0 .. N
  BY PaneAssumption DEF Address
<1>2. new.hi \in 0 .. N /\ \A i \in t : i.hi \in 0 .. N
  BY <1>1, IntervalFacts
<1>3. T \in SUBSET (0 .. N) /\ T # {}
  BY <1>2
<1>4. \E m \in T : Top(m)
  <2>1. PICK m \in T : \A k \in T : k <= m
    <3> HIDE DEF T
    <3> QED BY <1>3, GreatestNat
  <2>2. \A k \in T : m >= k
    BY <2>1
  <2> QED BY <2>2
<1>5. e = CHOOSE x \in T : Top(x)
  BY DEF EndAfter, Max
<1>6. e \in T /\ Top(e)
  <2> HIDE DEF T, Top, e
  <2> QED BY <1>4, <1>5
<1> HIDE DEF e
<1>7. new.hi \in T /\ \A i \in t : i.hi \in T
  OBVIOUS
<1>8. e \in 0 .. N /\ e \in Nat
  BY <1>3, <1>6
<1>9. new.hi <= e /\ \A i \in t : i.hi <= e
  <2>1. e >= new.hi /\ \A i \in t : e >= i.hi
    BY <1>6, <1>7
  <2> QED BY <1>2, <1>8, <2>1
<1>10. e = new.hi \/ \E i \in t : e = i.hi
  BY <1>6
<1> QED BY <1>1, <1>8, <1>9, <1>10 DEF e

\* The loop takes in the intervals that overlap or border on the new one: what it takes in
\* ends before the next one, so that it never reaches further than the new interval did.
LEMMA TakenFacts ==
  ASSUME NEW next, Canonical(next), NEW new \in Intervals, NEW lo \in Nat,
         \A i \in next : lo <= i.lo
  PROVE  Taken(next, lo, new) = {i \in next : i.lo <= new.hi + 1}
<1> DEFINE Reach(j) == EndAfter(Lower(next, j), new)
           Grown(j) == [lo |-> lo, hi |-> Reach(j)]
<1>0. new.hi \in Nat /\ next \in SUBSET Intervals
  BY IntervalFacts DEF Canonical
<1>1. \A i \in next : i.lo \in Nat /\ i.hi \in Nat /\ i.lo <= i.hi
  BY IntervalFacts DEF Canonical
<1>2. ASSUME NEW j \in next
      PROVE  /\ Reach(j) \in Nat /\ new.hi <= Reach(j)
             /\ Reach(j) = new.hi \/ Reach(j) + 1 < j.lo
  <2> DEFINE t == Lower(next, j)
  <2>1. t \in SUBSET Intervals /\ t \subseteq next
    BY <1>0 DEF Lower
  <2>2. \A i \in t : i.hi + 1 < j.lo
    <3> TAKE i \in t
    <3>1. i \in next /\ Before(i, j)
      BY DEF Lower
    <3> QED BY <3>1, Ordered
  <2> HIDE DEF t
  <2>3. /\ EndAfter(t, new) \in Nat /\ new.hi <= EndAfter(t, new)
        /\ EndAfter(t, new) = new.hi \/ \E i \in t : EndAfter(t, new) = i.hi
    BY <2>1, EndFacts
  <2>4. EndAfter(t, new) = new.hi \/ EndAfter(t, new) + 1 < j.lo
    BY <2>2, <2>3
  <2> QED BY <2>3, <2>4 DEF t
<1>3. ASSUME NEW j \in next PROVE Touches(Grown(j), j) <=> j.lo <= new.hi + 1
  <2>1. Grown(j).lo = lo /\ Grown(j).hi = Reach(j)
    OBVIOUS
  <2>2. /\ Reach(j) \in Nat /\ new.hi <= Reach(j) /\ (Reach(j) = new.hi \/ Reach(j) + 1 < j.lo)
        /\ j.lo \in Nat /\ j.hi \in Nat /\ j.lo <= j.hi /\ lo <= j.lo
    BY <1>1, <1>2
  <2> HIDE DEF Reach, Grown
  <2>3. Touches(Grown(j), j) <=> (lo <= j.hi /\ j.lo <= Reach(j)) \/ Reach(j) + 1 = j.lo
    BY <2>1 DEF Touches, Intersects
  <2> QED BY <1>0, <2>2, <2>3
<1>4. Taken(next, lo, new) = {i \in next : \A j \in next : j = i \/ Before(j, i) => Touches(Grown(j), j)}
  BY DEF Taken
<1> HIDE DEF Reach, Grown
<1>5. ASSUME NEW i \in next
      PROVE  (\A j \in next : j = i \/ Before(j, i) => Touches(Grown(j), j)) <=> i.lo <= new.hi + 1
  <2>1. ASSUME i.lo <= new.hi + 1, NEW j \in next, j = i \/ Before(j, i) PROVE Touches(Grown(j), j)
    <3>1. j.lo <= i.lo
      <4>1. CASE j = i
        BY <1>1, <4>1
      <4>2. CASE Before(j, i)
        BY <1>1, <4>2, Ordered
      <4> QED BY <2>1, <4>1, <4>2
    <3>2. j.lo <= new.hi + 1
      BY <1>0, <1>1, <2>1, <3>1
    <3> QED BY <1>3, <3>2
  <2>2. ASSUME \A j \in next : j = i \/ Before(j, i) => Touches(Grown(j), j) PROVE i.lo <= new.hi + 1
    BY <1>3, <2>2
  <2> QED BY <2>1, <2>2
<1> QED BY <1>4, <1>5, Zenon

\* insert() keeps the set canonical, and adds the addresses of the interval.
LEMMA InsertFacts ==
  ASSUME NEW s, Canonical(s), NEW new \in Intervals
  PROVE  /\ Canonical(Insert(s, new))
         /\ Cells(Insert(s, new)) = Cells(s) \union (new.lo .. new.hi)
<1> DEFINE lower == Lower(s, new)
           found == lower # {}
           prev == Prev(s, new)
           merges == found /\ Touches(prev, new)
           lo == IF merges THEN prev.lo ELSE new.lo
           next == (s \ lower) \union (IF merges THEN {prev} ELSE {})
           taken == Taken(next, lo, new)
           end == EndAfter(taken, new)
           grown == [lo |-> lo, hi |-> end]
           t == Insert(s, new)
<1>1. t = IF found /\ Covers(prev, new) THEN s ELSE (s \ taken) \union {grown}
  BY DEF Insert
<1>2. found => prev \in s /\ prev \in lower /\ \A j \in lower : j = prev \/ j.hi + 1 < prev.lo
  BY PrevFacts
<1>3. \A i \in s : i.lo \in Nat /\ i.hi \in Nat /\ i.lo <= i.hi /\ i.lo \in Address /\ i \in Intervals
  BY IntervalFacts DEF Canonical
<1>4. new.lo \in Nat /\ new.hi \in Nat /\ new.lo <= new.hi /\ new.lo \in Address /\ new.hi < Bytes
  BY IntervalFacts
<1>5. \A i \in s : i \in lower <=> (i.lo < new.lo \/ (i.lo = new.lo /\ i.hi < new.hi))
  BY DEF Lower, Before
<1>6. lower \subseteq s
  BY DEF Lower
<1>7. \A a \in new.lo .. new.hi : a \in Address
  BY <1>4, PaneAssumption DEF Address
<1>8. \A a \in Address : a \in Nat
  BY PaneAssumption DEF Address
<1> HIDE DEF lower, prev, t
<1>9. CASE found /\ Covers(prev, new)
  <2>1. t = s
    BY <1>1, <1>9
  <2>2. prev \in s /\ prev.lo <= new.lo /\ new.hi <= prev.hi
    BY <1>2, <1>9 DEF Covers
  <2>3. new.lo .. new.hi \subseteq Cells(s)
    <3> SUFFICES ASSUME NEW a \in new.lo .. new.hi PROVE a \in Cells(s)
      OBVIOUS
    <3>1. prev.lo <= a /\ a <= prev.hi
      BY <1>3, <1>4, <2>2
    <3> QED BY <1>7, <2>2, <3>1 DEF Cells
  <2> QED BY <2>1, <2>3 DEF t
<1>10. CASE ~(found /\ Covers(prev, new))
  <2>1. t = (s \ taken) \union {grown}
    BY <1>1, <1>10
  <2>2. merges => prev \in s /\ prev \in lower /\ prev.hi + 1 >= new.lo
    <3> SUFFICES ASSUME merges PROVE prev \in s /\ prev \in lower /\ prev.hi + 1 >= new.lo
      OBVIOUS
    <3>1. prev \in s /\ prev \in lower /\ Touches(prev, new)
      BY <1>2
    <3>2. new.lo <= prev.hi \/ prev.hi + 1 = new.lo
      BY <3>1 DEF Touches, Intersects
    <3> QED BY <1>3, <1>4, <3>1, <3>2
  <2>3. lo \in Nat /\ lo \in Address /\ lo <= new.lo
    <3>1. CASE merges
      <4>1. prev \in s /\ prev.lo <= new.lo
        BY <1>3, <1>4, <1>5, <2>2, <3>1
      <4> QED BY <1>3, <3>1, <4>1
    <3>2. CASE ~merges
      BY <1>4, <3>2
    <3> QED BY <3>1, <3>2
  <2>4. next \subseteq s /\ \A i \in next : lo <= i.lo
    <3>1. next \subseteq s
      BY <1>6, <2>2
    <3>2. ASSUME NEW i \in next PROVE lo <= i.lo
      <4>1. CASE i \in s /\ i \notin lower
        <5>1. ~(i.lo < new.lo) /\ i.lo \in Nat
          BY <1>3, <1>5, <4>1
        <5> QED BY <1>4, <2>3, <5>1
      <4>2. CASE merges /\ i = prev
        BY <1>3, <2>2, <4>2
      <4> QED BY <3>2, <4>1, <4>2
    <3> QED BY <3>1, <3>2
  <2>5. Canonical(next)
    BY <2>4 DEF Canonical
  <2>6. taken = {i \in next : i.lo <= new.hi + 1}
    <3> HIDE DEF next, lo
    <3> QED BY <2>3, <2>4, <2>5, TakenFacts
  <2>7. taken \in SUBSET Intervals /\ taken \subseteq s
    <3> HIDE DEF taken, next
    <3> QED BY <1>3, <2>4, <2>6
  <2>8. /\ end \in Address /\ end \in Nat /\ new.hi <= end
        /\ \A i \in taken : i.hi <= end
        /\ end = new.hi \/ \E i \in taken : end = i.hi
    <3> HIDE DEF taken
    <3> QED BY <2>7, EndFacts
  <2>9. grown \in Intervals /\ grown.lo = lo /\ grown.hi = end
    <3>1. lo <= end
      BY <1>4, <2>3, <2>8
    <3> HIDE DEF lo, end
    <3> QED BY <2>3, <2>8, <3>1, IntervalOf
  <2>l. lo = IF merges THEN prev.lo ELSE new.lo
    OBVIOUS
  <2>n. \A i : i \in next <=> (i \in s /\ i \notin lower) \/ (merges /\ i = prev)
    OBVIOUS
  <2>m. merges <=> found /\ Touches(prev, new)
    OBVIOUS
  <2> HIDE DEF taken, end, grown, lo, next, merges
  \* What is left is apart from the grown interval.
  <2>10. ASSUME NEW i \in s, i \notin taken PROVE Apart(i, grown)
    <3>0. i.lo \in Nat /\ i.hi \in Nat /\ i.lo <= i.hi
      BY <1>3
    <3>1. CASE i \in next
      <4>1. ~(i.lo <= new.hi + 1)
        BY <2>6, <2>10, <3>1
      <4>2. ASSUME NEW j \in taken PROVE j.hi + 1 < i.lo
        <5>1. j \in s /\ j.lo <= new.hi + 1 /\ j.lo \in Nat
          BY <1>3, <2>6, <2>7
        <5>2. j.lo < i.lo
          BY <1>4, <3>0, <4>1, <5>1
        <5> QED BY <5>1, <5>2, Ordered
      <4>3. end + 1 < i.lo
        BY <1>4, <2>8, <3>0, <4>1, <4>2
      <4> QED BY <2>9, <4>3 DEF Apart
    <3>2. CASE i \notin next
      <4>1. i \in lower /\ ~(merges /\ i = prev) /\ found
        BY <2>n, <3>2
      <4>2. prev \in s /\ prev \in lower /\ (i = prev \/ i.hi + 1 < prev.lo)
        BY <1>2, <4>1
      <4>3. prev.lo \in Nat /\ prev.hi \in Nat /\ prev.lo <= prev.hi /\ prev.lo <= new.lo
        BY <1>3, <1>4, <1>5, <4>2
      <4>4. CASE i # prev
        <5>1. i.hi + 1 < prev.lo
          BY <4>2, <4>4
        <5>2. i.hi + 1 < lo
          BY <1>4, <2>l, <3>0, <4>3, <5>1
        <5> QED BY <2>9, <5>2 DEF Apart
      <4>5. CASE i = prev
        <5>1. ~merges /\ lo = new.lo /\ ~Touches(prev, new)
          BY <2>l, <2>m, <4>1, <4>5
        <5>2. ~(prev.lo <= new.hi /\ new.lo <= prev.hi) /\ prev.hi + 1 # new.lo
          BY <5>1 DEF Touches, Intersects
        <5>3. prev.hi + 1 < new.lo
          BY <1>4, <4>3, <5>2
        <5> QED BY <2>9, <4>5, <5>1, <5>3 DEF Apart
      <4> QED BY <4>4, <4>5
    <3> QED BY <3>1, <3>2
  <2>11. Canonical(t)
    <3>1. t \subseteq Intervals
      BY <1>3, <2>1, <2>9
    <3>2. ASSUME NEW i \in t, NEW j \in t, i # j PROVE Apart(i, j)
      <4>1. CASE i \in s /\ j \in s
        BY <3>2, <4>1 DEF Canonical
      <4>2. CASE i \in s \ taken /\ j = grown
        BY <2>10, <4>2
      <4>3. CASE j \in s \ taken /\ i = grown
        <5>1. Apart(j, i)
          BY <2>10, <4>3
        <5> QED BY <5>1 DEF Apart
      <4> QED BY <2>1, <3>2, <4>1, <4>2, <4>3
    <3> QED BY <3>1, <3>2 DEF Canonical
  \* Nothing is lost, and nothing is added between the intervals.
  <2>12. Cells(s) \union (new.lo .. new.hi) \subseteq Cells(t)
    <3>1. ASSUME NEW a \in Address, NEW i \in s, i.lo <= a, a <= i.hi PROVE a \in Cells(t)
      <4>1. CASE i \notin taken
        BY <2>1, <3>1, <4>1 DEF Cells
      <4>2. CASE i \in taken
        <5>1. i \in next /\ i.hi <= end /\ lo <= i.lo
          BY <2>4, <2>6, <2>8, <4>2
        <5>2. grown.lo <= a /\ a <= grown.hi
          BY <1>3, <1>8, <2>3, <2>8, <2>9, <3>1, <5>1
        <5> QED BY <2>1, <5>2 DEF Cells
      <4> QED BY <4>1, <4>2
    <3>2. ASSUME NEW a \in new.lo .. new.hi PROVE a \in Cells(t)
      <4>1. grown.lo <= a /\ a <= grown.hi
        BY <1>4, <2>3, <2>8, <2>9
      <4> QED BY <1>7, <2>1, <4>1 DEF Cells
    <3> QED BY <3>1, <3>2 DEF Cells
  <2>13. Cells(t) \subseteq Cells(s) \union (new.lo .. new.hi)
    <3>1. ASSUME NEW a \in Address, grown.lo <= a, a <= grown.hi, a \notin new.lo .. new.hi
          PROVE  a \in Cells(s)
      <4>0. a \in Nat /\ lo <= a /\ a <= end
        BY <1>8, <2>9, <3>1
      <4>1. CASE a < new.lo
        <5>1. merges /\ lo = prev.lo
          BY <1>4, <2>l, <4>0, <4>1
        <5>2. prev \in s /\ prev.hi + 1 >= new.lo /\ prev.hi \in Nat
          BY <1>3, <2>2, <5>1
        <5>3. prev.lo <= a /\ a <= prev.hi
          BY <1>4, <4>0, <4>1, <5>1, <5>2
        <5> QED BY <5>2, <5>3 DEF Cells
      <4>2. CASE new.hi < a
        <5>1. PICK i \in taken : end = i.hi
          BY <1>4, <2>8, <4>0, <4>2
        <5>2. i \in s /\ i.lo <= new.hi + 1 /\ i.lo \in Nat
          BY <1>3, <2>6, <2>7
        <5>3. i.lo <= a /\ a <= i.hi
          BY <1>4, <4>0, <4>2, <5>1, <5>2
        <5> QED BY <5>2, <5>3 DEF Cells
      <4> QED BY <1>4, <3>1, <4>0, <4>1, <4>2
    <3>2. ASSUME NEW a \in Cells(t) PROVE a \in Cells(s) \union (new.lo .. new.hi)
      <4>1. PICK i \in t : i.lo <= a /\ a <= i.hi
        BY DEF Cells
      <4>2. a \in Address
        BY DEF Cells
      <4>3. CASE i \in s
        BY <4>1, <4>2, <4>3 DEF Cells
      <4>4. CASE i = grown
        BY <3>1, <4>1, <4>2, <4>4
      <4> QED BY <2>1, <4>3, <4>4
    <3> QED BY <3>2
  <2>14. Cells(t) = Cells(s) \union (new.lo .. new.hi)
    BY <2>12, <2>13
  <2> QED BY <2>11, <2>14 DEF t
<1> QED BY <1>9, <1>10

\* analyze(), as the function that goes through the trace.
Analyze(k, before, writes) == IF k = 0 THEN {} ELSE Insert(before, writes[k])

Analyzes(f, n, writes) == f = [k \in 0 .. n |-> Analyze(k, f[k - 1], writes)]

LEMMA AnalyzesExists ==
  ASSUME NEW n \in Nat, NEW writes
  PROVE  \E f : Analyzes(f, n, writes)
<1> DEFINE I == {m \in Nat : \E f : Analyzes(f, m, writes)}
<1>1. 0 \in I
  <2> DEFINE f == [k \in 0 .. 0 |-> {}]
  <2>1. \A k \in 0 .. 0 : k = 0
    OBVIOUS
  <2>2. \A k \in 0 .. 0 : Analyze(k, f[k - 1], writes) = {}
    BY <2>1 DEF Analyze
  <2>3. Analyzes(f, 0, writes)
    BY <2>2, Zenon DEF Analyzes
  <2> QED BY <2>3
<1>2. ASSUME NEW m \in Nat, m \in I PROVE m + 1 \in I
  <2>1. PICK f : Analyzes(f, m, writes)
    BY <1>2
  <2> DEFINE g == [k \in 0 .. m + 1 |-> Analyze(k, f[k - 1], writes)]
  <2>2. \A k \in 0 .. m : g[k] = f[k]
    <3>1. \A k \in 0 .. m : f[k] = Analyze(k, f[k - 1], writes)
      BY <2>1, Zenon DEF Analyzes
    <3>2. \A k \in 0 .. m + 1 : g[k] = Analyze(k, f[k - 1], writes)
      BY Zenon
    <3>3. \A k \in 0 .. m : k \in 0 .. m + 1
      OBVIOUS
    <3> QED BY <3>1, <3>2, <3>3, Zenon
  <2>3. ASSUME NEW k \in 0 .. m + 1 PROVE g[k] = Analyze(k, g[k - 1], writes)
    <3>1. g[k] = Analyze(k, f[k - 1], writes)
      BY Zenon
    <3> HIDE DEF g
    <3>2. CASE k = 0
      BY <3>1, <3>2 DEF Analyze
    <3>3. CASE k # 0
      <4>1. k - 1 \in 0 .. m
        BY <3>3
      <4> QED BY <2>2, <3>1, <4>1, Zenon
    <3> QED BY <3>2, <3>3
  <2>4. g = [k \in 0 .. m + 1 |-> g[k]]
    BY Zenon
  <2> HIDE DEF g
  <2>5. Analyzes(g, m + 1, writes)
    BY <2>3, <2>4, Zenon DEF Analyzes
  <2> QED BY <2>5
<1> HIDE DEF I
<1>3. Nat \subseteq I
  BY <1>1, <1>2, SetInduction
<1>4. n \in I
  BY <1>3
<1> QED BY <1>4 DEF I

Written(writes) == UNION {writes[k].lo .. writes[k].hi : k \in DOMAIN writes}

\* Whatever the order of the writes, the sink is canonical and holds what was written.
LEMMA AnalyzedFacts ==
  ASSUME NEW n \in Nat, NEW writes \in [1 .. n -> Intervals]
  PROVE  Canonical(Analyzed(writes)) /\ Cells(Analyzed(writes)) = Written(writes)
<1>0. Len(writes) = n /\ DOMAIN writes = 1 .. n
  OBVIOUS
<1> DEFINE f == CHOOSE f : Analyzes(f, n, writes)
<1>1. Analyzes(f, n, writes)
  BY AnalyzesExists, Zenon
<1>2. Analyzed(writes) = f[n]
  BY <1>0, Zenon DEF Analyzed, Analyzes, Analyze
<1> HIDE DEF f
<1>3. \A k \in 0 .. n : f[k] = Analyze(k, f[k - 1], writes)
  BY <1>1, Zenon DEF Analyzes
<1> DEFINE Set(k) == UNION {writes[j].lo .. writes[j].hi : j \in 1 .. k}
           I == {k \in 0 .. n : Canonical(f[k]) /\ Cells(f[k]) = Set(k)}
<1>4. 0 \in I
  <2>1. 0 \in 0 .. n /\ 1 .. 0 = {}
    OBVIOUS
  <2>2. f[0] = {}
    BY <1>3, <2>1 DEF Analyze
  <2>3. Set(0) = {}
    BY <2>1
  <2>4. Canonical({}) /\ Cells({}) = {}
    BY DEF Canonical, Cells
  <2> HIDE DEF Set
  <2> QED BY <2>1, <2>2, <2>3, <2>4
<1>5. ASSUME NEW k \in 0 .. n - 1, k \in I PROVE k + 1 \in I
  <2>1. k + 1 \in 0 .. n /\ k + 1 # 0 /\ (k + 1) - 1 = k /\ k + 1 \in 1 .. k + 1 /\ k + 1 \in 1 .. n
    OBVIOUS
  <2>2. f[k + 1] = Insert(f[k], writes[k + 1])
    BY <1>3, <2>1 DEF Analyze
  <2>3. Canonical(f[k]) /\ Cells(f[k]) = Set(k) /\ writes[k + 1] \in Intervals
    BY <1>5, <2>1
  <2>4. Set(k + 1) = Set(k) \union (writes[k + 1].lo .. writes[k + 1].hi)
    <3>1. \A j \in 1 .. k + 1 : j \in 1 .. k \/ j = k + 1
      OBVIOUS
    <3>2. \A j \in 1 .. k : j \in 1 .. k + 1
      OBVIOUS
    <3>3. Set(k + 1) \subseteq Set(k) \union (writes[k + 1].lo .. writes[k + 1].hi)
      BY <3>1
    <3>4. Set(k) \subseteq Set(k + 1)
      BY <3>2
    <3>5. writes[k + 1].lo .. writes[k + 1].hi \subseteq Set(k + 1)
      BY <2>1
    <3> QED BY <3>3, <3>4, <3>5
  <2> HIDE DEF Set
  <2>5. /\ Canonical(Insert(f[k], writes[k + 1]))
        /\ Cells(Insert(f[k], writes[k + 1])) = Cells(f[k]) \union (writes[k + 1].lo .. writes[k + 1].hi)
    BY <2>3, InsertFacts
  <2> QED BY <2>1, <2>2, <2>3, <2>4, <2>5
<1> HIDE DEF I
<1>6. 0 .. n \subseteq I
  BY <1>4, <1>5, SetInductionTo
<1>7. n \in I
  BY <1>6
<1>8. Canonical(f[n]) /\ Cells(f[n]) = Set(n)
  BY <1>7 DEF I
<1> QED BY <1>0, <1>2, <1>8 DEF Written

-----------------------------------------------------------------------------
(* Painting.                                                               *)

\* The rows of an interval hold its bytes.
LEMMA RowsFacts ==
  ASSUME NEW i \in Intervals
  PROVE  Rows(i) \subseteq Address /\ \A a \in Address : i.lo <= a /\ a <= i.hi => a \in Rows(i)
<1>1. i.lo \in Address /\ i.hi \in Address /\ i.lo \in Nat /\ i.hi \in Nat
  BY IntervalFacts
<1>2. Rows(i) = {a \in Address : i.lo \div Width <= a \div Width /\ a \div Width <= i.hi \div Width}
  BY <1>1 DEF Rows
<1>3. \A a \in Address : a \in Nat
  BY PaneAssumption DEF Address
<1>4. ASSUME NEW a \in Address, i.lo <= a, a <= i.hi PROVE a \in Rows(i)
  <2>1. i.lo \div Width <= a \div Width /\ a \div Width <= i.hi \div Width
    BY <1>1, <1>3, <1>4, PaneAssumption, DivMonotone
  <2> QED BY <1>2, <2>1
<1> QED BY <1>2, <1>4

LEMMA AllRowsFacts ==
  ASSUME NEW s, Canonical(s)
  PROVE  Cells(s) \subseteq AllRows(s) /\ AllRows(s) \subseteq Address
<1>1. \A i \in s : i \in Intervals
  BY DEF Canonical
<1>2. AllRows(s) \subseteq Address
  BY <1>1, RowsFacts DEF AllRows
<1>3. ASSUME NEW a \in Cells(s) PROVE a \in AllRows(s)
  <2>1. PICK i \in s : i.lo <= a /\ a <= i.hi
    BY DEF Cells
  <2>2. a \in Address
    BY DEF Cells
  <2>3. a \in Rows(i)
    BY <1>1, <2>1, <2>2, RowsFacts
  <2> QED BY <2>3 DEF AllRows
<1> QED BY <1>2, <1>3

\* The addresses of a memory are not cut.
LEMMA CutFacts ==
  ASSUME NEW i \in Intervals
  PROVE  Cut(i) = i
<1>1. i.lo \in Nat /\ i.hi \in Nat /\ i.lo < Bytes /\ i.hi < Bytes /\ Bytes \in Nat \ {0}
  BY IntervalFacts, PaneAssumption
<1>2. i.lo % Bytes = i.lo /\ i.hi % Bytes = i.hi
  <2>1. i.lo = 0 * Bytes + i.lo /\ i.lo \in 0 .. Bytes - 1 /\ i.lo \in Int
    BY <1>1
  <2>2. i.hi = 0 * Bytes + i.hi /\ i.hi \in 0 .. Bytes - 1 /\ i.hi \in Int
    BY <1>1
  <2>3. i.lo % Bytes = i.lo
    BY <1>1, <2>1, DivModUnique
  <2>4. i.hi % Bytes = i.hi
    BY <1>1, <2>2, DivModUnique
  <2> QED BY <2>3, <2>4
<1>3. i \in [lo : Address, hi : Address]
  BY DEF Intervals
<1> QED BY <1>2, <1>3 DEF Cut

LEMMA RowsInside ==
  ASSUME NEW s
  PROVE  AllRows(s) \subseteq Address
BY DEF AllRows, Rows

\* What status() says, by what the sink holds.
LEMMA StatusFacts ==
  ASSUME NEW s, Canonical(s), NEW a \in Address, NEW p, NEW q
  PROVE  Status(a, p, q, s) = IF p.lo <= a /\ a <= p.hi THEN "PC"
                              ELSE IF q.lo <= a /\ a <= q.hi THEN "SP"
                              ELSE IF a \in Cells(s) THEN "Modified"
                              ELSE "None"
BY ContainsFacts DEF Status

LEMMA NothingModified == Canonical({}) /\ Cells({}) = {}
BY DEF Canonical, Cells

\* The writes of a burst.
LEMMA WritesFacts ==
  ASSUME project \in Projects, NEW writes \in SeqOf(WriteSet, project.writes)
  PROVE  Canonical(Analyzed(writes)) /\ Cells(Analyzed(writes)) = Written(writes)
<1>1. project.data \subseteq Address /\ project.writes \in Nat
  BY PaneAssumption DEF Address
<1>2. WriteSet \subseteq Intervals
  BY <1>1 DEF WriteSet, Intervals
<1>3. PICK n \in 0 .. project.writes : writes \in [1 .. n -> WriteSet]
  BY DEF SeqOf
<1>4. n \in Nat /\ writes \in [1 .. n -> Intervals]
  BY <1>1, <1>2, <1>3
<1> QED BY <1>4, AnalyzedFacts

-----------------------------------------------------------------------------
(* The invariant of the pane.                                              *)

\* What is highlighted: an instruction may reach past the memory, the top of a stack is in
\* it, and at first there is neither.
Highlights == [lo : Nat, hi : Nat]

Placed == pc \in Highlights /\ sp \in Intervals \union {Nowhere}

\* The pane shows every value but those changed behind the trace, and every highlight but
\* those forgotten; of the others the next update repaints PC and SP.
PaneInv ==
  /\ project \in Projects /\ Placed
  /\ Canonical(sink) /\ modified = Cells(sink)
  /\ DOMAIN painted = Address
  /\ \A a \in Address : a \in shown \/ a \in behind
  /\ \A a \in Address \ forgotten :
       /\ painted[a] = Status(a, pc, sp, sink)
       /\ a \in BytesOf(pc) => a \in Rows(Cut(lastPC))
       /\ a \in BytesOf(sp) => a \in Rows(Cut(lastSP))

LEMMA NowhereFacts == Nowhere \in Highlights /\ BytesOf(Nowhere) = {}
<1>1. Bytes \in Nat /\ Bytes >= 2
  BY PaneAssumption
<1>2. PICK b \in Nat : b = Bytes * Bytes
  BY <1>1
<1>3. b >= 2 * Bytes
  BY <1>1, <1>2, ScaledOrder
<1>4. Nowhere = [lo |-> b - 1, hi |-> b - 1] /\ b - 1 \in Nat /\ b - 1 >= Bytes
  BY <1>1, <1>2, <1>3 DEF Nowhere
<1>5. \A a \in Address : a \in Nat /\ a < Bytes
  BY <1>1 DEF Address
<1> QED BY <1>1, <1>4, <1>5 DEF Highlights, BytesOf

\* The instruction that is highlighted ends in the memory, or is not painted.
LEMMA InMemory ==
  ASSUME NEW p \in Highlights, NEW a \in BytesOf(p), a \notin Overhanging(p)
  PROVE  p \in Intervals
<1>1. p.hi \in Address /\ a \in Address /\ p.lo <= a /\ a <= p.hi
  BY DEF Overhanging, BytesOf
<1>2. p.lo \in Nat /\ p.hi \in Nat /\ p = [lo |-> p.lo, hi |-> p.hi]
  BY DEF Highlights
<1>3. p.lo \in Address /\ p.lo <= p.hi
  BY <1>1, <1>2, PaneAssumption DEF Address
<1> QED BY <1>1, <1>2, <1>3, IntervalOf

\* The rows of what was highlighted are those of its bytes.
LEMMA Repainted ==
  ASSUME NEW i \in Intervals, NEW a \in BytesOf(i)
  PROVE  a \in Rows(i) /\ a \in Rows(Cut(i))
BY RowsFacts, CutFacts DEF BytesOf

\* What a burst wrote, as far as it was recorded.
LEMMA RecordedFacts ==
  ASSUME PaneInv, NEW writes \in SeqOf(WriteSet, project.writes), NEW w, w = IF traced THEN writes ELSE <<>>
  PROVE  Canonical(Analyzed(w)) /\ Cells(Analyzed(w)) = IF traced THEN Written(writes) ELSE {}
<1>1. project \in Projects /\ project.writes \in Nat
  BY PaneAssumption DEF PaneInv
<1>2. CASE traced
  BY <1>1, <1>2, WritesFacts
<1>3. CASE ~traced
  <2>1. w = <<>> /\ w \in [1 .. 0 -> WriteSet] /\ 0 \in 0 .. project.writes
    BY <1>1, <1>3
  <2>2. w \in SeqOf(WriteSet, project.writes)
    BY <2>1 DEF SeqOf
  <2>3. Written(w) = {}
    BY <2>1 DEF Written
  <2> QED BY <1>1, <1>3, <2>2, <2>3, WritesFacts
<1> QED BY <1>2, <1>3

\* A burst repaints what it wrote, what was highlighted and what is, and so the rest needs
\* no repaint.
LEMMA UpdateKeeps ==
  ASSUME PaneInv, NEW writes \in SeqOf(WriteSet, project.writes), NEW p \in Highlights, NEW s \in Intervals,
         OnUpdateGUI(writes, p, s), project' = project
  PROVE  PaneInv'
<1>1. PICK w : w = IF traced THEN writes ELSE <<>>
  OBVIOUS
<1>2. PICK mods : mods = Analyzed(w)
  OBVIOUS
<1>3. PICK old : old = AllRows(Old)
  OBVIOUS
<1>4. PICK new : new = AllRows(mods) \union Rows(s) \union Rows(p)
  OBVIOUS
<1>5. Canonical(mods) /\ Cells(mods) = IF traced THEN Written(writes) ELSE {}
  BY <1>1, <1>2, RecordedFacts
<1>6. /\ sink' = mods /\ lastPC' = p /\ lastSP' = s /\ pc' = p /\ sp' = s
      /\ shown' = (shown \ Written(writes)) \union old \union new
      /\ modified' = IF traced THEN Written(writes) ELSE {}
      /\ behind' = (behind \union (Written(writes) \ modified')) \ (old \union new)
      /\ forgotten' = (forgotten \ (old \union new)) \union Overhanging(p)
      /\ painted' = [a \in Address |-> IF a \in new THEN Status(a, p, s, mods)
                                       ELSE IF a \in old THEN Status(a, p, s, {})
                                       ELSE painted[a]]
  BY <1>1, <1>2, <1>3, <1>4 DEF OnUpdateGUI, Written
<1>7. Cells(mods) \subseteq new
  BY <1>4, <1>5, AllRowsFacts
<1>8. \A a \in Address : a \in shown' \/ a \in behind'
  BY <1>5, <1>6, <1>7 DEF PaneInv
<1>9. ASSUME NEW a \in Address, a \notin forgotten'
      PROVE  /\ painted'[a] = Status(a, p, s, mods)
             /\ a \in BytesOf(p) => a \in Rows(Cut(p))
             /\ a \in BytesOf(s) => a \in Rows(Cut(s))
  <2>1. a \notin Overhanging(p) /\ (a \in old \/ a \in new \/ a \notin forgotten)
    BY <1>6, <1>9
  <2>2. a \in BytesOf(p) => a \in Rows(p) /\ a \in Rows(Cut(p))
    BY <2>1, InMemory, Repainted
  <2>3. a \in BytesOf(s) => a \in Rows(s) /\ a \in Rows(Cut(s))
    BY Repainted
  <2>4. a \notin new => a \notin BytesOf(p) /\ a \notin BytesOf(s) /\ a \notin Cells(mods)
    BY <1>4, <1>7, <2>2, <2>3
  <2>5. a \notin old => a \notin Cells(sink) /\ a \notin Rows(Cut(lastPC)) /\ a \notin Rows(Cut(lastSP))
    <3>1. Cells(sink) \subseteq AllRows(sink)
      BY AllRowsFacts DEF PaneInv
    <3> QED BY <1>3, <3>1 DEF AllRows, Old
  <2>6. /\ a \in BytesOf(p) <=> p.lo <= a /\ a <= p.hi
        /\ a \in BytesOf(s) <=> s.lo <= a /\ a <= s.hi
        /\ a \in BytesOf(pc) <=> pc.lo <= a /\ a <= pc.hi
        /\ a \in BytesOf(sp) <=> sp.lo <= a /\ a <= sp.hi
    BY DEF BytesOf
  <2>7. Status(a, p, s, mods) = IF a \in BytesOf(p) THEN "PC" ELSE IF a \in BytesOf(s) THEN "SP"
                                ELSE IF a \in Cells(mods) THEN "Modified" ELSE "None"
    BY <1>5, <2>6, StatusFacts
  <2>8. Status(a, p, s, {}) = IF a \in BytesOf(p) THEN "PC" ELSE IF a \in BytesOf(s) THEN "SP" ELSE "None"
    <3>1. Status(a, p, s, {}) = IF a \in BytesOf(p) THEN "PC" ELSE IF a \in BytesOf(s) THEN "SP"
                                ELSE IF a \in Cells({}) THEN "Modified" ELSE "None"
      BY <2>6, NothingModified, StatusFacts
    <3> QED BY <3>1, NothingModified
  <2>9. Status(a, pc, sp, sink) = IF a \in BytesOf(pc) THEN "PC" ELSE IF a \in BytesOf(sp) THEN "SP"
                                  ELSE IF a \in Cells(sink) THEN "Modified" ELSE "None"
    BY <2>6, StatusFacts DEF PaneInv
  <2>10. CASE a \in new
    BY <1>6, <2>2, <2>3, <2>10
  <2>11. CASE a \notin new /\ a \in old
    BY <1>6, <2>2, <2>3, <2>4, <2>7, <2>8, <2>11
  <2>12. CASE a \notin new /\ a \notin old
    <3>1. /\ painted[a] = Status(a, pc, sp, sink)
          /\ a \in BytesOf(pc) => a \in Rows(Cut(lastPC))
          /\ a \in BytesOf(sp) => a \in Rows(Cut(lastSP))
      BY <2>1, <2>12 DEF PaneInv
    <3>2. painted[a] = "None"
      BY <2>5, <2>9, <2>12, <3>1
    <3> QED BY <1>6, <2>2, <2>3, <2>4, <2>7, <2>12, <3>2
  <2> QED BY <2>10, <2>11, <2>12
<1>10. Placed' /\ project' \in Projects /\ DOMAIN painted' = Address
  BY <1>6 DEF PaneInv, Placed, Highlights, Intervals, Nowhere, Address
<1>11. Canonical(sink)' /\ modified' = Cells(sink)'
  BY <1>5, <1>6
<1> QED BY <1>6, <1>8, <1>9, <1>10, <1>11 DEF PaneInv, Address, Status, BytesOf, Rows, Cut

\* A repaint of the whole pane.
LEMMA ClearKeeps ==
  ASSUME PaneInv, NEW p \in Highlights, NEW s \in Intervals \union {Nowhere},
         ClearModifiedAndUpdateGUI(p, s), project' = project
  PROVE  PaneInv'
<1>1. /\ sink' = {} /\ pc' = p /\ sp' = s /\ shown' = Address /\ modified' = {}
      /\ painted' = [a \in Address |-> Status(a, p, s, {})]
      /\ forgotten' = (IF lastPC' = p THEN Overhanging(p) ELSE BytesOf(p))
                        \union (IF lastSP' = s THEN {} ELSE BytesOf(s))
  BY DEF ClearModifiedAndUpdateGUI
<1>2. ASSUME NEW a \in Address, a \notin forgotten'
      PROVE  /\ a \in BytesOf(p) => a \in Rows(Cut(lastPC'))
             /\ a \in BytesOf(s) => a \in Rows(Cut(lastSP'))
  <2>1. ASSUME a \in BytesOf(p) PROVE a \in Rows(Cut(lastPC'))
    <3>1. lastPC' = p /\ a \notin Overhanging(p)
      BY <1>1, <1>2, <2>1
    <3>2. p \in Intervals
      BY <2>1, <3>1, InMemory
    <3> QED BY <2>1, <3>1, <3>2, Repainted
  <2>2. ASSUME a \in BytesOf(s) PROVE a \in Rows(Cut(lastSP'))
    <3>1. lastSP' = s
      BY <1>1, <1>2, <2>2
    <3>2. s \in Intervals
      BY <2>2, NowhereFacts
    <3> QED BY <2>2, <3>1, <3>2, Repainted
  <2> QED BY <2>1, <2>2
<1>3. DOMAIN painted' = Address /\ \A a \in Address : painted'[a] = Status(a, p, s, {})
  BY <1>1
<1>4. Canonical(sink)' /\ modified' = Cells(sink)'
  BY <1>1, NothingModified
<1>5. Placed' /\ project' \in Projects
  BY <1>1 DEF PaneInv, Placed, Highlights, Intervals, Nowhere, Address
<1> QED BY <1>1, <1>2, <1>3, <1>4, <1>5 DEF PaneInv, Address, Status, BytesOf, Rows, Cut

\* The user's edit repaints one cell.
LEMMA SetDataKeeps ==
  ASSUME PaneInv, NEW a \in Address, SetData(a), project' = project
  PROVE  PaneInv'
<1>1. /\ shown' = shown \union {a} /\ painted' = [painted EXCEPT ![a] = Status(a, pc, sp, sink)]
      /\ UNCHANGED <<pc, sp, lastPC, lastSP, sink, modified, behind, forgotten>>
  BY DEF SetData
<1>2. DOMAIN painted = Address
  BY DEF PaneInv
<1>3. /\ DOMAIN painted' = Address
      /\ \A b \in Address : painted'[b] = IF b = a THEN Status(a, pc, sp, sink) ELSE painted[b]
  BY <1>1, <1>2
<1>4. Canonical(sink)' /\ modified' = Cells(sink)' /\ Placed' /\ project' \in Projects
  BY <1>1 DEF PaneInv, Placed
<1>5. \A b \in Address : b \in shown' \/ b \in behind'
  BY <1>1 DEF PaneInv
<1>6. \A b \in Address \ forgotten :
        /\ painted'[b] = Status(b, pc, sp, sink)
        /\ b \in BytesOf(pc) => b \in Rows(Cut(lastPC))
        /\ b \in BytesOf(sp) => b \in Rows(Cut(lastSP))
  BY <1>3 DEF PaneInv
<1> QED BY <1>1, <1>3, <1>4, <1>5, <1>6 DEF PaneInv, Status, BytesOf, Rows, Cut

\* Only values change, and what has is behind.
LEMMA BehindKeeps ==
  ASSUME PaneInv, UNCHANGED <<pc, sp, lastPC, lastSP, sink, painted, modified, forgotten>>, project' = project,
         \A a \in Address : a \in shown \/ a \in behind => a \in shown' \/ a \in behind'
  PROVE  PaneInv'
<1>1. Canonical(sink)' /\ modified' = Cells(sink)' /\ Placed' /\ project' \in Projects /\ DOMAIN painted' = Address
  BY DEF PaneInv, Placed
<1>2. \A a \in Address : a \in shown' \/ a \in behind'
  BY DEF PaneInv
<1>3. \A b \in Address \ forgotten :
        /\ painted[b] = Status(b, pc, sp, sink)
        /\ b \in BytesOf(pc) => b \in Rows(Cut(lastPC))
        /\ b \in BytesOf(sp) => b \in Rows(Cut(lastSP))
  BY DEF PaneInv
<1> QED BY <1>1, <1>2, <1>3 DEF PaneInv, Status, BytesOf, Rows, Cut

LEMMA PaneStarts == PaneInit => PaneInv
<1> SUFFICES ASSUME PaneInit PROVE PaneInv
  OBVIOUS
<1>1. /\ project \in Projects /\ sink = {} /\ shown = Address /\ modified = {}
      /\ pc = Nowhere /\ sp = Nowhere /\ painted = [a \in Address |-> "None"]
  BY DEF PaneInit
<1>2. Placed
  BY <1>1, NowhereFacts DEF Placed
<1>3. ASSUME NEW a \in Address
      PROVE  painted[a] = Status(a, pc, sp, sink) /\ a \notin BytesOf(pc) /\ a \notin BytesOf(sp)
  <2>1. ~(Nowhere.lo <= a /\ a <= Nowhere.hi) /\ a \notin BytesOf(Nowhere)
    BY NowhereFacts DEF BytesOf
  <2>2. Status(a, pc, sp, {}) = IF pc.lo <= a /\ a <= pc.hi THEN "PC"
                                ELSE IF sp.lo <= a /\ a <= sp.hi THEN "SP"
                                ELSE IF a \in Cells({}) THEN "Modified" ELSE "None"
    BY NothingModified, StatusFacts
  <2> QED BY <1>1, <2>1, <2>2, NothingModified
<1> QED BY <1>1, <1>2, <1>3, NothingModified DEF PaneInv

LEMMA PaneStep == PaneInv /\ [PaneNext]_paneVars => PaneInv'
<1> SUFFICES ASSUME PaneInv, [PaneNext]_paneVars PROVE PaneInv'
  OBVIOUS
<1>1. project \in Projects /\ pc \in Highlights /\ sp \in Intervals \union {Nowhere}
  BY DEF PaneInv, Placed
<1>2. project.PCs \subseteq Address /\ project.SPs \subseteq Address
  BY <1>1, PaneAssumption DEF Address
<1>3. ASSUME NEW x \in project.PCs, NEW y \in project.SPs, NEW unary \in BOOLEAN
      PROVE  Instruction(x, unary) \in Highlights /\ StackAt(y) \in Intervals
  <2>1. x \in Nat /\ y \in Nat /\ y \in Address
    BY <1>2, PaneAssumption DEF Address
  <2> QED BY <2>1, IntervalOf DEF Instruction, StackAt, Highlights
<1>4. ASSUME PaneStays, project' = project PROVE PaneInv'
  BY <1>4, BehindKeeps DEF PaneStays
<1>5. ASSUME NEW x \in project.PCs, NEW y \in project.SPs, NEW unary \in BOOLEAN, project' = project
      PROVE  /\ Start(Instruction(x, unary), StackAt(y)) => PaneInv'
             /\ OnLoadObject(Instruction(x, unary), StackAt(y)) => PaneInv'
             /\ \A writes \in SeqOf(WriteSet, project.writes) :
                  OnDeferredExecution(writes, Instruction(x, unary), StackAt(y)) => PaneInv'
  <2>1. PICK p, s : p = Instruction(x, unary) /\ s = StackAt(y) /\ p \in Highlights /\ s \in Intervals
    BY <1>3
  <2>2. ASSUME ClearModifiedAndUpdateGUI(p, s) PROVE PaneInv'
    BY <1>5, <2>1, <2>2, ClearKeeps
  <2>3. Start(p, s) => PaneInv'
    BY <1>4, <1>5, <2>2 DEF Start, PrepareSim
  <2>4. OnLoadObject(p, s) => PaneInv'
    BY <2>2 DEF OnLoadObject
  <2>5. \A writes \in SeqOf(WriteSet, project.writes) : OnDeferredExecution(writes, p, s) => PaneInv'
    BY <1>5, <2>1, UpdateKeeps DEF OnDeferredExecution
  <2> QED BY <2>1, <2>3, <2>4, <2>5
<1>6. ASSUME Continue \/ OnDebuggingStop, project' = project PROVE PaneInv'
  BY <1>4, <1>6 DEF Continue, OnDebuggingStop
<1>7. ASSUME OnAssembleThenLoad \/ OnClearMemory, project' = project PROVE PaneInv'
  <2>1. ClearModifiedAndUpdateGUI(pc, sp)
    BY <1>7 DEF OnAssembleThenLoad, OnClearMemory
  <2> QED BY <1>1, <1>7, <2>1, ClearKeeps
<1>8. ASSUME NEW changed \in SUBSET project.image, OnAssemble(changed), project' = project PROVE PaneInv'
  <2>1. /\ UNCHANGED <<pc, sp, lastPC, lastSP, sink, painted, modified, forgotten>>
        /\ shown' = shown \ changed /\ behind' = behind \union changed
    BY <1>8 DEF OnAssemble
  <2>2. \A a \in Address : a \in shown \/ a \in behind => a \in shown' \/ a \in behind'
    BY <2>1
  <2> QED BY <1>8, <2>1, <2>2, BehindKeeps
<1>9. ASSUME NEW a \in Address, SetData(a), project' = project PROVE PaneInv'
  BY <1>9, SetDataKeeps
<1>10. ASSUME UNCHANGED paneVars PROVE PaneInv'
  <2>1. /\ UNCHANGED <<pc, sp, lastPC, lastSP, sink, painted, modified, forgotten>>
        /\ project' = project /\ shown' = shown /\ behind' = behind
    BY <1>10 DEF paneVars
  <2> QED BY <2>1, BehindKeeps
<1>11. CASE PaneNext
  <2>1. Step /\ project' = project
    BY <1>11 DEF PaneNext
  <2> QED BY <1>5, <1>6, <1>7, <1>8, <1>9, <2>1 DEF Step
<1> QED BY <1>10, <1>11

LEMMA PaneInvariant == PaneSpec => []PaneInv
BY PaneStarts, PaneStep, PTL DEF PaneSpec

\* IntervalSet::insert() and ModifiedAddressSink::contains(): for a memory of any size and
\* bursts of any writes, the sink holds what was recorded of the last burst, and its
\* intervals do not overlap or border on each other.
THEOREM SinkStaysCanonical == PaneSpec => []ModifiedIsCanonical
<1>1. PaneInv => ModifiedIsCanonical
  <2> SUFFICES ASSUME PaneInv PROVE ModifiedIsCanonical
    OBVIOUS
  <2>1. Canonical(sink) /\ modified = Cells(sink)
    BY DEF PaneInv
  <2>2. \A a \in Address : SinkContains(sink, a) <=> a \in modified
    BY <2>1, ContainsFacts
  <2>3. \A i, j \in sink : i # j => i.hi + 1 < j.lo \/ j.hi + 1 < i.lo
    BY <2>1 DEF Canonical, Apart
  <2> QED BY <2>2, <2>3 DEF ModifiedIsCanonical
<1> QED BY <1>1, PaneInvariant, PTL

\* SimulatorRawMemory::onUpdateGUI() repaints enough, for any projects, programs and bursts,
\* queued ones that outlive a stop included: a byte of the pane is out of date only if it
\* changed behind the trace, and a highlight only if it was painted without being memoized
\* or belongs to an instruction that does not end in the memory.
THEOREM PaneStaysCurrent == PaneSpec => []PaneIsCurrent
<1>1. PaneInv => PaneIsCurrent
  BY DEF PaneInv, PaneIsCurrent
<1> QED BY <1>1, PaneInvariant, PTL

=============================================================================
