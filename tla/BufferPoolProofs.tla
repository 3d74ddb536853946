-------------------------- MODULE BufferPoolProofs --------------------------
(***************************************************************************)
(* The invariant of the pool and of its chains, for every number of slots, *)
(* generations, chains and occupants.                                      *)
(*                                                                         *)
(* The free list is a list by its links only.  The history `ahead' makes   *)
(* it an order: the slots ahead of a free slot are those that were free    *)
(* when it was freed and still are, so that each slot's successor has one  *)
(* more ahead of it than the slot itself.                                  *)
(***************************************************************************)
EXTENDS BufferPool, NatFacts, SequenceTheorems

Slot == [live : BOOLEAN, generation : 0 .. Generations - 1, next : 1 .. NO_INDEX,
         used : Nat, id : Ids]

\* Slots of the free list.
Dead == {i \in 1 .. size : ~slots[i].live}

PoolTypes ==
  /\ slots \in [Indices -> Slot]
  /\ size \in 0 .. MaxLive
  /\ freeHead \in 1 .. NO_INDEX /\ freeTail \in 1 .. NO_INDEX
  /\ minted \in [Indices -> Seq(Ids)]
  /\ ahead \in [Indices -> SUBSET Indices]

\* Slots that were never handed out are as they were made.
Untouched == \A i \in Indices : i > size => ~slots[i].live /\ slots[i].generation = 0 /\ minted[i] = << >>

\* The list runs from a slot with nothing ahead to one with all others ahead.
FreeOrder ==
  /\ freeHead = NO_INDEX <=> Dead = {}
  /\ freeTail = NO_INDEX <=> Dead = {}
  /\ freeHead # NO_INDEX => freeHead \in Dead /\ ahead[freeHead] = {}
  /\ freeTail # NO_INDEX => freeTail \in Dead /\ ahead[freeTail] = Dead \ {freeTail}
  /\ \A i \in Dead : i \notin ahead[i] /\ ahead[i] \subseteq Dead
  /\ \A i \in Dead : IF i = freeTail THEN slots[i].next = NO_INDEX
                     ELSE slots[i].next \in Dead /\ ahead[slots[i].next] = ahead[i] \cup {i}

Counts == freeCount = Cardinality(Dead) /\ liveCount = size - freeCount

\* The k-th occupant of a slot has generation k - 1, and the slot has the generation of
\* its occupant, or of the next one to come.
Occupants(i) == IF slots[i].live THEN Len(minted[i]) - 1 ELSE Len(minted[i])

Minting ==
  \A i \in Indices :
    /\ \A k \in 1 .. Len(minted[i]) : minted[i][k] = MakeId(i, k - 1)
    /\ slots[i].generation = Occupants(i) % Generations
    /\ slots[i].live => Len(minted[i]) > 0 /\ slots[i].id = MakeId(i, slots[i].generation)

PoolInv == PoolTypes /\ Untouched /\ FreeOrder /\ Counts /\ Minting

-----------------------------------------------------------------------------
(* Chains.                                                                 *)

ChainTypes ==
  /\ bufs \in [Chains -> Seq(Indices)]
  /\ successor \in [Chains -> [Ids -> Ids]]
  /\ predecessor \in [Chains -> [Ids -> Ids]]
  /\ clearing \in Chains \cup {NoChain}
  /\ loose \subseteq Indices

\* Every live slot has one holder, at one place.
Holders ==
  /\ \A i \in Indices : slots[i].live <=> i \in loose \/ \E c \in Chains : \E k \in 1 .. Len(bufs[c]) : bufs[c][k] = i
  /\ \A c \in Chains : \A k \in 1 .. Len(bufs[c]) : bufs[c][k] \notin loose
  /\ \A c, d \in Chains : \A j \in 1 .. Len(bufs[c]), k \in 1 .. Len(bufs[d]) :
       bufs[c][j] = bufs[d][k] => c = d /\ j = k

IdAt(c, k) == slots[bufs[c][k]].id

\* The links of a chain lead from each of its buffers to the next and back, and nowhere
\* else.
Linked(c) ==
  /\ \A k \in 1 .. Len(bufs[c]) - 1 : successor[c][IdAt(c, k)] = IdAt(c, k + 1)
  /\ \A k \in 2 .. Len(bufs[c]) : predecessor[c][IdAt(c, k)] = IdAt(c, k - 1)
  /\ \A id \in Ids : successor[c][id] # NoId => \E k \in 1 .. Len(bufs[c]) - 1 : id = IdAt(c, k)
  /\ \A id \in Ids : predecessor[c][id] # NoId => \E k \in 2 .. Len(bufs[c]) : id = IdAt(c, k)

\* A chain that is being cleared has none.
Loosened(c) == \A id \in Ids : successor[c][id] = NoId /\ predecessor[c][id] = NoId

Links ==
  /\ clearing # NoChain => bufs[clearing] # << >>
  /\ \A c \in Chains : IF c = clearing THEN Loosened(c) ELSE Linked(c)

ChainInv == ChainTypes /\ Holders /\ Links

-----------------------------------------------------------------------------
(* Ids.                                                                    *)

\* A packed id is not the null id, and unpacks to what it was packed from.
LEMMA IdFacts ==
  ASSUME NEW i \in Indices, NEW g \in 0 .. Generations - 1
  PROVE  /\ MakeId(i, g) \in Ids /\ MakeId(i, g) # NoId
         /\ IndexOf(MakeId(i, g)) = i /\ GenerationOf(MakeId(i, g)) = g
<1> DEFINE S == IndexSpan
<1>1. S \in Nat \ {0} /\ i \in 0 .. S - 1 /\ i # 0 /\ Generations \in Nat \ {0}
  BY PoolSizes DEF IndexSpan, Indices
<1>2. g \in Int /\ g = 0 * Generations + g
  BY <1>1
<1>3. g % Generations = g
  BY <1>1, <1>2, DivModUnique
<1>4. MakeId(i, g) = g * S + i
  BY <1>3 DEF MakeId
<1>5. g * S \in Nat /\ g * S <= (Generations - 1) * S
  BY <1>1
<1>6. (Generations - 1) * S = Generations * S - S /\ Generations * S \in Nat
  BY <1>1
<1>7. g * S + i \in 0 .. Generations * S - 1 /\ g * S + i # 0 /\ g * S + i \in Int
  BY <1>1, <1>5, <1>6
<1>8. (g * S + i) \div S = g /\ (g * S + i) % S = i
  BY <1>1, <1>2, <1>7, DivModUnique
<1> QED BY <1>4, <1>7, <1>8 DEF Ids, NoId, IndexOf, GenerationOf

\* Only the generation's remainder goes into an id.
LEMMA IdOfOccupant ==
  ASSUME NEW i \in Indices, NEW k \in Nat
  PROVE  /\ k % Generations \in 0 .. Generations - 1
         /\ MakeId(i, k) = MakeId(i, k % Generations)
<1> DEFINE r == k % Generations
<1>1. Generations \in Nat \ {0} /\ r \in 0 .. Generations - 1
  BY PoolSizes, DivMod
<1>2. r \in Int /\ r = 0 * Generations + r
  BY <1>1
<1> HIDE DEF r
<1>3. r % Generations = r
  BY <1>1, <1>2, DivModUnique
<1> QED BY <1>1, <1>3 DEF r, MakeId

\* What find() answers for the id of some occupant of slot i.
LEMMA ResolvesFacts ==
  ASSUME NEW i \in Indices, NEW k \in Nat
  PROVE  Resolves(MakeId(i, k)) <=> i \in 1 .. size /\ slots[i].live /\ slots[i].generation = k % Generations
<1> DEFINE r == k % Generations
<1>1. r \in 0 .. Generations - 1 /\ MakeId(i, k) = MakeId(i, r)
  BY IdOfOccupant
<1> HIDE DEF r
<1>2. IndexOf(MakeId(i, r)) = i /\ GenerationOf(MakeId(i, r)) = r
  BY <1>1, IdFacts
<1> QED BY <1>1, <1>2 DEF Resolves, r

\* The id of a live slot resolves to it.
LEMMA LiveResolves ==
  ASSUME PoolInv, NEW i \in Indices, slots[i].live
  PROVE  /\ slots[i].id \in Ids /\ slots[i].id # NoId /\ IndexOf(slots[i].id) = i
         /\ Resolves(slots[i].id) /\ i \in 1 .. size
<1>1. slots[i].generation \in 0 .. Generations - 1 /\ slots[i].id = MakeId(i, slots[i].generation)
  BY DEF PoolInv, PoolTypes, Slot, Minting
<1>2. i \in 1 .. size
  BY PoolSizes DEF PoolInv, PoolTypes, Untouched, Indices
<1>3. /\ slots[i].id \in Ids /\ slots[i].id # NoId
      /\ IndexOf(slots[i].id) = i /\ GenerationOf(slots[i].id) = slots[i].generation
  BY <1>1, IdFacts
<1> QED BY <1>2, <1>3 DEF Resolves

\* An id of an earlier occupant, less than a generation's worth ago, does not resolve.
LEMMA StaleDangles ==
  ASSUME PoolInv, NEW i \in Indices, NEW k \in 1 .. Len(minted[i]),
         ~(slots[i].live /\ k = Len(minted[i])), Len(minted[i]) - k < Generations
  PROVE  ~Resolves(minted[i][k])
<1> DEFINE n == Len(minted[i])
<1>1. n \in Nat /\ k \in Nat /\ k - 1 \in Nat /\ k <= n /\ Generations \in Nat \ {0}
  BY PoolSizes, LenProperties DEF PoolInv, PoolTypes
<1>2. minted[i][k] = MakeId(i, k - 1)
  BY DEF PoolInv, Minting
<1> SUFFICES ASSUME slots[i].live, slots[i].generation = (k - 1) % Generations PROVE FALSE
  BY <1>1, <1>2, ResolvesFacts
<1>3. slots[i].generation = (n - 1) % Generations
  BY DEF PoolInv, Minting, Occupants
<1> HIDE DEF n
<1>4. (n - 1) % Generations = (k - 1) % Generations
  BY <1>3
<1>5. n - 1 \in Int /\ k - 1 \in Int /\ -Generations < (n - 1) - (k - 1) /\ (n - 1) - (k - 1) < Generations
  BY <1>1 DEF n
<1>6. n - 1 = k - 1
  BY <1>1, <1>4, <1>5, ModInjective
<1> QED BY <1>1, <1>6 DEF n

LEMMA DeadFinite ==
  ASSUME PoolTypes
  PROVE  IsFiniteSet(Dead)
<1>1. IsFiniteSet(1 .. size)
  BY PoolSizes, FS_Interval DEF PoolTypes
<1>2. Dead \in SUBSET (1 .. size)
  BY DEF Dead
<1> QED BY <1>1, <1>2, FS_Subset

-----------------------------------------------------------------------------
(* alloc_buffer()                                                          *)

\* What alloc_buffer() makes of the slot it takes.
Occupied(i, n) ==
  [live |-> TRUE, generation |-> slots[i].generation, next |-> NO_INDEX,
   used |-> slots[i].used + n, id |-> MakeId(i, slots[i].generation)]

\* Either way the slot taken was dead, and its id is the id of its next occupant.
LEMMA AllocTakes ==
  ASSUME PoolInv, NEW n \in Nat, AllocBuffer(n)
  PROVE  /\ Taken \in Indices /\ ~slots[Taken].live
         /\ slots' = [slots EXCEPT ![Taken] = Occupied(Taken, n)]
         /\ Occupied(Taken, n) \in Slot
         /\ minted' = [minted EXCEPT ![Taken] = Append(minted[Taken], MakeId(Taken, slots[Taken].generation))]
         /\ ahead' = [j \in Indices |-> ahead[j] \ {Taken}]
<1>1. Taken \in Indices /\ ~slots[Taken].live
  <2>1. CASE freeHead # NO_INDEX
    BY <2>1, PoolSizes DEF PoolInv, PoolTypes, FreeOrder, Dead, Taken, Indices, NO_INDEX
  <2>2. CASE freeHead = NO_INDEX
    <3>1. Taken = size + 1 /\ size \in 0 .. MaxLive /\ size < MaxLive
      BY <2>2, PoolSizes DEF AllocBuffer, Exhausted, Taken, PoolInv, PoolTypes
    <3> QED BY <3>1, PoolSizes DEF PoolInv, Untouched, Indices
  <2> QED BY <2>1, <2>2
<1> DEFINE g == slots[Taken].generation
<1>2. g \in 0 .. Generations - 1 /\ slots[Taken].used \in Nat /\ MakeId(Taken, g) \in Ids
  BY <1>1, IdFacts DEF PoolInv, PoolTypes, Slot
<1>3. Occupied(Taken, n) \in Slot
  BY <1>2, PoolSizes DEF Occupied, Slot, NO_INDEX
<1> QED BY <1>1, <1>3 DEF AllocBuffer, Occupied

\* Types and generations after alloc_buffer().
LEMMA AllocMints ==
  ASSUME PoolInv, NEW n \in Nat, AllocBuffer(n)
  PROVE  /\ slots' \in [Indices -> Slot] /\ minted' \in [Indices -> Seq(Ids)]
         /\ ahead' \in [Indices -> SUBSET Indices]
         /\ Minting'
<1>1. PICK i \in Indices :
        /\ ~slots[i].live /\ Occupied(i, n) \in Slot
        /\ slots' = [slots EXCEPT ![i] = Occupied(i, n)]
        /\ minted' = [minted EXCEPT ![i] = Append(minted[i], MakeId(i, slots[i].generation))]
        /\ ahead' = [j \in Indices |-> ahead[j] \ {i}]
  BY AllocTakes
<1> DEFINE g == slots[i].generation
           m == Len(minted[i])
<1>2. g \in 0 .. Generations - 1 /\ MakeId(i, g) \in Ids /\ minted[i] \in Seq(Ids) /\ m \in Nat
  BY <1>1, IdFacts, LenProperties DEF PoolInv, PoolTypes, Slot
<1>3. /\ Append(minted[i], MakeId(i, g)) \in Seq(Ids)
      /\ Len(Append(minted[i], MakeId(i, g))) = m + 1
      /\ \A k \in 1 .. m : Append(minted[i], MakeId(i, g))[k] = minted[i][k]
      /\ Append(minted[i], MakeId(i, g))[m + 1] = MakeId(i, g)
  BY <1>2, AppendProperties
<1>4. /\ slots' \in [Indices -> Slot] /\ minted' \in [Indices -> Seq(Ids)]
      /\ ahead' \in [Indices -> SUBSET Indices]
  BY <1>1, <1>3 DEF PoolInv, PoolTypes
<1>5. slots'[i] = Occupied(i, n) /\ minted'[i] = Append(minted[i], MakeId(i, g))
  BY <1>1 DEF PoolInv, PoolTypes
<1>6. g = m % Generations /\ MakeId(i, g) = MakeId(i, m)
  BY <1>1, <1>2, IdOfOccupant DEF PoolInv, Minting, Occupants
<1>7. /\ \A k \in 1 .. m + 1 : minted'[i][k] = MakeId(i, k - 1)
      /\ Len(minted'[i]) = m + 1
  <2>1. ASSUME NEW k \in 1 .. m PROVE minted'[i][k] = MakeId(i, k - 1)
    BY <1>1, <1>3, <1>5 DEF PoolInv, Minting
  <2>2. minted'[i][m + 1] = MakeId(i, (m + 1) - 1)
    BY <1>2, <1>3, <1>5, <1>6
  <2> QED BY <1>2, <1>3, <1>5, <2>1, <2>2
<1>8. slots'[i].live /\ slots'[i].generation = g /\ slots'[i].id = MakeId(i, g)
  BY <1>5 DEF Occupied
<1>9. (m + 1) - 1 = m
  BY <1>2
<1>10. Occupants(i)' = m
  BY <1>7, <1>8, <1>9 DEF Occupants
<1>11. ASSUME NEW j \in Indices, j # i
       PROVE  slots'[j] = slots[j] /\ minted'[j] = minted[j] /\ Occupants(j)' = Occupants(j)
  BY <1>1, <1>11 DEF PoolInv, PoolTypes, Occupants
<1>12. ASSUME NEW j \in Indices
       PROVE  /\ \A k \in 1 .. Len(minted'[j]) : minted'[j][k] = MakeId(j, k - 1)
              /\ slots'[j].generation = Occupants(j)' % Generations
              /\ slots'[j].live => Len(minted'[j]) > 0 /\ slots'[j].id = MakeId(j, slots'[j].generation)
  <2>1. CASE j = i
    BY <2>1, <1>2, <1>6, <1>7, <1>8, <1>10
  <2>2. CASE j # i
    BY <2>2, <1>11 DEF PoolInv, Minting
  <2> QED BY <2>1, <2>2
<1>13. Minting'
  BY <1>12 DEF Minting, MakeId, IndexSpan
<1> QED BY <1>4, <1>13

\* The free list when its first slot is taken.
LEMMA AllocFromList ==
  ASSUME PoolInv, NEW n \in Nat, AllocBuffer(n), freeHead # NO_INDEX
  PROVE  PoolInv'
<1> DEFINE i == freeHead
<1>1. /\ i \in Indices /\ ~slots[i].live
      /\ slots' = [slots EXCEPT ![i] = Occupied(i, n)]
      /\ minted' = [minted EXCEPT ![i] = Append(minted[i], MakeId(i, slots[i].generation))]
      /\ ahead' = [j \in Indices |-> ahead[j] \ {i}]
  BY AllocTakes DEF Taken
<1>2. i \in Dead /\ ahead[i] = {} /\ i \in 1 .. size
  BY DEF PoolInv, FreeOrder, Dead
<1>3. /\ freeHead' = slots[i].next /\ size' = size /\ freeCount' = freeCount - 1
      /\ freeTail' = IF slots[i].next = NO_INDEX THEN NO_INDEX ELSE freeTail
      /\ liveCount' = liveCount + 1
  BY DEF AllocBuffer, Unthread, Taken
<1>4. size \in 0 .. MaxLive /\ 1 .. size \subseteq Indices
  BY PoolSizes DEF PoolInv, PoolTypes, Indices
<1>5. slots'[i].live /\ \A j \in Indices : j # i => slots'[j] = slots[j]
  BY <1>1 DEF PoolInv, PoolTypes, Occupied
<1>6. Dead' = Dead \ {i}
  BY <1>3, <1>4, <1>5 DEF Dead
<1>7. \A j \in Indices : ahead'[j] = ahead[j] \ {i}
  BY <1>1
<1>8. Dead \subseteq Indices /\ NO_INDEX \notin Dead
  BY <1>4, PoolSizes DEF Dead, NO_INDEX
<1> HIDE DEF i
<1>9. PoolTypes'
  <2>1. slots[i].next \in 1 .. NO_INDEX /\ NO_INDEX \in 1 .. NO_INDEX
    BY <1>1, PoolSizes DEF PoolInv, PoolTypes, Slot, NO_INDEX
  <2>2. freeHead' \in 1 .. NO_INDEX /\ freeTail' \in 1 .. NO_INDEX
    BY <1>3, <2>1 DEF PoolInv, PoolTypes
  <2>3. slots' \in [Indices -> Slot] /\ minted' \in [Indices -> Seq(Ids)] /\ ahead' \in [Indices -> SUBSET Indices]
    BY AllocMints
  <2> QED BY <1>3, <1>4, <2>2, <2>3 DEF PoolTypes, Indices, Slot, Ids, NO_INDEX, IndexSpan
<1>10. Untouched'
  <2> SUFFICES ASSUME NEW j \in Indices, j > size
               PROVE  ~slots'[j].live /\ slots'[j].generation = 0 /\ minted'[j] = << >>
    BY <1>3 DEF Untouched, Indices
  <2>1. j # i
    BY <1>2, <1>4
  <2> QED BY <1>1, <1>5, <2>1 DEF PoolInv, PoolTypes, Untouched
<1>11. Counts'
  <2>1. IsFiniteSet(Dead)
    BY DeadFinite DEF PoolInv
  <2>2. Cardinality(Dead \ {i}) = Cardinality(Dead) - 1 /\ Cardinality(Dead) \in Nat
    BY <1>2, <2>1, FS_RemoveElement, FS_CardinalityType
  <2> QED BY <1>3, <1>4, <1>6, <2>2 DEF PoolInv, Counts
<1>12. FreeOrder'
  <2> DEFINE nx(j) == slots[j].next
  <2>1. ASSUME NEW j \in Dead \ {i} PROVE slots'[j].next = slots[j].next /\ nx(j) # i
    <3>1. slots'[j] = slots[j]
      BY <1>5, <1>8
    <3>2. nx(j) # i
      BY <1>2, <1>8 DEF PoolInv, FreeOrder
    <3> QED BY <3>1, <3>2
  <2>2. CASE i = freeTail
    <3>1. slots[i].next = NO_INDEX /\ Dead = {i}
      BY <1>2, <1>8, <2>2 DEF PoolInv, FreeOrder
    <3>2. Dead' = {} /\ freeHead' = NO_INDEX /\ freeTail' = NO_INDEX
      BY <1>3, <1>6, <3>1
    <3> QED BY <3>2 DEF FreeOrder, NO_INDEX
  <2>3. CASE i # freeTail
    <3> DEFINE h == slots[i].next
    <3>1. h \in Dead /\ ahead[h] = {i} /\ h # NO_INDEX /\ h # i
      BY <1>2, <1>8, <2>3 DEF PoolInv, FreeOrder
    <3>2. freeHead' = h /\ freeTail' = freeTail
      BY <1>3, <3>1
    <3>3. freeTail \in Dead \ {i} /\ freeTail # NO_INDEX /\ ahead[freeTail] = Dead \ {freeTail}
      BY <1>2, <2>3 DEF PoolInv, FreeOrder
    <3>4. h \in Dead' /\ ahead'[h] = {} /\ Dead' # {}
      BY <1>6, <1>7, <1>8, <3>1
    <3>5. freeTail \in Dead' /\ ahead'[freeTail] = Dead' \ {freeTail}
      BY <1>6, <1>7, <1>8, <3>3
    <3>6. ASSUME NEW j \in Dead'
          PROVE  /\ j \notin ahead'[j] /\ ahead'[j] \subseteq Dead'
                 /\ IF j = freeTail THEN slots'[j].next = NO_INDEX
                    ELSE slots'[j].next \in Dead' /\ ahead'[slots'[j].next] = ahead'[j] \cup {j}
      <4>1. j \in Dead \ {i} /\ ahead'[j] = ahead[j] \ {i}
        BY <1>6, <1>7, <1>8
      <4>2. j \notin ahead[j] /\ ahead[j] \subseteq Dead
        BY <4>1 DEF PoolInv, FreeOrder
      <4>3. CASE j = freeTail
        BY <2>1, <4>1, <4>2, <4>3, <1>6 DEF PoolInv, FreeOrder
      <4>4. CASE j # freeTail
        <5>1. nx(j) \in Dead /\ ahead[nx(j)] = ahead[j] \cup {j}
          BY <4>1, <4>4 DEF PoolInv, FreeOrder
        <5>2. slots'[j].next = nx(j) /\ nx(j) \in Dead' /\ ahead'[nx(j)] = ahead[nx(j)] \ {i}
          BY <2>1, <4>1, <5>1, <1>6, <1>7, <1>8
        <5> QED BY <4>1, <4>2, <4>4, <5>1, <5>2, <1>6
      <4> QED BY <4>3, <4>4
    <3> QED BY <3>1, <3>2, <3>3, <3>4, <3>5, <3>6 DEF FreeOrder, NO_INDEX
  <2> QED BY <2>2, <2>3
<1>13. Minting'
  BY AllocMints
<1> QED BY <1>9, <1>10, <1>11, <1>12, <1>13 DEF PoolInv

\* A new slot, when the list is empty.
LEMMA AllocNew ==
  ASSUME PoolInv, NEW n \in Nat, AllocBuffer(n), freeHead = NO_INDEX
  PROVE  PoolInv'
<1>1. PICK i \in Indices :
        /\ i = size + 1 /\ ~slots[i].live
        /\ slots' = [slots EXCEPT ![i] = Occupied(i, n)]
        /\ minted' = [minted EXCEPT ![i] = Append(minted[i], MakeId(i, slots[i].generation))]
  BY AllocTakes DEF Taken
<1>2. /\ size' = i /\ freeHead' = freeHead /\ freeTail' = freeTail /\ freeCount' = freeCount
      /\ liveCount' = liveCount + 1
  BY <1>1 DEF AllocBuffer, Taken
<1>3. size \in 0 .. MaxLive /\ i \in 1 .. MaxLive /\ 1 .. size \subseteq Indices
  BY PoolSizes DEF PoolInv, PoolTypes, Indices
<1>4. slots'[i].live /\ \A j \in Indices : j # i => slots'[j] = slots[j]
  BY <1>1 DEF PoolInv, PoolTypes, Occupied
<1>5. Dead = {} /\ freeTail = NO_INDEX
  BY DEF PoolInv, FreeOrder
<1>6. Dead' = {}
  <2> SUFFICES ASSUME NEW j \in 1 .. i PROVE slots'[j].live
    BY <1>2 DEF Dead
  <2>1. CASE j = i
    BY <1>4, <2>1
  <2>2. CASE j # i
    <3>1. j \in 1 .. size /\ j \in Indices
      BY <1>1, <1>3, <2>2
    <3> QED BY <1>4, <1>5, <2>2, <3>1 DEF Dead
  <2> QED BY <2>1, <2>2
<1>7. slots' \in [Indices -> Slot] /\ minted' \in [Indices -> Seq(Ids)] /\ ahead' \in [Indices -> SUBSET Indices]
      /\ Minting'
  BY AllocMints
<1>8. PoolTypes'
  BY <1>2, <1>3, <1>7 DEF PoolInv, PoolTypes, Indices, Slot, Ids, NO_INDEX, IndexSpan
<1>9. Untouched'
  <2> SUFFICES ASSUME NEW j \in Indices, j > i
               PROVE  ~slots'[j].live /\ slots'[j].generation = 0 /\ minted'[j] = << >>
    BY <1>2 DEF Untouched, Indices
  <2>1. j # i /\ j > size
    BY <1>1, <1>3 DEF Indices
  <2> QED BY <1>1, <1>4, <2>1 DEF PoolInv, PoolTypes, Untouched
<1>10. FreeOrder'
  BY <1>2, <1>5, <1>6 DEF FreeOrder, NO_INDEX
<1>11. Counts'
  BY <1>1, <1>2, <1>3, <1>5, <1>6, FS_EmptySet DEF PoolInv, Counts
<1> QED BY <1>7, <1>8, <1>9, <1>10, <1>11 DEF PoolInv

\* alloc_buffer() keeps the pool consistent; it makes a dead slot live, with an id of its
\* own, and leaves the others alone.
LEMMA AllocKeeps ==
  ASSUME PoolInv, NEW n \in Nat, AllocBuffer(n)
  PROVE  /\ PoolInv'
         /\ Taken \in Indices /\ ~slots[Taken].live /\ slots'[Taken].live
         /\ slots'[Taken].id = MakeId(Taken, slots[Taken].generation)
         /\ \A j \in Indices : j # Taken => slots'[j] = slots[j]
<1>1. PoolInv'
  BY AllocFromList, AllocNew
<1>2. /\ Taken \in Indices /\ ~slots[Taken].live
      /\ slots' = [slots EXCEPT ![Taken] = Occupied(Taken, n)]
  BY AllocTakes
<1> QED BY <1>1, <1>2 DEF PoolInv, PoolTypes, Occupied

-----------------------------------------------------------------------------
(* free_buffer()                                                           *)

\* The free list when a slot is appended to it.
LEMMA FreeThreads ==
  ASSUME PoolInv, NEW i \in Indices, slots[i].live, FreeBuffer(slots[i].id)
  PROVE  /\ PoolInv'
         /\ ~slots'[i].live
         /\ \A j \in Indices : j # i => slots'[j].live = slots[j].live /\ slots'[j].id = slots[j].id
<1>1. IndexOf(slots[i].id) = i /\ Frees(slots[i].id) /\ i \in 1 .. size
  BY LiveResolves DEF Frees
<1> DEFINE g == NextGeneration(slots[i].generation)
           gone == [live |-> FALSE, generation |-> g, next |-> NO_INDEX, used |-> 0, id |-> slots[i].id]
           dead == [slots EXCEPT ![i] = gone]
<1>2. /\ slots' = IF freeTail = NO_INDEX THEN dead
                  ELSE [dead EXCEPT ![freeTail] = [dead[freeTail] EXCEPT !.next = i]]
      /\ freeHead' = IF freeTail = NO_INDEX THEN i ELSE freeHead
      /\ freeTail' = i
      /\ liveCount' = liveCount - 1 /\ freeCount' = freeCount + 1
      /\ ahead' = [ahead EXCEPT ![i] = Dead]
      /\ size' = size /\ minted' = minted
  BY <1>1 DEF FreeBuffer, Thread, Dead
<1>3. size \in 0 .. MaxLive /\ 1 .. size \subseteq Indices /\ Dead \subseteq Indices /\ NO_INDEX \notin Indices
      /\ i \notin Dead /\ i \in 1 .. NO_INDEX
  BY PoolSizes DEF PoolInv, PoolTypes, Indices, Dead, NO_INDEX
<1>4. g \in 0 .. Generations - 1
  <2>1. slots[i].generation + 1 \in Int /\ Generations \in Nat \ {0}
    BY PoolSizes DEF PoolInv, PoolTypes, Slot
  <2> QED BY <2>1, DivMod DEF NextGeneration
<1>5. freeTail # NO_INDEX => freeTail \in Dead /\ freeTail # i
  BY <1>3 DEF PoolInv, FreeOrder
<1>6. slots[i] \in Slot /\ gone \in Slot
  BY <1>4, PoolSizes DEF PoolInv, PoolTypes, Slot, NO_INDEX
<1> HIDE DEF g
<1>7. dead \in [Indices -> Slot] /\ dead[i] = gone /\ \A j \in Indices : j # i => dead[j] = slots[j]
  BY <1>6 DEF PoolInv, PoolTypes
<1> HIDE DEF dead, gone
<1>8. /\ slots' \in [Indices -> Slot] /\ slots'[i] = gone
      /\ \A j \in Indices : j # i /\ j # freeTail => slots'[j] = slots[j]
      /\ freeTail # NO_INDEX => slots'[freeTail] = [slots[freeTail] EXCEPT !.next = i]
  <2>1. CASE freeTail = NO_INDEX
    BY <1>2, <1>7, <2>1
  <2>2. CASE freeTail # NO_INDEX
    <3>1. freeTail \in Indices /\ dead[freeTail] = slots[freeTail] /\ slots[freeTail] \in Slot
      BY <1>3, <1>5, <1>7, <2>2 DEF PoolInv, PoolTypes
    <3>2. [slots[freeTail] EXCEPT !.next = i] \in Slot
      BY <1>3, <3>1 DEF Slot
    <3> QED BY <1>2, <1>5, <1>7, <2>2, <3>1, <3>2
  <2> QED BY <2>1, <2>2
<1>9. ASSUME NEW j \in Indices, j # i
      PROVE  /\ slots'[j].live = slots[j].live /\ slots'[j].id = slots[j].id
             /\ slots'[j].generation = slots[j].generation
             /\ j # freeTail => slots'[j].next = slots[j].next
  <2>1. CASE j # freeTail
    BY <1>8, <1>9, <2>1
  <2>2. CASE j = freeTail
    <3>1. freeTail # NO_INDEX /\ slots[j] \in Slot
      BY <1>3, <2>2 DEF PoolInv, PoolTypes
    <3> QED BY <1>8, <2>2, <3>1 DEF Slot
  <2> QED BY <2>1, <2>2
<1>10. ~slots'[i].live /\ slots'[i].generation = g /\ slots'[i].next = NO_INDEX
  BY <1>8 DEF gone
<1>11. Dead' = Dead \cup {i}
  BY <1>1, <1>2, <1>3, <1>9, <1>10 DEF Dead
<1>12. PoolTypes'
  <2>1. ahead' \in [Indices -> SUBSET Indices]
    BY <1>2, <1>3 DEF PoolInv, PoolTypes
  <2>2. freeHead' \in 1 .. NO_INDEX /\ freeTail' \in 1 .. NO_INDEX
    BY <1>2, <1>3 DEF PoolInv, PoolTypes
  <2> QED BY <1>2, <1>8, <2>1, <2>2 DEF PoolInv, PoolTypes, Indices, Slot, Ids, NO_INDEX, IndexSpan
<1>13. Untouched'
  <2> SUFFICES ASSUME NEW j \in Indices, j > size
               PROVE  ~slots'[j].live /\ slots'[j].generation = 0 /\ minted[j] = << >>
    BY <1>2 DEF Untouched, Indices
  <2>1. j # i
    BY <1>1, <1>3
  <2> QED BY <1>9, <2>1 DEF PoolInv, Untouched
<1>14. Counts'
  <2>1. IsFiniteSet(Dead)
    BY DeadFinite DEF PoolInv
  <2>2. Cardinality(Dead \cup {i}) = Cardinality(Dead) + 1 /\ Cardinality(Dead) \in Nat
    BY <1>3, <2>1, FS_AddElement, FS_CardinalityType
  <2> QED BY <1>2, <1>3, <1>11, <2>2 DEF PoolInv, Counts
<1>15. FreeOrder'
  <2>1. ahead'[i] = Dead /\ \A j \in Indices : j # i => ahead'[j] = ahead[j]
    BY <1>2 DEF PoolInv, PoolTypes
  <2>2. freeTail' # NO_INDEX /\ freeTail' \in Dead' /\ ahead'[freeTail'] = Dead' \ {freeTail'}
    BY <1>2, <1>3, <1>11, <2>1
  <2>3. freeHead' # NO_INDEX /\ freeHead' \in Dead' /\ ahead'[freeHead'] = {}
    <3>1. CASE freeTail = NO_INDEX
      BY <1>2, <1>3, <1>11, <2>1, <3>1 DEF PoolInv, FreeOrder
    <3>2. CASE freeTail # NO_INDEX
      <4>1. freeHead # NO_INDEX /\ freeHead \in Dead /\ ahead[freeHead] = {}
        BY <3>2 DEF PoolInv, FreeOrder
      <4> QED BY <1>2, <1>3, <1>11, <2>1, <3>2, <4>1
    <3> QED BY <3>1, <3>2
  <2>4. ASSUME NEW j \in Dead'
        PROVE  /\ j \notin ahead'[j] /\ ahead'[j] \subseteq Dead'
               /\ IF j = i THEN slots'[j].next = NO_INDEX
                  ELSE slots'[j].next \in Dead' /\ ahead'[slots'[j].next] = ahead'[j] \cup {j}
    <3>1. CASE j = i
      BY <1>3, <1>10, <1>11, <2>1, <3>1
    <3>2. CASE j # i /\ j = freeTail
      <4>1. j \in Dead /\ j \in Indices /\ ahead[j] = Dead \ {j} /\ slots[j] \in Slot /\ freeTail # NO_INDEX
        BY <1>3, <1>11, <3>2 DEF PoolInv, PoolTypes, FreeOrder
      <4>2. slots'[j].next = i
        BY <1>8, <3>2, <4>1 DEF Slot
      <4> QED BY <1>11, <2>1, <3>2, <4>1, <4>2
    <3>3. CASE j # i /\ j # freeTail
      <4>1. j \in Dead /\ j \in Indices
        BY <1>3, <1>11, <3>3
      <4>2. slots[j].next \in Dead /\ ahead[slots[j].next] = ahead[j] \cup {j} /\ j \notin ahead[j] /\ ahead[j] \subseteq Dead
        BY <3>3, <4>1 DEF PoolInv, FreeOrder
      <4>3. slots'[j].next = slots[j].next
        BY <1>9, <3>3, <4>1
      <4> QED BY <1>3, <1>11, <2>1, <3>3, <4>1, <4>2, <4>3
    <3> QED BY <3>1, <3>2, <3>3
  <2>5. freeTail' = i /\ Dead' # {}
    BY <1>2, <1>11
  <2> QED BY <2>2, <2>3, <2>4, <2>5 DEF FreeOrder, NO_INDEX
<1>16. Minting'
  <2> DEFINE m == Len(minted[i])
  <2>1. m \in Nat \ {0} /\ slots[i].generation = (m - 1) % Generations
    BY LenProperties DEF PoolInv, PoolTypes, Minting, Occupants
  <2>2. g = m % Generations
    <3> DEFINE a == m - 1
    <3>1. a \in Int /\ a + 1 = m /\ Generations \in Nat \ {0}
      BY <2>1, PoolSizes
    <3> HIDE DEF a, m
    <3>2. ((a % Generations) + 1) % Generations = (a + 1) % Generations
      BY <3>1, ModSuccessor
    <3> QED BY <2>1, <3>1, <3>2 DEF a, g, NextGeneration
  <2>3. ASSUME NEW j \in Indices
        PROVE  /\ \A k \in 1 .. Len(minted'[j]) : minted'[j][k] = MakeId(j, k - 1)
               /\ slots'[j].generation = (IF slots'[j].live THEN Len(minted'[j]) - 1 ELSE Len(minted'[j])) % Generations
               /\ slots'[j].live => Len(minted'[j]) > 0 /\ slots'[j].id = MakeId(j, slots'[j].generation)
    <3>1. CASE j = i
      BY <1>2, <1>10, <2>2, <3>1 DEF PoolInv, Minting
    <3>2. CASE j # i
      <4>1. minted'[j] = minted[j] /\ slots'[j].live = slots[j].live /\ slots'[j].id = slots[j].id
            /\ slots'[j].generation = slots[j].generation
        BY <1>2, <1>9, <3>2
      <4>2. /\ \A k \in 1 .. Len(minted[j]) : minted[j][k] = MakeId(j, k - 1)
            /\ slots[j].generation = (IF slots[j].live THEN Len(minted[j]) - 1 ELSE Len(minted[j])) % Generations
            /\ slots[j].live => Len(minted[j]) > 0 /\ slots[j].id = MakeId(j, slots[j].generation)
        BY DEF PoolInv, Minting, Occupants
      <4> QED BY <4>1, <4>2
    <3> QED BY <3>1, <3>2
  <2> QED BY <2>3 DEF Minting, Occupants, MakeId, IndexSpan
<1> QED BY <1>9, <1>10, <1>12, <1>13, <1>14, <1>15, <1>16 DEF PoolInv

\* An id that is not the current occupant's frees nothing.
LEMMA FreeIgnores ==
  ASSUME PoolInv, NEW id, ~Resolves(id), FreeBuffer(id)
  PROVE  UNCHANGED poolVars
BY DEF FreeBuffer, Frees

-----------------------------------------------------------------------------
(* Chains and single buffers.                                              *)

\* What a chain holds is live, so its ids are those of its slots.
LEMMA HeldFacts ==
  ASSUME PoolInv, ChainInv, NEW c \in Chains, NEW k \in 1 .. Len(bufs[c])
  PROVE  /\ bufs[c][k] \in Indices /\ slots[bufs[c][k]].live
         /\ IdAt(c, k) \in Ids /\ IdAt(c, k) # NoId /\ IndexOf(IdAt(c, k)) = bufs[c][k]
         /\ Len(bufs[c]) \in Nat
<1>1. bufs[c] \in Seq(Indices) /\ Len(bufs[c]) \in Nat
  BY LenProperties DEF ChainInv, ChainTypes
<1>2. bufs[c][k] \in Indices
  BY <1>1, ElementOfSeq
<1>3. slots[bufs[c][k]].live
  BY <1>2 DEF ChainInv, Holders
<1> QED BY <1>1, <1>2, <1>3, LiveResolves DEF IdAt

\* Pool and chains are untouched.
LEMMA ChainStutter ==
  ASSUME PoolInv, ChainInv, UNCHANGED vars
  PROVE  PoolInv' /\ ChainInv'
<1>1. /\ slots' = slots /\ size' = size /\ freeHead' = freeHead /\ freeTail' = freeTail
      /\ liveCount' = liveCount /\ freeCount' = freeCount /\ minted' = minted /\ ahead' = ahead
      /\ bufs' = bufs /\ successor' = successor /\ predecessor' = predecessor /\ clearing' = clearing
      /\ loose' = loose
  BY DEF vars, poolVars, chainVars
<1>2. Dead' = Dead
  BY <1>1 DEF Dead
<1>3. PoolInv'
  BY <1>1, <1>2 DEF PoolInv, PoolTypes, Untouched, FreeOrder, Counts, Minting, Occupants
<1>4. ChainInv'
  BY <1>1 DEF ChainInv, ChainTypes, Holders, Links, Linked, Loosened, IdAt
<1> QED BY <1>3, <1>4

\* The links of a chain stay what they are while it and its ids do.
LEMMA LinkedKept ==
  ASSUME ChainInv, NEW c \in Chains, Linked(c),
         bufs'[c] = bufs[c], successor'[c] = successor[c], predecessor'[c] = predecessor[c],
         \A k \in 1 .. Len(bufs[c]) : slots'[bufs[c][k]].id = slots[bufs[c][k]].id
  PROVE  Linked(c)'
<1>1. Len(bufs[c]) \in Nat
  BY LenProperties DEF ChainInv, ChainTypes
<1> DEFINE n == Len(bufs[c])
           new(k) == slots'[bufs'[c][k]].id
<1>2. \A k \in 1 .. n : new(k) = IdAt(c, k)
  BY DEF IdAt
<1> HIDE DEF new
<1>3. /\ \A k \in 1 .. n - 1 : k \in 1 .. n /\ k + 1 \in 1 .. n
      /\ \A k \in 2 .. n : k \in 1 .. n /\ k - 1 \in 1 .. n
  BY <1>1
<1>4. /\ \A k \in 1 .. n - 1 : successor'[c][new(k)] = new(k + 1)
      /\ \A k \in 2 .. n : predecessor'[c][new(k)] = new(k - 1)
  BY <1>2, <1>3 DEF Linked
<1>5. /\ \A id \in Ids : successor'[c][id] # NoId => \E k \in 1 .. n - 1 : id = new(k)
      /\ \A id \in Ids : predecessor'[c][id] # NoId => \E k \in 2 .. n : id = new(k)
  BY <1>2, <1>3 DEF Linked
<1> QED BY <1>4, <1>5 DEF Linked, new, IdAt, Ids, IndexSpan, NoId

LEMMA AllocSingle ==
  ASSUME PoolInv, ChainInv, Alloc
  PROVE  PoolInv' /\ ChainInv'
<1>1. AllocBuffer(0) /\ loose' = loose \cup {Taken}
      /\ bufs' = bufs /\ successor' = successor /\ predecessor' = predecessor /\ clearing' = clearing
  BY DEF Alloc, chainVars
<1>2. PICK t \in Indices : t = Taken
  BY <1>1, AllocKeeps
<1>3. /\ PoolInv' /\ ~slots[t].live /\ slots'[t].live
      /\ \A j \in Indices : j # t => slots'[j] = slots[j]
  BY <1>1, <1>2, AllocKeeps
<1>4. ASSUME NEW c \in Chains, NEW k \in 1 .. Len(bufs[c])
      PROVE  bufs[c][k] # t /\ bufs[c][k] \in Indices /\ slots'[bufs[c][k]] = slots[bufs[c][k]]
  BY <1>3, HeldFacts
<1>5. t \notin loose
  BY <1>3 DEF ChainInv, Holders
<1>6. ChainTypes'
  BY <1>1, <1>2 DEF ChainInv, ChainTypes
<1>7. Holders'
  BY <1>1, <1>2, <1>3, <1>4, <1>5 DEF ChainInv, Holders, Indices
<1>8. ASSUME NEW c \in Chains
      PROVE  IF c = clearing THEN Loosened(c)' ELSE Linked(c)'
  BY <1>1, <1>4, LinkedKept DEF ChainInv, Links, Loosened, Ids, IndexSpan, NoId
<1>9. Links'
  BY <1>1, <1>8 DEF ChainInv, Links
<1> QED BY <1>3, <1>6, <1>7, <1>9 DEF ChainInv

LEMMA FreeSingle ==
  ASSUME PoolInv, ChainInv, NEW i \in Indices, Free(i)
  PROVE  PoolInv' /\ ChainInv'
<1>1. /\ i \in loose /\ FreeBuffer(slots[i].id) /\ loose' = loose \ {i}
      /\ bufs' = bufs /\ successor' = successor /\ predecessor' = predecessor /\ clearing' = clearing
  BY DEF Free, chainVars
<1>2. slots[i].live
  BY <1>1 DEF ChainInv, Holders
<1>3. /\ PoolInv' /\ ~slots'[i].live
      /\ \A j \in Indices : j # i => slots'[j].live = slots[j].live /\ slots'[j].id = slots[j].id
  BY <1>1, <1>2, FreeThreads
<1>4. ASSUME NEW c \in Chains, NEW k \in 1 .. Len(bufs[c])
      PROVE  bufs[c][k] # i /\ bufs[c][k] \in Indices /\ slots'[bufs[c][k]].id = slots[bufs[c][k]].id
  <2>1. bufs[c][k] # i
    BY <1>1 DEF ChainInv, Holders
  <2> QED BY <1>3, <2>1, HeldFacts
<1>5. ChainTypes'
  BY <1>1 DEF ChainInv, ChainTypes
<1>6. Holders'
  <2>1. ASSUME NEW j \in Indices
        PROVE  slots'[j].live <=> j \in loose' \/ \E c \in Chains : \E k \in 1 .. Len(bufs[c]) : bufs[c][k] = j
    BY <1>1, <1>3, <1>4 DEF ChainInv, Holders
  <2> QED BY <1>1, <2>1 DEF ChainInv, Holders, Indices
<1>7. ASSUME NEW c \in Chains
      PROVE  IF c = clearing THEN Loosened(c)' ELSE Linked(c)'
  BY <1>1, <1>4, LinkedKept DEF ChainInv, Links, Loosened, Ids, IndexSpan, NoId
<1>8. Links'
  BY <1>1, <1>7 DEF ChainInv, Links
<1> QED BY <1>3, <1>5, <1>6, <1>8 DEF ChainInv

\* A double free, or a free through a stale id, changes nothing.
LEMMA FreeAgainKeeps ==
  ASSUME PoolInv, ChainInv, NEW i \in Indices, NEW k \in 1 .. MaxOccupants, FreeAgain(i, k)
  PROVE  PoolInv' /\ ChainInv'
<1>1. minted[i] \in Seq(Ids) /\ k \in 1 .. Len(minted[i])
  BY LenProperties DEF FreeAgain, PoolInv, PoolTypes
<1>2. ~Resolves(minted[i][k])
  BY <1>1, StaleDangles DEF FreeAgain
<1>3. UNCHANGED poolVars
  BY <1>2, FreeIgnores DEF FreeAgain
<1>4. UNCHANGED vars
  BY <1>3 DEF FreeAgain, vars
<1> QED BY <1>4, ChainStutter

\* Bytes allocated from a live buffer.
LEMMA UseKeeps ==
  ASSUME PoolInv, ChainInv, NEW i \in Indices, NEW n \in Nat, slots[i].live,
         slots' = [slots EXCEPT ![i] = [slots[i] EXCEPT !.used = slots[i].used + n]],
         UNCHANGED <<size, freeHead, freeTail, liveCount, freeCount, minted, ahead>>,
         UNCHANGED <<chainVars, loose>>
  PROVE  PoolInv' /\ ChainInv'
<1>1. slots[i] \in Slot
  BY DEF PoolInv, PoolTypes
<1>2. [slots[i] EXCEPT !.used = slots[i].used + n] \in Slot
  BY <1>1 DEF Slot
<1>3. slots' \in [Indices -> Slot]
  BY <1>2 DEF PoolInv, PoolTypes
<1>4. \A j \in Indices : /\ slots'[j].live = slots[j].live /\ slots'[j].id = slots[j].id
                         /\ slots'[j].generation = slots[j].generation /\ slots'[j].next = slots[j].next
  BY <1>1 DEF PoolInv, PoolTypes, Slot
<1>5. size \in 0 .. MaxLive /\ 1 .. size \subseteq Indices
  BY PoolSizes DEF PoolInv, PoolTypes, Indices
<1>6. Dead' = Dead /\ Dead \subseteq Indices
  BY <1>4, <1>5 DEF Dead
<1>7. PoolTypes'
  BY <1>3 DEF PoolInv, PoolTypes, Indices, Slot, Ids, NO_INDEX, IndexSpan
<1>8. Untouched'
  BY <1>4 DEF PoolInv, Untouched, Indices
<1>9. FreeOrder'
  BY <1>4, <1>6 DEF PoolInv, FreeOrder, NO_INDEX
<1>10. Counts'
  BY <1>6 DEF PoolInv, Counts
<1>11. ASSUME NEW j \in Indices
       PROVE  /\ \A k \in 1 .. Len(minted'[j]) : minted'[j][k] = MakeId(j, k - 1)
              /\ slots'[j].generation = (IF slots'[j].live THEN Len(minted'[j]) - 1 ELSE Len(minted'[j])) % Generations
              /\ slots'[j].live => Len(minted'[j]) > 0 /\ slots'[j].id = MakeId(j, slots'[j].generation)
  <2>1. /\ \A k \in 1 .. Len(minted[j]) : minted[j][k] = MakeId(j, k - 1)
        /\ slots[j].generation = (IF slots[j].live THEN Len(minted[j]) - 1 ELSE Len(minted[j])) % Generations
        /\ slots[j].live => Len(minted[j]) > 0 /\ slots[j].id = MakeId(j, slots[j].generation)
    BY DEF PoolInv, Minting, Occupants
  <2> QED BY <1>4, <2>1
<1>12. Minting'
  BY <1>11 DEF Minting, Occupants, MakeId, IndexSpan
<1>13. ChainTypes'
  BY DEF ChainInv, ChainTypes, chainVars
<1>14. Holders'
  BY <1>4 DEF ChainInv, Holders, chainVars, Indices
<1>15. ASSUME NEW c \in Chains
       PROVE  IF c = clearing THEN Loosened(c)' ELSE Linked(c)'
  <2>1. \A k \in 1 .. Len(bufs[c]) : slots'[bufs[c][k]].id = slots[bufs[c][k]].id
    BY <1>4, HeldFacts
  <2> QED BY <2>1, LinkedKept DEF ChainInv, Links, Loosened, chainVars, Ids, IndexSpan, NoId
<1>16. Links'
  BY <1>15 DEF ChainInv, Links, chainVars
<1> QED BY <1>7, <1>8, <1>9, <1>10, <1>12, <1>13, <1>14, <1>16 DEF PoolInv, ChainInv

LEMMA ClearKeeps ==
  ASSUME PoolInv, ChainInv, NEW c \in Chains, Clear(c)
  PROVE  PoolInv' /\ ChainInv'
<1>1. /\ clearing = NoChain /\ clearing' = c /\ bufs[c] # << >>
      /\ successor' = [successor EXCEPT ![c] = NoLinks] /\ predecessor' = [predecessor EXCEPT ![c] = NoLinks]
      /\ bufs' = bufs /\ loose' = loose /\ UNCHANGED poolVars
  BY DEF Clear, Unlinked
<1>2. NoLinks \in [Ids -> Ids] /\ \A id \in Ids : NoLinks[id] = NoId
  BY PoolSizes DEF NoLinks, Ids, NoId, IndexSpan
<1>3. /\ slots' = slots /\ size' = size /\ freeHead' = freeHead /\ freeTail' = freeTail
      /\ liveCount' = liveCount /\ freeCount' = freeCount /\ minted' = minted /\ ahead' = ahead
  BY <1>1 DEF poolVars
<1>4. Dead' = Dead
  BY <1>3 DEF Dead
<1>5. PoolInv'
  BY <1>3, <1>4 DEF PoolInv, PoolTypes, Untouched, FreeOrder, Counts, Minting, Occupants
<1>6. ChainTypes'
  BY <1>1, <1>2 DEF ChainInv, ChainTypes
<1>7. Holders'
  BY <1>1, <1>3 DEF ChainInv, Holders
<1>8. ASSUME NEW d \in Chains
      PROVE  IF d = c THEN Loosened(d)' ELSE Linked(d)'
  <2>1. CASE d = c
    <3>1. successor'[c] = NoLinks /\ predecessor'[c] = NoLinks
      BY <1>1 DEF ChainInv, ChainTypes
    <3> QED BY <1>2, <2>1, <3>1 DEF Loosened, Ids, IndexSpan, NoId
  <2>2. CASE d # c
    <3>1. successor'[d] = successor[d] /\ predecessor'[d] = predecessor[d] /\ bufs'[d] = bufs[d]
      BY <1>1, <2>2 DEF ChainInv, ChainTypes
    <3>2. Linked(d)
      BY <1>1, ChainsFinite DEF ChainInv, Links
    <3> QED BY <1>3, <2>2, <3>1, <3>2, LinkedKept
  <2> QED BY <2>1, <2>2
<1>9. Links'
  BY <1>1, <1>8 DEF Links
<1> QED BY <1>5, <1>6, <1>7, <1>9 DEF ChainInv

\* One turn of clear()'s loop gives back the first buffer of the chain.
LEMMA ClearNextKeeps ==
  ASSUME PoolInv, ChainInv, ClearNext
  PROVE  PoolInv' /\ ChainInv'
<1>1. PICK c \in Chains : c = clearing
  BY DEF ClearNext, ChainInv, ChainTypes
<1> DEFINE n == Len(bufs[c])
<1>2. bufs \in [Chains -> Seq(Indices)] /\ bufs[c] \in Seq(Indices) /\ bufs[c] # << >>
      /\ NoChain \notin Chains
  BY <1>1, ChainsFinite DEF ClearNext, ChainInv, ChainTypes, Links
<1>3. n \in Nat \ {0}
  BY <1>2, EmptySeq
<1>4. /\ Tail(bufs[c]) \in Seq(Indices) /\ Len(Tail(bufs[c])) = n - 1
      /\ \A k \in 1 .. n - 1 : Tail(bufs[c])[k] = bufs[c][k + 1]
  BY <1>2, HeadTailProperties
<1>5. PICK i \in Indices : i = bufs[c][1] /\ i = Head(bufs[c])
  BY <1>2, <1>3, ElementOfSeq
<1>6. /\ FreeBuffer(slots[i].id)
      /\ bufs' = [bufs EXCEPT ![c] = Tail(bufs[c])]
      /\ clearing' = IF n = 1 THEN NoChain ELSE c
      /\ successor' = successor /\ predecessor' = predecessor /\ loose' = loose
  BY <1>1, <1>5 DEF ClearNext
<1>7. slots[i].live
  BY <1>3, <1>5, HeldFacts
<1>8. /\ PoolInv' /\ ~slots'[i].live
      /\ \A j \in Indices : j # i => slots'[j].live = slots[j].live /\ slots'[j].id = slots[j].id
  BY <1>6, <1>7, FreeThreads
<1>9. bufs'[c] = Tail(bufs[c]) /\ \A d \in Chains : d # c => bufs'[d] = bufs[d]
  BY <1>2, <1>6
<1>10. ChainTypes'
  BY <1>2, <1>4, <1>6 DEF ChainInv, ChainTypes, Indices, Ids, IndexSpan
<1>11. ASSUME NEW d \in Chains, NEW k \in 1 .. Len(bufs'[d])
       PROVE  /\ bufs'[d][k] \in Indices /\ bufs'[d][k] # i
              /\ \E j \in 1 .. Len(bufs[d]) : bufs'[d][k] = bufs[d][j] /\ j = IF d = c THEN k + 1 ELSE k
  <2>1. CASE d = c
    <3>0. Len(bufs'[d]) = n - 1
      BY <1>4, <1>9, <2>1
    <3> HIDE DEF n
    <3>1. k \in 1 .. n - 1 /\ k + 1 \in 1 .. n /\ k + 1 # 1 /\ 1 \in 1 .. n
      BY <1>3, <3>0
    <3>2. bufs'[d][k] = bufs[c][k + 1] /\ bufs[c][k + 1] \in Indices
      BY <1>2, <1>4, <1>9, <2>1, <3>1, ElementOfSeq
    <3>3. bufs[c][k + 1] # bufs[c][1]
      BY <3>1 DEF ChainInv, Holders, n
    <3> QED BY <1>5, <2>1, <3>1, <3>2, <3>3 DEF n
  <2>2. CASE d # c
    <3>1. k \in 1 .. Len(bufs[d]) /\ bufs'[d][k] = bufs[d][k] /\ 1 \in 1 .. n
      BY <1>3, <1>9, <2>2
    <3>2. bufs[d][k] # bufs[c][1]
      BY <2>2, <3>1 DEF ChainInv, Holders
    <3> QED BY <1>5, <2>2, <3>1, <3>2, HeldFacts
  <2> QED BY <2>1, <2>2
<1>12. ASSUME NEW d \in Chains, NEW k \in 1 .. Len(bufs[d]), bufs[d][k] # i
       PROVE  \E j \in 1 .. Len(bufs'[d]) : bufs'[d][j] = bufs[d][k]
  <2>1. CASE d = c
    <3>1. k # 1 /\ k - 1 \in 1 .. n - 1 /\ (k - 1) + 1 = k
      BY <1>3, <1>5, <1>12, <2>1
    <3>2. bufs'[c][k - 1] = bufs[c][k]
      BY <1>4, <1>9, <3>1
    <3> QED BY <1>4, <1>9, <2>1, <3>1, <3>2
  <2>2. CASE d # c
    BY <1>9, <2>2
  <2> QED BY <2>1, <2>2
<1>13. Holders'
  <2>1. ASSUME NEW j \in Indices
        PROVE  slots'[j].live <=> j \in loose \/ \E d \in Chains : \E k \in 1 .. Len(bufs'[d]) : bufs'[d][k] = j
    <3>1. CASE j = i
      <4>1. i \notin loose
        BY <1>3, <1>5 DEF ChainInv, Holders
      <4> QED BY <1>8, <1>11, <3>1, <4>1
    <3>2. CASE j # i
      <4>1. slots[j].live <=> j \in loose \/ \E d \in Chains : \E k \in 1 .. Len(bufs[d]) : bufs[d][k] = j
        BY DEF ChainInv, Holders
      <4>2. (\E d \in Chains : \E k \in 1 .. Len(bufs[d]) : bufs[d][k] = j)
              <=> (\E d \in Chains : \E k \in 1 .. Len(bufs'[d]) : bufs'[d][k] = j)
        BY <1>11, <1>12, <3>2
      <4> QED BY <1>8, <3>2, <4>1, <4>2
    <3> QED BY <3>1, <3>2
  <2>2. ASSUME NEW d \in Chains, NEW k \in 1 .. Len(bufs'[d]) PROVE bufs'[d][k] \notin loose
    BY <1>11 DEF ChainInv, Holders
  <2>3. ASSUME NEW d \in Chains, NEW e \in Chains, NEW j \in 1 .. Len(bufs'[d]), NEW k \in 1 .. Len(bufs'[e]),
               bufs'[d][j] = bufs'[e][k]
        PROVE  d = e /\ j = k
    <3>1. PICK jj \in 1 .. Len(bufs[d]) : bufs'[d][j] = bufs[d][jj] /\ jj = IF d = c THEN j + 1 ELSE j
      BY <1>11
    <3>2. PICK kk \in 1 .. Len(bufs[e]) : bufs'[e][k] = bufs[e][kk] /\ kk = IF e = c THEN k + 1 ELSE k
      BY <1>11
    <3>3. bufs[d][jj] = bufs[e][kk]
      BY <2>3, <3>1, <3>2
    <3>4. d = e /\ jj = kk
      BY <3>3 DEF ChainInv, Holders
    <3> QED BY <3>1, <3>2, <3>4
  <2> QED BY <1>6, <2>1, <2>2, <2>3 DEF Holders, Indices
<1>14. ASSUME NEW d \in Chains, d # c PROVE Linked(d)'
  <2>1. \A k \in 1 .. Len(bufs[d]) : slots'[bufs[d][k]].id = slots[bufs[d][k]].id
    BY <1>8, <1>9, <1>11, <1>14
  <2>2. Linked(d)
    BY <1>1, <1>14 DEF ChainInv, Links
  <2> QED BY <1>6, <1>9, <1>14, <2>1, <2>2, LinkedKept
<1>15. \A id \in Ids : successor'[c][id] = NoId /\ predecessor'[c][id] = NoId
  BY <1>1, <1>6 DEF ChainInv, Links, Loosened
<1>16. Loosened(c)'
  BY <1>15 DEF Loosened, Ids, IndexSpan, NoId
<1>17. n = 1 => Linked(c)'
  <2> SUFFICES ASSUME n = 1 PROVE Linked(c)'
    OBVIOUS
  <2>1. Len(bufs'[c]) = 0
    BY <1>4, <1>9
  <2> QED BY <1>15, <2>1 DEF Linked, Ids, IndexSpan, NoId
<1>18. n # 1 => bufs'[c] # << >>
  <2>1. Len(bufs'[c]) = n - 1
    BY <1>4, <1>9
  <2> HIDE DEF n
  <2>2. n # 1 => Len(bufs'[c]) # 0
    BY <1>3, <2>1
  <2> QED BY <2>2, EmptySeq
<1>19. Links'
  BY <1>2, <1>6, <1>14, <1>16, <1>17, <1>18 DEF Links
<1> QED BY <1>8, <1>10, <1>13, <1>19 DEF ChainInv

\* append_buffer() links the new buffer behind the last one of the chain.
LEMMA AppendKeeps ==
  ASSUME PoolInv, ChainInv, NEW c \in Chains, NEW n \in Nat, clearing = NoChain,
         AppendBuffer(c, n), UNCHANGED <<loose, clearing>>
  PROVE  PoolInv' /\ ChainInv'
<1>1. /\ AllocBuffer(n)
      /\ bufs' = [bufs EXCEPT ![c] = Append(bufs[c], Taken)]
  BY DEF AppendBuffer
<1>2. PICK t \in Indices : t = Taken
  BY <1>1, AllocKeeps
<1>3. /\ PoolInv' /\ ~slots[t].live /\ slots'[t].live
      /\ slots'[t].id = MakeId(t, slots[t].generation)
      /\ \A j \in Indices : j # t => slots'[j] = slots[j]
  BY <1>1, <1>2, AllocKeeps
<1>4. slots[t].generation \in 0 .. Generations - 1
  BY DEF PoolInv, PoolTypes, Slot
<1>5. PICK new \in Ids : new = MakeId(t, slots[t].generation) /\ new # NoId /\ IndexOf(new) = t
  BY <1>4, IdFacts
<1>6. bufs \in [Chains -> Seq(Indices)] /\ bufs[c] \in Seq(Indices)
  BY DEF ChainInv, ChainTypes
<1>7. PICK m \in Nat : m = Len(bufs[c])
  BY <1>6, LenProperties
<1>8. /\ bufs'[c] = Append(bufs[c], t) /\ bufs'[c] \in Seq(Indices)
      /\ Len(bufs'[c]) = m + 1 /\ bufs'[c][m + 1] = t
      /\ \A k \in 1 .. m : bufs'[c][k] = bufs[c][k]
      /\ \A d \in Chains : d # c => bufs'[d] = bufs[d]
  <2>1. bufs'[c] = Append(bufs[c], t) /\ \A d \in Chains : d # c => bufs'[d] = bufs[d]
    BY <1>1, <1>2, <1>6
  <2> QED BY <1>6, <1>7, <2>1, AppendProperties
<1>9. ASSUME NEW d \in Chains, NEW k \in 1 .. Len(bufs[d])
      PROVE  /\ bufs[d][k] # t /\ bufs[d][k] \in Indices /\ slots'[bufs[d][k]] = slots[bufs[d][k]]
             /\ IdAt(d, k) \in Ids /\ IdAt(d, k) # NoId /\ IdAt(d, k) # new
             /\ IndexOf(IdAt(d, k)) = bufs[d][k]
  BY <1>3, <1>5, HeldFacts
<1>10. t \notin loose
  BY <1>3 DEF ChainInv, Holders
<1>11. Holders'
  <2>1. ASSUME NEW d \in Chains, NEW k \in 1 .. Len(bufs'[d])
        PROVE  \/ d = c /\ k = m + 1 /\ bufs'[d][k] = t
               \/ k \in 1 .. Len(bufs[d]) /\ bufs'[d][k] = bufs[d][k] /\ bufs'[d][k] # t
    <3>1. CASE d # c
      BY <1>8, <1>9, <3>1
    <3>2. CASE d = c
      <4>1. k \in 1 .. m + 1
        BY <1>8, <3>2
      <4>2. k = m + 1 \/ k \in 1 .. m
        BY <4>1
      <4> QED BY <1>7, <1>8, <1>9, <3>2, <4>2
    <3> QED BY <3>1, <3>2
  <2>2. ASSUME NEW d \in Chains, NEW k \in 1 .. Len(bufs[d])
        PROVE  k \in 1 .. Len(bufs'[d]) /\ bufs'[d][k] = bufs[d][k]
    <3>1. CASE d # c
      BY <1>8, <3>1
    <3>2. CASE d = c
      <4>1. k \in 1 .. m
        BY <1>7, <3>2
      <4> QED BY <1>8, <3>2, <4>1
    <3> QED BY <3>1, <3>2
  <2>3. m + 1 \in 1 .. Len(bufs'[c])
    BY <1>8
  <2>4. ASSUME NEW j \in Indices
        PROVE  slots'[j].live <=> j \in loose \/ \E d \in Chains : \E k \in 1 .. Len(bufs'[d]) : bufs'[d][k] = j
    <3>1. CASE j = t
      BY <1>3, <1>8, <2>3, <3>1
    <3>2. CASE j # t
      <4>1. slots[j].live <=> j \in loose \/ \E d \in Chains : \E k \in 1 .. Len(bufs[d]) : bufs[d][k] = j
        BY DEF ChainInv, Holders
      <4>2. (\E d \in Chains : \E k \in 1 .. Len(bufs[d]) : bufs[d][k] = j)
              <=> (\E d \in Chains : \E k \in 1 .. Len(bufs'[d]) : bufs'[d][k] = j)
        BY <2>1, <2>2, <3>2
      <4> QED BY <1>3, <3>2, <4>1, <4>2
    <3> QED BY <3>1, <3>2
  <2>5. ASSUME NEW d \in Chains, NEW k \in 1 .. Len(bufs'[d]) PROVE bufs'[d][k] \notin loose
    BY <1>10, <2>1 DEF ChainInv, Holders
  <2>6. ASSUME NEW d \in Chains, NEW e \in Chains, NEW j \in 1 .. Len(bufs'[d]), NEW k \in 1 .. Len(bufs'[e]),
               bufs'[d][j] = bufs'[e][k]
        PROVE  d = e /\ j = k
    <3>1. CASE bufs'[d][j] = t
      <4>1. d = c /\ j = m + 1
        BY <2>1, <3>1
      <4>2. bufs'[e][k] = t
        BY <2>6, <3>1
      <4>3. e = c /\ k = m + 1
        BY <2>1, <4>2
      <4> QED BY <4>1, <4>3
    <3>2. CASE bufs'[d][j] # t
      <4>1. j \in 1 .. Len(bufs[d]) /\ k \in 1 .. Len(bufs[e]) /\ bufs[d][j] = bufs[e][k]
        BY <2>1, <2>6, <3>2
      <4> QED BY <4>1 DEF ChainInv, Holders
    <3> QED BY <3>1, <3>2
  <2> QED BY <2>4, <2>5, <2>6 DEF Holders, Indices
<1>12. Linked(c)
  BY ChainsFinite DEF ChainInv, Links
<1> DEFINE at(k) == slots'[bufs'[c][k]].id
<1>13. at(m + 1) = new /\ \A k \in 1 .. m : at(k) = IdAt(c, k)
  BY <1>3, <1>5, <1>7, <1>8, <1>9 DEF IdAt
<1>14. \A j, k \in 1 .. m : IdAt(c, j) = IdAt(c, k) => j = k
  <2> SUFFICES ASSUME NEW j \in 1 .. m, NEW k \in 1 .. m, IdAt(c, j) = IdAt(c, k) PROVE j = k
    OBVIOUS
  <2>1. bufs[c][j] = bufs[c][k]
    BY <1>7, <1>9
  <2> QED BY <1>7, <2>1 DEF ChainInv, Holders
<1>15. /\ \A k \in 1 .. m - 1 : successor[c][IdAt(c, k)] = IdAt(c, k + 1)
       /\ \A k \in 2 .. m : predecessor[c][IdAt(c, k)] = IdAt(c, k - 1)
       /\ \A id \in Ids : successor[c][id] # NoId => \E k \in 1 .. m - 1 : id = IdAt(c, k)
       /\ \A id \in Ids : predecessor[c][id] # NoId => \E k \in 2 .. m : id = IdAt(c, k)
  BY <1>7, <1>12 DEF Linked
<1>16. successor[c] \in [Ids -> Ids] /\ predecessor[c] \in [Ids -> Ids]
       /\ successor \in [Chains -> [Ids -> Ids]] /\ predecessor \in [Chains -> [Ids -> Ids]]
  BY DEF ChainInv, ChainTypes
<1> HIDE DEF at
<1>17. /\ successor' \in [Chains -> [Ids -> Ids]] /\ predecessor' \in [Chains -> [Ids -> Ids]]
       /\ \A d \in Chains : d # c => successor'[d] = successor[d] /\ predecessor'[d] = predecessor[d]
       /\ \A k \in 1 .. m : successor'[c][at(k)] = at(k + 1)
       /\ \A k \in 2 .. m + 1 : predecessor'[c][at(k)] = at(k - 1)
       /\ \A id \in Ids : successor'[c][id] # NoId => \E k \in 1 .. m : id = at(k)
       /\ \A id \in Ids : predecessor'[c][id] # NoId => \E k \in 2 .. m + 1 : id = at(k)
  <2>1. CASE m = 0
    <3>1. successor' = successor /\ predecessor' = predecessor
      BY <1>6, <1>7, <2>1, EmptySeq DEF AppendBuffer
    <3>2. 1 .. m = {} /\ 2 .. m + 1 = {} /\ 1 .. m - 1 = {} /\ 2 .. m = {}
      BY <2>1
    <3> QED BY <1>15, <1>16, <3>1, <3>2
  <2>2. CASE m # 0
    <3>1. bufs[c] # << >> /\ m \in 1 .. m
      BY <1>7, <2>2, EmptySeq
    <3>2. PICK last \in Ids : last = IdAt(c, m)
      BY <1>7, <1>9, <3>1
    <3>3. /\ successor' = [successor EXCEPT ![c] = [successor[c] EXCEPT ![last] = new]]
          /\ predecessor' = [predecessor EXCEPT ![c] = [predecessor[c] EXCEPT ![new] = last]]
      BY <1>2, <1>5, <1>7, <3>1, <3>2 DEF AppendBuffer, IdAt
    <3>4. /\ successor'[c] = [successor[c] EXCEPT ![last] = new]
          /\ predecessor'[c] = [predecessor[c] EXCEPT ![new] = last]
      BY <1>16, <3>3
    <3>5. /\ successor' \in [Chains -> [Ids -> Ids]] /\ predecessor' \in [Chains -> [Ids -> Ids]]
          /\ \A d \in Chains : d # c => successor'[d] = successor[d] /\ predecessor'[d] = predecessor[d]
      BY <1>16, <3>3
    <3>6. /\ successor'[c][last] = new /\ \A id \in Ids : id # last => successor'[c][id] = successor[c][id]
          /\ predecessor'[c][new] = last /\ \A id \in Ids : id # new => predecessor'[c][id] = predecessor[c][id]
      BY <1>16, <3>4
    <3>7. last = at(m) /\ new = at(m + 1)
      BY <1>13, <3>1, <3>2
    <3>8. ASSUME NEW k \in 1 .. m PROVE successor'[c][at(k)] = at(k + 1)
      <4>1. CASE k = m
        BY <3>6, <3>7, <4>1
      <4>2. CASE k # m
        <5>1. k \in 1 .. m - 1 /\ k + 1 \in 1 .. m
          BY <4>2
        <5>2. at(k) = IdAt(c, k) /\ at(k + 1) = IdAt(c, k + 1) /\ IdAt(c, k) # last /\ IdAt(c, k) \in Ids
          BY <1>7, <1>9, <1>13, <1>14, <3>1, <3>2, <4>2, <5>1
        <5> QED BY <1>15, <3>6, <5>1, <5>2
      <4> QED BY <4>1, <4>2
    <3>9. ASSUME NEW k \in 2 .. m + 1 PROVE predecessor'[c][at(k)] = at(k - 1)
      <4>1. CASE k = m + 1
        <5>1. k - 1 = m
          BY <4>1
        <5> QED BY <3>6, <3>7, <4>1, <5>1
      <4>2. CASE k # m + 1
        <5>1. k \in 2 .. m /\ k \in 1 .. m /\ k - 1 \in 1 .. m
          BY <4>2
        <5>2. at(k) = IdAt(c, k) /\ at(k - 1) = IdAt(c, k - 1) /\ IdAt(c, k) # new /\ IdAt(c, k) \in Ids
          BY <1>7, <1>9, <1>13, <5>1
        <5> QED BY <1>15, <3>6, <5>1, <5>2
      <4> QED BY <4>1, <4>2
    <3>10. ASSUME NEW id \in Ids, successor'[c][id] # NoId PROVE \E k \in 1 .. m : id = at(k)
      <4>1. CASE id = last
        BY <3>1, <3>7, <4>1
      <4>2. CASE id # last
        <5>1. PICK k \in 1 .. m - 1 : id = IdAt(c, k)
          BY <1>15, <3>6, <3>10, <4>2
        <5>2. k \in 1 .. m
          BY <5>1
        <5> QED BY <1>13, <5>1, <5>2
      <4> QED BY <4>1, <4>2
    <3>11. ASSUME NEW id \in Ids, predecessor'[c][id] # NoId PROVE \E k \in 2 .. m + 1 : id = at(k)
      <4>1. CASE id = new
        <5>1. m + 1 \in 2 .. m + 1
          BY <2>2
        <5> QED BY <3>7, <4>1, <5>1
      <4>2. CASE id # new
        <5>1. PICK k \in 2 .. m : id = IdAt(c, k)
          BY <1>15, <3>6, <3>11, <4>2
        <5>2. k \in 1 .. m /\ k \in 2 .. m + 1
          BY <5>1
        <5> QED BY <1>13, <5>1, <5>2
      <4> QED BY <4>1, <4>2
    <3> QED BY <3>5, <3>8, <3>9, <3>10, <3>11
  <2> QED BY <2>1, <2>2
<1>18. Linked(c)'
  <2> DEFINE len == Len(bufs'[c])
  <2>1. len = m + 1 /\ len - 1 = m
    BY <1>8
  <2> HIDE DEF len
  <2>2. /\ \A k \in 1 .. len - 1 : successor'[c][at(k)] = at(k + 1)
        /\ \A k \in 2 .. len : predecessor'[c][at(k)] = at(k - 1)
        /\ \A id \in Ids : successor'[c][id] # NoId => \E k \in 1 .. len - 1 : id = at(k)
        /\ \A id \in Ids : predecessor'[c][id] # NoId => \E k \in 2 .. len : id = at(k)
    BY <1>17, <2>1
  <2> QED BY <2>2 DEF Linked, IdAt, at, len, Ids, IndexSpan, NoId
<1>19. ASSUME NEW d \in Chains, d # c PROVE Linked(d)'
  <2>1. Linked(d)
    BY ChainsFinite DEF ChainInv, Links
  <2> QED BY <1>8, <1>9, <1>17, <1>19, <2>1, LinkedKept
<1>20. ChainTypes'
  BY <1>1, <1>6, <1>8, <1>17 DEF ChainInv, ChainTypes, Indices, Ids, IndexSpan
<1>21. Links'
  BY <1>18, <1>19, ChainsFinite DEF Links
<1> QED BY <1>3, <1>11, <1>20, <1>21 DEF ChainInv

\* append(), reserve(), allocate_*() and ensure_capacity().
LEMMA ReserveKeeps ==
  ASSUME PoolInv, ChainInv, NEW c \in Chains, NEW n \in Sizes, Reserve(c, n) \/ EnsureCapacity(c, n)
  PROVE  PoolInv' /\ ChainInv'
<1>1. n \in Nat /\ 0 \in Nat
  BY SizesFit, PoolSizes
<1>2. CASE Reserve(c, n) /\ TailFits(c, n)
  <2>1. bufs[c] # << >> /\ bufs[c] \in Seq(Indices)
    BY <1>2 DEF TailFits, ChainInv, ChainTypes
  <2>2. Len(bufs[c]) \in 1 .. Len(bufs[c])
    BY <2>1, EmptySeq
  <2>3. PICK i \in Indices : i = bufs[c][Len(bufs[c])] /\ slots[i].live
    BY <2>2, HeldFacts
  <2>4. /\ slots' = [slots EXCEPT ![i] = [slots[i] EXCEPT !.used = slots[i].used + n]]
        /\ UNCHANGED <<size, freeHead, freeTail, liveCount, freeCount, minted, ahead>>
        /\ UNCHANGED <<chainVars, loose>>
    BY <1>2, <2>3 DEF Reserve, chainVars
  <2> QED BY <1>1, <2>3, <2>4, UseKeeps
<1>3. CASE Reserve(c, n) /\ ~TailFits(c, n)
  BY <1>1, <1>3, AppendKeeps DEF Reserve
<1>4. CASE EnsureCapacity(c, n)
  BY <1>1, <1>4, AppendKeeps DEF EnsureCapacity
<1> QED BY <1>2, <1>3, <1>4

-----------------------------------------------------------------------------
(* The specification.                                                      *)

LEMMA InitKeeps ==
  ASSUME Init
  PROVE  PoolInv /\ ChainInv
<1>1. FreshSlot \in Slot /\ NoLinks \in [Ids -> Ids] /\ \A id \in Ids : NoLinks[id] = NoId
  BY PoolSizes DEF FreshSlot, Slot, NoLinks, Ids, NoId, NO_INDEX, IndexSpan
<1>2. size = 0 /\ 1 .. size = {} /\ Dead = {}
  BY DEF Init, Dead
<1>3. \A i \in Indices : slots[i] = FreshSlot /\ minted[i] = << >>
  BY DEF Init
<1>4. PoolTypes
  <2>1. << >> \in Seq(Ids)
    OBVIOUS
  <2>2. slots \in [Indices -> Slot] /\ minted \in [Indices -> Seq(Ids)] /\ ahead \in [Indices -> SUBSET Indices]
    BY <1>1, <2>1 DEF Init
  <2> QED BY <2>2, PoolSizes DEF Init, PoolTypes, NO_INDEX
<1>5. Untouched
  BY <1>3 DEF Untouched, FreshSlot
<1>6. FreeOrder /\ Counts
  BY <1>2, FS_EmptySet DEF Init, FreeOrder, Counts
<1>7. Minting
  <2>1. 0 % Generations = 0
    BY PoolSizes, DivModUnique
  <2>2. ASSUME NEW i \in Indices
        PROVE  Len(minted[i]) = 0 /\ ~slots[i].live /\ slots[i].generation = 0
    BY <1>3 DEF FreshSlot
  <2> QED BY <2>1, <2>2 DEF Minting, Occupants
<1>8. ChainTypes
  BY <1>1 DEF Init, ChainTypes
<1>9. \A c \in Chains : bufs[c] = << >> /\ Len(bufs[c]) = 0 /\ successor[c] = NoLinks /\ predecessor[c] = NoLinks
  BY DEF Init
<1>10. Holders
  BY <1>3, <1>9 DEF Init, Holders, FreshSlot
<1>11. Links
  <2>1. ASSUME NEW c \in Chains PROVE Linked(c)
    BY <1>1, <1>9 DEF Linked
  <2> QED BY <2>1, ChainsFinite DEF Init, Links
<1> QED BY <1>4, <1>5, <1>6, <1>7, <1>8, <1>10, <1>11 DEF PoolInv, ChainInv

LEMMA StepKeeps ==
  ASSUME PoolInv, ChainInv, [Next]_vars
  PROVE  PoolInv' /\ ChainInv'
<1>1. CASE Alloc
  BY <1>1, AllocSingle
<1>2. ASSUME NEW i \in Indices, Free(i) PROVE PoolInv' /\ ChainInv'
  BY <1>2, FreeSingle
<1>3. ASSUME NEW i \in Indices, NEW k \in 1 .. MaxOccupants, FreeAgain(i, k) PROVE PoolInv' /\ ChainInv'
  BY <1>3, FreeAgainKeeps
<1>4. ASSUME NEW c \in Chains, NEW n \in Sizes, Reserve(c, n) \/ EnsureCapacity(c, n) PROVE PoolInv' /\ ChainInv'
  BY <1>4, ReserveKeeps
<1>5. ASSUME NEW c \in Chains, Clear(c) PROVE PoolInv' /\ ChainInv'
  BY <1>5, ClearKeeps
<1>6. CASE ClearNext
  BY <1>6, ClearNextKeeps
<1>7. CASE UNCHANGED vars
  BY <1>7, ChainStutter
<1> QED BY <1>1, <1>2, <1>3, <1>4, <1>5, <1>6, <1>7 DEF Next

\* Pool and chains are consistent, whatever the number of slots, chains and generations
\* (alloc_buffer(), free_buffer() and the BufferChain operations).
THEOREM PoolInvariant == Spec => [](PoolInv /\ ChainInv)
<1>1. Init => PoolInv /\ ChainInv
  BY InitKeeps
<1>2. (PoolInv /\ ChainInv) /\ [Next]_vars => (PoolInv /\ ChainInv)'
  BY StepKeeps
<1> QED BY <1>1, <1>2, PTL DEF Spec

-----------------------------------------------------------------------------
(* What the invariant says of ids and of their order.                      *)

\* A freed id does not resolve before its slot has had a generation's worth of further
\* occupants (find(), free_buffer()).
THEOREM FreedIdsDangle == Spec => []StaleIdsDangle
<1>1. ASSUME PoolInv PROVE StaleIdsDangle
  <2> SUFFICES ASSUME NEW i \in Indices, NEW k \in DOMAIN minted[i], Resolves(minted[i][k]),
                      ~(slots[i].live /\ k = Len(minted[i]))
               PROVE  Len(minted[i]) - k >= Generations
    BY DEF StaleIdsDangle
  <2>1. minted[i] \in Seq(Ids)
    BY <1>1 DEF PoolInv, PoolTypes
  <2>2. k \in 1 .. Len(minted[i]) /\ Len(minted[i]) \in Nat
    BY <2>1, LenProperties
  <2>3. ~(Len(minted[i]) - k < Generations)
    BY <1>1, <2>2, StaleDangles
  <2> QED BY <2>2, <2>3, PoolSizes
<1> QED BY <1>1, PoolInvariant, PTL

\* Free slots are handed out again in the order they were freed.
THEOREM SlotsRotate == Spec => []RoundRobin
<1>1. ASSUME PoolInv PROVE RoundRobin
  BY <1>1 DEF PoolInv, FreeOrder, RoundRobin
<1> QED BY <1>1, PoolInvariant, PTL

\* A buffer is held once, by one chain or by one holder of single buffers, and its id
\* resolves to it.
THEOREM HeldOnce == Spec => []OneHolder
<1>1. ASSUME PoolInv, ChainInv PROVE OneHolder
  <2>1. \A c \in Chains : bufs[c] \in Seq(Indices) /\ Len(bufs[c]) \in Nat /\ DOMAIN bufs[c] = 1 .. Len(bufs[c])
    BY <1>1, LenProperties DEF ChainInv, ChainTypes
  <2>2. \A c \in Chains : Held(c) = {bufs[c][k] : k \in 1 .. Len(bufs[c])}
    BY <2>1 DEF Held
  <2>3. \A i \in Indices : slots[i].live <=> i \in loose \cup UNION {Held(c) : c \in Chains}
    <3> SUFFICES ASSUME NEW i \in Indices
                 PROVE  slots[i].live <=> i \in loose \/ \E c \in Chains : i \in Held(c)
      OBVIOUS
    <3> QED BY <1>1, <2>2 DEF ChainInv, Holders
  <2>4. ASSUME NEW c \in Chains PROVE Cardinality(Held(c)) = Len(bufs[c]) /\ Held(c) \cap loose = {}
    <3> DEFINE n == Len(bufs[c])
               f == [k \in 1 .. n |-> bufs[c][k]]
    <3>1. n \in Nat
      BY <2>1
    <3>2. \A j, k \in 1 .. n : bufs[c][j] = bufs[c][k] => j = k
      BY <1>1 DEF ChainInv, Holders
    <3>3. f \in [1 .. n -> Held(c)] /\ \A k \in 1 .. n : f[k] = bufs[c][k]
      BY <2>2
    <3>4. \A i \in Held(c) : \E k \in 1 .. n : f[k] = i
      BY <2>2, <3>3
    <3>5. f \in Bijection(1 .. n, Held(c))
      BY <3>2, <3>3, <3>4 DEF Bijection, Injection, IsInjective, Surjection
    <3> HIDE DEF f, n
    <3>6. ExistsBijection(1 .. n, Held(c))
      BY <3>5 DEF ExistsBijection
    <3>7. Cardinality(Held(c)) = n
      BY <3>1, <3>6, FS_CountingElements
    <3>8. Held(c) \cap loose = {}
      BY <1>1, <2>2 DEF ChainInv, Holders
    <3> QED BY <3>7, <3>8 DEF n
  <2>5. ASSUME NEW c \in Chains, NEW d \in Chains, c # d PROVE Held(c) \cap Held(d) = {}
    BY <1>1, <2>2, <2>5 DEF ChainInv, Holders
  <2>6. \A i \in Indices : slots[i].live => Resolves(slots[i].id) /\ IndexOf(slots[i].id) = i
    BY <1>1, LiveResolves
  <2> QED BY <2>3, <2>4, <2>5, <2>6 DEF OneHolder
<1> QED BY <1>1, PoolInvariant, PTL

\* The scan over all chains for the neighbour of a buffer (data_successor(),
\* data_predecessor()) finds that of the buffer's own chain.
THEOREM ScanFindsOwnChain == Spec => []NeighboursInOwnChain
<1>1. ASSUME PoolInv, ChainInv PROVE NeighboursInOwnChain
  <2> SUFFICES ASSUME NEW c \in Chains \ {clearing}, NEW k \in DOMAIN bufs[c]
               PROVE  /\ Neighbours(successor, IdAt(c, k)) = IF k < Len(bufs[c]) THEN {IdAt(c, k + 1)} ELSE {}
                      /\ Neighbours(predecessor, IdAt(c, k)) = IF k > 1 THEN {IdAt(c, k - 1)} ELSE {}
    BY DEF NeighboursInOwnChain, IdAt
  <2>1. Len(bufs[c]) \in Nat /\ k \in 1 .. Len(bufs[c])
    BY <1>1, LenProperties DEF ChainInv, ChainTypes
  <2> DEFINE id == IdAt(c, k)
             n == Len(bufs[c])
  <2>2. id \in Ids
    BY <1>1, <2>1, HeldFacts
  <2>3. ASSUME NEW d \in Chains, NEW j \in 1 .. Len(bufs[d]), id = IdAt(d, j) PROVE d = c /\ j = k
    <3>1. bufs[c][k] = bufs[d][j]
      BY <1>1, <2>1, <2>3, HeldFacts
    <3> QED BY <1>1, <2>1, <3>1 DEF ChainInv, Holders
  <2>4. ASSUME NEW d \in Chains, d # c PROVE successor[d][id] = NoId /\ predecessor[d][id] = NoId
    <3>1. CASE d = clearing
      BY <1>1, <2>2, <3>1 DEF ChainInv, Links, Loosened
    <3>2. CASE d # clearing
      <4>1. Linked(d) /\ Len(bufs[d]) \in Nat
        BY <1>1, <3>2, LenProperties DEF ChainInv, Links, ChainTypes
      <4>2. \A j \in 1 .. Len(bufs[d]) : id # IdAt(d, j)
        BY <2>3, <2>4
      <4>3. 1 .. Len(bufs[d]) - 1 \subseteq 1 .. Len(bufs[d]) /\ 2 .. Len(bufs[d]) \subseteq 1 .. Len(bufs[d])
        BY <4>1
      <4> QED BY <2>2, <4>1, <4>2, <4>3 DEF Linked
    <3> QED BY <3>1, <3>2
  <2>5. Linked(c)
    BY <1>1 DEF ChainInv, Links
  <2>6. successor[c][id] = IF k < n THEN IdAt(c, k + 1) ELSE NoId
    <3>1. CASE k < n
      BY <2>1, <2>5, <3>1 DEF Linked
    <3>2. CASE ~(k < n)
      <4>1. \A j \in 1 .. n - 1 : j \in 1 .. n /\ j # k
        BY <2>1, <3>2
      <4>2. \A j \in 1 .. n - 1 : id # IdAt(c, j)
        BY <2>3, <4>1
      <4> QED BY <2>2, <2>5, <3>2, <4>2 DEF Linked
    <3> QED BY <3>1, <3>2
  <2>7. predecessor[c][id] = IF k > 1 THEN IdAt(c, k - 1) ELSE NoId
    <3>1. CASE k > 1
      <4>1. k \in 2 .. n
        BY <2>1, <3>1
      <4> QED BY <2>5, <3>1, <4>1 DEF Linked
    <3>2. CASE ~(k > 1)
      <4>1. \A j \in 2 .. n : j \in 1 .. n /\ j # k
        BY <2>1, <3>2
      <4>2. \A j \in 2 .. n : id # IdAt(c, j)
        BY <2>3, <4>1
      <4> QED BY <2>2, <2>5, <3>2, <4>2 DEF Linked
    <3> QED BY <3>1, <3>2
  <2>8. (k < n => IdAt(c, k + 1) # NoId) /\ (k > 1 => IdAt(c, k - 1) # NoId)
    <3>1. (k < n => k + 1 \in 1 .. n) /\ (k > 1 => k - 1 \in 1 .. n)
      BY <2>1
    <3> QED BY <1>1, <3>1, HeldFacts
  <2> HIDE DEF id, n
  <2>9. Neighbours(successor, id) = IF k < n THEN {IdAt(c, k + 1)} ELSE {}
    BY <2>4, <2>6, <2>8 DEF Neighbours
  <2>10. Neighbours(predecessor, id) = IF k > 1 THEN {IdAt(c, k - 1)} ELSE {}
    BY <2>4, <2>7, <2>8 DEF Neighbours
  <2> QED BY <2>9, <2>10 DEF id, n
<1> QED BY <1>1, PoolInvariant, PTL

-----------------------------------------------------------------------------
(* The free list, walked.                                                  *)

\* What is reached after k links is well defined, whatever the links are.
LEMMA WalkSteps == Walk[0] = freeHead /\ \A k \in Nat : Walk[k + 1] = slots[Walk[k]].next
<1> DEFINE Ok(n, g) == g[0] = freeHead /\ \A k \in 0 .. n - 1 : g[k + 1] = slots[g[k]].next
           S == {n \in Nat : \E g : Ok(n, g)}
<1>1. 0 \in S
  <2> DEFINE g == [k \in {0} |-> freeHead]
  <2>1. g[0] = freeHead
    OBVIOUS
  <2>2. Ok(0, g)
    BY <2>1
  <2> QED BY <2>2
<1>2. ASSUME NEW n \in Nat, n \in S PROVE n + 1 \in S
  <2>1. PICK g : Ok(n, g)
    BY <1>2
  <2> DEFINE h == [k \in 0 .. n + 1 |-> IF k = n + 1 THEN slots[g[n]].next ELSE g[k]]
  <2>2. h[n + 1] = slots[g[n]].next /\ \A k \in 0 .. n : h[k] = g[k]
    OBVIOUS
  <2> HIDE DEF h
  <2>3. h[0] = freeHead
    BY <2>1, <2>2
  <2>4. ASSUME NEW k \in 0 .. (n + 1) - 1 PROVE h[k + 1] = slots[h[k]].next
    <3>1. CASE k = n
      BY <2>2, <3>1
    <3>2. CASE k # n
      <4>1. k \in 0 .. n - 1 /\ k \in 0 .. n /\ k + 1 \in 0 .. n
        BY <3>2
      <4> QED BY <2>1, <2>2, <4>1
    <3> QED BY <3>1, <3>2
  <2>5. Ok(n + 1, h)
    BY <2>3, <2>4
  <2> HIDE DEF Ok
  <2> QED BY <2>5
<1> HIDE DEF S
<1>3. Nat \subseteq S
  BY <1>1, <1>2, SetInduction
<1> DEFINE pre(n) == CHOOSE g : Ok(n, g)
           f == [n \in Nat |-> pre(n)[n]]
<1>4. ASSUME NEW n \in Nat PROVE Ok(n, pre(n))
  <2>1. \E g : Ok(n, g)
    BY <1>3 DEF S
  <2> HIDE DEF Ok
  <2> QED BY <2>1
<1> HIDE DEF pre
<1>5. ASSUME NEW n \in Nat PROVE pre(n + 1)[n] = pre(n)[n]
  <2> DEFINE T == {k \in 0 .. n : pre(n + 1)[k] = pre(n)[k]}
  <2>1. Ok(n, pre(n)) /\ Ok(n + 1, pre(n + 1))
    BY <1>4
  <2>2. 0 \in T
    BY <2>1
  <2>3. ASSUME NEW k \in 0 .. n - 1, k \in T PROVE k + 1 \in T
    <3>1. k \in 0 .. (n + 1) - 1 /\ k + 1 \in 0 .. n
      OBVIOUS
    <3> QED BY <2>1, <2>3, <3>1
  <2> HIDE DEF T
  <2>4. 0 .. n \subseteq T
    BY <2>2, <2>3, SetInductionTo
  <2> QED BY <2>4 DEF T
<1>6. f[0] = freeHead
  BY <1>4
<1>7. ASSUME NEW n \in Nat PROVE f[n + 1] = slots[f[n]].next
  <2>1. pre(n + 1)[n + 1] = slots[pre(n + 1)[n]].next
    <3>1. n \in 0 .. (n + 1) - 1 /\ Ok(n + 1, pre(n + 1))
      BY <1>4
    <3> QED BY <3>1
  <2> QED BY <1>5, <2>1
<1> HIDE DEF Ok
<1>8. f = [k \in Nat |-> IF k = 0 THEN freeHead ELSE slots[f[k - 1]].next]
  <2>1. ASSUME NEW k \in Nat PROVE f[k] = IF k = 0 THEN freeHead ELSE slots[f[k - 1]].next
    <3>1. CASE k = 0
      BY <1>6, <3>1
    <3>2. CASE k # 0
      <4>1. k - 1 \in Nat /\ (k - 1) + 1 = k
        BY <3>2
      <4> HIDE DEF f
      <4> QED BY <1>7, <3>2, <4>1
    <3> QED BY <3>1, <3>2
  <2>2. f = [k \in Nat |-> f[k]]
    OBVIOUS
  <2> HIDE DEF f
  <2> QED BY <2>1, <2>2
<1> HIDE DEF f
<1>9. Walk = [k \in Nat |-> IF k = 0 THEN freeHead ELSE slots[Walk[k - 1]].next]
  BY <1>8 DEF Walk
<1>10. \A k \in Nat : Walk[k] = IF k = 0 THEN freeHead ELSE slots[Walk[k - 1]].next
  BY <1>9
<1>11. ASSUME NEW k \in Nat PROVE Walk[k + 1] = slots[Walk[k]].next
  <2>1. k + 1 \in Nat /\ k + 1 # 0 /\ (k + 1) - 1 = k
    OBVIOUS
  <2> QED BY <1>10, <2>1
<1> QED BY <1>10, <1>11

\* The list visits each free slot once and ends at _free_tail (alloc_buffer(),
\* free_buffer()).
THEOREM FreeListVisitsAll == Spec => []FreeListThreads
<1>1. ASSUME PoolInv PROVE FreeListThreads
  <2>1. IsFiniteSet(Dead) /\ freeCount = Cardinality(Dead) /\ freeCount \in Nat
    BY <1>1, DeadFinite, FS_CardinalityType DEF PoolInv, Counts
  <2>2. FreeOrder
    BY <1>1 DEF PoolInv
  <2>3. NO_INDEX \notin Dead
    BY <1>1, PoolSizes DEF PoolInv, PoolTypes, Dead, NO_INDEX
  <2>4. ASSUME NEW i \in Dead
        PROVE  /\ IsFiniteSet(ahead[i]) /\ Cardinality(ahead[i]) \in Nat
               /\ Cardinality(ahead[i]) <= freeCount - 1
               /\ Cardinality(ahead[i] \cup {i}) = Cardinality(ahead[i]) + 1
    <3>1. i \notin ahead[i] /\ ahead[i] \in SUBSET (Dead \ {i})
      BY <2>2 DEF FreeOrder
    <3>2. IsFiniteSet(Dead \ {i}) /\ Cardinality(Dead \ {i}) = freeCount - 1
      BY <2>1, FS_RemoveElement
    <3>3. IsFiniteSet(ahead[i]) /\ Cardinality(ahead[i]) <= freeCount - 1
      BY <3>1, <3>2, FS_Subset
    <3> QED BY <3>1, <3>3, FS_CardinalityType, FS_AddElement
  <2>5. ASSUME NEW i \in Dead, i # freeTail
        PROVE  slots[i].next \in Dead /\ Cardinality(ahead[slots[i].next]) = Cardinality(ahead[i]) + 1
    BY <2>2, <2>4, <2>5 DEF FreeOrder
  <2>6. CASE freeCount = 0
    <3>1. Dead = {} /\ freeHead = NO_INDEX /\ freeTail = NO_INDEX
      BY <2>1, <2>2, <2>6, FS_EmptySet DEF FreeOrder
    <3>2. 0 .. freeCount - 1 = {}
      BY <2>6
    <3> QED BY <1>1, <2>6, <3>1, <3>2, WalkSteps DEF PoolInv, Counts, Dead, FreeListThreads
  <2>7. CASE freeCount # 0
    <3>1. Dead # {}
      BY <2>1, <2>7, FS_EmptySet
    <3>2. /\ freeHead \in Dead /\ ahead[freeHead] = {}
          /\ freeTail \in Dead /\ ahead[freeTail] = Dead \ {freeTail} /\ slots[freeTail].next = NO_INDEX
      BY <2>2, <3>1 DEF FreeOrder
    <3>3. Cardinality(ahead[freeTail]) = freeCount - 1
      BY <2>1, <3>2, FS_RemoveElement
    <3> DEFINE last == freeCount - 1
               T == {k \in 0 .. last : Walk[k] \in Dead /\ Cardinality(ahead[Walk[k]]) = k}
    <3>4. last \in Nat /\ 0 \in 0 .. last /\ last + 1 = freeCount
      BY <2>1, <2>7
    <3>5. 0 \in T
      BY <3>2, <3>4, WalkSteps, FS_EmptySet
    <3>6. ASSUME NEW k \in 0 .. last - 1, k \in T PROVE k + 1 \in T
      <4>1. k # last /\ k \in Nat /\ k + 1 \in 0 .. last
        BY <3>4
      <4>2. Walk[k] \in Dead /\ Walk[k] # freeTail /\ Cardinality(ahead[Walk[k]]) = k
        BY <3>3, <3>6, <4>1
      <4>3. Walk[k + 1] = slots[Walk[k]].next
        BY <4>1, WalkSteps
      <4> QED BY <2>5, <4>1, <4>2, <4>3
    <3> HIDE DEF T, last
    <3>7. 0 .. last \subseteq T
      BY <3>4, <3>5, <3>6, SetInductionTo
    <3>8. \A k \in 0 .. last : Walk[k] \in Dead /\ Cardinality(ahead[Walk[k]]) = k
      BY <3>7 DEF T
    <3>9. Walk[last] = freeTail
      <4> SUFFICES ASSUME Walk[last] # freeTail PROVE FALSE
        OBVIOUS
      <4>1. Walk[last] \in Dead /\ Cardinality(ahead[Walk[last]]) = last
        BY <3>4, <3>8
      <4>2. slots[Walk[last]].next \in Dead /\ Cardinality(ahead[slots[Walk[last]].next]) = last + 1
        BY <2>5, <4>1
      <4>3. last + 1 <= freeCount - 1
        BY <2>4, <4>2
      <4> QED BY <3>4, <4>3
    <3>10. Walk[freeCount] = NO_INDEX
      BY <3>2, <3>4, <3>9, WalkSteps
    <3>11. \A k \in 0 .. last : Walk[k] \in 1 .. size /\ ~slots[Walk[k]].live
      BY <3>8 DEF Dead
    <3>12. \A j, k \in 0 .. last : j # k => Walk[j] # Walk[k]
      BY <3>8
    <3>13. freeCount = Cardinality({i \in 1 .. size : ~slots[i].live}) /\ liveCount = size - freeCount
      BY <1>1 DEF PoolInv, Counts, Dead
    <3> QED BY <2>7, <3>9, <3>10, <3>11, <3>12, <3>13 DEF FreeListThreads, last
  <2> QED BY <2>6, <2>7
<1> QED BY <1>1, PoolInvariant, PTL
=============================================================================
