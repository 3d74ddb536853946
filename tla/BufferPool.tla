----------------------------- MODULE BufferPool -----------------------------
(***************************************************************************)
(* The pool of trace buffers and the chains built from it                  *)
(* (core/core/ds/alloc/pagechain.{hpp,cpp}).                               *)
(*                                                                         *)
(* A 16 bit buffer id is a slot index and a generation, packed as          *)
(* (generation << INDEX_BITS) | index; the generation is bumped when the   *)
(* slot is freed, so that an id left over from an earlier occupant stops   *)
(* resolving.  Free slots are threaded through the slots themselves and    *)
(* are handed out again in the order they were freed.                      *)
(*                                                                         *)
(* The clients are chains (the code and data chains of the trace ring and  *)
(* the stencils) and the location buffers the ring allocates one by one.   *)
(* BufferChain::clear() frees its buffers in a loop, a step each here; the *)
(* code is single threaded, so nothing else runs in between.               *)
(***************************************************************************)
EXTENDS Integers, Sequences, FiniteSets

CONSTANTS
  Chains,        \* BufferChains of one BufferManager
  NoChain,       \* no chain is being cleared
  MaxLive,       \* MAX_LIVE_BUFFERS, which is also INDEX_MASK
  Generations,   \* GENERATION_MASK + 1
  Capacity,      \* Buffer::SIZE
  Sizes,         \* sizes of what is appended
  MaxOccupants   \* bound: occupants of one slot

ASSUME ChainsFinite == IsFiniteSet(Chains) /\ NoChain \notin Chains
ASSUME PoolSizes == MaxLive \in Nat \ {0} /\ Generations \in Nat \ {0} /\ Capacity \in Nat \ {0}
ASSUME SizesFit == Sizes \subseteq 1 .. Capacity
ASSUME OccupantsNat == MaxOccupants \in Nat

VARIABLES
  slots,      \* _slots from index 1: live, generation, next_free, and the storage's id and used bytes
  size,       \* the highest index handed out so far: _slots.size() - 1
  freeHead,   \* _free_head
  freeTail,   \* _free_tail
  liveCount,  \* _live_count
  freeCount,  \* _free_count
  bufs,       \* BufferChain::_bufs, as slot indices
  successor,  \* BufferChain::_successor, NoId where the map has no entry
  predecessor,\* BufferChain::_predecessor
  clearing,   \* the chain whose clear() is in its loop
  loose,      \* slots held outside of chains: Node::locations of the trace ring
  minted,     \* history: the ids handed out for each slot
  ahead       \* history: which of the slots free at the time a slot was freed are still free

poolVars == <<slots, size, freeHead, freeTail, liveCount, freeCount, minted, ahead>>
chainVars == <<bufs, successor, predecessor, clearing>>
vars == <<poolVars, chainVars, loose>>

Indices == 1 .. MaxLive
NO_INDEX == MaxLive + 1
NoId == 0

\* Buffer::make_id, index_of and generation_of.
IndexSpan == MaxLive + 1
MakeId(index, generation) == (generation % Generations) * IndexSpan + index
IndexOf(id) == id % IndexSpan
GenerationOf(id) == id \div IndexSpan
Ids == 0 .. Generations * IndexSpan - 1

NoLinks == [id \in Ids |-> NoId]
FreshSlot == [live |-> FALSE, generation |-> 0, next |-> NO_INDEX, used |-> 0, id |-> NoId]

Init ==
  /\ slots = [i \in Indices |-> FreshSlot]
  /\ size = 0
  /\ freeHead = NO_INDEX
  /\ freeTail = NO_INDEX
  /\ liveCount = 0
  /\ freeCount = 0
  /\ bufs = [c \in Chains |-> << >>]
  /\ successor = [c \in Chains |-> NoLinks]
  /\ predecessor = [c \in Chains |-> NoLinks]
  /\ clearing = NoChain
  /\ loose = {}
  /\ minted = [i \in Indices |-> << >>]
  /\ ahead = [i \in Indices |-> {}]

-----------------------------------------------------------------------------
(* BufferManager.                                                          *)

\* find(): the id names a live slot, and its current occupant.
Resolves(id) ==
  /\ IndexOf(id) \in 1 .. size
  /\ slots[IndexOf(id)].live
  /\ slots[IndexOf(id)].generation = GenerationOf(id)

\* alloc_buffer() throws when no slot is free and the index space is used up.
Exhausted == freeHead = NO_INDEX /\ size >= MaxLive

\* The slot alloc_buffer() hands out: the head of the free list, or a new one.
Taken == IF freeHead # NO_INDEX THEN freeHead ELSE size + 1

\* Mutant: taking the last free slot leaves the tail pointing at it.
Unthread_StaleTail(i) ==
  /\ freeHead' = slots[i].next
  /\ freeTail' = freeTail
  /\ freeCount' = freeCount - 1
  /\ size' = size

\* alloc_buffer() takes a slot off the free list.
Unthread(i) ==
  /\ freeHead' = slots[i].next
  /\ freeTail' = IF slots[i].next = NO_INDEX THEN NO_INDEX ELSE freeTail
  /\ freeCount' = freeCount - 1
  /\ size' = size

\* alloc_buffer(), and n bytes allocated from the buffer it returns.
AllocBuffer(n) ==
  LET i == Taken
      id == MakeId(i, slots[i].generation)
  IN /\ ~Exhausted
     /\ Len(minted[i]) < MaxOccupants
     /\ IF freeHead # NO_INDEX
        THEN Unthread(i)
        ELSE size' = i /\ UNCHANGED <<freeHead, freeTail, freeCount>>
     /\ slots' = [slots EXCEPT ![i] =
                    [live |-> TRUE, generation |-> slots[i].generation, next |-> NO_INDEX,
                     used |-> slots[i].used + n, id |-> id]]
     /\ liveCount' = liveCount + 1
     /\ minted' = [minted EXCEPT ![i] = Append(minted[i], id)]
     /\ ahead' = [j \in Indices |-> ahead[j] \ {i}]

\* Mutant: indices come back last in, first out.
Thread_Lifo(i, generation) ==
  /\ slots' = [slots EXCEPT ![i] =
                 [live |-> FALSE, generation |-> generation, next |-> freeHead,
                  used |-> 0, id |-> slots[i].id]]
  /\ freeHead' = i
  /\ freeTail' = IF freeTail = NO_INDEX THEN i ELSE freeTail

\* free_buffer() empties the slot's buffer and appends the slot to the free list.
Thread(i, generation) ==
  LET dead == [slots EXCEPT ![i] =
                 [live |-> FALSE, generation |-> generation, next |-> NO_INDEX,
                  used |-> 0, id |-> slots[i].id]]
  IN /\ slots' = IF freeTail = NO_INDEX THEN dead
                 ELSE [dead EXCEPT ![freeTail] = [dead[freeTail] EXCEPT !.next = i]]
     /\ freeHead' = IF freeTail = NO_INDEX THEN i ELSE freeHead
     /\ freeTail' = i

\* Mutant: the generation stays.
NextGeneration_Same(generation) == generation

NextGeneration(generation) == (generation + 1) % Generations

\* Mutant: free_buffer() does not compare generations.
Frees_AnyGeneration(id) == IndexOf(id) \in 1 .. size /\ slots[IndexOf(id)].live

\* free_buffer() ignores a double free and a free through a stale id.
Frees(id) == Resolves(id)

FreeBuffer(id) ==
  LET i == IndexOf(id)
  IN IF Frees(id)
     THEN /\ Thread(i, NextGeneration(slots[i].generation))
          /\ liveCount' = liveCount - 1
          /\ freeCount' = freeCount + 1
          /\ ahead' = [ahead EXCEPT ![i] = {j \in 1 .. size : ~slots[j].live}]
          /\ UNCHANGED <<size, minted>>
     ELSE UNCHANGED poolVars

-----------------------------------------------------------------------------
(* Clients that hold single buffers.                                       *)

Alloc ==
  /\ clearing = NoChain
  /\ AllocBuffer(0)
  /\ loose' = loose \cup {Taken}
  /\ UNCHANGED chainVars

Free(i) ==
  /\ clearing = NoChain
  /\ i \in loose
  /\ FreeBuffer(slots[i].id)
  /\ loose' = loose \ {i}
  /\ UNCHANGED chainVars

\* An id that was freed is freed again, at most a generation's worth of
\* occupants later.
FreeAgain(i, k) ==
  /\ clearing = NoChain
  /\ k \in DOMAIN minted[i]
  /\ Len(minted[i]) - k < Generations
  /\ ~(slots[i].live /\ k = Len(minted[i]))
  /\ FreeBuffer(minted[i][k])
  /\ UNCHANGED <<chainVars, loose>>

-----------------------------------------------------------------------------
(* BufferChain.                                                            *)

\* append_buffer(), and n bytes allocated from the new tail.
AppendBuffer(c, n) ==
  LET id == MakeId(Taken, slots[Taken].generation)
      last == slots[bufs[c][Len(bufs[c])]].id
  IN /\ AllocBuffer(n)
     /\ bufs' = [bufs EXCEPT ![c] = Append(bufs[c], Taken)]
     /\ IF bufs[c] = << >>
        THEN UNCHANGED <<successor, predecessor>>
        ELSE /\ successor' = [successor EXCEPT ![c] = [successor[c] EXCEPT ![last] = id]]
             /\ predecessor' = [predecessor EXCEPT ![c] = [predecessor[c] EXCEPT ![id] = last]]

\* Slab::can_fit() of the chain's tail.
TailFits(c, n) ==
  bufs[c] # << >> /\ slots[bufs[c][Len(bufs[c])]].used + n <= Capacity

\* append(), reserve() and allocate_*(): into the tail, or into a new buffer.
Reserve(c, n) ==
  LET i == bufs[c][Len(bufs[c])]
  IN /\ clearing = NoChain
     /\ IF TailFits(c, n)
        THEN /\ slots' = [slots EXCEPT ![i] = [slots[i] EXCEPT !.used = slots[i].used + n]]
             /\ UNCHANGED <<size, freeHead, freeTail, liveCount, freeCount, minted, ahead,
                            bufs, successor, predecessor>>
        ELSE AppendBuffer(c, n)
     /\ UNCHANGED <<loose, clearing>>

\* ensure_capacity(): what follows is not split over two buffers.
EnsureCapacity(c, n) ==
  /\ clearing = NoChain
  /\ ~TailFits(c, n)
  /\ AppendBuffer(c, 0)
  /\ UNCHANGED <<loose, clearing>>

\* Mutant: clear() keeps the links of the buffers it gives back.
Unlinked_Kept(links, c) == links

Unlinked(links, c) == [links EXCEPT ![c] = NoLinks]

Clear(c) ==
  /\ clearing = NoChain
  /\ bufs[c] # << >>
  /\ clearing' = c
  /\ successor' = Unlinked(successor, c)
  /\ predecessor' = Unlinked(predecessor, c)
  /\ UNCHANGED <<poolVars, bufs, loose>>

\* One turn of clear()'s loop; the chain is empty after the last one.
ClearNext ==
  /\ clearing # NoChain
  /\ FreeBuffer(slots[Head(bufs[clearing])].id)
  /\ bufs' = [bufs EXCEPT ![clearing] = Tail(bufs[clearing])]
  /\ clearing' = IF Len(bufs[clearing]) = 1 THEN NoChain ELSE clearing
  /\ UNCHANGED <<successor, predecessor, loose>>

Next ==
  \/ Alloc
  \/ \E i \in Indices : Free(i)
  \/ \E i \in Indices, k \in 1 .. MaxOccupants : FreeAgain(i, k)
  \/ \E c \in Chains, n \in Sizes : Reserve(c, n)
  \/ \E c \in Chains, n \in Sizes : EnsureCapacity(c, n)
  \/ \E c \in Chains : Clear(c)
  \/ ClearNext

Spec == Init /\ [][Next]_vars

-----------------------------------------------------------------------------
(* Properties.                                                             *)

\* Walking next_free from _free_head.
Walk[k \in Nat] == IF k = 0 THEN freeHead ELSE slots[Walk[k - 1]].next

\* The free list visits every dead slot exactly once and ends at _free_tail,
\* and the counters agree with it: no slot is lost to the pool and none is
\* handed out twice (alloc_buffer(), free_buffer()).
FreeListThreads ==
  /\ \A k \in 0 .. freeCount - 1 : Walk[k] \in 1 .. size /\ ~slots[Walk[k]].live
  /\ \A j, k \in 0 .. freeCount - 1 : j # k => Walk[j] # Walk[k]
  /\ Walk[freeCount] = NO_INDEX
  /\ freeTail = IF freeCount = 0 THEN NO_INDEX ELSE Walk[freeCount - 1]
  /\ freeCount = Cardinality({i \in 1 .. size : ~slots[i].live})
  /\ liveCount = size - freeCount

Held(c) == {bufs[c][k] : k \in DOMAIN bufs[c]}

\* Every live slot has exactly one holder, at one place of it, and the id its
\* buffer carries resolves: a free through an id nobody holds any more never
\* evicts the current occupant ("would otherwise evict the slot's current occupant").
OneHolder ==
  /\ \A i \in Indices : slots[i].live <=> i \in loose \cup UNION {Held(c) : c \in Chains}
  /\ \A c \in Chains : Cardinality(Held(c)) = Len(bufs[c]) /\ Held(c) \cap loose = {}
  /\ \A c, d \in Chains : c # d => Held(c) \cap Held(d) = {}
  /\ \A i \in Indices : slots[i].live => Resolves(slots[i].id) /\ IndexOf(slots[i].id) = i

\* An id stops resolving when its buffer is freed, and stays so until its slot
\* has had a generation's worth of further occupants ("gives a slot 16
\* occupants before an id can alias").
StaleIdsDangle ==
  \A i \in Indices : \A k \in DOMAIN minted[i] :
    Resolves(minted[i][k]) =>
      \/ slots[i].live /\ k = Len(minted[i])
      \/ Len(minted[i]) - k >= Generations

\* "an index is not reused until every other free index has been": of the
\* slots that were free when the next one to go was freed, none still is.
RoundRobin == freeHead # NO_INDEX => ahead[freeHead] = {}

\* Scanning all chains for the neighbour of a buffer (data_successor(),
\* data_predecessor() of the trace ring) finds the one in the buffer's own
\* chain, or nothing at its ends, though the ids were used before.
Neighbours(links, id) == {links[c][id] : c \in Chains} \ {NoId}

NeighboursInOwnChain ==
  \A c \in Chains \ {clearing} : \A k \in DOMAIN bufs[c] :
    LET id == slots[bufs[c][k]].id
    IN /\ Neighbours(successor, id) =
            IF k < Len(bufs[c]) THEN {slots[bufs[c][k + 1]].id} ELSE {}
       /\ Neighbours(predecessor, id) =
            IF k > 1 THEN {slots[bufs[c][k - 1]].id} ELSE {}
=============================================================================
