-------------------------- MODULE TraceBufferProofs --------------------------
(***************************************************************************)
(* The inductive invariant of the trace ring, and what follows from it for *)
(* every ring size, slot size and set of initiators: nothing is lost,      *)
(* iteration, entries that are final, watermarks, and that the ring        *)
(* implements the log of module TraceLog.  And that of the machine which   *)
(* replays what the ring holds: where the direction of a replay is         *)
(* suspended, and that the suspension ends.                                *)
(***************************************************************************)
EXTENDS TraceBuffer, TraceMachine, NatFacts, SequenceTheorems

-----------------------------------------------------------------------------
(* Slots and nodes.  node_at() takes an absolute slot modulo the ring size.*)

\* Every slot has a node.
LEMMA IndexInNodes ==
  ASSUME NEW s \in Nat
  PROVE  NodeIndex(s) \in Nodes
BY RingSizePositive DEF NodeIndex, Nodes

\* A slot shares its node with the slot one lap later.
LEMMA IndexLap ==
  ASSUME NEW s \in Nat
  PROVE  NodeIndex(s + RingSize) = NodeIndex(s)
<1> DEFINE p == s \div RingSize
           q == (s + RingSize) \div RingSize
           a == s % RingSize
           b == (s + RingSize) % RingSize
<1>1. s = p * RingSize + a /\ p \in Int /\ a \in 0 .. RingSize - 1
  BY RingSizePositive
<1>2. s + RingSize = q * RingSize + b /\ q \in Int /\ b \in 0 .. RingSize - 1
  BY RingSizePositive
<1>3. NodeIndex(s + RingSize) = b /\ NodeIndex(s) = a
  BY DEF NodeIndex
<1> HIDE DEF p, q, a, b
<1>4. b - a = (p + 1 - q) * RingSize
  BY <1>1, <1>2, RingSizePositive
<1>5. b - a \in Int /\ p + 1 - q \in Int /\ -RingSize < b - a /\ b - a < RingSize
  BY <1>1, <1>2, RingSizePositive
<1>6. b - a = 0
  BY <1>4, <1>5, SmallMultiple, RingSizePositive
<1> QED BY <1>6, <1>3, <1>1, <1>2

-----------------------------------------------------------------------------
(* Facts of one state.                                                     *)

RingOK ==
  /\ RingTypeOK
  /\ Window
  /\ NothingLost
  /\ Stamped
  /\ OpenCounts
  /\ Reservations
  /\ EntriesReplayable

\* The recordings open in a slot are finitely many.
LEMMA OpenInFinite ==
  ASSUME NEW s
  PROVE  IsFiniteSet(OpenIn(s))
BY FS_Subset, InitiatorsFinite DEF OpenIn

\* A slot in which a recording is open has a positive open count.
LEMMA OpenWhenHeld ==
  ASSUME RingOK, NEW i \in Initiators, recs[i].active
  PROVE  /\ NodeIndex(recs[i].slot) \in Nodes
         /\ ring[NodeIndex(recs[i].slot)].slot = recs[i].slot
         /\ ring[NodeIndex(recs[i].slot)].open > 0
<1> DEFINE s == recs[i].slot
<1>1. s \in Nat /\ NodeIndex(s) \in Nodes
  BY IndexInNodes, BoundsNat DEF RingOK, RingTypeOK
<1>2. ring[NodeIndex(s)].slot = s
  BY DEF RingOK, Reservations, Resident, NodeAt
<1>3. ring[NodeIndex(s)].open = Cardinality(OpenIn(s)) /\ ring[NodeIndex(s)].open \in Nat
  BY <1>1, <1>2 DEF RingOK, RingTypeOK, OpenCounts
<1>4. i \in OpenIn(s)
  BY DEF OpenIn
<1>5. Cardinality(OpenIn(s)) # 0
  BY <1>4, OpenInFinite, FS_EmptySet
<1> QED BY <1>1, <1>2, <1>3, <1>5

\* A full ring's head shares the node of its tail, so the head slot is resident
\* only while the ring has room: advancing keeps the window.
LEMMA RoomWhenResident ==
  ASSUME RingOK, Resident(head)
  PROVE  head + 1 <= tail + RingSize
<1>1. head \in Nat /\ tail \in Nat /\ head <= tail + RingSize /\ tail <= head
  BY BoundsNat DEF RingOK, RingTypeOK, Window
<1>2. SUFFICES ASSUME head = tail + RingSize PROVE FALSE
  BY <1>1, RingSizePositive
<1>3. NodeIndex(head) = NodeIndex(tail)
  BY <1>1, <1>2, IndexLap
<1>4. tail \in tail .. head - 1
  BY <1>1, <1>2, RingSizePositive
<1>5. Resident(tail)
  BY <1>4 DEF RingOK, NothingLost
<1> QED BY <1>1, <1>2, <1>3, <1>5, RingSizePositive DEF Resident, NodeAt

\* Two resident slots on one node are the same slot.
LEMMA ResidentUnique ==
  ASSUME NEW s, NEW t, Resident(s), Resident(t), NodeIndex(s) = NodeIndex(t)
  PROVE  s = t
BY DEF Resident, NodeAt

\* A node that holds entries has a location buffer.
LEMMA BufferWhenUsed ==
  ASSUME RingOK, NEW n \in Nodes, ring[n].count > 0
  PROVE  ring[n].locations # NoBuffer
<1>1. ring[n].locations[0] \in Programs \cup {Tombstone}
  BY DEF RingOK, RingTypeOK, EntriesReplayable
<1>2. NoBuffer[0] = NullLocation
  BY MaxEntriesPositive DEF NoBuffer, Entries
<1> QED BY <1>1, <1>2, LocationsDistinct

-----------------------------------------------------------------------------
(* begin(): a reservation keeps the ring consistent.                       *)

LEMMA ReserveKeeps ==
  ASSUME RingOK, NEW i \in Initiators, ~recs[i].active, ~Lapped, ~HeadFull,
         Reserve(i), head' = head, tail' = tail
  PROVE  RingOK'
<1> DEFINE k == NodeIndex(head)
           node == ring[k]
           c == node.count
           old == IF node.locations = NoBuffer THEN [e \in Entries |-> Stale] ELSE node.locations
           new == [slot |-> head, count |-> c + 1, open |-> node.open + 1,
                   locations |-> [old EXCEPT ![c] = Tombstone]]
           rec == [active |-> TRUE, slot |-> head, entry |-> c]
<1>1. k \in Nodes /\ head \in 0 .. MaxSlot /\ head \in Nat
  BY IndexInNodes, BoundsNat DEF RingOK, RingTypeOK
<1>2. ring' = [ring EXCEPT ![k] = new] /\ recs' = [recs EXCEPT ![i] = rec]
  BY DEF Reserve, CurrentNode, NodeAt
<1>3. node.slot = NO_SLOT \/ node.slot = head
  BY DEF Lapped, CurrentNode, NodeAt
<1>4. node.slot = NO_SLOT => node = EmptyNode
  BY <1>1 DEF RingOK, Stamped, NO_SLOT, Window, RingTypeOK
<1>5. c \in 0 .. MaxEntries - 1
  BY <1>1, <1>3, <1>4, MaxEntriesPositive DEF HeadFull, CurrentNode, NodeAt, RingOK, RingTypeOK, EmptyNode
<1>6. old \in [Entries -> Contents] /\ node.open \in Nat
  BY <1>1 DEF RingOK, RingTypeOK, Contents
<1>7. ring'[k] = new /\ \A n \in Nodes \ {k} : ring'[n] = ring[n]
  BY <1>1, <1>2 DEF RingOK, RingTypeOK
<1>8. recs'[i] = rec /\ \A j \in Initiators \ {i} : recs'[j] = recs[j]
  BY <1>2 DEF RingOK, RingTypeOK
<1>9. \A s \in tail .. head - 1 : NodeIndex(s) # k /\ NodeIndex(s) \in Nodes
  BY <1>1, <1>3, IndexInNodes, BoundsNat DEF RingOK, RingTypeOK, NothingLost, Resident, NodeAt, NO_SLOT
<1>10. \A j \in Initiators : recs[j].active =>
         /\ NodeIndex(recs[j].slot) \in Nodes
         /\ ring[NodeIndex(recs[j].slot)].slot = recs[j].slot
         /\ NodeIndex(recs[j].slot) = k <=> recs[j].slot = head
  <2> SUFFICES ASSUME NEW j \in Initiators, recs[j].active
               PROVE  /\ NodeIndex(recs[j].slot) \in Nodes
                      /\ ring[NodeIndex(recs[j].slot)].slot = recs[j].slot
                      /\ NodeIndex(recs[j].slot) = k <=> recs[j].slot = head
    OBVIOUS
  <2>1. NodeIndex(recs[j].slot) \in Nodes /\ ring[NodeIndex(recs[j].slot)].slot = recs[j].slot
    BY OpenWhenHeld
  <2>2. recs[j].slot # NO_SLOT
    BY DEF RingOK, RingTypeOK, NO_SLOT
  <2> QED BY <2>1, <2>2, <1>3
<1>11. RingTypeOK'
  <2>1. c \in Entries /\ Tombstone \in Contents
    BY <1>5 DEF Entries, Contents
  <2>2. new \in [slot : {NO_SLOT} \cup (0 .. MaxSlot), count : 0 .. MaxEntries,
                 open : Nat, locations : [Entries -> Contents]]
    <3>1. [old EXCEPT ![c] = Tombstone] \in [Entries -> Contents]
      BY <1>6, <2>1
    <3>2. c + 1 \in 0 .. MaxEntries /\ node.open + 1 \in Nat
      BY <1>5, <1>6, MaxEntriesPositive
    <3> QED BY <3>1, <3>2, <1>1
  <2>3. rec \in [active : BOOLEAN, slot : 0 .. MaxSlot, entry : Entries]
    BY <1>1, <2>1
  <2> QED BY <1>1, <1>2, <2>2, <2>3 DEF RingOK, RingTypeOK
<1>12. Window'
  BY DEF RingOK, Window
<1>13. NothingLost'
  BY <1>7, <1>9 DEF RingOK, NothingLost, Resident, NodeAt
<1>14. Stamped'
  <2>1. head \in tail .. head /\ c + 1 > 0
    BY <1>1, <1>5, BoundsNat DEF RingOK, RingTypeOK, Window
  <2> QED BY <1>7, <2>1 DEF RingOK, Stamped
<1>15. OpenCounts'
  <2>1. OpenIn(head)' = OpenIn(head) \cup {i} /\ i \notin OpenIn(head)
    BY <1>8 DEF OpenIn
  <2>2. node.open = Cardinality(OpenIn(head))
    <3>1. CASE node.slot = head
      BY <3>1, <1>1 DEF RingOK, OpenCounts
    <3>2. CASE node = EmptyNode
      <4>1. OpenIn(head) = {}
        BY <1>10, <3>2, <1>1 DEF OpenIn, EmptyNode, NO_SLOT
      <4> QED BY <3>2, <4>1, FS_EmptySet DEF EmptyNode
    <3> QED BY <3>1, <3>2, <1>3, <1>4
  <2>3. Cardinality(OpenIn(head) \cup {i}) = Cardinality(OpenIn(head)) + 1
    BY <2>1, OpenInFinite, FS_AddElement
  <2>4. \A n \in Nodes \ {k} : ring[n].slot # head /\ OpenIn(ring[n].slot)' = OpenIn(ring[n].slot)
    <3> SUFFICES ASSUME NEW n \in Nodes \ {k}
                 PROVE  ring[n].slot # head /\ OpenIn(ring[n].slot)' = OpenIn(ring[n].slot)
      OBVIOUS
    <3>1. ring[n].slot # head
      BY <1>1 DEF RingOK, Stamped, EmptyNode, NO_SLOT
    <3>2. ring'[n].slot = ring[n].slot
      BY <1>7
    <3> QED BY <3>1, <3>2, <1>8 DEF OpenIn
  <2>5. ASSUME NEW n \in Nodes PROVE ring'[n].open = Cardinality(OpenIn(ring[n].slot)')
    <3>1. CASE n = k
      BY <3>1, <1>7, <2>1, <2>2, <2>3
    <3>2. CASE n # k
      BY <3>2, <1>7, <2>4 DEF RingOK, OpenCounts
    <3> QED BY <3>1, <3>2
  <2> QED BY <2>5 DEF OpenCounts
<1>16. Reservations'
  <2> SUFFICES ASSUME NEW j \in Initiators, recs'[j].active
               PROVE  /\ ring'[NodeIndex(recs'[j].slot)].slot = recs'[j].slot
                      /\ recs'[j].entry < ring'[NodeIndex(recs'[j].slot)].count
                      /\ ring'[NodeIndex(recs'[j].slot)].locations[recs'[j].entry] = Tombstone
                      /\ \A h \in Initiators \ {j} : recs'[h].active =>
                           ~(recs'[j].slot = recs'[h].slot /\ recs'[j].entry = recs'[h].entry)
    BY DEF Reservations, Resident, NodeAt, Cursor
  <2>0. \A g, h \in Initiators : g # h /\ recs[g].active /\ recs[h].active =>
           ~(recs[g].slot = recs[h].slot /\ recs[g].entry = recs[h].entry)
    BY DEF RingOK, Reservations, Cursor
  \* The new entry lies past every entry of the slot that is already held.
  <2>1. \A h \in Initiators : recs[h].active /\ recs[h].slot = head => recs[h].entry < c
    BY DEF RingOK, Reservations, NodeAt
  <2>2. c \in Int /\ c \in Entries /\ \A h \in Initiators : recs[h].entry \in Int
    BY <1>5 DEF RingOK, RingTypeOK, Entries
  <2>3. new.locations[c] = Tombstone /\ \A e \in Entries \ {c} : new.locations[e] = old[e]
    BY <1>6, <2>2
  <2>4. c > 0 => old = node.locations
    BY <1>1, BufferWhenUsed
  <2>5. CASE j = i
    <3>1. recs'[j].slot = head /\ recs'[j].entry = c
      BY <2>5, <1>8
    <3>2. ring'[k].slot = head /\ ring'[k].count = c + 1 /\ ring'[k].locations[c] = Tombstone
      BY <1>7, <2>3
    <3>3. c < c + 1
      BY <2>2
    <3>4. \A h \in Initiators \ {j} : recs'[h].active =>
             ~(recs'[j].slot = recs'[h].slot /\ recs'[j].entry = recs'[h].entry)
      BY <3>1, <2>5, <1>8, <2>1, <2>2
    <3> QED BY <3>1, <3>2, <3>3, <3>4
  <2>6. CASE j # i /\ recs[j].slot = head
    <3>1. recs'[j] = recs[j] /\ recs[j].entry < c /\ recs[j].entry \in Entries
      BY <2>6, <1>8, <2>1 DEF RingOK, RingTypeOK
    <3>2. node.locations[recs[j].entry] = Tombstone
      BY <2>6, <3>1 DEF RingOK, Reservations, NodeAt
    <3>3. c > 0
      BY <3>1, <2>2 DEF Entries
    <3>4. new.locations[recs[j].entry] = Tombstone
      BY <3>1, <3>2, <3>3, <2>2, <2>3, <2>4
    <3>5. \A h \in Initiators \ {j} : recs'[h].active =>
             ~(recs'[j].slot = recs'[h].slot /\ recs'[j].entry = recs'[h].entry)
      BY <3>1, <1>8, <2>0, <2>1, <2>2, <2>6
    <3>6. ring'[k].slot = head /\ ring'[k].count = c + 1 /\ ring'[k].locations = new.locations
      BY <1>7
    <3>7. recs[j].entry < c + 1
      BY <3>1, <2>2
    <3>8. NodeIndex(recs'[j].slot) = k /\ recs'[j].slot = head /\ recs'[j].entry = recs[j].entry
      BY <3>1, <2>6
    <3>9. ring'[k].locations[recs[j].entry] = Tombstone
      BY <3>4, <3>6
    <3> HIDE DEF new, c, node, k
    <3> QED BY <3>5, <3>6, <3>7, <3>8, <3>9
  <2>7. CASE j # i /\ recs[j].slot # head
    <3>1. recs'[j] = recs[j] /\ NodeIndex(recs[j].slot) \in Nodes \ {k}
      BY <2>7, <1>8, <1>10
    <3>2. \A h \in Initiators \ {j} : recs'[h].active =>
             ~(recs'[j].slot = recs'[h].slot /\ recs'[j].entry = recs'[h].entry)
      BY <3>1, <1>8, <2>0, <2>7
    <3>3. /\ ring[NodeIndex(recs[j].slot)].slot = recs[j].slot
          /\ recs[j].entry < ring[NodeIndex(recs[j].slot)].count
          /\ ring[NodeIndex(recs[j].slot)].locations[recs[j].entry] = Tombstone
      BY <3>1 DEF RingOK, Reservations, Resident, NodeAt
    <3>4. ring'[NodeIndex(recs[j].slot)] = ring[NodeIndex(recs[j].slot)]
      BY <3>1, <1>7
    <3> QED BY <3>1, <3>2, <3>3, <3>4
  <2> QED BY <2>5, <2>6, <2>7
<1>17. EntriesReplayable'
  <2>1. ASSUME NEW e \in 0 .. c PROVE new.locations[e] \in Programs \cup {Tombstone}
    <3>1. CASE e = c
      BY <3>1, <1>5, <1>6 DEF Entries
    <3>2. CASE e # c
      <4>1. c > 0 /\ e \in 0 .. c - 1 /\ e \in Entries
        BY <3>2, <1>5, MaxEntriesPositive DEF Entries
      <4>2. old = node.locations
        BY <4>1, <1>1, BufferWhenUsed
      <4>3. node.locations[e] \in Programs \cup {Tombstone}
        BY <4>1, <1>1 DEF RingOK, EntriesReplayable
      <4> QED BY <3>2, <4>1, <4>2, <4>3, <1>6
    <3> QED BY <3>1, <3>2
  <2> SUFFICES ASSUME NEW n \in Nodes, NEW e \in 0 .. ring'[n].count - 1
               PROVE  ring'[n].locations[e] \in Programs \cup {Tombstone}
    BY DEF EntriesReplayable
  <2>2. CASE n = k
    <3>1. e \in 0 .. c
      BY <2>2, <1>5, <1>7, MaxEntriesPositive
    <3> QED BY <3>1, <2>1, <2>2, <1>7
  <2>3. CASE n # k
    BY <2>3, <1>7 DEF RingOK, EntriesReplayable
  <2> QED BY <2>2, <2>3
<1> QED BY <1>11, <1>12, <1>13, <1>14, <1>15, <1>16, <1>17 DEF RingOK

-----------------------------------------------------------------------------
(* advance_slot(), commit() and abort().                                   *)

\* The head stays, or leaves a slot that is resident and full.
HeadStep ==
  \/ head' = head
  \/ head < MaxSlot /\ head' = head + 1 /\ Resident(head) /\ CurrentNode.count >= MaxEntries

\* The window and the slots behind the head survive a step of the head.
LEMMA HeadStepKeeps ==
  ASSUME RingOK, HeadStep, tail' = tail
  PROVE  /\ head' \in 0 .. MaxSlot
         /\ head <= head'
         /\ Window'
         /\ \A s \in tail .. head' - 1 :
              /\ NodeIndex(s) \in Nodes
              /\ ring[NodeIndex(s)].slot = s
              /\ ring[NodeIndex(s)].count = MaxEntries
<1>1. head \in Nat /\ tail \in Nat /\ head \in 0 .. MaxSlot /\ MaxSlot \in Nat
  BY BoundsNat DEF RingOK, RingTypeOK
<1>2. \A s \in tail .. head - 1 :
        NodeIndex(s) \in Nodes /\ ring[NodeIndex(s)].slot = s /\ ring[NodeIndex(s)].count = MaxEntries
  BY <1>1, IndexInNodes DEF RingOK, NothingLost, Resident, NodeAt
<1>3. CASE head' = head
  BY <1>1, <1>2, <1>3 DEF RingOK, Window
<1>4. CASE head < MaxSlot /\ head' = head + 1 /\ Resident(head) /\ CurrentNode.count >= MaxEntries
  <2>1. Window'
    BY <1>1, <1>4, RoomWhenResident, RingSizePositive DEF RingOK, Window
  <2>2. NodeIndex(head) \in Nodes
    BY <1>1, IndexInNodes
  <2>3. ring[NodeIndex(head)].slot = head /\ ring[NodeIndex(head)].count = MaxEntries
    <3>1. ring[NodeIndex(head)].count \in 0 .. MaxEntries
      BY <2>2 DEF RingOK, RingTypeOK
    <3>2. ring[NodeIndex(head)].slot = head /\ ring[NodeIndex(head)].count >= MaxEntries
      BY <1>4 DEF Resident, CurrentNode, NodeAt
    <3> QED BY <3>1, <3>2, MaxEntriesPositive
  <2>4. \A s \in tail .. head' - 1 : s = head \/ s \in tail .. head - 1
    BY <1>1, <1>4
  <2> QED BY <1>1, <1>2, <1>4, <2>1, <2>2, <2>3, <2>4
<1> QED BY <1>3, <1>4 DEF HeadStep

LEMMA AdvanceKeeps ==
  ASSUME RingOK, HeadStep, UNCHANGED <<tail, ring, recs>>
  PROVE  RingOK'
<1>1. RingTypeOK'
  BY HeadStepKeeps DEF RingOK, RingTypeOK
<1>2. Window' /\ NothingLost'
  BY HeadStepKeeps DEF NothingLost, Resident, NodeAt
<1>3. Stamped'
  <2>1. \A s \in tail .. head : s \in tail .. head'
    BY HeadStepKeeps, BoundsNat DEF RingOK, RingTypeOK
  <2> QED BY <2>1 DEF RingOK, Stamped
<1>4. OpenCounts'
  BY DEF RingOK, OpenCounts, OpenIn
<1>5. Reservations'
  BY DEF RingOK, Reservations, Resident, NodeAt
<1>6. EntriesReplayable'
  BY DEF RingOK, EntriesReplayable
<1> QED BY <1>1, <1>2, <1>3, <1>4, <1>5, <1>6 DEF RingOK

\* Closing a recording, with a program or with the tombstone left in its entry.
LEMMA CloseKeeps ==
  ASSUME RingOK, NEW i \in Initiators, recs[i].active,
         NEW x \in Programs \cup {Tombstone},
         NEW s, s = recs[i].slot, NEW e, e = recs[i].entry, NEW k, k = NodeIndex(s),
         NEW new, new = [slot |-> ring[k].slot, count |-> ring[k].count, open |-> ring[k].open - 1,
                         locations |-> [ring[k].locations EXCEPT ![e] = x]],
         ring' = [ring EXCEPT ![k] = new],
         recs' = [recs EXCEPT ![i] = Closed],
         HeadStep, tail' = tail
  PROVE  RingOK'
<1>1. k \in Nodes /\ ring[k].slot = s /\ ring[k].open > 0
  BY OpenWhenHeld
<1>2. e \in Entries /\ e < ring[k].count
  BY DEF RingOK, RingTypeOK, Reservations, NodeAt
<1>3. ring[k] \in [slot : {NO_SLOT} \cup (0 .. MaxSlot), count : 0 .. MaxEntries,
                   open : Nat, locations : [Entries -> Contents]]
  BY <1>1 DEF RingOK, RingTypeOK
<1>5. ring'[k] = new /\ \A n \in Nodes \ {k} : ring'[n] = ring[n]
  BY <1>1 DEF RingOK, RingTypeOK
<1>6. new.slot = s /\ new.count = ring[k].count /\ new.open = ring[k].open - 1
  BY <1>1, <1>3
<1>7. new.locations[e] = x /\ \A d \in Entries \ {e} : new.locations[d] = ring[k].locations[d]
  BY <1>2, <1>3
<1>8. x \in Contents
  BY DEF Contents
<1>9. new \in [slot : {NO_SLOT} \cup (0 .. MaxSlot), count : 0 .. MaxEntries,
               open : Nat, locations : [Entries -> Contents]]
  <2>1. [ring[k].locations EXCEPT ![e] = x] \in [Entries -> Contents]
    BY <1>2, <1>3, <1>8
  <2>2. ring[k].open - 1 \in Nat
    BY <1>1, <1>3
  <2> QED BY <1>3, <2>1, <2>2
<1>10. recs'[i] = Closed /\ \A j \in Initiators \ {i} : recs'[j] = recs[j]
  BY DEF RingOK, RingTypeOK
<1>11. Closed \in [active : BOOLEAN, slot : 0 .. MaxSlot, entry : Entries] /\ ~Closed.active
  BY BoundsNat, MaxEntriesPositive DEF Closed, Entries
<1>12. \A n \in Nodes : ring'[n].slot = ring[n].slot /\ ring'[n].count = ring[n].count
  BY <1>1, <1>5, <1>6
<1>13. RingTypeOK'
  BY <1>1, <1>9, <1>11, HeadStepKeeps DEF RingOK, RingTypeOK
<1>14. Window' /\ NothingLost'
  BY <1>12, HeadStepKeeps DEF NothingLost, Resident, NodeAt
<1>15. Stamped'
  <2>1. \A t \in tail .. head : t \in tail .. head'
    BY HeadStepKeeps, BoundsNat DEF RingOK, RingTypeOK
  <2>2. ring[k] # EmptyNode
    BY <1>1 DEF EmptyNode
  <2>3. \A n \in Nodes : ring'[n] = EmptyNode \/
          (ring'[n].slot \in tail .. head' /\ NodeIndex(ring'[n].slot) = n /\ ring'[n].count > 0)
    BY <1>1, <1>5, <1>12, <2>1, <2>2 DEF RingOK, Stamped
  <2> QED BY <2>3 DEF Stamped
<1>16. OpenCounts'
  <2>1. OpenIn(s)' = OpenIn(s) \ {i} /\ i \in OpenIn(s)
    BY <1>10, <1>11 DEF OpenIn
  <2>2. Cardinality(OpenIn(s) \ {i}) = Cardinality(OpenIn(s)) - 1
    BY <2>1, OpenInFinite, FS_RemoveElement
  <2>3. \A t : t # s => OpenIn(t)' = OpenIn(t)
    BY <1>10, <1>11 DEF OpenIn
  <2>4. \A n \in Nodes \ {k} : ring[n].slot # s
    BY <1>1 DEF RingOK, Stamped, EmptyNode, RingTypeOK, NO_SLOT
  <2>5. ASSUME NEW n \in Nodes PROVE ring'[n].open = Cardinality(OpenIn(ring[n].slot)')
    <3>1. CASE n = k
      BY <3>1, <1>1, <1>5, <1>6, <2>1, <2>2 DEF RingOK, OpenCounts
    <3>2. CASE n # k
      BY <3>2, <1>5, <2>3, <2>4 DEF RingOK, OpenCounts
    <3> QED BY <3>1, <3>2
  <2> QED BY <2>5, <1>12 DEF OpenCounts
<1>17. Reservations'
  <2> SUFFICES ASSUME NEW j \in Initiators, recs'[j].active
               PROVE  /\ ring'[NodeIndex(recs'[j].slot)].slot = recs'[j].slot
                      /\ recs'[j].entry < ring'[NodeIndex(recs'[j].slot)].count
                      /\ ring'[NodeIndex(recs'[j].slot)].locations[recs'[j].entry] = Tombstone
                      /\ \A h \in Initiators \ {j} : recs'[h].active =>
                           ~(recs'[j].slot = recs'[h].slot /\ recs'[j].entry = recs'[h].entry)
    BY DEF Reservations, Resident, NodeAt, Cursor
  <2> DEFINE m == NodeIndex(recs[j].slot)
  <2>1. j # i /\ recs'[j] = recs[j] /\ recs[j].active
    BY <1>10, <1>11
  <2>2. \A h \in Initiators : recs'[h].active => recs[h].active /\ recs'[h] = recs[h]
    BY <1>10, <1>11
  <2>3. \A g, h \in Initiators : g # h /\ recs[g].active /\ recs[h].active =>
           ~(recs[g].slot = recs[h].slot /\ recs[g].entry = recs[h].entry)
    BY DEF RingOK, Reservations, Cursor
  <2>4. /\ ring[m].slot = recs[j].slot
        /\ recs[j].entry < ring[m].count
        /\ ring[m].locations[recs[j].entry] = Tombstone
    BY <2>1 DEF RingOK, Reservations, Resident, NodeAt
  <2>5. m \in Nodes /\ recs[j].entry \in Entries
    BY <2>1, OpenWhenHeld DEF RingOK, RingTypeOK
  \* On the same node the two recordings share a slot, so their entries differ.
  <2>6. ring'[m].locations[recs[j].entry] = Tombstone
    <3>1. CASE m = k
      <4>1. recs[j].entry # e
        BY <3>1, <1>1, <2>1, <2>3, <2>4
      <4> QED BY <3>1, <4>1, <1>5, <1>7, <2>4, <2>5
    <3>2. CASE m # k
      BY <3>2, <1>5, <2>4, <2>5
    <3> QED BY <3>1, <3>2
  <2> QED BY <1>12, <2>1, <2>2, <2>3, <2>4, <2>5, <2>6
<1>18. EntriesReplayable'
  <2> SUFFICES ASSUME NEW n \in Nodes, NEW d \in 0 .. ring'[n].count - 1
               PROVE  ring'[n].locations[d] \in Programs \cup {Tombstone}
    BY DEF EntriesReplayable
  <2>1. ring[n].locations[d] \in Programs \cup {Tombstone}
    BY <1>12 DEF RingOK, EntriesReplayable
  <2>2. d \in Entries
    BY <1>12, MaxEntriesPositive DEF RingOK, RingTypeOK, Entries
  <2> QED BY <1>5, <1>7, <2>1, <2>2
<1> QED BY <1>13, <1>14, <1>15, <1>16, <1>17, <1>18 DEF RingOK

-----------------------------------------------------------------------------
(* acknowledge() and clear().                                              *)

\* acknowledge() resets only slots before the one it stops at, and none that a
\* recording holds: the slots kept and the recordings are untouched.
LEMMA AcknowledgeKeeps ==
  ASSUME RingOK, NEW upTo \in Nat, Acknowledge(upTo)
  PROVE  RingOK' /\ (~Resident(head) => ~Resident(head)') /\ head' = head /\ recs' = recs
<1>1. PICK t \in tail .. head :
        /\ ReclaimsTo(t, upTo)
        /\ tail' = t
        /\ ring' = [n \in Nodes |-> IF \E s \in tail .. t - 1 : NodeIndex(s) = n
                                    THEN EmptyNode ELSE ring[n]]
  BY DEF Acknowledge
<1>2. head' = head /\ recs' = recs
  BY DEF Acknowledge
<1>3. head \in Nat /\ tail \in Nat /\ t \in Nat /\ tail <= t /\ t <= head /\ MaxSlot \in Nat /\ head <= MaxSlot
  BY BoundsNat DEF RingOK, RingTypeOK
<1>4. \A s \in tail .. t - 1 :
        /\ NodeIndex(s) \in Nodes
        /\ ring[NodeIndex(s)].slot = s
        /\ ring[NodeIndex(s)].open = 0
  <2>1. \A s \in tail .. t - 1 : s \in tail .. head - 1 /\ s \in Nat
    BY <1>3
  <2> QED BY <1>1, <2>1, IndexInNodes DEF ReclaimsTo, NodeAt, RingOK, NothingLost, Resident
\* A node is reset exactly when its slot lies before t.
<1>5. ASSUME NEW n \in Nodes, ring[n].slot \in t .. head
      PROVE  ring'[n] = ring[n]
  <2>1. ~\E s \in tail .. t - 1 : NodeIndex(s) = n
    BY <1>3, <1>4, <1>5
  <2> QED BY <2>1, <1>1
<1>6. ASSUME NEW n \in Nodes
      PROVE  ring'[n] = EmptyNode \/ (ring'[n] = ring[n] /\ ring[n].slot \in t .. head /\ NodeIndex(ring[n].slot) = n /\ ring[n].count > 0)
  <2>1. CASE ring[n] = EmptyNode
    BY <2>1, <1>1
  <2>2. CASE ring[n].slot \in tail .. head /\ NodeIndex(ring[n].slot) = n /\ ring[n].count > 0
    <3>1. CASE ring[n].slot \in tail .. t - 1
      BY <3>1, <2>2, <1>1
    <3>2. CASE ring[n].slot \in t .. head
      BY <3>2, <2>2, <1>5
    <3> QED BY <3>1, <3>2, <2>2, <1>3
  <2> QED BY <2>1, <2>2 DEF RingOK, Stamped
<1>7. ASSUME NEW s \in t .. head, Resident(s)
      PROVE  NodeIndex(s) \in Nodes /\ ring'[NodeIndex(s)] = ring[NodeIndex(s)]
  <2>1. NodeIndex(s) \in Nodes
    BY <1>3, IndexInNodes
  <2> QED BY <2>1, <1>5, <1>7 DEF Resident, NodeAt
<1>8. \A i \in Initiators : recs[i].active => recs[i].slot \in t .. head
  <2> SUFFICES ASSUME NEW i \in Initiators, recs[i].active PROVE recs[i].slot \in t .. head
    OBVIOUS
  <2>1. /\ NodeIndex(recs[i].slot) \in Nodes
        /\ ring[NodeIndex(recs[i].slot)].slot = recs[i].slot
        /\ ring[NodeIndex(recs[i].slot)].open > 0
    BY OpenWhenHeld
  <2>2. recs[i].slot \in tail .. head
    BY <2>1 DEF RingOK, Stamped, EmptyNode
  <2>3. recs[i].slot \notin tail .. t - 1
    BY <2>1, <1>4
  <2> QED BY <2>2, <2>3, <1>3
<1>9. RingTypeOK'
  <2>1. EmptyNode \in [slot : {NO_SLOT} \cup (0 .. MaxSlot), count : 0 .. MaxEntries,
                       open : Nat, locations : [Entries -> Contents]]
    BY MaxEntriesPositive DEF EmptyNode, NoBuffer, Contents
  <2>2. t \in 0 .. MaxSlot
    BY <1>3
  <2> QED BY <1>1, <1>2, <2>1, <2>2 DEF RingOK, RingTypeOK
<1>10. Window'
  BY <1>1, <1>2, <1>3, RingSizePositive DEF RingOK, Window
<1>11. NothingLost'
  <2> SUFFICES ASSUME NEW s \in t .. head - 1
               PROVE  ring'[NodeIndex(s)].slot = s /\ ring'[NodeIndex(s)].count = MaxEntries
    BY <1>1, <1>2 DEF NothingLost, Resident, NodeAt
  <2>1. s \in t .. head /\ s \in tail .. head - 1
    BY <1>3
  <2>2. Resident(s) /\ ring[NodeIndex(s)].count = MaxEntries
    BY <2>1 DEF RingOK, NothingLost, NodeAt
  <2>3. ring'[NodeIndex(s)] = ring[NodeIndex(s)]
    BY <2>1, <2>2, <1>7
  <2> QED BY <2>2, <2>3 DEF Resident, NodeAt
<1>12. Stamped'
  BY <1>1, <1>2, <1>6 DEF Stamped
<1>13. OpenCounts'
  <2> SUFFICES ASSUME NEW n \in Nodes PROVE ring'[n].open = Cardinality(OpenIn(ring'[n].slot))
    BY <1>2 DEF OpenCounts, OpenIn
  <2>1. CASE ring'[n] = EmptyNode
    <3>1. OpenIn(NO_SLOT) = {}
      BY DEF OpenIn, NO_SLOT, RingOK, RingTypeOK
    <3> QED BY <2>1, <3>1, FS_EmptySet DEF EmptyNode
  <2>2. CASE ring'[n] = ring[n]
    BY <2>2 DEF RingOK, OpenCounts
  <2> QED BY <2>1, <2>2, <1>6
<1>14. Reservations'
  <2> SUFFICES ASSUME NEW i \in Initiators, recs[i].active
               PROVE  /\ ring'[NodeIndex(recs[i].slot)].slot = recs[i].slot
                      /\ recs[i].entry < ring'[NodeIndex(recs[i].slot)].count
                      /\ ring'[NodeIndex(recs[i].slot)].locations[recs[i].entry] = Tombstone
                      /\ \A j \in Initiators \ {i} : recs[j].active =>
                           Cursor(recs[i].slot, recs[i].entry) # Cursor(recs[j].slot, recs[j].entry)
    BY <1>2 DEF Reservations, Resident, NodeAt, Cursor
  <2>1. recs[i].slot \in t .. head /\ Resident(recs[i].slot)
    BY <1>8 DEF RingOK, Reservations
  <2>2. ring'[NodeIndex(recs[i].slot)] = ring[NodeIndex(recs[i].slot)]
    BY <2>1, <1>7
  <2> QED BY <2>2 DEF RingOK, Reservations, Resident, NodeAt
<1>15. EntriesReplayable'
  <2> SUFFICES ASSUME NEW n \in Nodes, NEW e \in 0 .. ring'[n].count - 1
               PROVE  ring'[n].locations[e] \in Programs \cup {Tombstone}
    BY DEF EntriesReplayable
  <2>1. CASE ring'[n] = EmptyNode
    BY <2>1 DEF EmptyNode
  <2>2. CASE ring'[n] = ring[n]
    BY <2>2 DEF RingOK, EntriesReplayable
  <2> QED BY <2>1, <2>2, <1>6
<1>16. ~Resident(head) => ~Resident(head)'
  <2>1. NodeIndex(head) \in Nodes /\ head # NO_SLOT
    BY <1>3, IndexInNodes DEF NO_SLOT
  <2> QED BY <2>1, <1>2, <1>6 DEF Resident, NodeAt, EmptyNode
<1> QED BY <1>2, <1>9, <1>10, <1>11, <1>12, <1>13, <1>14, <1>15, <1>16 DEF RingOK

\* A ring with no entries and no recordings is consistent: after the
\* constructor, and after clear().
EmptyRing ==
  /\ head = 0
  /\ tail = 0
  /\ ring = [n \in Nodes |-> EmptyNode]
  /\ recs = [i \in Initiators |-> Closed]

LEMMA EmptyRingOK == EmptyRing => RingOK /\ ~Resident(head)
<1> SUFFICES ASSUME EmptyRing PROVE RingOK /\ ~Resident(head)
  OBVIOUS
<1> USE DEF EmptyRing
<1>1. EmptyNode \in [slot : {NO_SLOT} \cup (0 .. MaxSlot), count : 0 .. MaxEntries,
                     open : Nat, locations : [Entries -> Contents]]
  BY MaxEntriesPositive DEF EmptyNode, NoBuffer, Contents
<1>2. Closed \in [active : BOOLEAN, slot : 0 .. MaxSlot, entry : Entries] /\ ~Closed.active
  BY BoundsNat, MaxEntriesPositive DEF Closed, Entries
<1>3. RingTypeOK
  BY <1>1, <1>2, BoundsNat DEF RingTypeOK
<1>4. Window /\ NothingLost
  BY RingSizePositive DEF Window, NothingLost
<1>5. Stamped
  BY DEF Stamped
<1>6. OpenCounts
  <2>1. OpenIn(NO_SLOT) = {}
    BY <1>2 DEF OpenIn
  <2> QED BY <2>1, FS_EmptySet DEF OpenCounts, EmptyNode
<1>7. Reservations
  BY <1>2 DEF Reservations
<1>8. EntriesReplayable
  BY DEF EntriesReplayable, EmptyNode
<1>9. ~Resident(head)
  BY IndexInNodes DEF Resident, NodeAt, EmptyNode, NO_SLOT
<1> QED BY <1>3, <1>4, <1>5, <1>6, <1>7, <1>8, <1>9 DEF RingOK

-----------------------------------------------------------------------------
(* The invariant.                                                          *)

\* IInv is the consistency of the ring, the types of the call in progress and
\* what an advance in progress may rely on.
LEMMA IInvParts == IInv <=> RingOK /\ CallTypeOK /\ CallState
BY DEF IInv, RingOK, TypeOK

LEMMA InitIInv == Init => IInv
<1> SUFFICES ASSUME Init PROVE IInv
  OBVIOUS
<1>1. RingOK
  BY EmptyRingOK DEF Init, EmptyRing
<1>2. CallTypeOK /\ CallState
  BY DEF Init, CallTypeOK, CallState
<1> QED BY <1>1, <1>2, IInvParts

\* The last part of begin(), for whoever calls it: overflow and a failed
\* allocation change nothing, a reservation is ReserveKeeps.
LEMMA ClaimKeeps ==
  ASSUME RingOK, NEW i \in Initiators, ~recs[i].active, ~HeadFull, Claim(i),
         head' = head, tail' = tail
  PROVE  RingOK'
<1>1. CASE UNCHANGED <<ring, recs>>
  BY <1>1, AdvanceKeeps DEF HeadStep
<1>2. CASE ~Lapped /\ Reserve(i)
  BY <1>2, ReserveKeeps
<1> QED BY <1>1, <1>2 DEF Claim

LEMMA BeginKeeps ==
  ASSUME IInv, NEW i \in Initiators, Begin(i)
  PROVE  IInv'
<1>1. RingOK /\ CallTypeOK /\ CallState /\ ~recs[i].active /\ pc = "idle"
  BY IInvParts DEF Begin
<1>2. CASE HeadFull /\ AdvanceSlot(i) /\ UNCHANGED <<ring, recs>>
  <2>1. RingOK'
    BY <1>1, <1>2, AdvanceKeeps DEF HeadStep, HeadFull, AdvanceSlot, Begin, Resident, CurrentNode
  <2>2. CallTypeOK'
    BY <1>1, <1>2 DEF CallTypeOK, AdvanceSlot, RingOK, RingTypeOK, Begin
  <2>3. ~Resident(head)'
    <3>1. NodeIndex(head + 1) \in Nodes /\ head + 1 \in Nat
      BY <1>1, IndexInNodes, BoundsNat DEF RingOK, RingTypeOK
    <3>2. ring[NodeIndex(head + 1)].slot # head + 1
      BY <1>1, <3>1, BoundsNat DEF RingOK, Stamped, EmptyNode, NO_SLOT, RingTypeOK
    <3> QED BY <1>2, <3>2 DEF AdvanceSlot, Resident, NodeAt
  <2>4. CallState'
    BY <1>1, <1>2, <2>3 DEF CallState, AdvanceSlot
  <2> QED BY <2>1, <2>2, <2>4 DEF IInv, RingOK, TypeOK
<1>3. CASE ~HeadFull /\ Claim(i) /\ UNCHANGED <<head, callVars>>
  <2>1. RingOK'
    BY <1>1, <1>3, ClaimKeeps DEF Begin
  <2>2. CallTypeOK' /\ pc' = "idle" /\ resume' = resume
    BY <1>1, <1>3 DEF CallTypeOK, callVars, Begin
  <2>3. CallState'
    BY <1>1, <2>2 DEF CallState
  <2> QED BY <2>1, <2>2, <2>3 DEF IInv, RingOK, TypeOK
<1> QED BY <1>2, <1>3 DEF Begin

\* The slot after the head has not been used yet.
LEMMA NextSlotUnused ==
  ASSUME RingOK
  PROVE  NodeIndex(head + 1) \in Nodes /\ ring[NodeIndex(head + 1)].slot # head + 1
<1>1. NodeIndex(head + 1) \in Nodes /\ head \in Nat
  BY IndexInNodes, BoundsNat DEF RingOK, RingTypeOK
<1> QED BY <1>1, BoundsNat DEF RingOK, Stamped, EmptyNode, NO_SLOT, RingTypeOK

LEMMA CommitKeeps ==
  ASSUME IInv, NEW i \in Initiators, NEW program \in Programs, Commit(i, program)
  PROVE  IInv'
<1> DEFINE s == recs[i].slot
           e == recs[i].entry
           k == NodeIndex(s)
           new == [slot |-> ring[k].slot, count |-> ring[k].count, open |-> ring[k].open - 1,
                   locations |-> [ring[k].locations EXCEPT ![e] = program]]
<1>1. RingOK /\ CallTypeOK /\ CallState /\ recs[i].active /\ pc = "idle"
  BY IInvParts DEF Commit
<1>2. k \in Nodes /\ ring[k].slot = s
  BY <1>1, OpenWhenHeld
<1>5. ring' = [ring EXCEPT ![k] = new]
  BY DEF Commit, NodeAt
<1>6. recs' = [recs EXCEPT ![i] = Closed] /\ tail' = tail /\ watermarks' = watermarks
  BY DEF Commit
<1>7. \/ s = head /\ ring[k].count >= MaxEntries /\ AdvanceSlot(NoOne)
      \/ UNCHANGED <<head, callVars>>
  BY DEF Commit, NodeAt
<1>8. HeadStep
  BY <1>2, <1>7 DEF HeadStep, AdvanceSlot, Resident, CurrentNode, NodeAt
<1> HIDE DEF new
<1>9. RingOK'
  <2>1. program \in Programs \cup {Tombstone}
    OBVIOUS
  <2> QED BY <1>1, <1>5, <1>6, <1>8, <2>1, CloseKeeps DEF new
<1>10. CallTypeOK'
  BY <1>1, <1>6, <1>7 DEF CallTypeOK, AdvanceSlot, callVars, RingOK, RingTypeOK
<1>11. \A j \in Initiators : ~recs[j].active => ~recs'[j].active
  BY <1>1, <1>6 DEF RingOK, RingTypeOK, Closed
<1>12. CallState'
  <2>1. CASE AdvanceSlot(NoOne)
    <3>1. ring'[NodeIndex(head + 1)].slot = ring[NodeIndex(head + 1)].slot
      BY <1>1, <1>5, NextSlotUnused DEF RingOK, RingTypeOK, new
    <3>2. ~Resident(head)'
      BY <2>1, <3>1, <1>1, NextSlotUnused DEF AdvanceSlot, Resident, NodeAt
    <3> QED BY <2>1, <3>2 DEF AdvanceSlot, CallState
  <2>2. CASE UNCHANGED <<head, callVars>>
    BY <2>2, <1>1, <1>11 DEF CallState, callVars, CallTypeOK
  <2> QED BY <2>1, <2>2, <1>7
<1> QED BY <1>9, <1>10, <1>12 DEF IInv, RingOK, TypeOK

\* abort(), and a commit() that ran out of buffers.
LEMMA ReleaseKeeps ==
  ASSUME IInv, NEW i \in Initiators, pc = "idle", Release(i),
         UNCHANGED <<head, tail, watermarks, callVars>>
  PROVE  IInv'
<1> DEFINE s == recs[i].slot
           e == recs[i].entry
           k == NodeIndex(s)
           new == [slot |-> ring[k].slot, count |-> ring[k].count, open |-> ring[k].open - 1,
                   locations |-> [ring[k].locations EXCEPT ![e] = Tombstone]]
<1>1. RingOK /\ CallTypeOK /\ CallState /\ recs[i].active
  BY IInvParts DEF Release
<1>2. k \in Nodes /\ ring[k].slot = s
  BY <1>1, OpenWhenHeld
<1>3. ring[k] \in [slot : {NO_SLOT} \cup (0 .. MaxSlot), count : 0 .. MaxEntries,
                   open : Nat, locations : [Entries -> Contents]]
  BY <1>1, <1>2 DEF RingOK, RingTypeOK
<1>5. ring[k].locations[e] = Tombstone /\ e \in Entries
  BY <1>1 DEF RingOK, RingTypeOK, Reservations, NodeAt
<1>6. [ring[k].locations EXCEPT ![e] = Tombstone] = ring[k].locations
  BY <1>3, <1>5
<1>7. ring' = [ring EXCEPT ![k] = new]
  BY <1>6 DEF Release, NodeAt
<1>8. recs' = [recs EXCEPT ![i] = Closed]
  BY DEF Release
<1> HIDE DEF new
<1>9. RingOK'
  BY <1>1, <1>7, <1>8, CloseKeeps DEF new, HeadStep
<1>10. CallTypeOK'
  BY <1>1 DEF CallTypeOK, callVars
<1>11. CallState'
  BY <1>1 DEF CallState, callVars
<1> QED BY <1>9, <1>10, <1>11 DEF IInv, RingOK, TypeOK

\* A function with a sequence's domain is a sequence: the watermarks after a
\* reset of their fired bits.
LEMMA SameDomainSeq ==
  ASSUME NEW S, NEW s \in Seq(S), NEW f \in [DOMAIN s -> S]
  PROVE  f \in Seq(S)
<1>1. DOMAIN s = 1 .. Len(s) /\ Len(s) \in Nat
  BY LenProperties
<1> QED BY <1>1

LEMMA NextWatermarkKeeps ==
  ASSUME IInv, NextWatermark
  PROVE  IInv'
<1>1. RingOK /\ CallTypeOK /\ CallState
  BY IInvParts
<1>2. RingOK'
  BY <1>1, AdvanceKeeps DEF NextWatermark, HeadStep
<1>3. CallTypeOK'
  <2>1. next \in 1 .. Len(watermarks)
    BY <1>1 DEF NextWatermark, CallState, CallTypeOK
  <2>2. watermarks[next] \in Watermark
    BY <1>1, <2>1, ElementOfSeq DEF CallTypeOK
  <2>3. Fired(watermarks[next]) \in Watermark
    <3>1. (Occupancy < watermarks[next].threshold) \in BOOLEAN
      OBVIOUS
    <3> QED BY <2>2, <3>1 DEF Watermark, Fired
  <2>4. [watermarks EXCEPT ![next] = Fired(watermarks[next])] \in Seq(Watermark)
    BY <1>1, <2>1, <2>3, ExceptSeq DEF CallTypeOK
  <2>5. watermarks' \in Seq(Watermark) /\ next' \in Nat
    BY <1>1, <2>4 DEF NextWatermark, CallTypeOK
  <2> QED BY <1>1, <2>5 DEF NextWatermark, CallTypeOK
<1>4. CallState'
  BY <1>1 DEF NextWatermark, CallState, CallTypeOK, Resident, NodeAt
<1> QED BY <1>2, <1>3, <1>4 DEF IInv, RingOK, TypeOK

LEMMA AdvanceReturnsKeeps ==
  ASSUME IInv, AdvanceReturns
  PROVE  IInv'
<1>1. RingOK /\ CallTypeOK /\ CallState
  BY IInvParts
<1>2. RingOK'
  <2>1. CASE resume = NoOne
    BY <2>1, <1>1, AdvanceKeeps DEF AdvanceReturns, HeadStep
  <2>2. CASE resume # NoOne
    <3>1. resume \in Initiators /\ ~recs[resume].active /\ ~HeadFull
      BY <2>2, <1>1 DEF CallTypeOK, CallState, AdvanceReturns, HeadFull, CurrentNode, Resident
    <3> QED BY <2>2, <3>1, <1>1, ClaimKeeps DEF AdvanceReturns
  <2> QED BY <2>1, <2>2
<1>3. CallTypeOK' /\ CallState'
  BY <1>1 DEF AdvanceReturns, CallTypeOK, CallState
<1> QED BY <1>2, <1>3 DEF IInv, RingOK, TypeOK

LEMMA ClientKeeps ==
  ASSUME IInv
  PROVE  /\ \A t \in Thresholds : OnWatermark(t) => IInv'
         /\ \A upTo \in 0 .. MaxSlot : Acknowledge(upTo) => IInv'
         /\ Clear => IInv'
<1>1. RingOK /\ CallTypeOK /\ CallState
  BY IInvParts
<1>2. ASSUME NEW t \in Thresholds, OnWatermark(t) PROVE IInv'
  <2>1. RingOK'
    BY <1>1, <1>2, AdvanceKeeps DEF OnWatermark, HeadStep
  <2>2. CallTypeOK'
    BY <1>1, <1>2, ThresholdsNat DEF OnWatermark, CallTypeOK, callVars, Watermark
  <2>3. CallState'
    BY <1>1, <1>2 DEF OnWatermark, CallState, callVars
  <2> QED BY <2>1, <2>2, <2>3 DEF IInv, RingOK, TypeOK
<1>3. ASSUME NEW upTo \in 0 .. MaxSlot, Acknowledge(upTo) PROVE IInv'
  <2>1. RingOK' /\ (~Resident(head) => ~Resident(head)') /\ head' = head /\ recs' = recs
    BY <1>1, <1>3, AcknowledgeKeeps
  <2>2. CallTypeOK'
    <3>1. \A w \in DOMAIN watermarks : watermarks[w] \in Watermark
      BY <1>1, LenProperties DEF CallTypeOK
    <3>2. \A w \in DOMAIN watermarks : Rearm(watermarks[w]) \in Watermark
      BY <3>1 DEF Rearm, Watermark
    <3>3. watermarks' \in [DOMAIN watermarks -> Watermark]
      BY <1>3, <3>2 DEF Acknowledge
    <3>4. watermarks' \in Seq(Watermark)
      BY <1>1, <3>3, SameDomainSeq DEF CallTypeOK
    <3> QED BY <1>1, <1>3, <3>4 DEF Acknowledge, CallTypeOK, callVars
  <2>3. CallState'
    BY <1>1, <1>3, <2>1 DEF Acknowledge, CallState, callVars
  <2> QED BY <2>1, <2>2, <2>3 DEF IInv, RingOK, TypeOK
<1>4. ASSUME Clear PROVE IInv'
  <2>1. EmptyRing'
    BY <1>4 DEF Clear, EmptyRing
  <2>2. RingOK' /\ ~Resident(head)'
    BY <2>1, EmptyRingOK, PTL
  <2>3. CallTypeOK'
    <3>1. \A w \in DOMAIN watermarks : watermarks[w] \in Watermark
      BY <1>1, LenProperties DEF CallTypeOK
    <3>2. \A w \in DOMAIN watermarks : [watermarks[w] EXCEPT !.fired = FALSE, !.late = FALSE] \in Watermark
      BY <3>1 DEF Watermark
    <3>3. watermarks' \in [DOMAIN watermarks -> Watermark]
      BY <1>4, <3>2 DEF Clear
    <3>4. watermarks' \in Seq(Watermark)
      BY <1>1, <3>3, SameDomainSeq DEF CallTypeOK
    <3> QED BY <1>1, <1>4, <3>4 DEF Clear, CallTypeOK, callVars
  <2>4. CallState'
    BY <1>1, <1>4, <2>2 DEF Clear, CallState, callVars, Closed, CallTypeOK
  <2> QED BY <2>2, <2>3, <2>4 DEF IInv, RingOK, TypeOK
<1> QED BY <1>2, <1>3, <1>4

LEMMA StepIInv == IInv /\ [Next]_vars => IInv'
<1> SUFFICES ASSUME IInv, [Next]_vars PROVE IInv'
  OBVIOUS
<1>1. ASSUME NEW i \in Initiators, Begin(i) PROVE IInv'
  BY <1>1, BeginKeeps
<1>2. ASSUME NEW i \in Initiators, NEW p \in Programs, Commit(i, p) PROVE IInv'
  BY <1>2, CommitKeeps
<1>3. ASSUME NEW i \in Initiators, CommitThrows(i) PROVE IInv'
  BY <1>3, ReleaseKeeps DEF CommitThrows
<1>4. ASSUME NEW i \in Initiators, Abort(i) PROVE IInv'
  BY <1>4, ReleaseKeeps DEF Abort
<1>5. CASE NextWatermark
  BY <1>5, NextWatermarkKeeps
<1>6. CASE CallbackReturns
  <2>1. RingOK /\ CallTypeOK /\ CallState
    BY IInvParts
  <2>2. RingOK'
    BY <2>1, <1>6, AdvanceKeeps DEF CallbackReturns, HeadStep
  <2>3. CallTypeOK' /\ CallState'
    BY <2>1, <1>6 DEF CallbackReturns, CallTypeOK, CallState, Resident, NodeAt
  <2> QED BY <2>2, <2>3 DEF IInv, RingOK, TypeOK
<1>7. CASE AdvanceReturns
  BY <1>7, AdvanceReturnsKeeps
<1>8. CASE \/ \E t \in Thresholds : OnWatermark(t)
           \/ \E upTo \in 0 .. MaxSlot : Acknowledge(upTo)
           \/ Clear
  BY <1>8, ClientKeeps
<1>9. CASE UNCHANGED vars
  <2>1. RingOK /\ CallTypeOK /\ CallState
    BY IInvParts
  <2>2. RingOK'
    BY <2>1, <1>9, AdvanceKeeps DEF vars, HeadStep
  <2>3. CallTypeOK' /\ CallState'
    BY <2>1, <1>9 DEF vars, CallTypeOK, CallState, Resident, NodeAt
  <2> QED BY <2>2, <2>3 DEF IInv, RingOK, TypeOK
<1> QED BY <1>1, <1>2, <1>3, <1>4, <1>5, <1>6, <1>7, <1>8, <1>9 DEF Next

-----------------------------------------------------------------------------
(* Theorems.                                                               *)

\* The inductive invariant holds in every reachable state, whatever the number
\* of initiators, slots and entries.
THEOREM RingInvariant == Spec => []IInv
BY InitIInv, StepIInv, PTL DEF Spec

\* No slot is overwritten before it was acknowledged, and a slot that was left
\* is full: begin() refuses (RingOverflow) rather than lose trace.
THEOREM RingLosesNothing == Spec => []NothingLost
<1>1. IInv => NothingLost
  BY DEF IInv
<1> QED BY <1>1, RingInvariant, PTL

\* Every open recording keeps an entry of its own in a slot that acknowledge()
\* does not reclaim under it.
THEOREM RecordingsKeepTheirEntry == Spec => []Reservations
<1>1. IInv => Reservations
  BY DEF IInv
<1> QED BY <1>1, RingInvariant, PTL

\* Every entry handed out is a program or the tombstone: a replay over resident
\* slots never meets a null location or recycled bytes.
THEOREM RingReplayable == Spec => []EntriesReplayable
<1>1. IInv => EntriesReplayable
  BY DEF IInv
<1> QED BY <1>1, RingInvariant, PTL


-----------------------------------------------------------------------------
(* Entries of the window.                                                  *)

\* Slots before head are full, head itself may be.
LEMMA WindowFacts ==
  ASSUME RingOK
  PROVE  /\ head \in Nat /\ tail \in Nat /\ tail <= head /\ MaxEntries \in Nat \ {0}
         /\ CountAt(head) \in 0 .. MaxEntries
         /\ \A s \in tail .. head - 1 : Resident(s) /\ CountAt(s) = MaxEntries
<1>1. head \in Nat /\ tail \in Nat /\ tail <= head /\ MaxEntries \in Nat \ {0}
  BY BoundsNat, MaxEntriesPositive DEF RingOK, RingTypeOK, Window
<1>2. \A s \in tail .. head - 1 : Resident(s) /\ CountAt(s) = MaxEntries
  BY DEF RingOK, NothingLost, CountAt
<1>3. CountAt(head) \in 0 .. MaxEntries
  <2>1. NodeIndex(head) \in Nodes
    BY <1>1, IndexInNodes
  <2>2. ring[NodeIndex(head)].count \in 0 .. MaxEntries
    BY <2>1 DEF RingOK, RingTypeOK
  <2> QED BY <1>1, <2>2 DEF CountAt, NodeAt
<1> QED BY <1>1, <1>2, <1>3

\* Every slot of the window before its count.
LEMMA ReservedFacts ==
  ASSUME RingOK, NEW c \in ReservedEntries
  PROVE  \E s \in tail .. head : \E e \in 0 .. CountAt(s) - 1 :
           /\ c = Cursor(s, e) /\ c.slot = s /\ c.entry = e
           /\ CountAt(s) \in 0 .. MaxEntries /\ Resident(s)
           /\ s \in Nat /\ e \in 0 .. MaxEntries - 1
           /\ s < head => CountAt(s) = MaxEntries
<1>1. PICK s \in tail .. head : \E e \in 0 .. CountAt(s) - 1 : c = Cursor(s, e)
  BY DEF ReservedEntries
<1>2. PICK e \in 0 .. CountAt(s) - 1 : c = Cursor(s, e)
  BY <1>1
<1>3. c.slot = s /\ c.entry = e
  BY <1>2 DEF Cursor
<1>4. s \in Nat /\ (s = head \/ s \in tail .. head - 1)
  BY WindowFacts
<1>5. CountAt(s) \in 0 .. MaxEntries /\ (s < head => CountAt(s) = MaxEntries)
  BY <1>4, WindowFacts
<1>6. Resident(s)
  BY <1>2 DEF CountAt
<1>7. e \in 0 .. MaxEntries - 1
  BY <1>2, <1>5, WindowFacts
<1> QED BY <1>2, <1>3, <1>4, <1>5, <1>6, <1>7

LEMMA InReserved ==
  ASSUME NEW s \in tail .. head, NEW e \in 0 .. CountAt(s) - 1
  PROVE  Cursor(s, e) \in ReservedEntries
BY DEF ReservedEntries

\* Iterating visits the entries of the window one by one, in both directions
\* (Iterator::operator++ and operator--).
THEOREM IterationCoversTheWindow == Spec => []IteratorWalks
<1>1. ASSUME IInv PROVE IteratorWalks
  <2>1. RingOK
    BY <1>1, IInvParts
  <2>2. /\ head \in Nat /\ tail \in Nat /\ tail <= head /\ MaxEntries \in Nat \ {0}
        /\ CountAt(head) \in 0 .. MaxEntries
        /\ \A s \in tail .. head - 1 : CountAt(s) = MaxEntries
    BY <2>1, WindowFacts
  <2> SUFFICES ASSUME NEW c \in ReservedEntries
               PROVE  /\ \/ Successor(c) \in ReservedEntries
                         \/ Successor(c).slot = head /\ Successor(c).entry = CountAt(head)
                      /\ ~\E d \in ReservedEntries : Before(c, d) /\ Before(d, Successor(c))
                      /\ Predecessor(Successor(c)) = c
    BY DEF IteratorWalks
  <2>3. PICK s \in tail .. head : \E e \in 0 .. CountAt(s) - 1 :
           c = Cursor(s, e) /\ c.slot = s /\ c.entry = e
    BY <2>1, ReservedFacts
  <2>4. PICK e \in 0 .. CountAt(s) - 1 : c = Cursor(s, e) /\ c.slot = s /\ c.entry = e
    BY <2>3
  <2>5. CountAt(s) \in 0 .. MaxEntries /\ s \in Nat /\ e \in Nat /\ (s < head => CountAt(s) = MaxEntries)
    BY <2>1, <2>2, <2>4
  <2>6. ASSUME NEW d \in ReservedEntries
        PROVE  d.slot \in tail .. head /\ d.entry \in 0 .. CountAt(d.slot) - 1
               /\ CountAt(d.slot) \in 0 .. MaxEntries
    BY <2>1, ReservedFacts
  <2>7. CASE e + 1 >= CountAt(s) /\ s < head
    <3>1. e = MaxEntries - 1 /\ s + 1 \in tail .. head /\ s + 1 # 0 /\ (s + 1) - 1 = s
      BY <2>2, <2>3, <2>4, <2>5, <2>7
    <3>2. Successor(c) = Cursor(s + 1, 0)
      BY <2>4, <2>7 DEF Successor
    <3>3. Successor(c).slot = s + 1 /\ Successor(c).entry = 0
      BY <3>2 DEF Cursor
    <3>4. \/ Successor(c) \in ReservedEntries
          \/ Successor(c).slot = head /\ Successor(c).entry = CountAt(head)
      <4>1. CASE s + 1 = head /\ CountAt(head) = 0
        BY <3>3, <4>1
      <4>2. CASE ~(s + 1 = head /\ CountAt(head) = 0)
        <5>1. 0 \in 0 .. CountAt(s + 1) - 1
          BY <2>2, <3>1, <4>2
        <5> QED BY <3>1, <3>2, <5>1, InReserved
      <4> QED BY <4>1, <4>2
    <3>5. ASSUME NEW d \in ReservedEntries, Before(c, d), Before(d, Successor(c)) PROVE FALSE
      <4>1. d.slot \in Int /\ d.entry \in Int /\ d.entry >= 0 /\ d.entry <= MaxEntries - 1
        BY <2>2, <2>6
      <4>2. s < d.slot \/ (s = d.slot /\ e < d.entry)
        BY <2>4, <3>5 DEF Before
      <4>3. d.slot < s + 1 \/ (d.slot = s + 1 /\ d.entry < 0)
        BY <3>3, <3>5 DEF Before
      <4> QED BY <2>2, <2>5, <3>1, <4>1, <4>2, <4>3
    <3>6. Predecessor(Successor(c)) = c
      <4>1. CountAt((s + 1) - 1) = MaxEntries /\ CountAt((s + 1) - 1) # 0
        BY <2>2, <2>5, <2>7, <3>1
      <4>2. Predecessor(Successor(c)) = Cursor((s + 1) - 1, CountAt((s + 1) - 1) - 1)
        BY <3>1, <3>3, <4>1 DEF Predecessor
      <4> QED BY <2>4, <3>1, <4>1, <4>2
    <3> QED BY <3>4, <3>5, <3>6
  <2>8. CASE ~(e + 1 >= CountAt(s) /\ s < head)
    <3>1. Successor(c) = Cursor(s, e + 1)
      BY <2>4, <2>8 DEF Successor
    <3>2. Successor(c).slot = s /\ Successor(c).entry = e + 1
      BY <3>1 DEF Cursor
    <3>3. \/ Successor(c) \in ReservedEntries
          \/ Successor(c).slot = head /\ Successor(c).entry = CountAt(head)
      <4>1. CASE e + 1 < CountAt(s)
        <5>1. e + 1 \in 0 .. CountAt(s) - 1
          BY <2>5, <4>1
        <5> QED BY <3>1, <5>1, InReserved
      <4>2. CASE ~(e + 1 < CountAt(s))
        <5>1. s = head /\ e + 1 = CountAt(s)
          BY <2>2, <2>3, <2>4, <2>5, <2>8, <4>2
        <5> QED BY <3>2, <5>1
      <4> QED BY <4>1, <4>2
    <3>4. ASSUME NEW d \in ReservedEntries, Before(c, d), Before(d, Successor(c)) PROVE FALSE
      <4>1. d.slot \in Int /\ d.entry \in Int
        BY <2>2, <2>6
      <4>2. s < d.slot \/ (s = d.slot /\ e < d.entry)
        BY <2>4, <3>4 DEF Before
      <4>3. d.slot < s \/ (d.slot = s /\ d.entry < e + 1)
        BY <3>2, <3>4 DEF Before
      <4> QED BY <2>5, <4>1, <4>2, <4>3
    <3>5. Predecessor(Successor(c)) = c
      <4>1. e + 1 > 0 /\ (e + 1) - 1 = e
        BY <2>5
      <4>2. Predecessor(Successor(c)) = Cursor(s, (e + 1) - 1)
        BY <3>2, <4>1 DEF Predecessor
      <4> QED BY <2>4, <4>1, <4>2
    <3> QED BY <3>3, <3>4, <3>5
  <2> QED BY <2>7, <2>8
<1> QED BY <1>1, RingInvariant, PTL

-----------------------------------------------------------------------------
(* What a step leaves of the entries.                                      *)

\* begin() writes the next entry of the head slot and no other.
LEMMA ReserveReads ==
  ASSUME RingOK, NEW i \in Initiators, ~Lapped, ~HeadFull, Reserve(i)
  PROVE  /\ ring'[NodeIndex(head)].slot = head
         /\ ring'[NodeIndex(head)].count = CountAt(head) + 1
         /\ CountAt(head) \in Entries /\ CountAt(head) = CurrentNode.count
         /\ ring'[NodeIndex(head)].locations[CountAt(head)] = Tombstone
         /\ \A s \in Nat : Resident(s) =>
              /\ ring'[NodeIndex(s)].slot = s
              /\ \A e \in Entries :
                   e < CountAt(s) => ring'[NodeIndex(s)].locations[e] = ring[NodeIndex(s)].locations[e]
<1> DEFINE k == NodeIndex(head)
           node == ring[k]
           old == IF node.locations = NoBuffer THEN [e \in Entries |-> Stale] ELSE node.locations
           new == [slot |-> head, count |-> node.count + 1, open |-> node.open + 1,
                   locations |-> [old EXCEPT ![node.count] = Tombstone]]
<1>1. head \in Nat /\ k \in Nodes /\ ring \in [Nodes -> [slot : {NO_SLOT} \cup (0 .. MaxSlot),
         count : 0 .. MaxEntries, open : Nat, locations : [Entries -> Contents]]]
  BY IndexInNodes, BoundsNat DEF RingOK, RingTypeOK
<1>2. ring' = [ring EXCEPT ![k] = new]
  BY DEF Reserve, CurrentNode, NodeAt
<1>3. node.slot = NO_SLOT \/ node.slot = head
  BY DEF Lapped, CurrentNode, NodeAt
<1>4. node.count \in 0 .. MaxEntries /\ (node.slot = head => node.count < MaxEntries)
  BY <1>1, MaxEntriesPositive DEF HeadFull, CurrentNode, NodeAt
<1>5. node.slot = NO_SLOT => node = EmptyNode /\ node.count = 0
  BY <1>1, BoundsNat DEF RingOK, RingTypeOK, Stamped, NO_SLOT, EmptyNode
<1>6. CountAt(head) = node.count /\ node.count \in Entries /\ CurrentNode = node
  BY <1>1, <1>3, <1>4, <1>5, MaxEntriesPositive DEF CountAt, Resident, NodeAt, Entries, NO_SLOT, CurrentNode
<1>7. old \in [Entries -> Contents]
  BY <1>1 DEF Contents
<1>8. ring'[k] = new /\ \A n \in Nodes : n # k => ring'[n] = ring[n]
  BY <1>1, <1>2
<1> HIDE DEF old
<1>9. new.locations[node.count] = Tombstone /\ \A e \in Entries : e # node.count => new.locations[e] = old[e]
  BY <1>6, <1>7
<1>10. new.slot = head /\ new.count = node.count + 1
  OBVIOUS
<1> HIDE DEF new, k
<1>11. ASSUME NEW s \in Nat, Resident(s)
       PROVE  /\ ring'[NodeIndex(s)].slot = s
              /\ \A e \in Entries :
                   e < CountAt(s) => ring'[NodeIndex(s)].locations[e] = ring[NodeIndex(s)].locations[e]
  <2>1. NodeIndex(s) \in Nodes /\ ring[NodeIndex(s)].slot = s /\ CountAt(s) = ring[NodeIndex(s)].count
    BY <1>11, IndexInNodes DEF Resident, NodeAt, CountAt
  <2>2. CASE NodeIndex(s) # k
    BY <1>8, <2>1, <2>2
  <2>3. CASE NodeIndex(s) = k
    <3>1. s = head
      BY <1>3, <2>1, <2>3 DEF NO_SLOT
    <3>2. ASSUME NEW e \in Entries, e < node.count PROVE old[e] = node.locations[e]
      <4>1. node.count > 0
        BY <1>4, <3>2 DEF Entries
      <4>2. node.locations # NoBuffer
        BY <1>1, <4>1, BufferWhenUsed
      <4> QED BY <4>2 DEF old
    <3>3. ASSUME NEW e \in Entries, e < node.count PROVE e # node.count
      BY <1>4, <3>3 DEF Entries
    <3> QED BY <1>6, <1>8, <1>9, <1>10, <2>1, <2>3, <3>1, <3>2, <3>3
  <2> QED BY <2>2, <2>3
<1> QED BY <1>6, <1>8, <1>9, <1>10, <1>11 DEF k

\* commit() writes the entry of its recording and no other; abort() writes none.
LEMMA CloseReads ==
  ASSUME RingOK, NEW i \in Initiators, recs[i].active,
         \A n \in Nodes : n # NodeIndex(recs[i].slot) => ring'[n] = ring[n]
  PROVE  \A s \in Nat : Resident(s) /\ s # recs[i].slot => ring'[NodeIndex(s)] = ring[NodeIndex(s)]
<1>1. ring[NodeIndex(recs[i].slot)].slot = recs[i].slot
  BY OpenWhenHeld
<1> QED BY <1>1, IndexInNodes DEF Resident, NodeAt

\* Every write goes to an entry that is not before committed_cursor().
LEMMA FinalEntriesKept ==
  ASSUME IInv, Next, NEW c \in ReservedEntries, BeforeCommitted(c)
  PROVE  Deref(c)' = Deref(c) \/ ~Resident(c.slot)'
<1>0. RingOK
  BY IInvParts
<1>1. PICK s \in tail .. head : \E e \in 0 .. CountAt(s) - 1 :
        c.slot = s /\ c.entry = e /\ Resident(s) /\ s \in Nat /\ e \in 0 .. MaxEntries - 1
  BY <1>0, ReservedFacts
<1>2. PICK e \in 0 .. CountAt(s) - 1 :
        c.slot = s /\ c.entry = e /\ Resident(s) /\ s \in Nat /\ e \in 0 .. MaxEntries - 1
  BY <1>1
<1> DEFINE k == NodeIndex(s)
<1>3. /\ k \in Nodes /\ ring[k].slot = s /\ e \in Entries /\ e < CountAt(s)
      /\ CountAt(s) = ring[k].count /\ ring[k].count \in 0 .. MaxEntries
  <2>1. k \in Nodes /\ ring[k].slot = s
    BY <1>2, IndexInNodes DEF Resident, NodeAt
  <2>2. CountAt(s) = ring[k].count /\ ring[k].count \in 0 .. MaxEntries
    BY <1>0, <1>2, <2>1 DEF CountAt, NodeAt, RingOK, RingTypeOK
  <2> QED BY <1>2, <2>1, <2>2, MaxEntriesPositive DEF Entries
<1>4. Deref(c) = ring[k].locations[e]
  BY <1>2 DEF Deref, NodeAt
<1>5. \/ ring'[k].slot = s /\ ring'[k].locations[e] = ring[k].locations[e]
      \/ ring'[k].slot # s
      => Deref(c)' = Deref(c) \/ ~Resident(c.slot)'
  BY <1>2, <1>4 DEF Deref, Resident, NodeAt, NodeIndex
<1> SUFFICES \/ ring'[k].slot = s /\ ring'[k].locations[e] = ring[k].locations[e]
             \/ ring'[k].slot # s
  BY <1>5
<1>6. CASE UNCHANGED ring
  BY <1>3, <1>6
<1>7. ASSUME NEW i \in Initiators, Claim(i), ~HeadFull
      PROVE  ring'[k].slot = s /\ ring'[k].locations[e] = ring[k].locations[e]
  <2>1. CASE ~Lapped /\ Reserve(i)
    BY <1>2, <1>3, <1>7, <2>1, <1>0, ReserveReads
  <2> QED BY <1>3, <1>7, <2>1 DEF Claim
<1>8. ASSUME NEW i \in Initiators, Begin(i)
      PROVE  ring'[k].slot = s /\ ring'[k].locations[e] = ring[k].locations[e]
  BY <1>3, <1>7, <1>8 DEF Begin
<1>9. ASSUME NEW i \in Initiators, NEW p \in Programs, Commit(i, p)
      PROVE  ring'[k].slot = s /\ ring'[k].locations[e] = ring[k].locations[e]
  <2> DEFINE r == recs[i].slot
             h == NodeIndex(r)
             L == [ring[h].locations EXCEPT ![recs[i].entry] = p]
             new == [slot |-> ring[h].slot, count |-> ring[h].count, open |-> ring[h].open - 1, locations |-> L]
  <2>1. recs[i].active /\ ring' = [ring EXCEPT ![h] = new]
    BY <1>9 DEF Commit, NodeAt
  <2>2. h \in Nodes /\ recs[i].entry \in Entries /\ ring[h].locations \in [Entries -> Contents]
    BY <2>1, <1>0, OpenWhenHeld DEF RingOK, RingTypeOK
  <2>3. \A x \in Entries : x # recs[i].entry => L[x] = ring[h].locations[x]
    BY <2>2
  <2>4. Before(c, Cursor(recs[i].slot, recs[i].entry))
    BY <2>1 DEF BeforeCommitted, OpenCursors
  <2>5. s < r \/ (s = r /\ e < recs[i].entry)
    BY <1>2, <2>4 DEF Before, Cursor
  <2>6. r \in Nat /\ recs[i].entry \in Nat
    BY <1>0, <2>2, BoundsNat DEF Entries, RingOK, RingTypeOK
  <2>7. ring'[h] = new /\ \A n \in Nodes : n # h => ring'[n] = ring[n]
    BY <1>0, <2>1, <2>2 DEF RingOK, RingTypeOK
  <2>8. ring'[h].slot = ring[h].slot /\ ring'[h].locations = L
    BY <2>7
  <2> HIDE DEF L, new
  <2>9. CASE s = r
    <3>1. e # recs[i].entry
      BY <1>2, <2>5, <2>6, <2>9
    <3> QED BY <1>3, <2>3, <2>8, <2>9, <3>1
  <2>10. CASE s # r
    BY <1>0, <1>2, <1>3, <2>1, <2>7, <2>10, CloseReads
  <2> QED BY <2>9, <2>10
<1>10. ASSUME NEW i \in Initiators, Release(i)
       PROVE  ring'[k].slot = s /\ ring'[k].locations[e] = ring[k].locations[e]
  <2> DEFINE r == recs[i].slot
             h == NodeIndex(r)
             new == [slot |-> ring[h].slot, count |-> ring[h].count, open |-> ring[h].open - 1,
                     locations |-> ring[h].locations]
  <2>1. recs[i].active /\ ring' = [ring EXCEPT ![h] = new]
    BY <1>10 DEF Release, NodeAt
  <2>2. ring'[h] = new /\ \A n \in Nodes : n # h => ring'[n] = ring[n]
    BY <1>0, <2>1, OpenWhenHeld DEF RingOK, RingTypeOK
  <2> QED BY <1>3, <2>2
<1>11. CASE NextWatermark \/ CallbackReturns \/ \E t \in Thresholds : OnWatermark(t)
  BY <1>6, <1>11 DEF NextWatermark, CallbackReturns, OnWatermark
<1>12. ASSUME NEW upTo, Acknowledge(upTo) PROVE ring'[k] = ring[k] \/ ring'[k] = EmptyNode
  BY <1>3, <1>12 DEF Acknowledge
<1>13. Clear => ring'[k] = EmptyNode
  BY <1>3 DEF Clear
<1>14. EmptyNode.slot # s
  BY <1>2 DEF EmptyNode, NO_SLOT
<1>15. AdvanceReturns => ring'[k].slot = s /\ ring'[k].locations[e] = ring[k].locations[e]
  <2>1. AdvanceReturns /\ resume # NoOne => resume \in Initiators /\ ~HeadFull
    BY IInvParts DEF CallTypeOK, CallState, AdvanceReturns, HeadFull, CurrentNode, Resident
  <2> QED BY <1>3, <1>7, <2>1 DEF AdvanceReturns
<1> QED BY <1>3, <1>8, <1>9, <1>10, <1>11, <1>12, <1>13, <1>14, <1>15 DEF Next, CommitThrows, Abort

\* What a reader sees before committed_cursor() is final, as long as the slot is kept.
THEOREM CommittedIsFinal == Spec => FinalEntriesNeverChange
<1>1. IInv /\ [Next]_vars =>
        [\A c \in ReservedEntries :
           BeforeCommitted(c) => Deref(c)' = Deref(c) \/ ~Resident(c.slot)']_vars
  BY FinalEntriesKept
<1> QED BY <1>1, RingInvariant, PTL DEF Spec, FinalEntriesNeverChange

-----------------------------------------------------------------------------
(* Watermarks.  advance_slot() reads the occupancy once, before its loop:  *)
(* what it compares the first watermark with is current, what it compares  *)
(* the others with may not be, because a callback may have acknowledged.   *)

\* The watermark registered first is armed below its threshold.
FirstArmed ==
  watermarks # << >> /\ Occupancy < watermarks[1].threshold => ~watermarks[1].fired

\* Every other one is, or was called late.
ArmedOrLate(o, w) == o < w.threshold => ~w.fired \/ w.late
AllArmedOrLate == \A w \in DOMAIN watermarks : ArmedOrLate(Occupancy, watermarks[w])

WatermarkInv ==
  /\ FirstArmed
  /\ pc = "watermarks" /\ next = 1 => occ = Occupancy
  /\ pc = "callback" => next > 1

LEMMA SameLength ==
  ASSUME NEW S, NEW s \in Seq(S), NEW t \in Seq(S), DOMAIN s = DOMAIN t
  PROVE  Len(s) = Len(t) /\ (s = << >> <=> t = << >>)
<1>1. DOMAIN s = 1 .. Len(s) /\ Len(s) \in Nat /\ DOMAIN t = 1 .. Len(t) /\ Len(t) \in Nat
  BY LenProperties
<1> DEFINE m == Len(s)
           n == Len(t)
<1>2. 1 .. m = 1 .. n /\ m \in Nat /\ n \in Nat
  BY <1>1
<1> HIDE DEF m, n
<1>3. ~(m < n)
  <2> SUFFICES ASSUME m < n PROVE FALSE
    OBVIOUS
  <2>1. n \in 1 .. n /\ n \notin 1 .. m
    BY <1>2
  <2> QED BY <1>2, <2>1
<1>4. ~(n < m)
  <2> SUFFICES ASSUME n < m PROVE FALSE
    OBVIOUS
  <2>1. m \in 1 .. m /\ m \notin 1 .. n
    BY <1>2
  <2> QED BY <1>2, <2>1
<1>5. Len(s) = Len(t)
  BY <1>2, <1>3, <1>4 DEF m, n
<1> QED BY <1>5, EmptySeq

LEMMA WatermarkStep ==
  ASSUME IInv, WatermarkInv, [Next]_vars
  PROVE  WatermarkInv'
<1>0. watermarks' \in Seq(Watermark)
  BY StepIInv DEF IInv, TypeOK, CallTypeOK, Watermark
<1>1. /\ watermarks \in Seq(Watermark) /\ head \in Nat /\ tail \in Nat /\ tail <= head
      /\ Len(watermarks) \in Nat
      /\ watermarks # << >> => 1 \in DOMAIN watermarks /\ watermarks[1] \in Watermark
  BY LenProperties, EmptySeq, ElementOfSeq DEF IInv, TypeOK, CallTypeOK, RingTypeOK, Window
<1>2. ASSUME NEW i, AdvanceSlot(i), UNCHANGED <<tail, watermarks>> PROVE WatermarkInv'
  <2>1. Occupancy' = Occupancy + 1 /\ occ' = Occupancy' /\ Occupancy \in Nat /\ pc' = "watermarks"
    BY <1>1, <1>2 DEF AdvanceSlot, Occupancy
  <2>2. watermarks # << >> => watermarks[1].threshold \in Nat
    BY <1>1 DEF Watermark
  <2> QED BY <1>2, <2>1, <2>2 DEF WatermarkInv, FirstArmed
<1>3. CASE UNCHANGED <<head, tail, watermarks, callVars>>
  BY <1>3 DEF WatermarkInv, FirstArmed, Occupancy, callVars
<1>4. ASSUME NEW i \in Initiators, Begin(i) PROVE WatermarkInv'
  BY <1>2, <1>3, <1>4 DEF Begin
<1>5. ASSUME NEW i \in Initiators, NEW p \in Programs, Commit(i, p) PROVE WatermarkInv'
  BY <1>2, <1>3, <1>5 DEF Commit
<1>6. ASSUME NEW i \in Initiators, CommitThrows(i) \/ Abort(i) PROVE WatermarkInv'
  BY <1>3, <1>6 DEF CommitThrows, Abort
<1>7. CASE NextWatermark
  <2>1. next \in Nat /\ next >= 1 /\ next <= Len(watermarks) /\ Occupancy' = Occupancy
        /\ next' > 1
    BY <1>7 DEF IInv, TypeOK, CallTypeOK, CallState, NextWatermark, Occupancy
  <2>2. CASE UNCHANGED watermarks
    BY <2>1, <2>2 DEF WatermarkInv, FirstArmed
  <2>3. CASE Fires(watermarks[next]) /\ watermarks' = [watermarks EXCEPT ![next] = Fired(watermarks[next])]
    <3>1. Len(watermarks') = Len(watermarks) /\ next \in 1 .. Len(watermarks) /\ watermarks # << >>
      BY <1>1, <2>1, <2>3, ExceptSeq DEF Fired, Watermark
    <3>2. CASE next = 1
      <4>1. watermarks[1] \in Watermark
        BY <1>1, <3>1, <3>2, ElementOfSeq
      <4>2. watermarks'[1].threshold = watermarks[1].threshold
        BY <1>1, <2>3, <3>1, <3>2, <4>1 DEF Fired, Watermark
      <4>3. occ >= watermarks[1].threshold /\ occ = Occupancy
        BY <1>7, <2>3, <3>2 DEF Fires, WatermarkInv, NextWatermark
      <4>4. Occupancy \in Int /\ watermarks[1].threshold \in Int
        BY <1>1, <4>1 DEF Occupancy, Watermark
      <4> QED BY <2>1, <3>1, <4>2, <4>3, <4>4 DEF WatermarkInv, FirstArmed
    <3>3. CASE next # 1
      <4>1. watermarks'[1] = watermarks[1]
        BY <1>1, <2>1, <2>3, <3>1, <3>3
      <4> QED BY <2>1, <3>1, <4>1 DEF WatermarkInv, FirstArmed
    <3> QED BY <3>2, <3>3
  <2> QED BY <1>7, <2>2, <2>3 DEF NextWatermark
<1>8. CASE CallbackReturns
  <2>1. next > 1 /\ next' = next /\ next \in Nat
    BY <1>8 DEF CallbackReturns, WatermarkInv, IInv, TypeOK, CallTypeOK
  <2> QED BY <1>8, <2>1 DEF CallbackReturns, WatermarkInv, FirstArmed, Occupancy
<1>9. CASE AdvanceReturns
  BY <1>9 DEF AdvanceReturns, WatermarkInv, FirstArmed, Occupancy
<1>10. ASSUME NEW t \in Thresholds, OnWatermark(t) PROVE WatermarkInv'
  <2> DEFINE w == [threshold |-> t, fired |-> FALSE, late |-> FALSE]
  <2>1. w \in Watermark /\ ~w.fired
    BY ThresholdsNat DEF Watermark
  <2> HIDE DEF w
  <2>2. watermarks' = Append(watermarks, w) /\ pc' = "idle"
        /\ Occupancy' = Occupancy
    BY <1>10 DEF OnWatermark, callVars, Occupancy, w
  <2>3. /\ Len(watermarks') = Len(watermarks) + 1 /\ watermarks'[Len(watermarks) + 1] = w
        /\ \A k \in 1 .. Len(watermarks) : watermarks'[k] = watermarks[k]
    BY <1>1, <2>1, <2>2, AppendProperties
  <2>5. CASE Len(watermarks) = 0
    BY <2>1, <2>2, <2>3, <2>5 DEF WatermarkInv, FirstArmed
  <2>6. CASE Len(watermarks) # 0
    <3>1. watermarks # << >> /\ watermarks'[1] = watermarks[1]
      BY <1>1, <2>3, <2>6, EmptySeq
    <3> QED BY <2>2, <3>1 DEF WatermarkInv, FirstArmed
  <2> QED BY <2>5, <2>6
<1>11. ASSUME NEW upTo, Acknowledge(upTo) PROVE WatermarkInv'
  <2>1. watermarks' = [w \in DOMAIN watermarks |-> Rearm(watermarks[w])] /\ pc \in {"idle", "callback"}
        /\ UNCHANGED callVars
    BY <1>11 DEF Acknowledge, ClientRuns
  <2>2. Len(watermarks') = Len(watermarks) /\ (watermarks' = << >> <=> watermarks = << >>)
    BY <1>0, <1>1, <2>1, SameLength
  <2>3. watermarks # << >> /\ Occupancy' < watermarks'[1].threshold => ~watermarks'[1].fired
    BY <1>1, <2>1 DEF Rearm, Watermark
  <2>4. ~(pc' = "watermarks") /\ (pc' = "callback" => next' > 1)
    BY <2>1 DEF callVars, WatermarkInv
  <2> QED BY <2>2, <2>3, <2>4 DEF WatermarkInv, FirstArmed
<1>12. CASE Clear
  <2>1. watermarks' = [w \in DOMAIN watermarks |-> [watermarks[w] EXCEPT !.fired = FALSE, !.late = FALSE]]
        /\ pc \in {"idle", "callback"} /\ UNCHANGED callVars
    BY <1>12 DEF Clear, ClientRuns
  <2>2. Len(watermarks') = Len(watermarks) /\ (watermarks' = << >> <=> watermarks = << >>)
    BY <1>0, <1>1, <2>1, SameLength
  <2>3. watermarks # << >> => ~watermarks'[1].fired
    BY <1>1, <2>1 DEF Watermark
  <2>4. ~(pc' = "watermarks") /\ (pc' = "callback" => next' > 1)
    BY <2>1 DEF callVars, WatermarkInv
  <2> QED BY <2>2, <2>3, <2>4 DEF WatermarkInv, FirstArmed
<1>13. CASE UNCHANGED vars
  BY <1>3, <1>13 DEF vars, callVars
<1> QED BY <1>4, <1>5, <1>6, <1>7, <1>8, <1>9, <1>10, <1>11, <1>12, <1>13 DEF Next

\* However many watermarks there are, the one registered first is armed again whenever the
\* occupancy is below it (acknowledge(), clear()), so that it misses no upward crossing.
THEOREM FirstWatermarkRearms == Spec => []FirstArmed
<1>1. Init => WatermarkInv
  BY BoundsNat, EmptySeq DEF Init, WatermarkInv, FirstArmed
<1>2. IInv /\ WatermarkInv /\ [Next]_vars => WatermarkInv'
  BY WatermarkStep
<1>3. WatermarkInv => FirstArmed
  BY DEF WatermarkInv
<1> QED BY <1>1, <1>2, <1>3, RingInvariant, PTL DEF Spec

\* Whatever the others are called for, a watermark may be below its threshold and
\* not armed only if advance_slot() called it late.
LEMMA LateStep ==
  ASSUME IInv, AllArmedOrLate, [Next]_vars
  PROVE  AllArmedOrLate'
<1>0. /\ watermarks \in Seq(Watermark) /\ head \in Nat /\ tail \in Nat /\ tail <= head
      /\ \A w \in DOMAIN watermarks : watermarks[w] \in Watermark
  BY ElementOfSeq, LenProperties DEF IInv, TypeOK, CallTypeOK, RingTypeOK, Window
<1>1. ASSUME watermarks' = watermarks, Occupancy' \in Int, Occupancy' >= Occupancy
      PROVE  AllArmedOrLate'
  <2> SUFFICES ASSUME NEW w \in DOMAIN watermarks PROVE ArmedOrLate(Occupancy', watermarks[w])
    BY <1>1 DEF AllArmedOrLate, ArmedOrLate
  <2>1. watermarks[w] \in Watermark /\ ArmedOrLate(Occupancy, watermarks[w])
    BY <1>0 DEF AllArmedOrLate
  <2> QED BY <1>0, <1>1, <2>1 DEF ArmedOrLate, Watermark, Occupancy
<1>2. ASSUME UNCHANGED <<head, tail, watermarks>> PROVE AllArmedOrLate'
  BY <1>0, <1>1, <1>2 DEF Occupancy
<1>3. ASSUME NEW i, AdvanceSlot(i), UNCHANGED <<tail, watermarks>> PROVE AllArmedOrLate'
  BY <1>0, <1>1, <1>3 DEF Occupancy, AdvanceSlot
<1>4. ASSUME NEW i \in Initiators, Begin(i) PROVE AllArmedOrLate'
  BY <1>2, <1>3, <1>4 DEF Begin
<1>5. ASSUME NEW i \in Initiators, NEW p \in Programs, Commit(i, p) PROVE AllArmedOrLate'
  BY <1>2, <1>3, <1>5 DEF Commit
<1>6. ASSUME NEW i \in Initiators, CommitThrows(i) \/ Abort(i) PROVE AllArmedOrLate'
  BY <1>2, <1>6 DEF CommitThrows, Abort
<1>7. CASE NextWatermark
  <2>1. /\ next \in DOMAIN watermarks /\ Occupancy' = Occupancy
        /\ UNCHANGED watermarks \/ watermarks' = [watermarks EXCEPT ![next] = Fired(watermarks[next])]
    BY <1>0, <1>7, LenProperties DEF NextWatermark, Occupancy, IInv, CallState, TypeOK, CallTypeOK
  <2>2. SUFFICES ASSUME watermarks' = [watermarks EXCEPT ![next] = Fired(watermarks[next])]
                 PROVE  AllArmedOrLate'
    BY <1>2, <1>7, <2>1 DEF NextWatermark
  <2>3. SUFFICES ASSUME NEW w \in DOMAIN watermarks PROVE ArmedOrLate(Occupancy', watermarks'[w])
    BY <1>0, <2>2 DEF AllArmedOrLate
  <2>4. ArmedOrLate(Occupancy, watermarks[w]) /\ watermarks[w] \in Watermark
    BY <1>0 DEF AllArmedOrLate
  <2>5. CASE w = next
    BY <1>0, <2>1, <2>2, <2>4, <2>5 DEF ArmedOrLate, Fired, Watermark
  <2>6. CASE w # next
    BY <1>0, <2>1, <2>2, <2>4, <2>6 DEF ArmedOrLate
  <2> QED BY <2>5, <2>6
<1>8. CASE CallbackReturns \/ AdvanceReturns
  BY <1>2, <1>8 DEF CallbackReturns, AdvanceReturns
<1>9. ASSUME NEW t \in Thresholds, OnWatermark(t) PROVE AllArmedOrLate'
  <2> DEFINE w0 == [threshold |-> t, fired |-> FALSE, late |-> FALSE]
  <2>1. w0 \in Watermark /\ ~w0.fired
    BY ThresholdsNat DEF Watermark
  <2>2. watermarks' = Append(watermarks, w0) /\ Occupancy' = Occupancy
    BY <1>9 DEF OnWatermark, Occupancy
  <2> HIDE DEF w0
  <2>3. /\ Len(watermarks') = Len(watermarks) + 1 /\ watermarks'[Len(watermarks) + 1] = w0
        /\ \A k \in 1 .. Len(watermarks) : watermarks'[k] = watermarks[k]
        /\ DOMAIN watermarks' = 1 .. Len(watermarks) + 1 /\ DOMAIN watermarks = 1 .. Len(watermarks)
        /\ Len(watermarks) \in Nat
    BY <1>0, <2>1, <2>2, AppendProperties, LenProperties
  <2>4. SUFFICES ASSUME NEW w \in DOMAIN watermarks' PROVE ArmedOrLate(Occupancy', watermarks'[w])
    BY DEF AllArmedOrLate
  <2>5. w \in DOMAIN watermarks \/ w = Len(watermarks) + 1
    BY <2>3
  <2>6. CASE w \in DOMAIN watermarks
    BY <2>2, <2>3, <2>6 DEF AllArmedOrLate, ArmedOrLate
  <2>7. CASE w = Len(watermarks) + 1
    BY <2>1, <2>3, <2>7 DEF ArmedOrLate
  <2> QED BY <2>5, <2>6, <2>7
<1>10. ASSUME NEW upTo, Acknowledge(upTo) PROVE AllArmedOrLate'
  <2>1. watermarks' = [w \in DOMAIN watermarks |-> Rearm(watermarks[w])]
    BY <1>10 DEF Acknowledge
  <2>2. ASSUME NEW w \in DOMAIN watermarks PROVE ArmedOrLate(Occupancy', watermarks'[w])
    BY <1>0, <2>1, <2>2 DEF Rearm, Watermark, ArmedOrLate
  <2> QED BY <2>1, <2>2 DEF AllArmedOrLate
<1>11. CASE Clear
  <2>1. watermarks' = [w \in DOMAIN watermarks |-> [watermarks[w] EXCEPT !.fired = FALSE, !.late = FALSE]]
    BY <1>11 DEF Clear
  <2>2. ASSUME NEW w \in DOMAIN watermarks PROVE ~watermarks'[w].fired
    BY <1>0, <2>1, <2>2 DEF Watermark
  <2> QED BY <2>1, <2>2 DEF AllArmedOrLate, ArmedOrLate
<1>12. CASE UNCHANGED vars
  BY <1>2, <1>12 DEF vars
<1> QED BY <1>4, <1>5, <1>6, <1>7, <1>8, <1>9, <1>10, <1>11, <1>12 DEF Next

\* For any number of watermarks, whatever their callbacks acknowledge or clear in the
\* middle of an advance: below its threshold a watermark is armed, unless advance_slot()
\* called it late, and the one registered first is never called late.
THEOREM WatermarksRearm == Spec => []ArmedBelow
<1>1. Init => WatermarkInv /\ AllArmedOrLate
  BY EmptySeq DEF Init, WatermarkInv, FirstArmed, AllArmedOrLate
<1>2. IInv /\ WatermarkInv /\ AllArmedOrLate /\ [Next]_vars => WatermarkInv' /\ AllArmedOrLate'
  BY WatermarkStep, LateStep
<1>3. IInv /\ WatermarkInv /\ AllArmedOrLate => ArmedBelow
  <2> SUFFICES ASSUME IInv, WatermarkInv, AllArmedOrLate, NEW w \in DOMAIN watermarks,
                      Occupancy < watermarks[w].threshold
               PROVE  ~watermarks[w].fired \/ (watermarks[w].late /\ w # 1)
    BY DEF ArmedBelow
  <2>1. watermarks # << >>
    BY EmptySeq
  <2> QED BY <2>1 DEF WatermarkInv, FirstArmed, AllArmedOrLate, ArmedOrLate
<1> QED BY <1>1, <1>2, <1>3, RingInvariant, PTL DEF Spec

-----------------------------------------------------------------------------
(* The log.  Entry e of slot s has position s * MaxEntries + e.            *)

\* The positions of the log are those of the reserved entries.
LEMMA Positions ==
  ASSUME RingOK
  PROVE  /\ LogFirst \in Nat /\ LogEnd \in Nat /\ LogFirst <= LogEnd
         /\ \A p \in LogFirst .. LogEnd - 1 :
              /\ p \div MaxEntries \in tail .. head
              /\ p % MaxEntries \in 0 .. CountAt(p \div MaxEntries) - 1
              /\ p = (p \div MaxEntries) * MaxEntries + (p % MaxEntries)
              /\ Resident(p \div MaxEntries)
         /\ \A s \in Int, e \in Entries :
              /\ s * MaxEntries + e \in Int
              /\ (s * MaxEntries + e) \div MaxEntries = s
              /\ (s * MaxEntries + e) % MaxEntries = e
<1>1. /\ head \in Nat /\ tail \in Nat /\ tail <= head /\ MaxEntries \in Nat \ {0}
      /\ CountAt(head) \in 0 .. MaxEntries
      /\ \A s \in tail .. head - 1 : Resident(s) /\ CountAt(s) = MaxEntries
  BY WindowFacts
<1>2. tail * MaxEntries \in Int /\ head * MaxEntries \in Int /\ tail * MaxEntries <= head * MaxEntries
      /\ tail * MaxEntries >= 0
  BY <1>1, ScaledOrder
<1>3. LogFirst \in Nat /\ LogEnd \in Nat /\ LogFirst <= LogEnd
  BY <1>1, <1>2 DEF LogFirst, LogEnd
<1>4. ASSUME NEW p \in LogFirst .. LogEnd - 1
      PROVE  /\ p \div MaxEntries \in tail .. head
             /\ p % MaxEntries \in 0 .. CountAt(p \div MaxEntries) - 1
             /\ p = (p \div MaxEntries) * MaxEntries + (p % MaxEntries)
             /\ Resident(p \div MaxEntries)
  <2> DEFINE q == p \div MaxEntries
             r == p % MaxEntries
  <2> SUFFICES q \in tail .. head /\ r \in 0 .. CountAt(q) - 1 /\ p = q * MaxEntries + r /\ Resident(q)
    OBVIOUS
  <2>1. p \in Int /\ p >= tail * MaxEntries /\ p < head * MaxEntries + CountAt(head)
    BY <1>2, <1>3 DEF LogFirst, LogEnd
  <2>2. p = q * MaxEntries + r /\ q \in Int /\ r \in 0 .. MaxEntries - 1
    BY <1>1, <2>1, DivMod
  <2> HIDE DEF q, r
  <2>3. ~(q < tail)
    <3> SUFFICES ASSUME q < tail PROVE FALSE
      OBVIOUS
    <3>1. q * MaxEntries \in Int /\ q * MaxEntries + MaxEntries <= tail * MaxEntries
      BY <1>1, <2>2, ScaledOrder
    <3> QED BY <1>1, <1>2, <2>1, <2>2, <3>1
  <2>4. ~(q > head)
    <3> SUFFICES ASSUME q > head PROVE FALSE
      OBVIOUS
    <3>1. q * MaxEntries \in Int /\ head * MaxEntries + MaxEntries <= q * MaxEntries
      BY <1>1, <2>2, ScaledOrder
    <3> QED BY <1>1, <1>2, <2>1, <2>2, <3>1
  <2>5. q \in tail .. head /\ (q = head \/ q \in tail .. head - 1)
    BY <1>1, <2>2, <2>3, <2>4
  <2>6. r \in 0 .. CountAt(q) - 1
    <3>1. CASE q = head
      BY <1>1, <1>2, <2>1, <2>2, <3>1
    <3>2. CASE q # head
      BY <1>1, <2>2, <2>5, <3>2
    <3> QED BY <3>1, <3>2
  <2>7. Resident(q)
    BY <2>6 DEF CountAt
  <2> QED BY <2>2, <2>5, <2>6, <2>7
<1>5. ASSUME NEW s \in Int, NEW e \in Entries
      PROVE  /\ s * MaxEntries + e \in Int
             /\ (s * MaxEntries + e) \div MaxEntries = s /\ (s * MaxEntries + e) % MaxEntries = e
  <2>1. e \in 0 .. MaxEntries - 1 /\ s * MaxEntries + e \in Int
    BY <1>1 DEF Entries
  <2>2. PICK a \in Int : a = s * MaxEntries + e
    BY <2>1
  <2>3. a \div MaxEntries = s /\ a % MaxEntries = e
    BY MaxEntriesPositive, <2>1, <2>2, DivModUnique
  <2> QED BY <2>1, <2>2, <2>3
<1> QED BY <1>3, <1>4, <1>5

\* What a recording holds is in the window.
LEMMA HeldPosition ==
  ASSUME RingOK, NEW i \in Initiators
  PROVE  /\ recs[i].active =>
              /\ recs[i].slot \in tail .. head /\ recs[i].entry \in Entries
              /\ recs[i].entry < CountAt(recs[i].slot) /\ Resident(recs[i].slot)
              /\ LogHeld[i] = recs[i].slot * MaxEntries + recs[i].entry /\ LogHeld[i] \in Nat
         /\ ~recs[i].active => LogHeld[i] = -1
<1>1. LogHeld[i] = IF recs[i].active THEN recs[i].slot * MaxEntries + recs[i].entry ELSE -1
  BY DEF LogHeld
<1>2. ASSUME recs[i].active
      PROVE  /\ recs[i].slot \in tail .. head /\ recs[i].entry \in Entries
             /\ recs[i].entry < CountAt(recs[i].slot) /\ Resident(recs[i].slot)
             /\ recs[i].slot * MaxEntries + recs[i].entry \in Nat
  <2>1. /\ NodeIndex(recs[i].slot) \in Nodes
        /\ ring[NodeIndex(recs[i].slot)].slot = recs[i].slot
        /\ Resident(recs[i].slot)
    BY <1>2, OpenWhenHeld DEF Resident, NodeAt
  <2>2. recs[i].slot \in Nat /\ recs[i].entry \in Entries
    BY BoundsNat DEF RingOK, RingTypeOK
  <2>3. recs[i].slot \in tail .. head
    BY <2>1, <2>2 DEF RingOK, Stamped, EmptyNode, NO_SLOT
  <2>4. recs[i].entry < CountAt(recs[i].slot)
    BY <1>2, <2>1 DEF RingOK, Reservations, CountAt
  <2>5. recs[i].slot * MaxEntries \in Int /\ recs[i].slot * MaxEntries >= 0 /\ recs[i].entry \in Nat
    BY <2>2, MaxEntriesPositive, ScaledOrder DEF Entries
  <2> QED BY <2>1, <2>2, <2>3, <2>4, <2>5
<1> QED BY <1>1, <1>2

\* The entries of the log, when those of the ring stay.
LEMMA LogKept ==
  ASSUME RingOK, LogFirst' = LogFirst, LogEnd' = LogEnd,
         \A s \in tail .. head : \A e \in 0 .. CountAt(s) - 1 :
           Deref(Cursor(s, e))' = Deref(Cursor(s, e))
  PROVE  LogEntries' = LogEntries
<1>1. \A p \in LogFirst .. LogEnd - 1 :
        Deref(Cursor(p \div MaxEntries, p % MaxEntries))' = Deref(Cursor(p \div MaxEntries, p % MaxEntries))
  BY Positions
<1>2. LogEntries = [p \in LogFirst .. LogEnd - 1 |-> Deref(Cursor(p \div MaxEntries, p % MaxEntries))]
  BY DEF LogEntries
<1>3. LogEntries' = [p \in LogFirst .. LogEnd - 1 |-> Deref(Cursor(p \div MaxEntries, p % MaxEntries))']
  BY DEF LogEntries
<1> QED BY <1>1, <1>2, <1>3

\* advance_slot() leaves a full slot for an unused one: the log ends where it did.
LEMMA EndKept ==
  ASSUME RingOK, HeadStep, \A n \in Nodes : ring'[n].slot = ring[n].slot /\ ring'[n].count = ring[n].count
  PROVE  LogEnd' = LogEnd
<1>1. head \in Nat /\ MaxEntries \in Nat \ {0} /\ CountAt(head) \in 0 .. MaxEntries /\ NodeIndex(head) \in Nodes
  BY WindowFacts, IndexInNodes
<1>2. CASE head' = head
  <2>1. CountAt(head)' = CountAt(head)
    BY <1>1, <1>2 DEF CountAt, Resident, NodeAt
  <2> QED BY <1>2, <2>1 DEF LogEnd
<1>3. CASE head' = head + 1 /\ Resident(head) /\ CurrentNode.count >= MaxEntries
  <2>1. CountAt(head) = MaxEntries
    BY <1>1, <1>3 DEF CountAt, CurrentNode
  <2>2. NodeIndex(head + 1) \in Nodes /\ ring'[NodeIndex(head + 1)].slot # head + 1
    BY NextSlotUnused
  <2>3. CountAt(head)' = 0
    BY <1>3, <2>2 DEF CountAt, Resident, NodeAt
  <2>4. (head + 1) * MaxEntries = head * MaxEntries + MaxEntries /\ head * MaxEntries \in Int
    BY <1>1
  <2> QED BY <1>1, <1>3, <2>1, <2>3, <2>4 DEF LogEnd
<1> QED BY <1>2, <1>3 DEF HeadStep

\* A cursor reads the location of its slot's node.
LEMMA DerefAt ==
  ASSUME NEW s, NEW e
  PROVE  /\ Resident(s) => Deref(Cursor(s, e)) = ring[NodeIndex(s)].locations[e]
         /\ ring'[NodeIndex(s)].slot = s => Deref(Cursor(s, e))' = ring'[NodeIndex(s)].locations[e]
BY DEF Deref, Cursor, Resident, NodeAt, NodeIndex

\* begin() appends a tombstone to the log, held by the initiator.
LEMMA ReserveLogs ==
  ASSUME RingOK, NEW i \in Initiators, ~recs[i].active, ~Lapped, ~HeadFull, Reserve(i),
         head' = head, tail' = tail
  PROVE  Log!LogBegin(i)
<1>1. LogFirst' = LogFirst
  BY DEF LogFirst
<1>2. /\ ring'[NodeIndex(head)].slot = head
      /\ ring'[NodeIndex(head)].count = CountAt(head) + 1
      /\ CountAt(head) \in Entries /\ CountAt(head) = CurrentNode.count
      /\ ring'[NodeIndex(head)].locations[CountAt(head)] = Tombstone
      /\ \A s \in Nat : Resident(s) =>
           /\ ring'[NodeIndex(s)].slot = s
           /\ \A e \in Entries :
                e < CountAt(s) => ring'[NodeIndex(s)].locations[e] = ring[NodeIndex(s)].locations[e]
  BY ReserveReads
<1>3. head \in Nat /\ tail \in Nat /\ MaxEntries \in Nat \ {0} /\ CountAt(head) \in Nat
      /\ head * MaxEntries \in Int
  BY WindowFacts
<1>4. LogEnd' = LogEnd + 1
  <2>1. CountAt(head)' = CountAt(head) + 1
    BY <1>2 DEF CountAt, Resident, NodeAt
  <2> QED BY <1>3, <2>1 DEF LogEnd
<1>5. LogHeld' = [LogHeld EXCEPT ![i] = LogEnd]
  <2> DEFINE rec == [active |-> TRUE, slot |-> head, entry |-> CurrentNode.count]
  <2>1. recs'[i] = rec /\ \A j \in Initiators : j # i => recs'[j] = recs[j]
    BY DEF Reserve, RingOK, RingTypeOK
  <2>2. recs'[i].active /\ recs'[i].slot * MaxEntries + recs'[i].entry = LogEnd
    BY <1>2, <2>1 DEF LogEnd
  <2>3. LogHeld' = [j \in Initiators |-> IF recs'[j].active THEN recs'[j].slot * MaxEntries + recs'[j].entry ELSE -1]
    BY DEF LogHeld
  <2>4. ASSUME NEW j \in Initiators
        PROVE  (IF recs'[j].active THEN recs'[j].slot * MaxEntries + recs'[j].entry ELSE -1)
                 = IF j = i THEN LogEnd ELSE LogHeld[j]
    BY <2>1, <2>2 DEF LogHeld
  <2>5. LogHeld' = [j \in Initiators |-> IF j = i THEN LogEnd ELSE LogHeld[j]]
    BY <2>3, <2>4
  <2>6. DOMAIN LogHeld = Initiators
    BY DEF LogHeld
  <2> HIDE DEF rec
  <2> QED BY <2>5, <2>6
<1>6. LogEntries' = [p \in LogFirst .. LogEnd |-> IF p = LogEnd THEN Tombstone ELSE LogEntries[p]]
  <2>1. LogEntries' = [p \in LogFirst .. LogEnd |-> Deref(Cursor(p \div MaxEntries, p % MaxEntries))']
    <3>1. LogEnd' - 1 = LogEnd
      BY <1>4, Positions
    <3> QED BY <1>1, <3>1 DEF LogEntries
  <2>2. ASSUME NEW p \in LogFirst .. LogEnd
        PROVE  Deref(Cursor(p \div MaxEntries, p % MaxEntries))' = IF p = LogEnd THEN Tombstone ELSE LogEntries[p]
    <3>1. CASE p = LogEnd
      <4>1. p \div MaxEntries = head /\ p % MaxEntries = CountAt(head)
        <5>1. p = head * MaxEntries + CountAt(head) /\ p \in Int /\ head \in Int /\ CountAt(head) \in 0 .. MaxEntries - 1
          BY <1>2, <1>3, <3>1 DEF LogEnd, Entries
        <5>2. PICK h \in Int : h = head
          BY <5>1
        <5>3. PICK c \in 0 .. MaxEntries - 1 : c = CountAt(head)
          BY <5>1
        <5>4. p \in Int /\ p = h * MaxEntries + c
          BY <5>1, <5>2, <5>3
        <5>5. p \div MaxEntries = h /\ p % MaxEntries = c
          BY <5>4, MaxEntriesPositive, DivModUnique
        <5> QED BY <5>2, <5>3, <5>5
      <4> QED BY <1>2, <3>1, <4>1, DerefAt
    <3>2. CASE p # LogEnd
      <4>1. p \in LogFirst .. LogEnd - 1
        BY <3>2, Positions
      <4> DEFINE q == p \div MaxEntries
                 r == p % MaxEntries
      <4>2. LogEntries[p] = Deref(Cursor(q, r))
        BY <4>1 DEF LogEntries
      <4>3. q \in tail .. head /\ r \in 0 .. CountAt(q) - 1 /\ Resident(q)
        BY <4>1, Positions
      <4>4. r \in 0 .. MaxEntries - 1
        <5>1. p \in Int
          BY Positions
        <5> QED BY <5>1, MaxEntriesPositive, DivMod
      <4> HIDE DEF q, r
      <4>5. q \in Nat /\ r \in Entries
        BY <1>3, <4>3, <4>4 DEF Entries
      <4>6. r < CountAt(q)
        <5>1. CountAt(q) \in Nat
          BY <1>3, <4>3, WindowFacts
        <5> QED BY <4>3, <5>1
      <4>7. Deref(Cursor(q, r))' = Deref(Cursor(q, r))
        BY <1>2, <4>3, <4>5, <4>6, DerefAt
      <4> QED BY <3>2, <4>2, <4>7 DEF q, r
    <3> QED BY <3>1, <3>2
  <2> QED BY <2>1, <2>2
<1>7. LogHeld[i] = -1
  BY HeldPosition
<1> QED BY <1>1, <1>4, <1>5, <1>6, <1>7 DEF Log!LogBegin, Log!None

\* A recording ends: its node keeps its slot and its count, and its entry is x.
Closes(i, x) ==
  LET k == NodeIndex(recs[i].slot)
  IN /\ recs[i].active
     /\ recs' = [recs EXCEPT ![i] = Closed]
     /\ \A n \in Nodes : n # k => ring'[n] = ring[n]
     /\ ring'[k].slot = ring[k].slot
     /\ ring'[k].count = ring[k].count
     /\ \A e \in Entries :
          ring'[k].locations[e] = IF e = recs[i].entry THEN x ELSE ring[k].locations[e]
     /\ HeadStep
     /\ tail' = tail

\* The end of a recording changes the log in the entry it held, and nowhere else.
LEMMA CloseLogs ==
  ASSUME RingOK, NEW i \in Initiators, NEW x, Closes(i, x)
  PROVE  /\ LogFirst' = LogFirst
         /\ LogEnd' = LogEnd
         /\ LogHeld[i] # -1
         /\ LogHeld' = [LogHeld EXCEPT ![i] = -1]
         /\ LogEntries' = [LogEntries EXCEPT ![LogHeld[i]] = x]
<1>1. recs[i].active /\ HeadStep /\ tail' = tail
  BY DEF Closes
<1>2. LogFirst' = LogFirst
  BY <1>1 DEF LogFirst
<1>3. \A n \in Nodes : ring'[n].slot = ring[n].slot /\ ring'[n].count = ring[n].count
  BY DEF Closes
<1>4. LogEnd' = LogEnd
  BY <1>1, <1>3, EndKept
<1>5. PICK s \in Int : s = recs[i].slot
  BY HeldPosition, <1>1, BoundsNat DEF RingOK, RingTypeOK
<1>6. PICK e \in 0 .. MaxEntries - 1 : e = recs[i].entry
  BY HeldPosition, <1>1 DEF Entries
<1>7. PICK a \in Nat : a = LogHeld[i]
  BY HeldPosition, <1>1
<1>8. a = s * MaxEntries + e /\ LogHeld[i] # -1
  BY <1>1, <1>5, <1>6, <1>7, HeldPosition
<1>9. a \div MaxEntries = s /\ a % MaxEntries = e
  BY <1>8, MaxEntriesPositive, DivModUnique
<1>10. LogHeld' = [LogHeld EXCEPT ![i] = -1]
  <2>1. ~recs'[i].active /\ \A j \in Initiators : j # i => recs'[j] = recs[j]
    BY DEF Closes, Closed, RingOK, RingTypeOK
  <2>2. LogHeld' = [j \in Initiators |-> IF recs'[j].active THEN recs'[j].slot * MaxEntries + recs'[j].entry ELSE -1]
    BY DEF LogHeld
  <2>3. ASSUME NEW j \in Initiators
        PROVE  (IF recs'[j].active THEN recs'[j].slot * MaxEntries + recs'[j].entry ELSE -1)
                 = IF j = i THEN -1 ELSE LogHeld[j]
    BY <2>1 DEF LogHeld
  <2>4. LogHeld' = [j \in Initiators |-> IF j = i THEN -1 ELSE LogHeld[j]]
    BY <2>2, <2>3
  <2>5. DOMAIN LogHeld = Initiators
    BY DEF LogHeld
  <2> QED BY <2>4, <2>5
<1>11. LogEntries' = [p \in LogFirst .. LogEnd - 1 |-> Deref(Cursor(p \div MaxEntries, p % MaxEntries))']
  BY <1>2, <1>4 DEF LogEntries
<1>12. ASSUME NEW p \in LogFirst .. LogEnd - 1
       PROVE  Deref(Cursor(p \div MaxEntries, p % MaxEntries))' = IF p = a THEN x ELSE LogEntries[p]
  <2> DEFINE q == p \div MaxEntries
             r == p % MaxEntries
  <2>1. LogEntries[p] = Deref(Cursor(q, r))
    BY DEF LogEntries
  <2>2. q \in tail .. head /\ Resident(q) /\ p = q * MaxEntries + r
    BY Positions
  <2>3. r \in Entries
    <3>1. p \in Int
      BY Positions
    <3> QED BY <3>1, MaxEntriesPositive, DivMod DEF Entries
  <2>4. p = a => q = s /\ r = e
    BY <1>9
  <2>5. SUFFICES Deref(Cursor(q, r))' = IF p = a THEN x ELSE LogEntries[p]
    OBVIOUS
  <2> HIDE DEF q, r
  <2>6. q \in Nat /\ NodeIndex(q) \in Nodes
    BY <2>2, WindowFacts, IndexInNodes
  <2>7. ring'[NodeIndex(q)].slot = q
    BY <1>3, <2>2, <2>6 DEF Resident, NodeAt
  <2>8. Deref(Cursor(q, r))' = ring'[NodeIndex(q)].locations[r] /\ LogEntries[p] = ring[NodeIndex(q)].locations[r]
    BY <2>1, <2>2, <2>7, DerefAt
  <2>9. CASE p = a
    BY <2>3, <2>4, <2>8, <2>9, <1>5, <1>6 DEF Closes
  <2>10. CASE p # a
    <3>1. q # s \/ r # e
      BY <1>8, <2>2, <2>10
    <3>2. CASE q # s
      <4>1. \A n \in Nodes : n # NodeIndex(recs[i].slot) => ring'[n] = ring[n]
        BY DEF Closes
      <4>2. ring'[NodeIndex(q)] = ring[NodeIndex(q)]
        BY <1>1, <1>5, <2>2, <2>6, <3>2, <4>1, CloseReads
      <4> QED BY <2>8, <2>10, <4>2
    <3>3. CASE q = s /\ r # e
      BY <2>3, <2>8, <2>10, <3>3, <1>5, <1>6 DEF Closes
    <3> QED BY <3>1, <3>2, <3>3
  <2> QED BY <2>9, <2>10
<1>13. LogEntries' = [p \in LogFirst .. LogEnd - 1 |-> IF p = a THEN x ELSE LogEntries[p]]
  BY <1>11, <1>12
<1>14. DOMAIN LogEntries = LogFirst .. LogEnd - 1
  BY DEF LogEntries
<1>15. LogEntries' = [LogEntries EXCEPT ![a] = x]
  BY <1>13, <1>14
<1> QED BY <1>2, <1>4, <1>7, <1>8, <1>10, <1>15

\* commit() puts the program where its begin() put the tombstone.
LEMMA CommitLogs ==
  ASSUME RingOK, NEW i \in Initiators, NEW program \in Programs, Commit(i, program)
  PROVE  Log!LogCommit(i, program)
<1> DEFINE s == recs[i].slot
           k == NodeIndex(s)
           new == [slot |-> ring[k].slot, count |-> ring[k].count, open |-> ring[k].open - 1,
                   locations |-> [ring[k].locations EXCEPT ![recs[i].entry] = program]]
<1>1. recs[i].active /\ recs' = [recs EXCEPT ![i] = Closed] /\ tail' = tail
  BY DEF Commit
<1>2. k \in Nodes /\ ring[k].slot = s
  BY <1>1, OpenWhenHeld
<1>3. ring' = [ring EXCEPT ![k] = new]
  BY DEF Commit, NodeAt
<1>4. ring'[k] = new /\ \A n \in Nodes : n # k => ring'[n] = ring[n]
  BY <1>2, <1>3 DEF RingOK, RingTypeOK
<1>5. HeadStep
  BY <1>2 DEF Commit, HeadStep, AdvanceSlot, Resident, CurrentNode, NodeAt
<1>6. ring[k].locations \in [Entries -> Contents]
  BY <1>2 DEF RingOK, RingTypeOK
<1>7. Closes(i, program)
  BY <1>1, <1>4, <1>5, <1>6 DEF Closes
<1> QED BY <1>7, CloseLogs DEF Log!LogCommit, Log!None

\* abort(), and a commit() that ran out of buffers, leave the tombstone.
LEMMA ReleaseLogs ==
  ASSUME RingOK, NEW i \in Initiators, Release(i), head' = head, tail' = tail
  PROVE  Log!LogAbort(i)
<1> DEFINE s == recs[i].slot
           k == NodeIndex(s)
           new == [slot |-> ring[k].slot, count |-> ring[k].count, open |-> ring[k].open - 1,
                   locations |-> ring[k].locations]
<1>1. recs[i].active /\ recs' = [recs EXCEPT ![i] = Closed]
  BY DEF Release
<1>2. k \in Nodes /\ ring[k].slot = s
  BY <1>1, OpenWhenHeld
<1>3. ring' = [ring EXCEPT ![k] = new]
  BY DEF Release, NodeAt
<1>4. ring'[k] = new /\ \A n \in Nodes : n # k => ring'[n] = ring[n]
  BY <1>2, <1>3 DEF RingOK, RingTypeOK
<1>5. ring[k].locations[recs[i].entry] = Tombstone
  BY <1>1 DEF RingOK, Reservations, NodeAt
<1>6. Closes(i, Tombstone)
  BY <1>1, <1>4, <1>5 DEF Closes, HeadStep
<1>7. LogFirst' = LogFirst /\ LogEnd' = LogEnd /\ LogHeld[i] # -1 /\ LogHeld' = [LogHeld EXCEPT ![i] = -1]
  BY <1>6, CloseLogs
<1>8. \A n \in Nodes : ring'[n].slot = ring[n].slot /\ ring'[n].locations = ring[n].locations
  BY <1>4
<1>9. ASSUME NEW t \in tail .. head, NEW e \in 0 .. CountAt(t) - 1
      PROVE  Deref(Cursor(t, e))' = Deref(Cursor(t, e))
  <2>1. NodeIndex(t) \in Nodes
    BY WindowFacts, IndexInNodes
  <2> QED BY <1>8, <2>1 DEF Deref, Cursor, Resident, NodeAt
<1>10. LogEntries' = LogEntries
  BY <1>7, <1>9, LogKept
<1> QED BY <1>7, <1>10 DEF Log!LogAbort, Log!None

\* Leaving a full slot does not change the log.
LEMMA AdvanceLogs ==
  ASSUME RingOK, HeadStep, UNCHANGED <<tail, ring, recs>>
  PROVE  UNCHANGED <<LogFirst, LogEnd, LogEntries, LogHeld>>
<1>1. LogFirst' = LogFirst /\ LogEnd' = LogEnd /\ LogHeld' = LogHeld
  BY EndKept DEF LogFirst, LogHeld
<1>2. \A t \in tail .. head : \A e \in 0 .. CountAt(t) - 1 : Deref(Cursor(t, e))' = Deref(Cursor(t, e))
  BY DEF Deref, Cursor, Resident, NodeAt
<1>3. LogEntries' = LogEntries
  BY <1>1, <1>2, LogKept
<1> QED BY <1>1, <1>3

\* A ring without entries is the empty log.
LEMMA EmptyLogs == EmptyRing => Log!LogInit
<1> SUFFICES ASSUME EmptyRing PROVE Log!LogInit
  OBVIOUS
<1>1. CountAt(head) = 0
  BY EmptyRingOK DEF CountAt
<1>2. LogFirst = 0 /\ LogEnd = 0
  BY <1>1, MaxEntriesPositive DEF EmptyRing, LogFirst, LogEnd
<1>3. LogEntries = [p \in {} |-> Tombstone]
  <2>1. LogFirst .. LogEnd - 1 = {}
    BY <1>2
  <2> QED BY <2>1 DEF LogEntries
<1>4. LogHeld = [i \in Initiators |-> -1]
  <2>1. \A i \in Initiators : ~recs[i].active
    BY DEF EmptyRing, Closed
  <2> QED BY <2>1 DEF LogHeld
<1> QED BY <1>2, <1>3, <1>4 DEF Log!LogInit, Log!None

\* acknowledge() reclaims the slots before some t: those from t on stay as they
\* are, and every open recording is in one of them.
LEMMA AcknowledgeReads ==
  ASSUME RingOK, NEW upTo \in Nat, Acknowledge(upTo)
  PROVE  \E t \in tail .. head :
           /\ tail' = t
           /\ \A s \in t .. head : Resident(s) => ring'[NodeIndex(s)] = ring[NodeIndex(s)]
           /\ \A i \in Initiators : recs[i].active => recs[i].slot \in t .. head
<1>1. PICK t \in tail .. head :
        /\ ReclaimsTo(t, upTo)
        /\ tail' = t
        /\ ring' = [n \in Nodes |-> IF \E s \in tail .. t - 1 : NodeIndex(s) = n
                                    THEN EmptyNode ELSE ring[n]]
  BY DEF Acknowledge
<1>2. head \in Nat /\ tail \in Nat /\ t \in Nat
  BY WindowFacts
<1>3. \A s \in tail .. t - 1 : Resident(s) /\ ring[NodeIndex(s)].open = 0
  <2>1. \A s \in tail .. t - 1 : s \in tail .. head - 1
    BY <1>2
  <2> QED BY <1>1, <2>1, WindowFacts DEF ReclaimsTo, NodeAt
<1>4. ASSUME NEW s \in t .. head, Resident(s)
      PROVE  ring'[NodeIndex(s)] = ring[NodeIndex(s)]
  <2>1. NodeIndex(s) \in Nodes
    BY <1>2, IndexInNodes
  <2>2. ~\E u \in tail .. t - 1 : NodeIndex(u) = NodeIndex(s)
    BY <1>2, <1>3, <1>4, ResidentUnique
  <2> QED BY <1>1, <2>1, <2>2
<1>5. ASSUME NEW i \in Initiators, recs[i].active
      PROVE  recs[i].slot \in t .. head
  <2>1. ring[NodeIndex(recs[i].slot)].open > 0
    BY <1>5, OpenWhenHeld
  <2>2. recs[i].slot \in tail .. head
    BY <1>5, HeldPosition
  <2>3. recs[i].slot \notin tail .. t - 1
    BY <1>3, <2>1
  <2> QED BY <1>2, <2>2, <2>3
<1> QED BY <1>1, <1>4, <1>5

\* acknowledge() forgets the entries of the slots it reclaims.
LEMMA AcknowledgeLogs ==
  ASSUME RingOK, NEW upTo \in Nat, Acknowledge(upTo)
  PROVE  \E n \in LogFirst .. LogEnd : Log!LogForget(n)
<1>1. PICK t \in tail .. head :
        /\ tail' = t
        /\ \A s \in t .. head : Resident(s) => ring'[NodeIndex(s)] = ring[NodeIndex(s)]
        /\ \A i \in Initiators : recs[i].active => recs[i].slot \in t .. head
  BY AcknowledgeReads
<1>2. /\ head \in Nat /\ tail \in Nat /\ t \in Nat /\ tail <= t /\ t <= head
      /\ MaxEntries \in Nat \ {0} /\ CountAt(head) \in 0 .. MaxEntries
      /\ \A s \in tail .. head - 1 : Resident(s)
  BY WindowFacts
<1>3. head' = head /\ recs' = recs /\ (~Resident(head) => ~Resident(head)')
  BY AcknowledgeKeeps
<1>4. PICK n \in Int : n = t * MaxEntries
  BY <1>2
<1>5. n \in LogFirst .. LogEnd
  <2>1. tail * MaxEntries <= t * MaxEntries /\ t * MaxEntries <= head * MaxEntries
        /\ tail * MaxEntries \in Int /\ head * MaxEntries \in Int
    BY <1>2, ScaledOrder
  <2> QED BY <1>2, <1>4, <2>1 DEF LogFirst, LogEnd
<1>6. LogFirst' = n
  BY <1>1, <1>4 DEF LogFirst
<1>7. LogEnd' = LogEnd
  <2>1. CountAt(head)' = CountAt(head)
    <3>1. CASE Resident(head)
      BY <1>1, <1>2, <1>3, <3>1 DEF CountAt, Resident, NodeAt
    <3>2. CASE ~Resident(head)
      BY <1>3, <3>2 DEF CountAt
    <3> QED BY <3>1, <3>2
  <2> QED BY <1>3, <2>1 DEF LogEnd
<1>8. LogHeld' = LogHeld
  BY <1>3 DEF LogHeld
<1>9. ASSUME NEW i \in Initiators, LogHeld[i] # -1 PROVE LogHeld[i] >= n
  <2>1. recs[i].active
    BY <1>9, HeldPosition
  <2>2. PICK s \in t .. head : s = recs[i].slot
    BY <1>1, <2>1
  <2>3. PICK e \in Entries : e = recs[i].entry
    BY <2>1, HeldPosition
  <2>4. LogHeld[i] = s * MaxEntries + e /\ e \in Nat
    BY <2>1, <2>2, <2>3, HeldPosition DEF Entries
  <2>5. t * MaxEntries <= s * MaxEntries /\ s * MaxEntries \in Int
    BY <1>2, <2>2, ScaledOrder
  <2> QED BY <1>4, <2>4, <2>5
<1>10. LogEntries' = [p \in n .. LogEnd - 1 |-> LogEntries[p]]
  <2>1. LogEntries' = [p \in n .. LogEnd - 1 |-> Deref(Cursor(p \div MaxEntries, p % MaxEntries))']
    BY <1>6, <1>7 DEF LogEntries
  <2>2. ASSUME NEW p \in n .. LogEnd - 1
        PROVE  Deref(Cursor(p \div MaxEntries, p % MaxEntries))' = LogEntries[p]
    <3> DEFINE q == p \div MaxEntries
               r == p % MaxEntries
    <3>1. p \in LogFirst .. LogEnd - 1 /\ p \in Int /\ p >= n
      BY <1>5, Positions
    <3>2. LogEntries[p] = Deref(Cursor(q, r))
      BY <3>1 DEF LogEntries
    <3>3. q \in tail .. head /\ Resident(q) /\ p = q * MaxEntries + r
      BY <3>1, Positions
    <3>4. r \in 0 .. MaxEntries - 1
      BY <3>1, MaxEntriesPositive, DivMod
    <3> SUFFICES Deref(Cursor(q, r))' = LogEntries[p]
      OBVIOUS
    <3> HIDE DEF q, r
    <3>5. ~(q < t)
      <4> SUFFICES ASSUME q < t PROVE FALSE
        OBVIOUS
      <4>1. q * MaxEntries + MaxEntries <= t * MaxEntries /\ q * MaxEntries \in Int
        BY <1>2, <3>3, ScaledOrder
      <4> QED BY <1>2, <1>4, <3>1, <3>3, <3>4, <4>1
    <3>6. q \in t .. head
      BY <1>2, <3>3, <3>5
    <3>7. ring'[NodeIndex(q)] = ring[NodeIndex(q)]
      BY <1>1, <3>3, <3>6
    <3>8. ring'[NodeIndex(q)].slot = q
      BY <3>3, <3>7 DEF Resident, NodeAt
    <3> QED BY <3>2, <3>3, <3>7, <3>8, DerefAt
  <2> QED BY <2>1, <2>2
<1> QED BY <1>5, <1>6, <1>7, <1>8, <1>9, <1>10 DEF Log!LogForget, Log!None

\* begin(), when the current node can take an entry.
LEMMA ClaimLogs ==
  ASSUME RingOK, NEW i \in Initiators, ~recs[i].active, ~HeadFull, Claim(i), head' = head, tail' = tail
  PROVE  Log!LogBegin(i) \/ UNCHANGED <<LogFirst, LogEnd, LogEntries, LogHeld>>
<1>1. CASE ~Lapped /\ Reserve(i)
  BY <1>1, ReserveLogs
<1>2. CASE UNCHANGED <<ring, recs>>
  BY <1>2, AdvanceLogs DEF HeadStep
<1> QED BY <1>1, <1>2 DEF Claim

\* Every step of the ring is a step of the log, or leaves it alone.
LEMMA LogStep ==
  ASSUME IInv, [Next]_vars
  PROVE  [Log!LogNext]_<<LogFirst, LogEnd, LogEntries, LogHeld>>
<1>0. RingOK /\ CallTypeOK /\ CallState
  BY IInvParts
<1> DEFINE kept == UNCHANGED <<LogFirst, LogEnd, LogEntries, LogHeld>>
<1>1. ASSUME NEW i \in Initiators, Begin(i) PROVE Log!LogBegin(i) \/ kept
  <2>1. ~recs[i].active /\ tail' = tail
    BY <1>1 DEF Begin
  <2>2. CASE HeadFull /\ AdvanceSlot(i) /\ UNCHANGED <<ring, recs>>
    <3>1. HeadStep
      BY <2>2 DEF HeadStep, HeadFull, AdvanceSlot, Resident, CurrentNode
    <3> QED BY <1>0, <2>1, <2>2, <3>1, AdvanceLogs
  <2>3. CASE ~HeadFull /\ Claim(i) /\ UNCHANGED <<head, callVars>>
    BY <1>0, <2>1, <2>3, ClaimLogs
  <2> QED BY <1>1, <2>2, <2>3 DEF Begin
<1>2. ASSUME NEW i \in Initiators, NEW p \in Programs, Commit(i, p) PROVE Log!LogCommit(i, p)
  BY <1>0, <1>2, CommitLogs
<1>3. ASSUME NEW i \in Initiators, CommitThrows(i) \/ Abort(i) PROVE Log!LogAbort(i)
  BY <1>0, <1>3, ReleaseLogs DEF CommitThrows, Abort
<1>4. CASE AdvanceReturns
  <2>1. CASE resume = NoOne
    <3>1. kept
      BY <1>0, <1>4, <2>1, AdvanceLogs DEF AdvanceReturns, HeadStep
    <3> QED BY <3>1
  <2>2. CASE resume # NoOne
    <3>1. resume \in Initiators /\ ~recs[resume].active /\ ~HeadFull
      BY <1>0, <1>4, <2>2 DEF CallTypeOK, CallState, AdvanceReturns, HeadFull, CurrentNode, Resident
    <3>2. Log!LogBegin(resume) \/ kept
      BY <1>0, <1>4, <2>2, <3>1, ClaimLogs DEF AdvanceReturns
    <3> QED BY <3>1, <3>2 DEF Log!LogNext
  <2> QED BY <2>1, <2>2
<1>5. ASSUME NEW upTo \in 0 .. MaxSlot, Acknowledge(upTo) PROVE \E n \in LogFirst .. LogEnd : Log!LogForget(n)
  BY <1>0, <1>5, AcknowledgeLogs, BoundsNat
<1>6. CASE Clear
  <2>1. EmptyRing'
    BY <1>6 DEF Clear, EmptyRing
  <2>2. Log!LogInit'
    BY <2>1, EmptyLogs, PTL
  <2> QED BY <2>2 DEF Log!LogNext, Log!LogClear, Log!LogInit, Log!None
<1>7. CASE NextWatermark \/ CallbackReturns \/ (\E t \in Thresholds : OnWatermark(t)) \/ UNCHANGED vars
  <2>1. UNCHANGED <<head, tail, ring, recs>>
    BY <1>7 DEF NextWatermark, CallbackReturns, OnWatermark, vars
  <2>2. kept
    BY <1>0, <2>1, AdvanceLogs DEF HeadStep
  <2> QED BY <2>2
<1> QED BY <1>1, <1>2, <1>3, <1>4, <1>5, <1>6, <1>7 DEF Next, Log!LogNext

\* The ring implements the log, for every ring size, slot size, set of initiators
\* and number of watermarks: entry e of slot s is the entry s * MaxEntries + e
\* recorded since the last clear(), whatever laps, callbacks and reclaimed slots
\* came in between.
THEOREM RingImplementsLog == Spec => ImplementsLog
<1>1. Init => Log!LogInit
  <2>1. Init => EmptyRing
    BY DEF Init, EmptyRing
  <2> QED BY <2>1, EmptyLogs
<1>2. IInv /\ [Next]_vars => [Log!LogNext]_<<LogFirst, LogEnd, LogEntries, LogHeld>>
  BY LogStep
<1> QED BY <1>1, <1>2, RingInvariant, PTL DEF Spec, ImplementsLog, Log!LogSpec, Log!logVars

-----------------------------------------------------------------------------
(* The trace machine: the suspension of the replay direction, for every    *)
(* size of the stack and every program.                                    *)

Entry == [kind : {"call", "inv"}, target : {"next", "forward", "backward"}]

\* The open invertible calls are finitely many, and there is one if and only if
\* their number is positive.
LEMMA OpenFinite ==
  ASSUME base \in Nat, stack \in Seq(Entry)
  PROVE  /\ IsFiniteSet(OpenInvCalls)
         /\ Cardinality(OpenInvCalls) \in Nat
         /\ Cardinality(OpenInvCalls) = 0 <=> OpenInvCalls = {}
<1>1. IsFiniteSet(base + 1 .. Len(stack))
  BY FS_Interval
<1>2. OpenInvCalls \in SUBSET (base + 1 .. Len(stack))
  BY DEF OpenInvCalls
<1>3. IsFiniteSet(OpenInvCalls)
  BY <1>1, <1>2, FS_Subset
<1> QED BY <1>3, FS_CardinalityType, FS_EmptySet

-----------------------------------------------------------------------------
(* What a push and a pop do to the open calls.                             *)

\* A push of an invertible call opens it, any other leaves what is open.
LEMMA PushOpens ==
  ASSUME MachineTypeOK, base <= Len(stack), NEW e \in Entry,
         stack' = Append(stack, e), base' = base
  PROVE  OpenInvCalls' = IF e.kind = "inv" THEN OpenInvCalls \cup {Len(stack) + 1} ELSE OpenInvCalls
<1>1. stack \in Seq(Entry) /\ base \in Nat
  BY DEF MachineTypeOK, Entry
<1>2. /\ Len(stack') = Len(stack) + 1
      /\ \A k \in 1 .. Len(stack) : stack'[k] = stack[k]
      /\ stack'[Len(stack) + 1] = e
  BY <1>1, AppendProperties
<1>3. Len(stack) \in Nat
  BY <1>1, LenProperties
<1> QED BY <1>1, <1>2, <1>3 DEF OpenInvCalls

\* A pop takes the last entry of the stack.
LEMMA PopTakesLast ==
  ASSUME stack \in Seq(Entry), stack # << >>, stack' = SubSeq(stack, 1, Len(stack) - 1)
  PROVE  /\ stack' \in Seq(Entry)
         /\ Len(stack) \in Nat \ {0} /\ Len(stack') = Len(stack) - 1
         /\ \A k \in 1 .. Len(stack) - 1 : stack'[k] = stack[k]
<1> DEFINE n == Len(stack) - 1
<1>1. n \in Nat /\ Len(stack) \in Nat \ {0}
  BY EmptySeq
<1>2. \A k \in 1 .. n : stack[k] \in Entry
  BY <1>1, ElementOfSeq
<1> HIDE DEF n
<1>3. /\ SubSeq(stack, 1, n) \in Seq(Entry)
      /\ Len(SubSeq(stack, 1, n)) = IF 1 <= n THEN n - 1 + 1 ELSE 0
      /\ \A i \in 1 .. n - 1 + 1 : SubSeq(stack, 1, n)[i] = stack[1 + i - 1]
  BY <1>1, <1>2, SubSeqProperties
<1>4. Len(SubSeq(stack, 1, n)) = n /\ \A i \in 1 .. n : SubSeq(stack, 1, n)[i] = stack[i]
  BY <1>1, <1>3
<1> QED BY <1>1, <1>3, <1>4 DEF n

\* A pop of an entry of the program closes it, if it was an invertible call.
LEMMA PopCloses ==
  ASSUME MachineTypeOK, base < Len(stack), stack # << >>,
         stack' = SubSeq(stack, 1, Len(stack) - 1), base' = base
  PROVE  /\ OpenInvCalls' = OpenInvCalls \ {Len(stack)}
         /\ \A k \in OpenInvCalls' : stack'[k] = stack[k]
<1>1. stack \in Seq(Entry) /\ base \in Nat
  BY DEF MachineTypeOK, Entry
<1> QED BY <1>1, PopTakesLast DEF OpenInvCalls

-----------------------------------------------------------------------------
(* The invariant.                                                          *)

LEMMA MachineStarts == MachineInit => MachineInv
<1> SUFFICES ASSUME MachineInit PROVE MachineInv
  OBVIOUS
<1>1. stack \in Seq(Entry) /\ Len(stack) = 0
  BY EmptySeq DEF MachineInit
<1>2. 0 \in 0 .. MaxPrograms - 1 /\ 0 \in -1 .. MaxDepth /\ 0 <= StackMax
  BY MachineAssumption
<1>3. MachineTypeOK
  BY <1>1, <1>2 DEF MachineInit, MachineTypeOK, Entry, Retention
<1> QED BY <1>3 DEF MachineInit, MachineInv, FloorIsWanted, CallsCounted

\* restart() of a program: whatever it keeps, no call of the program is open.
LEMMA RestartKeeps ==
  ASSUME MachineInv, NEW r \in Retention, Restart(r), paired' = paired,
         left' \in 0 .. MaxPrograms - 1, retain' \in Retention,
         depth' \in -1 .. MaxDepth, floor' \in {-1, 0}, wanted' = floor',
         resumed' \in BOOLEAN, floor' <= depth', ~resumed' => depth' = floor'
  PROVE  MachineInv'
<1>1. stack \in Seq(Entry) /\ Len(stack) <= StackMax /\ StackMax \in Nat
  BY MachineAssumption DEF MachineInv, MachineTypeOK, Entry
<1>2. stack' \in Seq(Entry) /\ Len(stack') <= StackMax /\ Len(stack') \in Nat
  BY <1>1, EmptySeq, LenProperties DEF Restart
<1>3. base' = Len(stack') /\ live' = TRUE /\ failed' = FALSE
  BY DEF Restart
<1>4. MachineTypeOK'
  BY <1>2, <1>3 DEF MachineInv, MachineTypeOK, Entry
<1>5. OpenInvCalls' = {}
  BY <1>2, <1>3 DEF OpenInvCalls
<1>6. CallsCounted'
  BY <1>2, <1>3, <1>4, <1>5, FS_EmptySet DEF CallsCounted, MachineTypeOK
<1> QED BY <1>3, <1>4, <1>6 DEF MachineInv, FloorIsWanted

\* A stop leaves nothing to count.
LEMMA StopKeeps ==
  ASSUME MachineInv, live' = FALSE, failed' \in BOOLEAN, stack' = stack,
         depth' \in floor .. MaxDepth, ~failed' => depth' = floor,
         UNCHANGED Driver, paired' = paired
  PROVE  MachineInv'
<1>1. floor \in {-1, 0} /\ depth' \in -1 .. MaxDepth /\ floor <= depth'
  BY MachineAssumption DEF MachineInv, MachineTypeOK
<1>2. MachineTypeOK'
  BY <1>1 DEF MachineInv, MachineTypeOK, Driver
<1> QED BY <1>1, <1>2 DEF MachineInv, MachineTypeOK, FloorIsWanted, CallsCounted, Driver

LEMMA CallKeeps ==
  ASSUME MachineInv, live, OnCall, UNCHANGED Driver, paired' = paired
  PROVE  MachineInv'
<1> DEFINE e == [kind |-> "call", target |-> "next"]
<1>1. CASE Len(stack) < StackMax
  <2>1. stack' = Append(stack, e) /\ live' = live /\ failed' = failed /\ depth' = depth
    BY <1>1 DEF OnCall, Push, RunOn
  <2>2. stack \in Seq(Entry) /\ e \in Entry /\ Len(stack) \in Nat
    BY LenProperties DEF MachineInv, MachineTypeOK, Entry
  <2>3. stack' \in Seq(Entry) /\ Len(stack') = Len(stack) + 1
        /\ \A k \in 1 .. Len(stack) : stack'[k] = stack[k]
    BY <2>1, <2>2, AppendProperties
  <2>4. MachineTypeOK'
    BY <1>1, <2>1, <2>2, <2>3, MachineAssumption DEF MachineInv, MachineTypeOK, Driver, Entry
  <2>5. base' = base /\ wanted' = wanted /\ floor' = floor /\ resumed' = resumed
    BY DEF Driver
  <2>6. ASSUME live, paired PROVE base <= Len(stack) /\ OpenInvCalls' = OpenInvCalls
    BY <2>1, <2>2, <2>5, <2>6, PushOpens DEF MachineInv, CallsCounted
  <2>7. OpenInvCalls \subseteq 1 .. Len(stack)
    BY DEF OpenInvCalls, MachineInv, MachineTypeOK
  <2>8. CallsCounted'
    <3> SUFFICES ASSUME live', paired'
                 PROVE  /\ base <= Len(stack')
                        /\ ~resumed => /\ depth = wanted + Cardinality(OpenInvCalls)
                                       /\ \A k \in OpenInvCalls : stack'[k].target = "backward"
                                            <=> wanted = -1 /\ \A j \in OpenInvCalls : k <= j
      BY <2>1, <2>5, <2>6 DEF CallsCounted
    <3>1. live /\ paired
      BY <2>1
    <3>2. base \in Nat /\ base <= Len(stack)
      BY <2>6, <3>1 DEF MachineInv, MachineTypeOK
    <3>3. \A k \in OpenInvCalls : stack'[k] = stack[k]
      BY <2>3, <2>7
    <3> QED BY <2>2, <2>3, <3>1, <3>2, <3>3 DEF MachineInv, CallsCounted
  <2> QED BY <2>1, <2>4, <2>5, <2>8 DEF MachineInv, FloorIsWanted
<1>2. CASE ~(Len(stack) < StackMax)
  <2>1. stack' = stack /\ live' = FALSE /\ failed' = TRUE /\ depth' = depth
    BY <1>2 DEF OnCall, Push, HardStop
  <2>2. depth \in floor .. MaxDepth
    BY MachineAssumption DEF MachineInv, MachineTypeOK, FloorIsWanted
  <2> QED BY <2>1, <2>2, StopKeeps
<1> QED BY <1>1, <1>2

LEMMA InvCallKeeps ==
  ASSUME MachineInv, live, OnInvCall, UNCHANGED Driver, paired' = paired
  PROVE  MachineInv'
<1> DEFINE e == [kind |-> "inv", target |-> IF IsForward THEN "forward" ELSE "backward"]
           n == Len(stack) + 1
<1>1. /\ base' = base /\ wanted' = wanted /\ floor' = floor /\ resumed' = resumed
      /\ depth' = depth + 1 /\ depth < MaxDepth
  BY DEF Driver, OnInvCall
<1>2. depth \in -1 .. MaxDepth /\ floor \in {-1, 0} /\ floor <= depth /\ MaxDepth \in Nat
      /\ wanted = floor
  BY MachineAssumption DEF MachineInv, MachineTypeOK, FloorIsWanted
<1>3. CASE Len(stack) < StackMax
  <2>1. stack' = Append(stack, e) /\ live' = live /\ failed' = failed
    BY <1>3 DEF OnInvCall, Push, RunOn
  <2>2. stack \in Seq(Entry) /\ e \in Entry /\ Len(stack) \in Nat /\ base \in Nat
    BY LenProperties DEF MachineInv, MachineTypeOK, Entry
  <2>3. stack' \in Seq(Entry) /\ Len(stack') = n /\ stack'[n] = e
        /\ \A k \in 1 .. Len(stack) : stack'[k] = stack[k]
    BY <2>1, <2>2, AppendProperties
  <2>4. MachineTypeOK'
    BY <1>1, <1>2, <1>3, <2>1, <2>2, <2>3, MachineAssumption DEF MachineInv, MachineTypeOK, Driver, Entry
  <2>5. FloorIsWanted'
    BY <1>1, <1>2, <2>1 DEF FloorIsWanted
  <2>6. ASSUME paired, ~resumed
        PROVE  /\ depth + 1 = wanted + Cardinality(OpenInvCalls')
               /\ \A k \in OpenInvCalls' : stack'[k].target = "backward"
                    <=> wanted = -1 /\ \A j \in OpenInvCalls' : k <= j
    <3>1. base <= Len(stack) /\ OpenInvCalls \subseteq 1 .. Len(stack)
      BY <2>2, <2>6 DEF MachineInv, CallsCounted, OpenInvCalls
    <3>2. OpenInvCalls' = OpenInvCalls \cup {n}
      BY <3>1, <2>1, <2>2, <1>1, PushOpens DEF MachineInv
    <3>3. /\ depth = wanted + Cardinality(OpenInvCalls)
          /\ \A k \in OpenInvCalls : stack[k].target = "backward"
                    <=> wanted = -1 /\ \A j \in OpenInvCalls : k <= j
      BY <2>6 DEF MachineInv, CallsCounted
    <3>4. /\ IsFiniteSet(OpenInvCalls) /\ Cardinality(OpenInvCalls) \in Nat
          /\ Cardinality(OpenInvCalls) = 0 <=> OpenInvCalls = {}
      BY <2>2, OpenFinite
    <3>5. n \notin OpenInvCalls /\ \A k \in OpenInvCalls : k < n
      BY <3>1, <2>2
    <3>6. Cardinality(OpenInvCalls \cup {n}) = Cardinality(OpenInvCalls) + 1
      BY <3>4, <3>5, FS_AddElement
    <3>7. stack'[n].target = "backward" <=> wanted = -1 /\ OpenInvCalls = {}
      <4>1. stack'[n].target = "backward" <=> ~(depth >= 0)
        BY <2>3 DEF IsForward
      <4> QED BY <4>1, <3>3, <3>4, <1>2
    <3>8. \A k \in OpenInvCalls : stack'[k] = stack[k]
      BY <3>1, <2>3
    <3>9. ASSUME NEW k \in OpenInvCalls \cup {n}
          PROVE  stack'[k].target = "backward"
                    <=> wanted = -1 /\ \A j \in OpenInvCalls \cup {n} : k <= j
      <4>1. CASE k = n
        BY <4>1, <3>5, <3>7, <2>2, <3>1
      <4>2. CASE k \in OpenInvCalls
        BY <4>2, <3>3, <3>5, <3>8, <3>1, <2>2
      <4> QED BY <4>1, <4>2
    <3> QED BY <3>2, <3>3, <3>4, <3>6, <3>9, <1>2
  <2>7. CallsCounted'
    <3> SUFFICES ASSUME live', paired'
                 PROVE  /\ base <= Len(stack')
                        /\ ~resumed => /\ depth + 1 = wanted + Cardinality(OpenInvCalls')
                                       /\ \A k \in OpenInvCalls' : stack'[k].target = "backward"
                                            <=> wanted = -1 /\ \A j \in OpenInvCalls' : k <= j
      BY <1>1 DEF CallsCounted
    <3>1. base <= Len(stack)
      BY DEF MachineInv, CallsCounted
    <3> QED BY <2>2, <2>3, <2>6, <3>1
  <2> QED BY <2>4, <2>5, <2>7 DEF MachineInv
<1>4. CASE ~(Len(stack) < StackMax)
  <2>1. stack' = stack /\ live' = FALSE /\ failed' = TRUE
    BY <1>4 DEF OnInvCall, Push, HardStop
  <2>2. depth' \in floor .. MaxDepth
    BY <1>1, <1>2
  <2> QED BY <2>1, <2>2, StopKeeps
<1> QED BY <1>3, <1>4

\* Types and floor after a pop, whatever the program is.
LEMMA PopTypes ==
  ASSUME MachineInv, stack # << >>, stack' = SubSeq(stack, 1, Len(stack) - 1),
         live' = live, failed' = failed, live, depth' \in floor .. depth,
         UNCHANGED Driver, paired' = paired
  PROVE  MachineTypeOK' /\ FloorIsWanted'
<1>1. stack \in Seq(Entry) /\ Len(stack) <= StackMax /\ StackMax \in Nat
  BY MachineAssumption DEF MachineInv, MachineTypeOK, Entry
<1>2. stack' \in Seq(Entry) /\ Len(stack') <= StackMax
  BY <1>1, PopTakesLast
<1>3. depth' \in -1 .. MaxDepth /\ floor <= depth'
  BY MachineAssumption DEF MachineInv, MachineTypeOK
<1>4. MachineTypeOK'
  BY <1>2, <1>3 DEF MachineInv, MachineTypeOK, Driver, Entry
<1> QED BY <1>3, <1>4 DEF MachineInv, FloorIsWanted, Driver

LEMMA RetKeeps ==
  ASSUME MachineInv, live, OnRet, UNCHANGED Driver, paired' = paired
  PROVE  MachineInv'
<1>1. depth' = depth /\ depth \in floor .. MaxDepth /\ depth \in floor .. depth
  BY MachineAssumption DEF MachineInv, MachineTypeOK, FloorIsWanted, OnRet
<1>2. CASE stack # << >>
  <2>1. stack' = SubSeq(stack, 1, Len(stack) - 1) /\ live' = live /\ failed' = failed
    BY <1>2 DEF OnRet, Pop, RunOn
  <2>2. MachineTypeOK' /\ FloorIsWanted'
    BY <1>1, <1>2, <2>1, PopTypes
  <2>3. ASSUME paired
        PROVE  base <= Len(stack') /\ OpenInvCalls' = OpenInvCalls
               /\ \A k \in OpenInvCalls' : stack'[k] = stack[k]
    <3>1. Len(stack) > base /\ stack[Len(stack)].kind = "call"
      BY <2>3 DEF OnRet, Returns
    <3>2. stack \in Seq(Entry) /\ base \in Nat /\ base' = base
      BY DEF MachineInv, MachineTypeOK, Entry, Driver
    <3>3. Len(stack) \in Nat /\ Len(stack') = Len(stack) - 1
      BY <1>2, <2>1, <3>2, PopTakesLast
    <3>4. OpenInvCalls' = OpenInvCalls \ {Len(stack)} /\ \A k \in OpenInvCalls' : stack'[k] = stack[k]
      BY <1>2, <2>1, <3>1, <3>2, <3>3, PopCloses DEF MachineInv
    <3>5. Len(stack) \notin OpenInvCalls
      BY <3>1 DEF OpenInvCalls
    <3> QED BY <3>1, <3>2, <3>3, <3>4, <3>5
  <2>4. base' = base /\ wanted' = wanted /\ resumed' = resumed
    BY DEF Driver
  <2>5. CallsCounted'
    <3> SUFFICES ASSUME paired
                 PROVE  /\ base <= Len(stack')
                        /\ ~resumed => /\ depth = wanted + Cardinality(OpenInvCalls)
                                       /\ \A k \in OpenInvCalls : stack'[k].target = "backward"
                                            <=> wanted = -1 /\ \A j \in OpenInvCalls : k <= j
      BY <1>1, <2>3, <2>4 DEF CallsCounted
    <3> QED BY <2>3 DEF MachineInv, CallsCounted
  <2> QED BY <2>2, <2>5 DEF MachineInv
<1>3. CASE stack = << >>
  <2>1. stack' = stack /\ live' = FALSE /\ failed' = TRUE
    BY <1>3 DEF OnRet, Pop, HardStop
  <2> QED BY <1>1, <2>1, StopKeeps
<1> QED BY <1>2, <1>3

LEMMA InvRetKeeps ==
  ASSUME MachineInv, live, OnInvRet, UNCHANGED Driver, paired' = paired
  PROVE  MachineInv'
<1>1. /\ depth \in floor .. MaxDepth /\ floor \in {-1, 0} /\ MaxDepth \in Nat
      /\ base' = base /\ wanted' = wanted /\ resumed' = resumed /\ floor' = floor /\ wanted = floor
  BY MachineAssumption DEF MachineInv, MachineTypeOK, FloorIsWanted, Driver
<1>2. CASE depth <= floor
  <2>1. stack' = stack /\ live' = FALSE /\ failed' = TRUE /\ depth' = depth
    BY <1>2 DEF OnInvRet, HardStop
  <2> QED BY <1>1, <2>1, StopKeeps
<1>3. CASE ~(depth <= floor) /\ stack = << >>
  <2>1. stack' = stack /\ live' = FALSE /\ failed' = TRUE /\ depth' = depth - 1
    BY <1>3 DEF OnInvRet, Pop, HardStop
  <2>2. depth' \in floor .. MaxDepth
    BY <1>1, <1>3, <2>1
  <2> QED BY <2>1, <2>2, StopKeeps
<1>4. CASE ~(depth <= floor) /\ stack # << >>
  <2>1. /\ stack' = SubSeq(stack, 1, Len(stack) - 1) /\ live' = live /\ failed' = failed
        /\ depth' = depth - 1
    BY <1>4 DEF OnInvRet, Pop, RunOn
  <2>2. depth' \in floor .. depth
    BY <1>1, <1>4, <2>1
  <2>3. MachineTypeOK' /\ FloorIsWanted'
    BY <1>4, <2>1, <2>2, PopTypes
  <2>4. ASSUME paired
        PROVE  /\ base <= Len(stack')
               /\ ~resumed => /\ depth - 1 = wanted + Cardinality(OpenInvCalls')
                              /\ \A k \in OpenInvCalls' : stack'[k].target = "backward"
                                   <=> wanted = -1 /\ \A j \in OpenInvCalls' : k <= j
    <3> DEFINE n == Len(stack)
    <3>1. n > base /\ stack[n].kind = "inv"
      BY <2>4 DEF OnInvRet, Returns
    <3>2. stack \in Seq(Entry) /\ base \in Nat
      BY DEF MachineInv, MachineTypeOK, Entry
    <3>3. n \in Nat /\ Len(stack') = n - 1
      BY <1>4, <2>1, <3>2, PopTakesLast
    <3>4. OpenInvCalls' = OpenInvCalls \ {n} /\ \A k \in OpenInvCalls' : stack'[k] = stack[k]
      BY <1>1, <1>4, <2>1, <3>1, <3>2, <3>3, PopCloses DEF MachineInv
    <3>5. n \in OpenInvCalls /\ \A k \in OpenInvCalls : k <= n
      BY <3>1, <3>2, <3>3 DEF OpenInvCalls
    <3>6. IsFiniteSet(OpenInvCalls) /\ Cardinality(OpenInvCalls) \in Nat
      BY <3>2, OpenFinite
    <3>7. Cardinality(OpenInvCalls \ {n}) = Cardinality(OpenInvCalls) - 1
      BY <3>5, <3>6, FS_RemoveElement
    <3>8. ASSUME ~resumed
          PROVE  /\ depth = wanted + Cardinality(OpenInvCalls)
                 /\ \A k \in OpenInvCalls : stack[k].target = "backward"
                                   <=> wanted = -1 /\ \A j \in OpenInvCalls : k <= j
      BY <2>4, <3>8 DEF MachineInv, CallsCounted
    <3>9. \A k \in OpenInvCalls \ {n} : (\A j \in OpenInvCalls : k <= j)
                                        <=> (\A j \in OpenInvCalls \ {n} : k <= j)
      BY <3>5
    <3>10. base <= Len(stack')
      BY <3>1, <3>2, <3>3
    <3>11. ASSUME ~resumed PROVE depth - 1 = wanted + Cardinality(OpenInvCalls')
      BY <3>4, <3>6, <3>7, <3>8, <3>11, <1>1
    <3>12. ASSUME ~resumed, NEW k \in OpenInvCalls \ {n}
           PROVE  stack'[k].target = "backward" <=> wanted = -1 /\ \A j \in OpenInvCalls \ {n} : k <= j
      BY <3>4, <3>8, <3>9, <3>12
    <3> QED BY <3>4, <3>10, <3>11, <3>12
  <2>5. CallsCounted'
    BY <1>1, <2>1, <2>4 DEF CallsCounted
  <2> QED BY <2>3, <2>5 DEF MachineInv
<1> QED BY <1>2, <1>3, <1>4

LEMMA InstructionKeeps ==
  ASSUME MachineInv, Instruction, paired' = paired
  PROVE  MachineInv'
<1>1. live /\ UNCHANGED Driver /\ depth \in floor .. MaxDepth
  BY MachineAssumption DEF Instruction, MachineInv, MachineTypeOK, FloorIsWanted
<1>2. CASE OnHalt
  <2>1. CASE depth # floor
    BY <1>1, <1>2, <2>1, StopKeeps DEF OnHalt, HardStop
  <2>2. CASE depth = floor
    BY <1>1, <1>2, <2>2, StopKeeps DEF OnHalt, SoftStop
  <2> QED BY <2>1, <2>2
<1>3. CASE OnOther
  <2>1. CASE HardStop
    BY <1>1, <1>3, <2>1, StopKeeps DEF OnOther, HardStop
  <2>2. CASE live' = TRUE /\ failed' \in BOOLEAN
    <3>1. stack' = stack /\ depth' = depth /\ base' = base
      BY <1>1, <1>3 DEF OnOther, Driver
    <3>2. MachineTypeOK'
      BY <1>1, <2>2, <3>1 DEF MachineInv, MachineTypeOK, Driver
    <3>3. FloorIsWanted'
      BY <1>1, <2>2, <3>1 DEF MachineInv, FloorIsWanted, Driver
    <3>4. CallsCounted'
      BY <1>1, <2>2, <3>1 DEF MachineInv, CallsCounted, OpenInvCalls, Driver
    <3> QED BY <3>2, <3>3, <3>4 DEF MachineInv
  <2> QED BY <1>3, <2>1, <2>2 DEF OnOther
<1> QED BY <1>1, <1>2, <1>3, CallKeeps, RetKeeps, InvCallKeeps, InvRetKeeps DEF Instruction

LEMMA ReplayKeeps ==
  ASSUME MachineInv, Replay, paired' = paired
  PROVE  MachineInv'
<1>1. PICK r \in Retention : /\ left' \in 0 .. MaxPrograms - 1 /\ retain' = r
                             /\ Restart(r) /\ ~live /\ (left = 0 \/ failed)
  BY MachineAssumption DEF Replay, RunEach
<1>2. /\ depth \in -1 .. MaxDepth /\ floor \in {-1, 0} /\ wanted = floor /\ floor <= depth
      /\ ~failed => depth = floor
      /\ resumed \in BOOLEAN /\ failed \in BOOLEAN /\ MaxDepth \in Nat
  BY <1>1, MachineAssumption DEF MachineInv, MachineTypeOK, FloorIsWanted
<1>3. ASSUME NEW d \in {0, -1}, SetDirection(d), wanted' = d, resumed' = FALSE
      PROVE  MachineInv'
  <2>1. depth' = d /\ floor' = d /\ d \in -1 .. MaxDepth /\ d <= d
    BY <1>2, <1>3 DEF SetDirection
  <2> QED BY <1>1, <1>3, <2>1, RestartKeeps
<1>4. ASSUME resumed' = (resumed \/ failed), UNCHANGED <<depth, floor, wanted>>
      PROVE  MachineInv'
  <2>1. resumed' \in BOOLEAN /\ (~resumed' => depth' = floor')
    BY <1>2, <1>4
  <2> QED BY <1>1, <1>2, <1>4, <2>1, RestartKeeps
<1> QED BY <1>3, <1>4 DEF Replay

LEMMA NextProgramKeeps ==
  ASSUME MachineInv, NextProgram, paired' = paired
  PROVE  MachineInv'
<1>1. /\ depth' = depth /\ floor' = floor /\ wanted' = wanted /\ resumed' = resumed /\ retain' = retain
      /\ left' = left - 1 /\ left > 0 /\ ~live /\ ~failed /\ Restart(retain)
  BY DEF NextProgram
<1>2. /\ depth \in -1 .. MaxDepth /\ floor \in {-1, 0} /\ wanted = floor /\ depth = floor
      /\ floor <= depth /\ resumed \in BOOLEAN /\ retain \in Retention
  BY <1>1 DEF MachineInv, MachineTypeOK, FloorIsWanted
<1>3. left' \in 0 .. MaxPrograms - 1
  BY <1>1, MachineAssumption DEF MachineInv, MachineTypeOK
<1> QED BY <1>1, <1>2, <1>3, RestartKeeps

LEMMA MachineStep == MachineInv /\ [MachineNext]_machineVars => MachineInv'
<1>1. ASSUME MachineInv, MachineNext PROVE MachineInv'
  BY <1>1, ReplayKeeps, NextProgramKeeps, InstructionKeeps DEF MachineNext
<1>2. ASSUME MachineInv, UNCHANGED machineVars PROVE MachineInv'
  BY <1>2 DEF machineVars, MachineInv, MachineTypeOK, FloorIsWanted, CallsCounted, OpenInvCalls
<1> QED BY <1>1, <1>2

-----------------------------------------------------------------------------
(* Theorems.                                                               *)

\* For every size of the stack and whatever programs do, the stack stays within it, the
\* depth never goes below the floor of the direction, and the calls a paired program has
\* open are what its depth counts.
THEOREM MachineInvariant == MachineSpec => []MachineInv
BY MachineStarts, MachineStep, PTL DEF MachineSpec

\* Inside an invertible call a paired program runs forwards, outside in the direction of
\* the replay, and only the outermost call of a backward replay takes its backward target.
THEOREM DirectionSuspendedInside == MachineSpec => []SuspendedInside
<1>1. ASSUME MachineInv PROVE SuspendedInside
  <2> SUFFICES ASSUME live, paired, ~resumed
               PROVE  IsForward <=> wanted = 0 \/ OpenInvCalls # {}
    BY <1>1 DEF MachineInv, CallsCounted, SuspendedInside
  <2>1. base \in Nat /\ stack \in Seq(Entry) /\ wanted \in {-1, 0}
    BY <1>1 DEF MachineInv, MachineTypeOK, Entry
  <2>2. Cardinality(OpenInvCalls) \in Nat /\ (Cardinality(OpenInvCalls) = 0 <=> OpenInvCalls = {})
    BY <2>1, OpenFinite
  <2>3. depth = wanted + Cardinality(OpenInvCalls)
    BY <1>1 DEF MachineInv, CallsCounted
  <2> QED BY <2>1, <2>2, <2>3 DEF IsForward
<1> QED BY <1>1, MachineInvariant, PTL

\* A program that was not refused leaves no suspension to the next one: on_halt() refuses
\* every program that would, paired or not, after any number of calls and failed returns.
THEOREM SuspensionDoesNotLeak == MachineSpec => SuspensionEnds
<1>1. ASSUME MachineInv, [MachineNext]_machineVars
      PROVE  [~live /\ live' /\ ~failed => depth' = floor']_machineVars
  <2> SUFFICES ASSUME MachineNext, ~live, live', ~failed PROVE depth' = floor'
    BY <1>1
  <2>1. depth = floor
    BY <1>1 DEF MachineInv, FloorIsWanted
  <2>2. CASE Replay
    BY <2>1, <2>2 DEF Replay, SetDirection
  <2>3. CASE NextProgram
    BY <2>1, <2>3 DEF NextProgram
  <2> QED BY <2>2, <2>3 DEF MachineNext, Instruction
<1> QED BY <1>1, MachineInvariant, PTL DEF MachineSpec, SuspensionEnds
=============================================================================
