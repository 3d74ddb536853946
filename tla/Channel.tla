------------------------------ MODULE Channel -------------------------------
(***************************************************************************)
(* The broadcast channel under memory-mapped input and output              *)
(* (lib/sim3/subsystems/ram/broadcast/pubsub.hpp): events linked in both   *)
(* directions, the head and the tail of the line that is in force, and     *)
(* endpoints that each hold a pointer to one event.  A revert leaves the   *)
(* events it takes back to whoever points at them, marked empty and linked *)
(* to the new tail.                                                        *)
(*                                                                         *)
(* Events are numbered in the order they are allocated and never reused;   *)
(* an event nobody points at any more is one nobody reaches.               *)
(***************************************************************************)
EXTENDS Integers, Sequences, FiniteSets

CONSTANTS
  Endpoints,   \* ids of endpoints, positive numbers; new_endpoint() counts up
  Values,      \* what is published
  MaxEvents    \* bound: events allocated

ASSUME ChannelAssumption == Endpoints \subseteq Nat \ {0} /\ MaxEvents \in Nat \ {0}

Null == 0
Events == 1 .. MaxEvents

VARIABLES
  size,        \* events allocated
  node,        \* per event: [value, publisher, empty, next, prev, displacement]
  head, tail,  \* of the channel
  at           \* per endpoint: the event it points to, Null before it exists

vars == <<size, node, head, tail, at>>

NewEvent(value, publisher, prev, displacement) ==
  [value |-> value, publisher |-> publisher, empty |-> FALSE,
   next |-> Null, prev |-> prev, displacement |-> displacement]

Unused == [value |-> 0, publisher |-> 0, empty |-> TRUE, next |-> Null, prev |-> Null, displacement |-> 0]

Init ==
  \E v \in Values :
    /\ size = 1
    /\ node = [n \in Events |-> IF n = 1 THEN NewEvent(v, 0, Null, 0) ELSE Unused]
    /\ head = 1 /\ tail = 1
    /\ at = [e \in Endpoints |-> Null]

-----------------------------------------------------------------------------
(* Walks through the graph                                                   *)

\* The event d links after the head; event_at(d) when d is no more than the
\* tail's displacement.
EventAt ==
  LET f[d \in 0 .. MaxEvents] == IF d = 0 THEN head ELSE node[f[d - 1]].next
  IN f

\* Step along a link and on over empty events.
NextEvent(n) ==
  LET f[m \in Events] == IF node[m].empty /\ node[m].next # Null THEN f[node[m].next] ELSE m
  IN IF node[n].next = Null THEN n ELSE f[node[n].next]

PreviousEvent(n) ==
  LET f[m \in Events] == IF node[m].empty /\ node[m].prev # Null THEN f[node[m].prev] ELSE m
  IN IF node[n].prev = Null THEN n ELSE f[node[n].prev]

\* The line in force, from the head to event n.
LineTo(n) == {EventAt[d] : d \in 0 .. node[n].displacement}

\* revert_event(): the event before the publisher's last write up to time, or the head.
RevertTarget(publisher, time) ==
  LET own == {d \in 1 .. time : node[EventAt[d]].publisher = publisher}
  IN IF own = {} THEN head ELSE EventAt[(CHOOSE d \in own : \A c \in own : c <= d) - 1]

\* Mutant: the events taken back are not marked.
Reverted_Unmarked(target) ==
  [n \in Events |->
    IF n \in LineTo(tail) /\ node[n].displacement > node[target].displacement
      THEN [node[n] EXCEPT !.next = target, !.prev = target]
    ELSE IF n = target THEN [node[n] EXCEPT !.next = Null]
    ELSE node[n]]

\* Mutant: the new tail keeps its child.
Reverted_KeepsChild(target) ==
  [n \in Events |->
    IF n \in LineTo(tail) /\ node[n].displacement > node[target].displacement
      THEN [node[n] EXCEPT !.next = target, !.prev = target, !.empty = TRUE]
    ELSE node[n]]

Reverted(target) ==
  [n \in Events |->
    IF n \in LineTo(tail) /\ node[n].displacement > node[target].displacement
      THEN [node[n] EXCEPT !.next = target, !.prev = target, !.empty = TRUE]
    ELSE IF n = target THEN [node[n] EXCEPT !.next = Null]
    ELSE node[n]]

-----------------------------------------------------------------------------
(* Endpoints                                                                 *)

Exists(e) == at[e] # Null

MoveTo(e, n) == at' = [at EXCEPT ![e] = n]

\* new_endpoint(), with the next id.
NewEndpoint(e) ==
  /\ ~Exists(e) /\ \A f \in Endpoints : f < e => Exists(f)
  /\ UNCHANGED <<size, node, head, tail>>
  /\ MoveTo(e, tail)

\* clone(): at the event of f's displacement, which must not be beyond the tail.
CloneEndpoint(e, f) ==
  /\ ~Exists(e) /\ \A g \in Endpoints : g < e => Exists(g)
  /\ Exists(f) /\ node[at[f]].displacement <= node[tail].displacement
  /\ UNCHANGED <<size, node, head, tail>>
  /\ MoveTo(e, EventAt[node[at[f]].displacement])

NextValue(e) ==
  /\ Exists(e) /\ NextEvent(at[e]) # at[e]
  /\ UNCHANGED <<size, node, head, tail>>
  /\ MoveTo(e, NextEvent(at[e]))

UnreadValue(e) ==
  /\ Exists(e) /\ PreviousEvent(at[e]) # at[e]
  /\ UNCHANGED <<size, node, head, tail>>
  /\ MoveTo(e, PreviousEvent(at[e]))

SetToHead(e) == Exists(e) /\ UNCHANGED <<size, node, head, tail>> /\ MoveTo(e, EventAt[0])

SetToTail(e) == Exists(e) /\ UNCHANGED <<size, node, head, tail>> /\ MoveTo(e, tail)

AppendValue(e, v) ==
  /\ Exists(e) /\ size < MaxEvents
  /\ size' = size + 1
  /\ node' = [node EXCEPT ![tail].next = size',
                          ![size'] = NewEvent(v, e, tail, node[tail].displacement + 1)]
  /\ tail' = size'
  /\ UNCHANGED head
  /\ MoveTo(e, tail')

\* unwrite(): "Will crash if time is greater than tail's displacement."
UnwriteValue(e) ==
  /\ Exists(e) /\ node[at[e]].displacement <= node[tail].displacement
  /\ LET target == RevertTarget(e, node[at[e]].displacement)
     IN /\ node' = Reverted(target)
        /\ tail' = target
        /\ UNCHANGED <<size, head>>
        /\ MoveTo(e, target)

\* Channel::clear(): a new head behind the old one, which is not marked empty.
ClearChannel(v) ==
  /\ size < MaxEvents
  /\ size' = size + 1
  /\ node' = [Reverted(head) EXCEPT ![head].next = size', ![head].prev = size',
                                    ![size'] = NewEvent(v, 0, Null, 0)]
  /\ head' = size' /\ tail' = size'
  /\ UNCHANGED at

Next ==
  \/ \E e \in Endpoints :
       \/ NewEndpoint(e) \/ NextValue(e) \/ UnreadValue(e)
       \/ SetToHead(e) \/ SetToTail(e) \/ UnwriteValue(e)
       \/ \E v \in Values : AppendValue(e, v)
       \/ \E f \in Endpoints : CloneEndpoint(e, f)
  \/ \E v \in Values : ClearChannel(v)

Spec == Init /\ [][Next]_vars

-----------------------------------------------------------------------------
(* Properties                                                                *)

Line == LineTo(tail)

\* After any appends, reverts and clears the line in force is a list: event_at()
\* never walks off it, the links of neighbours agree, displacements count from
\* the head, nothing in it is marked empty, and it ends at the tail.
LineIntact ==
  /\ EventAt[node[tail].displacement] = tail
  /\ node[head].prev = Null /\ node[tail].next = Null
  /\ \A d \in 0 .. node[tail].displacement :
       LET n == EventAt[d]
       IN /\ n # Null /\ node[n].displacement = d /\ ~node[n].empty
          /\ d > 0 => node[n].prev = EventAt[d - 1]
=============================================================================
