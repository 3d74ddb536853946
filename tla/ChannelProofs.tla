--------------------------- MODULE ChannelProofs ----------------------------
(***************************************************************************)
(* The broadcast channel: for every set of endpoints and values and every  *)
(* number of events, the line in force stays a list through appends,       *)
(* reverts and clears, no endpoint comes to rest on an event that was      *)
(* taken back while there is one to go on to, and the channel implements   *)
(* the abstract log.                                                       *)
(***************************************************************************)
EXTENDS MCChannel, NatFacts

-----------------------------------------------------------------------------
(* Walks.  A recursive function is the fixed point CHOOSE picks, if there  *)
(* is one: it is built up to a bound, by induction.                        *)

\* event_at(): the head, and from each event its child.
LEMMA EventAtUnfold ==
  EventAt = [d \in 0 .. MaxEvents |-> IF d = 0 THEN head ELSE node[EventAt[d - 1]].next]
<1> DEFINE N == MaxEvents
           Walks(f, k) == f = [d \in 0 .. k |-> IF d = 0 THEN head ELSE node[f[d - 1]].next]
           S == {k \in Nat : \E f : Walks(f, k)}
<1>0. N \in Nat
  BY ChannelAssumption
<1>1. 0 \in S
  <2> DEFINE f == [d \in 0 .. 0 |-> head]
  <2>1. Walks(f, 0)
    OBVIOUS
  <2> QED BY <2>1
<1>2. ASSUME NEW k \in Nat, k \in S PROVE k + 1 \in S
  <2>1. PICK f : Walks(f, k)
    BY <1>2
  <2> DEFINE g == [d \in 0 .. k + 1 |-> IF d <= k THEN f[d] ELSE node[f[k]].next]
  <2>2. \A d \in 0 .. k : g[d] = f[d]
    OBVIOUS
  <2>3. g[k + 1] = node[f[k]].next
    OBVIOUS
  <2>4. ASSUME NEW d \in 0 .. k + 1 PROVE g[d] = IF d = 0 THEN head ELSE node[g[d - 1]].next
    <3>1. CASE d = 0
      BY <2>1, <2>2, <3>1
    <3>2. CASE d \in 1 .. k
      <4>1. f[d] = node[f[d - 1]].next
        BY <2>1, <3>2
      <4>2. d \in 0 .. k /\ d - 1 \in 0 .. k /\ d # 0
        BY <3>2
      <4> QED BY <2>2, <4>1, <4>2
    <3>3. CASE d = k + 1
      <4>1. d - 1 = k /\ k \in 0 .. k /\ d # 0
        BY <3>3
      <4> QED BY <2>2, <2>3, <3>3, <4>1
    <3> QED BY <3>1, <3>2, <3>3
  <2>5. Walks(g, k + 1)
    <3>1. g = [d \in 0 .. k + 1 |-> g[d]]
      OBVIOUS
    <3> HIDE DEF g
    <3> QED BY <2>4, <3>1
  <2> HIDE DEF g, Walks
  <2>6. \E h : Walks(h, k + 1)
    BY <2>5
  <2> QED BY <2>6
<1> HIDE DEF S
<1>3. Nat \subseteq S
  BY <1>1, <1>2, SetInduction
<1>4. \E f : Walks(f, N)
  BY <1>0, <1>3 DEF S
<1> QED BY <1>4 DEF EventAt

\* f leads from everything that is gone to where the steps end; each step lowers a rank.
Leads(f, S, gone, step) == f = [m \in S |-> IF m \in gone THEN f[step[m]] ELSE m]

Descends(S, gone, step, rank, K) ==
  /\ K \in Nat
  /\ \A m \in S : rank[m] \in 0 .. K
  /\ \A m \in S : m \in gone => step[m] \in S /\ rank[step[m]] < rank[m]

\* A walk along steps that lower a rank, up to where it stops.
LEMMA ChaseExists ==
  ASSUME NEW S, NEW gone, NEW step, NEW rank, NEW K, Descends(S, gone, step, rank, K)
  PROVE  \E f : Leads(f, S, gone, step)
<1> USE DEF Descends
<1> DEFINE T(k) == {m \in S : rank[m] < k}
           Chases(f, k) == f = [m \in T(k) |-> IF m \in gone THEN f[step[m]] ELSE m]
           I == {k \in Nat : \E f : Chases(f, k)}
<1>1. 0 \in I
  <2>1. T(0) = {}
    OBVIOUS
  <2> DEFINE f == [m \in T(0) |-> 0]
  <2>2. Chases(f, 0)
    BY <2>1
  <2> QED BY <2>2
<1>2. ASSUME NEW k \in Nat, k \in I PROVE k + 1 \in I
  <2>1. PICK f : Chases(f, k)
    BY <1>2
  <2> DEFINE g == [m \in T(k + 1) |-> IF m \in gone THEN f[step[m]] ELSE m]
  <2>2. \A m \in T(k) : m \in T(k + 1) /\ g[m] = f[m]
    BY <2>1
  <2>3. ASSUME NEW m \in T(k + 1), m \in gone PROVE step[m] \in T(k)
    <3>1. m \in S /\ rank[m] \in Int /\ rank[m] < k + 1
      OBVIOUS
    <3>2. step[m] \in S /\ rank[step[m]] \in Int /\ rank[step[m]] < rank[m]
      BY <2>3, <3>1
    <3>3. rank[step[m]] < k
      BY <3>1, <3>2
    <3> QED BY <3>2, <3>3
  <2> HIDE DEF T
  <2>4. \A m \in T(k + 1) : g[m] = IF m \in gone THEN g[step[m]] ELSE m
    BY <2>2, <2>3
  <2>5. Chases(g, k + 1)
    <3>1. g = [m \in T(k + 1) |-> g[m]]
      OBVIOUS
    <3> HIDE DEF g
    <3> QED BY <2>4, <3>1
  <2> HIDE DEF g, Chases
  <2>6. \E h : Chases(h, k + 1)
    BY <2>5
  <2> QED BY <2>6
<1> HIDE DEF I
<1>3. Nat \subseteq I
  BY <1>1, <1>2, SetInduction
<1>4. PICK f : Chases(f, K + 1)
  <2> HIDE DEF Chases
  <2>1. K + 1 \in Nat
    OBVIOUS
  <2> QED BY <1>3, <2>1 DEF I
<1>5. T(K + 1) = S
  OBVIOUS
<1> HIDE DEF T
<1>6. Leads(f, S, gone, step)
  BY <1>4, <1>5 DEF Leads
<1> QED BY <1>6

\* It stops where nothing leads on, and within every set the steps do not leave.
LEMMA ChaseStops ==
  ASSUME NEW S, NEW gone, NEW step, NEW rank, NEW K, Descends(S, gone, step, rank, K),
         NEW R \in SUBSET S, \A m \in R : m \in gone => step[m] \in R,
         NEW f, Leads(f, S, gone, step)
  PROVE  \A m \in R : f[m] \in R /\ f[m] \notin gone
<1> USE DEF Descends, Leads
<1> DEFINE I == {k \in Nat : \A m \in R : rank[m] < k => f[m] \in R /\ f[m] \notin gone}
<1>0. \A m \in S : f[m] = IF m \in gone THEN f[step[m]] ELSE m
  OBVIOUS
<1>1. 0 \in I
  OBVIOUS
<1>2. ASSUME NEW k \in Nat, k \in I PROVE k + 1 \in I
  <2>1. ASSUME NEW m \in R, rank[m] < k + 1 PROVE f[m] \in R /\ f[m] \notin gone
    <3>1. CASE m \notin gone
      BY <1>0, <3>1
    <3>2. CASE m \in gone
      <4>1. step[m] \in R /\ rank[step[m]] \in Int /\ rank[step[m]] < rank[m] /\ rank[m] \in Int
        BY <3>2
      <4>2. rank[step[m]] < k
        BY <2>1, <4>1
      <4>3. f[step[m]] \in R /\ f[step[m]] \notin gone
        BY <1>2, <4>1, <4>2
      <4>4. f[m] = f[step[m]]
        BY <1>0, <3>2
      <4> QED BY <4>3, <4>4
    <3> QED BY <3>1, <3>2
  <2> QED BY <2>1
<1> HIDE DEF I
<1>3. Nat \subseteq I
  BY <1>1, <1>2, SetInduction
<1>4. \A m \in R : rank[m] < K + 1
  OBVIOUS
<1> QED BY <1>3, <1>4 DEF I

-----------------------------------------------------------------------------
(* The inductive invariant.                                                *)

EventRecord ==
  [value : Values \cup {0}, publisher : Endpoints \cup {0}, empty : BOOLEAN,
   next : 0 .. MaxEvents, prev : 0 .. MaxEvents, displacement : Nat]

\* Pointers lead to events that were allocated, and an event is no further from a head
\* than there are events before it.
Allocated ==
  /\ size \in Events /\ head \in 1 .. size /\ tail \in 1 .. size
  /\ node \in [Events -> EventRecord]
  /\ at \in [Endpoints -> 0 .. size]
  /\ \A n \in Events : IF n <= size
       THEN node[n].next \in 0 .. size /\ node[n].prev \in 0 .. size /\ node[n].displacement < n
       ELSE node[n].next = Null /\ node[n].prev = Null

\* An event that was taken back leads to one nearer to the head it hung from: whoever
\* follows the links of such events gets somewhere.
DetoursEnd ==
  \A n \in 1 .. size : node[n].empty =>
    /\ node[n].next # Null /\ node[node[n].next].displacement < node[n].displacement
    /\ node[n].prev # Null /\ node[node[n].prev].displacement < node[n].displacement

ChannelInv == Allocated /\ DetoursEnd /\ LineIntact

\* An endpoint that moves comes to rest on an event that was not taken back.
Lands == \A e \in Endpoints : at'[e] # at[e] => ~node'[at'[e]].empty

-----------------------------------------------------------------------------
(* What the invariant says of the walks.                                   *)

\* E is the walk of N links from start, and g one of k.
WalkOf(E, N, start, links) == E = [d \in 0 .. N |-> IF d = 0 THEN start ELSE links[E[d - 1]].next]
Follows(g, k, start, links) == g[0] = start /\ \A d \in 1 .. k : g[d] = links[g[d - 1]].next

\* A walk is the only one with its start and its links.
LEMMA WalkUnique ==
  ASSUME NEW N \in Nat, NEW E, NEW g, NEW links, NEW start, NEW k \in 0 .. N,
         WalkOf(E, N, start, links), Follows(g, k, start, links)
  PROVE  \A d \in 0 .. k : E[d] = g[d]
<1> USE DEF WalkOf, Follows
<1> DEFINE S == {d \in Nat : d <= k => E[d] = g[d]}
<1>0. \A d \in 0 .. N : E[d] = IF d = 0 THEN start ELSE links[E[d - 1]].next
  OBVIOUS
<1>1. 0 \in S
  BY <1>0
<1>2. ASSUME NEW d \in Nat, d \in S PROVE d + 1 \in S
  <2> SUFFICES ASSUME d + 1 <= k PROVE E[d + 1] = g[d + 1]
    OBVIOUS
  <2>1. d + 1 \in 0 .. N /\ d + 1 \in 1 .. k /\ d + 1 # 0 /\ (d + 1) - 1 = d /\ d <= k
    OBVIOUS
  <2>2. E[d + 1] = links[E[d]].next
    BY <1>0, <2>1
  <2>3. g[d + 1] = links[g[d]].next
    BY <2>1
  <2>4. E[d] = g[d]
    BY <1>2, <2>1
  <2> QED BY <2>2, <2>3, <2>4
<1> HIDE DEF S
<1>3. Nat \subseteq S
  BY <1>1, <1>2, SetInduction
<1>4. ASSUME NEW d \in 0 .. k PROVE E[d] = g[d]
  <2>1. d \in Nat /\ d <= k
    OBVIOUS
  <2> QED BY <1>3, <2>1 DEF S
<1> QED BY <1>4

\* The line in force, as a walk.
LEMMA LineFacts ==
  ASSUME Allocated, LineIntact, NEW D, D = node[tail].displacement
  PROVE  /\ D \in 0 .. size - 1 /\ D \in 0 .. MaxEvents
         /\ EventAt[0] = head /\ EventAt[D] = tail
         /\ \A d \in 0 .. D : /\ EventAt[d] \in 1 .. size /\ EventAt[d] \in Events
                              /\ node[EventAt[d]].displacement = d /\ ~node[EventAt[d]].empty
         /\ \A d \in 1 .. D : /\ EventAt[d] = node[EventAt[d - 1]].next
                              /\ node[EventAt[d]].prev = EventAt[d - 1]
<1>0. MaxEvents \in Nat /\ size \in 1 .. MaxEvents /\ head \in 1 .. size /\ tail \in 1 .. size
  BY ChannelAssumption DEF Allocated, Events
<1>1. \A n \in 1 .. size : n \in Events /\ node[n].next \in 0 .. size /\ node[n].displacement \in Nat /\ node[n].displacement < n
  BY <1>0 DEF Allocated, Events, EventRecord
<1>2. D \in 0 .. size - 1 /\ D \in 0 .. MaxEvents
  BY <1>0, <1>1
<1>3. \A d \in 0 .. MaxEvents : EventAt[d] = IF d = 0 THEN head ELSE node[EventAt[d - 1]].next
  BY EventAtUnfold
<1>4. EventAt[0] = head /\ EventAt[D] = tail
  BY <1>0, <1>3 DEF LineIntact
<1>5. \A d \in 0 .. D : EventAt[d] # Null /\ node[EventAt[d]].displacement = d /\ ~node[EventAt[d]].empty
  BY DEF LineIntact
<1>6. \A d \in 1 .. D : node[EventAt[d]].prev = EventAt[d - 1]
  <2>1. \A d \in 1 .. D : d \in 0 .. D /\ d > 0
    BY <1>2
  <2> QED BY <2>1 DEF LineIntact
<1>7. \A d \in 1 .. D : EventAt[d] = node[EventAt[d - 1]].next
  BY <1>0, <1>2, <1>3
<1> DEFINE S == {d \in Nat : d <= D => EventAt[d] \in 1 .. size}
<1>8. 0 \in S
  BY <1>0, <1>4
<1>9. ASSUME NEW d \in Nat, d \in S PROVE d + 1 \in S
  <2> SUFFICES ASSUME d + 1 <= D PROVE EventAt[d + 1] \in 1 .. size
    OBVIOUS
  <2>1. d + 1 \in 1 .. D /\ d + 1 \in 0 .. D /\ (d + 1) - 1 = d /\ d <= D
    BY <1>2
  <2>2. EventAt[d] \in 1 .. size
    BY <1>9, <2>1
  <2>3. EventAt[d + 1] = node[EventAt[d]].next
    BY <1>7, <2>1
  <2>4. EventAt[d + 1] \in 0 .. size /\ EventAt[d + 1] # 0
    BY <1>1, <1>5, <2>1, <2>2, <2>3 DEF Null
  <2> QED BY <1>0, <2>4
<1> HIDE DEF S
<1>10. Nat \subseteq S
  BY <1>8, <1>9, SetInduction
<1>11. \A d \in 0 .. D : EventAt[d] \in 1 .. size
  BY <1>2, <1>10 DEF S
<1> QED BY <1>1, <1>2, <1>4, <1>5, <1>6, <1>7, <1>11

\* The place of the event before the publisher's last one up to time t, or of the head.
LastOwn(e, t, k) ==
  LET own == {d \in 1 .. t : node[EventAt[d]].publisher = e}
  IN IF own = {} THEN k = 0 ELSE k + 1 \in own /\ \A c \in own : c <= k + 1

LEMMA RevertPlace ==
  ASSUME NEW e, NEW t \in Nat, EventAt[0] = head
  PROVE  \E k \in 0 .. t : RevertTarget(e, t) = EventAt[k] /\ LastOwn(e, t, k)
<1> DEFINE own == {d \in 1 .. t : node[EventAt[d]].publisher = e}
           last == CHOOSE d \in own : \A c \in own : c <= d
<1>1. RevertTarget(e, t) = IF own = {} THEN head ELSE EventAt[last - 1]
  BY DEF RevertTarget
<1>2. CASE own = {}
  <2>1. LastOwn(e, t, 0)
    BY <1>2 DEF LastOwn
  <2>2. RevertTarget(e, t) = EventAt[0]
    BY <1>1, <1>2
  <2> QED BY <2>1, <2>2
<1>3. CASE own # {}
  <2> DEFINE T == {t - d : d \in own}
  <2>1. T \in SUBSET Nat /\ T # {}
    BY <1>3
  <2>2. PICK m \in T : \A j \in T : m <= j
    BY <2>1, LeastNat
  <2>3. PICK d \in own : m = t - d
    BY <2>2
  <2>4. \A c \in own : c <= d
    <3> TAKE c \in own
    <3>1. t - c \in T
      OBVIOUS
    <3>2. t - d <= t - c
      BY <2>2, <2>3, <3>1
    <3>3. c \in 1 .. t /\ d \in 1 .. t
      OBVIOUS
    <3> HIDE DEF own, T
    <3> QED BY <3>2, <3>3
  <2>5. last \in own /\ \A c \in own : c <= last
    <3>1. \E x \in own : \A c \in own : c <= x
      BY <2>4
    <3> HIDE DEF own
    <3> QED BY <3>1
  <2> HIDE DEF last
  <2>6. PICK k \in 0 .. t : k = last - 1
    BY <2>5
  <2>7. k + 1 = last
    BY <2>5, <2>6
  <2>8. LastOwn(e, t, k)
    BY <1>3, <2>5, <2>7 DEF LastOwn
  <2>9. RevertTarget(e, t) = EventAt[k]
    BY <1>1, <1>3, <2>6
  <2> QED BY <2>8, <2>9
<1> QED BY <1>2, <1>3

\* Links of events that were taken back, followed until one that was not: both walks of
\* the endpoints.
LEMMA LinksLead ==
  ASSUME NEW N \in Nat, NEW n \in 0 .. N, NEW gone \in SUBSET (1 .. n), NEW link, NEW rank,
         \A m \in 1 .. N : rank[m] \in 0 .. N,
         \A m \in gone : link[m] \in 1 .. n /\ rank[link[m]] < rank[m]
  PROVE  /\ \E f : Leads(f, 1 .. N, gone, link)
         /\ \A f : Leads(f, 1 .. N, gone, link) => \A m \in 1 .. n : f[m] \in 1 .. n /\ f[m] \notin gone
<1> DEFINE S == 1 .. N
           R == 1 .. n
<1>1. R \in SUBSET S
  OBVIOUS
<1>2. Descends(S, gone, link, rank, N)
  BY <1>1 DEF Descends
<1>3. \A m \in R : m \in gone => link[m] \in R
  OBVIOUS
<1> SUFFICES /\ \E f : Leads(f, S, gone, link)
             /\ \A f : Leads(f, S, gone, link) => \A m \in R : f[m] \in R /\ f[m] \notin gone
  OBVIOUS
<1> HIDE DEF S, R
<1>4. \E f : Leads(f, S, gone, link)
  BY <1>2, ChaseExists
<1>5. ASSUME NEW f, Leads(f, S, gone, link) PROVE \A m \in R : f[m] \in R /\ f[m] \notin gone
  BY <1>1, <1>2, <1>3, <1>5, ChaseStops
<1> QED BY <1>4, <1>5

\* The events that were taken back, and the links of all.
Taken == {m \in 1 .. size : node[m].empty}
NextLinks == [m \in Events |-> node[m].next]
PrevLinks == [m \in Events |-> node[m].prev]

\* How far an event is from the head it hung from.
Depths == [m \in Events |-> IF m <= size THEN node[m].displacement ELSE 0]

LEMMA LinksDescend ==
  ASSUME Allocated, DetoursEnd
  PROVE  /\ MaxEvents \in Nat /\ size \in 0 .. MaxEvents /\ Events = 1 .. MaxEvents
         /\ Taken \in SUBSET (1 .. size)
         /\ \A m \in 1 .. MaxEvents : Depths[m] \in 0 .. MaxEvents
         /\ \A m \in Taken : /\ NextLinks[m] \in 1 .. size /\ Depths[NextLinks[m]] < Depths[m]
                             /\ PrevLinks[m] \in 1 .. size /\ Depths[PrevLinks[m]] < Depths[m]
         /\ \A m \in Events : m \in Taken <=> node[m].empty /\ node[m].next # Null
         /\ \A m \in Events : m \in Taken <=> node[m].empty /\ node[m].prev # Null
<1>0. MaxEvents \in Nat /\ size \in 0 .. MaxEvents /\ Events = 1 .. MaxEvents
  BY ChannelAssumption DEF Allocated, Events
<1>1. \A m \in 1 .. MaxEvents : Depths[m] \in 0 .. MaxEvents
  BY <1>0 DEF Allocated, EventRecord, Depths
<1>2. ASSUME NEW m \in Taken
      PROVE  /\ NextLinks[m] \in 1 .. size /\ Depths[NextLinks[m]] < Depths[m]
             /\ PrevLinks[m] \in 1 .. size /\ Depths[PrevLinks[m]] < Depths[m]
  <2>1. m \in 1 .. size /\ m \in Events /\ m <= size /\ node[m].empty
    BY <1>0 DEF Taken
  <2>2. node[m].next \in 0 .. size /\ node[m].prev \in 0 .. size
    BY <2>1 DEF Allocated
  <2>3. /\ node[m].next # Null /\ node[node[m].next].displacement < node[m].displacement
        /\ node[m].prev # Null /\ node[node[m].prev].displacement < node[m].displacement
    BY <2>1 DEF DetoursEnd
  <2>4. node[m].next \in 1 .. size /\ node[m].prev \in 1 .. size
    BY <1>0, <2>2, <2>3 DEF Null
  <2>5. node[m].next \in Events /\ node[m].next <= size /\ node[m].prev \in Events /\ node[m].prev <= size
    BY <1>0, <2>4
  <2> QED BY <2>1, <2>3, <2>4, <2>5 DEF NextLinks, PrevLinks, Depths
<1>3. \A m \in Events : /\ m \in Taken <=> node[m].empty /\ node[m].next # Null
                        /\ m \in Taken <=> node[m].empty /\ node[m].prev # Null
  <2> TAKE m \in Events
  <2>1. CASE m <= size
    BY <1>0, <2>1 DEF DetoursEnd, Taken
  <2>2. CASE ~(m <= size)
    BY <1>0, <2>2 DEF Allocated, Taken
  <2> QED BY <2>1, <2>2
<1>4. Taken \in SUBSET (1 .. size)
  BY DEF Taken
<1> QED BY <1>0, <1>1, <1>2, <1>3, <1>4

LEMMA NextChase ==
  ASSUME Allocated, DetoursEnd
  PROVE  \E chase : /\ Leads(chase, 1 .. MaxEvents, Taken, NextLinks)
                    /\ \A n : NextEvent(n) = IF node[n].next = Null THEN n ELSE chase[node[n].next]
<1> DEFINE Body(f) == [m \in Events |-> IF node[m].empty /\ node[m].next # Null THEN f[node[m].next] ELSE m]
           chase == CHOOSE f : f = Body(f)
<1>1. \A f : Leads(f, 1 .. MaxEvents, Taken, NextLinks) <=> f = Body(f)
  <2> TAKE f
  <2>1. Body(f) = [m \in Events |-> IF m \in Taken THEN f[NextLinks[m]] ELSE m]
    BY LinksDescend DEF NextLinks
  <2> HIDE DEF Body
  <2> QED BY <2>1, LinksDescend DEF Leads
<1>2. \A n : NextEvent(n) = IF node[n].next = Null THEN n ELSE chase[node[n].next]
  BY DEF NextEvent
<1> HIDE DEF Body
<1>3. \E f : Leads(f, 1 .. MaxEvents, Taken, NextLinks)
  <2>1. /\ MaxEvents \in Nat /\ size \in 0 .. MaxEvents /\ Taken \in SUBSET (1 .. size)
        /\ \A m \in 1 .. MaxEvents : Depths[m] \in 0 .. MaxEvents
        /\ \A m \in Taken : NextLinks[m] \in 1 .. size /\ Depths[NextLinks[m]] < Depths[m]
    BY LinksDescend
  <2> QED BY <2>1, LinksLead
<1>4. chase = Body(chase)
  BY <1>1, <1>3
<1> HIDE DEF chase
<1>5. Leads(chase, 1 .. MaxEvents, Taken, NextLinks)
  BY <1>1, <1>4
<1> QED BY <1>2, <1>5

LEMMA PreviousChase ==
  ASSUME Allocated, DetoursEnd
  PROVE  \E chase : /\ Leads(chase, 1 .. MaxEvents, Taken, PrevLinks)
                    /\ \A n : PreviousEvent(n) = IF node[n].prev = Null THEN n ELSE chase[node[n].prev]
<1> DEFINE Body(f) == [m \in Events |-> IF node[m].empty /\ node[m].prev # Null THEN f[node[m].prev] ELSE m]
           chase == CHOOSE f : f = Body(f)
<1>1. \A f : Leads(f, 1 .. MaxEvents, Taken, PrevLinks) <=> f = Body(f)
  <2> TAKE f
  <2>1. Body(f) = [m \in Events |-> IF m \in Taken THEN f[PrevLinks[m]] ELSE m]
    BY LinksDescend DEF PrevLinks
  <2> HIDE DEF Body
  <2> QED BY <2>1, LinksDescend DEF Leads
<1>2. \A n : PreviousEvent(n) = IF node[n].prev = Null THEN n ELSE chase[node[n].prev]
  BY DEF PreviousEvent
<1> HIDE DEF Body
<1>3. \E f : Leads(f, 1 .. MaxEvents, Taken, PrevLinks)
  <2>1. /\ MaxEvents \in Nat /\ size \in 0 .. MaxEvents /\ Taken \in SUBSET (1 .. size)
        /\ \A m \in 1 .. MaxEvents : Depths[m] \in 0 .. MaxEvents
        /\ \A m \in Taken : PrevLinks[m] \in 1 .. size /\ Depths[PrevLinks[m]] < Depths[m]
    BY LinksDescend
  <2> QED BY <2>1, LinksLead
<1>4. chase = Body(chase)
  BY <1>1, <1>3
<1> HIDE DEF chase
<1>5. Leads(chase, 1 .. MaxEvents, Taken, PrevLinks)
  BY <1>1, <1>4
<1> QED BY <1>2, <1>5

\* next_event() and previous_event() end, on an event that was not taken back.
LEMMA NextLands ==
  ASSUME Allocated, DetoursEnd, NEW n \in 1 .. size
  PROVE  NextEvent(n) \in 1 .. size /\ (NextEvent(n) # n => ~node[NextEvent(n)].empty)
<1>1. PICK chase : /\ Leads(chase, 1 .. MaxEvents, Taken, NextLinks)
                   /\ \A m : NextEvent(m) = IF node[m].next = Null THEN m ELSE chase[node[m].next]
  BY NextChase
<1>2. /\ MaxEvents \in Nat /\ size \in 0 .. MaxEvents /\ Taken \in SUBSET (1 .. size)
      /\ \A m \in 1 .. MaxEvents : Depths[m] \in 0 .. MaxEvents
      /\ \A m \in Taken : NextLinks[m] \in 1 .. size /\ Depths[NextLinks[m]] < Depths[m]
  BY LinksDescend
<1>3. \A m \in 1 .. size : chase[m] \in 1 .. size /\ chase[m] \notin Taken
  BY <1>1, <1>2, LinksLead
<1>4. node[n].next \in 0 .. size
  BY <1>2 DEF Allocated, Events
<1>5. CASE node[n].next = Null
  BY <1>1, <1>5
<1>6. CASE node[n].next # Null
  <2>1. node[n].next \in 1 .. size
    BY <1>2, <1>4, <1>6 DEF Null
  <2> QED BY <1>1, <1>3, <1>6, <2>1 DEF Taken
<1> QED BY <1>5, <1>6

LEMMA PreviousLands ==
  ASSUME Allocated, DetoursEnd, NEW n \in 1 .. size
  PROVE  PreviousEvent(n) \in 1 .. size /\ (PreviousEvent(n) # n => ~node[PreviousEvent(n)].empty)
<1>1. PICK chase : /\ Leads(chase, 1 .. MaxEvents, Taken, PrevLinks)
                   /\ \A m : PreviousEvent(m) = IF node[m].prev = Null THEN m ELSE chase[node[m].prev]
  BY PreviousChase
<1>2. /\ MaxEvents \in Nat /\ size \in 0 .. MaxEvents /\ Taken \in SUBSET (1 .. size)
      /\ \A m \in 1 .. MaxEvents : Depths[m] \in 0 .. MaxEvents
      /\ \A m \in Taken : PrevLinks[m] \in 1 .. size /\ Depths[PrevLinks[m]] < Depths[m]
  BY LinksDescend
<1>3. \A m \in 1 .. size : chase[m] \in 1 .. size /\ chase[m] \notin Taken
  BY <1>1, <1>2, LinksLead
<1>4. node[n].prev \in 0 .. size
  BY <1>2 DEF Allocated, Events
<1>5. CASE node[n].prev = Null
  BY <1>1, <1>5
<1>6. CASE node[n].prev # Null
  <2>1. node[n].prev \in 1 .. size
    BY <1>2, <1>4, <1>6 DEF Null
  <2> QED BY <1>1, <1>3, <1>6, <2>1 DEF Taken
<1> QED BY <1>5, <1>6

-----------------------------------------------------------------------------
(* One step per operation.                                                 *)

\* The same after the step.
LEMMA EventAtPrimed ==
  EventAt' = [d \in 0 .. MaxEvents |-> IF d = 0 THEN head' ELSE node'[EventAt'[d - 1]].next]
<1> DEFINE Unfolds == EventAt = [d \in 0 .. MaxEvents |-> IF d = 0 THEN head ELSE node[EventAt[d - 1]].next]
<1>1. Unfolds
  BY EventAtUnfold
<1>2. Unfolds'
  <2> HIDE DEF Unfolds
  <2> QED BY <1>1, PTL
<1> QED BY <1>2

\* An endpoint moves and the graph stays.
LEMMA MoveStep ==
  ASSUME ChannelInv, UNCHANGED <<size, node, head, tail>>,
         NEW e \in Endpoints, NEW n \in 1 .. size, n # at[e] => ~node[n].empty, MoveTo(e, n)
  PROVE  ChannelInv' /\ Lands
<1>1. EventAt' = EventAt
  BY DEF EventAt
<1>2. LineIntact'
  BY <1>1 DEF ChannelInv, LineIntact
<1>3. at' \in [Endpoints -> 0 .. size] /\ at' = [at EXCEPT ![e] = n]
  BY DEF MoveTo, ChannelInv, Allocated, Events
<1>4. Allocated'
  BY <1>3 DEF ChannelInv, Allocated
<1>5. DetoursEnd'
  BY DEF ChannelInv, DetoursEnd
<1>6. Lands
  BY <1>3 DEF Lands, ChannelInv, Allocated
<1> QED BY <1>2, <1>4, <1>5, <1>6 DEF ChannelInv

\* append(): a new tail.
LEMMA AppendStep ==
  ASSUME ChannelInv, NEW e \in Endpoints, NEW v \in Values, AppendValue(e, v)
  PROVE  ChannelInv' /\ Lands
<1>0. Allocated /\ DetoursEnd /\ LineIntact
  BY DEF ChannelInv
<1>1. PICK D : D = node[tail].displacement
  OBVIOUS
<1>2. PICK new : new = size + 1
  OBVIOUS
<1>3. /\ MaxEvents \in Nat /\ size \in 1 .. MaxEvents /\ Events = 1 .. MaxEvents
      /\ head \in 1 .. size /\ tail \in 1 .. size /\ tail \in Events
      /\ new \in Events /\ new \notin 1 .. size /\ new > size
  BY <1>0, <1>2, ChannelAssumption DEF Allocated, Events, AppendValue
<1>4. /\ D \in 0 .. size - 1 /\ D \in 0 .. MaxEvents
      /\ EventAt[0] = head /\ EventAt[D] = tail
      /\ \A d \in 0 .. D : /\ EventAt[d] \in 1 .. size /\ EventAt[d] \in Events
                           /\ node[EventAt[d]].displacement = d /\ ~node[EventAt[d]].empty
      /\ \A d \in 1 .. D : EventAt[d] = node[EventAt[d - 1]].next /\ node[EventAt[d]].prev = EventAt[d - 1]
  BY <1>0, <1>1, LineFacts
<1>5. /\ size' = new /\ tail' = new /\ head' = head /\ at' = [at EXCEPT ![e] = new]
      /\ node' = [node EXCEPT ![tail].next = new, ![new] = NewEvent(v, e, tail, D + 1)]
  BY <1>1, <1>2 DEF AppendValue, MoveTo
<1>6. node \in [Events -> EventRecord]
  BY <1>0 DEF Allocated
<1>7. /\ node'[new] = NewEvent(v, e, tail, D + 1)
      /\ node'[tail] = [node[tail] EXCEPT !.next = new]
      /\ \A n \in Events : n # new /\ n # tail => node'[n] = node[n]
      /\ DOMAIN node' = Events
  BY <1>3, <1>5, <1>6
<1>8. /\ node'[new].displacement = D + 1 /\ ~node'[new].empty /\ node'[new].next = Null /\ node'[new].prev = tail
      /\ node'[tail].next = new
      /\ \A n \in Events : n # new => /\ node'[n].displacement = node[n].displacement
                                      /\ node'[n].empty = node[n].empty
                                      /\ node'[n].prev = node[n].prev
                                      /\ n # tail => node'[n].next = node[n].next
  <2>1. /\ node'[new].displacement = D + 1 /\ ~node'[new].empty /\ node'[new].next = Null /\ node'[new].prev = tail
    BY <1>7 DEF NewEvent
  <2>2. node[tail] \in EventRecord
    BY <1>3, <1>6
  <2>3. /\ node'[tail].next = new /\ node'[tail].displacement = node[tail].displacement
        /\ node'[tail].empty = node[tail].empty /\ node'[tail].prev = node[tail].prev
    BY <1>7, <2>2 DEF EventRecord
  <2> QED BY <1>7, <2>1, <2>3
<1>9. node' \in [Events -> EventRecord]
  <2>1. node'[new] \in EventRecord
    BY <1>3, <1>4, <1>7 DEF NewEvent, EventRecord, Null
  <2>2. node'[tail] \in EventRecord
    <3>1. node[tail] \in EventRecord /\ new \in 0 .. MaxEvents
      BY <1>3, <1>6
    <3> QED BY <1>7, <3>1 DEF EventRecord
  <2>3. \A n \in Events : node'[n] \in EventRecord
    BY <1>6, <1>7, <2>1, <2>2
  <2>4. node' = [n \in Events |-> node'[n]]
    BY <1>5, <1>6
  <2> QED BY <2>3, <2>4
<1>10. Allocated'
  <2>1. at' \in [Endpoints -> 0 .. size']
    <3>1. \A x \in 0 .. size : x \in 0 .. new
      BY <1>2, <1>3
    <3>2. new \in 0 .. new
      BY <1>3
    <3> QED BY <1>0, <1>5, <3>1, <3>2 DEF Allocated
  <2>2. ASSUME NEW n \in Events
        PROVE  IF n <= size'
               THEN node'[n].next \in 0 .. size' /\ node'[n].prev \in 0 .. size' /\ node'[n].displacement < n
               ELSE node'[n].next = Null /\ node'[n].prev = Null
    <3>1. CASE n = new
      BY <1>2, <1>3, <1>4, <1>5, <1>8, <3>1 DEF Null
    <3>2. CASE n # new /\ n <= size
      <4>1. node[n].next \in 0 .. size /\ node[n].prev \in 0 .. size /\ node[n].displacement < n
        BY <1>0, <3>2 DEF Allocated
      <4>2. node'[n].next = new \/ node'[n].next = node[n].next
        BY <1>8, <3>2
      <4>3. \A x \in 0 .. size : x \in 0 .. new
        BY <1>2, <1>3
      <4>4. new \in 0 .. new /\ n <= new
        BY <1>2, <1>3, <3>2
      <4>5. node'[n].next \in 0 .. new /\ node'[n].prev \in 0 .. new /\ node'[n].displacement < n
        BY <1>8, <3>2, <4>1, <4>2, <4>3, <4>4
      <4> QED BY <1>5, <4>4, <4>5
    <3>3. CASE n # new /\ ~(n <= size)
      <4>1. node[n].next = Null /\ node[n].prev = Null /\ n # tail /\ ~(n <= new)
        BY <1>0, <1>2, <1>3, <3>3 DEF Allocated
      <4> QED BY <1>5, <1>8, <3>3, <4>1
    <3> QED BY <3>1, <3>2, <3>3
  <2>3. size' \in Events /\ head' \in 1 .. size' /\ tail' \in 1 .. size'
    BY <1>2, <1>3, <1>5
  <2> QED BY <1>9, <2>1, <2>2, <2>3 DEF Allocated
<1>11. DetoursEnd'
  <2> SUFFICES ASSUME NEW n \in 1 .. size', node'[n].empty
               PROVE  /\ node'[n].next # Null /\ node'[node'[n].next].displacement < node'[n].displacement
                      /\ node'[n].prev # Null /\ node'[node'[n].prev].displacement < node'[n].displacement
    BY DEF DetoursEnd
  <2>1. n # new /\ n \in 1 .. size /\ n \in Events
    BY <1>2, <1>3, <1>5, <1>8
  <2>2. node[n].empty /\ n # tail
    BY <1>4, <1>8, <2>1
  <2>3. /\ node[n].next # Null /\ node[node[n].next].displacement < node[n].displacement
        /\ node[n].prev # Null /\ node[node[n].prev].displacement < node[n].displacement
    BY <1>0, <2>1, <2>2 DEF DetoursEnd
  <2>4. node[n].next \in 1 .. size /\ node[n].prev \in 1 .. size
    BY <1>0, <1>3, <2>1, <2>3 DEF Allocated, Null
  <2>5. node[n].next \in Events /\ node[n].prev \in Events /\ node[n].next # new /\ node[n].prev # new
    BY <1>3, <2>4
  <2> QED BY <1>8, <2>1, <2>2, <2>3, <2>5
<1> DEFINE g == [d \in 0 .. D + 1 |-> IF d <= D THEN EventAt[d] ELSE new]
<1>12. g[0] = head' /\ g[D + 1] = new /\ \A d \in 0 .. D : g[d] = EventAt[d]
  BY <1>4, <1>5
<1> HIDE DEF g
<1>13. ASSUME NEW d \in 1 .. D + 1 PROVE g[d] = node'[g[d - 1]].next
  <2>1. CASE d \in 1 .. D
    <3>1. d - 1 \in 0 .. D /\ d \in 0 .. D /\ d - 1 # D
      BY <1>4, <2>1
    <3>2. EventAt[d - 1] # tail /\ EventAt[d - 1] # new /\ EventAt[d - 1] \in Events
      BY <1>1, <1>3, <1>4, <3>1
    <3> QED BY <1>4, <1>8, <1>12, <2>1, <3>1, <3>2
  <2>2. CASE d = D + 1
    <3>1. d - 1 = D /\ D \in 0 .. D
      BY <1>4, <2>2
    <3> QED BY <1>4, <1>8, <1>12, <2>2, <3>1
  <2> QED BY <1>4, <2>1, <2>2
<1>14. D + 1 \in 0 .. MaxEvents
  BY <1>2, <1>3, <1>4
<1>15. \A d \in 0 .. D + 1 : EventAt'[d] = g[d]
  <2> DEFINE E == EventAt'
             links == node'
             start == head'
             k == D + 1
  <2>1. WalkOf(E, MaxEvents, start, links)
    BY EventAtPrimed DEF WalkOf
  <2>2. Follows(g, k, start, links) /\ k \in 0 .. MaxEvents
    BY <1>12, <1>13, <1>14 DEF Follows
  <2> HIDE DEF E, links, start, k
  <2>3. \A d \in 0 .. k : E[d] = g[d]
    BY <1>3, <2>1, <2>2, WalkUnique
  <2> QED BY <2>3 DEF E, k
<1>16. LineIntact'
  <2>1. node'[tail'].displacement = D + 1 /\ node'[tail'].next = Null
    BY <1>5, <1>8
  <2>2. EventAt'[D + 1] = tail'
    <3>1. D + 1 \in 0 .. D + 1
      BY <1>4
    <3> QED BY <1>5, <1>12, <1>15, <3>1
  <2>3. node'[head'].prev = Null
    <3>1. head # new /\ head \in Events
      BY <1>3
    <3> QED BY <1>0, <1>5, <1>8, <3>1 DEF LineIntact
  <2>4. ASSUME NEW d \in 0 .. D + 1
        PROVE  /\ EventAt'[d] # Null /\ node'[EventAt'[d]].displacement = d /\ ~node'[EventAt'[d]].empty
               /\ d > 0 => node'[EventAt'[d]].prev = EventAt'[d - 1]
    <3>1. CASE d \in 0 .. D
      <4>1. EventAt'[d] = EventAt[d] /\ (d > 0 => EventAt'[d - 1] = EventAt[d - 1] /\ d \in 1 .. D)
        <5>1. d > 0 => d - 1 \in 0 .. D /\ d - 1 \in 0 .. D + 1 /\ d \in 1 .. D
          BY <1>4, <3>1
        <5> QED BY <1>12, <1>15, <3>1, <5>1
      <4>2. EventAt[d] \in Events /\ EventAt[d] # new /\ EventAt[d] # Null
        BY <1>3, <1>4, <3>1 DEF Null
      <4> QED BY <1>4, <1>8, <3>1, <4>1, <4>2
    <3>2. CASE d = D + 1
      <4>1. EventAt'[d] = new /\ EventAt'[d - 1] = tail
        <5>1. d - 1 = D /\ D \in 0 .. D /\ D \in 0 .. D + 1
          BY <1>4, <3>2
        <5> QED BY <1>4, <1>12, <1>15, <3>2, <5>1
      <4>2. new # Null
        BY <1>3 DEF Null
      <4> QED BY <1>8, <3>2, <4>1, <4>2
    <3> QED BY <1>4, <3>1, <3>2
  <2> QED BY <2>1, <2>2, <2>3, <2>4 DEF LineIntact
<1>17. Lands
  BY <1>0, <1>5, <1>8 DEF Lands, Allocated
<1> QED BY <1>10, <1>11, <1>16, <1>17 DEF ChannelInv

\* What revert() does to the events: those after the target lead to it, the target is the
\* last, and every other is as it was.
LEMMA RevertedFacts ==
  ASSUME Allocated, LineIntact, NEW k \in 0 .. node[tail].displacement,
         NEW target, target = EventAt[k], NEW R, R = Reverted(target)
  PROVE  /\ R \in [Events -> EventRecord]
         /\ \A n \in Events : R[n].displacement = node[n].displacement
         /\ \A d \in 0 .. k : ~R[EventAt[d]].empty /\ R[EventAt[d]].prev = node[EventAt[d]].prev
         /\ \A d \in 0 .. k - 1 : R[EventAt[d]].next = node[EventAt[d]].next
         /\ R[target].next = Null
         /\ \A n \in Events : R[n].empty =>
              \/ node[n].empty /\ R[n].next = node[n].next /\ R[n].prev = node[n].prev
              \/ R[n].next = target /\ R[n].prev = target /\ node[n].displacement > k
         /\ \A n \in Events : /\ R[n].next \in {node[n].next, target, Null} /\ R[n].prev \in {node[n].prev, target}
                              /\ n > size => R[n] = node[n]
<1>1. PICK D : D = node[tail].displacement
  OBVIOUS
<1>2. /\ D \in 0 .. size - 1 /\ D \in 0 .. MaxEvents /\ k \in 0 .. D
      /\ \A d \in 0 .. D : /\ EventAt[d] \in 1 .. size /\ EventAt[d] \in Events
                           /\ node[EventAt[d]].displacement = d /\ ~node[EventAt[d]].empty
  BY <1>1, LineFacts
<1>3. PICK L : L = {EventAt[d] : d \in 0 .. D}
  OBVIOUS
<1>4. MaxEvents \in Nat /\ size \in 1 .. MaxEvents /\ Events = 1 .. MaxEvents /\ node \in [Events -> EventRecord]
  BY ChannelAssumption DEF Allocated, Events
<1>5. target \in Events /\ target \in 1 .. size /\ node[target].displacement = k /\ ~node[target].empty
  BY <1>2
<1>6. R = [n \in Events |->
            IF n \in L /\ node[n].displacement > k
              THEN [node[n] EXCEPT !.next = target, !.prev = target, !.empty = TRUE]
            ELSE IF n = target THEN [node[n] EXCEPT !.next = Null]
            ELSE node[n]]
  BY <1>1, <1>3, <1>5 DEF Reverted, LineTo
<1>7. ASSUME NEW n \in Events
      PROVE  /\ R[n] \in EventRecord /\ R[n].displacement = node[n].displacement
             /\ n \in L /\ node[n].displacement > k => R[n].next = target /\ R[n].prev = target
             /\ ~(n \in L /\ node[n].displacement > k) => R[n].empty = node[n].empty /\ R[n].prev = node[n].prev
             /\ ~(n \in L /\ node[n].displacement > k) /\ n # target => R[n] = node[n]
             /\ n = target => R[n].next = Null
  <2>1. node[n] \in EventRecord /\ target \in 0 .. MaxEvents /\ Null \in 0 .. MaxEvents
    BY <1>4, <1>5 DEF Null
  <2>2. CASE n \in L /\ node[n].displacement > k
    <3>1. R[n] = [node[n] EXCEPT !.next = target, !.prev = target, !.empty = TRUE]
      BY <1>6, <2>2
    <3>2. n # target
      BY <1>2, <1>5, <2>2
    <3> QED BY <2>1, <2>2, <3>1, <3>2 DEF EventRecord
  <2>3. CASE ~(n \in L /\ node[n].displacement > k) /\ n = target
    <3>1. R[n] = [node[n] EXCEPT !.next = Null]
      BY <1>6, <2>3
    <3> QED BY <2>1, <2>3, <3>1 DEF EventRecord
  <2>4. CASE ~(n \in L /\ node[n].displacement > k) /\ n # target
    <3>1. R[n] = node[n]
      BY <1>6, <2>4
    <3> QED BY <2>1, <2>4, <3>1
  <2> QED BY <2>2, <2>3, <2>4
<1>8. R \in [Events -> EventRecord]
  <2>1. R = [n \in Events |-> R[n]]
    BY <1>6
  <2> QED BY <1>7, <2>1
<1>9. ASSUME NEW d \in 0 .. k
      PROVE  /\ ~R[EventAt[d]].empty /\ R[EventAt[d]].prev = node[EventAt[d]].prev
             /\ d # k => R[EventAt[d]].next = node[EventAt[d]].next
  <2>1. d \in 0 .. D /\ ~(d > k)
    BY <1>2
  <2>2. EventAt[d] \in Events /\ node[EventAt[d]].displacement = d /\ ~node[EventAt[d]].empty
    BY <1>2, <2>1
  <2>3. d # k => EventAt[d] # target
    BY <1>5, <2>2
  <2> QED BY <1>7, <2>1, <2>2, <2>3
<1>10. \A d \in 0 .. k - 1 : d \in 0 .. k /\ d # k
  BY <1>2
<1>11. R[target].next = Null
  BY <1>5, <1>7
<1>12. \A n \in Events : n > size => n \notin L /\ n # target
  BY <1>2, <1>3, <1>4, <1>5
<1>13. \A n \in Events : R[n].empty =>
              \/ node[n].empty /\ R[n].next = node[n].next /\ R[n].prev = node[n].prev
              \/ R[n].next = target /\ R[n].prev = target /\ node[n].displacement > k
  BY <1>5, <1>7
<1>14. \A n \in Events : /\ R[n].next \in {node[n].next, target, Null} /\ R[n].prev \in {node[n].prev, target}
                         /\ n > size => R[n] = node[n]
  BY <1>7, <1>12
<1> QED BY <1>7, <1>8, <1>9, <1>10, <1>11, <1>13, <1>14

\* unwrite(): the line ends at the target.
LEMMA UnwriteStep ==
  ASSUME ChannelInv, NEW e \in Endpoints, UnwriteValue(e)
  PROVE  ChannelInv' /\ Lands
<1>0. Allocated /\ DetoursEnd /\ LineIntact
  BY DEF ChannelInv
<1>1. PICK D : D = node[tail].displacement
  OBVIOUS
<1>3. /\ MaxEvents \in Nat /\ size \in 1 .. MaxEvents /\ Events = 1 .. MaxEvents
      /\ head \in 1 .. size /\ node \in [Events -> EventRecord]
  BY <1>0, ChannelAssumption DEF Allocated, Events
<1>4. /\ D \in 0 .. size - 1 /\ D \in 0 .. MaxEvents
      /\ EventAt[0] = head /\ EventAt[D] = tail
      /\ \A d \in 0 .. D : /\ EventAt[d] \in 1 .. size /\ EventAt[d] \in Events
                           /\ node[EventAt[d]].displacement = d /\ ~node[EventAt[d]].empty
      /\ \A d \in 1 .. D : EventAt[d] = node[EventAt[d - 1]].next /\ node[EventAt[d]].prev = EventAt[d - 1]
  BY <1>0, <1>1, LineFacts
<1>5. PICK t : t = node[at[e]].displacement
  OBVIOUS
<1>6. t \in Nat /\ t <= D
  <2>1. at[e] \in 1 .. size
    BY <1>0, <1>3 DEF Allocated, UnwriteValue, Exists, Null
  <2> QED BY <1>1, <1>3, <1>5, <2>1 DEF UnwriteValue, EventRecord
<1>7. PICK k \in 0 .. t : RevertTarget(e, t) = EventAt[k]
  BY <1>4, <1>6, RevertPlace
<1>8. PICK target : target = EventAt[k]
  OBVIOUS
<1>9. PICK R : R = Reverted(target)
  OBVIOUS
<1>10. node' = R /\ tail' = target /\ size' = size /\ head' = head /\ at' = [at EXCEPT ![e] = target]
  BY <1>5, <1>7, <1>8, <1>9 DEF UnwriteValue, MoveTo
<1>11. k \in 0 .. D /\ target \in 1 .. size /\ target \in Events /\ node[target].displacement = k /\ k \in Nat
  BY <1>4, <1>6, <1>8
<1>12. /\ R \in [Events -> EventRecord]
       /\ \A n \in Events : R[n].displacement = node[n].displacement
       /\ \A d \in 0 .. k : ~R[EventAt[d]].empty /\ R[EventAt[d]].prev = node[EventAt[d]].prev
       /\ \A d \in 0 .. k - 1 : R[EventAt[d]].next = node[EventAt[d]].next
       /\ R[target].next = Null
       /\ \A n \in Events : R[n].empty =>
            \/ node[n].empty /\ R[n].next = node[n].next /\ R[n].prev = node[n].prev
            \/ R[n].next = target /\ R[n].prev = target /\ node[n].displacement > k
       /\ \A n \in Events : /\ R[n].next \in {node[n].next, target, Null} /\ R[n].prev \in {node[n].prev, target}
                            /\ n > size => R[n] = node[n]
  BY <1>0, <1>1, <1>8, <1>9, <1>11, RevertedFacts
<1>13. Allocated'
  <2>1. at' \in [Endpoints -> 0 .. size]
    BY <1>0, <1>3, <1>10, <1>11 DEF Allocated
  <2>2. ASSUME NEW n \in Events
        PROVE  IF n <= size
               THEN R[n].next \in 0 .. size /\ R[n].prev \in 0 .. size /\ R[n].displacement < n
               ELSE R[n].next = Null /\ R[n].prev = Null
    <3>1. CASE n <= size
      <4>1. node[n].next \in 0 .. size /\ node[n].prev \in 0 .. size /\ node[n].displacement < n
        BY <1>0, <3>1 DEF Allocated
      <4>2. target \in 0 .. size /\ Null \in 0 .. size
        BY <1>3, <1>11 DEF Null
      <4>3. R[n].next \in {node[n].next, target, Null} /\ R[n].prev \in {node[n].prev, target}
        BY <1>12
      <4> QED BY <1>12, <3>1, <4>1, <4>2, <4>3
    <3>2. CASE ~(n <= size)
      <4>1. n > size
        BY <1>3, <3>2
      <4> QED BY <1>0, <1>12, <3>2, <4>1 DEF Allocated
    <3> QED BY <3>1, <3>2
  <2> QED BY <1>0, <1>10, <1>11, <1>12, <2>1, <2>2 DEF Allocated
<1>14. DetoursEnd'
  <2> SUFFICES ASSUME NEW n \in 1 .. size, R[n].empty
               PROVE  /\ R[n].next # Null /\ R[R[n].next].displacement < R[n].displacement
                      /\ R[n].prev # Null /\ R[R[n].prev].displacement < R[n].displacement
    BY <1>10 DEF DetoursEnd
  <2>1. n \in Events /\ node[n].displacement \in Nat
    BY <1>3 DEF EventRecord
  <2>2. CASE node[n].empty /\ R[n].next = node[n].next /\ R[n].prev = node[n].prev
    <3>1. /\ node[n].next # Null /\ node[node[n].next].displacement < node[n].displacement
          /\ node[n].prev # Null /\ node[node[n].prev].displacement < node[n].displacement
      BY <1>0, <2>2 DEF DetoursEnd
    <3>2. node[n].next \in Events /\ node[n].prev \in Events
      BY <1>0, <1>3, <2>1, <3>1 DEF Allocated, Null
    <3>3. /\ R[node[n].next].displacement = node[node[n].next].displacement
          /\ R[node[n].prev].displacement = node[node[n].prev].displacement
          /\ R[n].displacement = node[n].displacement
      BY <1>12, <2>1, <3>2
    <3>4. R[n].next = node[n].next /\ R[n].prev = node[n].prev
      BY <2>2
    <3> QED BY <3>1, <3>3, <3>4
  <2>3. CASE R[n].next = target /\ R[n].prev = target /\ node[n].displacement > k
    <3>1. R[target].displacement = k /\ R[n].displacement > k /\ R[n].displacement \in Nat /\ target # Null
      BY <1>11, <1>12, <2>1, <2>3 DEF Null
    <3> QED BY <1>11, <2>3, <3>1
  <2> QED BY <1>12, <2>1, <2>2, <2>3
<1>15. \A d \in 0 .. k : EventAt'[d] = EventAt[d]
  <2> DEFINE E == EventAt'
             g == EventAt
  <2>1. WalkOf(E, MaxEvents, head, R)
    BY <1>10, EventAtPrimed DEF WalkOf
  <2>2. ASSUME NEW d \in 1 .. k PROVE g[d] = R[g[d - 1]].next
    <3>1. d \in 1 .. D /\ d - 1 \in 0 .. k - 1
      BY <1>4, <1>11
    <3> QED BY <1>4, <1>12, <3>1
  <2>3. g[0] = head /\ k \in 0 .. MaxEvents
    <3>1. D <= MaxEvents /\ D \in Nat /\ k \in Nat /\ k <= D
      BY <1>3, <1>4, <1>11
    <3>2. k \in 0 .. MaxEvents
      BY <1>3, <3>1
    <3> QED BY <1>4, <3>2
  <2> HIDE DEF E, g
  <2>4. Follows(g, k, head, R)
    BY <2>2, <2>3 DEF Follows
  <2>5. \A d \in 0 .. k : E[d] = g[d]
    BY <1>3, <2>1, <2>3, <2>4, WalkUnique
  <2> QED BY <2>5 DEF E, g
<1>16. LineIntact'
  <2>1. node'[tail'].displacement = k /\ node'[tail'].next = Null
    BY <1>10, <1>11, <1>12
  <2>2. EventAt'[k] = tail'
    BY <1>8, <1>10, <1>11, <1>15
  <2>3. node'[head'].prev = Null
    <3>1. 0 \in 0 .. k
      BY <1>11
    <3>2. R[EventAt[0]].prev = node[EventAt[0]].prev
      BY <1>12, <3>1
    <3> QED BY <1>0, <1>4, <1>10, <3>2 DEF LineIntact
  <2>4. ASSUME NEW d \in 0 .. k
        PROVE  /\ EventAt'[d] # Null /\ node'[EventAt'[d]].displacement = d /\ ~node'[EventAt'[d]].empty
               /\ d > 0 => node'[EventAt'[d]].prev = EventAt'[d - 1]
    <3>1. d \in 0 .. D /\ (d > 0 => d - 1 \in 0 .. k /\ d \in 1 .. D)
      BY <1>4, <1>11
    <3>2. EventAt'[d] = EventAt[d] /\ (d > 0 => EventAt'[d - 1] = EventAt[d - 1])
      BY <1>15, <3>1
    <3>3. EventAt[d] \in Events /\ EventAt[d] # Null /\ node[EventAt[d]].displacement = d
      BY <1>3, <1>4, <3>1 DEF Null
    <3> QED BY <1>4, <1>10, <1>12, <3>1, <3>2, <3>3
  <2> QED BY <2>1, <2>2, <2>3, <2>4 DEF LineIntact
<1>17. Lands
  <2>1. ~R[target].empty
    BY <1>8, <1>11, <1>12
  <2> QED BY <1>0, <1>10, <2>1 DEF Lands, Allocated
<1> QED BY <1>13, <1>14, <1>16, <1>17 DEF ChannelInv

\* clear(): a new head, behind which everything is left.
LEMMA ClearStep ==
  ASSUME ChannelInv, NEW v \in Values, ClearChannel(v)
  PROVE  ChannelInv' /\ Lands
<1>0. Allocated /\ DetoursEnd /\ LineIntact
  BY DEF ChannelInv
<1>1. PICK new : new = size + 1
  OBVIOUS
<1>2. /\ MaxEvents \in Nat /\ size \in 1 .. MaxEvents /\ Events = 1 .. MaxEvents
      /\ head \in 1 .. size /\ head \in Events /\ node \in [Events -> EventRecord]
      /\ new \in Events /\ new \notin 1 .. size /\ new > size /\ new # head
  BY <1>0, <1>1, ChannelAssumption DEF Allocated, Events, ClearChannel
<1>3. PICK R : R = Reverted(head)
  OBVIOUS
<1>4. /\ node' = [R EXCEPT ![head].next = new, ![head].prev = new, ![new] = NewEvent(v, 0, Null, 0)]
      /\ size' = new /\ head' = new /\ tail' = new /\ at' = at
  BY <1>1, <1>3 DEF ClearChannel
<1>5. /\ EventAt[0] = head /\ 0 \in 0 .. node[tail].displacement
      /\ node[head].displacement = 0 /\ ~node[head].empty
  <2>1. PICK D : D = node[tail].displacement
    OBVIOUS
  <2>2. /\ D \in 0 .. size - 1 /\ EventAt[0] = head
        /\ \A d \in 0 .. D : node[EventAt[d]].displacement = d /\ ~node[EventAt[d]].empty
    BY <1>0, <2>1, LineFacts
  <2>3. 0 \in 0 .. D
    BY <1>2, <2>2
  <2> QED BY <2>1, <2>2, <2>3
<1>6. /\ R \in [Events -> EventRecord]
      /\ \A n \in Events : R[n].displacement = node[n].displacement
      /\ \A d \in 0 .. 0 : ~R[EventAt[d]].empty
      /\ \A n \in Events : R[n].empty =>
           \/ node[n].empty /\ R[n].next = node[n].next /\ R[n].prev = node[n].prev
           \/ R[n].next = head /\ R[n].prev = head /\ node[n].displacement > 0
      /\ \A n \in Events : /\ R[n].next \in {node[n].next, head, Null} /\ R[n].prev \in {node[n].prev, head}
                           /\ n > size => R[n] = node[n]
  BY <1>0, <1>3, <1>5, RevertedFacts
<1>7. ~R[head].empty
  BY <1>5, <1>6
<1>8. /\ node'[new] = NewEvent(v, 0, Null, 0)
      /\ node'[head] = [R[head] EXCEPT !.next = new, !.prev = new]
      /\ \A n \in Events : n # new /\ n # head => node'[n] = R[n]
      /\ node' = [n \in Events |-> node'[n]]
  BY <1>2, <1>4, <1>6
<1>9. /\ node'[new].displacement = 0 /\ ~node'[new].empty /\ node'[new].next = Null /\ node'[new].prev = Null
      /\ node'[new] \in EventRecord
  BY <1>2, <1>8 DEF NewEvent, EventRecord, Null
<1>10. /\ node'[head] \in EventRecord /\ node'[head].next = new /\ node'[head].prev = new
       /\ node'[head].displacement = R[head].displacement /\ node'[head].empty = R[head].empty
  <2>1. R[head] \in EventRecord /\ new \in 0 .. MaxEvents
    BY <1>2, <1>6
  <2> QED BY <1>8, <2>1 DEF EventRecord
<1>11. node' \in [Events -> EventRecord]
  <2>1. \A n \in Events : node'[n] \in EventRecord
    BY <1>6, <1>8, <1>9, <1>10
  <2> QED BY <1>8, <2>1
<1>12. \A n \in Events : n # new => node'[n].displacement = node[n].displacement
  BY <1>6, <1>8, <1>10
<1>13. Allocated'
  <2>0. (\A x \in 0 .. size : x \in 0 .. new) /\ new \in 0 .. new
    BY <1>1, <1>2
  <2>1. at' \in [Endpoints -> 0 .. size']
    BY <1>0, <1>4, <2>0 DEF Allocated
  <2>2. ASSUME NEW n \in Events
        PROVE  IF n <= new
               THEN node'[n].next \in 0 .. new /\ node'[n].prev \in 0 .. new /\ node'[n].displacement < n
               ELSE node'[n].next = Null /\ node'[n].prev = Null
    <3>1. CASE n = new
      <4>1. n <= new /\ 0 < n /\ Null \in 0 .. new
        BY <1>2, <3>1 DEF Null
      <4> QED BY <1>9, <3>1, <4>1
    <3>2. CASE n # new /\ n <= size
      <4>1. node[n].next \in 0 .. size /\ node[n].prev \in 0 .. size /\ node[n].displacement < n
        BY <1>0, <3>2 DEF Allocated
      <4>2. head \in 0 .. new /\ Null \in 0 .. new /\ n <= new
        BY <1>1, <1>2, <3>2 DEF Null
      <4>3. node'[n].next \in 0 .. new /\ node'[n].prev \in 0 .. new
        <5>1. CASE n = head
          BY <1>10, <2>0, <5>1
        <5>2. CASE n # head
          <6>1. node'[n] = R[n] /\ R[n].next \in {node[n].next, head, Null} /\ R[n].prev \in {node[n].prev, head}
            BY <1>6, <1>8, <3>2, <5>2
          <6> QED BY <2>0, <4>1, <4>2, <6>1
        <5> QED BY <5>1, <5>2
      <4> QED BY <1>12, <3>2, <4>1, <4>2, <4>3
    <3>3. CASE n # new /\ ~(n <= size)
      <4>1. n > size /\ n # head /\ ~(n <= new)
        BY <1>1, <1>2, <3>3
      <4>2. node'[n] = node[n]
        BY <1>6, <1>8, <3>3, <4>1
      <4> QED BY <1>0, <3>3, <4>1, <4>2 DEF Allocated
    <3> QED BY <3>1, <3>2, <3>3
  <2>3. new \in 1 .. new
    BY <1>2
  <2> QED BY <1>2, <1>4, <1>11, <2>1, <2>2, <2>3 DEF Allocated
<1>14. DetoursEnd'
  <2> SUFFICES ASSUME NEW n \in 1 .. new, node'[n].empty
               PROVE  /\ node'[n].next # Null /\ node'[node'[n].next].displacement < node'[n].displacement
                      /\ node'[n].prev # Null /\ node'[node'[n].prev].displacement < node'[n].displacement
    BY <1>4 DEF DetoursEnd
  <2>1. n # new /\ n # head /\ n \in 1 .. size /\ n \in Events
    BY <1>1, <1>2, <1>7, <1>9, <1>10
  <2>2. node'[n] = R[n] /\ R[n].empty
    BY <1>8, <2>1
  <2>3. CASE node[n].empty /\ R[n].next = node[n].next /\ R[n].prev = node[n].prev
    <3>1. /\ node[n].next # Null /\ node[node[n].next].displacement < node[n].displacement
          /\ node[n].prev # Null /\ node[node[n].prev].displacement < node[n].displacement
      BY <1>0, <2>1, <2>3 DEF DetoursEnd
    <3>2. node[n].next \in 1 .. size /\ node[n].prev \in 1 .. size
      BY <1>0, <1>2, <2>1, <3>1 DEF Allocated, Null
    <3>3. node[n].next \in Events /\ node[n].prev \in Events /\ node[n].next # new /\ node[n].prev # new
      BY <1>2, <3>2
    <3>4. /\ node'[node[n].next].displacement = node[node[n].next].displacement
          /\ node'[node[n].prev].displacement = node[node[n].prev].displacement
          /\ node'[n].displacement = node[n].displacement
      BY <1>12, <2>1, <3>3
    <3>5. node'[n].next = node[n].next /\ node'[n].prev = node[n].prev
      BY <2>2, <2>3
    <3> QED BY <3>1, <3>4, <3>5
  <2>4. CASE R[n].next = head /\ R[n].prev = head /\ node[n].displacement > 0
    <3>1. node'[n].next = head /\ node'[n].prev = head
      BY <2>2, <2>4
    <3>2. node'[head].displacement = 0 /\ node'[n].displacement = node[n].displacement /\ node[n].displacement \in Nat
      BY <1>2, <1>5, <1>12, <2>1 DEF EventRecord
    <3>3. head # Null
      BY <1>2 DEF Null
    <3>4. 0 < node[n].displacement
      BY <2>4, <3>2
    <3> QED BY <3>1, <3>2, <3>3, <3>4
  <2> QED BY <1>6, <2>1, <2>2, <2>3, <2>4
<1>15. LineIntact'
  <2>1. EventAt'[0] = new
    <3>1. 0 \in 0 .. MaxEvents
      BY <1>2
    <3> QED BY <1>4, <3>1, EventAtPrimed
  <2>2. new # Null
    BY <1>2 DEF Null
  <2>3. node'[tail'].displacement = 0 /\ node'[tail'].next = Null /\ node'[head'].prev = Null /\ EventAt'[0] = tail'
    BY <1>4, <1>9, <2>1
  <2>4. ASSUME NEW d \in 0 .. 0
        PROVE  /\ EventAt'[d] # Null /\ node'[EventAt'[d]].displacement = d /\ ~node'[EventAt'[d]].empty
               /\ d > 0 => node'[EventAt'[d]].prev = EventAt'[d - 1]
    <3>1. d = 0 /\ ~(d > 0)
      OBVIOUS
    <3> QED BY <1>9, <2>1, <2>2, <3>1
  <2> QED BY <2>3, <2>4 DEF LineIntact
<1>16. Lands
  BY <1>4 DEF Lands
<1> QED BY <1>13, <1>14, <1>15, <1>16 DEF ChannelInv

LEMMA ChannelInit == Init => ChannelInv
<1> SUFFICES ASSUME Init PROVE ChannelInv
  OBVIOUS
<1>1. PICK v \in Values : node = [n \in Events |-> IF n = 1 THEN NewEvent(v, 0, Null, 0) ELSE Unused]
  BY DEF Init
<1>2. size = 1 /\ head = 1 /\ tail = 1 /\ at = [e \in Endpoints |-> Null]
  BY DEF Init
<1>3. MaxEvents \in Nat /\ Events = 1 .. MaxEvents /\ 1 \in Events
  BY ChannelAssumption DEF Events
<1>4. /\ node[1].displacement = 0 /\ ~node[1].empty /\ node[1].next = Null /\ node[1].prev = Null
      /\ \A n \in Events : n # 1 => node[n].next = Null /\ node[n].prev = Null
  BY <1>1, <1>3 DEF NewEvent, Unused
<1>5. node \in [Events -> EventRecord]
  <2>1. NewEvent(v, 0, Null, 0) \in EventRecord /\ Unused \in EventRecord
    BY <1>3 DEF NewEvent, Unused, EventRecord, Null
  <2> QED BY <1>1, <2>1
<1>6. Allocated
  <2>1. \A n \in Events : n <= 1 <=> n = 1
    BY <1>3
  <2>2. at \in [Endpoints -> 0 .. 1] /\ Null \in 0 .. 1 /\ 0 < 1 /\ 1 \in 1 .. 1
    BY <1>2 DEF Null
  <2> QED BY <1>2, <1>3, <1>4, <1>5, <2>1, <2>2 DEF Allocated
<1>7. DetoursEnd
  <2>1. \A n \in 1 .. 1 : n = 1
    OBVIOUS
  <2> QED BY <1>2, <1>4, <2>1 DEF DetoursEnd
<1>8. EventAt[0] = 1
  <2>1. 0 \in 0 .. MaxEvents
    BY <1>3
  <2> QED BY <1>2, <2>1, EventAtUnfold
<1>9. LineIntact
  <2>1. \A d \in 0 .. 0 : d = 0 /\ ~(d > 0)
    OBVIOUS
  <2> QED BY <1>2, <1>4, <1>8, <2>1 DEF LineIntact, Null
<1> QED BY <1>6, <1>7, <1>9 DEF ChannelInv

\* Every operation keeps the invariant, and who moves lands on an event not taken back.
LEMMA OperationStep ==
  ASSUME ChannelInv, Next
  PROVE  ChannelInv' /\ Lands
<1>0. Allocated /\ DetoursEnd /\ LineIntact /\ size \in Nat
  BY DEF ChannelInv, Allocated, Events
<1>1. PICK D : D = node[tail].displacement
  OBVIOUS
<1>2. /\ D \in 0 .. size - 1 /\ EventAt[0] = head /\ EventAt[D] = tail
      /\ \A d \in 0 .. D : EventAt[d] \in 1 .. size /\ ~node[EventAt[d]].empty
  BY <1>0, <1>1, LineFacts
<1>3. /\ head \in 1 .. size /\ ~node[head].empty /\ tail \in 1 .. size /\ ~node[tail].empty
  <2>1. 0 \in 0 .. D /\ D \in 0 .. D
    BY <1>0, <1>2
  <2> QED BY <1>2, <2>1
<1>4. \A e \in Endpoints : Exists(e) => at[e] \in 1 .. size
  BY <1>0 DEF Allocated, Exists, Null
<1>5. ASSUME NEW e \in Endpoints, NewEndpoint(e) \/ SetToTail(e) PROVE ChannelInv' /\ Lands
  <2>1. UNCHANGED <<size, node, head, tail>> /\ MoveTo(e, tail)
    BY <1>5 DEF NewEndpoint, SetToTail
  <2> QED BY <1>3, <2>1, MoveStep
<1>6. ASSUME NEW e \in Endpoints, SetToHead(e) PROVE ChannelInv' /\ Lands
  <2>1. UNCHANGED <<size, node, head, tail>> /\ MoveTo(e, head)
    BY <1>2, <1>6 DEF SetToHead
  <2> QED BY <1>3, <2>1, MoveStep
<1>7. ASSUME NEW e \in Endpoints, NextValue(e) PROVE ChannelInv' /\ Lands
  <2>1. PICK n : n = NextEvent(at[e])
    OBVIOUS
  <2>2. UNCHANGED <<size, node, head, tail>> /\ MoveTo(e, n) /\ Exists(e)
    BY <1>7, <2>1 DEF NextValue
  <2>3. n \in 1 .. size /\ (n # at[e] => ~node[n].empty)
    BY <1>0, <1>4, <2>1, <2>2, NextLands
  <2> QED BY <2>2, <2>3, MoveStep
<1>8. ASSUME NEW e \in Endpoints, UnreadValue(e) PROVE ChannelInv' /\ Lands
  <2>1. PICK n : n = PreviousEvent(at[e])
    OBVIOUS
  <2>2. UNCHANGED <<size, node, head, tail>> /\ MoveTo(e, n) /\ Exists(e)
    BY <1>8, <2>1 DEF UnreadValue
  <2>3. n \in 1 .. size /\ (n # at[e] => ~node[n].empty)
    BY <1>0, <1>4, <2>1, <2>2, PreviousLands
  <2> QED BY <2>2, <2>3, MoveStep
<1>9. ASSUME NEW e \in Endpoints, NEW f \in Endpoints, CloneEndpoint(e, f) PROVE ChannelInv' /\ Lands
  <2>1. PICK d : d = node[at[f]].displacement
    OBVIOUS
  <2>2. UNCHANGED <<size, node, head, tail>> /\ MoveTo(e, EventAt[d]) /\ Exists(f) /\ d <= D
    BY <1>1, <1>9, <2>1 DEF CloneEndpoint
  <2>3. d \in Nat
    <3>1. at[f] \in 1 .. size
      BY <1>4, <2>2
    <3>2. size \in 1 .. MaxEvents /\ MaxEvents \in Nat
      BY <1>0, ChannelAssumption DEF Allocated, Events
    <3>3. at[f] \in Events
      BY <3>1, <3>2 DEF Events
    <3> QED BY <1>0, <2>1, <3>3 DEF Allocated, EventRecord
  <2>4. EventAt[d] \in 1 .. size /\ ~node[EventAt[d]].empty
    BY <1>0, <1>2, <2>2, <2>3
  <2> QED BY <2>2, <2>4, MoveStep
<1>10. ASSUME NEW e \in Endpoints, UnwriteValue(e) PROVE ChannelInv' /\ Lands
  BY <1>10, UnwriteStep
<1>11. ASSUME NEW e \in Endpoints, NEW v \in Values, AppendValue(e, v) PROVE ChannelInv' /\ Lands
  BY <1>11, AppendStep
<1>12. ASSUME NEW v \in Values, ClearChannel(v) PROVE ChannelInv' /\ Lands
  BY <1>12, ClearStep
<1> QED BY <1>5, <1>6, <1>7, <1>8, <1>9, <1>10, <1>11, <1>12 DEF Next

LEMMA ChannelStutter ==
  ASSUME ChannelInv, UNCHANGED vars
  PROVE  ChannelInv'
<1>1. UNCHANGED <<size, node, head, tail, at>>
  BY DEF vars
<1>2. EventAt' = EventAt
  BY <1>1 DEF EventAt
<1>3. LineIntact'
  BY <1>1, <1>2 DEF ChannelInv, LineIntact
<1> QED BY <1>1, <1>3 DEF ChannelInv, Allocated, DetoursEnd

-----------------------------------------------------------------------------
(* Events off the line, and the way back from them.                        *)

Off == (1 .. size) \ Line

Heard == Seq(Values \cup {0})

\* K is the next event not taken back, L the event of the line that is reached, T what is
\* heard on the way: once, or along the heads of lines that were cleared to the present one.
Guides(K, L, T) ==
  /\ K \in [Off -> 1 .. size] /\ L \in [Off -> Line] /\ T \in [Off -> Heard]
  /\ \A m \in Off :
       /\ node[m].next \in 1 .. size /\ node[m].prev = node[m].next
       /\ K[m] = IF node[node[m].next].empty THEN K[node[m].next] ELSE node[m].next
       /\ ~node[K[m]].empty
       /\ IF K[m] \in Line THEN L[m] = K[m] /\ T[m] = <<node[K[m]].value>>
          ELSE L[m] = head /\ L[K[m]] = head /\ T[m] = <<node[K[m]].value>> \o T[K[m]]

Guided == \E K, L, T : Guides(K, L, T)

\* The walks of the endpoints are those.
Agrees(K, L, T) ==
  /\ \A m \in Off : NextEvent(m) = K[m] /\ PreviousEvent(m) = K[m]
  /\ Landing = [m \in 1 .. size |-> IF m \in Line THEN m ELSE L[m]]
  /\ Detour = [m \in 1 .. size |-> IF m \in Line THEN << >> ELSE T[m]]

\* Steps lower a rank up to B; f and g agree in B, and elsewhere if they do a step further.
Along(f, g, S, B, step, rank) ==
  \A m \in S :
    /\ rank[m] \in Nat
    /\ m \in B => f[m] = g[m]
    /\ m \notin B => /\ step[m] \in S /\ rank[step[m]] < rank[m]
                     /\ f[step[m]] = g[step[m]] => f[m] = g[m]

LEMMA AgreeAlong ==
  ASSUME NEW f, NEW g, NEW S, NEW B, NEW step, NEW rank, Along(f, g, S, B, step, rank)
  PROVE  \A m \in S : f[m] = g[m]
<1> USE DEF Along
<1> DEFINE I == {k \in Nat : \A m \in S : rank[m] < k => f[m] = g[m]}
<1>1. 0 \in I
  OBVIOUS
<1>2. ASSUME NEW k \in Nat, k \in I PROVE k + 1 \in I
  <2>1. ASSUME NEW m \in S, rank[m] < k + 1 PROVE f[m] = g[m]
    <3>1. CASE m \in B
      BY <3>1
    <3>2. CASE m \notin B
      <4>1. step[m] \in S /\ rank[step[m]] < rank[m] /\ rank[m] \in Nat /\ rank[step[m]] \in Nat
        BY <3>2
      <4>2. rank[step[m]] < k
        BY <2>1, <4>1
      <4>3. f[step[m]] = g[step[m]]
        BY <1>2, <4>1, <4>2
      <4> QED BY <3>2, <4>3
    <3> QED BY <3>1, <3>2
  <2> QED BY <2>1
<1> HIDE DEF I
<1>3. Nat \subseteq I
  BY <1>1, <1>2, SetInduction
<1>4. ASSUME NEW m \in S PROVE f[m] = g[m]
  <2>1. rank[m] + 1 \in I /\ rank[m] < rank[m] + 1
    BY <1>3
  <2> QED BY <2>1 DEF I
<1> QED BY <1>4

\* Facts about events off the line.
LEMMA OffFacts ==
  ASSUME ChannelInv
  PROVE  /\ size \in Nat /\ Line \subseteq 1 .. size /\ Off \subseteq 1 .. size
         /\ head \in Line /\ tail \in Line
         /\ \A m \in 1 .. size : m \in Events /\ m \in Nat /\ m # Null
         /\ \A m \in 1 .. size : node[m].empty => m \in Off
         /\ \A m \in 1 .. size : m \in Off <=> m \notin Line
         /\ \A m \in 1 .. size : node[m] \in EventRecord /\ node[m].displacement \in Nat
                                 /\ node[m].value \in Values \cup {0}
<1>0. Allocated /\ LineIntact
  BY DEF ChannelInv
<1>1. PICK D : D = node[tail].displacement
  OBVIOUS
<1>2. /\ D \in 0 .. size - 1 /\ EventAt[0] = head /\ EventAt[D] = tail
      /\ \A d \in 0 .. D : EventAt[d] \in 1 .. size /\ ~node[EventAt[d]].empty
  BY <1>0, <1>1, LineFacts
<1>3. Line = {EventAt[d] : d \in 0 .. D}
  BY <1>1 DEF Line, LineTo
<1>4. size \in Nat /\ MaxEvents \in Nat /\ size <= MaxEvents /\ Events = 1 .. MaxEvents
  BY <1>0, ChannelAssumption DEF Allocated, Events
<1>5. 0 \in 0 .. D /\ D \in 0 .. D
  BY <1>2, <1>4
<1>6. \A m \in 1 .. size : m \in Events /\ m \in Nat /\ m # Null
  BY <1>4 DEF Null
<1>7. \A m \in 1 .. size : node[m] \in EventRecord
  BY <1>0, <1>6 DEF Allocated
<1>8. \A m \in 1 .. size : node[m].displacement \in Nat /\ node[m].value \in Values \cup {0}
  BY <1>7 DEF EventRecord
<1> QED BY <1>2, <1>3, <1>4, <1>5, <1>6, <1>7, <1>8 DEF Off

\* What the guides say of an event off the line.
LEMMA GuideFacts ==
  ASSUME ChannelInv, NEW K, NEW L, NEW T, Guides(K, L, T), NEW m \in Off
  PROVE  /\ K[m] \in 1 .. size /\ L[m] \in Line /\ T[m] \in Heard
         /\ node[m].next \in 1 .. size /\ node[m].prev = node[m].next /\ node[m].next # Null
         /\ ~node[node[m].next].empty => K[m] = node[m].next
         /\ ~node[K[m]].empty
<1>1. /\ \A n \in 1 .. size : n # Null
      /\ \A n \in 1 .. size : node[n].empty => n \in Off
      /\ \A n \in 1 .. size : n \in Off <=> n \notin Line
  BY OffFacts
<1>2. K[m] \in 1 .. size /\ L[m] \in Line /\ T[m] \in Heard /\ \A n \in Off : T[n] \in Heard
  BY DEF Guides
<1>3. /\ node[m].next \in 1 .. size /\ node[m].prev = node[m].next
      /\ K[m] = IF node[node[m].next].empty THEN K[node[m].next] ELSE node[m].next
      /\ ~node[K[m]].empty
  BY DEF Guides
<1> QED BY <1>1, <1>2, <1>3

LEMMA GuideOver ==
  ASSUME ChannelInv, NEW K, NEW L, NEW T, Guides(K, L, T), NEW m \in Off, node[node[m].next].empty
  PROVE  node[m].next \in Off /\ K[m] = K[node[m].next]
<1>1. /\ node[m].next \in 1 .. size
      /\ K[m] = IF node[node[m].next].empty THEN K[node[m].next] ELSE node[m].next
  BY DEF Guides
<1>2. K[m] = K[node[m].next]
  BY <1>1
<1>3. node[m].next \in Off
  BY <1>1, OffFacts
<1> QED BY <1>2, <1>3

LEMMA GuideOnto ==
  ASSUME NEW K, NEW L, NEW T, Guides(K, L, T), NEW m \in Off, K[m] \in Line
  PROVE  L[m] = K[m] /\ T[m] = <<node[K[m]].value>>
BY DEF Guides

LEMMA GuideAlong ==
  ASSUME NEW K, NEW L, NEW T, Guides(K, L, T), NEW m \in Off, K[m] \notin Line
  PROVE  K[m] \in Off /\ L[m] = head /\ L[K[m]] = head
<1>1. K[m] \in Off
  BY DEF Guides, Off
<1>2. L[m] = head /\ L[K[m]] = head
  BY DEF Guides
<1> QED BY <1>1, <1>2

LEMMA GuideHears ==
  ASSUME NEW K, NEW L, NEW T, Guides(K, L, T), NEW m \in Off, K[m] \notin Line
  PROVE  T[m] = <<node[K[m]].value>> \o T[K[m]] /\ T[K[m]] \in Heard
<1>1. K[m] \in Off
  BY DEF Guides, Off
<1>2. T[K[m]] \in Heard
  BY <1>1 DEF Guides
<1>3. T[m] = <<node[K[m]].value>> \o T[K[m]]
  BY DEF Guides
<1> QED BY <1>2, <1>3

\* The walk of either from an event off the line goes where the guides say.
LEMMA ChaseGuided ==
  ASSUME ChannelInv, NEW K, NEW L, NEW T, Guides(K, L, T),
         NEW links, links = NextLinks \/ links = PrevLinks,
         NEW chase, Leads(chase, 1 .. MaxEvents, Taken, links),
         NEW m \in Off
  PROVE  chase[links[m]] = K[m]
<1>0. Allocated /\ DetoursEnd
  BY DEF ChannelInv
<1>1. /\ \A n \in Off : n \in Events /\ n \in 1 .. size /\ n \in 1 .. MaxEvents
      /\ \A n \in 1 .. size : n \in 1 .. MaxEvents
      /\ \A n \in Taken : n \in Off
  BY <1>0, OffFacts, LinksDescend DEF Taken
<1>2. \A n \in Off : links[n] = node[n].next
  BY <1>1, GuideFacts DEF NextLinks, PrevLinks
<1> DEFINE f == [n \in Off |-> chase[links[n]]]
           B == {n \in Off : ~node[links[n]].empty}
<1>3. \A n \in Off : Depths[links[n]] \in Nat /\ Depths[n] \in Nat
  <2> TAKE n \in Off
  <2>1. links[n] \in 1 .. size
    BY <1>2, GuideFacts
  <2>2. Depths[links[n]] \in 0 .. MaxEvents /\ Depths[n] \in 0 .. MaxEvents /\ MaxEvents \in Nat
    BY <1>0, <1>1, <2>1, LinksDescend
  <2> QED BY <2>2
<1>4. ASSUME NEW n \in Off, n \in B PROVE f[n] = K[n]
  <2>1. links[n] \in 1 .. size /\ K[n] = links[n] /\ links[n] \in 1 .. MaxEvents /\ links[n] \notin Taken
    BY <1>1, <1>2, <1>4, GuideFacts DEF Taken
  <2>2. chase = [x \in 1 .. MaxEvents |-> IF x \in Taken THEN chase[links[x]] ELSE x]
    BY DEF Leads
  <2>3. chase[links[n]] = links[n]
    BY <2>1, <2>2
  <2> QED BY <2>1, <2>3
<1>5. ASSUME NEW n \in Off, n \notin B
      PROVE  /\ links[n] \in Off /\ Depths[links[links[n]]] < Depths[links[n]]
             /\ f[links[n]] = K[links[n]] => f[n] = K[n]
  <2>1. /\ links[n] \in 1 .. size /\ node[links[n]].empty /\ K[n] = K[links[n]]
        /\ links[n] \in 1 .. MaxEvents /\ links[n] \in Taken /\ links[n] \in Off
    <3>1. links[n] = node[n].next /\ node[node[n].next].empty
      BY <1>2, <1>5
    <3>2. node[node[n].next].empty => node[n].next \in Off /\ K[n] = K[node[n].next]
      BY GuideOver
    <3>3. node[n].next \in 1 .. size
      BY GuideFacts
    <3> QED BY <1>1, <3>1, <3>2, <3>3 DEF Taken
  <2>2. chase = [x \in 1 .. MaxEvents |-> IF x \in Taken THEN chase[links[x]] ELSE x]
    BY DEF Leads
  <2>3. chase[links[n]] = chase[links[links[n]]]
    BY <2>1, <2>2
  <2>4. Depths[links[links[n]]] < Depths[links[n]]
    BY <1>0, <2>1, LinksDescend
  <2> QED BY <2>1, <2>3, <2>4
<1> DEFINE rank == [n \in Off |-> Depths[links[n]]]
<1>6. Along(f, K, Off, B, links, rank)
  BY <1>3, <1>4, <1>5 DEF Along
<1> HIDE DEF f, B, rank
<1>7. \A n \in Off : f[n] = K[n]
  BY <1>6, AgreeAlong
<1> QED BY <1>7 DEF f

\* What is heard gets shorter along the way.
Remaining(T) == [m \in 1 .. size |-> IF m \in Line THEN 0 ELSE Len(T[m])]

LEMMA RemainingFalls ==
  ASSUME ChannelInv, NEW K, NEW L, NEW T, Guides(K, L, T)
  PROVE  /\ \A m \in 1 .. size : Remaining(T)[m] \in Nat
         /\ \A m \in Off : K[m] \in 1 .. size /\ Remaining(T)[K[m]] < Remaining(T)[m]
<1>1. \A m \in 1 .. size : m \notin Line => m \in Off
  BY DEF Off
<1>2. ASSUME NEW m \in 1 .. size PROVE Remaining(T)[m] \in Nat
  <2>1. CASE m \in Line
    BY <2>1 DEF Remaining
  <2>2. CASE m \notin Line
    <3>1. T[m] \in Heard
      BY <1>1, <2>2, GuideFacts
    <3>2. Len(T[m]) \in Nat
      BY <3>1 DEF Heard
    <3> QED BY <2>2, <3>2 DEF Remaining
  <2> QED BY <2>1, <2>2
<1>3. ASSUME NEW m \in Off PROVE K[m] \in 1 .. size /\ Remaining(T)[K[m]] < Remaining(T)[m]
  <2>1. K[m] \in 1 .. size /\ m \in 1 .. size /\ m \notin Line
    BY GuideFacts DEF Off
  <2>2. CASE K[m] \in Line
    <3>1. T[m] = <<node[K[m]].value>>
      BY <2>2, GuideOnto
    <3>2. Len(T[m]) = 1
      BY <3>1
    <3>3. Remaining(T)[K[m]] = 0
      BY <2>1, <2>2 DEF Remaining
    <3>4. Remaining(T)[m] = Len(T[m])
      BY <2>1 DEF Remaining
    <3> QED BY <2>1, <3>2, <3>3, <3>4
  <2>3. CASE K[m] \notin Line
    <3>1. T[m] = <<node[K[m]].value>> \o T[K[m]] /\ T[K[m]] \in Heard
      BY <2>3, GuideHears
    <3>2. PICK s \in Heard : s = T[K[m]]
      BY <3>1
    <3>3. PICK x : x = node[K[m]].value
      OBVIOUS
    <3>4. Len(<<x>> \o s) = 1 + Len(s) /\ Len(s) \in Nat
      BY <3>2 DEF Heard
    <3>5. Len(T[m]) = 1 + Len(T[K[m]]) /\ Len(T[K[m]]) \in Nat
      BY <3>1, <3>2, <3>3, <3>4
    <3> QED BY <2>1, <2>3, <3>5 DEF Remaining
  <2> QED BY <2>2, <2>3
<1> QED BY <1>2, <1>3

LEMMA GuidesAgree ==
  ASSUME ChannelInv, NEW K, NEW L, NEW T, Guides(K, L, T)
  PROVE  Agrees(K, L, T)
<1>0. /\ Allocated /\ DetoursEnd
      /\ \A m \in 1 .. size : m \notin Line => m \in Off
      /\ \A m \in Off : m \in 1 .. size /\ m \notin Line /\ m \in Events
  BY OffFacts DEF ChannelInv, Off
<1>1. ASSUME NEW m \in Off PROVE NextEvent(m) = K[m]
  <2>1. PICK chase : /\ Leads(chase, 1 .. MaxEvents, Taken, NextLinks)
                     /\ \A n : NextEvent(n) = IF node[n].next = Null THEN n ELSE chase[node[n].next]
    BY <1>0, NextChase
  <2>2. chase[NextLinks[m]] = K[m]
    BY <2>1, ChaseGuided
  <2>3. NextLinks[m] = node[m].next /\ node[m].next # Null
    BY <1>0, GuideFacts DEF NextLinks
  <2> QED BY <2>1, <2>2, <2>3
<1>2. ASSUME NEW m \in Off PROVE PreviousEvent(m) = K[m]
  <2>1. PICK chase : /\ Leads(chase, 1 .. MaxEvents, Taken, PrevLinks)
                     /\ \A n : PreviousEvent(n) = IF node[n].prev = Null THEN n ELSE chase[node[n].prev]
    BY <1>0, PreviousChase
  <2>2. chase[PrevLinks[m]] = K[m]
    BY <2>1, ChaseGuided
  <2>3. PrevLinks[m] = node[m].prev /\ node[m].prev # Null
    BY <1>0, GuideFacts DEF PrevLinks
  <2> QED BY <2>1, <2>2, <2>3
<1>3. PICK S : S = 1 .. size
  OBVIOUS
<1>4. PICK step : step = [m \in S |-> NextEvent(m)]
  OBVIOUS
<1>5. PICK rank : rank = Remaining(T)
  OBVIOUS
<1>6. /\ \A m \in S : rank[m] \in Nat
      /\ \A m \in S : m \notin Line => step[m] = K[m] /\ step[m] \in S /\ rank[step[m]] < rank[m]
  BY <1>0, <1>1, <1>3, <1>4, <1>5, RemainingFalls
<1>7. Landing = [m \in 1 .. size |-> IF m \in Line THEN m ELSE L[m]]
  <2> DEFINE Lands0(f) == f = [m \in S |-> IF m \in Line THEN m ELSE f[step[m]]]
             f0 == [m \in S |-> IF m \in Line THEN m ELSE L[m]]
             g == Landing
  <2>1. g = CHOOSE f : Lands0(f)
    <3>1. \A f : [m \in 1 .. size |-> IF m \in Line THEN m ELSE f[NextEvent(m)]]
                   = [m \in S |-> IF m \in Line THEN m ELSE f[step[m]]]
      BY <1>3, <1>4
    <3> QED BY <3>1, Zenon DEF Landing
  <2>2. ASSUME NEW m \in S, m \notin Line PROVE f0[step[m]] = L[m]
    <3>1. m \in Off /\ step[m] = K[m] /\ step[m] \in S
      BY <1>0, <1>3, <1>6, <2>2
    <3>2. CASE K[m] \in Line
      <4>1. L[m] = K[m]
        BY <3>1, <3>2, GuideOnto
      <4> QED BY <3>1, <3>2, <4>1
    <3>3. CASE K[m] \notin Line
      <4>1. L[m] = head /\ L[K[m]] = head
        BY <3>1, <3>3, GuideAlong
      <4> QED BY <3>1, <3>3, <4>1
    <3> QED BY <3>2, <3>3
  <2>3. Lands0(f0)
    BY <2>2
  <2>4. Lands0(g)
    <3> HIDE DEF f0, Lands0, g
    <3>1. \E f : Lands0(f)
      BY <2>3
    <3> QED BY <2>1, <3>1
  <2> HIDE DEF g
  <2>5. g = [m \in S |-> IF m \in Line THEN m ELSE g[step[m]]]
    BY <2>4
  <2>6. f0 = [m \in S |-> IF m \in Line THEN m ELSE f0[step[m]]]
    BY <2>3
  <2>7. DOMAIN f0 = S /\ f0 = [m \in S |-> f0[m]]
    OBVIOUS
  <2> HIDE DEF f0
  <2>8. Along(g, f0, S, Line, step, rank)
    BY <1>6, <2>5, <2>6 DEF Along
  <2>9. \A m \in S : g[m] = f0[m]
    BY <2>8, AgreeAlong
  <2>10. g = [m \in S |-> g[m]]
    BY <2>5
  <2>11. g = f0
    BY <2>7, <2>9, <2>10
  <2> QED BY <1>3, <2>11 DEF g, f0
<1>8. Detour = [m \in 1 .. size |-> IF m \in Line THEN << >> ELSE T[m]]
  <2> DEFINE Leads0(f) == f = [m \in S |-> IF m \in Line THEN << >> ELSE <<node[step[m]].value>> \o f[step[m]]]
             f0 == [m \in S |-> IF m \in Line THEN << >> ELSE T[m]]
             g == Detour
  <2>1. g = CHOOSE f : Leads0(f)
    <3>1. \A f : [m \in 1 .. size |-> IF m \in Line THEN << >> ELSE <<node[NextEvent(m)].value>> \o f[NextEvent(m)]]
                   = [m \in S |-> IF m \in Line THEN << >> ELSE <<node[step[m]].value>> \o f[step[m]]]
      BY <1>3, <1>4
    <3> QED BY <3>1, Zenon DEF Detour
  <2>2. ASSUME NEW m \in S, m \notin Line PROVE <<node[step[m]].value>> \o f0[step[m]] = T[m]
    <3>1. m \in Off /\ step[m] = K[m] /\ step[m] \in S
      BY <1>0, <1>3, <1>6, <2>2
    <3>2. CASE K[m] \in Line
      <4>1. f0[step[m]] = << >>
        BY <3>1, <3>2
      <4>2. T[m] = <<node[K[m]].value>>
        BY <3>1, <3>2, GuideOnto
      <4>3. PICK x : x = node[K[m]].value
        OBVIOUS
      <4>4. <<x>> \o << >> = <<x>>
        OBVIOUS
      <4> QED BY <3>1, <4>1, <4>2, <4>3, <4>4
    <3>3. CASE K[m] \notin Line
      <4>1. f0[step[m]] = T[K[m]]
        BY <3>1, <3>3
      <4>2. T[m] = <<node[K[m]].value>> \o T[K[m]]
        BY <3>1, <3>3, GuideHears
      <4> QED BY <3>1, <4>1, <4>2
    <3> QED BY <3>2, <3>3
  <2>3. Leads0(f0)
    BY <2>2
  <2>4. Leads0(g)
    <3> HIDE DEF f0, Leads0, g
    <3>1. \E f : Leads0(f)
      BY <2>3
    <3> QED BY <2>1, <3>1
  <2> HIDE DEF g
  <2>5. g = [m \in S |-> IF m \in Line THEN << >> ELSE <<node[step[m]].value>> \o g[step[m]]]
    BY <2>4
  <2>6. f0 = [m \in S |-> IF m \in Line THEN << >> ELSE <<node[step[m]].value>> \o f0[step[m]]]
    BY <2>3
  <2>7. DOMAIN f0 = S /\ f0 = [m \in S |-> f0[m]]
    OBVIOUS
  <2> HIDE DEF f0
  <2>8. Along(g, f0, S, Line, step, rank)
    <3>1. \A m \in S : m \in Line => g[m] = f0[m]
      BY <2>5, <2>6
    <3>2. \A m \in S : m \notin Line => /\ g[m] = <<node[step[m]].value>> \o g[step[m]]
                                        /\ f0[m] = <<node[step[m]].value>> \o f0[step[m]]
      BY <2>5, <2>6
    <3>3. \A m \in S : m \notin Line => (g[step[m]] = f0[step[m]] => g[m] = f0[m])
      BY <3>2
    <3> QED BY <1>6, <3>1, <3>3 DEF Along
  <2>9. \A m \in S : g[m] = f0[m]
    BY <2>8, AgreeAlong
  <2>10. g = [m \in S |-> g[m]]
    BY <2>5
  <2>11. g = f0
    BY <2>7, <2>9, <2>10
  <2> QED BY <1>3, <2>11 DEF g, f0
<1> QED BY <1>1, <1>2, <1>7, <1>8 DEF Agrees

AllAgree == ChannelInv => \A K, L, T : Guides(K, L, T) => Agrees(K, L, T)

LEMMA AlwaysAgree == AllAgree
BY GuidesAgree DEF AllAgree

LEMMA AgreePrimed ==
  ASSUME ChannelInv', NEW K, NEW L, NEW T, Guides(K, L, T)'
  PROVE  Agrees(K, L, T)'
<1>1. AllAgree'
  BY AlwaysAgree, PTL
<1> QED BY <1>1 DEF AllAgree

\* The events of the line beyond the first k.
Beyond(k) == {EventAt[d] : d \in k + 1 .. node[tail].displacement}

\* What revert() does to an event.
LEMMA RevertedEvents ==
  ASSUME Allocated, LineIntact, NEW k \in 0 .. node[tail].displacement,
         NEW target, target = EventAt[k], NEW R, R = Reverted(target)
  PROVE  /\ \A n \in Events :
              /\ R[n].value = node[n].value /\ R[n].publisher = node[n].publisher
              /\ R[n].displacement = node[n].displacement
              /\ n \in Beyond(k) => R[n].next = target /\ R[n].prev = target /\ R[n].empty
              /\ n \notin Beyond(k) => R[n].empty = node[n].empty /\ R[n].prev = node[n].prev
              /\ n \notin Beyond(k) /\ n # target => R[n].next = node[n].next
         /\ R = [n \in Events |-> R[n]]
         /\ \A n \in Events : R[n] \in EventRecord
<1>1. PICK D : D = node[tail].displacement
  OBVIOUS
<1>2. /\ D \in 0 .. size - 1 /\ D \in 0 .. MaxEvents /\ k \in 0 .. D
      /\ \A d \in 0 .. D : /\ EventAt[d] \in 1 .. size /\ EventAt[d] \in Events
                           /\ node[EventAt[d]].displacement = d /\ ~node[EventAt[d]].empty
  BY <1>1, LineFacts
<1>3. MaxEvents \in Nat /\ size \in 1 .. MaxEvents /\ Events = 1 .. MaxEvents /\ node \in [Events -> EventRecord]
  BY ChannelAssumption DEF Allocated, Events
<1>4. target \in Events /\ node[target].displacement = k
  BY <1>2
<1>5. ASSUME NEW n \in Events
      PROVE  n \in LineTo(tail) /\ node[n].displacement > k <=> n \in Beyond(k)
  <2>1. LineTo(tail) = {EventAt[d] : d \in 0 .. D}
    BY <1>1 DEF LineTo
  <2>2. Beyond(k) = {EventAt[d] : d \in k + 1 .. D}
    BY <1>1 DEF Beyond
  <2>3. \A d \in k + 1 .. D : d \in 0 .. D /\ d > k
    BY <1>2
  <2>4. \A d \in 0 .. D : d > k => d \in k + 1 .. D
    BY <1>2
  <2> QED BY <1>2, <2>1, <2>2, <2>3, <2>4
<1>6. R = [n \in Events |->
            IF n \in Beyond(k)
              THEN [node[n] EXCEPT !.next = target, !.prev = target, !.empty = TRUE]
            ELSE IF n = target THEN [node[n] EXCEPT !.next = Null]
            ELSE node[n]]
  BY <1>4, <1>5 DEF Reverted
<1> HIDE DEF Beyond
<1>7. ASSUME NEW n \in Events
      PROVE  /\ R[n].value = node[n].value /\ R[n].publisher = node[n].publisher
             /\ R[n].displacement = node[n].displacement
             /\ n \in Beyond(k) => R[n].next = target /\ R[n].prev = target /\ R[n].empty
             /\ n \notin Beyond(k) => R[n].empty = node[n].empty /\ R[n].prev = node[n].prev
             /\ n \notin Beyond(k) /\ n # target => R[n].next = node[n].next
             /\ R[n] \in EventRecord
  <2>1. node[n] \in EventRecord /\ target \in 0 .. MaxEvents /\ Null \in 0 .. MaxEvents
    BY <1>3, <1>4 DEF Null
  <2>2. CASE n \in Beyond(k)
    <3>1. R[n] = [node[n] EXCEPT !.next = target, !.prev = target, !.empty = TRUE]
      BY <1>6, <2>2
    <3> QED BY <2>1, <2>2, <3>1 DEF EventRecord
  <2>3. CASE n \notin Beyond(k) /\ n = target
    <3>1. R[n] = [node[n] EXCEPT !.next = Null]
      BY <1>6, <2>3
    <3> QED BY <2>1, <2>3, <3>1 DEF EventRecord
  <2>4. CASE n \notin Beyond(k) /\ n # target
    <3>1. R[n] = node[n]
      BY <1>6, <2>4
    <3> QED BY <2>1, <2>4, <3>1
  <2> QED BY <2>2, <2>3, <2>4
<1>8. R = [n \in Events |-> R[n]]
  BY <1>6
<1> QED BY <1>7, <1>8

\* The line is the same as far as its links are.
LEMMA LineKept ==
  ASSUME Allocated, LineIntact, NEW k \in 0 .. node[tail].displacement, head' = head,
         \A d \in 0 .. k - 1 : node'[EventAt[d]].next = node[EventAt[d]].next
  PROVE  \A d \in 0 .. k : EventAt'[d] = EventAt[d]
<1>1. PICK D : D = node[tail].displacement
  OBVIOUS
<1>2. /\ D \in 0 .. size - 1 /\ D \in 0 .. MaxEvents /\ EventAt[0] = head
      /\ \A d \in 1 .. D : EventAt[d] = node[EventAt[d - 1]].next
  BY <1>1, LineFacts
<1>3. k \in 0 .. MaxEvents /\ MaxEvents \in Nat /\ k \in 0 .. D
  BY <1>1, <1>2, ChannelAssumption
<1> DEFINE E == EventAt'
           g == EventAt
           links == node'
           start == head'
<1>4. WalkOf(E, MaxEvents, start, links)
  BY EventAtPrimed DEF WalkOf
<1>5. ASSUME NEW d \in 1 .. k PROVE g[d] = links[g[d - 1]].next
  <2>1. d \in 1 .. D /\ d - 1 \in 0 .. k - 1
    BY <1>2, <1>3
  <2> QED BY <1>2, <2>1
<1>6. g[0] = start
  BY <1>2
<1> HIDE DEF E, g, links, start
<1>7. Follows(g, k, start, links)
  BY <1>5, <1>6 DEF Follows
<1>8. \A d \in 0 .. k : E[d] = g[d]
  BY <1>3, <1>4, <1>7, WalkUnique
<1> QED BY <1>8 DEF E, g

-----------------------------------------------------------------------------
(* The way back after each operation.                                      *)

LEMMA GraphStays ==
  ASSUME UNCHANGED <<size, node, head, tail>>
  PROVE  EventAt' = EventAt /\ Line' = Line /\ Off' = Off
<1>1. EventAt' = EventAt
  BY DEF EventAt
<1>2. Line' = Line
  BY <1>1 DEF Line, LineTo
<1> QED BY <1>1, <1>2 DEF Off

LEMMA MoveGuides ==
  ASSUME UNCHANGED <<size, node, head, tail>>, NEW K, NEW L, NEW T, Guides(K, L, T)
  PROVE  Guides(K, L, T)'
BY GraphStays DEF Guides

\* append() adds the last event of the line, and nothing else.
LEMMA AppendFacts ==
  ASSUME ChannelInv, ChannelInv', NEW e \in Endpoints, NEW v \in Values, AppendValue(e, v),
         NEW D, D = node[tail].displacement, NEW new, new = size + 1
  PROVE  /\ size' = new /\ tail' = new /\ head' = head /\ at' = [at EXCEPT ![e] = new]
         /\ D \in Nat /\ node'[tail'].displacement = D + 1
         /\ \A d \in 0 .. D : EventAt'[d] = EventAt[d] /\ EventAt[d] \in 1 .. size
         /\ EventAt'[D + 1] = new
         /\ node'[new].value = v /\ node'[new].publisher = e
         /\ \A n \in 1 .. size :
              /\ node'[n].value = node[n].value /\ node'[n].publisher = node[n].publisher
              /\ node'[n].displacement = node[n].displacement /\ node'[n].empty = node[n].empty
              /\ node'[n].prev = node[n].prev /\ (n # tail => node'[n].next = node[n].next)
         /\ Line' = Line \cup {new} /\ Off' = Off
<1>0. Allocated /\ LineIntact /\ LineIntact'
  BY DEF ChannelInv
<1>1. /\ MaxEvents \in Nat /\ size \in 1 .. MaxEvents /\ Events = 1 .. MaxEvents
      /\ tail \in 1 .. size /\ tail \in Events
      /\ new \in Events /\ new \notin 1 .. size /\ node \in [Events -> EventRecord]
  BY <1>0, ChannelAssumption DEF Allocated, Events, AppendValue
<1>2. /\ size' = new /\ tail' = new /\ head' = head /\ at' = [at EXCEPT ![e] = new]
      /\ node' = [node EXCEPT ![tail].next = new, ![new] = NewEvent(v, e, tail, D + 1)]
  BY DEF AppendValue, MoveTo
<1>3. /\ D \in 0 .. size - 1 /\ EventAt[D] = tail
      /\ \A d \in 0 .. D : /\ EventAt[d] \in 1 .. size /\ EventAt[d] \in Events
                           /\ node[EventAt[d]].displacement = d
  BY <1>0, LineFacts
<1>4. /\ node'[new] = NewEvent(v, e, tail, D + 1)
      /\ node'[tail] = [node[tail] EXCEPT !.next = new]
      /\ \A n \in Events : n # new /\ n # tail => node'[n] = node[n]
  BY <1>1, <1>2
<1>5. node'[new].value = v /\ node'[new].publisher = e /\ node'[new].displacement = D + 1
  BY <1>4 DEF NewEvent
<1>6. ASSUME NEW n \in 1 .. size
      PROVE  /\ node'[n].value = node[n].value /\ node'[n].publisher = node[n].publisher
             /\ node'[n].displacement = node[n].displacement /\ node'[n].empty = node[n].empty
             /\ node'[n].prev = node[n].prev /\ (n # tail => node'[n].next = node[n].next)
  <2>1. n \in Events /\ n # new /\ node[n] \in EventRecord
    BY <1>1
  <2>2. CASE n = tail
    <3>1. node'[n] = [node[n] EXCEPT !.next = new]
      BY <1>4, <2>2
    <3> QED BY <2>1, <2>2, <3>1 DEF EventRecord
  <2>3. CASE n # tail
    BY <1>4, <2>1, <2>3
  <2> QED BY <2>2, <2>3
<1>7. \A d \in 0 .. D : EventAt'[d] = EventAt[d]
  <2>1. ASSUME NEW d \in 0 .. D - 1 PROVE node'[EventAt[d]].next = node[EventAt[d]].next
    <3>1. d \in 0 .. D /\ d # D /\ D \in Nat /\ D \in 0 .. D
      BY <1>1, <1>3
    <3>2. EventAt[d] # tail /\ EventAt[d] \in 1 .. size
      BY <1>3, <3>1
    <3> QED BY <1>6, <3>2
  <2>2. D \in 0 .. node[tail].displacement
    BY <1>1, <1>3
  <2> QED BY <1>0, <1>2, <2>1, <2>2, LineKept
<1>8. node'[tail'].displacement = D + 1
  BY <1>2, <1>5
<1>9. EventAt'[D + 1] = new
  BY <1>0, <1>2, <1>8 DEF LineIntact
<1>10. Line' = Line \cup {new}
  <2>1. Line = {EventAt[d] : d \in 0 .. D}
    BY DEF Line, LineTo
  <2>2. Line' = {EventAt'[d] : d \in 0 .. D + 1}
    BY <1>8 DEF Line, LineTo
  <2>3. D + 1 \in 0 .. D + 1 /\ \A d \in 0 .. D : d \in 0 .. D + 1
    BY <1>1, <1>3
  <2>4. \A d \in 0 .. D + 1 : d = D + 1 \/ d \in 0 .. D
    BY <1>1, <1>3
  <2>5. \A x : x \in Line' <=> x \in Line \/ x = new
    BY <1>7, <1>9, <2>1, <2>2, <2>3, <2>4
  <2> QED BY <2>5
<1>11. Off' = Off
  <2>1. \A n : n \in 1 .. new <=> n \in 1 .. size \/ n = new
    BY <1>1
  <2>2. \A n : n \in Off' <=> n \in Off
    BY <1>1, <1>2, <1>10, <2>1 DEF Off
  <2> QED BY <2>2
<1>12. D \in Nat /\ \A d \in 0 .. D : EventAt'[d] = EventAt[d] /\ EventAt[d] \in 1 .. size
  BY <1>1, <1>3, <1>7
<1> QED BY <1>2, <1>5, <1>6, <1>8, <1>9, <1>10, <1>11, <1>12

LEMMA AppendGuides ==
  ASSUME ChannelInv, ChannelInv', NEW e \in Endpoints, NEW v \in Values, AppendValue(e, v),
         NEW K, NEW L, NEW T, Guides(K, L, T)
  PROVE  Guides(K, L, T)'
<1>1. PICK D : D = node[tail].displacement
  OBVIOUS
<1>2. PICK new : new = size + 1
  OBVIOUS
<1>3. /\ size' = new /\ head' = head
      /\ \A n \in 1 .. size :
           /\ node'[n].value = node[n].value /\ node'[n].empty = node[n].empty
           /\ node'[n].prev = node[n].prev /\ (n # tail => node'[n].next = node[n].next)
      /\ Line' = Line \cup {new} /\ Off' = Off
  BY <1>1, <1>2, AppendFacts
<1>4. /\ size \in Nat /\ Off \subseteq 1 .. size /\ tail \in Line
      /\ \A m \in 1 .. size : m \in Off <=> m \notin Line
  BY OffFacts
<1>5. \A n \in 1 .. size : n \in 1 .. new /\ n # new /\ (n \in Line' <=> n \in Line)
  BY <1>2, <1>3, <1>4
<1>6. K \in [Off' -> 1 .. size'] /\ L \in [Off' -> Line'] /\ T \in [Off' -> Heard]
  <2>1. K \in [Off -> 1 .. size] /\ L \in [Off -> Line] /\ T \in [Off -> Heard]
    BY DEF Guides
  <2> QED BY <1>3, <1>5, <2>1
<1>7. ASSUME NEW m \in Off
      PROVE  /\ node'[m].next \in 1 .. size' /\ node'[m].prev = node'[m].next
             /\ K[m] = IF node'[node'[m].next].empty THEN K[node'[m].next] ELSE node'[m].next
             /\ ~node'[K[m]].empty
             /\ IF K[m] \in Line' THEN L[m] = K[m] /\ T[m] = <<node'[K[m]].value>>
                ELSE L[m] = head' /\ L[K[m]] = head' /\ T[m] = <<node'[K[m]].value>> \o T[K[m]]
  <2>1. /\ node[m].next \in 1 .. size /\ node[m].prev = node[m].next
        /\ K[m] = IF node[node[m].next].empty THEN K[node[m].next] ELSE node[m].next
        /\ ~node[K[m]].empty /\ K[m] \in 1 .. size
        /\ IF K[m] \in Line THEN L[m] = K[m] /\ T[m] = <<node[K[m]].value>>
           ELSE L[m] = head /\ L[K[m]] = head /\ T[m] = <<node[K[m]].value>> \o T[K[m]]
    BY DEF Guides
  <2>2. m \in 1 .. size /\ m # tail
    BY <1>4
  <2>3. node'[m].next = node[m].next /\ node'[m].prev = node[m].prev
    BY <1>3, <2>2
  <2>4. /\ node'[node[m].next].empty = node[node[m].next].empty
        /\ node'[K[m]].empty = node[K[m]].empty /\ node'[K[m]].value = node[K[m]].value
        /\ (K[m] \in Line' <=> K[m] \in Line)
    BY <1>3, <1>5, <2>1
  <2>5. node'[m].next \in 1 .. size' /\ node'[m].prev = node'[m].next
    BY <1>3, <1>5, <2>1, <2>3
  <2>6. K[m] = IF node'[node'[m].next].empty THEN K[node'[m].next] ELSE node'[m].next
    BY <2>1, <2>3, <2>4
  <2>7. ~node'[K[m]].empty
    BY <2>1, <2>4
  <2>8. IF K[m] \in Line' THEN L[m] = K[m] /\ T[m] = <<node'[K[m]].value>>
        ELSE L[m] = head' /\ L[K[m]] = head' /\ T[m] = <<node'[K[m]].value>> \o T[K[m]]
    BY <1>3, <2>1, <2>4
  <2> QED BY <2>5, <2>6, <2>7, <2>8
<1> QED BY <1>3, <1>6, <1>7 DEF Guides, Heard

\* The line ends at its event k, and what was beyond it leads there.
CutAt(k) ==
  /\ size' = size /\ head' = head /\ tail' = EventAt[k] /\ node'[tail'].displacement = k
  /\ \A d \in 0 .. k : EventAt'[d] = EventAt[d]
  /\ \A n \in 1 .. size :
       /\ node'[n].value = node[n].value /\ node'[n].publisher = node[n].publisher
       /\ node'[n].displacement = node[n].displacement
       /\ n \in Beyond(k) => node'[n].next = EventAt[k] /\ node'[n].prev = EventAt[k] /\ node'[n].empty
       /\ n \notin Beyond(k) => node'[n].empty = node[n].empty /\ node'[n].prev = node[n].prev
       /\ n \notin Beyond(k) /\ n # EventAt[k] => node'[n].next = node[n].next
  /\ Line' = Line \ Beyond(k) /\ Off' = Off \cup Beyond(k)

\* Who is in the line, and who of it is beyond the first k.
LEMMA BeyondFacts ==
  ASSUME ChannelInv, NEW k \in 0 .. node[tail].displacement
  PROVE  /\ Beyond(k) \subseteq Line
         /\ \A d \in 0 .. node[tail].displacement : EventAt[d] \in Line /\ (EventAt[d] \in Beyond(k) <=> d > k)
         /\ Line \ Beyond(k) = {EventAt[d] : d \in 0 .. k}
         /\ \A n \in Line : n = EventAt[node[n].displacement] /\ node[n].displacement \in 0 .. node[tail].displacement
<1>1. PICK D : D = node[tail].displacement
  OBVIOUS
<1>2. /\ D \in 0 .. size - 1 /\ D \in 0 .. MaxEvents /\ k \in 0 .. D /\ size \in Nat
      /\ \A d \in 0 .. D : node[EventAt[d]].displacement = d
  BY <1>1, LineFacts, OffFacts DEF ChannelInv
<1>3. Line = {EventAt[d] : d \in 0 .. D} /\ Beyond(k) = {EventAt[d] : d \in k + 1 .. D}
  BY <1>1 DEF Line, LineTo, Beyond
<1>4. \A d \in k + 1 .. D : d \in 0 .. D
  BY <1>2
<1>5. Beyond(k) \subseteq Line
  BY <1>3, <1>4
<1>6. ASSUME NEW d \in 0 .. D PROVE EventAt[d] \in Line /\ (EventAt[d] \in Beyond(k) <=> d > k)
  <2>1. d > k => EventAt[d] \in Beyond(k)
    <3>1. d > k => d \in k + 1 .. D
      BY <1>2
    <3> QED BY <1>3, <3>1
  <2>2. EventAt[d] \in Beyond(k) => d > k
    <3> SUFFICES ASSUME EventAt[d] \in Beyond(k) PROVE d > k
      OBVIOUS
    <3>1. PICK c \in k + 1 .. D : EventAt[d] = EventAt[c]
      BY <1>3
    <3>2. c = d
      BY <1>2, <1>4, <3>1
    <3> QED BY <1>2, <3>1, <3>2
  <2> QED BY <1>3, <2>1, <2>2
<1>7. Line \ Beyond(k) = {EventAt[d] : d \in 0 .. k}
  <2>1. \A d \in 0 .. k : d \in 0 .. D /\ ~(d > k)
    BY <1>2
  <2>2. \A d \in 0 .. D : ~(d > k) => d \in 0 .. k
    BY <1>2
  <2>3. \A x : x \in Line \ Beyond(k) <=> x \in {EventAt[d] : d \in 0 .. k}
    BY <1>3, <1>6, <2>1, <2>2
  <2> QED BY <2>3
<1>8. \A n \in Line : n = EventAt[node[n].displacement] /\ node[n].displacement \in 0 .. D
  BY <1>2, <1>3
<1> QED BY <1>1, <1>5, <1>6, <1>7, <1>8

\* unwrite() cuts the line before the publisher's last event, if it has one.
LEMMA UnwriteFacts ==
  ASSUME ChannelInv, ChannelInv', NEW e \in Endpoints, UnwriteValue(e),
         NEW t, t = node[at[e]].displacement
  PROVE  /\ t \in 0 .. node[tail].displacement
         /\ \E k \in 0 .. t : /\ LastOwn(e, t, k) /\ k \in 0 .. node[tail].displacement
                              /\ CutAt(k) /\ at' = [at EXCEPT ![e] = EventAt[k]]
<1>0. Allocated /\ LineIntact
  BY DEF ChannelInv
<1>1. PICK D : D = node[tail].displacement
  OBVIOUS
<1>2. /\ D \in 0 .. size - 1 /\ D \in 0 .. MaxEvents /\ EventAt[0] = head
      /\ \A d \in 0 .. D : /\ EventAt[d] \in 1 .. size /\ EventAt[d] \in Events
                           /\ node[EventAt[d]].displacement = d
  BY <1>0, <1>1, LineFacts
<1>3. /\ size \in Nat /\ \A m \in 1 .. size : m \in Events /\ node[m].displacement \in Nat
      /\ Line \subseteq 1 .. size
  BY OffFacts
<1>4. t \in 0 .. D /\ t \in Nat
  <2>1. at[e] \in 1 .. size
    BY <1>0, <1>3 DEF Allocated, UnwriteValue, Exists, Null
  <2>2. t \in Nat /\ t <= D
    BY <1>1, <1>3, <2>1 DEF UnwriteValue
  <2> QED BY <1>2, <1>3, <2>2
<1>5. PICK k \in 0 .. t : RevertTarget(e, t) = EventAt[k] /\ LastOwn(e, t, k)
  BY <1>2, <1>4, RevertPlace
<1>6. PICK target : target = EventAt[k]
  OBVIOUS
<1>7. PICK R : R = Reverted(target)
  OBVIOUS
<1>8. node' = R /\ tail' = target /\ size' = size /\ head' = head /\ at' = [at EXCEPT ![e] = target]
  BY <1>5, <1>6, <1>7 DEF UnwriteValue, MoveTo
<1>9. k \in 0 .. D /\ target \in 1 .. size /\ k \in Nat /\ D \in Nat
  BY <1>2, <1>3, <1>4, <1>6
<1>10. \A n \in Events :
         /\ node'[n].value = node[n].value /\ node'[n].publisher = node[n].publisher
         /\ node'[n].displacement = node[n].displacement
         /\ n \in Beyond(k) => node'[n].next = target /\ node'[n].prev = target /\ node'[n].empty
         /\ n \notin Beyond(k) => node'[n].empty = node[n].empty /\ node'[n].prev = node[n].prev
         /\ n \notin Beyond(k) /\ n # target => node'[n].next = node[n].next
  BY <1>0, <1>1, <1>6, <1>7, <1>8, <1>9, RevertedEvents
<1>11. node'[tail'].displacement = k
  BY <1>2, <1>6, <1>8, <1>9, <1>10
<1>12. \A d \in 0 .. k : EventAt'[d] = EventAt[d]
  <2>1. ASSUME NEW d \in 0 .. k - 1 PROVE node'[EventAt[d]].next = node[EventAt[d]].next
    <3>1. d \in 0 .. D /\ d # k /\ ~(d > k) /\ k \in 0 .. D
      BY <1>9
    <3>2. EventAt[d] # target /\ EventAt[d] \in Events /\ EventAt[d] \notin Beyond(k)
      BY <1>1, <1>2, <1>6, <3>1, BeyondFacts
    <3> QED BY <1>10, <3>2
  <2> QED BY <1>0, <1>1, <1>8, <1>9, <2>1, LineKept
<1>13. Line' = Line \ Beyond(k)
  <2>1. Line' = {EventAt'[d] : d \in 0 .. k}
    BY <1>11 DEF Line, LineTo
  <2>2. Line \ Beyond(k) = {EventAt[d] : d \in 0 .. k}
    BY <1>1, <1>9, BeyondFacts
  <2>3. {EventAt'[d] : d \in 0 .. k} = {EventAt[d] : d \in 0 .. k}
    BY <1>12
  <2> QED BY <2>1, <2>2, <2>3
<1>14. Off' = Off \cup Beyond(k)
  <2>1. Beyond(k) \subseteq Line
    BY <1>1, <1>9, BeyondFacts
  <2> QED BY <1>3, <1>8, <1>13, <2>1 DEF Off
<1>15. CutAt(k)
  BY <1>3, <1>6, <1>8, <1>10, <1>11, <1>12, <1>13, <1>14 DEF CutAt
<1> QED BY <1>1, <1>4, <1>5, <1>6, <1>8, <1>9, <1>15

\* The way back once the line ends at its event k: whoever came to an event beyond it comes
\* to k instead, and hears its value.
CutGuide(g, k) ==
  [m \in Off \cup Beyond(k) |->
     IF m \in Beyond(k) THEN EventAt[k] ELSE IF g[m] \in Beyond(k) THEN EventAt[k] ELSE g[m]]
CutHeard(L, T, k) ==
  [m \in Off \cup Beyond(k) |->
     IF m \in Beyond(k) THEN <<node[EventAt[k]].value>>
     ELSE IF L[m] \in Beyond(k) THEN <<node[EventAt[k]].value>> ELSE T[m]]

LEMMA CutGuides ==
  ASSUME ChannelInv, ChannelInv', NEW k \in 0 .. node[tail].displacement, CutAt(k),
         NEW K, NEW L, NEW T, Guides(K, L, T),
         NEW K2, K2 = CutGuide(K, k), NEW L2, L2 = CutGuide(L, k), NEW T2, T2 = CutHeard(L, T, k)
  PROVE  Guides(K2, L2, T2)'
<1>1. PICK target : target = EventAt[k]
  OBVIOUS
<1>2. PICK B : B = Beyond(k)
  OBVIOUS
<1>3. /\ Line \subseteq 1 .. size /\ Off \subseteq 1 .. size /\ head \in Line
      /\ \A m \in 1 .. size : m \in Off <=> m \notin Line
      /\ \A m \in 1 .. size : node[m].empty => m \in Off
      /\ \A m \in 1 .. size : node[m].value \in Values \cup {0}
  BY OffFacts
<1>4. target \in Line /\ target \notin B /\ B \subseteq Line /\ head \notin B
  <2>1. /\ \A d \in 0 .. node[tail].displacement : EventAt[d] \in Line /\ (EventAt[d] \in Beyond(k) <=> d > k)
        /\ B \subseteq Line
    BY <1>2, BeyondFacts
  <2>2. node[tail].displacement \in Nat
    BY <1>3, OffFacts
  <2>3. 0 \in 0 .. node[tail].displacement /\ ~(0 > k) /\ ~(k > k)
    BY <2>2
  <2>4. EventAt[0] = head
    BY LineFacts DEF ChannelInv
  <2> QED BY <1>1, <1>2, <2>1, <2>3, <2>4
<1>5. /\ size' = size /\ head' = head
      /\ \A n \in 1 .. size :
           /\ node'[n].value = node[n].value
           /\ n \in B => node'[n].next = target /\ node'[n].prev = target /\ node'[n].empty
           /\ n \notin B => node'[n].empty = node[n].empty /\ node'[n].prev = node[n].prev
           /\ n \notin B /\ n # target => node'[n].next = node[n].next
      /\ Line' = Line \ B /\ Off' = Off \cup B
  BY <1>1, <1>2 DEF CutAt
<1>6. /\ K2 = [m \in Off \cup B |-> IF m \in B THEN target ELSE IF K[m] \in B THEN target ELSE K[m]]
      /\ L2 = [m \in Off \cup B |-> IF m \in B THEN target ELSE IF L[m] \in B THEN target ELSE L[m]]
      /\ T2 = [m \in Off \cup B |-> IF m \in B THEN <<node[target].value>>
                                    ELSE IF L[m] \in B THEN <<node[target].value>> ELSE T[m]]
  BY <1>1, <1>2 DEF CutGuide, CutHeard
<1>7. ASSUME NEW m \in Off, m \notin B, K[m] \notin B
      PROVE  /\ K2[m] = K[m] /\ K[m] \in 1 .. size /\ L[m] \notin B
             /\ L2[m] = L[m] /\ T2[m] = T[m]
  <2>1. K[m] \in 1 .. size
    BY GuideFacts
  <2>2. L[m] \notin B
    <3>1. CASE K[m] \in Line
      BY <1>7, <3>1, GuideOnto
    <3>2. CASE K[m] \notin Line
      <4>1. L[m] = head
        BY <3>2, GuideAlong
      <4> QED BY <1>4, <4>1
    <3> QED BY <3>1, <3>2
  <2> QED BY <1>6, <1>7, <2>1, <2>2
<1>8. ASSUME NEW m \in Off \cup B, m \in B \/ K[m] \in B
      PROVE  K2[m] = target /\ L2[m] = target /\ T2[m] = <<node[target].value>>
  <2>1. CASE m \in B
    BY <1>6, <2>1
  <2>2. CASE m \notin B
    <3>1. m \in Off /\ K[m] \in B /\ K[m] \in Line
      BY <1>4, <1>8, <2>2
    <3>2. L[m] = K[m]
      BY <3>1, GuideOnto
    <3> QED BY <1>6, <2>2, <3>1, <3>2
  <2> QED BY <2>1, <2>2
<1>9. target \in 1 .. size /\ target \in Line' /\ target \notin Off /\ ~node[target].empty
  BY <1>3, <1>4, <1>5
<1>10. <<node[target].value>> \in Heard
  BY <1>3, <1>9 DEF Heard
<1>11. ASSUME NEW m \in Off \cup B
       PROVE  K2[m] \in 1 .. size /\ L2[m] \in Line' /\ T2[m] \in Heard
  <2>1. CASE m \in B \/ K[m] \in B
    BY <1>8, <1>9, <1>10, <2>1
  <2>2. CASE ~(m \in B \/ K[m] \in B)
    <3>1. m \in Off /\ m \notin B /\ K[m] \notin B
      BY <2>2
    <3>2. L[m] \in Line /\ T[m] \in Heard
      BY <3>1, GuideFacts
    <3> QED BY <1>5, <1>7, <3>1, <3>2
  <2> QED BY <2>1, <2>2
<1>12. K2 \in [Off' -> 1 .. size'] /\ L2 \in [Off' -> Line'] /\ T2 \in [Off' -> Heard]
  <2>1. /\ K2 = [m \in Off \cup B |-> K2[m]] /\ L2 = [m \in Off \cup B |-> L2[m]]
        /\ T2 = [m \in Off \cup B |-> T2[m]]
    BY <1>6
  <2>2. K2 \in [Off \cup B -> 1 .. size] /\ L2 \in [Off \cup B -> Line'] /\ T2 \in [Off \cup B -> Heard]
    BY <1>11, <2>1
  <2> QED BY <1>5, <2>2
<1>13. ASSUME NEW m \in Off'
       PROVE  /\ node'[m].next \in 1 .. size' /\ node'[m].prev = node'[m].next
              /\ K2[m] = IF node'[node'[m].next].empty THEN K2[node'[m].next] ELSE node'[m].next
  <2>1. m \in Off \cup B /\ m \in 1 .. size
    BY <1>3, <1>4, <1>5
  <2>2. CASE m \in B
    <3>1. node'[m].next = target /\ node'[m].prev = target /\ K2[m] = target
      BY <1>5, <1>8, <2>1, <2>2
    <3>2. ~node'[target].empty
      BY <1>4, <1>5, <1>9
    <3> QED BY <1>5, <1>9, <3>1, <3>2
  <2>3. CASE m \notin B
    <3>1. PICK x : x = node[m].next
      OBVIOUS
    <3>2. m \in Off /\ m # target
      BY <1>9, <2>1, <2>3
    <3>3. x \in 1 .. size /\ node[m].prev = x /\ (~node[x].empty => K[m] = x)
      BY <3>1, <3>2, GuideFacts
    <3>4. node'[m].next = x /\ node'[m].prev = x
      BY <1>5, <2>1, <2>3, <3>1, <3>2, <3>3
    <3>5. CASE x \in B
      <4>1. ~node[x].empty
        BY <1>3, <1>4, <3>3, <3>5
      <4>2. K[m] = x
        BY <3>3, <4>1
      <4>3. K2[m] = target /\ K2[x] = target
        BY <1>8, <2>1, <3>5, <4>2
      <4>4. node'[x].empty
        BY <1>5, <3>3, <3>5
      <4> QED BY <1>5, <3>3, <3>4, <4>3, <4>4
    <3>6. CASE x \notin B /\ node[x].empty
      <4>1. x \in Off /\ K[m] = K[x]
        <5>1. node[node[m].next].empty
          BY <3>1, <3>6
        <5>2. node[m].next \in Off /\ K[m] = K[node[m].next]
          BY <3>2, <5>1, GuideOver
        <5> QED BY <3>1, <5>2
      <4>2. K2[m] = K2[x]
        BY <1>6, <2>3, <3>2, <3>6, <4>1
      <4>3. node'[x].empty
        BY <1>5, <3>3, <3>6
      <4> QED BY <1>5, <3>3, <3>4, <4>2, <4>3
    <3>7. CASE x \notin B /\ ~node[x].empty
      <4>1. K[m] = x
        BY <3>3, <3>7
      <4>2. K2[m] = x
        BY <1>7, <2>3, <3>2, <3>7, <4>1
      <4>3. ~node'[x].empty
        BY <1>5, <3>3, <3>7
      <4> QED BY <1>5, <3>3, <3>4, <4>2, <4>3
    <3> QED BY <3>5, <3>6, <3>7
  <2> QED BY <2>2, <2>3
<1>14. ASSUME NEW m \in Off'
       PROVE  /\ ~node'[K2[m]].empty
              /\ IF K2[m] \in Line' THEN L2[m] = K2[m] /\ T2[m] = <<node'[K2[m]].value>>
                 ELSE L2[m] = head' /\ L2[K2[m]] = head' /\ T2[m] = <<node'[K2[m]].value>> \o T2[K2[m]]
  <2>1. m \in Off \cup B
    BY <1>5
  <2>2. CASE m \in B \/ K[m] \in B
    <3>1. K2[m] = target /\ L2[m] = target /\ T2[m] = <<node[target].value>>
      BY <1>8, <2>1, <2>2
    <3>2. node'[target].value = node[target].value /\ ~node'[target].empty
      BY <1>4, <1>5, <1>9
    <3> QED BY <1>9, <3>1, <3>2
  <2>3. CASE ~(m \in B \/ K[m] \in B)
    <3>1. m \in Off /\ m \notin B /\ K[m] \notin B
      BY <2>1, <2>3
    <3>2. K2[m] = K[m] /\ K[m] \in 1 .. size /\ L2[m] = L[m] /\ T2[m] = T[m]
      BY <1>7, <3>1
    <3>3. ~node[K[m]].empty
      BY <3>1, GuideFacts
    <3>4. ~node'[K[m]].empty /\ node'[K[m]].value = node[K[m]].value /\ (K[m] \in Line' <=> K[m] \in Line)
      BY <1>5, <3>1, <3>2, <3>3
    <3>5. CASE K[m] \in Line
      <4>1. L[m] = K[m] /\ T[m] = <<node[K[m]].value>>
        BY <3>1, <3>5, GuideOnto
      <4> QED BY <3>2, <3>4, <3>5, <4>1
    <3>6. CASE K[m] \notin Line
      <4>1. K[m] \in Off /\ L[m] = head /\ L[K[m]] = head
        BY <3>1, <3>6, GuideAlong
      <4>2. T[m] = <<node[K[m]].value>> \o T[K[m]]
        BY <3>1, <3>6, GuideHears
      <4>3. L2[K[m]] = head /\ T2[K[m]] = T[K[m]]
        BY <1>4, <1>6, <3>1, <4>1
      <4> QED BY <1>5, <3>2, <3>4, <3>6, <4>1, <4>2, <4>3
    <3> QED BY <3>5, <3>6
  <2> QED BY <2>2, <2>3
<1> QED BY <1>12, <1>13, <1>14 DEF Guides, Heard

\* clear(): the new event is the line, the old head leads to it, and what followed the old
\* head leads there.
LEMMA ClearFacts ==
  ASSUME ChannelInv, ChannelInv', NEW v \in Values, ClearChannel(v), NEW new, new = size + 1
  PROVE  /\ size' = new /\ head' = new /\ tail' = new /\ at' = at
         /\ node'[tail'].displacement = 0 /\ EventAt'[0] = new
         /\ node'[new].value = v /\ node'[new].publisher = 0 /\ ~node'[new].empty
         /\ \A n \in 1 .. size :
              /\ node'[n].value = node[n].value /\ node'[n].displacement = node[n].displacement
              /\ n \in Beyond(0) => node'[n].next = head /\ node'[n].prev = head /\ node'[n].empty
              /\ n = head => node'[n].next = new /\ node'[n].prev = new /\ ~node'[n].empty
              /\ n \notin Line => /\ node'[n].empty = node[n].empty /\ node'[n].prev = node[n].prev
                                  /\ node'[n].next = node[n].next
         /\ Line' = {new} /\ Off' = 1 .. size
         /\ Line = Beyond(0) \cup {head} /\ head \notin Beyond(0)
<1>0. Allocated /\ LineIntact /\ LineIntact'
  BY DEF ChannelInv
<1>1. /\ MaxEvents \in Nat /\ size \in 1 .. MaxEvents /\ Events = 1 .. MaxEvents
      /\ head \in 1 .. size /\ head \in Events /\ node \in [Events -> EventRecord]
      /\ new \in Events /\ new \notin 1 .. size /\ new # head
  BY <1>0, ChannelAssumption DEF Allocated, Events, ClearChannel
<1>2. PICK R : R = Reverted(head)
  OBVIOUS
<1>3. /\ node' = [R EXCEPT ![head].next = new, ![head].prev = new, ![new] = NewEvent(v, 0, Null, 0)]
      /\ size' = new /\ head' = new /\ tail' = new /\ at' = at
  BY <1>2 DEF ClearChannel
<1>4. PICK D : D = node[tail].displacement
  OBVIOUS
<1>5. D \in 0 .. size - 1 /\ EventAt[0] = head /\ \A d \in 0 .. D : ~node[EventAt[d]].empty
  BY <1>0, <1>4, LineFacts
<1>6. 0 \in 0 .. D /\ ~node[head].empty
  BY <1>1, <1>5
<1>7. /\ \A n \in Events :
           /\ R[n].value = node[n].value /\ R[n].publisher = node[n].publisher
           /\ R[n].displacement = node[n].displacement
           /\ n \in Beyond(0) => R[n].next = head /\ R[n].prev = head /\ R[n].empty
           /\ n \notin Beyond(0) => R[n].empty = node[n].empty /\ R[n].prev = node[n].prev
           /\ n \notin Beyond(0) /\ n # head => R[n].next = node[n].next
      /\ R = [n \in Events |-> R[n]]
      /\ \A n \in Events : R[n] \in EventRecord
  <2>1. 0 \in 0 .. node[tail].displacement /\ head = EventAt[0]
    BY <1>4, <1>5, <1>6
  <2> QED BY <1>0, <1>2, <2>1, RevertedEvents
<1>8. Line = Beyond(0) \cup {head} /\ head \notin Beyond(0)
  <2>1. 0 \in 0 .. node[tail].displacement
    BY <1>4, <1>6
  <2>2. /\ Beyond(0) \subseteq Line /\ (EventAt[0] \in Beyond(0) <=> 0 > 0) /\ EventAt[0] \in Line
        /\ Line \ Beyond(0) = {EventAt[d] : d \in 0 .. 0}
    BY <2>1, BeyondFacts
  <2>3. {EventAt[d] : d \in 0 .. 0} = {EventAt[0]}
    OBVIOUS
  <2> QED BY <1>5, <2>2, <2>3
<1>9. /\ node'[new] = NewEvent(v, 0, Null, 0)
      /\ node'[head] = [R[head] EXCEPT !.next = new, !.prev = new]
      /\ \A n \in Events : n # new /\ n # head => node'[n] = R[n]
  BY <1>1, <1>3, <1>7
<1>10. node'[new].value = v /\ node'[new].publisher = 0 /\ ~node'[new].empty /\ node'[new].displacement = 0
  BY <1>9 DEF NewEvent
<1>11. /\ node'[head].next = new /\ node'[head].prev = new /\ ~node'[head].empty
       /\ node'[head].value = node[head].value /\ node'[head].displacement = node[head].displacement
  <2>1. R[head] \in EventRecord /\ ~R[head].empty
    BY <1>1, <1>6, <1>7, <1>8
  <2>2. /\ node'[head].next = new /\ node'[head].prev = new /\ node'[head].empty = R[head].empty
        /\ node'[head].value = R[head].value /\ node'[head].displacement = R[head].displacement
    BY <1>9, <2>1 DEF EventRecord
  <2> QED BY <1>1, <1>7, <2>1, <2>2
<1>12. ASSUME NEW n \in 1 .. size
       PROVE  /\ node'[n].value = node[n].value /\ node'[n].displacement = node[n].displacement
              /\ n \in Beyond(0) => node'[n].next = head /\ node'[n].prev = head /\ node'[n].empty
              /\ n = head => node'[n].next = new /\ node'[n].prev = new /\ ~node'[n].empty
              /\ n \notin Line => /\ node'[n].empty = node[n].empty /\ node'[n].prev = node[n].prev
                                  /\ node'[n].next = node[n].next
  <2>1. n \in Events /\ n # new
    BY <1>1
  <2>2. CASE n = head
    BY <1>8, <1>11, <2>2
  <2>3. CASE n # head
    <3>1. node'[n] = R[n]
      BY <1>9, <2>1, <2>3
    <3>2. n \notin Line => n \notin Beyond(0)
      BY <1>8
    <3> QED BY <1>7, <2>1, <2>3, <3>1, <3>2
  <2> QED BY <2>2, <2>3
<1>13. node'[tail'].displacement = 0
  BY <1>3, <1>10
<1>14. EventAt'[0] = new
  BY <1>0, <1>3, <1>13 DEF LineIntact
<1>15. Line' = {new}
  <2>1. Line' = {EventAt'[d] : d \in 0 .. 0}
    BY <1>13 DEF Line, LineTo
  <2>2. {EventAt'[d] : d \in 0 .. 0} = {EventAt'[0]}
    OBVIOUS
  <2> QED BY <1>14, <2>1, <2>2
<1>16. Off' = 1 .. size
  <2>1. \A n : n \in 1 .. new <=> n \in 1 .. size \/ n = new
    BY <1>1
  <2>2. \A n : n \in Off' <=> n \in 1 .. size
    BY <1>1, <1>3, <1>15, <2>1 DEF Off
  <2> QED BY <2>2
<1> QED BY <1>3, <1>8, <1>10, <1>12, <1>13, <1>14, <1>15, <1>16

\* The way back after clear(): as before to the old head, and on to the new one.
ClearGuide(K) ==
  [m \in 1 .. size |-> IF m = head THEN size + 1 ELSE IF m \in Beyond(0) THEN head
                       ELSE IF K[m] \in Beyond(0) THEN head ELSE K[m]]
ClearHeard(L, T, v) ==
  [m \in 1 .. size |-> IF m = head THEN <<v>> ELSE IF m \in Beyond(0) THEN <<node[head].value, v>>
                       ELSE IF L[m] \in Beyond(0) THEN <<node[head].value, v>> ELSE Append(T[m], v)]

LEMMA ClearGuides ==
  ASSUME ChannelInv, ChannelInv', NEW v \in Values, ClearChannel(v),
         NEW K, NEW L, NEW T, Guides(K, L, T),
         NEW K2, K2 = ClearGuide(K), NEW L2, L2 = [m \in 1 .. size |-> size + 1],
         NEW T2, T2 = ClearHeard(L, T, v)
  PROVE  Guides(K2, L2, T2)'
<1>1. PICK new : new = size + 1
  OBVIOUS
<1>2. PICK B : B = Beyond(0)
  OBVIOUS
<1>3. PICK S : S = 1 .. size
  OBVIOUS
<1>4. PICK h : h = node[head].value
  OBVIOUS
<1>5. /\ size \in Nat /\ Off \subseteq S /\ head \in S /\ head \in Line /\ Line \subseteq S
      /\ \A m \in S : m \in Off <=> m \notin Line
      /\ \A m \in S : node[m].empty => m \in Off
      /\ \A m \in S : node[m].value \in Values \cup {0}
  BY <1>3, OffFacts
<1>6. /\ size' = new /\ head' = new
      /\ node'[new].value = v /\ ~node'[new].empty
      /\ \A n \in S :
           /\ node'[n].value = node[n].value
           /\ n \in B => node'[n].next = head /\ node'[n].prev = head /\ node'[n].empty
           /\ n = head => node'[n].next = new /\ node'[n].prev = new /\ ~node'[n].empty
           /\ n \notin Line => /\ node'[n].empty = node[n].empty /\ node'[n].prev = node[n].prev
                               /\ node'[n].next = node[n].next
      /\ Line' = {new} /\ Off' = S
      /\ Line = B \cup {head} /\ head \notin B
  BY <1>1, <1>2, <1>3, ClearFacts
<1>7. /\ K2 = [m \in S |-> IF m = head THEN new ELSE IF m \in B THEN head ELSE IF K[m] \in B THEN head ELSE K[m]]
      /\ L2 = [m \in S |-> new]
      /\ T2 = [m \in S |-> IF m = head THEN <<v>> ELSE IF m \in B THEN <<h, v>>
                           ELSE IF L[m] \in B THEN <<h, v>> ELSE Append(T[m], v)]
  BY <1>1, <1>2, <1>3, <1>4 DEF ClearGuide, ClearHeard
<1>8. /\ new \notin S /\ new \in 1 .. new /\ \A m \in S : m \in 1 .. new
  BY <1>1, <1>3, <1>5
<1>9. K2[head] = new /\ L2[head] = new /\ T2[head] = <<v>>
  BY <1>5, <1>7
<1>10. ASSUME NEW m \in S, m # head, m \in B \/ K[m] \in B
       PROVE  K2[m] = head /\ T2[m] = <<h, v>>
  <2>1. CASE m \in B
    BY <1>7, <1>10, <2>1
  <2>2. CASE m \notin B
    <3>1. m \in Off /\ K[m] \in B /\ K[m] \in Line
      BY <1>5, <1>6, <1>10, <2>2
    <3>2. L[m] = K[m]
      BY <3>1, GuideOnto
    <3> QED BY <1>7, <1>10, <2>2, <3>1, <3>2
  <2> QED BY <2>1, <2>2
<1>11. ASSUME NEW m \in Off, K[m] \notin B
       PROVE  K2[m] = K[m] /\ K[m] \in S /\ L[m] = head /\ T2[m] = Append(T[m], v)
  <2>1. K[m] \in S
    BY <1>3, GuideFacts
  <2>2. L[m] = head
    <3>1. CASE K[m] \in Line
      <4>1. L[m] = K[m]
        BY <3>1, GuideOnto
      <4> QED BY <1>6, <1>11, <3>1, <4>1
    <3>2. CASE K[m] \notin Line
      BY <3>2, GuideAlong
    <3> QED BY <3>1, <3>2
  <2>3. m \in S /\ m # head /\ m \notin B
    BY <1>5, <1>6
  <2> QED BY <1>6, <1>7, <1>11, <2>1, <2>2, <2>3
<1>12. h \in Values \cup {0} /\ v \in Values \cup {0} /\ <<v>> \in Heard /\ <<h, v>> \in Heard
  BY <1>4, <1>5 DEF Heard
<1>13. \A m \in S : m = head \/ m \in B \/ (m \in Off /\ m # head /\ m \notin B)
  BY <1>5, <1>6
<1>14. ASSUME NEW m \in S PROVE K2[m] \in 1 .. new /\ T2[m] \in Heard
  <2>1. CASE m = head
    BY <1>8, <1>9, <1>12, <2>1
  <2>2. CASE m # head /\ (m \in B \/ K[m] \in B)
    BY <1>5, <1>8, <1>10, <1>12, <2>2
  <2>3. CASE m # head /\ ~(m \in B \/ K[m] \in B)
    <3>1. m \in Off /\ K[m] \notin B
      BY <1>13, <2>3
    <3>2. T[m] \in Heard
      BY <3>1, GuideFacts
    <3>3. Append(T[m], v) \in Heard
      BY <1>12, <3>2 DEF Heard
    <3> QED BY <1>8, <1>11, <3>1, <3>3
  <2> QED BY <2>1, <2>2, <2>3
<1>15. K2 \in [Off' -> 1 .. size'] /\ L2 \in [Off' -> Line'] /\ T2 \in [Off' -> Heard]
  <2>1. K2 = [m \in S |-> K2[m]] /\ L2 = [m \in S |-> L2[m]] /\ T2 = [m \in S |-> T2[m]]
    BY <1>7
  <2>2. \A m \in S : L2[m] \in Line'
    <3>1. L2 = [m \in S |-> new] /\ Line' = {new}
      BY <1>6, <1>7
    <3> QED BY <3>1
  <2>3. K2 \in [S -> 1 .. new] /\ L2 \in [S -> Line'] /\ T2 \in [S -> Heard]
    BY <1>14, <2>1, <2>2
  <2> QED BY <1>6, <2>3
<1>16. ASSUME NEW m \in S
       PROVE  /\ node'[m].next \in 1 .. new /\ node'[m].prev = node'[m].next
              /\ K2[m] = IF node'[node'[m].next].empty THEN K2[node'[m].next] ELSE node'[m].next
  <2>1. CASE m = head
    BY <1>5, <1>6, <1>8, <1>9, <2>1
  <2>2. CASE m \in B
    <3>1. node'[m].next = head /\ node'[m].prev = head /\ K2[m] = head
      BY <1>6, <1>10, <2>2
    <3>2. ~node'[head].empty
      BY <1>5, <1>6
    <3> QED BY <1>5, <1>8, <3>1, <3>2
  <2>3. CASE m \in Off /\ m # head /\ m \notin B
    <3>1. PICK x : x = node[m].next
      OBVIOUS
    <3>3. x \in S /\ node[m].prev = x /\ (~node[x].empty => K[m] = x)
      BY <1>3, <2>3, <3>1, GuideFacts
    <3>4. node'[m].next = x /\ node'[m].prev = x
      BY <1>5, <1>6, <2>3, <3>1, <3>3
    <3>5. CASE x \in B
      <4>1. ~node[x].empty
        BY <1>5, <1>6, <3>3, <3>5
      <4>2. K[m] = x
        BY <3>3, <4>1
      <4>3. K2[m] = head /\ K2[x] = head
        BY <1>6, <1>10, <2>3, <3>3, <3>5, <4>2
      <4>4. node'[x].empty
        BY <1>6, <3>3, <3>5
      <4> QED BY <1>8, <3>3, <3>4, <4>3, <4>4
    <3>6. CASE x \notin B /\ node[x].empty
      <4>1. x \in Off /\ K[m] = K[x]
        <5>1. node[node[m].next].empty
          BY <3>1, <3>6
        <5>2. node[m].next \in Off /\ K[m] = K[node[m].next]
          BY <2>3, <5>1, GuideOver
        <5> QED BY <3>1, <5>2
      <4>2. x # head /\ x \notin Line
        BY <1>5, <3>3, <4>1
      <4>3. K2[m] = K2[x]
        BY <1>7, <2>3, <3>3, <3>6, <4>1, <4>2
      <4>4. node'[x].empty
        BY <1>6, <3>3, <3>6, <4>2
      <4> QED BY <1>8, <3>3, <3>4, <4>3, <4>4
    <3>7. CASE x \notin B /\ ~node[x].empty
      <4>1. K[m] = x
        BY <3>3, <3>7
      <4>2. K2[m] = x
        BY <1>11, <2>3, <3>7, <4>1
      <4>3. ~node'[x].empty
        <5>1. CASE x = head
          BY <1>6, <3>3, <5>1
        <5>2. CASE x # head
          <6>1. x \notin Line
            BY <1>6, <3>7, <5>2
          <6> QED BY <1>6, <3>3, <3>7, <6>1
        <5> QED BY <5>1, <5>2
      <4> QED BY <1>8, <3>3, <3>4, <4>2, <4>3
    <3> QED BY <3>5, <3>6, <3>7
  <2> QED BY <1>13, <2>1, <2>2, <2>3
<1>17. ASSUME NEW m \in S
       PROVE  /\ ~node'[K2[m]].empty
              /\ IF K2[m] \in Line' THEN L2[m] = K2[m] /\ T2[m] = <<node'[K2[m]].value>>
                 ELSE L2[m] = head' /\ L2[K2[m]] = head' /\ T2[m] = <<node'[K2[m]].value>> \o T2[K2[m]]
  <2>1. CASE m = head
    <3>1. K2[m] = new /\ L2[m] = new /\ T2[m] = <<v>>
      BY <1>9, <2>1
    <3> QED BY <1>6, <3>1
  <2>2. CASE m # head /\ (m \in B \/ K[m] \in B)
    <3>1. K2[m] = head /\ T2[m] = <<h, v>>
      BY <1>10, <2>2
    <3>2. node'[head].value = h /\ ~node'[head].empty /\ head \notin Line'
      BY <1>4, <1>5, <1>6, <1>8
    <3>3. <<h, v>> = <<h>> \o <<v>>
      OBVIOUS
    <3>4. L2[m] = new /\ L2[head] = new
      BY <1>5, <1>7
    <3>5. T2[m] = <<node'[head].value>> \o T2[head]
      BY <1>9, <3>1, <3>2, <3>3
    <3>6. K2[m] = head /\ head' = new
      BY <1>6, <3>1
    <3> QED BY <3>2, <3>4, <3>5, <3>6
  <2>3. CASE m # head /\ ~(m \in B \/ K[m] \in B)
    <3>1. m \in Off /\ K[m] \notin B
      BY <1>13, <2>3
    <3>2. K2[m] = K[m] /\ K[m] \in S /\ L[m] = head /\ T2[m] = Append(T[m], v)
      BY <1>11, <3>1
    <3>3. ~node[K[m]].empty
      BY <3>1, GuideFacts
    <3>4. L2[m] = new /\ L2[K[m]] = new
      BY <1>7, <3>2
    <3>5. K[m] \notin Line'
      BY <1>6, <1>8, <3>2
    <3>6. CASE K[m] = head
      <4>1. T[m] = <<h>>
        BY <1>4, <1>5, <3>1, <3>6, GuideOnto
      <4>2. Append(<<h>>, v) = <<h>> \o <<v>>
        OBVIOUS
      <4>3. node'[head].value = h /\ ~node'[head].empty
        BY <1>4, <1>5, <1>6
      <4>4. T2[m] = <<node'[head].value>> \o T2[head]
        BY <1>9, <3>2, <4>1, <4>2, <4>3
      <4> QED BY <1>6, <3>2, <3>4, <3>5, <3>6, <4>3, <4>4
    <3>7. CASE K[m] # head
      <4>1. K[m] \notin Line
        BY <1>6, <3>1, <3>7
      <4>2. K[m] \in Off /\ L[K[m]] = head
        BY <3>1, <4>1, GuideAlong
      <4>3. T[m] = <<node[K[m]].value>> \o T[K[m]] /\ T[K[m]] \in Heard
        BY <3>1, <4>1, GuideHears
      <4>4. ~node'[K[m]].empty /\ node'[K[m]].value = node[K[m]].value
        BY <1>6, <3>2, <3>3, <4>1
      <4>5. T2[K[m]] = Append(T[K[m]], v)
        BY <1>6, <1>7, <3>1, <3>2, <3>7, <4>2
      <4>6. PICK s \in Heard : s = T[K[m]]
        BY <4>3
      <4>7. PICK x : x = node[K[m]].value
        OBVIOUS
      <4>8. Append(<<x>> \o s, v) = <<x>> \o Append(s, v)
        BY <4>6 DEF Heard
      <4>9. T2[m] = <<node'[K[m]].value>> \o T2[K[m]]
        BY <3>2, <4>3, <4>4, <4>5, <4>6, <4>7, <4>8
      <4> QED BY <1>6, <3>2, <3>4, <3>5, <4>4, <4>9
    <3> QED BY <3>6, <3>7
  <2> QED BY <2>1, <2>2, <2>3
<1>18. Off' = S /\ size' = new
  BY <1>6
<1>19. ASSUME NEW m \in Off'
       PROVE  /\ node'[m].next \in 1 .. size' /\ node'[m].prev = node'[m].next
              /\ K2[m] = IF node'[node'[m].next].empty THEN K2[node'[m].next] ELSE node'[m].next
  BY <1>16, <1>18
<1>20. ASSUME NEW m \in Off'
       PROVE  /\ ~node'[K2[m]].empty
              /\ IF K2[m] \in Line' THEN L2[m] = K2[m] /\ T2[m] = <<node'[K2[m]].value>>
                 ELSE L2[m] = head' /\ L2[K2[m]] = head' /\ T2[m] = <<node'[K2[m]].value>> \o T2[K2[m]]
  BY <1>17, <1>18
<1> QED BY <1>15, <1>19, <1>20 DEF Guides, Heard

-----------------------------------------------------------------------------
(* Every operation is one of the abstract log.                             *)

\* The log is the line in force, one longer than the displacement of its tail.
LEMMA EntriesFacts ==
  ASSUME ChannelInv, NEW D, D = node[tail].displacement
  PROVE  /\ D \in Nat /\ DOMAIN Entries = 1 .. D + 1 /\ Len(Entries) = D + 1
         /\ \A i \in 1 .. D + 1 : Entries[i] = [value |-> node[EventAt[i - 1]].value,
                                                by |-> node[EventAt[i - 1]].publisher]
         /\ \A d \in 0 .. D : d + 1 \in DOMAIN Entries /\ Entries[d + 1].value = node[EventAt[d]].value
                              /\ Entries[d + 1].by = node[EventAt[d]].publisher
<1>1. D \in Nat
  BY OffFacts
<1>2. Entries = [i \in 1 .. D + 1 |-> [value |-> node[EventAt[i - 1]].value,
                                      by |-> node[EventAt[i - 1]].publisher]]
  BY DEF Entries
<1>3. DOMAIN Entries = 1 .. D + 1 /\ Len(Entries) = D + 1
  BY <1>1, <1>2
<1>4. ASSUME NEW d \in 0 .. D
      PROVE  d + 1 \in DOMAIN Entries /\ Entries[d + 1].value = node[EventAt[d]].value
             /\ Entries[d + 1].by = node[EventAt[d]].publisher
  <2>1. d + 1 \in 1 .. D + 1 /\ (d + 1) - 1 = d
    BY <1>1
  <2> QED BY <1>2, <1>3, <2>1
<1> QED BY <1>1, <1>2, <1>3, <1>4

\* Where the endpoints are, in terms of the guides.
LEMMA ReaderFacts ==
  ASSUME ChannelInv, NEW K, NEW L, NEW T, Guides(K, L, T)
  PROVE  /\ \A n \in Line : Landing[n] = n /\ Detour[n] = << >>
         /\ \A n \in Off : Landing[n] = L[n] /\ Detour[n] = T[n]
         /\ \A f \in Endpoints : Exists(f) => at[f] \in 1 .. size
<1>1. Agrees(K, L, T)
  BY GuidesAgree
<1>2. /\ Line \subseteq 1 .. size /\ Off \subseteq 1 .. size /\ size \in Nat
      /\ \A m \in 1 .. size : m \in Off <=> m \notin Line
  BY OffFacts
<1>3. \A f \in Endpoints : Exists(f) => at[f] \in 1 .. size
  BY <1>2 DEF ChannelInv, Allocated, Exists, Null
<1> QED BY <1>1, <1>2, <1>3 DEF Agrees

LEMMA ReaderPrimed ==
  ASSUME ChannelInv', NEW K, NEW L, NEW T, Guides(K, L, T)'
  PROVE  /\ Landing' = [m \in 1 .. size' |-> IF m \in Line' THEN m ELSE L[m]]
         /\ Detour' = [m \in 1 .. size' |-> IF m \in Line' THEN << >> ELSE T[m]]
BY AgreePrimed DEF Agrees

\* Endpoints move through the same walks.
LEMMA WalksStay ==
  ASSUME ChannelInv, ChannelInv', UNCHANGED <<size, node, head, tail>>,
         NEW K, NEW L, NEW T, Guides(K, L, T)
  PROVE  Landing' = Landing /\ Detour' = Detour /\ Entries' = Entries
<1>1. Guides(K, L, T)'
  BY MoveGuides
<1>2. /\ Landing' = [m \in 1 .. size' |-> IF m \in Line' THEN m ELSE L[m]]
      /\ Detour' = [m \in 1 .. size' |-> IF m \in Line' THEN << >> ELSE T[m]]
  BY <1>1, ReaderPrimed
<1>3. /\ Landing = [m \in 1 .. size |-> IF m \in Line THEN m ELSE L[m]]
      /\ Detour = [m \in 1 .. size |-> IF m \in Line THEN << >> ELSE T[m]]
  BY GuidesAgree DEF Agrees
<1>4. Line' = Line /\ size' = size /\ EventAt' = EventAt
  BY GraphStays
<1>5. Entries' = Entries
  BY <1>4 DEF Entries
<1> QED BY <1>2, <1>3, <1>4, <1>5

\* An endpoint goes to an event of the line.
LEMMA StandStep ==
  ASSUME ChannelInv, ChannelInv', UNCHANGED <<size, node, head, tail>>,
         NEW K, NEW L, NEW T, Guides(K, L, T),
         NEW e \in Endpoints, NEW d \in 0 .. node[tail].displacement, MoveTo(e, EventAt[d])
  PROVE  Log!Stand(e, d + 1, Entries) /\ Entries' = Entries /\ Opened' = Opened \cup {e}
<1>1. Landing' = Landing /\ Detour' = Detour /\ Entries' = Entries /\ node' = node
  BY WalksStay
<1>2. PICK n : n = EventAt[d]
  OBVIOUS
<1>3. n \in Line /\ node[n].displacement = d /\ n # Null
  <2>1. EventAt[d] \in Line
    BY BeyondFacts
  <2>2. node[EventAt[d]].displacement = d /\ EventAt[d] \in 1 .. size
    BY LineFacts DEF ChannelInv
  <2> QED BY <1>2, <2>1, <2>2, OffFacts
<1>4. Landing[n] = n /\ Detour[n] = << >>
  BY <1>3, ReaderFacts
<1>5. at' = [at EXCEPT ![e] = n] /\ DOMAIN at = Endpoints
  BY <1>2 DEF MoveTo, ChannelInv, Allocated
<1>6. Entries[d + 1].value = node[n].value
  BY <1>2, EntriesFacts
<1>7. \A f \in Endpoints : /\ (Exists(f)' <=> f = e \/ Exists(f))
                           /\ at'[f] = IF f = e THEN n ELSE at[f]
  BY <1>3, <1>5 DEF Exists
<1>8. Opened' = Opened \cup {e}
  BY <1>7 DEF Opened
<1>9. Places' = [Places EXCEPT ![e] = d + 1]
  <2>1. Places' = [f \in Endpoints |-> IF Exists(f)' THEN node[Landing[at'[f]]].displacement + 1 ELSE 1]
    BY <1>1 DEF Places
  <2>2. Places = [f \in Endpoints |-> IF Exists(f) THEN node[Landing[at[f]]].displacement + 1 ELSE 1]
    BY DEF Places
  <2> QED BY <1>3, <1>4, <1>7, <2>1, <2>2
<1>10. Detours' = [Detours EXCEPT ![e] = << >>]
  <2>1. Detours' = [f \in Endpoints |-> IF Exists(f)' THEN Detour[at'[f]] ELSE << >>]
    BY <1>1 DEF Detours
  <2>2. Detours = [f \in Endpoints |-> IF Exists(f) THEN Detour[at[f]] ELSE << >>]
    BY DEF Detours
  <2> QED BY <1>4, <1>7, <2>1, <2>2
<1>11. Hearing' = [Hearing EXCEPT ![e] = Entries[d + 1].value]
  <2>1. Hearing' = [f \in Endpoints |-> IF Exists(f)' THEN node[at'[f]].value ELSE 0]
    BY <1>1 DEF Hearing
  <2>2. Hearing = [f \in Endpoints |-> IF Exists(f) THEN node[at[f]].value ELSE 0]
    BY DEF Hearing
  <2> QED BY <1>6, <1>7, <2>1, <2>2
<1> QED BY <1>1, <1>8, <1>9, <1>10, <1>11 DEF Log!Stand

\* next_event() and previous_event() of an event in the line are its neighbours.
LEMMA LineNeighbours ==
  ASSUME ChannelInv, NEW d \in 0 .. node[tail].displacement
  PROVE  /\ NextEvent(EventAt[d]) = EventAt[IF d = node[tail].displacement THEN d ELSE d + 1]
         /\ PreviousEvent(EventAt[d]) = EventAt[IF d = 0 THEN d ELSE d - 1]
<1>0. Allocated /\ DetoursEnd /\ LineIntact
  BY DEF ChannelInv
<1>1. PICK D : D = node[tail].displacement
  OBVIOUS
<1>2. /\ D \in 0 .. size - 1 /\ EventAt[0] = head /\ EventAt[D] = tail
      /\ \A c \in 0 .. D : /\ EventAt[c] \in 1 .. size /\ EventAt[c] \in Events
                           /\ node[EventAt[c]].displacement = c /\ ~node[EventAt[c]].empty
      /\ \A c \in 1 .. D : EventAt[c] = node[EventAt[c - 1]].next /\ node[EventAt[c]].prev = EventAt[c - 1]
  BY <1>0, <1>1, LineFacts
<1>3. \A c \in 0 .. D : EventAt[c] # Null /\ EventAt[c] \in 1 .. MaxEvents /\ EventAt[c] \notin Taken
  BY <1>0, <1>2, LinksDescend DEF Taken, Null
<1>4. D \in Nat /\ d \in 0 .. D
  BY <1>1, OffFacts
<1>5. NextEvent(EventAt[d]) = EventAt[IF d = D THEN d ELSE d + 1]
  <2>1. PICK chase : /\ Leads(chase, 1 .. MaxEvents, Taken, NextLinks)
                     /\ \A n : NextEvent(n) = IF node[n].next = Null THEN n ELSE chase[node[n].next]
    BY <1>0, NextChase
  <2>2. CASE d = D
    <3>1. node[EventAt[d]].next = Null
      BY <1>0, <1>2, <2>2 DEF LineIntact
    <3> QED BY <2>1, <2>2, <3>1
  <2>3. CASE d # D
    <3>1. d + 1 \in 1 .. D /\ d + 1 \in 0 .. D /\ (d + 1) - 1 = d
      BY <1>4, <2>3
    <3>2. PICK x : x = EventAt[d + 1]
      OBVIOUS
    <3>3. node[EventAt[d]].next = x /\ x # Null /\ x \in 1 .. MaxEvents /\ x \notin Taken
      BY <1>2, <1>3, <3>1, <3>2
    <3>4. chase[x] = x
      BY <2>1, <3>3 DEF Leads
    <3> QED BY <2>1, <2>3, <3>2, <3>3, <3>4
  <2> QED BY <2>2, <2>3
<1>6. PreviousEvent(EventAt[d]) = EventAt[IF d = 0 THEN d ELSE d - 1]
  <2>1. PICK chase : /\ Leads(chase, 1 .. MaxEvents, Taken, PrevLinks)
                     /\ \A n : PreviousEvent(n) = IF node[n].prev = Null THEN n ELSE chase[node[n].prev]
    BY <1>0, PreviousChase
  <2>2. CASE d = 0
    <3>1. node[EventAt[d]].prev = Null
      BY <1>0, <1>2, <2>2 DEF LineIntact
    <3> QED BY <2>1, <2>2, <3>1
  <2>3. CASE d # 0
    <3>1. d \in 1 .. D /\ d - 1 \in 0 .. D
      BY <1>4, <2>3
    <3>2. PICK x : x = EventAt[d - 1]
      OBVIOUS
    <3>3. node[EventAt[d]].prev = x /\ x # Null /\ x \in 1 .. MaxEvents /\ x \notin Taken
      BY <1>2, <1>3, <3>1, <3>2
    <3>4. chase[x] = x
      BY <2>1, <3>3 DEF Leads
    <3> QED BY <2>1, <2>3, <3>2, <3>3, <3>4
  <2> QED BY <2>2, <2>3
<1> QED BY <1>1, <1>5, <1>6

\* An endpoint off the line hears what is next on its way, in either direction.
LEMMA DetourStep ==
  ASSUME ChannelInv, ChannelInv', UNCHANGED <<size, node, head, tail>>,
         NEW K, NEW L, NEW T, Guides(K, L, T),
         NEW e \in Endpoints, at[e] \in Off, MoveTo(e, K[at[e]]), NEW neighbour
  PROVE  Log!Hear(e, neighbour)
<1>1. Landing' = Landing /\ Detour' = Detour /\ Entries' = Entries /\ node' = node
  BY WalksStay
<1>2. PICK m \in Off : m = at[e]
  OBVIOUS
<1>3. PICK n : n = K[m]
  OBVIOUS
<1>4. n \in 1 .. size /\ n # Null /\ m # Null /\ (n \in Off <=> n \notin Line)
  <2>1. n \in 1 .. size
    BY <1>3, GuideFacts
  <2> QED BY <2>1, OffFacts
<1>5. Landing[m] = L[m] /\ Detour[m] = T[m]
  BY ReaderFacts
<1>6. Landing[n] = L[m] /\ T[m] = <<node[n].value>> \o Detour[n] /\ Detour[n] \in Heard
  <2>1. CASE n \in Line
    <3>1. Landing[n] = n /\ Detour[n] = << >>
      BY <2>1, ReaderFacts
    <3>2. L[m] = n /\ T[m] = <<node[n].value>>
      BY <1>3, <2>1, GuideOnto
    <3>3. PICK x : x = node[n].value
      OBVIOUS
    <3>4. <<x>> = <<x>> \o << >> /\ << >> \in Heard
      BY DEF Heard
    <3> QED BY <3>1, <3>2, <3>3, <3>4
  <2>2. CASE n \notin Line
    <3>1. n \in Off /\ L[m] = head /\ L[n] = head
      BY <1>3, <2>2, GuideAlong
    <3>2. T[m] = <<node[n].value>> \o T[n] /\ T[n] \in Heard
      BY <1>3, <2>2, GuideHears
    <3>3. Landing[n] = L[n] /\ Detour[n] = T[n]
      BY <3>1, ReaderFacts
    <3> QED BY <3>1, <3>2, <3>3
  <2> QED BY <2>1, <2>2
<1>7. T[m] # << >> /\ Head(T[m]) = node[n].value /\ Tail(T[m]) = Detour[n]
  <2>1. PICK s \in Heard : s = Detour[n]
    BY <1>6
  <2>2. PICK x : x = node[n].value
    OBVIOUS
  <2>3. <<x>> \o s # << >> /\ Head(<<x>> \o s) = x /\ Tail(<<x>> \o s) = s
    BY <2>1 DEF Heard
  <2> QED BY <1>6, <2>1, <2>2, <2>3
<1>8. at' = [at EXCEPT ![e] = n] /\ DOMAIN at = Endpoints
  BY <1>2, <1>3 DEF MoveTo, ChannelInv, Allocated
<1>9. /\ Exists(e) /\ Exists(e)'
      /\ \A f \in Endpoints : (Exists(f)' <=> Exists(f)) /\ at'[f] = IF f = e THEN n ELSE at[f]
  BY <1>2, <1>4, <1>8 DEF Exists
<1>10. Opened' = Opened /\ e \in Opened
  BY <1>9 DEF Opened
<1>11. Places' = Places
  <2>1. Places' = [f \in Endpoints |-> IF Exists(f)' THEN node[Landing[at'[f]]].displacement + 1 ELSE 1]
    BY <1>1 DEF Places
  <2>2. Places = [f \in Endpoints |-> IF Exists(f) THEN node[Landing[at[f]]].displacement + 1 ELSE 1]
    BY DEF Places
  <2>3. Landing[n] = Landing[m]
    BY <1>5, <1>6
  <2> QED BY <1>2, <1>9, <2>1, <2>2, <2>3
<1>12. Detours' = [Detours EXCEPT ![e] = Detour[n]] /\ Detours[e] = T[m]
  <2>1. Detours' = [f \in Endpoints |-> IF Exists(f)' THEN Detour[at'[f]] ELSE << >>]
    BY <1>1 DEF Detours
  <2>2. Detours = [f \in Endpoints |-> IF Exists(f) THEN Detour[at[f]] ELSE << >>]
    BY DEF Detours
  <2> QED BY <1>2, <1>5, <1>9, <2>1, <2>2
<1>13. Hearing' = [Hearing EXCEPT ![e] = node[n].value]
  <2>1. Hearing' = [f \in Endpoints |-> IF Exists(f)' THEN node[at'[f]].value ELSE 0]
    BY <1>1 DEF Hearing
  <2>2. Hearing = [f \in Endpoints |-> IF Exists(f) THEN node[at[f]].value ELSE 0]
    BY DEF Hearing
  <2> QED BY <1>9, <2>1, <2>2
<1>14. Detours[e] # << >> /\ Head(Detours[e]) = node[n].value /\ Tail(Detours[e]) = Detour[n]
  BY <1>7, <1>12
<1> QED BY <1>1, <1>10, <1>11, <1>12, <1>13, <1>14 DEF Log!Hear

\* next_value() and unread().
LEMMA HearStep ==
  ASSUME ChannelInv, ChannelInv', NEW K, NEW L, NEW T, Guides(K, L, T),
         NEW e \in Endpoints, NextValue(e) \/ UnreadValue(e)
  PROVE  Log!Read(e) \/ Log!Unread(e)
<1>1. UNCHANGED <<size, node, head, tail>> /\ Exists(e)
  BY DEF NextValue, UnreadValue
<1>2. PICK n : n = at[e]
  OBVIOUS
<1>3. n \in 1 .. size /\ (n \in Off <=> n \notin Line)
  <2>1. n \in 1 .. size
    BY <1>1, <1>2, ReaderFacts
  <2> QED BY <2>1, OffFacts
<1>4. CASE n \in Off
  <2>1. NextEvent(n) = K[n] /\ PreviousEvent(n) = K[n]
    BY <1>4, GuidesAgree DEF Agrees
  <2>2. MoveTo(e, K[at[e]])
    BY <1>2, <2>1 DEF NextValue, UnreadValue
  <2>3. Log!Hear(e, Places[e] + 1)
    BY <1>1, <1>2, <1>4, <2>2, DetourStep
  <2> QED BY <2>3 DEF Log!Read
<1>5. CASE n \in Line
  <2>1. PICK D : D = node[tail].displacement
    OBVIOUS
  <2>2. PICK d \in 0 .. D : d = node[n].displacement /\ n = EventAt[d]
    <3>1. D \in Nat
      BY <2>1, OffFacts
    <3>2. 0 \in 0 .. node[tail].displacement
      BY <2>1, <3>1
    <3> QED BY <1>5, <2>1, <3>2, BeyondFacts
  <2>3. D \in Nat /\ d \in Nat /\ DOMAIN Entries = 1 .. D + 1
    BY <2>1, <2>2, EntriesFacts
  <2>4. Places[e] = d + 1 /\ Detours[e] = << >> /\ e \in Opened
    <3>1. Landing[n] = n /\ Detour[n] = << >>
      BY <1>5, ReaderFacts
    <3> QED BY <1>1, <1>2, <2>2, <3>1 DEF Places, Detours, Opened
  <2>5. /\ NextEvent(n) = EventAt[IF d = D THEN d ELSE d + 1]
        /\ PreviousEvent(n) = EventAt[IF d = 0 THEN d ELSE d - 1]
    BY <2>1, <2>2, LineNeighbours
  <2>6. ASSUME NEW c \in 0 .. D, MoveTo(e, EventAt[c])
        PROVE  Log!Hear(e, c + 1)
    <3>1. Log!Stand(e, c + 1, Entries) /\ Entries' = Entries /\ Opened' = Opened \cup {e}
      BY <1>1, <2>1, <2>6, StandStep
    <3>2. c + 1 \in DOMAIN Entries
      BY <2>3
    <3> QED BY <2>4, <3>1, <3>2 DEF Log!Hear
  <2>7. CASE NextValue(e)
    <3>1. NextEvent(n) # n /\ MoveTo(e, NextEvent(n))
      BY <1>2, <2>7 DEF NextValue
    <3>2. d # D
      BY <2>2, <2>5, <3>1
    <3>3. d + 1 \in 0 .. D /\ MoveTo(e, EventAt[d + 1])
      BY <2>3, <2>5, <3>1, <3>2
    <3>4. Log!Hear(e, (d + 1) + 1)
      BY <2>6, <3>3
    <3> QED BY <2>4, <3>4 DEF Log!Read
  <2>8. CASE UnreadValue(e)
    <3>1. PreviousEvent(n) # n /\ MoveTo(e, PreviousEvent(n))
      BY <1>2, <2>8 DEF UnreadValue
    <3>2. d # 0
      BY <2>2, <2>5, <3>1
    <3>3. d - 1 \in 0 .. D /\ MoveTo(e, EventAt[d - 1])
      BY <2>3, <2>5, <3>1, <3>2
    <3>4. Log!Hear(e, (d - 1) + 1)
      BY <2>6, <3>3
    <3>5. (d - 1) + 1 = Places[e] - 1
      BY <2>3, <2>4
    <3> QED BY <3>4, <3>5 DEF Log!Unread
  <2> QED BY <2>7, <2>8
<1> QED BY <1>3, <1>4, <1>5

\* Off the line there is something to hear.
LEMMA OffHears ==
  ASSUME ChannelInv, NEW K, NEW L, NEW T, Guides(K, L, T), NEW n \in Off
  PROVE  Detour[n] # << >>
<1>1. Detour[n] = T[n]
  BY ReaderFacts
<1>2. PICK x : x = node[K[n]].value
  OBVIOUS
<1>3. CASE K[n] \in Line
  <2>1. T[n] = <<x>>
    BY <1>2, <1>3, GuideOnto
  <2> QED BY <1>1, <2>1
<1>4. CASE K[n] \notin Line
  <2>1. T[n] = <<x>> \o T[K[n]] /\ T[K[n]] \in Heard
    BY <1>2, <1>4, GuideHears
  <2>2. PICK s \in Heard : s = T[K[n]]
    BY <2>1
  <2>3. <<x>> \o s # << >>
    BY <2>2 DEF Heard
  <2> QED BY <1>1, <2>1, <2>2, <2>3
<1> QED BY <1>3, <1>4

\* new_endpoint() and clone().
LEMMA OpenStep ==
  ASSUME ChannelInv, ChannelInv', NEW K, NEW L, NEW T, Guides(K, L, T),
         NEW e \in Endpoints, NewEndpoint(e) \/ \E f \in Endpoints : CloneEndpoint(e, f)
  PROVE  Log!Open(e)
<1>1. UNCHANGED <<size, node, head, tail>> /\ ~Exists(e)
  BY DEF NewEndpoint, CloneEndpoint
<1>2. e \notin Opened
  BY <1>1 DEF Opened
<1>3. PICK D : D = node[tail].displacement
  OBVIOUS
<1>4. D \in Nat /\ DOMAIN Entries = 1 .. D + 1 /\ Len(Entries) = D + 1
  BY <1>3, EntriesFacts
<1>5. ASSUME NEW d \in 0 .. D, MoveTo(e, EventAt[d]),
             d + 1 = Len(Entries) \/ \E f \in Opened : Log!OnLog(f) => d + 1 = Places[f]
      PROVE  Log!Open(e)
  <2>1. Log!Stand(e, d + 1, Entries) /\ Entries' = Entries /\ Opened' = Opened \cup {e}
    BY <1>1, <1>3, <1>5, StandStep
  <2>2. d + 1 \in DOMAIN Entries
    BY <1>4
  <2> QED BY <1>2, <1>5, <2>1, <2>2 DEF Log!Open
<1>6. CASE NewEndpoint(e)
  <2>1. EventAt[D] = tail
    BY <1>3, LineFacts DEF ChannelInv
  <2>2. D \in 0 .. D /\ MoveTo(e, EventAt[D])
    BY <1>4, <1>6, <2>1 DEF NewEndpoint
  <2> QED BY <1>4, <1>5, <2>2
<1>7. ASSUME NEW f \in Endpoints, CloneEndpoint(e, f) PROVE Log!Open(e)
  <2>1. PICK n : n = at[f]
    OBVIOUS
  <2>2. PICK d : d = node[n].displacement
    OBVIOUS
  <2>3. Exists(f) /\ d <= D /\ MoveTo(e, EventAt[d])
    BY <1>3, <1>7, <2>1, <2>2 DEF CloneEndpoint
  <2>4. n \in 1 .. size
    BY <2>1, <2>3, ReaderFacts
  <2>5. d \in Nat /\ (n \in Off <=> n \notin Line)
    BY <2>2, <2>4, OffFacts
  <2>6. d \in 0 .. D
    BY <1>4, <2>3, <2>5
  <2>7. f \in Opened
    BY <2>3 DEF Opened
  <2>8. Log!OnLog(f) => d + 1 = Places[f]
    <3> SUFFICES ASSUME Log!OnLog(f) PROVE d + 1 = Places[f]
      OBVIOUS
    <3>1. Detour[n] = << >>
      BY <2>1, <2>3 DEF Log!OnLog, Detours
    <3>2. n \in Line
      BY <2>5, <3>1, OffHears
    <3>3. Landing[n] = n
      BY <3>2, ReaderFacts
    <3> QED BY <2>1, <2>2, <2>3, <3>3 DEF Places
  <2> QED BY <1>5, <2>3, <2>6, <2>7, <2>8
<1> QED BY <1>6, <1>7

\* set_to_head() and set_to_tail().
LEMMA SeekStep ==
  ASSUME ChannelInv, ChannelInv', NEW K, NEW L, NEW T, Guides(K, L, T),
         NEW e \in Endpoints, SetToHead(e) \/ SetToTail(e)
  PROVE  Log!Seek(e)
<1>1. UNCHANGED <<size, node, head, tail>> /\ Exists(e)
  BY DEF SetToHead, SetToTail
<1>2. e \in Opened
  BY <1>1 DEF Opened
<1>3. PICK D : D = node[tail].displacement
  OBVIOUS
<1>4. D \in Nat /\ Len(Entries) = D + 1 /\ EventAt[D] = tail
  BY <1>3, EntriesFacts, LineFacts DEF ChannelInv
<1>5. PICK d \in {0, D} : MoveTo(e, EventAt[d])
  BY <1>4 DEF SetToHead, SetToTail
<1>6. d \in 0 .. D /\ d + 1 \in {1, Len(Entries)}
  BY <1>4, <1>5
<1>7. Log!Stand(e, d + 1, Entries) /\ Entries' = Entries /\ Opened' = Opened \cup {e}
  BY <1>1, <1>3, <1>5, <1>6, StandStep
<1> QED BY <1>2, <1>6, <1>7 DEF Log!Seek

\* append().
LEMMA PublishStep ==
  ASSUME ChannelInv, ChannelInv', NEW K, NEW L, NEW T, Guides(K, L, T),
         NEW e \in Endpoints, NEW v \in Values, AppendValue(e, v)
  PROVE  Log!Publish(e, v)
<1>1. PICK D : D = node[tail].displacement
  OBVIOUS
<1>2. PICK new : new = size + 1
  OBVIOUS
<1>3. /\ size' = new /\ tail' = new /\ at' = [at EXCEPT ![e] = new]
      /\ D \in Nat /\ node'[tail'].displacement = D + 1
      /\ \A d \in 0 .. D : EventAt'[d] = EventAt[d] /\ EventAt[d] \in 1 .. size
      /\ EventAt'[D + 1] = new
      /\ node'[new].value = v /\ node'[new].publisher = e
      /\ \A n \in 1 .. size :
           /\ node'[n].value = node[n].value /\ node'[n].publisher = node[n].publisher
           /\ node'[n].displacement = node[n].displacement
      /\ Line' = Line \cup {new} /\ Off' = Off
  BY <1>1, <1>2, AppendFacts
<1>4. /\ Landing' = [m \in 1 .. size' |-> IF m \in Line' THEN m ELSE L[m]]
      /\ Detour' = [m \in 1 .. size' |-> IF m \in Line' THEN << >> ELSE T[m]]
  BY AppendGuides, ReaderPrimed
<1>5. /\ Landing = [m \in 1 .. size |-> IF m \in Line THEN m ELSE L[m]]
      /\ Detour = [m \in 1 .. size |-> IF m \in Line THEN << >> ELSE T[m]]
  BY GuidesAgree DEF Agrees
<1>6. size \in Nat /\ Line \subseteq 1 .. size /\ \A m \in 1 .. size : m \in Off <=> m \notin Line
  BY OffFacts
<1>7. new \in 1 .. new /\ new \notin 1 .. size /\ new # Null /\ \A m \in 1 .. size : m \in 1 .. new /\ m # new
  BY <1>2, <1>6 DEF Null
<1>8. ASSUME NEW m \in 1 .. size PROVE Landing'[m] = Landing[m] /\ Detour'[m] = Detour[m] /\ Landing[m] \in 1 .. size
  <2>1. m \in Line' <=> m \in Line
    BY <1>3, <1>7
  <2>2. m \notin Line => L[m] \in Line
    BY <1>6, GuideFacts
  <2> QED BY <1>3, <1>4, <1>5, <1>6, <1>7, <2>1, <2>2
<1>9. Landing'[new] = new /\ Detour'[new] = << >>
  BY <1>3, <1>4, <1>7
<1>10. Exists(e) /\ e \in Opened /\ DOMAIN at = Endpoints /\ \A f \in Endpoints : Exists(f) => at[f] \in 1 .. size
  BY ReaderFacts DEF AppendValue, Opened, ChannelInv, Allocated
<1>11. \A f \in Endpoints : (Exists(f)' <=> Exists(f)) /\ at'[f] = IF f = e THEN new ELSE at[f]
  BY <1>3, <1>7, <1>10 DEF Exists
<1>12. Opened' = Opened
  BY <1>11 DEF Opened
<1>13. Entries' = Append(Entries, [value |-> v, by |-> e])
  <2>1. Entries' = [i \in 1 .. (D + 1) + 1 |-> [value |-> node'[EventAt'[i - 1]].value,
                                              by |-> node'[EventAt'[i - 1]].publisher]]
    BY <1>3 DEF Entries
  <2>2. Entries = [i \in 1 .. D + 1 |-> [value |-> node[EventAt[i - 1]].value,
                                        by |-> node[EventAt[i - 1]].publisher]]
    BY <1>1 DEF Entries
  <2>3. \A i \in 1 .. D + 1 : /\ node'[EventAt'[i - 1]].value = node[EventAt[i - 1]].value
                              /\ node'[EventAt'[i - 1]].publisher = node[EventAt[i - 1]].publisher
    <3> TAKE i \in 1 .. D + 1
    <3>1. i - 1 \in 0 .. D
      BY <1>3
    <3> QED BY <1>3, <3>1
  <2>4. /\ node'[EventAt'[((D + 1) + 1) - 1]].value = v
        /\ node'[EventAt'[((D + 1) + 1) - 1]].publisher = e
    <3>1. ((D + 1) + 1) - 1 = D + 1
      BY <1>3
    <3> QED BY <1>3, <3>1
  <2> DEFINE x == [value |-> v, by |-> e]
             a == Entries
             b == Entries'
             N == D + 1
  <2>5. a \in [1 .. N -> {a[i] : i \in 1 .. N}] /\ N \in Nat
    BY <1>3, <2>2
  <2>6. b = [i \in 1 .. N + 1 |-> IF i = N + 1 THEN x ELSE a[i]]
    <3>1. \A i \in 1 .. N + 1 : i = N + 1 \/ i \in 1 .. N
      BY <2>5
    <3>2. ASSUME NEW i \in 1 .. N + 1 PROVE b[i] = IF i = N + 1 THEN x ELSE a[i]
      BY <2>1, <2>2, <2>3, <2>4, <3>1
    <3>3. b = [i \in 1 .. N + 1 |-> b[i]]
      BY <2>1
    <3> HIDE DEF a, b, N, x
    <3> QED BY <3>2, <3>3
  <2>7. b = Append(a, x)
    <3> HIDE DEF a, b, N, x
    <3>1. a \in Seq({a[i] : i \in 1 .. N}) /\ Len(a) = N
      BY <2>5
    <3> QED BY <2>5, <2>6, <3>1
  <2> QED BY <2>7
<1>14. Len(Entries) + 1 = D + 2 /\ Entries'[D + 2].value = v
  <2>1. Len(Entries) = D + 1 /\ DOMAIN Entries = 1 .. D + 1
    BY <1>1, EntriesFacts
  <2>2. Entries' = [i \in 1 .. (D + 1) + 1 |-> [value |-> node'[EventAt'[i - 1]].value,
                                              by |-> node'[EventAt'[i - 1]].publisher]]
    BY <1>3 DEF Entries
  <2>3. D + 2 \in 1 .. (D + 1) + 1 /\ (D + 2) - 1 = D + 1
    BY <1>3
  <2> QED BY <1>3, <2>1, <2>2, <2>3
<1>15. Places' = [Places EXCEPT ![e] = D + 2]
  <2>1. Places' = [f \in Endpoints |-> IF Exists(f)' THEN node'[Landing'[at'[f]]].displacement + 1 ELSE 1]
    BY DEF Places
  <2>2. Places = [f \in Endpoints |-> IF Exists(f) THEN node[Landing[at[f]]].displacement + 1 ELSE 1]
    BY DEF Places
  <2>3. (D + 1) + 1 = D + 2 /\ node'[Landing'[new]].displacement = D + 1
    BY <1>3, <1>9
  <2>4. \A f \in Endpoints : Exists(f) => node'[Landing'[at[f]]].displacement = node[Landing[at[f]]].displacement
    BY <1>3, <1>8, <1>10
  <2> QED BY <1>10, <1>11, <2>1, <2>2, <2>3, <2>4
<1>16. Detours' = [Detours EXCEPT ![e] = << >>]
  <2>1. Detours' = [f \in Endpoints |-> IF Exists(f)' THEN Detour'[at'[f]] ELSE << >>]
    BY DEF Detours
  <2>2. Detours = [f \in Endpoints |-> IF Exists(f) THEN Detour[at[f]] ELSE << >>]
    BY DEF Detours
  <2> QED BY <1>8, <1>9, <1>10, <1>11, <2>1, <2>2
<1>17. Hearing' = [Hearing EXCEPT ![e] = v]
  <2>1. Hearing' = [f \in Endpoints |-> IF Exists(f)' THEN node'[at'[f]].value ELSE 0]
    BY DEF Hearing
  <2>2. Hearing = [f \in Endpoints |-> IF Exists(f) THEN node[at[f]].value ELSE 0]
    BY DEF Hearing
  <2> QED BY <1>3, <1>10, <1>11, <2>1, <2>2
<1> QED BY <1>10, <1>12, <1>13, <1>14, <1>15, <1>16, <1>17 DEF Log!Publish, Log!Stand

\* unwrite(), as the walks see it.
LEMMA CutWalks ==
  ASSUME ChannelInv, ChannelInv', NEW k \in 0 .. node[tail].displacement, CutAt(k),
         NEW K, NEW L, NEW T, Guides(K, L, T)
  PROVE  \A m \in 1 .. size :
           /\ Landing[m] \in Line
           /\ Landing'[m] = IF Landing[m] \in Beyond(k) THEN EventAt[k] ELSE Landing[m]
           /\ Detour'[m] = IF Landing[m] \in Beyond(k) THEN <<node[EventAt[k]].value>> ELSE Detour[m]
<1>1. PICK target : target = EventAt[k]
  OBVIOUS
<1>2. PICK B : B = Beyond(k)
  OBVIOUS
<1>3. PICK L2 : L2 = CutGuide(L, k)
  OBVIOUS
<1>4. PICK T2 : T2 = CutHeard(L, T, k)
  OBVIOUS
<1>5. PICK K2 : K2 = CutGuide(K, k)
  OBVIOUS
<1>6. Guides(K2, L2, T2)'
  BY <1>3, <1>4, <1>5, CutGuides
<1>7. /\ Landing' = [m \in 1 .. size' |-> IF m \in Line' THEN m ELSE L2[m]]
      /\ Detour' = [m \in 1 .. size' |-> IF m \in Line' THEN << >> ELSE T2[m]]
  BY <1>6, ReaderPrimed
<1>8. /\ Landing = [m \in 1 .. size |-> IF m \in Line THEN m ELSE L[m]]
      /\ Detour = [m \in 1 .. size |-> IF m \in Line THEN << >> ELSE T[m]]
  BY GuidesAgree DEF Agrees
<1>9. size' = size /\ Line' = Line \ B
  BY <1>2 DEF CutAt
<1>10. /\ L2 = [m \in Off \cup B |-> IF m \in B THEN target ELSE IF L[m] \in B THEN target ELSE L[m]]
       /\ T2 = [m \in Off \cup B |-> IF m \in B THEN <<node[target].value>>
                                     ELSE IF L[m] \in B THEN <<node[target].value>> ELSE T[m]]
  BY <1>1, <1>2, <1>3, <1>4 DEF CutGuide, CutHeard
<1>11. ASSUME NEW m \in 1 .. size
       PROVE  /\ Landing[m] \in Line
              /\ Landing'[m] = IF Landing[m] \in B THEN target ELSE Landing[m]
              /\ Detour'[m] = IF Landing[m] \in B THEN <<node[target].value>> ELSE Detour[m]
  <2>1. CASE m \in Line
    <3>1. Landing[m] = m /\ Detour[m] = << >>
      BY <1>8, <2>1
    <3>2. CASE m \in B
      BY <1>7, <1>9, <1>10, <2>1, <3>1, <3>2
    <3>3. CASE m \notin B
      BY <1>7, <1>9, <2>1, <3>1, <3>3
    <3> QED BY <3>2, <3>3
  <2>2. CASE m \notin Line
    <3>1. m \in Off /\ B \subseteq Line
      BY <1>2, <2>2, OffFacts, BeyondFacts
    <3>2. L[m] \in Line
      BY <3>1, GuideFacts
    <3>3. Landing[m] = L[m] /\ Detour[m] = T[m] /\ m \notin B /\ m \notin Line'
      BY <1>8, <1>9, <2>2, <3>1
    <3>4. Landing'[m] = L2[m] /\ Detour'[m] = T2[m]
      BY <1>7, <1>9, <3>3
    <3> QED BY <1>10, <3>1, <3>2, <3>3, <3>4
  <2> QED BY <2>1, <2>2
<1> QED BY <1>1, <1>2, <1>11

\* unwrite().
LEMMA TakeBackStep ==
  ASSUME ChannelInv, ChannelInv', NEW K, NEW L, NEW T, Guides(K, L, T),
         NEW e \in Endpoints, UnwriteValue(e)
  PROVE  \E i \in DOMAIN Entries : Log!Unwrite(e, i)
<1>1. PICK D : D = node[tail].displacement
  OBVIOUS
<1>2. PICK t : t = node[at[e]].displacement
  OBVIOUS
<1>3. PICK k \in 0 .. t : /\ LastOwn(e, t, k) /\ k \in 0 .. D
                          /\ CutAt(k) /\ at' = [at EXCEPT ![e] = EventAt[k]]
  BY <1>1, <1>2, UnwriteFacts
<1>4. t \in 0 .. D
  BY <1>1, <1>2, UnwriteFacts
<1>5. PICK target : target = EventAt[k]
  OBVIOUS
<1>6. /\ D \in Nat /\ DOMAIN Entries = 1 .. D + 1 /\ Len(Entries) = D + 1
      /\ \A d \in 0 .. D : Entries[d + 1].value = node[EventAt[d]].value
                           /\ Entries[d + 1].by = node[EventAt[d]].publisher
  BY <1>1, EntriesFacts
<1>7. PICK n : n = k + 1
  OBVIOUS
<1>8. t \in Nat /\ k \in Nat /\ n \in 1 .. D + 1 /\ t + 1 \in 1 .. D + 1 /\ k <= t /\ n \in Nat
  BY <1>3, <1>4, <1>6, <1>7
<1> DEFINE mine == {j \in 2 .. t + 1 : Entries[j].by = e}
           last == IF mine = {} THEN 1 ELSE (CHOOSE j \in mine : \A c \in mine : c <= j) - 1
<1>9. last = n
  <2> DEFINE own == {d \in 1 .. t : node[EventAt[d]].publisher = e}
  <2>1. \A d \in 1 .. t : d + 1 \in 2 .. t + 1 /\ (d \in own <=> d + 1 \in mine)
    BY <1>4, <1>6, <1>8
  <2>2. \A j \in 2 .. t + 1 : j - 1 \in 1 .. t /\ (j - 1) + 1 = j
    BY <1>8
  <2>3. \A j \in mine : j - 1 \in own /\ (j - 1) + 1 = j
    BY <2>1, <2>2
  <2>4. \A d \in own : d + 1 \in mine
    BY <2>1
  <2>5. IF own = {} THEN k = 0 ELSE k + 1 \in own /\ \A c \in own : c <= k + 1
    BY <1>3 DEF LastOwn
  <2>6. \A c \in own : c \in Nat
    OBVIOUS
  <2>7. \A c \in mine : c \in Nat
    BY <1>8
  <2> HIDE DEF own, mine
  <2>8. CASE own = {}
    <3>1. mine = {}
      BY <2>3, <2>8
    <3>2. n = 1
      BY <1>7, <2>5, <2>8
    <3> QED BY <3>1, <3>2
  <2>9. CASE own # {}
    <3>1. k + 1 \in own /\ \A c \in own : c <= k + 1
      BY <2>5, <2>9
    <3>2. n + 1 \in mine
      BY <1>7, <2>4, <3>1
    <3>3. \A c \in mine : c <= n + 1
      <4> TAKE c \in mine
      <4>1. c - 1 <= k + 1
        BY <2>3, <3>1
      <4> QED BY <1>7, <1>8, <2>7, <4>1
    <3>4. \A j \in mine : (\A c \in mine : c <= j) => j = n + 1
      BY <1>8, <2>7, <3>2, <3>3
    <3>5. (CHOOSE j \in mine : \A c \in mine : c <= j) = n + 1
      BY <3>2, <3>3, <3>4
    <3>6. (n + 1) - 1 = n
      BY <1>8
    <3> QED BY <3>2, <3>5, <3>6
  <2> QED BY <2>8, <2>9
<1>10. /\ size' = size /\ node'[tail'].displacement = k
       /\ \A d \in 0 .. k : EventAt'[d] = EventAt[d]
       /\ \A m \in 1 .. size : /\ node'[m].value = node[m].value /\ node'[m].publisher = node[m].publisher
                               /\ node'[m].displacement = node[m].displacement
  BY <1>3 DEF CutAt
<1>11. \A d \in 0 .. D : EventAt[d] \in 1 .. size /\ node[EventAt[d]].displacement = d
  BY <1>1, LineFacts DEF ChannelInv
<1>12. \A m \in 1 .. size :
         /\ Landing[m] \in Line
         /\ Landing'[m] = IF Landing[m] \in Beyond(k) THEN target ELSE Landing[m]
         /\ Detour'[m] = IF Landing[m] \in Beyond(k) THEN <<node[target].value>> ELSE Detour[m]
  BY <1>1, <1>3, <1>5, CutWalks
<1>13. \A m \in Line : m \in 1 .. size /\ node[m].displacement \in Nat
                       /\ (m \in Beyond(k) <=> node[m].displacement + 1 > n)
  <2> TAKE m \in Line
  <2>1. m = EventAt[node[m].displacement] /\ node[m].displacement \in 0 .. D
    BY <1>1, <1>3, BeyondFacts
  <2>2. PICK d \in 0 .. D : d = node[m].displacement
    BY <2>1
  <2>3. EventAt[d] \in Beyond(k) <=> d > k
    BY <1>1, <1>3, BeyondFacts
  <2>4. d > k <=> d + 1 > n
    BY <1>6, <1>7, <1>8
  <2> QED BY <1>6, <1>11, <2>1, <2>2, <2>3, <2>4
<1>14. target \in 1 .. size /\ target # Null /\ node[target].displacement = k
       /\ Entries[n].value = node[target].value /\ target \in Line
       /\ target \notin Beyond(k)
  <2>1. target \in Line /\ target \notin Beyond(k)
    BY <1>1, <1>3, <1>5, <1>8, BeyondFacts
  <2> QED BY <1>3, <1>5, <1>6, <1>7, <1>11, <2>1, OffFacts
<1>15. Exists(e) /\ e \in Opened /\ DOMAIN at = Endpoints /\ \A f \in Endpoints : Exists(f) => at[f] \in 1 .. size
  BY ReaderFacts DEF UnwriteValue, Opened, ChannelInv, Allocated
<1>16. \A f \in Endpoints : (Exists(f)' <=> Exists(f)) /\ at'[f] = IF f = e THEN target ELSE at[f]
  BY <1>3, <1>5, <1>14, <1>15 DEF Exists
<1>17. Opened' = Opened
  BY <1>16 DEF Opened
<1>18. Entries' = SubSeq(Entries, 1, n)
  <2>1. Entries' = [i \in 1 .. n |-> [value |-> node'[EventAt'[i - 1]].value,
                                      by |-> node'[EventAt'[i - 1]].publisher]]
    BY <1>7, <1>10 DEF Entries
  <2>2. Entries = [i \in 1 .. D + 1 |-> [value |-> node[EventAt[i - 1]].value,
                                        by |-> node[EventAt[i - 1]].publisher]]
    BY <1>1 DEF Entries
  <2>3. \A i \in 1 .. n : /\ node'[EventAt'[i - 1]].value = node[EventAt[i - 1]].value
                          /\ node'[EventAt'[i - 1]].publisher = node[EventAt[i - 1]].publisher
    <3> TAKE i \in 1 .. n
    <3>1. i - 1 \in 0 .. k /\ i - 1 \in 0 .. D
      BY <1>3, <1>6, <1>7, <1>8
    <3> QED BY <1>10, <1>11, <3>1
  <2> DEFINE a == Entries
             b == Entries'
             N == D + 1
  <2>0. N \in Nat /\ n \in 1 .. N
    BY <1>6, <1>8
  <2>4. a \in [1 .. N -> {a[i] : i \in 1 .. N}]
    BY <2>2
  <2>5. b = [i \in 1 .. n |-> a[i]]
    <3>1. \A i \in 1 .. n : i \in 1 .. N
      BY <2>0
    <3>2. ASSUME NEW i \in 1 .. n PROVE b[i] = a[i]
      BY <2>1, <2>2, <2>3, <3>1
    <3>3. b = [i \in 1 .. n |-> b[i]]
      BY <2>1
    <3> HIDE DEF a, b, N
    <3> QED BY <3>2, <3>3
  <2>6. b = SubSeq(a, 1, n)
    <3> HIDE DEF a, b, N
    <3>0. PICK S : S = {a[i] : i \in 1 .. N}
      OBVIOUS
    <3>1. a \in Seq(S) /\ Len(a) = N
      <4>1. a \in [1 .. N -> S] /\ N \in Nat
        BY <2>0, <2>4, <3>0
      <4> QED BY <4>1
    <3>2. SubSeq(a, 1, n) = [i \in 1 .. n |-> a[i]]
      BY <2>0, <3>1
    <3> QED BY <2>5, <3>2
  <2> QED BY <2>6
<1>19. Places' = [f \in Endpoints |-> IF f = e \/ Places[f] > n THEN n ELSE Places[f]]
  <2>1. Places' = [f \in Endpoints |-> IF Exists(f)' THEN node'[Landing'[at'[f]]].displacement + 1 ELSE 1]
    BY DEF Places
  <2>2. Places = [f \in Endpoints |-> IF Exists(f) THEN node[Landing[at[f]]].displacement + 1 ELSE 1]
    BY DEF Places
  <2>3. ASSUME NEW f \in Endpoints
        PROVE  Places'[f] = IF f = e \/ Places[f] > n THEN n ELSE Places[f]
    <3>1. CASE f = e
      <4>1. Places'[f] = node'[Landing'[target]].displacement + 1
        BY <1>15, <1>16, <2>1, <3>1
      <4>2. Landing[target] = target
        BY <1>14, ReaderFacts
      <4>3. Landing'[target] = target
        BY <1>12, <1>14, <4>2
      <4> QED BY <1>7, <1>10, <1>14, <3>1, <4>1, <4>3
    <3>2. CASE f # e /\ Exists(f)
      <4>1. PICK m \in 1 .. size : m = at[f]
        BY <1>15, <3>2
      <4>2. Places'[f] = node'[Landing'[m]].displacement + 1 /\ Places[f] = node[Landing[m]].displacement + 1
        BY <1>16, <2>1, <2>2, <3>2, <4>1
      <4>3. PICK q \in Line : q = Landing[m]
        BY <1>12
      <4>4. q \in 1 .. size /\ node[q].displacement \in Nat /\ (q \in Beyond(k) <=> node[q].displacement + 1 > n)
        BY <1>13
      <4>5. CASE q \in Beyond(k)
        <5>1. Landing'[m] = target
          BY <1>12, <4>3, <4>5
        <5>2. Places'[f] = k + 1
          BY <1>10, <1>14, <4>2, <5>1
        <5> QED BY <1>7, <4>2, <4>3, <4>4, <4>5, <5>2
      <4>6. CASE q \notin Beyond(k)
        <5>1. Landing'[m] = q
          BY <1>12, <4>3, <4>6
        <5>2. Places'[f] = Places[f]
          BY <1>10, <4>2, <4>3, <4>4, <5>1
        <5> QED BY <3>2, <4>2, <4>3, <4>4, <4>6, <5>2
      <4> QED BY <4>5, <4>6
    <3>3. CASE f # e /\ ~Exists(f)
      <4>1. Places'[f] = 1 /\ Places[f] = 1
        BY <1>16, <2>1, <2>2, <3>3
      <4>2. ~(1 > n)
        BY <1>6, <1>8
      <4> QED BY <3>3, <4>1, <4>2
    <3> QED BY <3>1, <3>2, <3>3
  <2> QED BY <2>1, <2>3
<1>20. Detours' = [f \in Endpoints |-> IF f = e THEN << >>
                                       ELSE IF Places[f] > n THEN <<Entries[n].value>>
                                       ELSE Detours[f]]
  <2>1. Detours' = [f \in Endpoints |-> IF Exists(f)' THEN Detour'[at'[f]] ELSE << >>]
    BY DEF Detours
  <2>2. Detours = [f \in Endpoints |-> IF Exists(f) THEN Detour[at[f]] ELSE << >>]
    BY DEF Detours
  <2>3. Places = [f \in Endpoints |-> IF Exists(f) THEN node[Landing[at[f]]].displacement + 1 ELSE 1]
    BY DEF Places
  <2>4. ASSUME NEW f \in Endpoints
        PROVE  Detours'[f] = IF f = e THEN << >> ELSE IF Places[f] > n THEN <<Entries[n].value>> ELSE Detours[f]
    <3>1. CASE f = e
      <4>1. Detours'[f] = Detour'[target]
        BY <1>15, <1>16, <2>1, <3>1
      <4>2. Landing[target] = target /\ Detour[target] = << >>
        BY <1>14, ReaderFacts
      <4>3. Detour'[target] = << >>
        BY <1>12, <1>14, <4>2
      <4> QED BY <3>1, <4>1, <4>3
    <3>2. CASE f # e /\ Exists(f)
      <4>1. PICK m \in 1 .. size : m = at[f]
        BY <1>15, <3>2
      <4>2. Detours'[f] = Detour'[m] /\ Detours[f] = Detour[m] /\ Places[f] = node[Landing[m]].displacement + 1
        BY <1>16, <2>1, <2>2, <2>3, <3>2, <4>1
      <4>3. Landing[m] \in Line
        BY <1>12
      <4>4. Places[f] > n <=> Landing[m] \in Beyond(k)
        BY <1>13, <4>2, <4>3
      <4>5. Detour'[m] = IF Landing[m] \in Beyond(k) THEN <<node[target].value>> ELSE Detour[m]
        BY <1>12
      <4> QED BY <1>14, <3>2, <4>2, <4>4, <4>5
    <3>3. CASE f # e /\ ~Exists(f)
      <4>1. Detours'[f] = << >> /\ Detours[f] = << >> /\ Places[f] = 1
        BY <1>16, <2>1, <2>2, <2>3, <3>3
      <4>2. ~(1 > n)
        BY <1>6, <1>8
      <4> QED BY <3>3, <4>1, <4>2
    <3> QED BY <3>1, <3>2, <3>3
  <2> QED BY <2>1, <2>4
<1>21. Hearing' = [Hearing EXCEPT ![e] = Entries[n].value]
  <2>1. Hearing' = [f \in Endpoints |-> IF Exists(f)' THEN node'[at'[f]].value ELSE 0]
    BY DEF Hearing
  <2>2. Hearing = [f \in Endpoints |-> IF Exists(f) THEN node[at[f]].value ELSE 0]
    BY DEF Hearing
  <2> QED BY <1>10, <1>14, <1>15, <1>16, <2>1, <2>2
<1>22. Log!OnLog(e) => t + 1 = Places[e]
  <2> SUFFICES ASSUME Log!OnLog(e) PROVE t + 1 = Places[e]
    OBVIOUS
  <2>1. PICK m \in 1 .. size : m = at[e]
    BY <1>15
  <2>2. Detour[m] = << >>
    BY <1>15, <2>1 DEF Log!OnLog, Detours
  <2>3. m \in Line
    BY <2>2, OffHears, OffFacts
  <2>4. Landing[m] = m
    BY <2>3, ReaderFacts
  <2> QED BY <1>2, <1>15, <2>1, <2>4 DEF Places
<1>23. t + 1 \in DOMAIN Entries
  BY <1>6, <1>8
<1>24. Log!Unwrite(e, t + 1)
  <2> HIDE DEF last
  <2>1. /\ Entries' = SubSeq(Entries, 1, last)
        /\ Places' = [f \in Endpoints |-> IF f = e \/ Places[f] > last THEN last ELSE Places[f]]
        /\ Detours' = [f \in Endpoints |-> IF f = e THEN << >>
                                           ELSE IF Places[f] > last THEN <<Entries[last].value>>
                                           ELSE Detours[f]]
        /\ Hearing' = [Hearing EXCEPT ![e] = Entries[last].value]
    BY <1>9, <1>18, <1>19, <1>20, <1>21
  <2> QED BY <1>15, <1>17, <1>22, <1>23, <2>1, Zenon DEF Log!Unwrite, last, mine
<1> QED BY <1>23, <1>24

\* clear(), as the walks see it.
LEMMA ClearWalks ==
  ASSUME ChannelInv, ChannelInv', NEW v \in Values, ClearChannel(v),
         NEW K, NEW L, NEW T, Guides(K, L, T)
  PROVE  \A m \in 1 .. size :
           /\ Landing[m] \in Line /\ Landing'[m] = size + 1
           /\ Detour'[m] = IF Landing[m] \in Beyond(0) THEN <<node[head].value, v>>
                           ELSE Append(Detour[m], v)
<1>1. PICK new : new = size + 1
  OBVIOUS
<1>2. PICK B : B = Beyond(0)
  OBVIOUS
<1>3. PICK L2 : L2 = [m \in 1 .. size |-> size + 1]
  OBVIOUS
<1>4. PICK T2 : T2 = ClearHeard(L, T, v)
  OBVIOUS
<1>5. PICK K2 : K2 = ClearGuide(K)
  OBVIOUS
<1>6. PICK h : h = node[head].value
  OBVIOUS
<1>7. Guides(K2, L2, T2)'
  BY <1>3, <1>4, <1>5, ClearGuides
<1>8. /\ Landing' = [m \in 1 .. size' |-> IF m \in Line' THEN m ELSE L2[m]]
      /\ Detour' = [m \in 1 .. size' |-> IF m \in Line' THEN << >> ELSE T2[m]]
  BY <1>7, ReaderPrimed
<1>9. size' = new /\ Line' = {new} /\ Line = B \cup {head} /\ head \notin B
  BY <1>1, <1>2, ClearFacts
<1>10. T2 = [m \in 1 .. size |-> IF m = head THEN <<v>> ELSE IF m \in B THEN <<h, v>>
                                 ELSE IF L[m] \in B THEN <<h, v>> ELSE Append(T[m], v)]
  BY <1>2, <1>4, <1>6 DEF ClearHeard
<1>11. size \in Nat /\ \A m \in 1 .. size : m \in 1 .. new /\ m # new
  BY <1>1, OffFacts
<1>12. ASSUME NEW m \in 1 .. size
       PROVE  /\ Landing[m] \in Line /\ Landing'[m] = new
              /\ Detour'[m] = IF Landing[m] \in B THEN <<h, v>> ELSE Append(Detour[m], v)
  <2>1. Landing'[m] = new /\ Detour'[m] = T2[m]
    BY <1>1, <1>3, <1>8, <1>9, <1>11
  <2>2. CASE m \in Line
    <3>1. Landing[m] = m /\ Detour[m] = << >>
      BY <2>2, ReaderFacts
    <3>2. Append(<< >>, v) = <<v>>
      OBVIOUS
    <3>3. CASE m = head
      BY <1>9, <1>10, <2>1, <2>2, <3>1, <3>2, <3>3
    <3>4. CASE m \in B
      BY <1>9, <1>10, <2>1, <2>2, <3>1, <3>4
    <3> QED BY <1>9, <2>2, <3>3, <3>4
  <2>3. CASE m \notin Line
    <3>1. m \in Off /\ m # head /\ m \notin B
      BY <1>9, <2>3, OffFacts
    <3>2. L[m] \in Line
      BY <3>1, GuideFacts
    <3>3. Landing[m] = L[m] /\ Detour[m] = T[m]
      BY <3>1, ReaderFacts
    <3>4. T2[m] = IF L[m] \in B THEN <<h, v>> ELSE Append(T[m], v)
      BY <1>10, <3>1
    <3> QED BY <2>1, <3>2, <3>3, <3>4
  <2> QED BY <2>2, <2>3
<1> QED BY <1>1, <1>2, <1>6, <1>12

\* clear().
LEMMA StartOverStep ==
  ASSUME ChannelInv, ChannelInv', NEW K, NEW L, NEW T, Guides(K, L, T),
         NEW v \in Values, ClearChannel(v)
  PROVE  Log!Clear(v)
<1>1. PICK new : new = size + 1
  OBVIOUS
<1>2. PICK h : h = node[head].value
  OBVIOUS
<1>3. /\ size' = new /\ at' = at /\ node'[tail'].displacement = 0 /\ EventAt'[0] = new
      /\ tail' = new /\ node'[new].value = v /\ node'[new].publisher = 0
      /\ \A n \in 1 .. size : node'[n].value = node[n].value
      /\ Line = Beyond(0) \cup {head} /\ head \notin Beyond(0)
  BY <1>1, ClearFacts
<1>4. \A m \in 1 .. size :
        /\ Landing[m] \in Line /\ Landing'[m] = new
        /\ Detour'[m] = IF Landing[m] \in Beyond(0) THEN <<h, v>> ELSE Append(Detour[m], v)
  BY <1>1, <1>2, ClearWalks
<1>5. PICK D : D = node[tail].displacement
  OBVIOUS
<1>6. D \in Nat /\ 0 \in 0 .. D /\ EventAt[0] = head /\ Entries[0 + 1].value = node[EventAt[0]].value
  BY <1>5, EntriesFacts, LineFacts DEF ChannelInv
<1>7. Entries[1].value = h
  BY <1>2, <1>6
<1>8. \A m \in Line : m \in Beyond(0) <=> node[m].displacement + 1 > 1
  <2> TAKE m \in Line
  <2>1. m = EventAt[node[m].displacement] /\ node[m].displacement \in 0 .. D
    BY <1>5, <1>6, BeyondFacts
  <2>2. PICK d \in 0 .. D : d = node[m].displacement
    BY <2>1
  <2>3. EventAt[d] \in Beyond(0) <=> d > 0
    BY <1>5, <1>6, BeyondFacts
  <2>4. d > 0 <=> d + 1 > 1
    BY <1>6
  <2> QED BY <2>1, <2>2, <2>3, <2>4
<1>9. /\ DOMAIN at = Endpoints
      /\ \A f \in Endpoints : Exists(f) => at[f] \in 1 .. size
      /\ \A f \in Endpoints : (Exists(f)' <=> Exists(f)) /\ at'[f] = at[f]
  BY <1>3, ReaderFacts DEF ChannelInv, Allocated, Exists
<1>10. Opened' = Opened /\ \A f \in Endpoints : f \in Opened <=> Exists(f)
  BY <1>9 DEF Opened
<1>11. Entries' = << [value |-> v, by |-> 0] >>
  <2>1. Entries' = [i \in 1 .. 0 + 1 |-> [value |-> node'[EventAt'[i - 1]].value,
                                          by |-> node'[EventAt'[i - 1]].publisher]]
    BY <1>3 DEF Entries
  <2>2. \A i \in 1 .. 0 + 1 : i = 1 /\ i - 1 = 0
    OBVIOUS
  <2>3. 1 \in 1 .. 0 + 1
    OBVIOUS
  <2>4. Entries'[1] = [value |-> v, by |-> 0]
    BY <1>3, <2>1, <2>2, <2>3
  <2>5. Entries' = [i \in 1 .. 1 |-> [value |-> v, by |-> 0]]
    BY <2>1, <2>2, <2>4
  <2> QED BY <2>5
<1>12. Places' = [f \in Endpoints |-> 1]
  <2>1. Places' = [f \in Endpoints |-> IF Exists(f)' THEN node'[Landing'[at'[f]]].displacement + 1 ELSE 1]
    BY DEF Places
  <2>2. ASSUME NEW f \in Endpoints, Exists(f) PROVE node'[Landing'[at'[f]]].displacement + 1 = 1
    BY <1>3, <1>4, <1>9, <2>2
  <2> QED BY <1>9, <2>1, <2>2
<1>13. Detours' = [f \in Endpoints |-> IF f \notin Opened THEN << >>
                                       ELSE IF Places[f] > 1 THEN <<Entries[1].value, v>>
                                       ELSE Append(Detours[f], v)]
  <2>1. Detours' = [f \in Endpoints |-> IF Exists(f)' THEN Detour'[at'[f]] ELSE << >>]
    BY DEF Detours
  <2>2. Detours = [f \in Endpoints |-> IF Exists(f) THEN Detour[at[f]] ELSE << >>]
    BY DEF Detours
  <2>3. Places = [f \in Endpoints |-> IF Exists(f) THEN node[Landing[at[f]]].displacement + 1 ELSE 1]
    BY DEF Places
  <2>4. ASSUME NEW f \in Endpoints
        PROVE  Detours'[f] = IF f \notin Opened THEN << >>
                             ELSE IF Places[f] > 1 THEN <<Entries[1].value, v>> ELSE Append(Detours[f], v)
    <3>1. CASE ~Exists(f)
      BY <1>9, <1>10, <2>1, <3>1
    <3>2. CASE Exists(f)
      <4>1. PICK m \in 1 .. size : m = at[f]
        BY <1>9, <3>2
      <4>2. Detours'[f] = Detour'[m] /\ Detours[f] = Detour[m] /\ Places[f] = node[Landing[m]].displacement + 1
        BY <1>9, <2>1, <2>2, <2>3, <3>2, <4>1
      <4>3. Places[f] > 1 <=> Landing[m] \in Beyond(0)
        BY <1>4, <1>8, <4>2
      <4>4. Detour'[m] = IF Landing[m] \in Beyond(0) THEN <<h, v>> ELSE Append(Detour[m], v)
        BY <1>4
      <4> QED BY <1>7, <1>10, <3>2, <4>2, <4>3, <4>4
    <3> QED BY <3>1, <3>2
  <2> QED BY <2>1, <2>4
<1>14. Hearing' = Hearing
  <2>1. Hearing' = [f \in Endpoints |-> IF Exists(f)' THEN node'[at'[f]].value ELSE 0]
    BY DEF Hearing
  <2>2. Hearing = [f \in Endpoints |-> IF Exists(f) THEN node[at[f]].value ELSE 0]
    BY DEF Hearing
  <2> QED BY <1>3, <1>9, <2>1, <2>2
<1> QED BY <1>10, <1>11, <1>12, <1>13, <1>14 DEF Log!Clear

\* At first there is only the head.
LEMMA FirstGuides ==
  ASSUME Init
  PROVE  Guided /\ Log!Init
<1>1. PICK v \in Values : node = [n \in Events |-> IF n = 1 THEN NewEvent(v, 0, Null, 0) ELSE Unused]
  BY DEF Init
<1>2. size = 1 /\ head = 1 /\ tail = 1 /\ at = [e \in Endpoints |-> Null]
  BY DEF Init
<1>3. ChannelInv /\ 1 \in Events /\ node[1].displacement = 0 /\ node[1].value = v /\ node[1].publisher = 0
  BY <1>1, ChannelInit, ChannelAssumption DEF NewEvent, Events
<1>4. 1 \in Line /\ EventAt[0] = 1
  BY <1>2, <1>3, OffFacts, LineFacts DEF ChannelInv
<1>5. Off = {}
  <2>1. \A m \in 1 .. 1 : m = 1
    OBVIOUS
  <2> QED BY <1>2, <1>4, <2>1 DEF Off
<1>6. Guided
  <2>1. PICK g : g = [m \in {} |-> 1]
    OBVIOUS
  <2>2. g \in [{} -> 1 .. size] /\ g \in [{} -> Line] /\ g \in [{} -> Heard]
    BY <2>1
  <2>3. Guides(g, g, g)
    BY <1>5, <2>2 DEF Guides
  <2> QED BY <2>3 DEF Guided
<1>7. \A e \in Endpoints : ~Exists(e)
  BY <1>2 DEF Exists
<1>8. Entries = << [value |-> v, by |-> 0] >>
  <2>1. Entries = [i \in 1 .. 0 + 1 |-> [value |-> node[EventAt[i - 1]].value,
                                         by |-> node[EventAt[i - 1]].publisher]]
    BY <1>2, <1>3 DEF Entries
  <2>2. \A i \in 1 .. 0 + 1 : i = 1 /\ i - 1 = 0
    OBVIOUS
  <2>3. 1 \in 1 .. 0 + 1
    OBVIOUS
  <2>4. Entries[1] = [value |-> v, by |-> 0]
    BY <1>3, <1>4, <2>1, <2>2, <2>3
  <2>5. Entries = [i \in 1 .. 1 |-> [value |-> v, by |-> 0]]
    BY <2>1, <2>2, <2>4
  <2> QED BY <2>5
<1>9. Places = [e \in Endpoints |-> 1] /\ Detours = [e \in Endpoints |-> << >>]
      /\ Hearing = [e \in Endpoints |-> 0] /\ Opened = {}
  BY <1>7 DEF Places, Detours, Hearing, Opened
<1> QED BY <1>6, <1>8, <1>9 DEF Log!Init

\* Every operation keeps the way back.
LEMMA GuidedStep ==
  ASSUME ChannelInv, ChannelInv', Guided, [Next]_vars
  PROVE  Guided'
<1>1. PICK K, L, T : Guides(K, L, T)
  BY DEF Guided
<1>2. CASE UNCHANGED <<size, node, head, tail>>
  BY <1>1, <1>2, MoveGuides DEF Guided
<1>3. ASSUME NEW e \in Endpoints, NEW v \in Values, AppendValue(e, v) PROVE Guided'
  BY <1>1, <1>3, AppendGuides DEF Guided
<1>4. ASSUME NEW e \in Endpoints, UnwriteValue(e) PROVE Guided'
  <2>1. PICK t : t = node[at[e]].displacement
    OBVIOUS
  <2>2. PICK k \in 0 .. t : k \in 0 .. node[tail].displacement /\ CutAt(k)
    BY <1>4, <2>1, UnwriteFacts
  <2>3. PICK K2 : K2 = CutGuide(K, k)
    OBVIOUS
  <2>4. PICK L2 : L2 = CutGuide(L, k)
    OBVIOUS
  <2>5. PICK T2 : T2 = CutHeard(L, T, k)
    OBVIOUS
  <2>6. Guides(K2, L2, T2)'
    BY <1>1, <2>2, <2>3, <2>4, <2>5, CutGuides
  <2> QED BY <2>6 DEF Guided
<1>5. ASSUME NEW v \in Values, ClearChannel(v) PROVE Guided'
  <2>1. PICK K2 : K2 = ClearGuide(K)
    OBVIOUS
  <2>2. PICK L2 : L2 = [m \in 1 .. size |-> size + 1]
    OBVIOUS
  <2>3. PICK T2 : T2 = ClearHeard(L, T, v)
    OBVIOUS
  <2>4. Guides(K2, L2, T2)'
    BY <1>1, <1>5, <2>1, <2>2, <2>3, ClearGuides
  <2> QED BY <2>4 DEF Guided
<1>6. ASSUME NEW e \in Endpoints,
             \/ NewEndpoint(e) \/ NextValue(e) \/ UnreadValue(e) \/ SetToHead(e) \/ SetToTail(e)
             \/ \E f \in Endpoints : CloneEndpoint(e, f)
      PROVE  UNCHANGED <<size, node, head, tail>>
  BY <1>6 DEF NewEndpoint, NextValue, UnreadValue, SetToHead, SetToTail, CloneEndpoint
<1>7. UNCHANGED vars => UNCHANGED <<size, node, head, tail>>
  BY DEF vars
<1> QED BY <1>2, <1>3, <1>4, <1>5, <1>6, <1>7 DEF Next

\* Every operation is one of the log.
LEMMA LogStep ==
  ASSUME ChannelInv, ChannelInv', Guided, [Next]_vars
  PROVE  Log!Next \/ UNCHANGED <<Entries, Places, Detours, Hearing, Opened>>
<1>1. PICK K, L, T : Guides(K, L, T)
  BY DEF Guided
<1>2. ASSUME NEW e \in Endpoints, NewEndpoint(e) \/ \E f \in Endpoints : CloneEndpoint(e, f)
      PROVE  Log!Open(e)
  BY <1>1, <1>2, OpenStep
<1>3. ASSUME NEW e \in Endpoints, NextValue(e) \/ UnreadValue(e) PROVE Log!Read(e) \/ Log!Unread(e)
  BY <1>1, <1>3, HearStep
<1>4. ASSUME NEW e \in Endpoints, SetToHead(e) \/ SetToTail(e) PROVE Log!Seek(e)
  BY <1>1, <1>4, SeekStep
<1>5. ASSUME NEW e \in Endpoints, UnwriteValue(e) PROVE \E i \in DOMAIN Entries : Log!Unwrite(e, i)
  BY <1>1, <1>5, TakeBackStep
<1>6. ASSUME NEW e \in Endpoints, NEW v \in Values, AppendValue(e, v) PROVE Log!Publish(e, v)
  BY <1>1, <1>6, PublishStep
<1>7. ASSUME NEW v \in Values, ClearChannel(v) PROVE Log!Clear(v)
  BY <1>1, <1>7, StartOverStep
<1>8. CASE UNCHANGED vars
  <2>1. UNCHANGED <<size, node, head, tail>> /\ at' = at
    BY <1>8 DEF vars
  <2>2. Landing' = Landing /\ Detour' = Detour /\ Entries' = Entries
    BY <1>1, <2>1, WalksStay
  <2> QED BY <2>1, <2>2 DEF Places, Detours, Hearing, Opened, Exists
<1>9. CASE Next
  BY <1>2, <1>3, <1>4, <1>5, <1>6, <1>7, <1>9 DEF Next, Log!Next
<1> QED BY <1>8, <1>9

-----------------------------------------------------------------------------
(* The theorems.                                                           *)

\* The graph of events keeps its shape: pointers lead to allocated events, and the links
\* of events that were taken back lead on.
THEOREM ChannelInvariant == Spec => []ChannelInv
<1>1. Init => ChannelInv
  BY ChannelInit
<1>2. ChannelInv /\ [Next]_vars => ChannelInv'
  BY OperationStep, ChannelStutter
<1> QED BY <1>1, <1>2, PTL DEF Spec

\* After any appends, reverts and clears, of however many events and endpoints, the line
\* in force is a list from the head to the tail: event_at() never walks off it.
THEOREM LineStaysIntact == Spec => []LineIntact
<1>1. ChannelInv => LineIntact
  BY DEF ChannelInv
<1> QED BY <1>1, ChannelInvariant, PTL

\* next_value(), unread() and every other move end, and the endpoint that moved is on an
\* event that was not taken back, however many reverts its walk had to go around.
THEOREM MovesLandOnEvents == Spec => [][Lands]_vars
<1>1. ChannelInv /\ [Next]_vars => [Lands]_vars
  BY OperationStep
<1> QED BY <1>1, ChannelInvariant, PTL DEF Spec

\* The channel implements the abstract log, for every set of endpoints, every set of values
\* and every number of events: whatever is published, read, taken back and cleared, in
\* any order and by any endpoint, readers hear what the log says they do.
THEOREM ChannelImplementsLog == Spec => ImplementsBroadcast
<1>1. Init => ChannelInv /\ Guided /\ Log!Init
  BY ChannelInit, FirstGuides
<1>2. ChannelInv /\ ChannelInv' /\ Guided /\ [Next]_vars => Guided'
  BY GuidedStep
<1>3. ChannelInv /\ ChannelInv' /\ Guided /\ [Next]_vars
        => [Log!Next]_<<Entries, Places, Detours, Hearing, Opened>>
  BY LogStep
<1> QED BY <1>1, <1>2, <1>3, ChannelInvariant, PTL DEF Spec, ImplementsBroadcast, Log!Spec, Log!vars
=============================================================================
