---------------------------- MODULE BroadcastLog ----------------------------
(***************************************************************************)
(* What a broadcast channel promises its endpoints: one log of published   *)
(* values that everybody reads at a pace of their own and that a publisher *)
(* can take back.  An endpoint has a place in the log, and values it still *)
(* has to hear before it is there: after a revert the value reverted to,   *)
(* after a clear the default values in use since.                          *)
(***************************************************************************)
EXTENDS Integers, Sequences

CONSTANTS Endpoints, Values

VARIABLES
  log,     \* [value, by]: the entries, the default value first
  place,   \* per endpoint: an index of the log
  detour,  \* per endpoint: what it hears before it is at its place
  heard,   \* per endpoint: the last value it was given
  open     \* endpoints that exist

vars == <<log, place, detour, heard, open>>

Init ==
  \E v \in Values :
    /\ log = << [value |-> v, by |-> 0] >>
    /\ place = [e \in Endpoints |-> 1]
    /\ detour = [e \in Endpoints |-> << >>]
    /\ heard = [e \in Endpoints |-> 0]
    /\ open = {}

\* e stands at index i of log l.
Stand(e, i, l) ==
  /\ place' = [place EXCEPT ![e] = i]
  /\ detour' = [detour EXCEPT ![e] = << >>]
  /\ heard' = [heard EXCEPT ![e] = l[i].value]

OnLog(e) == e \in open /\ detour[e] = << >>

\* A new endpoint starts at the end, a clone at the place of another; where that
\* is for one on a detour is not promised.
Open(e) ==
  /\ e \notin open /\ open' = open \cup {e}
  /\ \E i \in DOMAIN log :
       /\ i = Len(log) \/ \E f \in open : OnLog(f) => i = place[f]
       /\ Stand(e, i, log)
  /\ UNCHANGED log

Publish(e, v) ==
  /\ e \in open
  /\ log' = Append(log, [value |-> v, by |-> e])
  /\ Stand(e, Len(log) + 1, log')
  /\ UNCHANGED open

\* A reader on a detour follows it in either direction; any other goes to the
\* neighbour, if there is one.
Hear(e, neighbour) ==
  /\ e \in open
  /\ \/ /\ detour[e] # << >>
        /\ heard' = [heard EXCEPT ![e] = Head(detour[e])]
        /\ detour' = [detour EXCEPT ![e] = Tail(detour[e])]
        /\ UNCHANGED place
     \/ /\ detour[e] = << >> /\ neighbour \in DOMAIN log
        /\ Stand(e, neighbour, log)
  /\ UNCHANGED <<log, open>>

Read(e) == Hear(e, place[e] + 1)
Unread(e) == Hear(e, place[e] - 1)

Seek(e) ==
  /\ e \in open
  /\ \E i \in {1, Len(log)} : Stand(e, i, log)
  /\ UNCHANGED <<log, open>>

\* e takes back its last entry up to index i, where it stands, and all that follow;
\* without one, everything.  Whoever was further on hears the last entry again.
Unwrite(e, i) ==
  LET own == {k \in 2 .. i : log[k].by = e}
      n == IF own = {} THEN 1 ELSE (CHOOSE k \in own : \A j \in own : j <= k) - 1
  IN /\ e \in open /\ i \in DOMAIN log
     /\ OnLog(e) => i = place[e]
     /\ log' = SubSeq(log, 1, n)
     /\ place' = [f \in Endpoints |-> IF f = e \/ place[f] > n THEN n ELSE place[f]]
     /\ detour' = [f \in Endpoints |-> IF f = e THEN << >>
                                       ELSE IF place[f] > n THEN <<log[n].value>>
                                       ELSE detour[f]]
     /\ heard' = [heard EXCEPT ![e] = log[n].value]
     /\ UNCHANGED open

\* Everything is taken back, and a new default value follows the old one.
Clear(v) ==
  /\ log' = << [value |-> v, by |-> 0] >>
  /\ place' = [e \in Endpoints |-> 1]
  /\ detour' = [e \in Endpoints |-> IF e \notin open THEN << >>
                                    ELSE IF place[e] > 1 THEN <<log[1].value, v>>
                                    ELSE Append(detour[e], v)]
  /\ UNCHANGED <<heard, open>>

Next ==
  \/ \E e \in Endpoints :
       \/ Open(e) \/ Read(e) \/ Unread(e) \/ Seek(e)
       \/ \E v \in Values : Publish(e, v)
       \/ \E i \in DOMAIN log : Unwrite(e, i)
  \/ \E v \in Values : Clear(v)

Spec == Init /\ [][Next]_vars
=============================================================================
