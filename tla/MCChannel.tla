----------------------------- MODULE MCChannel ------------------------------
(***************************************************************************)
(* The channel implements the abstract log: the log is the line in force,  *)
(* and an endpoint on an event that was taken back is on the detour its    *)
(* links lead along.                                                       *)
(***************************************************************************)
EXTENDS Channel

\* The event of the line in force that an endpoint comes to by reading on from m.
Landing[m \in 1 .. size] == IF m \in Line THEN m ELSE Landing[NextEvent(m)]

\* The values heard on the way there.
Detour[m \in 1 .. size] ==
  IF m \in Line THEN << >> ELSE <<node[NextEvent(m)].value>> \o Detour[NextEvent(m)]

\* The state of the abstract log.
Entries == [i \in 1 .. node[tail].displacement + 1 |->
              [value |-> node[EventAt[i - 1]].value, by |-> node[EventAt[i - 1]].publisher]]
Places == [e \in Endpoints |-> IF Exists(e) THEN node[Landing[at[e]]].displacement + 1 ELSE 1]
Detours == [e \in Endpoints |-> IF Exists(e) THEN Detour[at[e]] ELSE << >>]
Hearing == [e \in Endpoints |-> IF Exists(e) THEN node[at[e]].value ELSE 0]
Opened == {e \in Endpoints : Exists(e)}

Log == INSTANCE BroadcastLog WITH
         log <- Entries, place <- Places, detour <- Detours, heard <- Hearing, open <- Opened

\* Whatever is published, read, taken back and cleared, in any order and by any
\* endpoint, readers hear what the abstract log says they do.
ImplementsBroadcast == Log!Spec
=============================================================================
