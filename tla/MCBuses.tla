------------------------------ MODULE MCBuses ------------------------------
(***************************************************************************)
(* The address map of one bus with targets of a few bytes, and the paths   *)
(* of accesses through two buses.  They share no state, so that one moves  *)
(* while the other is as it was at the start.                              *)
(***************************************************************************)
EXTENDS MemoryBus, DataPaths

MCSize == <<1, 2, 3>>

MCTargets == [sim3 |-> {1, 2, 3}, core |-> {1, 3}]

MCMaxLength == [sim3 |-> 3, core |-> 2]

\* Bound: targets are attached to a blank bus, and what is stored is blanked before the
\* next step.  The map does not depend on the contents, nor they on the accesses before.
Blank == \A c \in Cells : mem[c] = 0

MCInit == Init /\ Blank /\ PathsInit

MCNext ==
    \/ PathsInit /\ Next /\ (Blank \/ Blank') /\ UNCHANGED pathsVars
    \/ Init /\ Blank /\ PathsNext /\ UNCHANGED vars

MCSpec == MCInit /\ [][MCNext]_<<vars, pathsVars>>
=============================================================================
