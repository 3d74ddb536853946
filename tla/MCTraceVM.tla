------------------------------ MODULE MCTraceVM ------------------------------
(***************************************************************************)
(* The ring of the trace and the machine that replays its programs.  The   *)
(* machine reads entries that are final and the ring knows nothing of it:  *)
(* they share no state, so that one moves while the other is as it was at  *)
(* the start.                                                              *)
(***************************************************************************)
EXTENDS MCTraceBuffer, TraceMachine

MCInit == Init /\ MachineInit

MCNext ==
    \/ MachineInit /\ Next /\ UNCHANGED machineVars
    \/ Init /\ MachineNext /\ UNCHANGED vars

MCSpec == MCInit /\ [][MCNext]_<<vars, machineVars>>
=============================================================================
