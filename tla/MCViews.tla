------------------------------ MODULE MCViews ------------------------------
(***************************************************************************)
(* The two views of a project: the breakpoints in its margins and table,   *)
(* and its memory pane.  They share no state, so that one moves while the  *)
(* other is as it was at the start.                                        *)
(***************************************************************************)
EXTENDS Breakpoints, MemoryPane

MCProjects ==
    {[level |-> "ISA", PCs |-> {0, 4}, SPs |-> {1, 4}, data |-> 1 .. 4, image |-> {},
      writes |-> 1],
     [level |-> "ASMB", PCs |-> {0}, SPs |-> {5}, data |-> 0 .. 2, image |-> {0, 4},
      writes |-> 3]}

BreakpointsMove == PaneInit /\ project.level = "ISA"

PaneMoves == Init /\ lines = 1

MCInit == Init /\ PaneInit /\ (BreakpointsMove \/ PaneMoves)

MCNext ==
    \/ BreakpointsMove /\ Next /\ UNCHANGED paneVars
    \/ PaneMoves /\ PaneNext /\ UNCHANGED vars

MCSpec == MCInit /\ [][MCNext]_<<vars, paneVars>>
=============================================================================
