---------------------------- MODULE MCTraceBuffer ----------------------------
(***************************************************************************)
(* TraceBuffer for TLC: initiators and programs are interchangeable.       *)
(***************************************************************************)
EXTENDS TraceBuffer, TLC

Symmetry == Permutations(Initiators) \cup Permutations(Programs)
=============================================================================
