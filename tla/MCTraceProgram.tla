--------------------------- MODULE MCTraceProgram ---------------------------
(***************************************************************************)
(* TraceProgram for TLC, with a hash under which bodies of the same length *)
(* collide.                                                                *)
(***************************************************************************)
EXTENDS TraceProgram

MCHash(body) == Len(body)

Symmetry == Permutations(Initiators) \cup Permutations(Buffers)
=============================================================================
