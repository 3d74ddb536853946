---------------------------- MODULE MCBufferPool ----------------------------
(***************************************************************************)
(* BufferPool for TLC.                                                     *)
(***************************************************************************)
EXTENDS BufferPool, TLC

Symmetry == Permutations(Chains)
=============================================================================
