--------------------------- MODULE MCTraceReplay ----------------------------
(***************************************************************************)
(* TraceReplay for TLC: a machine of 3-bit words, so that PC wraps around. *)
(***************************************************************************)
EXTENDS TraceReplay, Bitwise

MCXor(a, b) == a ^^ b
=============================================================================
