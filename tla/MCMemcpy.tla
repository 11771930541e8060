------------------------------- MODULE MCMemcpy -------------------------------
(***************************************************************************)
(* Instance of Memcpy: every pair of areas in a memory of distinct bytes.  *)
(***************************************************************************)
EXTENDS Memcpy

MCAddr == 0 .. 30
\* All alignments of both pointers modulo a word of two bytes, and all lengths
\* from 0 to two rounds of the unrolled loop with a word left.
MCCalls ==
  {c \in [dest : MCAddr, src : {0, 1}, len : 0 .. 14] : c.dest \in {15, 16}}
DistinctBytes == {[a \in MCAddr |-> a]}
=============================================================================
