--------------------------- MODULE MCMetalContext ---------------------------
(* Small instances of MetalContext for TLC.                                  *)
EXTENDS MetalContext, TLC

Symmetry == Permutations(Threads) \cup Permutations(Buffers)
=============================================================================
