---------------------------- MODULE MCCudaStream ----------------------------
(* Small instances of CudaStream for TLC.                                    *)
EXTENDS CudaStream, TLC

Symmetry == Permutations(Threads) \cup Permutations(Addresses)
=============================================================================
