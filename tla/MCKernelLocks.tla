---------------------------- MODULE MCKernelLocks ----------------------------
(* Model-checking instance of KernelLocks. *)
EXTENDS KernelLocks, TLC

Symmetry == Permutations(Threads)
=============================================================================
