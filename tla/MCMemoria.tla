----------------------------- MODULE MCMemoria -----------------------------
(* Model-checking instances of MemoriaFrames. *)
EXTENDS MemoriaFrames, TLC

Symmetry == Permutations(Pids)
=============================================================================
