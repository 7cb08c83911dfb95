---------------------------- MODULE MCDispatcher ----------------------------
(* Model-checking instances of Dispatcher. *)
EXTENDS Dispatcher

\* Every process but the root, and every CPU, is interchangeable.
Symmetry == Permutations(Pids \ {Root}) \cup Permutations(Cpus)
=============================================================================
