---------------------------- MODULE MCSuspension ----------------------------
(* Model-checking instances of Suspension. *)
EXTENDS Suspension

\* The root has one page, process 1 two, process 2 one.
MCSize == [p \in Pids |-> IF p = 1 THEN 2 ELSE 1]
=============================================================================
