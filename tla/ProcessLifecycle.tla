-------------------------- MODULE ProcessLifecycle --------------------------
(***************************************************************************)
(* What the kernel promises of a process, whatever its schedulers, system  *)
(* call handlers and device threads do between them: it is in one state at *)
(* a time, it moves along the arrows of the seven-state diagram and along  *)
(* no other, no more processes execute than there are CPUs, and the end is *)
(* the end.                                                                *)
(*                                                                         *)
(* The state is current_state of the PCB; every arrow is a removal from    *)
(* one list and an addition to another, which calls pcb_change_state.      *)
(* "none" is a pid that new_pid has not reached.                           *)
(***************************************************************************)
EXTENDS Integers, FiniteSets

CONSTANTS
    Pids, Root,
    Capacity       \* number of CPUs

VARIABLE state     \* PROCESS_STATE of each process

States == {"none", "NEW", "READY", "EXEC", "BLOCKED", "SUSP_BLOCKED", "SUSP_READY", "EXIT"}

In(s) == { p \in Pids : state[p] = s }

\* pcb_change_state for a process that is in `from`.
Move(p, from, to) ==
    /\ state[p] = from
    /\ state' = [state EXCEPT ![p] = to]

\* INIT_PROC.
Create(p) == Move(p, "none", "NEW")

\* One run of the long-term scheduler may admit several processes.
Admit(S) ==
    /\ S \subseteq In("NEW")
    /\ state' = [p \in Pids |-> IF p \in S THEN "READY" ELSE state[p]]

\* The short-term scheduler, with a CPU to spare.
Dispatch(p) == Cardinality(In("EXEC")) < Capacity /\ Move(p, "READY", "EXEC")

\* The short-term scheduler, with a preemption.
Switch(p, q) ==
    /\ state[p] = "EXEC" /\ state[q] = "READY"
    /\ state' = [state EXCEPT ![p] = "READY", ![q] = "EXEC"]

\* IO and DUMP_MEMORY, and their ends.
Block(p) == Move(p, "EXEC", "BLOCKED")
Unblock(p) == Move(p, "BLOCKED", "READY")

\* The medium-term scheduler; memoria may refuse.
Suspend(p) == Move(p, "BLOCKED", "SUSP_BLOCKED")
Unsuspend(p) == Move(p, "SUSP_BLOCKED", "BLOCKED")

\* The end of the IO of a suspended process, and its return to memory.
Wake(p) == Move(p, "SUSP_BLOCKED", "SUSP_READY")
Resume(p) == Move(p, "SUSP_READY", "READY")

\* EXIT, a failed dump, a device that is missing or lost.
Finish(p) == \E s \in {"EXEC", "BLOCKED", "SUSP_BLOCKED"} : Move(p, s, "EXIT")

Init ==
    \E s \in {"NEW", "READY"} : state = [p \in Pids |-> IF p = Root THEN s ELSE "none"]

Next ==
    \/ \E S \in SUBSET Pids : Admit(S)
    \/ \E p, q \in Pids : Switch(p, q)
    \/ \E p \in Pids :
          \/ Create(p) \/ Dispatch(p) \/ Block(p) \/ Unblock(p)
          \/ Suspend(p) \/ Unsuspend(p) \/ Wake(p) \/ Resume(p) \/ Finish(p)

Spec == Init /\ [][Next]_state
=============================================================================
