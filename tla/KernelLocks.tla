----------------------------- MODULE KernelLocks -----------------------------
(***************************************************************************)
(* The sections of LockDiscipline for the kernel: in which order each      *)
(* handler and scheduler waits for the semaphores of the lists and tables, *)
(* on every path through it, and what it posts at the end.                 *)
(*                                                                         *)
(* Conversations with memoria and with devices while semaphores are held   *)
(* take time and end: neither needs a semaphore of the kernel to answer.   *)
(* The answer of a CPU to an interrupt may need one, through the system    *)
(* call the CPU waits for, and is a step of its own.  The semaphore of a   *)
(* CPU is only taken inside that of the CPU table, and the semaphore of a  *)
(* device queue only inside that of the queue table, so one of each stands *)
(* for all.                                                                *)
(***************************************************************************)
EXTENDS LockDiscipline

KernelSemaphores ==
    {"io_connections", "io_requests", "io_queue", "cpu_connections", "ready", "cpu",
     "new", "exec", "blocked", "susp_blocked", "susp_ready", "exit"}

\* The order in which they are taken, from the highest to the lowest.
Order ==
    <<"io_connections", "io_requests", "io_queue", "cpu_connections", "ready", "cpu",
      "new", "exec", "blocked", "susp_blocked", "susp_ready", "exit">>
KernelHeight == [s \in KernelSemaphores |-> Len(Order) - (CHOOSE i \in DOMAIN Order : Order[i] = s)]

\* The algorithm of READY is preemptive or not.
KernelModes == {"plain", "preemptive"}

\* run_short_scheduler may post sem_exec without having taken it again.
KernelGuarding ==
    [m \in KernelModes |->
        IF m = "preemptive" THEN KernelSemaphores \ {"exec"} ELSE KernelSemaphores]

Lock(names) == [i \in 1..Len(names) |-> [op |-> "wait", sems |-> {names[i]}]]
Unlock(names) == <<[op |-> "post", sems |-> names]>>
Answer == <<[op |-> "await", sems |-> {}]>>

\* The semaphores are taken in turn, then all of them are posted.
All(names) == Lock(names) \o Unlock({names[i] : i \in 1..Len(names)})

\* The first ones are held while the rest goes on.
Within(names, inner) ==
    {Lock(names) \o p \o Unlock({names[i] : i \in 1..Len(names)}) : p \in inner}

Nothing == {<<>>}
Then(P, Q) == {p \o q : p \in P, q \in Q}

-----------------------------------------------------------------------------
(* The schedulers *)

\* Nothing to do; a busy CPU that is not to be preempted; a free CPU.
short_plain ==
    {All(<<"cpu_connections", "ready">>),
     All(<<"cpu_connections", "ready", "cpu">>),
     All(<<"cpu_connections", "ready", "cpu", "exec">>)}

\* sem_exec is posted before the answer of the CPU is awaited; it is taken again
\* only if the answer is for the interrupted process, and posted at the end.
short_preempts ==
    LET begin == Lock(<<"cpu_connections", "ready", "cpu", "exec">>) \o Unlock({"exec"})
            \o Answer
        end == Unlock({"cpu_connections", "ready", "cpu", "exec"})
    IN  {begin \o Lock(<<"exec">>) \o end, begin \o end}

run_short_scheduler(m) ==
    IF m = "preemptive" THEN short_plain \cup short_preempts ELSE short_plain

\* Wrong on purpose: the process enters READY before SUSP_READY is unlocked.
ResumeInside == {All(<<"susp_ready", "ready">>)}

\* A process of SUSP_READY is resumed, then enters READY.
Resume == {All(<<"susp_ready">>) \o All(<<"ready">>)}

\* Both loops of a run; each further process the first loop resumes takes the
\* same semaphores again.
run_long_scheduler == Then(Resume, {All(<<"susp_ready">>) \o All(<<"ready", "new">>)})

\* Wrong on purpose: the early returns keep BLOCKED.
medium_keeps_blocked ==
    {Lock(<<"blocked">>), All(<<"blocked", "susp_blocked">>)}

\* Before SWAP: the process is not in BLOCKED or not long enough, or it moves;
\* after a refusal it moves back.
run_medium_scheduler == {All(<<"blocked">>), All(<<"blocked", "susp_blocked">>)}

-----------------------------------------------------------------------------
(* System calls *)

exit_routine == {All(<<"exit">>)}

\* The device has no connection: the process exits with the device table locked.
handle_io_connection_not_found == Within(<<"exec">>, exit_routine)

handle_io_process_syscall ==
    Within(<<"io_connections">>,
        handle_io_connection_not_found \cup
        {All(<<"io_requests">>), All(<<"io_requests", "io_queue", "exec", "blocked">>)})

handle_init_proc_syscall == {All(<<"new", "exec">>)}

exit_process_syscall == Within(<<"exec">>, exit_routine)

\* The call, and the answer of memoria: the process is ready or exits.
dump_memory_syscall ==
    {All(<<"exec", "blocked">>), All(<<"ready", "blocked">>)}
        \cup Within(<<"ready", "blocked">>, exit_routine)

initialize_root_process == {All(<<"new">>)}

-----------------------------------------------------------------------------
(* Devices *)

process_new_device == {All(<<"io_connections", "io_requests">>)}

\* No connection, no queue, a free connection, or one to be tested in the lists.
process_pending_io ==
    Within(<<"io_connections">>,
        Nothing \cup {All(<<"io_requests">>)} \cup
        Within(<<"io_requests", "io_queue">>, Nothing \cup {All(<<"blocked", "susp_blocked">>)}))

\* Wrong on purpose: the lists are locked before the device table.
io_completion_lists_first ==
    {All(<<"io_connections">>),
     All(<<"ready", "blocked", "susp_blocked", "susp_ready", "io_connections">>)}

io_completion ==
    {All(<<"io_connections">>),
     All(<<"io_connections", "ready", "blocked", "susp_blocked", "susp_ready">>)}

\* The process that used the device exits from BLOCKED, or from SUSP_BLOCKED, or
\* is in neither; in the second case the schedulers run with the device table
\* locked, the short-term one only if a process was admitted.
handle_found_process(m) ==
    Within(<<"blocked">>, exit_routine)
        \cup {All(<<"blocked">>) \o All(<<"susp_blocked">>)}
        \cup Then({All(<<"blocked">>)},
                  Then(Within(<<"susp_blocked">>, exit_routine),
                       Then(run_long_scheduler, Nothing \cup run_short_scheduler(m))))

\* Wrong on purpose: the error path posts the device table once more.
io_disconnected_posts_twice(m) ==
    Within(<<"io_connections">>, handle_found_process(m) \cup {Unlock({"io_connections"})})

io_disconnected(m) ==
    Within(<<"io_connections">>, Nothing \cup handle_found_process(m))

-----------------------------------------------------------------------------
\* Every section of the kernel.
KernelSections ==
    [m \in KernelModes |->
        run_short_scheduler(m) \cup run_medium_scheduler \cup run_long_scheduler
        \cup handle_io_process_syscall \cup handle_init_proc_syscall
        \cup exit_process_syscall \cup dump_memory_syscall \cup initialize_root_process
        \cup process_new_device \cup process_pending_io \cup io_completion
        \cup io_disconnected(m)]
=============================================================================
