----------------------------- MODULE Dispatcher -----------------------------
(***************************************************************************)
(* The short-term scheduler of the kernel, the dispatch handler thread it  *)
(* keeps per CPU, and the CPUs: dispatch, interruption, system calls.      *)
(*                                                                         *)
(* Every sem_t the kernel uses as a lock is held for one action, except    *)
(* the locks of the CPU table and of READY, which run_short_scheduler      *)
(* holds from its first line to its last: they are free iff sched.pc is    *)
(* "idle".  cpu_mutex of a CPU is held by its main loop from recv_dispatch *)
(* to the end of the burst.                                                *)
(*                                                                         *)
(* What is abstracted: a program is a nondeterministic choice of the next  *)
(* instruction; the burst estimates, hence the order of READY under SJF    *)
(* and the preemption test, are nondeterministic; BLOCKED stands for the   *)
(* blocked and the suspended states; memory decides how many processes the *)
(* long-term scheduler admits.                                             *)
(***************************************************************************)
EXTENDS Integers, Sequences, FiniteSets, SequencesExt

CONSTANTS
    Pids, Root,      \* processes; Root is pid 0
    Cpus,
    Preemption,      \* PREEMPTION of kernel.config (SRT)
    Algorithm,       \* "FIFO" or "SJF"
    Instructions,    \* system calls the programs contain
    DumpMayFail,     \* memoria may answer a dump with false
    MaxThreads,      \* bound on detached scheduler threads alive at once
    MaxPackages,     \* bound on the packages a dispatch socket holds per direction
    NoPid, NoCpu

ASSUME DispatcherAssumption ==
    /\ Root \in Pids /\ NoPid \notin Pids /\ NoCpu \notin Cpus /\ IsFiniteSet(Cpus)
    /\ Preemption \in BOOLEAN /\ DumpMayFail \in BOOLEAN
    /\ Algorithm \in {"FIFO", "SJF"}
    /\ Instructions \subseteq {"INIT_PROC", "IO", "DUMP_MEMORY", "EXIT"}
    /\ MaxThreads \in Nat \ {0} /\ MaxPackages \in Nat \ {0}

VARIABLES
    new, exec, blocked, exited,  \* process lists, as sets of pids
    ready,                       \* ready_list, in order
    current,                     \* current_process_executing of each CPU connection
    exec_sem,                    \* value of sem_exec between actions; 2 means 2 or more
    short_threads,               \* threads about to call run_short_scheduler
    long_threads,                \* threads about to call run_long_scheduler, then the short one
    sched,                       \* the thread inside run_short_scheduler
    handler,                     \* handle_dispatch_client of each CPU
    to_cpu, to_kernel,           \* the two directions of each dispatch socket
    interrupt,                   \* INTERRUPT in flight to each CPU
    context,                     \* CPU_CONTEXT in flight: interrupted_same_pid 0 is "same"
    cpu_pc, cpu_pid,             \* main loop of each CPU and its global pid
    preempt,                     \* should_preempt of the instruction just executed
    cpu_mutex,                   \* value of the CPU's semaphore; 2 means 2 or more
    listener,                    \* interrupt_listener: "recv", or "lock" at lock_cpu_mutex
    interrupt_list,              \* the CPU's list, never longer than 1
    crashed                      \* the kernel dereferenced a NULL pcb

lists == <<new, exec, blocked, exited, ready>>
threads == <<short_threads, long_threads>>
wires == <<to_cpu, to_kernel, interrupt, context>>
cpus == <<cpu_pc, cpu_pid, preempt, cpu_mutex, listener, interrupt_list>>
vars == <<lists, current, exec_sem, threads, sched, handler, wires, cpus, crashed>>

Idle == [pc |-> "idle", cpu |-> NoCpu, pid |-> NoPid, by |-> NoCpu]
Dispatch(p) == [op |-> "DISPATCH", pid |-> p]
Confirmation == [op |-> "CONFIRMATION", pid |-> NoPid]
Syscall(t, p) == [op |-> t, pid |-> p]

\* Pids that new_pid has not reached yet.
Unborn == Pids \ (new \cup exec \cup blocked \cup exited \cup Range(ready))

-----------------------------------------------------------------------------
(* run_short_scheduler *)

\* Wrong on purpose: the EXEC lookup is negated.
Free_inverted(c) == current[c] = NoPid \/ current[c] \in exec

\* A CPU whose process left EXEC counts as free; EXEC is read without its lock.
Free(c) == current[c] = NoPid \/ current[c] \notin exec

\* The CPU to use when none is free: the first one, or under SJF the one that
\* runs the longest process, NoCpu if no connection names that process.
BusyCandidates ==
    IF Algorithm = "FIFO" THEN Cpus
    ELSE { IF \E c \in Cpus : current[c] = p
           THEN CHOOSE c \in Cpus : current[c] = p
           ELSE NoCpu : p \in exec }

\* Wrong on purpose: the process that arrived last goes first.
ReadyCandidates_newest == IF ready # <<>> THEN {Last(ready)} ELSE {}

\* Head of READY, which SJF has sorted first.
ReadyCandidates ==
    IF Algorithm = "FIFO" /\ ready # <<>> THEN {Head(ready)} ELSE Range(ready)

\* The caller leaves run_short_scheduler: a handler goes back to recv_package.
Return ==
    /\ sched' = Idle
    /\ handler' = IF sched.by = NoCpu THEN handler
                  ELSE [handler EXCEPT ![sched.by].pc = "recv"]

\* get_short_scheduler_context for a detached thread or for the handler of `by`.
Choose(by) ==
    LET free == { c \in Cpus : Free(c) } IN
    \E c \in IF free # {} THEN free ELSE BusyCandidates :
        /\ current' = IF c \in free THEN [current EXCEPT ![c] = NoPid] ELSE current
        /\ \/ /\ c = NoCpu \/ ready = <<>>
              /\ sched' = Idle
              /\ handler' = IF by = NoCpu THEN handler ELSE [handler EXCEPT ![by].pc = "recv"]
           \/ /\ c # NoCpu
              /\ \E p \in ReadyCandidates :
                    sched' = [pc |-> "chosen", cpu |-> c, pid |-> p, by |-> by]
              /\ UNCHANGED handler

ShortThread ==
    /\ sched.pc = "idle" /\ short_threads > 0
    /\ short_threads' = short_threads - 1
    /\ Choose(NoCpu)
    /\ UNCHANGED <<lists, exec_sem, long_threads, wires, cpus, crashed>>

\* dump_memory_syscall calls the scheduler in the handler's own thread.
ShortInHandler(c) ==
    /\ sched.pc = "idle" /\ handler[c].pc = "short"
    /\ Choose(c)
    /\ UNCHANGED <<lists, exec_sem, threads, wires, cpus, crashed>>

\* Wrong on purpose: current_process_executing is not set.
DispatchTo_no_current(c, p, base, rest) ==
    /\ Len(to_cpu[c]) < MaxPackages
    /\ ready' = RemoveFirst(base, p)
    /\ exec' = rest \cup {p}
    /\ to_cpu' = [to_cpu EXCEPT ![c] = Append(@, Dispatch(p))]
    /\ UNCHANGED current

\* READY -> EXEC and the DISPATCH package; `base` is READY with the preempted process.
DispatchTo(c, p, base, rest) ==
    /\ Len(to_cpu[c]) < MaxPackages
    /\ ready' = RemoveFirst(base, p)
    /\ exec' = rest \cup {p}
    /\ to_cpu' = [to_cpu EXCEPT ![c] = Append(@, Dispatch(p))]
    /\ current' = [current EXCEPT ![c] = p]

DispatchFree ==
    /\ sched.pc = "chosen" /\ current[sched.cpu] = NoPid
    /\ DispatchTo(sched.cpu, sched.pid, ready, exec)
    /\ Return
    /\ UNCHANGED <<new, blocked, exited, exec_sem, threads, to_kernel, interrupt, context,
                   cpus, crashed>>

\* The CPU is busy and either preemption is off or the test says no.
KeepRunning ==
    /\ sched.pc = "chosen" /\ current[sched.cpu] # NoPid
    /\ Preemption => current[sched.cpu] \in exec
    /\ Return
    /\ UNCHANGED <<lists, current, exec_sem, threads, wires, cpus, crashed>>

\* should_preempt_executing_process said yes: INTERRUPT, then wait without sem_exec.
SendInterrupt ==
    /\ sched.pc = "chosen" /\ current[sched.cpu] # NoPid /\ Preemption
    /\ interrupt' = [interrupt EXCEPT ![sched.cpu] = current[sched.cpu]]
    /\ sched' = [sched EXCEPT !.pc = "waiting"]
    /\ UNCHANGED <<lists, current, exec_sem, threads, handler, to_cpu, to_kernel, context,
                   cpus, crashed>>

\* Wrong on purpose: the preempted process is only searched, not removed.
AnswerSame_not_removed ==
    LET old == current[sched.cpu] IN
    /\ sched.pc = "waiting" /\ context[sched.cpu] = "same"
    /\ context' = [context EXCEPT ![sched.cpu] = "none"]
    /\ DispatchTo(sched.cpu, sched.pid,
                  IF old \in exec THEN Append(ready, old) ELSE ready, exec)
    /\ Return
    /\ UNCHANGED <<new, blocked, exited, exec_sem, threads, to_kernel, interrupt, cpus, crashed>>

\* interrupted_same_pid = 0: the process goes back to READY, unless a system
\* call took it out of EXEC meanwhile.
AnswerSame ==
    LET old == current[sched.cpu] IN
    /\ sched.pc = "waiting" /\ context[sched.cpu] = "same"
    /\ context' = [context EXCEPT ![sched.cpu] = "none"]
    /\ DispatchTo(sched.cpu, sched.pid,
                  IF old \in exec THEN Append(ready, old) ELSE ready, exec \ {old})
    /\ Return
    /\ UNCHANGED <<new, blocked, exited, exec_sem, threads, to_kernel, interrupt, cpus, crashed>>

\* interrupted_same_pid = 1: the CPU is taken for free.  sem_exec is posted at
\* the end without having been taken again.
AnswerOther ==
    /\ sched.pc = "waiting" /\ context[sched.cpu] = "other"
    /\ context' = [context EXCEPT ![sched.cpu] = "none"]
    /\ DispatchTo(sched.cpu, sched.pid, ready, exec)
    /\ exec_sem' = 2
    /\ Return
    /\ UNCHANGED <<new, blocked, exited, threads, to_kernel, interrupt, cpus, crashed>>

-----------------------------------------------------------------------------
(* run_long_scheduler, run to its end with the READY lock free. *)

\* Wrong on purpose: one scheduler thread per admitted process.
LongThread_per_process ==
    /\ long_threads > 0 /\ sched.pc = "idle"
    /\ \E S \in SUBSET new : \E s \in SetToSeqs(S) :
          /\ new' = new \ S
          /\ ready' = ready \o s
          /\ short_threads' = short_threads + Len(s)
    /\ long_threads' = long_threads - 1
    /\ UNCHANGED <<exec, blocked, exited, current, exec_sem, sched, handler, wires, cpus, crashed>>

\* Memory accepts some of the processes of NEW; the thread then goes for the
\* short-term scheduler.
LongThread ==
    /\ long_threads > 0 /\ sched.pc = "idle"
    /\ \E S \in SUBSET new : \E s \in SetToSeqs(S) :
          /\ new' = new \ S
          /\ ready' = ready \o s
    /\ long_threads' = long_threads - 1
    /\ short_threads' = short_threads + 1
    /\ UNCHANGED <<exec, blocked, exited, current, exec_sem, sched, handler, wires, cpus, crashed>>

-----------------------------------------------------------------------------
(* handle_cpu_syscall, in the handler thread of CPU c. *)

\* The next package of CPU c is system call t of process p.
Received(c, t, p) ==
    /\ handler[c].pc = "recv" /\ to_kernel[c] # <<>>
    /\ Head(to_kernel[c]) = Syscall(t, p)
    /\ short_threads + long_threads < MaxThreads
    /\ to_kernel' = [to_kernel EXCEPT ![c] = Tail(@)]

\* exit_routine(pcb): a pcb that was not in EXEC is a NULL dereference.
ExitFromExec(p) ==
    \/ /\ p \in exec
       /\ exec' = exec \ {p}
       /\ exited' = exited \cup {p}
       /\ long_threads' = long_threads + 1
       /\ UNCHANGED crashed
    \/ /\ p \notin exec
       /\ crashed' = TRUE
       /\ UNCHANGED <<exec, exited, long_threads>>

\* A caller that is not in EXEC gets no confirmation.
handle_init_proc(c, p) ==
    /\ Received(c, "INIT_PROC", p)
    /\ \/ /\ p \in exec /\ Len(to_cpu[c]) < MaxPackages
          /\ \E q \in Unborn : new' = new \cup {q}
          /\ to_cpu' = [to_cpu EXCEPT ![c] = Append(@, Confirmation)]
          /\ long_threads' = long_threads + 1
       \/ /\ p \notin exec
          /\ UNCHANGED <<new, to_cpu, long_threads>>
    /\ UNCHANGED <<exec, blocked, exited, ready, current, exec_sem, short_threads, sched,
                   handler, interrupt, context, cpus, crashed>>

exit_process(c, p) ==
    /\ Received(c, "EXIT", p)
    /\ ExitFromExec(p)
    /\ UNCHANGED <<new, blocked, ready, current, exec_sem, short_threads, sched, handler,
                   to_cpu, interrupt, context, cpus>>

\* Wrong on purpose: no thread runs the short-term scheduler.
handle_io_process_no_short(c, p) ==
    /\ Received(c, "IO", p)
    /\ exec' = exec \ {p}
    /\ blocked' = IF p \in exec THEN blocked \cup {p} ELSE blocked
    /\ UNCHANGED <<new, exited, ready, current, exec_sem, threads, sched, handler, to_cpu,
                   interrupt, context, cpus, crashed>>

\* The device exists: EXEC -> BLOCKED, or nothing if the caller left EXEC.
handle_io_process(c, p) ==
    /\ Received(c, "IO", p)
    /\ \/ /\ p \in exec
          /\ exec' = exec \ {p}
          /\ blocked' = blocked \cup {p}
          /\ short_threads' = short_threads + 1
       \/ /\ p \notin exec
          /\ UNCHANGED <<exec, blocked, short_threads>>
    /\ UNCHANGED <<new, exited, ready, current, exec_sem, long_threads, sched, handler,
                   to_cpu, interrupt, context, cpus, crashed>>

handle_io_connection_not_found(c, p) ==
    /\ Received(c, "IO", p)
    /\ ExitFromExec(p)
    /\ UNCHANGED <<new, blocked, ready, current, exec_sem, short_threads, sched, handler,
                   to_cpu, interrupt, context, cpus>>

\* First half of dump_memory_syscall, up to the request to memory.
dump_memory(c, p) ==
    /\ Received(c, "DUMP_MEMORY", p)
    /\ \/ /\ p \in exec
          /\ exec' = exec \ {p}
          /\ blocked' = blocked \cup {p}
          /\ handler' = [handler EXCEPT ![c] = [pc |-> "dump", pid |-> p]]
       \/ /\ p \notin exec
          /\ UNCHANGED <<exec, blocked, handler>>
    /\ UNCHANGED <<new, exited, ready, current, exec_sem, threads, sched, to_cpu, interrupt,
                   context, cpus, crashed>>

\* Wrong on purpose: remove_pcb_from_blocked forgotten.
DumpAnswered_still_blocked(c) ==
    /\ handler[c].pc = "dump" /\ sched.pc = "idle"
    /\ ready' = Append(ready, handler[c].pid)
    /\ handler' = [handler EXCEPT ![c] = [pc |-> "short", pid |-> NoPid]]
    /\ UNCHANGED <<new, exec, blocked, exited, current, exec_sem, threads, sched, wires, cpus, crashed>>

\* Second half: back to READY and the scheduler, or EXIT and no scheduler.
DumpAnswered(c) ==
    LET p == handler[c].pid IN
    /\ handler[c].pc = "dump" /\ sched.pc = "idle"
    /\ blocked' = blocked \ {p}
    /\ \/ /\ ready' = Append(ready, p)
          /\ handler' = [handler EXCEPT ![c] = [pc |-> "short", pid |-> NoPid]]
          /\ UNCHANGED exited
       \/ /\ DumpMayFail
          /\ exited' = exited \cup {p}
          /\ handler' = [handler EXCEPT ![c] = [pc |-> "recv", pid |-> NoPid]]
          /\ UNCHANGED ready
    /\ UNCHANGED <<new, exec, current, exec_sem, threads, sched, wires, cpus, crashed>>

\* IO_COMPLETION of a blocked process: READY, and a thread for the scheduler.
IoCompletion(p) ==
    /\ p \in blocked /\ \A c \in Cpus : handler[c].pid # p
    /\ sched.pc = "idle"
    /\ short_threads + long_threads < MaxThreads
    /\ blocked' = blocked \ {p}
    /\ ready' = Append(ready, p)
    /\ short_threads' = short_threads + 1
    /\ UNCHANGED <<new, exec, exited, current, exec_sem, long_threads, sched, handler, wires,
                   cpus, crashed>>

-----------------------------------------------------------------------------
(* The CPU: main loop and interrupt listener. *)

recv_dispatch(c) ==
    /\ cpu_pc[c] = "recv" /\ to_cpu[c] # <<>> /\ cpu_mutex[c] > 0
    /\ Head(to_cpu[c]).op = "DISPATCH"
    /\ cpu_mutex' = [cpu_mutex EXCEPT ![c] = @ - 1]
    /\ cpu_pid' = [cpu_pid EXCEPT ![c] = Head(to_cpu[c]).pid]
    /\ cpu_pc' = [cpu_pc EXCEPT ![c] = "exec"]
    /\ to_cpu' = [to_cpu EXCEPT ![c] = Tail(@)]
    /\ UNCHANGED <<lists, current, exec_sem, threads, sched, handler, to_kernel, interrupt,
                   context, preempt, listener, interrupt_list, crashed>>

\* Any other opcode is dropped, without cpu_mutex.  With no pid fetch has nothing
\* to ask for: cpu_mutex is given back all the same and the loop waits again.
\* With the pid of before a burst starts.
RecvUnexpected(c) ==
    LET none == cpu_pid[c] = NoPid IN
    /\ cpu_pc[c] = "recv" /\ to_cpu[c] # <<>>
    /\ Head(to_cpu[c]).op # "DISPATCH"
    /\ cpu_pc' = [cpu_pc EXCEPT ![c] = IF none THEN "recv" ELSE "exec"]
    /\ cpu_mutex' = [cpu_mutex EXCEPT ![c] = IF ~none THEN @ ELSE IF @ = 0 THEN 1 ELSE 2]
    /\ to_cpu' = [to_cpu EXCEPT ![c] = Tail(@)]
    /\ UNCHANGED <<lists, current, exec_sem, threads, sched, handler, to_kernel, interrupt,
                   context, cpu_pid, preempt, listener, interrupt_list, crashed>>

\* NOOP, WRITE, READ, GOTO; also what a process memory no longer knows runs.
ExecuteLocal(c) ==
    /\ cpu_pc[c] = "exec"
    /\ cpu_pc' = [cpu_pc EXCEPT ![c] = "check"]
    /\ preempt' = [preempt EXCEPT ![c] = FALSE]
    /\ UNCHANGED <<lists, current, exec_sem, threads, sched, handler, wires, cpu_pid,
                   cpu_mutex, listener, interrupt_list, crashed>>

\* IO, DUMP_MEMORY, EXIT: the package leaves and the burst ends.  INIT_PROC
\* waits for the confirmation.
ExecuteSyscall(c, t) ==
    /\ cpu_pc[c] = "exec" /\ cpu_pid[c] \in Pids \ exited
    /\ t = "INIT_PROC" => Unborn # {}
    /\ Len(to_kernel[c]) < MaxPackages
    /\ to_kernel' = [to_kernel EXCEPT ![c] = Append(@, Syscall(t, cpu_pid[c]))]
    /\ cpu_pc' = [cpu_pc EXCEPT ![c] = IF t = "INIT_PROC" THEN "confirm" ELSE "check"]
    /\ preempt' = [preempt EXCEPT ![c] = (t # "INIT_PROC")]
    /\ UNCHANGED <<lists, current, exec_sem, threads, sched, handler, to_cpu, interrupt,
                   context, cpu_pid, cpu_mutex, listener, interrupt_list, crashed>>

\* Any other package than CONFIRMATION is swallowed and ends the burst.
RecvConfirmation(c) ==
    /\ cpu_pc[c] = "confirm" /\ to_cpu[c] # <<>>
    /\ preempt' = [preempt EXCEPT ![c] = (Head(to_cpu[c]) # Confirmation)]
    /\ to_cpu' = [to_cpu EXCEPT ![c] = Tail(@)]
    /\ cpu_pc' = [cpu_pc EXCEPT ![c] = "check"]
    /\ UNCHANGED <<lists, current, exec_sem, threads, sched, handler, to_kernel, interrupt,
                   context, cpu_pid, cpu_mutex, listener, interrupt_list, crashed>>

\* Wrong on purpose: the package stays in the list.
check_interrupt_kept(c) ==
    /\ context' = [context EXCEPT ![c] = IF interrupt_list[c] = cpu_pid[c] THEN "same" ELSE "other"]
    /\ UNCHANGED interrupt_list

\* check_interrupt answers whether the interrupted pid is the one executing.
check_interrupt(c) ==
    /\ context' = [context EXCEPT ![c] = IF interrupt_list[c] = cpu_pid[c] THEN "same" ELSE "other"]
    /\ interrupt_list' = [interrupt_list EXCEPT ![c] = NoPid]

\* Wrong on purpose: the burst goes on after a system call.
EndInstruction_no_break(c) ==
    /\ cpu_pc[c] = "check" /\ interrupt_list[c] = NoPid
    /\ cpu_pc' = [cpu_pc EXCEPT ![c] = "exec"]
    /\ preempt' = [preempt EXCEPT ![c] = FALSE]
    /\ UNCHANGED <<lists, current, exec_sem, threads, sched, handler, wires, cpu_pid,
                   cpu_mutex, listener, interrupt_list, crashed>>

\* interrupt_handler after each instruction, and the end of the burst.
EndInstruction(c) ==
    /\ cpu_pc[c] = "check"
    /\ \/ interrupt_list[c] # NoPid /\ check_interrupt(c)
       \/ interrupt_list[c] = NoPid /\ UNCHANGED <<context, interrupt_list>>
    /\ IF preempt[c] \/ interrupt_list[c] # NoPid
       THEN /\ cpu_pc' = [cpu_pc EXCEPT ![c] = "recv"]
            /\ cpu_pid' = [cpu_pid EXCEPT ![c] = NoPid]
            /\ cpu_mutex' = [cpu_mutex EXCEPT ![c] = IF @ = 0 THEN 1 ELSE 2]
       ELSE /\ cpu_pc' = [cpu_pc EXCEPT ![c] = "exec"]
            /\ UNCHANGED <<cpu_pid, cpu_mutex>>
    /\ preempt' = [preempt EXCEPT ![c] = FALSE]
    /\ UNCHANGED <<lists, current, exec_sem, threads, sched, handler, to_cpu, to_kernel,
                   interrupt, listener, crashed>>

\* interrupt_listener: queue the package, then wait for cpu_mutex.
ListenerRecv(c) ==
    /\ listener[c] = "recv" /\ interrupt[c] # NoPid
    /\ interrupt_list' = [interrupt_list EXCEPT ![c] = interrupt[c]]
    /\ interrupt' = [interrupt EXCEPT ![c] = NoPid]
    /\ listener' = [listener EXCEPT ![c] = "lock"]
    /\ UNCHANGED <<lists, current, exec_sem, threads, sched, handler, to_cpu, to_kernel,
                   context, cpu_pc, cpu_pid, preempt, cpu_mutex, crashed>>

\* With cpu_mutex, answer what the main loop has not answered by then.
ListenerHandle(c) ==
    /\ listener[c] = "lock" /\ cpu_mutex[c] > 0
    /\ \/ interrupt_list[c] # NoPid /\ check_interrupt(c)
       \/ interrupt_list[c] = NoPid /\ UNCHANGED <<context, interrupt_list>>
    /\ listener' = [listener EXCEPT ![c] = "recv"]
    /\ UNCHANGED <<lists, current, exec_sem, threads, sched, handler, to_cpu, to_kernel,
                   interrupt, cpu_pc, cpu_pid, preempt, cpu_mutex, crashed>>

-----------------------------------------------------------------------------
\* The root process was admitted and initialize_root_process calls the
\* scheduler.  The global pid of a CPU starts as 0, the pid of the root.
Init ==
    /\ new = {} /\ exec = {} /\ blocked = {} /\ exited = {} /\ ready = <<Root>>
    /\ current = [c \in Cpus |-> NoPid]
    /\ exec_sem = 1
    /\ short_threads = 1 /\ long_threads = 0
    /\ sched = Idle
    /\ handler = [c \in Cpus |-> [pc |-> "recv", pid |-> NoPid]]
    /\ to_cpu = [c \in Cpus |-> <<>>] /\ to_kernel = [c \in Cpus |-> <<>>]
    /\ interrupt = [c \in Cpus |-> NoPid]
    /\ context = [c \in Cpus |-> "none"]
    /\ cpu_pc = [c \in Cpus |-> "recv"] /\ cpu_pid = [c \in Cpus |-> Root]
    /\ preempt = [c \in Cpus |-> FALSE]
    /\ cpu_mutex = [c \in Cpus |-> 1]
    /\ listener = [c \in Cpus |-> "recv"]
    /\ interrupt_list = [c \in Cpus |-> NoPid]
    /\ crashed = FALSE

Scheduler ==
    \/ ShortThread
    \/ \E c \in Cpus : ShortInHandler(c)
    \/ DispatchFree \/ KeepRunning \/ SendInterrupt \/ AnswerSame \/ AnswerOther
    \/ LongThread

Handler(c) ==
    \/ \E p \in Pids : handle_init_proc(c, p)
    \/ \E p \in Pids : exit_process(c, p)
    \/ \E p \in Pids : handle_io_process(c, p)
    \/ \E p \in Pids : handle_io_connection_not_found(c, p)
    \/ \E p \in Pids : dump_memory(c, p)
    \/ DumpAnswered(c)

Execute(c) ==
    \/ recv_dispatch(c)
    \/ RecvUnexpected(c)
    \/ ExecuteLocal(c)
    \/ \E t \in Instructions : ExecuteSyscall(c, t)
    \/ RecvConfirmation(c)
    \/ EndInstruction(c)

Listener(c) == ListenerRecv(c) \/ ListenerHandle(c)

Next ==
    /\ ~crashed
    /\ \/ Scheduler
       \/ \E c \in Cpus : Handler(c)
       \/ \E p \in Pids : IoCompletion(p)
       \/ \E c \in Cpus : Execute(c)
       \/ \E c \in Cpus : Listener(c)

Spec == Init /\ [][Next]_vars

\* Threads of the kernel and of the CPUs are never stopped for ever; devices
\* finish.  A program may compute for ever, and nothing makes it call the system.
Fairness ==
    /\ WF_vars(~crashed /\ Scheduler)
    /\ \A c \in Cpus : WF_vars(~crashed /\ Handler(c))
    /\ \A c \in Cpus : WF_vars(~crashed /\ Execute(c))
    /\ \A c \in Cpus : WF_vars(~crashed /\ Listener(c))

FairSpec == Spec /\ Fairness

-----------------------------------------------------------------------------
(* Properties *)

PidOrNone == Pids \cup {NoPid}

\* The types of the kernel's and the CPUs' state; handlers and schedulers between
\* them never have more detached threads than the bound.
TypeOK ==
    /\ new \subseteq Pids /\ exec \subseteq Pids /\ blocked \subseteq Pids
    /\ exited \subseteq Pids /\ ready \in Seq(Pids)
    /\ current \in [Cpus -> PidOrNone]
    /\ exec_sem \in {1, 2}
    /\ short_threads \in Nat /\ long_threads \in Nat
    /\ short_threads + long_threads <= MaxThreads
    /\ sched \in [pc : {"idle", "chosen", "waiting"}, cpu : Cpus \cup {NoCpu},
                  pid : PidOrNone, by : Cpus \cup {NoCpu}]
    /\ handler \in [Cpus -> [pc : {"recv", "dump", "short"}, pid : PidOrNone]]
    /\ to_cpu \in [Cpus -> Seq([op : {"DISPATCH", "CONFIRMATION"}, pid : PidOrNone])]
    /\ to_kernel \in [Cpus -> Seq([op : Instructions, pid : Pids])]
    /\ interrupt \in [Cpus -> PidOrNone]
    /\ context \in [Cpus -> {"none", "same", "other"}]
    /\ cpu_pc \in [Cpus -> {"recv", "exec", "confirm", "check"}]
    /\ cpu_pid \in [Cpus -> PidOrNone]
    /\ preempt \in [Cpus -> BOOLEAN]
    /\ cpu_mutex \in [Cpus -> 0 .. 2]
    /\ listener \in [Cpus -> {"recv", "lock"}]
    /\ interrupt_list \in [Cpus -> PidOrNone]
    /\ crashed \in BOOLEAN

\* A process is in at most one list, and once in READY: whatever the order in
\* which handlers, scheduler threads and completions take the list locks.
OneList ==
    /\ IsInjective(ready)
    /\ Range(ready) \cap (new \cup exec \cup blocked \cup exited) = {}
    /\ new \cap (exec \cup blocked \cup exited) = {}
    /\ exec \cap (blocked \cup exited) = {}
    /\ blocked \cap exited = {}

\* Process p is under way on CPU c: executing there, or its DISPATCH is unread.
OnCpu(p, c) ==
    \/ cpu_pc[c] # "recv" /\ cpu_pid[c] = p /\ ~preempt[c]
    \/ \E i \in DOMAIN to_cpu[c] : to_cpu[c][i] = Dispatch(p)

\* A process in EXEC is being served: the connection of some CPU names it, and
\* that CPU runs it or its system call is on the way to the handler.
ExecIsServed ==
    \A p \in exec : \E c \in Cpus :
        /\ current[c] = p
        /\ OnCpu(p, c) \/ \E i \in DOMAIN to_kernel[c] : to_kernel[c][i].pid = p

\* No process runs on two CPUs, no CPU is given a second process while it still
\* has one, and a process that runs is in EXEC.
OneProcessPerCpu ==
    /\ \A p \in Pids, c \in Cpus : OnCpu(p, c) => p \in exec
    /\ \A p \in Pids, c, d \in Cpus : OnCpu(p, c) /\ OnCpu(p, d) => c = d
    /\ \A p, q \in Pids, c \in Cpus : OnCpu(p, c) /\ OnCpu(q, c) => p = q

\* A system call under way finds its caller in EXEC: it is never dropped by the
\* "not in EXEC" branches of the handlers and never dereferences a NULL pcb.
NoSyscallLost ==
    /\ ~crashed
    /\ \A c \in Cpus : \A i \in DOMAIN to_kernel[c] : to_kernel[c][i].pid \in exec

\* get_cpu_to_dispatch takes a CPU that does nothing for free.
AtRest(c) ==
    /\ cpu_pc[c] = "recv" /\ to_cpu[c] = <<>> /\ to_kernel[c] = <<>>
    /\ handler[c].pc = "recv"
RestingCpuIsFree == sched.pc = "idle" => \A c \in Cpus : AtRest(c) => Free(c)

\* While a process waits in READY and a CPU is free, a run of the short-term
\* scheduler is still to come.
SchedulerPending ==
    \/ short_threads + long_threads > 0
    \/ sched.pc # "idle"
    \/ \E c \in Cpus : handler[c].pc # "recv"
NoLostWakeup ==
    ready # <<>> /\ (\E c \in Cpus : Free(c)) => SchedulerPending

\* sem_exec works as a lock: it is never posted by a thread that did not take it.
ExecSemIsLock == exec_sem = 1

\* The handler thread that answers a CPU does not wait for that CPU.
NoSelfWait ==
    \A c \in Cpus : ~(sched.pc = "waiting" /\ sched.by = c /\ sched.cpu = c
                      /\ cpu_pc[c] = "confirm" /\ context[c] = "none"
                      /\ to_cpu[c] = <<>>)

\* INTERRUPT and CPU_CONTEXT alternate: while run_short_scheduler waits there is
\* exactly one package, unread by the CPU, in its list, or on the way back, and
\* otherwise none.  No thread takes the answer to an earlier interrupt.
OneAnswerPerInterrupt ==
    \A c \in Cpus :
        LET places == { k \in 1 .. 3 : <<interrupt[c] # NoPid, interrupt_list[c] # NoPid,
                                         context[c] # "none">>[k] }
        IN Cardinality(places) = IF sched.pc = "waiting" /\ sched.cpu = c THEN 1 ELSE 0

\* If every burst ends, a process in READY gets a CPU in the end.
ReadyIsDispatched ==
    (\A c \in Cpus : []<>(cpu_pc[c] = "recv"))
        => \A p \in Pids : (p \in Range(ready)) ~> (p \in exec)

\* run_short_scheduler always returns: an INTERRUPT is answered.
InterruptAnswered == sched.pc = "waiting" ~> (sched.pc # "waiting" \/ crashed)

\* The list a process is in.
ListOf(p) ==
    CASE p \in new -> "NEW"
      [] p \in Range(ready) -> "READY"
      [] p \in exec -> "EXEC"
      [] p \in blocked -> "BLOCKED"
      [] p \in exited -> "EXIT"
      [] OTHER -> "none"

Lifecycle == INSTANCE ProcessLifecycle WITH
    state <- [p \in Pids |-> ListOf(p)], Capacity <- Cardinality(Cpus)

\* Handlers, scheduler threads and CPUs move processes along the arrows of the
\* diagram only, and no more of them are in EXEC than there are CPUs.
ImplementsLifecycle == Lifecycle!Spec
=============================================================================
