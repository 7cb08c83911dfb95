----------------------------- MODULE Suspension -----------------------------
(***************************************************************************)
(* The long-term and the medium-term scheduler of the kernel, the threads  *)
(* that call them, and what memoria makes of SWAP, UNSUSPEND_PROCESS,      *)
(* INIT_PROCESS and KILL_PROCESS.                                          *)
(*                                                                         *)
(* The list semaphores are taken in one order everywhere (READY, NEW,      *)
(* EXEC, BLOCKED, SUSP_BLOCKED, SUSP_READY, EXIT), so holding one while    *)
(* waiting for the next is an action whose guard names the locks.  Three   *)
(* of them are held across a conversation with memoria: SUSP_READY while   *)
(* `asking` is a pid, READY and NEW while `admitting`.                     *)
(*                                                                         *)
(* What is abstracted: the short-term scheduler and the CPUs are Dispatch  *)
(* (module Dispatcher); which frames a process has (module MemoriaFrames)  *)
(* is a count of free frames; a handler of memoria is atomic, because      *)
(* sem_swap_file and sem_process_creation serialise them.                  *)
(***************************************************************************)
EXTENDS Integers, Sequences, FiniteSets, SequencesExt

CONSTANTS
    Pids, Root,      \* processes; Root is pid 0
    Size,            \* pages of each process
    FramesTotal, SwapTotal,
    Cpus,            \* number of CPUs
    Algorithm,       \* "FIFO" or "PMCP", the long-term algorithm
    MaxStays,        \* bound on how often a process enters BLOCKED
    MaxLong,         \* bound on threads inside run_long_scheduler at once
    FastDevices,     \* an IO may complete while the SWAP of its process is under way
    MayDisconnect,   \* a device may disconnect with a process on it
    DumpMayFail,     \* memoria may answer a dump with false
    SwapMayFail,     \* writing the swap file may fail
    LateInDump,      \* a timer may be so late that it suspends a process that is dumped
    NoPid

ASSUME SuspensionAssumption ==
    /\ Root \in Pids /\ NoPid \notin Pids
    /\ Size \in [Pids -> Nat]
    /\ FramesTotal \in Nat /\ SwapTotal \in Nat /\ Cpus \in Nat
    /\ MaxStays \in Nat /\ MaxLong \in Nat \ {0}
    /\ Algorithm \in {"FIFO", "PMCP"}
    /\ FastDevices \in BOOLEAN /\ MayDisconnect \in BOOLEAN
    /\ DumpMayFail \in BOOLEAN /\ SwapMayFail \in BOOLEAN /\ LateInDump \in BOOLEAN

VARIABLES
    new, susp_ready,                          \* lists, in order
    ready, exec, blocked, susp_blocked, exited,  \* lists, as sets of pids
    moving,          \* out of SUSP_READY, waiting for the READY lock
    stays,           \* how often each process entered BLOCKED
    io_pending,      \* processes whose IO_COMPLETION is still to come
    dumping,         \* processes whose dump memoria has not answered
    medium,          \* threads of run_medium_scheduler: [pid, stay, pc]
    long_susp,       \* run_long_scheduler: threads about to lock SUSP_READY
    asking,          \* the process whose UNSUSPEND is under way, SUSP_READY locked
    long_new,        \* threads about to lock READY and NEW
    admitting,       \* a thread is in the NEW loop, READY and NEW locked
    mem,             \* what memoria keeps of each process
    frames_free, swap_free

lists == <<new, susp_ready, ready, exec, blocked, susp_blocked, exited, moving>>
waits == <<stays, io_pending, dumping>>
long == <<long_susp, asking, long_new, admitting>>
memory == <<mem, frames_free, swap_free>>
vars == <<lists, waits, medium, long, memory>>

Thread(p, k, pc) == [pid |-> p, stay |-> k, pc |-> pc]

\* Pids that new_pid has not reached.
Unborn ==
    Pids \ (Range(new) \cup Range(susp_ready) \cup ready \cup exec \cup blocked
        \cup susp_blocked \cup exited \cup moving)

\* A thread calls run_long_scheduler.
CallLong ==
    /\ long_susp + long_new + Cardinality(moving)
        + (IF asking = NoPid THEN 0 ELSE 1) + (IF admitting THEN 1 ELSE 0) < MaxLong
    /\ long_susp' = long_susp + 1
    /\ UNCHANGED <<asking, long_new, admitting>>

-----------------------------------------------------------------------------
(* memoria *)

\* KILL_PROCESS: as many user frames come free as the list has entries, the
\* list of a suspended process included.
KillInMemory(p) ==
    /\ mem' = [mem EXCEPT ![p] = "none"]
    /\ frames_free' = frames_free + Size[p]
    /\ UNCHANGED swap_free

\* Wrong on purpose: the free frames are not counted.
CanUnsuspend_unchecked(p) == mem[p] # "none"

\* UNSUSPEND_PROCESS succeeds at once for a process that is not suspended.
CanUnsuspend(p) ==
    mem[p] = "resident" \/ (mem[p] = "suspended" /\ frames_free >= Size[p])

UnsuspendInMemory(p) ==
    \/ mem[p] = "resident" /\ UNCHANGED memory
    \/ /\ mem[p] = "suspended"
       /\ mem' = [mem EXCEPT ![p] = "resident"]
       /\ frames_free' = frames_free - Size[p]
       /\ swap_free' = swap_free + Size[p]

-----------------------------------------------------------------------------
(* run_medium_scheduler *)

\* Wrong on purpose: BLOCKED is not searched again after the sleep.
MediumWakes_unchecked(t) ==
    /\ t \in medium /\ t.pc = "sleep"
    /\ blocked' = blocked \ {t.pid}
    /\ susp_blocked' = susp_blocked \cup {t.pid}
    /\ medium' = (medium \ {t}) \cup {Thread(t.pid, t.stay, "swap")}
    /\ UNCHANGED <<new, susp_ready, ready, exec, exited, moving, waits, long, memory>>

\* time_in_blocked reached sleep_time.  It has in the stay that started the
\* thread.  In a later stay it has if the thread is late, for want of BLOCKED, by
\* the distance between the starts of the two stays: any old timer may be, except
\* that LateInDump decides for the stay of a dump.
MayHaveSlept(t) == stays[t.pid] = t.stay \/ t.pid \notin dumping \/ LateInDump

\* After the sleep: BLOCKED -> SUSP_BLOCKED if the process is there and has been
\* for sleep_time.  A process of size 0 needs no SWAP.
MediumWakes(t) ==
    /\ t \in medium /\ t.pc = "sleep"
    /\ \/ /\ t.pid \in blocked /\ MayHaveSlept(t)
          /\ blocked' = blocked \ {t.pid}
          /\ susp_blocked' = susp_blocked \cup {t.pid}
          /\ medium' = (medium \ {t}) \cup
                {Thread(t.pid, t.stay, IF Size[t.pid] = 0 THEN "ok" ELSE "swap")}
       \/ /\ t.pid \notin blocked \/ stays[t.pid] # t.stay
          /\ medium' = medium \ {t}
          /\ UNCHANGED <<blocked, susp_blocked>>
    /\ UNCHANGED <<new, susp_ready, ready, exec, exited, moving, waits, long, memory>>

\* SWAP arrives at memoria, whatever became of the process meanwhile.  When the
\* write of the file fails, the frames of the file stay taken.
SwapInMemory(t) ==
    /\ t \in medium /\ t.pc = "swap"
    /\ \/ /\ mem[t.pid] = "resident" /\ swap_free >= Size[t.pid]
          /\ mem' = [mem EXCEPT ![t.pid] = "suspended"]
          /\ frames_free' = frames_free + Size[t.pid]
          /\ swap_free' = swap_free - Size[t.pid]
          /\ medium' = (medium \ {t}) \cup {Thread(t.pid, t.stay, "ok")}
       \/ /\ mem[t.pid] = "suspended"
          /\ medium' = (medium \ {t}) \cup {Thread(t.pid, t.stay, "ok")}
          /\ UNCHANGED memory
       \/ /\ mem[t.pid] = "none" \/ (mem[t.pid] = "resident" /\ swap_free < Size[t.pid])
          /\ medium' = (medium \ {t}) \cup {Thread(t.pid, t.stay, "refused")}
          /\ UNCHANGED memory
       \/ /\ SwapMayFail /\ mem[t.pid] = "resident" /\ swap_free >= Size[t.pid]
          /\ swap_free' = swap_free - Size[t.pid]
          /\ medium' = (medium \ {t}) \cup {Thread(t.pid, t.stay, "refused")}
          /\ UNCHANGED <<mem, frames_free>>
    /\ UNCHANGED <<lists, waits, long>>

\* Wrong on purpose: the process stays in SUSP_BLOCKED.
SwapRefused_ignored(t) ==
    /\ t \in medium /\ t.pc = "refused"
    /\ medium' = medium \ {t}
    /\ UNCHANGED <<lists, waits, long, memory>>

\* Wrong on purpose: the process is put back into BLOCKED wherever it is.
SwapRefused_unchecked(t) ==
    /\ t \in medium /\ t.pc = "refused"
    /\ medium' = medium \ {t}
    /\ susp_blocked' = susp_blocked \ {t.pid}
    /\ blocked' = blocked \cup {t.pid}
    /\ susp_ready' = RemoveFirst(susp_ready, t.pid)
    /\ UNCHANGED <<new, ready, exec, exited, moving, waits, long, memory>>

\* The SWAP was refused: SUSP_BLOCKED -> BLOCKED, if the process is still there;
\* a NULL pcb is not added.  The stay in BLOCKED starts anew.
SwapRefused(t) ==
    /\ t \in medium /\ t.pc = "refused"
    /\ medium' = medium \ {t}
    /\ \/ /\ t.pid \in susp_blocked
          /\ susp_blocked' = susp_blocked \ {t.pid}
          /\ blocked' = blocked \cup {t.pid}
          /\ stays' = [stays EXCEPT ![t.pid] = @ + 1]
       \/ t.pid \notin susp_blocked /\ UNCHANGED <<susp_blocked, blocked, stays>>
    /\ UNCHANGED <<new, susp_ready, ready, exec, exited, moving, io_pending, dumping, long, memory>>

\* Wrong on purpose: the long-term scheduler is not called.
SwapDone_no_long(t) ==
    /\ t \in medium /\ t.pc = "ok"
    /\ medium' = medium \ {t}
    /\ UNCHANGED <<lists, waits, long, memory>>

\* Memory came free: run_long_scheduler.
SwapDone(t) ==
    /\ t \in medium /\ t.pc = "ok"
    /\ medium' = medium \ {t}
    /\ CallLong
    /\ UNCHANGED <<lists, waits, memory>>

-----------------------------------------------------------------------------
(* run_long_scheduler *)

\* The processes get_next_process_to_initialize may return: PMCP sorts by size.
NextOf(list) ==
    IF list = <<>> THEN {}
    ELSE IF Algorithm = "FIFO" THEN {Head(list)}
    ELSE { p \in Range(list) : \A q \in Range(list) : Size[p] <= Size[q] }

\* Lock SUSP_READY and send UNSUSPEND for its next process, or leave the loop.
LongAsks ==
    /\ long_susp > 0 /\ asking = NoPid
    /\ long_susp' = long_susp - 1
    /\ \/ susp_ready = <<>> /\ long_new' = long_new + 1 /\ UNCHANGED asking
       \/ asking' \in NextOf(susp_ready) /\ UNCHANGED long_new
    /\ UNCHANGED <<lists, waits, medium, admitting, memory>>

\* memoria resumed the process: it leaves SUSP_READY.
LongUnsuspends ==
    /\ asking # NoPid /\ CanUnsuspend(asking)
    /\ UnsuspendInMemory(asking)
    /\ susp_ready' = RemoveFirst(susp_ready, asking)
    /\ moving' = moving \cup {asking}
    /\ asking' = NoPid
    /\ UNCHANGED <<new, ready, exec, blocked, susp_blocked, exited, waits, medium, long_susp,
                   long_new, admitting>>

\* memoria refused: the loop ends, and NEW is tried all the same.
LongRefused ==
    /\ asking # NoPid /\ ~CanUnsuspend(asking)
    /\ asking' = NoPid
    /\ long_new' = long_new + 1
    /\ UNCHANGED <<lists, waits, medium, long_susp, admitting, memory>>

\* The resumed process enters READY, and the thread goes round the loop.
LongMoves(p) ==
    /\ p \in moving /\ ~admitting
    /\ moving' = moving \ {p}
    /\ ready' = ready \cup {p}
    /\ long_susp' = long_susp + 1
    /\ UNCHANGED <<new, susp_ready, exec, blocked, susp_blocked, exited, waits, medium, asking,
                   long_new, admitting, memory>>

\* Lock READY and NEW for the second loop.
LongStartsNew ==
    /\ long_new > 0 /\ ~admitting
    /\ long_new' = long_new - 1
    /\ admitting' = TRUE
    /\ UNCHANGED <<lists, waits, medium, long_susp, asking, memory>>

\* INIT_PROCESS succeeded: NEW -> READY.
LongAdmits ==
    /\ admitting
    /\ \E p \in NextOf(new) :
          /\ frames_free >= Size[p]
          /\ mem' = [mem EXCEPT ![p] = "resident"]
          /\ frames_free' = frames_free - Size[p]
          /\ new' = RemoveFirst(new, p)
          /\ ready' = ready \cup {p}
    /\ UNCHANGED <<susp_ready, exec, blocked, susp_blocked, exited, moving, waits, medium, long,
                   swap_free>>

\* NEW is empty or memoria has no room for its next process.
LongEnds ==
    /\ admitting
    /\ new = <<>> \/ \E p \in NextOf(new) : frames_free < Size[p]
    /\ admitting' = FALSE
    /\ UNCHANGED <<lists, waits, medium, long_susp, asking, long_new, memory>>

-----------------------------------------------------------------------------
(* Executing processes and their system calls *)

\* run_short_scheduler gives a CPU to the process.
Dispatch(p) ==
    /\ p \in ready /\ ~admitting
    /\ Cardinality(exec) < Cpus
    /\ ready' = ready \ {p}
    /\ exec' = exec \cup {p}
    /\ UNCHANGED <<new, susp_ready, blocked, susp_blocked, exited, moving, waits, medium, long, memory>>

\* handle_init_proc_syscall: NEW, and a thread for the schedulers.
InitProc(p, q) ==
    /\ p \in exec /\ q \in Unborn /\ ~admitting
    /\ new' = Append(new, q)
    /\ CallLong
    /\ UNCHANGED <<susp_ready, ready, exec, blocked, susp_blocked, exited, moving, waits, medium,
                   memory>>

\* exit_process_syscall: memory comes free, and a thread for the schedulers.
ExitProcess(p) ==
    /\ p \in exec
    /\ exec' = exec \ {p}
    /\ exited' = exited \cup {p}
    /\ KillInMemory(p)
    /\ CallLong
    /\ UNCHANGED <<new, susp_ready, ready, blocked, susp_blocked, moving, waits, medium>>

\* EXEC -> BLOCKED, the request of the device, and the thread of the medium term.
IoProcess(p) ==
    /\ p \in exec /\ stays[p] < MaxStays
    /\ exec' = exec \ {p}
    /\ blocked' = blocked \cup {p}
    /\ stays' = [stays EXCEPT ![p] = @ + 1]
    /\ io_pending' = io_pending \cup {p}
    /\ medium' = medium \cup {Thread(p, stays[p] + 1, "sleep")}
    /\ UNCHANGED <<new, susp_ready, ready, susp_blocked, exited, moving, dumping, long, memory>>

\* First half of dump_memory_syscall; no thread of the medium term.
DumpMemory(p) ==
    /\ p \in exec /\ stays[p] < MaxStays
    /\ exec' = exec \ {p}
    /\ blocked' = blocked \cup {p}
    /\ stays' = [stays EXCEPT ![p] = @ + 1]
    /\ dumping' = dumping \cup {p}
    /\ UNCHANGED <<new, susp_ready, ready, susp_blocked, exited, moving, io_pending, medium, long,
                   memory>>

\* Back to READY, or EXIT with no scheduler after it.  BLOCKED is the only list
\* that is searched: a process that a timer suspended stays in SUSP_BLOCKED too.
DumpAnswered(p) ==
    /\ p \in dumping /\ ~admitting
    /\ dumping' = dumping \ {p}
    /\ blocked' = blocked \ {p}
    /\ \/ ready' = ready \cup {p} /\ UNCHANGED <<exited, memory>>
       \/ /\ DumpMayFail
          /\ exited' = exited \cup {p}
          /\ KillInMemory(p)
          /\ UNCHANGED ready
    /\ UNCHANGED <<new, susp_ready, exec, susp_blocked, moving, stays, io_pending, medium, long>>

-----------------------------------------------------------------------------
(* Devices *)

\* A SWAP of p is between the kernel's list move and memoria.
SwapUnderWay(p) == \E t \in medium : t.pid = p /\ t.pc = "swap"

\* Wrong on purpose: the long-term scheduler is not started for a suspended process.
IoCompletion_no_long(p) ==
    /\ p \in io_pending /\ asking = NoPid /\ ~admitting
    /\ FastDevices \/ ~SwapUnderWay(p)
    /\ io_pending' = io_pending \ {p}
    /\ \/ /\ p \in blocked
          /\ blocked' = blocked \ {p}
          /\ ready' = ready \cup {p}
          /\ UNCHANGED <<susp_blocked, susp_ready>>
       \/ /\ p \notin blocked /\ p \in susp_blocked
          /\ susp_blocked' = susp_blocked \ {p}
          /\ susp_ready' = Append(susp_ready, p)
          /\ UNCHANGED <<blocked, ready>>
    /\ UNCHANGED <<new, exec, exited, moving, stays, dumping, medium, long, memory>>

\* Wrong on purpose: a suspended process goes straight to READY.
IoCompletion_straight(p) ==
    /\ p \in io_pending /\ asking = NoPid /\ ~admitting
    /\ FastDevices \/ ~SwapUnderWay(p)
    /\ io_pending' = io_pending \ {p}
    /\ blocked' = blocked \ {p}
    /\ susp_blocked' = susp_blocked \ {p}
    /\ ready' = ready \cup {p}
    /\ UNCHANGED <<new, susp_ready, exec, exited, moving, stays, dumping, medium, long, memory>>

\* io_completion, under the locks of READY, BLOCKED, SUSP_BLOCKED and SUSP_READY.
IoCompletion(p) ==
    /\ p \in io_pending /\ asking = NoPid /\ ~admitting
    /\ FastDevices \/ ~SwapUnderWay(p)
    /\ io_pending' = io_pending \ {p}
    /\ \/ /\ p \in blocked
          /\ blocked' = blocked \ {p}
          /\ ready' = ready \cup {p}
          /\ UNCHANGED <<susp_blocked, susp_ready, long>>
       \/ /\ p \notin blocked /\ p \in susp_blocked
          /\ susp_blocked' = susp_blocked \ {p}
          /\ susp_ready' = Append(susp_ready, p)
          /\ CallLong
          /\ UNCHANGED <<blocked, ready>>
    /\ UNCHANGED <<new, exec, exited, moving, stays, dumping, medium, memory>>

\* handle_found_process: the process of a lost device exits.  Only for one of
\* SUSP_BLOCKED does the long-term scheduler run.
IoDisconnected(p) ==
    /\ MayDisconnect /\ p \in io_pending
    /\ FastDevices \/ ~SwapUnderWay(p)
    /\ io_pending' = io_pending \ {p}
    /\ \/ /\ p \in blocked
          /\ blocked' = blocked \ {p}
          /\ UNCHANGED <<susp_blocked, long>>
       \/ /\ p \notin blocked /\ p \in susp_blocked
          /\ susp_blocked' = susp_blocked \ {p}
          /\ CallLong
          /\ UNCHANGED blocked
    /\ exited' = exited \cup {p}
    /\ KillInMemory(p)
    /\ UNCHANGED <<new, susp_ready, ready, exec, moving, stays, dumping, medium>>

-----------------------------------------------------------------------------
\* initialize_root_process put the root in NEW and calls the long-term scheduler.
Init ==
    /\ new = <<Root>> /\ susp_ready = <<>>
    /\ ready = {} /\ exec = {} /\ blocked = {} /\ susp_blocked = {} /\ exited = {} /\ moving = {}
    /\ stays = [p \in Pids |-> 0] /\ io_pending = {} /\ dumping = {}
    /\ medium = {}
    /\ long_susp = 1 /\ asking = NoPid /\ long_new = 0 /\ admitting = FALSE
    /\ mem = [p \in Pids |-> "none"]
    /\ frames_free = FramesTotal /\ swap_free = SwapTotal

Medium(t) == MediumWakes(t) \/ SwapInMemory(t) \/ SwapRefused(t) \/ SwapDone(t)

LongSusp == LongAsks \/ LongUnsuspends \/ LongRefused \/ \E p \in Pids : LongMoves(p)

LongNew == LongStartsNew \/ LongAdmits \/ LongEnds

Program(p) ==
    \/ \E q \in Pids : InitProc(p, q)
    \/ ExitProcess(p)
    \/ IoProcess(p)
    \/ DumpMemory(p)

Next ==
    \/ \E t \in medium : Medium(t)
    \/ LongSusp
    \/ LongNew
    \/ \E p \in Pids : Dispatch(p)
    \/ \E p \in Pids : Program(p)
    \/ \E p \in Pids : DumpAnswered(p)
    \/ \E p \in Pids : IoCompletion(p)
    \/ \E p \in Pids : IoDisconnected(p)

Spec == Init /\ [][Next]_vars

\* No thread is stopped for ever, devices and memoria answer, and programs end:
\* a process that executes gets to its next instruction.  MaxStays makes every
\* run finite, so that the READY lock is not taken away from a waiting thread for
\* ever and weak fairness of each kind of thread is enough.
Fairness ==
    /\ WF_vars(\E t \in medium : Medium(t))
    /\ WF_vars(LongSusp)
    /\ WF_vars(LongNew)
    /\ WF_vars(\E p \in Pids : Dispatch(p))
    /\ WF_vars(\E p \in Pids : Program(p))
    /\ WF_vars(\E p \in Pids : DumpAnswered(p))
    /\ WF_vars(\E p \in Pids : IoCompletion(p))

FairSpec == Spec /\ Fairness

-----------------------------------------------------------------------------
(* Properties *)

\* The types of the kernel's lists and threads and of memoria's tables; neither
\* free count becomes negative.
TypeOK ==
    /\ new \in Seq(Pids) /\ susp_ready \in Seq(Pids)
    /\ \A s \in {ready, exec, blocked, susp_blocked, exited, moving, io_pending, dumping} :
          s \subseteq Pids
    /\ stays \in [Pids -> Nat]
    /\ medium \subseteq [pid : Pids, stay : Nat, pc : {"sleep", "swap", "ok", "refused"}]
    /\ long_susp \in Nat /\ long_new \in Nat
    /\ asking \in Pids \cup {NoPid} /\ admitting \in BOOLEAN
    /\ mem \in [Pids -> {"none", "resident", "suspended"}]
    /\ frames_free \in Nat /\ swap_free \in 0 .. SwapTotal

\* A process is in one list only, whatever the order in which timers,
\* completions, dumps and the long-term scheduler move it, late timers of earlier
\* stays included; only a process that is dumped must not meet one (~LateInDump).
OneList ==
    /\ IsInjective(new \o susp_ready)
    /\ LET S == <<Range(new), Range(susp_ready), ready, exec, blocked, susp_blocked, exited, moving>>
       IN \A i, j \in DOMAIN S : i # j => S[i] \cap S[j] = {}

\* A process that is READY or executes has its pages in user memory.
ResidentToRun == \A p \in ready \cup exec \cup moving : mem[p] = "resident"

\* A process of SUSP_BLOCKED gave its frames back, unless the thread that
\* suspends it is still under way: also when an old timer suspended it or memoria
\* failed to write the swap file, but for the late timer in a dump (~LateInDump).
SuspendedGaveMemoryBack ==
    \A p \in susp_blocked :
        \/ mem[p] = "suspended" \/ Size[p] = 0
        \/ \E t \in medium : t.pid = p /\ t.pc \in {"swap", "refused"}

\* While the next process of SUSP_READY, or of NEW, fits in memory, a run of the
\* long-term scheduler that will try it is under way or about to start.
LongPending ==
    \/ long_susp > 0 \/ asking # NoPid \/ moving # {} \/ long_new > 0 \/ admitting
    \/ \E t \in medium : t.pc = "ok"
AdmissionPending ==
    \/ LongPending
    \/ /\ \A p \in NextOf(susp_ready) : ~CanUnsuspend(p)
       /\ \A p \in NextOf(new) : frames_free < Size[p]

\* Every process that is created ends, if it fits in memory at all: none is
\* forgotten in NEW, BLOCKED, SUSP_BLOCKED or SUSP_READY.
EveryProcessEnds ==
    \A p \in Pids : (p \in Range(new) \cup blocked \cup susp_blocked \cup Range(susp_ready))
                        ~> (p \in exited)

\* The list a process is in, or was taken from last.
ListOf(p) ==
    CASE p \in Range(new) -> "NEW"
      [] p \in ready -> "READY"
      [] p \in exec -> "EXEC"
      [] p \in blocked -> "BLOCKED"
      [] p \in susp_blocked -> "SUSP_BLOCKED"
      [] p \in Range(susp_ready) \cup moving -> "SUSP_READY"
      [] p \in exited -> "EXIT"
      [] OTHER -> "none"

Lifecycle == INSTANCE ProcessLifecycle WITH
    state <- [p \in Pids |-> ListOf(p)], Capacity <- Cpus

\* The schedulers, their timers and the devices move processes along the arrows
\* of the diagram only: none is suspended out of READY, admitted twice, or moved
\* after its end, whatever became of it while its list was unlocked, if no timer
\* suspends a process that is dumped (~LateInDump).
ImplementsLifecycle == Lifecycle!Spec
=============================================================================
