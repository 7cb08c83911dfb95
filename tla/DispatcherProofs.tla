-------------------------- MODULE DispatcherProofs --------------------------
(***************************************************************************)
(* The short-term scheduler, the dispatch handlers and the CPUs, proved    *)
(* for any number of processes, CPUs and scheduler threads.                *)
(***************************************************************************)
EXTENDS Dispatcher, ListFacts, FiniteSetTheorems, TLAPS

\* TypeOK in parts, by who changes them.
ListTypes ==
    /\ new \subseteq Pids /\ exec \subseteq Pids /\ blocked \subseteq Pids
    /\ exited \subseteq Pids /\ ready \in Seq(Pids)
ThreadTypes ==
    /\ short_threads \in Nat /\ long_threads \in Nat
    /\ short_threads + long_threads <= MaxThreads
HandlerStates == [pc : {"recv", "dump", "short"}, pid : PidOrNone]
KernelTypes ==
    /\ current \in [Cpus -> PidOrNone]
    /\ sched \in [pc : {"idle", "chosen", "waiting"}, cpu : Cpus \cup {NoCpu},
                  pid : PidOrNone, by : Cpus \cup {NoCpu}]
    /\ handler \in [Cpus -> HandlerStates]
DispatchPackages == [op : {"DISPATCH", "CONFIRMATION"}, pid : PidOrNone]
SyscallPackages == [op : Instructions, pid : Pids]
WireTypes ==
    /\ to_cpu \in [Cpus -> Seq(DispatchPackages)]
    /\ to_kernel \in [Cpus -> Seq(SyscallPackages)]
SignalTypes ==
    /\ interrupt \in [Cpus -> PidOrNone]
    /\ context \in [Cpus -> {"none", "same", "other"}]
    /\ interrupt_list \in [Cpus -> PidOrNone]
    /\ listener \in [Cpus -> {"recv", "lock"}]
CpuTypes ==
    /\ cpu_pc \in [Cpus -> {"recv", "exec", "confirm", "check"}]
    /\ cpu_pid \in [Cpus -> PidOrNone]
    /\ preempt \in [Cpus -> BOOLEAN]
    /\ cpu_mutex \in [Cpus -> 0 .. 2]
FlagTypes == exec_sem \in {1, 2} /\ crashed \in BOOLEAN

Typed ==
    /\ ListTypes /\ ThreadTypes /\ KernelTypes /\ WireTypes /\ SignalTypes /\ CpuTypes /\ FlagTypes

\* OneList, list by list; NEW is finite, so that what the long-term scheduler
\* admits is a sequence.
Apart ==
    /\ IsInjective(ready) /\ IsFiniteSet(new)
    /\ \A p \in Range(ready) : p \notin new /\ p \notin exec /\ p \notin blocked /\ p \notin exited
    /\ \A p \in new : p \notin exec /\ p \notin blocked /\ p \notin exited
    /\ \A p \in exec : p \notin blocked /\ p \notin exited
    /\ \A p \in blocked : p \notin exited

\* What is remembered across an unlock stays true: the process that
\* run_short_scheduler chose is still in READY, and the process of each handler
\* that waits for a dump is in BLOCKED, and of no other handler.
Held ==
    /\ sched.pc # "idle" => sched.cpu \in Cpus /\ sched.pid \in Range(ready)
    /\ \A c \in Cpus :
          /\ handler[c].pc = "dump" => handler[c].pid # NoPid
          /\ handler[c].pid # NoPid => handler[c].pid \in blocked
    /\ \A c, d \in Cpus : c # d /\ handler[c].pid # NoPid => handler[c].pid # handler[d].pid

\* OneAnswerPerInterrupt at CPU c, without the cardinality.
Signals(c) ==
    IF sched.pc = "waiting" /\ sched.cpu = c
    THEN \/ interrupt[c] # NoPid /\ interrupt_list[c] = NoPid /\ context[c] = "none"
         \/ interrupt[c] = NoPid /\ interrupt_list[c] # NoPid /\ context[c] = "none"
         \/ interrupt[c] = NoPid /\ interrupt_list[c] = NoPid /\ context[c] # "none"
    ELSE interrupt[c] = NoPid /\ interrupt_list[c] = NoPid /\ context[c] = "none"
Answered == \A c \in Cpus : Signals(c)

\* The inductive invariant of every configuration.
KernelInv == Typed /\ Apart /\ Held /\ Answered

-----------------------------------------------------------------------------
(* The parts are what the runs check. *)

\* Typed is TypeOK.
LEMMA TypedIsTypeOK == Typed <=> TypeOK
BY DEF Typed, TypeOK, ListTypes, ThreadTypes, KernelTypes, WireTypes, SignalTypes, CpuTypes,
       FlagTypes, HandlerStates, DispatchPackages, SyscallPackages

\* Apart gives OneList.
LEMMA ApartIsOneList == Apart => OneList
BY DEF Apart, OneList

\* Answered is OneAnswerPerInterrupt.
LEMMA AnsweredIsOneAnswer == Answered => OneAnswerPerInterrupt
<1> SUFFICES ASSUME Answered, NEW c \in Cpus
             PROVE  Cardinality({ k \in 1 .. 3 : <<interrupt[c] # NoPid, interrupt_list[c] # NoPid,
                                                  context[c] # "none">>[k] })
                        = IF sched.pc = "waiting" /\ sched.cpu = c THEN 1 ELSE 0
  BY DEF OneAnswerPerInterrupt
<1> DEFINE w == <<interrupt[c] # NoPid, interrupt_list[c] # NoPid, context[c] # "none">>
           places == { k \in 1 .. 3 : w[k] }
<1>1. /\ w[1] = (interrupt[c] # NoPid) /\ w[2] = (interrupt_list[c] # NoPid)
      /\ w[3] = (context[c] # "none")
  OBVIOUS
<1>2. Signals(c)
  BY DEF Answered
<1> HIDE DEF w
<1>3. CASE sched.pc = "waiting" /\ sched.cpu = c
  <2>1. \E k \in 1 .. 3 : w[k] /\ \A j \in 1 .. 3 : w[j] => j = k
    <3>1. \A j \in 1 .. 3 : j = 1 \/ j = 2 \/ j = 3
      OBVIOUS
    <3>2. CASE w[1] /\ ~w[2] /\ ~w[3]
      BY <3>1, <3>2
    <3>3. CASE ~w[1] /\ w[2] /\ ~w[3]
      BY <3>1, <3>3
    <3>4. CASE ~w[1] /\ ~w[2] /\ w[3]
      BY <3>1, <3>4
    <3> QED BY <1>1, <1>2, <1>3, <3>2, <3>3, <3>4 DEF Signals
  <2>2. \E k : places = {k}
    BY <2>1
  <2> HIDE DEF places
  <2>3. Cardinality(places) = 1
    BY <2>2, FS_Singleton
  <2> QED BY <1>3, <2>3 DEF places, w
<1>4. CASE ~(sched.pc = "waiting" /\ sched.cpu = c)
  <2>1. \A j \in 1 .. 3 : ~w[j]
    <3>1. \A j \in 1 .. 3 : j = 1 \/ j = 2 \/ j = 3
      OBVIOUS
    <3> QED BY <1>1, <1>2, <1>4, <3>1 DEF Signals
  <2>2. places = {}
    BY <2>1
  <2> HIDE DEF places
  <2>3. Cardinality(places) = 0
    BY <2>2, FS_EmptySet
  <2> QED BY <1>4, <2>3 DEF places, w
<1> QED BY <1>3, <1>4

\* The first state.
LEMMA InitKernelInv == Init => KernelInv
<1> SUFFICES ASSUME Init PROVE KernelInv
  OBVIOUS
<1> USE DispatcherAssumption DEF Init
<1>1. <<Root>> \in Seq(Pids) /\ Range(<<Root>>) = {Root} /\ IsInjective(<<Root>>)
  BY DEF Range, IsInjective
<1>2. ListTypes /\ ThreadTypes
  BY <1>1 DEF ListTypes, ThreadTypes
<1>3. KernelTypes
  BY DEF KernelTypes, HandlerStates, PidOrNone, Idle
<1>4. WireTypes
  BY DEF WireTypes
<1>5. SignalTypes
  BY DEF SignalTypes, PidOrNone
<1>6. CpuTypes
  <2>1. preempt \in [Cpus -> BOOLEAN]
    OBVIOUS
  <2> QED BY <2>1 DEF CpuTypes, PidOrNone
<1>7. FlagTypes
  BY DEF FlagTypes
<1>8. Apart
  BY <1>1, FS_EmptySet DEF Apart
<1>9. Held /\ Answered
  BY DEF Held, Answered, Signals, Idle
<1> QED BY <1>2, <1>3, <1>4, <1>5, <1>6, <1>7, <1>8, <1>9 DEF KernelInv, Typed

-----------------------------------------------------------------------------
(* The CPUs touch neither the lists nor the scheduler. *)

\* What no CPU changes.
KernelState == <<lists, current, exec_sem, threads, sched, handler, crashed>>

LEMMA KernelStateKept ==
    ASSUME KernelInv, UNCHANGED KernelState
    PROVE  ListTypes' /\ ThreadTypes' /\ KernelTypes' /\ FlagTypes' /\ Apart' /\ Held'
BY DEF KernelInv, Typed, KernelState, lists, threads, ListTypes, ThreadTypes, KernelTypes,
       FlagTypes, Apart, Held, HandlerStates, PidOrNone
\* A CPU reads a package, or runs an instruction, and sends a package.
LEMMA CpuKeeps ==
    ASSUME KernelInv, NEW c \in Cpus, Execute(c)
    PROVE  KernelInv'
<1> USE DispatcherAssumption DEF KernelInv, Typed
<1>1. ListTypes' /\ ThreadTypes' /\ KernelTypes' /\ FlagTypes' /\ Apart' /\ Held'
  BY KernelStateKept DEF Execute, recv_dispatch, RecvUnexpected, ExecuteLocal, ExecuteSyscall,
     RecvConfirmation, EndInstruction, KernelState
<1>2. WireTypes'
  <2>0. /\ to_cpu \in [Cpus -> Seq(DispatchPackages)] /\ to_kernel \in [Cpus -> Seq(SyscallPackages)]
        /\ cpu_pid \in [Cpus -> PidOrNone]
    BY DEF WireTypes, CpuTypes
  <2>1. CASE to_cpu[c] # <<>> /\ to_cpu' = [to_cpu EXCEPT ![c] = Tail(@)] /\ to_kernel' = to_kernel
    <3>1. Tail(to_cpu[c]) \in Seq(DispatchPackages)
      BY <2>0, <2>1, TailFacts
    <3> QED BY <2>0, <2>1, <3>1 DEF WireTypes
  <2>2. CASE UNCHANGED <<to_cpu, to_kernel>>
    BY <2>0, <2>2 DEF WireTypes
  <2>3. ASSUME NEW t \in Instructions, ExecuteSyscall(c, t) PROVE WireTypes'
    <3>1. Syscall(t, cpu_pid[c]) \in SyscallPackages
      BY <2>3 DEF ExecuteSyscall, Syscall, SyscallPackages
    <3>2. Append(to_kernel[c], Syscall(t, cpu_pid[c])) \in Seq(SyscallPackages)
      BY <2>0, <3>1, AppendFacts
    <3> QED BY <2>0, <2>3, <3>2 DEF ExecuteSyscall, WireTypes
  <2> QED BY <2>1, <2>2, <2>3 DEF Execute, recv_dispatch, RecvUnexpected, ExecuteLocal,
             RecvConfirmation, EndInstruction, wires
<1>3. SignalTypes' /\ Answered'
  <2>1. CASE UNCHANGED <<interrupt, context, interrupt_list, listener, sched>>
    BY <2>1 DEF SignalTypes, Answered, Signals
  <2>2. CASE EndInstruction(c)
    <3>1. /\ interrupt' = interrupt /\ listener' = listener /\ sched' = sched
          /\ \/ interrupt_list[c] # NoPid /\ check_interrupt(c)
             \/ UNCHANGED <<context, interrupt_list>>
      BY <2>2 DEF EndInstruction
    <3> QED BY <3>1 DEF check_interrupt, SignalTypes, Answered, Signals, PidOrNone
  <2> QED BY <2>1, <2>2 DEF Execute, recv_dispatch, RecvUnexpected, ExecuteLocal, ExecuteSyscall,
             RecvConfirmation, wires
<1>4. CpuTypes'
  <2>0. /\ cpu_pc \in [Cpus -> {"recv", "exec", "confirm", "check"}]
        /\ cpu_pid \in [Cpus -> PidOrNone] /\ cpu_mutex \in [Cpus -> 0 .. 2]
        /\ to_cpu \in [Cpus -> Seq(DispatchPackages)]
    BY DEF CpuTypes, WireTypes
  <2>1. preempt' \in [Cpus -> BOOLEAN]
    <3>1. preempt \in [Cpus -> BOOLEAN]
      BY DEF CpuTypes
    <3>2. \/ preempt' = preempt
          \/ \E b \in BOOLEAN : preempt' = [preempt EXCEPT ![c] = b]
      BY DEF Execute, recv_dispatch, RecvUnexpected, ExecuteLocal, ExecuteSyscall,
             RecvConfirmation, EndInstruction
    <3> QED BY <3>1, <3>2
  <2>2. cpu_pc' \in [Cpus -> {"recv", "exec", "confirm", "check"}]
    BY <2>0 DEF Execute, recv_dispatch, RecvUnexpected, ExecuteLocal, ExecuteSyscall,
       RecvConfirmation, EndInstruction
  <2>3. cpu_pid' \in [Cpus -> PidOrNone]
    <3>1. CASE recv_dispatch(c)
      <4>1. Head(to_cpu[c]) \in DispatchPackages
        BY <2>0, <3>1, TailFacts DEF recv_dispatch
      <4>2. Head(to_cpu[c]).pid \in PidOrNone
        BY <4>1 DEF DispatchPackages
      <4> QED BY <2>0, <3>1, <4>2 DEF recv_dispatch
    <3>2. CASE ~recv_dispatch(c)
      BY <2>0, <3>2 DEF Execute, RecvUnexpected, ExecuteLocal, ExecuteSyscall,
         RecvConfirmation, EndInstruction, PidOrNone
    <3> QED BY <3>1, <3>2
  <2>4. cpu_mutex' \in [Cpus -> 0 .. 2]
    <3>1. cpu_mutex[c] \in 0 .. 2
      BY <2>0
    <3>2. CASE recv_dispatch(c)
      BY <2>0, <3>1, <3>2 DEF recv_dispatch
    <3>3. CASE EndInstruction(c)
      <4>1. \/ cpu_mutex' = cpu_mutex
            \/ cpu_mutex' = [cpu_mutex EXCEPT ![c] = 1]
            \/ cpu_mutex' = [cpu_mutex EXCEPT ![c] = 2]
        BY <3>3 DEF EndInstruction
      <4> QED BY <2>0, <4>1
    <3>4. CASE RecvUnexpected(c)
      <4>1. \E n \in {cpu_mutex[c], 1, 2} : cpu_mutex' = [cpu_mutex EXCEPT ![c] = n]
        BY <3>4 DEF RecvUnexpected
      <4> QED BY <2>0, <3>1, <4>1
    <3> QED BY <2>0, <3>2, <3>3, <3>4 DEF Execute, ExecuteLocal, ExecuteSyscall,
               RecvConfirmation
  <2> QED BY <2>1, <2>2, <2>3, <2>4 DEF CpuTypes
<1> QED BY <1>1, <1>2, <1>3, <1>4

\* The interrupt listener moves the package on.
LEMMA ListenerKeeps ==
    ASSUME KernelInv, NEW c \in Cpus, Listener(c)
    PROVE  KernelInv'
<1> USE DispatcherAssumption DEF KernelInv, Typed
<1>1. ListTypes' /\ ThreadTypes' /\ KernelTypes' /\ FlagTypes' /\ Apart' /\ Held'
  BY KernelStateKept DEF Listener, ListenerRecv, ListenerHandle, KernelState
<1>2. WireTypes' /\ CpuTypes'
  BY DEF Listener, ListenerRecv, ListenerHandle, WireTypes, CpuTypes
<1>3. sched' = sched
  BY DEF Listener, ListenerRecv, ListenerHandle
<1>4. CASE ListenerRecv(c)
  BY <1>1, <1>2, <1>3, <1>4 DEF ListenerRecv, SignalTypes, Answered, Signals, PidOrNone
<1>5. CASE ListenerHandle(c)
  <2>1. SignalTypes'
    BY <1>5 DEF ListenerHandle, check_interrupt, SignalTypes, PidOrNone
  <2>2. Answered'
    BY <1>3, <1>5 DEF ListenerHandle, check_interrupt, SignalTypes, Answered, Signals
  <2> QED BY <1>1, <1>2, <2>1, <2>2
<1> QED BY <1>4, <1>5 DEF Listener

-----------------------------------------------------------------------------
(* run_short_scheduler *)

\* What the CPUs and the wires keep when a step of the kernel leaves them alone.
LEMMA CpuStateKept ==
    ASSUME KernelInv, UNCHANGED cpus
    PROVE  /\ CpuTypes'
           /\ UNCHANGED <<interrupt, context>> => SignalTypes'
           /\ UNCHANGED <<interrupt, context, sched>> => Answered'
           /\ UNCHANGED <<to_cpu, to_kernel>> => WireTypes'
           /\ UNCHANGED <<exec_sem, crashed>> => FlagTypes'
BY DEF KernelInv, Typed, cpus, CpuTypes, SignalTypes, WireTypes, FlagTypes, Answered, Signals

\* A handler that called the scheduler goes back to recv_package; it keeps its pid.
LEMMA HandlerBack ==
    ASSUME KernelTypes, NEW by \in Cpus \cup {NoCpu},
           handler' = IF by = NoCpu THEN handler ELSE [handler EXCEPT ![by].pc = "recv"]
    PROVE  /\ handler' \in [Cpus -> HandlerStates]
           /\ \A c \in Cpus : /\ handler'[c].pid = handler[c].pid
                              /\ handler'[c].pc = IF c = by THEN "recv" ELSE handler[c].pc
<1>1. handler \in [Cpus -> [pc : {"recv", "dump", "short"}, pid : PidOrNone]]
  BY DEF KernelTypes, HandlerStates
<1>2. CASE by = NoCpu
  BY <1>1, <1>2, DispatcherAssumption DEF HandlerStates
<1>3. CASE by # NoCpu
  <2>1. by \in Cpus /\ handler' = [handler EXCEPT ![by].pc = "recv"]
    BY <1>3
  <2>2. handler' \in [Cpus -> [pc : {"recv", "dump", "short"}, pid : PidOrNone]]
    BY <1>1, <2>1
  <2> QED BY <1>1, <2>1, <2>2 DEF HandlerStates
<1> QED BY <1>2, <1>3

\* What is held survives a step that leaves the lists and the pids alone.
LEMMA HeldBack ==
    ASSUME Held, UNCHANGED blocked, sched'.pc = "idle",
           \A c \in Cpus : /\ handler'[c].pid = handler[c].pid
                           /\ handler'[c].pc \in {"recv", handler[c].pc}
    PROVE  Held'
BY DEF Held

\* The choice of a CPU and of a process of READY.
LEMMA ChooseKeeps ==
    ASSUME KernelInv, NEW by \in Cpus \cup {NoCpu}, sched.pc = "idle", Choose(by), UNCHANGED lists
    PROVE  KernelTypes' /\ Held' /\ sched'.pc \in {"idle", "chosen"}
<1> USE DispatcherAssumption DEF KernelInv, Typed
<1>0. /\ current \in [Cpus -> PidOrNone] /\ ready \in Seq(Pids) /\ Range(ready) \subseteq Pids
      /\ handler \in [Cpus -> HandlerStates] /\ KernelTypes
  BY RangeElements DEF KernelTypes, ListTypes
<1> DEFINE free == { c \in Cpus : Free(c) }
<1>1. PICK c \in IF free # {} THEN free ELSE BusyCandidates :
        /\ current' = IF c \in free THEN [current EXCEPT ![c] = NoPid] ELSE current
        /\ \/ /\ c = NoCpu \/ ready = <<>>
              /\ sched' = Idle
              /\ handler' = IF by = NoCpu THEN handler ELSE [handler EXCEPT ![by].pc = "recv"]
           \/ /\ c # NoCpu
              /\ \E p \in ReadyCandidates :
                    sched' = [pc |-> "chosen", cpu |-> c, pid |-> p, by |-> by]
              /\ UNCHANGED handler
  BY DEF Choose
<1>2. c \in Cpus \cup {NoCpu}
  <2>1. BusyCandidates \subseteq Cpus \cup {NoCpu}
    BY DEF BusyCandidates
  <2> QED BY <1>1, <2>1
<1>3. current' \in [Cpus -> PidOrNone]
  BY <1>0, <1>1 DEF PidOrNone
<1>4. ReadyCandidates \subseteq Range(ready)
  BY <1>0, RangeElements DEF ReadyCandidates
<1>5. CASE sched' = Idle /\ handler' = IF by = NoCpu THEN handler ELSE [handler EXCEPT ![by].pc = "recv"]
  <2>1. /\ handler' \in [Cpus -> HandlerStates]
        /\ \A d \in Cpus : /\ handler'[d].pid = handler[d].pid
                           /\ handler'[d].pc = IF d = by THEN "recv" ELSE handler[d].pc
    BY <1>0, <1>5, HandlerBack
  <2>2. sched'.pc = "idle" /\ blocked' = blocked
    BY <1>5 DEF Idle, lists
  <2>3. Held'
    BY <2>1, <2>2, HeldBack
  <2> QED BY <1>3, <1>5, <2>1, <2>2, <2>3 DEF KernelTypes, Idle, PidOrNone
<1>6. ASSUME c # NoCpu, NEW p \in ReadyCandidates, UNCHANGED handler,
             sched' = [pc |-> "chosen", cpu |-> c, pid |-> p, by |-> by]
      PROVE  KernelTypes' /\ Held' /\ sched'.pc \in {"idle", "chosen"}
  <2>1. p \in Range(ready') /\ p \in PidOrNone
    BY <1>0, <1>4 DEF lists, PidOrNone
  <2>2. /\ sched'.pc = "chosen" /\ sched'.cpu = c /\ sched'.pid = p /\ c \in Cpus
        /\ sched' \in [pc : {"idle", "chosen", "waiting"}, cpu : Cpus \cup {NoCpu},
                       pid : PidOrNone, by : Cpus \cup {NoCpu}]
    BY <1>2, <1>6, <2>1
  <2>3. KernelTypes'
    BY <1>0, <1>3, <1>6, <2>2 DEF KernelTypes
  <2>4. Held'
    BY <1>6, <2>1, <2>2 DEF Held, lists
  <2> QED BY <2>2, <2>3, <2>4
<1> QED BY <1>1, <1>5, <1>6

\* A scheduler thread, or a handler, chooses.
LEMMA ShortKeeps ==
    ASSUME KernelInv, ShortThread \/ \E c \in Cpus : ShortInHandler(c)
    PROVE  KernelInv'
<1> USE DispatcherAssumption DEF KernelInv, Typed
<1>1. /\ UNCHANGED <<lists, exec_sem, wires, cpus, crashed>> /\ sched.pc = "idle"
      /\ \E by \in Cpus \cup {NoCpu} : Choose(by)
  BY DEF ShortThread, ShortInHandler, threads
<1>2. KernelTypes' /\ Held' /\ sched'.pc \in {"idle", "chosen"}
  BY <1>1, ChooseKeeps
<1>3. ThreadTypes'
  BY DEF ShortThread, ShortInHandler, ThreadTypes, threads
<1>4. ListTypes' /\ Apart'
  BY <1>1 DEF ListTypes, Apart, lists
<1>5. CpuTypes' /\ SignalTypes' /\ WireTypes' /\ FlagTypes'
  BY <1>1, CpuStateKept DEF wires
<1>6. Answered'
  BY <1>1, <1>2 DEF Answered, Signals, wires, cpus
<1> QED BY <1>2, <1>3, <1>4, <1>5, <1>6

\* READY -> EXEC: the process leaves the list `base`, which is READY with the
\* preempted one, for EXEC.
LEMMA DispatchToKeeps ==
    ASSUME KernelInv, NEW c \in Cpus, NEW p \in Pids, NEW base \in Seq(Pids), NEW rest \in SUBSET Pids,
           IsInjective(base), p \in Range(base), DispatchTo(c, p, base, rest),
           \A q \in Range(base) : q \notin new /\ q \notin rest /\ q \notin blocked /\ q \notin exited,
           \A q \in rest : q \in exec,
           Return, UNCHANGED <<new, blocked, exited, to_kernel>>
    PROVE  ListTypes' /\ Apart' /\ KernelTypes' /\ Held' /\ WireTypes' /\ sched'.pc = "idle"
<1> USE DispatcherAssumption DEF KernelInv, Typed
<1>0. /\ current \in [Cpus -> PidOrNone] /\ to_cpu \in [Cpus -> Seq(DispatchPackages)]
      /\ sched.by \in Cpus \cup {NoCpu} /\ KernelTypes
  BY DEF KernelTypes, WireTypes
<1>1. /\ ready' = RemoveFirst(base, p) /\ exec' = rest \cup {p}
      /\ to_cpu' = [to_cpu EXCEPT ![c] = Append(@, Dispatch(p))]
      /\ current' = [current EXCEPT ![c] = p]
  BY DEF DispatchTo
<1>2. ready' \in Seq(Pids) /\ Range(ready') = Range(base) \ {p} /\ IsInjective(ready')
  BY <1>1, RemoveFirstFacts
<1>3. ListTypes'
  BY <1>1, <1>2 DEF ListTypes
<1>4. Apart'
  BY <1>1, <1>2 DEF Apart
<1>5. current' \in [Cpus -> PidOrNone]
  BY <1>0, <1>1 DEF PidOrNone
<1>6. WireTypes'
  <2>1. Dispatch(p) \in DispatchPackages
    BY DEF Dispatch, DispatchPackages, PidOrNone
  <2>2. Append(to_cpu[c], Dispatch(p)) \in Seq(DispatchPackages)
    BY <1>0, <2>1, AppendFacts
  <2> QED BY <1>0, <1>1, <2>2 DEF WireTypes
<1>7. /\ handler' \in [Cpus -> HandlerStates]
      /\ \A d \in Cpus : /\ handler'[d].pid = handler[d].pid
                         /\ handler'[d].pc = IF d = sched.by THEN "recv" ELSE handler[d].pc
  BY <1>0, HandlerBack DEF Return
<1>8. sched' = Idle /\ sched'.pc = "idle"
  BY DEF Return, Idle
<1>9. KernelTypes'
  BY <1>5, <1>7, <1>8 DEF KernelTypes, Idle, PidOrNone
<1>10. Held'
  BY <1>7, <1>8, HeldBack
<1> QED BY <1>3, <1>4, <1>6, <1>8, <1>9, <1>10

\* The scheduler dispatches, preempts or gives up.
LEMMA SchedulerKeeps ==
    ASSUME KernelInv, DispatchFree \/ KeepRunning \/ SendInterrupt \/ AnswerSame \/ AnswerOther
    PROVE  KernelInv'
<1> USE DispatcherAssumption DEF KernelInv, Typed
<1>0. /\ sched.pc # "idle" /\ sched.cpu \in Cpus /\ sched.pid \in Range(ready) /\ sched.pid \in Pids
      /\ ready \in Seq(Pids) /\ exec \in SUBSET Pids /\ IsInjective(ready) /\ Range(ready) \subseteq Pids
      /\ \A q \in Range(ready) : q \notin new /\ q \notin exec /\ q \notin blocked /\ q \notin exited
      /\ sched.by \in Cpus \cup {NoCpu} /\ KernelTypes
  BY RangeElements DEF DispatchFree, KeepRunning, SendInterrupt, AnswerSame, AnswerOther, Held,
     ListTypes, Apart, KernelTypes
<1>1. ThreadTypes' /\ CpuTypes'
  BY CpuStateKept DEF DispatchFree, KeepRunning, SendInterrupt, AnswerSame, AnswerOther, ThreadTypes,
     threads
<1>2. CASE DispatchFree
  <2>1. ListTypes' /\ Apart' /\ KernelTypes' /\ Held' /\ WireTypes' /\ sched'.pc = "idle"
    BY <1>0, <1>2, DispatchToKeeps DEF DispatchFree
  <2>2. SignalTypes' /\ FlagTypes'
    BY <1>2, CpuStateKept DEF DispatchFree
  <2>3. Answered'
    BY <1>2, <2>1 DEF DispatchFree, Answered, Signals, cpus
  <2> QED BY <1>1, <2>1, <2>2, <2>3
<1>3. CASE KeepRunning
  <2>1. /\ handler' \in [Cpus -> HandlerStates]
        /\ \A d \in Cpus : /\ handler'[d].pid = handler[d].pid
                           /\ handler'[d].pc = IF d = sched.by THEN "recv" ELSE handler[d].pc
    BY <1>0, <1>3, HandlerBack DEF KeepRunning, Return
  <2>2. sched' = Idle /\ sched'.pc = "idle" /\ blocked' = blocked
    BY <1>3 DEF KeepRunning, Return, Idle, lists
  <2>3. Held'
    BY <2>1, <2>2, HeldBack
  <2>4. KernelTypes'
    BY <1>0, <1>3, <2>1, <2>2 DEF KernelTypes, KeepRunning, Idle, PidOrNone
  <2>5. ListTypes' /\ Apart'
    BY <1>3 DEF KeepRunning, ListTypes, Apart, lists
  <2>6. SignalTypes' /\ FlagTypes' /\ WireTypes'
    BY <1>3, CpuStateKept DEF KeepRunning, wires
  <2>7. Answered'
    BY <1>3, <2>2 DEF KeepRunning, Answered, Signals, cpus, wires
  <2> QED BY <1>1, <2>3, <2>4, <2>5, <2>6, <2>7
<1>4. CASE SendInterrupt
  <2>0. current \in [Cpus -> PidOrNone] /\ interrupt \in [Cpus -> PidOrNone]
    BY DEF KernelTypes, SignalTypes
  <2>1. /\ sched' = [sched EXCEPT !.pc = "waiting"]
        /\ interrupt' = [interrupt EXCEPT ![sched.cpu] = current[sched.cpu]]
        /\ current[sched.cpu] # NoPid /\ sched.pc = "chosen"
    BY <1>4 DEF SendInterrupt
  <2>2. /\ sched'.pc = "waiting" /\ sched'.cpu = sched.cpu /\ sched'.pid = sched.pid
        /\ sched' \in [pc : {"idle", "chosen", "waiting"}, cpu : Cpus \cup {NoCpu},
                       pid : PidOrNone, by : Cpus \cup {NoCpu}]
    BY <1>0, <2>1 DEF KernelTypes
  <2>3. KernelTypes' /\ Held'
    BY <1>0, <1>4, <2>2 DEF SendInterrupt, KernelTypes, Held, lists
  <2>4. ListTypes' /\ Apart' /\ WireTypes' /\ FlagTypes'
    BY <1>4 DEF SendInterrupt, ListTypes, Apart, WireTypes, FlagTypes, lists
  <2>5. SignalTypes'
    BY <1>0, <1>4, <2>0, <2>1 DEF SendInterrupt, SignalTypes, cpus
  <2>6. Answered'
    <3>1. \A c \in Cpus : interrupt[c] = NoPid /\ interrupt_list[c] = NoPid /\ context[c] = "none"
      BY <2>1 DEF Answered, Signals
    <3>2. \A c \in Cpus : interrupt_list'[c] = NoPid /\ context'[c] = "none"
      BY <1>4, <3>1 DEF SendInterrupt, cpus
    <3>3. \A c \in Cpus : IF c = sched.cpu THEN interrupt'[c] # NoPid ELSE interrupt'[c] = NoPid
      BY <1>0, <2>0, <2>1, <3>1
    <3> QED BY <2>2, <3>2, <3>3 DEF Answered, Signals
  <2> QED BY <1>1, <2>3, <2>4, <2>5, <2>6
<1>5. CASE AnswerSame \/ AnswerOther
  <2>0. /\ context' = [context EXCEPT ![sched.cpu] = "none"] /\ interrupt' = interrupt
        /\ interrupt_list' = interrupt_list /\ listener' = listener
        /\ context[sched.cpu] # "none" /\ sched.pc = "waiting"
        /\ context \in [Cpus -> {"none", "same", "other"}]
    BY <1>5 DEF AnswerSame, AnswerOther, cpus, SignalTypes
  <2>1. ListTypes' /\ Apart' /\ KernelTypes' /\ Held' /\ WireTypes' /\ sched'.pc = "idle"
    <3>1. CASE AnswerOther
      BY <1>0, <3>1, DispatchToKeeps DEF AnswerOther
    <3>2. CASE AnswerSame
      <4> DEFINE old == current[sched.cpu]
                 base == IF old \in exec THEN Append(ready, old) ELSE ready
      <4>1. /\ base \in Seq(Pids) /\ IsInjective(base) /\ sched.pid \in Range(base)
            /\ \A q \in Range(base) : q \in Range(ready) \/ (q = old /\ old \in exec)
        BY <1>0, AppendFacts
      <4>2. \A q \in Range(base) : q \notin new /\ q \notin exec \ {old} /\ q \notin blocked /\ q \notin exited
        BY <1>0, <4>1 DEF Apart
      <4>3. /\ DispatchTo(sched.cpu, sched.pid, base, exec \ {old}) /\ Return
            /\ UNCHANGED <<new, blocked, exited, to_kernel>>
        BY <3>2 DEF AnswerSame
      <4>4. exec \ {old} \in SUBSET Pids /\ \A q \in exec \ {old} : q \in exec
        BY <1>0
      <4> HIDE DEF base, old
      <4> QED BY <1>0, <4>1, <4>2, <4>3, <4>4, DispatchToKeeps
    <3> QED BY <1>5, <3>1, <3>2
  <2>2. SignalTypes'
    BY <1>0, <2>0 DEF SignalTypes
  <2>3. FlagTypes'
    BY <1>5 DEF AnswerSame, AnswerOther, FlagTypes
  <2>4. Answered'
    BY <1>0, <2>0, <2>1 DEF Answered, Signals
  <2> QED BY <1>1, <2>1, <2>2, <2>3, <2>4
<1> QED BY <1>2, <1>3, <1>4, <1>5

-----------------------------------------------------------------------------
(* run_long_scheduler and the handlers *)

\* NEW -> READY.
LEMMA LongThreadKeeps ==
    ASSUME KernelInv, LongThread
    PROVE  KernelInv'
<1> USE DispatcherAssumption DEF KernelInv, Typed
<1>1. PICK S \in SUBSET new : \E s \in SetToSeqs(S) : new' = new \ S /\ ready' = ready \o s
  BY DEF LongThread
<1>2. PICK s \in SetToSeqs(S) : new' = new \ S /\ ready' = ready \o s
  BY <1>1
<1>3. IsFiniteSet(S) /\ IsFiniteSet(new')
  BY <1>1, <1>2, FS_Subset, FS_Difference DEF Apart
<1>4. s \in Seq(S) /\ Range(s) = S /\ IsInjective(s)
  BY <1>3, SetToSeqsFacts
<1>5. S \subseteq Pids /\ ready \in Seq(Pids)
  BY <1>1 DEF ListTypes
<1>6. s \in Seq(Pids)
  BY <1>4, <1>5
<1>7. /\ ready' \in Seq(Pids) /\ Range(ready') = Range(ready) \cup S
      /\ IsInjective(ready') <=> IsInjective(ready) /\ IsInjective(s) /\ Range(ready) \cap S = {}
  BY <1>2, <1>4, <1>5, <1>6, ConcatFacts
<1>8. ListTypes' /\ ThreadTypes'
  BY <1>2, <1>7 DEF LongThread, ListTypes, ThreadTypes
<1>9. Apart'
  BY <1>1, <1>2, <1>3, <1>4, <1>7 DEF LongThread, Apart
<1>10. KernelTypes' /\ Held'
  BY <1>7 DEF LongThread, KernelTypes, Held
<1>11. CpuTypes' /\ SignalTypes' /\ WireTypes' /\ FlagTypes' /\ Answered'
  BY CpuStateKept DEF LongThread, wires
<1> QED BY <1>8, <1>9, <1>10, <1>11

\* The package of a system call leaves the socket.
LEMMA ReceivedKeeps ==
    ASSUME KernelInv, NEW c \in Cpus, NEW t, NEW p \in Pids, Received(c, t, p),
           UNCHANGED <<interrupt, context, sched, cpus>>,
           to_cpu' = to_cpu \/ to_cpu' = [to_cpu EXCEPT ![c] = Append(@, Confirmation)]
    PROVE  CpuTypes' /\ SignalTypes' /\ WireTypes' /\ Answered'
<1> USE DispatcherAssumption DEF KernelInv, Typed
<1>0. /\ to_cpu \in [Cpus -> Seq(DispatchPackages)] /\ to_kernel \in [Cpus -> Seq(SyscallPackages)]
      /\ to_kernel[c] # <<>> /\ to_kernel' = [to_kernel EXCEPT ![c] = Tail(@)]
  BY DEF WireTypes, Received
<1>1. Tail(to_kernel[c]) \in Seq(SyscallPackages)
  BY <1>0, TailFacts
<1>2. Confirmation \in DispatchPackages
  BY DEF Confirmation, DispatchPackages, PidOrNone
<1>3. Append(to_cpu[c], Confirmation) \in Seq(DispatchPackages)
  BY <1>0, <1>2, AppendFacts
<1>4. WireTypes'
  BY <1>0, <1>1, <1>3 DEF WireTypes
<1> QED BY <1>4, CpuStateKept

\* A process leaves EXEC, or nothing happens.
LEMMA LeaveExecKeeps ==
    ASSUME KernelInv, NEW p \in Pids, UNCHANGED <<new, ready, current, sched, handler>>,
           \/ UNCHANGED <<exec, blocked, exited>>
           \/ /\ p \in exec /\ exec' = exec \ {p}
              /\ \/ blocked' = blocked \cup {p} /\ exited' = exited
                 \/ exited' = exited \cup {p} /\ blocked' = blocked
    PROVE  ListTypes' /\ Apart' /\ KernelTypes' /\ Held'
BY DEF KernelInv, Typed, ListTypes, Apart, KernelTypes, Held

\* INIT_PROC, EXIT and IO.
LEMMA SyscallKeeps ==
    ASSUME KernelInv, NEW c \in Cpus, NEW p \in Pids,
           \/ handle_init_proc(c, p) \/ exit_process(c, p)
           \/ handle_io_process(c, p) \/ handle_io_connection_not_found(c, p)
    PROVE  KernelInv'
<1> USE DispatcherAssumption DEF KernelInv, Typed
<1>1. CpuTypes' /\ SignalTypes' /\ WireTypes' /\ Answered'
  BY ReceivedKeeps DEF handle_init_proc, exit_process, handle_io_process, handle_io_connection_not_found
<1>2. ThreadTypes'
  BY DEF handle_init_proc, exit_process, handle_io_process, handle_io_connection_not_found,
         ExitFromExec, Received, ThreadTypes
<1>3. FlagTypes'
  <2>1. crashed' = crashed \/ crashed' = TRUE
    BY DEF handle_init_proc, exit_process, handle_io_process, handle_io_connection_not_found,
           ExitFromExec
  <2>2. exec_sem' = exec_sem
    BY DEF handle_init_proc, exit_process, handle_io_process, handle_io_connection_not_found
  <2>3. crashed' \in BOOLEAN
    BY <2>1 DEF FlagTypes
  <2> QED BY <2>2, <2>3 DEF FlagTypes
<1>4. CASE handle_init_proc(c, p)
  <2>1. /\ UNCHANGED <<exec, blocked, exited, ready, current, sched, handler>>
        /\ new' = new \/ \E q \in Unborn : new' = new \cup {q}
    BY <1>4 DEF handle_init_proc
  <2>2. ASSUME NEW q \in Unborn, new' = new \cup {q} PROVE ListTypes' /\ Apart'
    <3>1. IsFiniteSet(new')
      BY <2>2, FS_AddElement DEF Apart
    <3>2. /\ q \in Pids /\ q \notin new /\ q \notin exec /\ q \notin blocked /\ q \notin exited
          /\ q \notin Range(ready)
      BY DEF Unborn
    <3> QED BY <2>1, <2>2, <3>1, <3>2 DEF ListTypes, Apart
  <2>3. CASE new' = new
    BY <2>1, <2>3, <1>1, <1>2, <1>3 DEF ListTypes, Apart, KernelTypes, Held
  <2>4. KernelTypes' /\ Held'
    BY <2>1 DEF KernelTypes, Held
  <2> QED BY <2>1, <2>2, <2>3, <2>4, <1>1, <1>2, <1>3
<1>5. CASE exit_process(c, p) \/ handle_io_connection_not_found(c, p) \/ handle_io_process(c, p)
  <2>1. ListTypes' /\ Apart' /\ KernelTypes' /\ Held'
    BY <1>5, LeaveExecKeeps DEF exit_process, handle_io_process, handle_io_connection_not_found,
       ExitFromExec
  <2> QED BY <2>1, <1>1, <1>2, <1>3
<1> QED BY <1>4, <1>5

\* DUMP_MEMORY: the handler keeps the process that it puts into BLOCKED.
LEMMA DumpKeeps ==
    ASSUME KernelInv, NEW c \in Cpus, NEW p \in Pids, dump_memory(c, p)
    PROVE  KernelInv'
<1> USE DispatcherAssumption DEF KernelInv, Typed
<1>1. CpuTypes' /\ SignalTypes' /\ WireTypes' /\ Answered'
  BY ReceivedKeeps DEF dump_memory
<1>2. ThreadTypes' /\ FlagTypes'
  BY DEF dump_memory, ThreadTypes, FlagTypes, threads
<1>3. CASE p \notin exec
  <2>1. ListTypes' /\ Apart' /\ KernelTypes' /\ Held'
    BY <1>3, LeaveExecKeeps DEF dump_memory
  <2> QED BY <2>1, <1>1, <1>2
<1>4. CASE p \in exec
  <2>1. /\ exec' = exec \ {p} /\ blocked' = blocked \cup {p}
        /\ handler' = [handler EXCEPT ![c] = [pc |-> "dump", pid |-> p]]
        /\ UNCHANGED <<new, exited, ready, current, sched>>
    BY <1>4 DEF dump_memory
  <2>2. p \notin blocked /\ p \notin exited /\ p \notin new /\ p \notin Range(ready) /\ p # NoPid
    BY <1>4 DEF Apart
  <2>3. ListTypes' /\ Apart'
    BY <2>1, <2>2 DEF ListTypes, Apart
  <2>4. handler \in [Cpus -> HandlerStates] /\ handler' \in [Cpus -> HandlerStates]
    BY <2>1 DEF KernelTypes, HandlerStates, PidOrNone
  <2>5. /\ handler'[c].pc = "dump" /\ handler'[c].pid = p
        /\ \A d \in Cpus : d # c => handler'[d] = handler[d]
    BY <2>1, <2>4
  <2>6. KernelTypes'
    BY <2>1, <2>4 DEF KernelTypes
  <2>7. Held'
    BY <2>1, <2>2, <2>5 DEF Held
  <2> QED BY <2>3, <2>6, <2>7, <1>1, <1>2
<1> QED BY <1>3, <1>4

\* The dump is answered: the process is still in BLOCKED, and only this handler
\* moves it.
LEMMA DumpAnsweredKeeps ==
    ASSUME KernelInv, NEW c \in Cpus, DumpAnswered(c)
    PROVE  KernelInv'
<1> USE DispatcherAssumption DEF KernelInv, Typed
<1>1. CpuTypes' /\ SignalTypes' /\ WireTypes' /\ FlagTypes' /\ Answered'
  BY CpuStateKept DEF DumpAnswered, wires
<1>2. ThreadTypes'
  BY DEF DumpAnswered, ThreadTypes, threads
<1> DEFINE p == handler[c].pid
<1>3. /\ blocked' = blocked \ {p} /\ UNCHANGED <<new, exec, current, sched>> /\ sched.pc = "idle"
      /\ \/ ready' = Append(ready, p) /\ exited' = exited
         \/ ready' = ready /\ exited' = exited \cup {p}
      /\ \E pc \in {"recv", "short"} : handler' = [handler EXCEPT ![c] = [pc |-> pc, pid |-> NoPid]]
  BY DEF DumpAnswered
<1>4. p \in blocked /\ p # NoPid /\ \A d \in Cpus : d # c => handler[d].pid # p
  BY DEF DumpAnswered, Held
<1>5. p \in Pids /\ p \notin exited /\ p \notin new /\ p \notin exec /\ p \notin Range(ready)
  BY <1>4 DEF Apart, ListTypes
<1>6. handler \in [Cpus -> HandlerStates] /\ handler' \in [Cpus -> HandlerStates]
  BY <1>3 DEF KernelTypes, HandlerStates, PidOrNone
<1>7. handler'[c].pc # "dump" /\ handler'[c].pid = NoPid /\ \A d \in Cpus : d # c => handler'[d] = handler[d]
  BY <1>3, <1>6
<1>8. ready \in Seq(Pids)
  BY DEF ListTypes
<1> HIDE DEF p
<1>9. ready' \in Seq(Pids) /\ IsInjective(ready') /\ Range(ready') \subseteq Range(ready) \cup {p}
      /\ (p \in exited' => Range(ready') = Range(ready))
  <2>1. CASE ready' = Append(ready, p) /\ exited' = exited
    <3>1. /\ Append(ready, p) \in Seq(Pids) /\ Range(Append(ready, p)) = Range(ready) \cup {p}
          /\ IsInjective(ready) /\ p \notin Range(ready) => IsInjective(Append(ready, p))
      BY <1>5, <1>8, AppendFacts
    <3>2. IsInjective(ready)
      BY DEF Apart
    <3> QED BY <1>5, <2>1, <3>1, <3>2
  <2>2. CASE ready' = ready /\ exited' = exited \cup {p}
    BY <1>8, <2>2 DEF Apart
  <2> QED BY <1>3, <2>1, <2>2
<1>10. ListTypes' /\ Apart'
  BY <1>3, <1>4, <1>5, <1>9 DEF ListTypes, Apart
<1>11. KernelTypes'
  BY <1>3, <1>6 DEF KernelTypes
<1>12. Held'
  BY <1>3, <1>4, <1>7 DEF Held
<1> QED BY <1>1, <1>2, <1>10, <1>11, <1>12

\* The end of an IO.
LEMMA IoCompletionKeeps ==
    ASSUME KernelInv, NEW p \in Pids, IoCompletion(p)
    PROVE  KernelInv'
<1> USE DispatcherAssumption DEF KernelInv, Typed
<1>1. CpuTypes' /\ SignalTypes' /\ WireTypes' /\ FlagTypes' /\ Answered'
  BY CpuStateKept DEF IoCompletion, wires
<1>2. ThreadTypes'
  BY DEF IoCompletion, ThreadTypes
<1>3. ready \in Seq(Pids)
  BY DEF ListTypes
<1>4. /\ ready' \in Seq(Pids) /\ Range(ready') = Range(ready) \cup {p}
      /\ IsInjective(ready')
  BY <1>3, AppendFacts DEF IoCompletion, Apart
<1>5. ListTypes' /\ Apart'
  BY <1>4 DEF IoCompletion, ListTypes, Apart
<1>6. KernelTypes' /\ Held'
  BY <1>4 DEF IoCompletion, KernelTypes, Held
<1> QED BY <1>1, <1>2, <1>5, <1>6

-----------------------------------------------------------------------------
(* Every configuration. *)

\* Every step keeps the invariant.
LEMMA NextKernelInv == KernelInv /\ [Next]_vars => KernelInv'
<1> SUFFICES ASSUME KernelInv, [Next]_vars PROVE KernelInv'
  OBVIOUS
<1>1. CASE UNCHANGED vars
  <2>1. ListTypes' /\ ThreadTypes' /\ KernelTypes' /\ FlagTypes' /\ Apart' /\ Held'
    BY <1>1, KernelStateKept DEF vars, KernelState
  <2>2. CpuTypes' /\ SignalTypes' /\ WireTypes' /\ Answered'
    BY <1>1, CpuStateKept DEF vars, wires
  <2> QED BY <2>1, <2>2 DEF KernelInv, Typed
<1>2. CASE Scheduler
  BY <1>2, ShortKeeps, SchedulerKeeps, LongThreadKeeps DEF Scheduler
<1>3. ASSUME NEW c \in Cpus, Handler(c) PROVE KernelInv'
  BY <1>3, SyscallKeeps, DumpKeeps, DumpAnsweredKeeps DEF Handler
<1> QED BY <1>1, <1>2, <1>3, CpuKeeps, ListenerKeeps, IoCompletionKeeps DEF Next

\* The invariant holds always.
THEOREM KernelInvariant == Spec => []KernelInv
BY InitKernelInv, NextKernelInv, PTL DEF Spec

\* The types of the kernel's and the CPUs' state, and the bound on detached
\* threads, for every configuration.
THEOREM TypeCorrect == Spec => []TypeOK
<1>1. KernelInv => TypeOK
  BY TypedIsTypeOK DEF KernelInv
<1> QED BY <1>1, KernelInvariant, PTL

\* A process is in at most one list, and once in READY, with or without
\* preemption and for any number of CPUs: what the scheduler and the dump handlers
\* remember while they hold no list lock is still so when they use it.
THEOREM OneListAlways == Spec => []OneList
<1>1. KernelInv => OneList
  BY ApartIsOneList DEF KernelInv
<1> QED BY <1>1, KernelInvariant, PTL

\* INTERRUPT and CPU_CONTEXT alternate: run_short_scheduler never takes the answer
\* to an earlier interrupt, whichever of the CPU's two threads answers.
THEOREM InterruptsAlternate == Spec => []OneAnswerPerInterrupt
<1>1. KernelInv => OneAnswerPerInterrupt
  BY AnsweredIsOneAnswer DEF KernelInv
<1> QED BY <1>1, KernelInvariant, PTL

-----------------------------------------------------------------------------
(* Without preemption: who serves a process in EXEC. *)

\* The CPU is between two bursts, or about to leave one that a system call ended.
Ended(c) == (cpu_pc[c] = "recv" /\ ~preempt[c]) \/ (cpu_pc[c] = "check" /\ preempt[c])

\* CPU c has nothing to do for any process.
Rests(c) == to_cpu[c] = <<>> /\ to_kernel[c] = <<>> /\ Ended(c)

\* The four stages in which CPU c has process p: its DISPATCH is unread, it runs,
\* INIT_PROC waits for its confirmation, the system call that ends the burst is on
\* the way to the handler.
Sent(c, p) == to_cpu[c] = <<Dispatch(p)>> /\ to_kernel[c] = <<>> /\ Ended(c)
Runs(c, p) ==
    /\ to_cpu[c] = <<>> /\ to_kernel[c] = <<>>
    /\ cpu_pc[c] \in {"exec", "check"} /\ ~preempt[c] /\ cpu_pid[c] = p
Confirms(c, p) ==
    /\ cpu_pc[c] = "confirm" /\ ~preempt[c] /\ cpu_pid[c] = p
    /\ \/ to_kernel[c] = <<Syscall("INIT_PROC", p)>> /\ to_cpu[c] = <<>>
       \/ to_kernel[c] = <<>> /\ to_cpu[c] = <<Confirmation>>
Calls(c, p) ==
    /\ \E t \in Instructions \ {"INIT_PROC"} : to_kernel[c] = <<Syscall(t, p)>>
    /\ to_cpu[c] = <<>> /\ Ended(c)
Serves(c, p) == Sent(c, p) \/ Runs(c, p) \/ Confirms(c, p) \/ Calls(c, p)

\* A CPU that does not rest serves the process its connection names, which is in
\* EXEC; every process in EXEC has one such CPU.  The connection of a CPU that
\* rests may name any process: current_process_executing is not cleared.
Served ==
    /\ ~crashed /\ sched.pc # "waiting"
    /\ \A c \in Cpus : Rests(c) \/ (current[c] \in exec /\ Serves(c, current[c]))
    /\ \A p \in exec : \E c \in Cpus : ~Rests(c) /\ current[c] = p
    /\ \A c, d \in Cpus : ~Rests(c) /\ ~Rests(d) /\ current[c] = current[d] => c = d

\* A step leaves CPU d and its socket alone.
SameCpu(d) ==
    /\ to_cpu'[d] = to_cpu[d] /\ to_kernel'[d] = to_kernel[d]
    /\ cpu_pc'[d] = cpu_pc[d] /\ preempt'[d] = preempt[d] /\ cpu_pid'[d] = cpu_pid[d]

LEMMA SameCpuServes ==
    ASSUME NEW d \in Cpus, SameCpu(d)
    PROVE  (Rests(d)' <=> Rests(d)) /\ (\A p : Serves(d, p)' <=> Serves(d, p))
BY DEF SameCpu, Rests, Serves, Sent, Runs, Confirms, Calls, Ended

\* What the kernel does outside EXEC disturbs no CPU.
LEMMA ServedKept ==
    ASSUME Served, UNCHANGED <<exec, current, crashed>>, sched'.pc # "waiting",
           \A d \in Cpus : SameCpu(d)
    PROVE  Served'
<1>1. \A d \in Cpus : (Rests(d)' <=> Rests(d)) /\ (\A p : Serves(d, p)' <=> Serves(d, p))
  BY SameCpuServes
<1> QED BY <1>1 DEF Served

\* A step of one CPU takes its process from one stage to the next.
LEMMA ServedStep ==
    ASSUME Served, NEW c \in Cpus, UNCHANGED <<exec, current, crashed, sched>>,
           \A d \in Cpus : d # c => SameCpu(d),
           Rests(c) => Rests(c)',
           ~Rests(c) => Serves(c, current[c])'
    PROVE  Served'
<1>1. \A d \in Cpus : d # c => (Rests(d)' <=> Rests(d)) /\ (\A p : Serves(d, p)' <=> Serves(d, p))
  BY SameCpuServes
<1>2. Serves(c, current[c])' => ~Rests(c)'
  <2>1. Sent(c, current[c])' => ~Rests(c)'
    BY DEF Sent, Rests
  <2>2. Runs(c, current[c])' => ~Rests(c)'
    BY DEF Runs, Rests, Ended
  <2>3. Confirms(c, current[c])' => ~Rests(c)'
    BY DEF Confirms, Rests, Ended
  <2>4. Calls(c, current[c])' => ~Rests(c)'
    BY DEF Calls, Rests
  <2> QED BY <2>1, <2>2, <2>3, <2>4 DEF Serves
<1> QED BY <1>1, <1>2 DEF Served

\* Without preemption no interrupt is under way.
LEMMA NoInterrupt ==
    ASSUME KernelInv, Served, NEW c \in Cpus
    PROVE  interrupt[c] = NoPid /\ interrupt_list[c] = NoPid /\ context[c] = "none"
BY DEF KernelInv, Answered, Signals, Served

\* The steps of a CPU.
LEMMA CpuServed ==
    ASSUME KernelInv, Served, NEW c \in Cpus, Execute(c)
    PROVE  Served'
<1> DEFINE p == current[c]
<1>0. /\ to_cpu \in [Cpus -> Seq(DispatchPackages)] /\ to_kernel \in [Cpus -> Seq(SyscallPackages)]
      /\ cpu_pc \in [Cpus -> {"recv", "exec", "confirm", "check"}] /\ preempt \in [Cpus -> BOOLEAN]
      /\ cpu_pid \in [Cpus -> PidOrNone]
  BY DEF KernelInv, Typed, WireTypes, CpuTypes
<1>1. UNCHANGED <<exec, current, crashed, sched>> /\ \A d \in Cpus : d # c => SameCpu(d)
  BY <1>0 DEF Execute, recv_dispatch, RecvUnexpected, ExecuteLocal, ExecuteSyscall,
     RecvConfirmation, EndInstruction, SameCpu, lists, wires
<1>2. Rests(c) \/ (p \in exec /\ Serves(c, p))
  BY DEF Served
<1>3. CASE recv_dispatch(c) \/ RecvUnexpected(c)
  <2>1. Sent(c, p) /\ ~Rests(c)
    BY <1>2, <1>3 DEF recv_dispatch, RecvUnexpected, Rests, Serves, Runs, Confirms, Calls
  <2>2. Head(to_cpu[c]) = Dispatch(p) /\ Tail(to_cpu[c]) = <<>>
    BY <2>1 DEF Sent
  <2>3. ~RecvUnexpected(c)
    BY <2>2 DEF RecvUnexpected, Dispatch
  <2>4. to_cpu'[c] = <<>> /\ to_kernel'[c] = <<>> /\ cpu_pc'[c] = "exec" /\ cpu_pid'[c] = p
    BY <1>0, <1>3, <2>1, <2>2, <2>3 DEF recv_dispatch, Sent, Dispatch
  <2>5. ~preempt'[c]
    BY <1>3, <2>1, <2>3 DEF recv_dispatch, Sent, Ended
  <2>6. Runs(c, p)'
    BY <1>1, <2>4, <2>5 DEF Runs
  <2> QED BY <1>1, <2>1, <2>6, ServedStep DEF Serves
<1>4. CASE ExecuteLocal(c)
  <2>1. Runs(c, p) /\ ~Rests(c)
    BY <1>2, <1>4 DEF ExecuteLocal, Rests, Serves, Sent, Confirms, Calls, Ended
  <2>2. UNCHANGED <<to_cpu, to_kernel, cpu_pid>> /\ cpu_pc'[c] = "check"
    BY <1>0, <1>4 DEF ExecuteLocal, wires
  <2>3. ~preempt'[c]
    BY <1>0, <1>4 DEF ExecuteLocal
  <2>4. Runs(c, p)'
    BY <1>1, <2>1, <2>2, <2>3 DEF Runs
  <2> QED BY <1>1, <2>1, <2>4, ServedStep DEF Serves
<1>5. ASSUME NEW t \in Instructions, ExecuteSyscall(c, t) PROVE Served'
  <2>1. Runs(c, p) /\ ~Rests(c)
    BY <1>2, <1>5 DEF ExecuteSyscall, Rests, Serves, Sent, Confirms, Calls, Ended
  <2>2. /\ to_cpu'[c] = <<>> /\ to_kernel'[c] = <<Syscall(t, p)>> /\ cpu_pid'[c] = p
        /\ cpu_pc'[c] = IF t = "INIT_PROC" THEN "confirm" ELSE "check"
    BY <1>0, <1>5, <2>1 DEF ExecuteSyscall, Runs
  <2>3. preempt'[c] <=> t # "INIT_PROC"
    BY <1>0, <1>5 DEF ExecuteSyscall
  <2>4. CASE t = "INIT_PROC"
    <3>1. Confirms(c, p)'
      BY <1>1, <2>2, <2>3, <2>4 DEF Confirms
    <3> QED BY <1>1, <2>1, <3>1, ServedStep DEF Serves
  <2>5. CASE t # "INIT_PROC"
    <3>1. Calls(c, p)'
      BY <1>1, <2>2, <2>3, <2>5 DEF Calls, Ended
    <3> QED BY <1>1, <2>1, <3>1, ServedStep DEF Serves
  <2> QED BY <2>4, <2>5
<1>6. CASE RecvConfirmation(c)
  <2>1. Confirms(c, p) /\ ~Rests(c) /\ to_cpu[c] = <<Confirmation>> /\ to_kernel[c] = <<>>
    BY <1>2, <1>6 DEF RecvConfirmation, Rests, Serves, Sent, Runs, Confirms, Calls, Ended
  <2>2. Head(to_cpu[c]) = Confirmation /\ Tail(to_cpu[c]) = <<>>
    BY <2>1
  <2>3. to_cpu'[c] = <<>> /\ to_kernel'[c] = <<>> /\ cpu_pc'[c] = "check" /\ cpu_pid'[c] = p
    BY <1>0, <1>6, <2>1, <2>2 DEF RecvConfirmation, Confirms
  <2>4. ~preempt'[c]
    BY <1>0, <1>6, <2>2 DEF RecvConfirmation
  <2>5. Runs(c, p)'
    BY <1>1, <2>3, <2>4 DEF Runs
  <2> QED BY <1>1, <2>1, <2>5, ServedStep DEF Serves
<1>7. CASE EndInstruction(c)
  <2>0. interrupt_list[c] = NoPid /\ UNCHANGED <<to_cpu, to_kernel>> /\ cpu_pc[c] = "check"
    BY <1>7, NoInterrupt DEF EndInstruction
  <2>1. ~preempt'[c]
    BY <1>0, <1>7 DEF EndInstruction
  <2>2. CASE preempt[c]
    <3>1. cpu_pc'[c] = "recv"
      BY <1>0, <1>7, <2>2 DEF EndInstruction
    <3>2. Ended(c) /\ Ended(c)'
      BY <2>0, <2>1, <2>2, <3>1 DEF Ended
    <3>3. ~Runs(c, p) /\ ~Confirms(c, p)
      BY <2>2 DEF Runs, Confirms
    <3>4. (Rests(c) => Rests(c)') /\ (Sent(c, p) => Sent(c, p)') /\ (Calls(c, p) => Calls(c, p)')
      BY <1>1, <2>0, <3>2 DEF Rests, Sent, Calls
    <3> QED BY <1>1, <1>2, <3>3, <3>4, ServedStep DEF Serves
  <2>3. CASE ~preempt[c]
    <3>1. cpu_pc'[c] = "exec" /\ cpu_pid' = cpu_pid
      BY <1>0, <1>7, <2>0, <2>3 DEF EndInstruction
    <3>2. Runs(c, p) /\ ~Rests(c)
      BY <1>2, <2>0, <2>3 DEF Rests, Serves, Sent, Confirms, Calls, Ended
    <3>3. Runs(c, p)'
      BY <1>1, <2>0, <2>1, <3>1, <3>2 DEF Runs
    <3> QED BY <1>1, <3>2, <3>3, ServedStep DEF Serves
  <2> QED BY <2>2, <2>3
<1> QED BY <1>3, <1>4, <1>5, <1>6, <1>7 DEF Execute

\* The interrupt listener has nothing to do.
LEMMA ListenerServed ==
    ASSUME KernelInv, Served, NEW c \in Cpus, Listener(c)
    PROVE  Served'
<1>1. UNCHANGED <<exec, current, crashed, sched>> /\ \A d \in Cpus : SameCpu(d)
  BY DEF Listener, ListenerRecv, ListenerHandle, SameCpu, lists
<1> QED BY <1>1, ServedKept DEF Served

\* The sender of a system call is in EXEC, and its CPU has nothing else under way.
LEMMA CallerServed ==
    ASSUME KernelInv, Served, NEW c \in Cpus, NEW t, NEW p, Received(c, t, p)
    PROVE  /\ p = current[c] /\ p \in exec /\ ~Rests(c)
           /\ to_cpu[c] = <<>> /\ to_kernel'[c] = <<>>
           /\ IF t = "INIT_PROC" THEN Confirms(c, p) ELSE Ended(c)
<1> DEFINE q == current[c]
<1>0. to_kernel \in [Cpus -> Seq(SyscallPackages)]
  BY DEF KernelInv, Typed, WireTypes
<1>1. /\ to_kernel[c] # <<>> /\ Head(to_kernel[c]) = Syscall(t, p)
      /\ to_kernel' = [to_kernel EXCEPT ![c] = Tail(@)]
  BY DEF Received
<1>2. ~Rests(c) /\ q \in exec /\ (Confirms(c, q) \/ Calls(c, q))
  BY <1>1 DEF Served, Rests, Serves, Sent, Runs
<1>3. CASE Confirms(c, q)
  <2>1. to_kernel[c] = <<Syscall("INIT_PROC", q)>> /\ to_cpu[c] = <<>>
    BY <1>1, <1>3 DEF Confirms
  <2>2. Syscall(t, p) = Syscall("INIT_PROC", q) /\ Tail(to_kernel[c]) = <<>>
    BY <1>1, <2>1
  <2>3. t = "INIT_PROC" /\ p = q
    BY <2>2 DEF Syscall
  <2> QED BY <1>0, <1>1, <1>2, <1>3, <2>1, <2>2, <2>3
<1>4. CASE Calls(c, q)
  <2>1. PICK u \in Instructions \ {"INIT_PROC"} : to_kernel[c] = <<Syscall(u, q)>>
    BY <1>4 DEF Calls
  <2>2. Syscall(t, p) = Syscall(u, q) /\ Tail(to_kernel[c]) = <<>>
    BY <1>1, <2>1
  <2>3. t = u /\ p = q
    BY <2>2 DEF Syscall
  <2> QED BY <1>0, <1>1, <1>2, <1>4, <2>1, <2>2, <2>3 DEF Calls
<1> QED BY <1>2, <1>3, <1>4

\* A process that leaves EXEC with its system call leaves its CPU at rest.
LEMMA LeaveServed ==
    ASSUME KernelInv, Served, NEW c \in Cpus, NEW t, NEW p, Received(c, t, p), t # "INIT_PROC",
           exec' = exec \ {p}, UNCHANGED <<to_cpu, cpus, current, crashed, sched>>
    PROVE  Served'
<1>1. /\ p = current[c] /\ p \in exec /\ ~Rests(c)
      /\ to_cpu[c] = <<>> /\ to_kernel'[c] = <<>> /\ Ended(c)
  BY CallerServed
<1>2. Rests(c)'
  BY <1>1 DEF Rests, Ended, cpus
<1>3. \A d \in Cpus : d # c => SameCpu(d)
  BY DEF Received, SameCpu, cpus
<1>4. \A d \in Cpus : d # c => (Rests(d)' <=> Rests(d)) /\ (\A q : Serves(d, q)' <=> Serves(d, q))
  BY <1>3, SameCpuServes
<1>5. \A d \in Cpus : d # c /\ ~Rests(d) => current[d] # p
  BY <1>1 DEF Served
<1> QED BY <1>1, <1>2, <1>4, <1>5 DEF Served

\* The system calls.
LEMMA HandlerServed ==
    ASSUME KernelInv, Served, NEW c \in Cpus, Handler(c)
    PROVE  Served'
<1>1. ASSUME NEW p \in Pids, handle_init_proc(c, p) PROVE Served'
  <2>0. to_cpu \in [Cpus -> Seq(DispatchPackages)] /\ to_kernel \in [Cpus -> Seq(SyscallPackages)]
    BY DEF KernelInv, Typed, WireTypes
  <2>1. /\ p = current[c] /\ p \in exec /\ ~Rests(c)
        /\ to_cpu[c] = <<>> /\ to_kernel'[c] = <<>> /\ Confirms(c, p)
    BY <1>1, CallerServed DEF handle_init_proc
  <2>2. /\ to_cpu' = [to_cpu EXCEPT ![c] = Append(@, Confirmation)]
        /\ to_kernel' = [to_kernel EXCEPT ![c] = Tail(@)]
        /\ UNCHANGED <<exec, current, crashed, sched, cpu_pc, cpu_pid, preempt>>
    BY <1>1, <2>1 DEF handle_init_proc, Received, cpus
  <2>3. to_cpu'[c] = <<Confirmation>>
    BY <2>0, <2>1, <2>2
  <2>4. Confirms(c, p)'
    BY <2>1, <2>2, <2>3 DEF Confirms
  <2>5. \A d \in Cpus : d # c => SameCpu(d)
    BY <2>0, <2>2 DEF SameCpu
  <2> QED BY <2>1, <2>2, <2>4, <2>5, ServedStep DEF Serves
<1>2. ASSUME NEW p \in Pids, exit_process(c, p) PROVE Served'
  BY <1>2, CallerServed, LeaveServed DEF exit_process, ExitFromExec
<1>3. ASSUME NEW p \in Pids, handle_io_process(c, p) PROVE Served'
  BY <1>3, CallerServed, LeaveServed DEF handle_io_process
<1>4. ASSUME NEW p \in Pids, handle_io_connection_not_found(c, p) PROVE Served'
  BY <1>4, CallerServed, LeaveServed DEF handle_io_connection_not_found, ExitFromExec
<1>5. ASSUME NEW p \in Pids, dump_memory(c, p) PROVE Served'
  BY <1>5, CallerServed, LeaveServed DEF dump_memory
<1>6. CASE DumpAnswered(c)
  <2>1. UNCHANGED <<exec, current, crashed, sched>> /\ \A d \in Cpus : SameCpu(d)
    BY <1>6 DEF DumpAnswered, SameCpu, wires, cpus
  <2> QED BY <2>1, ServedKept DEF Served
<1> QED BY <1>1, <1>2, <1>3, <1>4, <1>5, <1>6 DEF Handler

\* A CPU that counts as free rests.
LEMMA FreeRests ==
    ASSUME KernelInv, Served, NEW c \in Cpus, Free(c)
    PROVE  Rests(c)
<1>1. exec \subseteq Pids /\ NoPid \notin Pids
  BY DispatcherAssumption DEF KernelInv, Typed, ListTypes
<1> QED BY <1>1 DEF Served, Free

\* The scheduler: it clears the connection of a CPU that rests, and dispatches to it.
LEMMA SchedulerServed ==
    ASSUME ~Preemption, KernelInv, Served, Scheduler
    PROVE  Served'
<1>0. /\ current \in [Cpus -> PidOrNone] /\ to_cpu \in [Cpus -> Seq(DispatchPackages)]
      /\ NoPid \notin Pids /\ exec \subseteq Pids
  BY DispatcherAssumption DEF KernelInv, Typed, KernelTypes, WireTypes, ListTypes
<1>1. CASE ShortThread \/ \E c \in Cpus : ShortInHandler(c)
  <2>1. /\ UNCHANGED <<lists, wires, cpus, crashed>> /\ sched.pc = "idle"
        /\ \E by \in Cpus \cup {NoCpu} : Choose(by)
    BY <1>1 DEF ShortThread, ShortInHandler
  <2>2. sched'.pc \in {"idle", "chosen"}
    BY <2>1, ChooseKeeps
  <2>3. \A d \in Cpus : SameCpu(d)
    BY <2>1 DEF SameCpu, wires, cpus
  <2>4. current' = current \/ \E c \in Cpus : Free(c) /\ current' = [current EXCEPT ![c] = NoPid]
    BY <2>1 DEF Choose
  <2>5. \A d \in Cpus : ~Rests(d) => current'[d] = current[d]
    BY <1>0, <2>4, FreeRests
  <2>6. \A d \in Cpus : (Rests(d)' <=> Rests(d)) /\ (\A p : Serves(d, p)' <=> Serves(d, p))
    BY <2>3, SameCpuServes
  <2> QED BY <2>1, <2>2, <2>5, <2>6 DEF Served, lists
<1>2. CASE DispatchFree
  <2>0. PICK c \in Cpus, p \in Range(ready) : c = sched.cpu /\ p = sched.pid
    BY <1>2 DEF DispatchFree, KernelInv, Held
  <2>1. /\ c \in Cpus /\ p \in Range(ready) /\ current[c] = NoPid /\ p \notin exec
    BY <1>2, <2>0 DEF DispatchFree, KernelInv, Apart
  <2>2. Rests(c)
    BY <2>1, FreeRests DEF Free
  <2>3. /\ exec' = exec \cup {p} /\ to_cpu' = [to_cpu EXCEPT ![c] = Append(@, Dispatch(p))]
        /\ current' = [current EXCEPT ![c] = p]
        /\ UNCHANGED <<to_kernel, cpus, crashed>> /\ sched' = Idle
    BY <1>2, <2>0 DEF DispatchFree, DispatchTo, Return
  <2>4. to_cpu'[c] = <<Dispatch(p)>>
    BY <1>0, <2>1, <2>2, <2>3 DEF Rests
  <2>5. Sent(c, p)'
    BY <2>2, <2>3, <2>4 DEF Sent, Rests, Ended, cpus
  <2>6. \A d \in Cpus : d # c => SameCpu(d)
    BY <1>0, <2>3 DEF SameCpu, cpus
  <2>7. \A d \in Cpus : d # c => (Rests(d)' <=> Rests(d)) /\ (\A q : Serves(d, q)' <=> Serves(d, q))
    BY <2>6, SameCpuServes
  <2>8. current'[c] = p /\ \A d \in Cpus : d # c => current'[d] = current[d]
    BY <1>0, <2>1, <2>3
  <2>9. ~Rests(c)'
    BY <2>5 DEF Sent, Rests
  <2>10. sched'.pc # "waiting"
    BY <2>3 DEF Idle
  <2>11. Serves(c, p)'
    BY <2>5 DEF Serves
  <2> QED BY <2>1, <2>2, <2>3, <2>7, <2>8, <2>9, <2>10, <2>11 DEF Served
<1>3. CASE KeepRunning \/ LongThread
  <2>1. /\ UNCHANGED <<exec, current, crashed>> /\ sched'.pc # "waiting" /\ \A d \in Cpus : SameCpu(d)
    BY <1>3 DEF KeepRunning, LongThread, Return, Idle, SameCpu, lists, wires, cpus, Served
  <2> QED BY <2>1, ServedKept
<1>4. ~SendInterrupt /\ ~AnswerSame /\ ~AnswerOther
  BY DEF SendInterrupt, AnswerSame, AnswerOther, Served
<1> QED BY <1>1, <1>2, <1>3, <1>4 DEF Scheduler

\* Every step keeps the service.
LEMMA NextServed ==
    ASSUME ~Preemption
    PROVE  KernelInv /\ Served /\ [Next]_vars => Served'
<1> SUFFICES ASSUME KernelInv, Served, [Next]_vars PROVE Served'
  OBVIOUS
<1>1. CASE UNCHANGED vars
  <2>1. UNCHANGED <<exec, current, crashed, sched>> /\ \A d \in Cpus : SameCpu(d)
    BY <1>1 DEF vars, lists, wires, cpus, SameCpu
  <2> QED BY <2>1, ServedKept DEF Served
<1>2. ASSUME NEW p \in Pids, IoCompletion(p) PROVE Served'
  <2>1. UNCHANGED <<exec, current, crashed, sched>> /\ \A d \in Cpus : SameCpu(d)
    BY <1>2 DEF IoCompletion, SameCpu, wires, cpus
  <2> QED BY <2>1, ServedKept DEF Served
<1> QED BY <1>1, <1>2, SchedulerServed, HandlerServed, CpuServed, ListenerServed DEF Next

\* Served holds always.
LEMMA ServedAlways ==
    ASSUME ~Preemption
    PROVE  Spec => []Served
<1>1. Init => Served
  BY DEF Init, Served, Rests, Ended, Idle
<1>2. KernelInv /\ Served /\ [Next]_vars => Served'
  BY NextServed
<1> QED BY <1>1, <1>2, KernelInvariant, PTL DEF Spec

\* What OnCpu says of a CPU that serves a process.
LEMMA OnCpuServes ==
    ASSUME KernelInv, Served, NEW c \in Cpus
    PROVE  /\ \A p \in Pids : OnCpu(p, c) => ~Rests(c) /\ p = current[c]
           /\ ~Rests(c) => \/ OnCpu(current[c], c)
                           \/ \E i \in DOMAIN to_kernel[c] : to_kernel[c][i].pid = current[c]
<1> DEFINE q == current[c]
<1>0. \A p : Dispatch(p) = Dispatch(q) => p = q
  BY DEF Dispatch
<1>1. \A p : Dispatch(p) # Confirmation
  BY DEF Dispatch, Confirmation
<1>2. CASE Rests(c)
  <2>1. \A p : ~OnCpu(p, c)
    BY <1>2 DEF Rests, Ended, OnCpu
  <2> QED BY <1>2, <2>1
<1>3. CASE Sent(c, q) /\ ~Rests(c)
  <2>1. DOMAIN to_cpu[c] = {1} /\ to_cpu[c][1] = Dispatch(q)
    BY <1>3 DEF Sent
  <2> QED BY <1>0, <1>3, <2>1 DEF Sent, Ended, OnCpu
<1>4. CASE Runs(c, q) /\ ~Rests(c)
  <2>1. DOMAIN to_cpu[c] = {}
    BY <1>4 DEF Runs
  <2> QED BY <1>4, <2>1 DEF Runs, OnCpu
<1>5. CASE Confirms(c, q) /\ ~Rests(c)
  <2>1. \A i \in DOMAIN to_cpu[c] : to_cpu[c][i] = Confirmation
    BY <1>5 DEF Confirms
  <2> QED BY <1>1, <1>5, <2>1 DEF Confirms, OnCpu
<1>6. CASE Calls(c, q) /\ ~Rests(c)
  <2>1. PICK t \in Instructions : to_kernel[c] = <<Syscall(t, q)>>
    BY <1>6 DEF Calls
  <2>2. 1 \in DOMAIN to_kernel[c] /\ to_kernel[c][1].pid = q
    BY <2>1 DEF Syscall
  <2>3. \A p : ~OnCpu(p, c)
    BY <1>6 DEF Calls, Ended, OnCpu
  <2> QED BY <2>2, <2>3
<1> QED BY <1>2, <1>3, <1>4, <1>5, <1>6 DEF Served, Serves

\* Without preemption, for any number of CPUs and under FIFO and SJF, a process in
\* EXEC is being served: no DISPATCH and no system call is lost between the sockets,
\* and no second dispatch overwrites the connection of a CPU that runs.
THEOREM ExecServed == ~Preemption /\ Spec => []ExecIsServed
<1> SUFFICES ASSUME ~Preemption PROVE Spec => []ExecIsServed
  OBVIOUS
<1>1. KernelInv /\ Served => ExecIsServed
  BY OnCpuServes DEF Served, ExecIsServed
<1> QED BY <1>1, KernelInvariant, ServedAlways, PTL

\* Without preemption no process runs on two CPUs, no CPU has two processes, and
\* what runs is in EXEC.
THEOREM OneProcessEach == ~Preemption /\ Spec => []OneProcessPerCpu
<1> SUFFICES ASSUME ~Preemption PROVE Spec => []OneProcessPerCpu
  OBVIOUS
<1>1. KernelInv /\ Served => OneProcessPerCpu
  BY OnCpuServes DEF Served, OneProcessPerCpu
<1> QED BY <1>1, KernelInvariant, ServedAlways, PTL

\* Without preemption every system call finds its caller in EXEC: the handlers never
\* drop one and never dereference the NULL that a search of EXEC returned.
THEOREM SyscallsFindCaller == ~Preemption /\ Spec => []NoSyscallLost
<1> SUFFICES ASSUME ~Preemption PROVE Spec => []NoSyscallLost
  OBVIOUS
<1>1. KernelInv /\ Served => NoSyscallLost
  <2> SUFFICES ASSUME KernelInv, Served, NEW c \in Cpus, NEW i \in DOMAIN to_kernel[c]
               PROVE  to_kernel[c][i].pid \in exec
    BY DEF NoSyscallLost, Served
  <2>1. CASE Rests(c)
    BY <2>1 DEF Rests
  <2>2. CASE \E t : to_kernel[c] = <<Syscall(t, current[c])>> /\ current[c] \in exec
    BY <2>2 DEF Syscall
  <2>3. CASE to_kernel[c] = <<>>
    BY <2>3
  <2> QED BY <2>1, <2>2, <2>3 DEF Served, Serves, Sent, Runs, Confirms, Calls
<1> QED BY <1>1, KernelInvariant, ServedAlways, PTL

-----------------------------------------------------------------------------
(* The life cycle of a process. *)

\* The state that a list stands for, before and after a step.
LEMMA StateOfList ==
    ASSUME Apart, NEW p \in Pids
    PROVE  /\ p \in new <=> ListOf(p) = "NEW"
           /\ p \in Range(ready) => ListOf(p) = "READY"
           /\ p \in exec <=> ListOf(p) = "EXEC"
           /\ p \in blocked => ListOf(p) = "BLOCKED"
           /\ p \in exited => ListOf(p) = "EXIT"
           /\ p \in Unborn => ListOf(p) = "none"
BY DEF Apart, ListOf, Unborn

LEMMA StateOfListNext ==
    ASSUME Apart', NEW p \in Pids
    PROVE  /\ p \in new' => ListOf(p)' = "NEW"
           /\ p \in Range(ready)' => ListOf(p)' = "READY"
           /\ p \in exec' => ListOf(p)' = "EXEC"
           /\ p \in blocked' => ListOf(p)' = "BLOCKED"
           /\ p \in exited' => ListOf(p)' = "EXIT"
BY DEF Apart, ListOf

\* A process whose lists a step leaves alone keeps its state.
LEMMA SameState ==
    ASSUME NEW p \in Pids, p \in new' <=> p \in new, p \in Range(ready)' <=> p \in Range(ready),
           p \in exec' <=> p \in exec, p \in blocked' <=> p \in blocked,
           p \in exited' <=> p \in exited
    PROVE  ListOf(p)' = ListOf(p)
BY DEF ListOf

\* One process changes its state, the others keep theirs.
LEMMA MoveStep ==
    ASSUME NEW p \in Pids, NEW from, NEW to, ListOf(p) = from, ListOf(p)' = to,
           \A q \in Pids : q # p => ListOf(q)' = ListOf(q)
    PROVE  Lifecycle!Move(p, from, to)
BY DEF Lifecycle!Move

\* An arrow of the diagram, or nothing.
LifecycleStep == Lifecycle!Next \/ UNCHANGED [p \in Pids |-> ListOf(p)]

LEMMA ArrowStep ==
    ASSUME NEW p \in Pids,
           \/ Lifecycle!Move(p, "none", "NEW")
           \/ Lifecycle!Dispatch(p)
           \/ Lifecycle!Move(p, "EXEC", "BLOCKED")
           \/ Lifecycle!Move(p, "BLOCKED", "READY")
           \/ \E s \in {"EXEC", "BLOCKED", "SUSP_BLOCKED"} : Lifecycle!Move(p, s, "EXIT")
    PROVE  LifecycleStep
BY DEF LifecycleStep, Lifecycle!Next, Lifecycle!Create, Lifecycle!Block, Lifecycle!Unblock,
       Lifecycle!Finish

\* Nobody moves.
LEMMA StutterStep ==
    ASSUME UNCHANGED lists
    PROVE  LifecycleStep
<1>1. \A p \in Pids : ListOf(p)' = ListOf(p)
  BY SameState DEF lists
<1> QED BY <1>1 DEF LifecycleStep

\* A CPU that rests is one more than the processes in EXEC have.
LEMMA RoomInExec ==
    ASSUME Served, NEW c \in Cpus, Rests(c)
    PROVE  Cardinality(exec) < Cardinality(Cpus)
<1> DEFINE T == Cpus \ {c}
           f == [p \in exec |-> CHOOSE d \in Cpus : ~Rests(d) /\ current[d] = p]
<1>1. \A p \in exec : f[p] \in Cpus /\ ~Rests(f[p]) /\ current[f[p]] = p
  BY DEF Served
<1>2. f \in [exec -> T]
  BY <1>1
<1>3. \A p, q \in exec : f[p] = f[q] => p = q
  BY <1>1
<1> HIDE DEF f
<1>4. f \in Injection(exec, T)
  BY <1>2, <1>3 DEF Injection, IsInjective
<1>5. IsFiniteSet(Cpus) /\ IsFiniteSet(T) /\ Cardinality(T) = Cardinality(Cpus) - 1
  BY DispatcherAssumption, FS_RemoveElement
<1> HIDE DEF T
<1>6. IsFiniteSet(exec) /\ Cardinality(exec) <= Cardinality(T)
  BY <1>4, <1>5, FS_Injection
<1>7. Cardinality(exec) \in Nat /\ Cardinality(Cpus) \in Nat
  BY <1>5, <1>6, FS_CardinalityType
<1> QED BY <1>5, <1>6, <1>7

\* The scheduler dispatches a process of READY while there is a CPU to spare, and
\* admits processes of NEW.
LEMMA SchedulerLifecycle ==
    ASSUME ~Preemption, KernelInv, KernelInv', Served, Scheduler
    PROVE  LifecycleStep
<1>0. Apart /\ Apart' /\ exec \subseteq Pids /\ new \subseteq Pids /\ ready \in Seq(Pids)
      /\ Range(ready) \subseteq Pids /\ IsInjective(ready)
  BY RangeElements DEF KernelInv, Typed, ListTypes, Apart
<1>1. CASE ShortThread \/ (\E c \in Cpus : ShortInHandler(c)) \/ KeepRunning
  BY <1>1, StutterStep DEF ShortThread, ShortInHandler, KeepRunning
<1>2. CASE DispatchFree
  <2> DEFINE c == sched.cpu
             p == sched.pid
  <2>1. /\ c \in Cpus /\ p \in Range(ready) /\ current[c] = NoPid /\ p \in Pids
        /\ ready' = RemoveFirst(ready, p) /\ exec' = exec \cup {p} /\ UNCHANGED <<new, blocked, exited>>
    BY <1>0, <1>2 DEF DispatchFree, DispatchTo, KernelInv, Held
  <2>2. Rests(c)
    BY <2>1, FreeRests DEF Free
  <2>3. Cardinality(exec) < Cardinality(Cpus)
    BY <2>1, <2>2, RoomInExec
  <2>4. PICK q \in Pids : q = p
    BY <2>1
  <2>5. q \in Range(ready) /\ Range(ready)' = Range(ready) \ {q} /\ exec' = exec \cup {q}
    BY <1>0, <2>1, <2>4, RemoveFirstFacts
  <2>6. ListOf(q) = "READY" /\ ListOf(q)' = "EXEC"
    BY <1>0, <2>5, StateOfList, StateOfListNext
  <2>7. \A r \in Pids : r # q => ListOf(r)' = ListOf(r)
    BY <2>1, <2>5, SameState
  <2>8. Lifecycle!Move(q, "READY", "EXEC")
    BY <2>6, <2>7, MoveStep
  <2>9. Lifecycle!In("EXEC") = exec
    BY <1>0, StateOfList DEF Lifecycle!In
  <2>10. Lifecycle!Cardinality(Lifecycle!In("EXEC")) = Cardinality(Lifecycle!In("EXEC"))
    BY DEF Cardinality, Lifecycle!Cardinality
  <2>11. Lifecycle!Dispatch(q)
    BY <2>3, <2>8, <2>9, <2>10 DEF Lifecycle!Dispatch
  <2> QED BY <2>11, ArrowStep
<1>3. CASE LongThread
  <2>1. PICK S \in SUBSET new : \E s \in SetToSeqs(S) : new' = new \ S /\ ready' = ready \o s
    BY <1>3 DEF LongThread
  <2>2. PICK s \in SetToSeqs(S) : new' = new \ S /\ ready' = ready \o s
    BY <2>1
  <2>3. IsFiniteSet(S) /\ S \subseteq Pids
    BY <1>0, <2>1, FS_Subset DEF Apart
  <2>4. s \in Seq(Pids) /\ Range(s) = S
    <3>1. s \in Seq(S) /\ Range(s) = S
      BY <2>3, SetToSeqsFacts
    <3> QED BY <2>3, <3>1
  <2>5. Range(ready)' = Range(ready) \cup S /\ UNCHANGED <<exec, blocked, exited>>
    BY <1>0, <1>3, <2>2, <2>4, ConcatFacts DEF LongThread
  <2>6. \A p \in Pids : ListOf(p)' = IF p \in S THEN "READY" ELSE ListOf(p)
    <3>1. \A p \in S : ListOf(p)' = "READY"
      BY <1>0, <2>3, <2>5, StateOfListNext
    <3>2. \A p \in Pids : p \notin S => ListOf(p)' = ListOf(p)
      BY <2>2, <2>5, SameState
    <3> QED BY <3>1, <3>2
  <2>7. S \subseteq Lifecycle!In("NEW")
    BY <1>0, <2>3, StateOfList DEF Lifecycle!In
  <2>8. Lifecycle!Admit(S)
    BY <2>6, <2>7 DEF Lifecycle!Admit
  <2> QED BY <2>3, <2>8 DEF LifecycleStep, Lifecycle!Next
<1>4. ~SendInterrupt /\ ~AnswerSame /\ ~AnswerOther
  BY DEF SendInterrupt, AnswerSame, AnswerOther, Served
<1> QED BY <1>1, <1>2, <1>3, <1>4 DEF Scheduler

\* System calls create, block and end processes; a dump or an IO that ends makes
\* one ready.
LEMMA HandlerLifecycle ==
    ASSUME KernelInv, KernelInv',
           (\E c \in Cpus : Handler(c)) \/ (\E p \in Pids : IoCompletion(p))
    PROVE  LifecycleStep
<1>0. Apart /\ Apart' /\ ready \in Seq(Pids) /\ exec \subseteq Pids /\ blocked \subseteq Pids
  BY DEF KernelInv, Typed, ListTypes
<1>1. CASE UNCHANGED lists
  BY <1>1, StutterStep
<1>2. ASSUME NEW q \in Unborn, new' = new \cup {q}, UNCHANGED <<exec, blocked, exited, ready>>
      PROVE  LifecycleStep
  <2>1. q \in Pids
    BY DEF Unborn
  <2>2. ListOf(q) = "none" /\ ListOf(q)' = "NEW"
    BY <1>0, <1>2, <2>1, StateOfList, StateOfListNext
  <2>3. \A r \in Pids : r # q => ListOf(r)' = ListOf(r)
    BY <1>2, SameState
  <2> QED BY <2>1, <2>2, <2>3, MoveStep, ArrowStep
<1>3. ASSUME NEW p \in exec, exec' = exec \ {p}, UNCHANGED <<new, ready>>,
             \/ blocked' = blocked \cup {p} /\ exited' = exited
             \/ exited' = exited \cup {p} /\ blocked' = blocked
      PROVE  LifecycleStep
  <2>1. p \in Pids
    BY <1>0
  <2>2. ListOf(p) = "EXEC" /\ (ListOf(p)' = "BLOCKED" \/ ListOf(p)' = "EXIT")
    BY <1>0, <1>3, <2>1, StateOfList, StateOfListNext
  <2>3. \A r \in Pids : r # p => ListOf(r)' = ListOf(r)
    BY <1>3, SameState
  <2> QED BY <2>1, <2>2, <2>3, MoveStep, ArrowStep
<1>4. ASSUME NEW p \in blocked, blocked' = blocked \ {p}, UNCHANGED <<new, exec>>,
             \/ ready' = Append(ready, p) /\ exited' = exited
             \/ exited' = exited \cup {p} /\ ready' = ready
      PROVE  LifecycleStep
  <2>1. p \in Pids
    BY <1>0
  <2>2. Range(Append(ready, p)) = Range(ready) \cup {p}
    BY <1>0, <2>1, AppendFacts
  <2>3. p \in Range(ready)' \/ p \in exited'
    BY <1>4, <2>2
  <2>4. ListOf(p) = "BLOCKED" /\ (ListOf(p)' = "READY" \/ ListOf(p)' = "EXIT")
    BY <1>0, <2>1, <2>3, StateOfList, StateOfListNext
  <2>5. \A r \in Pids : r # p => (r \in Range(ready)' <=> r \in Range(ready))
    BY <1>4, <2>2
  <2>6. \A r \in Pids : r # p => ListOf(r)' = ListOf(r)
    BY <1>4, <2>5, SameState
  <2> QED BY <2>1, <2>4, <2>6, MoveStep, ArrowStep
<1>5. ASSUME NEW c \in Cpus, NEW p \in Pids, handle_init_proc(c, p) PROVE LifecycleStep
  BY <1>1, <1>2, <1>5 DEF handle_init_proc, lists
<1>6. ASSUME NEW c \in Cpus, NEW p \in Pids, exit_process(c, p) \/ handle_io_connection_not_found(c, p)
      PROVE  LifecycleStep
  BY <1>1, <1>3, <1>6 DEF exit_process, handle_io_connection_not_found, ExitFromExec, lists
<1>7. ASSUME NEW c \in Cpus, NEW p \in Pids, handle_io_process(c, p) \/ dump_memory(c, p)
      PROVE  LifecycleStep
  BY <1>1, <1>3, <1>7 DEF handle_io_process, dump_memory, lists
<1>8. ASSUME NEW c \in Cpus, DumpAnswered(c) PROVE LifecycleStep
  <2>1. handler[c].pid \in blocked
    BY <1>8 DEF DumpAnswered, KernelInv, Held
  <2> QED BY <1>4, <1>8, <2>1 DEF DumpAnswered
<1>9. ASSUME NEW p \in Pids, IoCompletion(p) PROVE LifecycleStep
  BY <1>4, <1>9 DEF IoCompletion
<1> QED BY <1>5, <1>6, <1>7, <1>8, <1>9 DEF Handler

\* Without preemption, handlers, scheduler threads and CPUs implement the diagram:
\* every step is an arrow or moves nobody, and the short-term scheduler gives a CPU
\* only while fewer processes are in EXEC than there are CPUs.
THEOREM LifecycleImplemented == ~Preemption /\ Spec => ImplementsLifecycle
<1> SUFFICES ASSUME ~Preemption PROVE Spec => ImplementsLifecycle
  OBVIOUS
<1>1. Init => Lifecycle!Init
  <2> SUFFICES ASSUME Init PROVE Lifecycle!Init
    OBVIOUS
  <2>1. Range(ready) = {Root}
    BY DEF Init, Range
  <2>2. \A p \in Pids : ListOf(p) = IF p = Root THEN "READY" ELSE "none"
    BY <2>1 DEF Init, ListOf
  <2> QED BY <2>2 DEF Lifecycle!Init
<1>2. KernelInv /\ KernelInv' /\ Served /\ [Next]_vars => [Lifecycle!Next]_([p \in Pids |-> ListOf(p)])
  <2> SUFFICES ASSUME KernelInv, KernelInv', Served, [Next]_vars PROVE LifecycleStep
    BY DEF LifecycleStep
  <2>1. CASE UNCHANGED vars
    BY <2>1, StutterStep DEF vars
  <2>2. CASE \E c \in Cpus : Execute(c) \/ Listener(c)
    <3>1. UNCHANGED lists
      BY <2>2 DEF Execute, Listener, recv_dispatch, RecvUnexpected, ExecuteLocal, ExecuteSyscall,
         RecvConfirmation, EndInstruction, ListenerRecv, ListenerHandle
    <3> QED BY <3>1, StutterStep
  <2> QED BY <2>1, <2>2, SchedulerLifecycle, HandlerLifecycle DEF Next
<1> QED BY <1>1, <1>2, KernelInvariant, ServedAlways, PTL DEF Spec, ImplementsLifecycle, Lifecycle!Spec

-----------------------------------------------------------------------------
(* One CPU: no wake-up is lost. *)

\* When the process of the CPU that run_short_scheduler chose left EXEC since, the
\* system call that took it out started a thread, or its handler is still to run
\* the scheduler.
WakeInv ==
    /\ NoLostWakeup
    /\ sched.by # NoCpu => handler[sched.by].pc = "short"
    /\ sched.pc # "idle" /\ current[sched.cpu] # NoPid /\ current[sched.cpu] \notin exec =>
          \/ short_threads + long_threads > 0
          \/ sched.by = NoCpu /\ \E c \in Cpus : handler[c].pc # "recv"

\* A step that leaves READY, EXEC, the connections, the scheduler, its threads and
\* the handlers alone.
LEMMA WakeKept ==
    ASSUME WakeInv, UNCHANGED <<ready, exec, current, sched, handler, threads>>
    PROVE  WakeInv'
BY DEF WakeInv, NoLostWakeup, SchedulerPending, Free, threads

\* The scheduler gives up only with READY empty or no CPU free.
LEMMA ChooseWakes ==
    ASSUME NEW c \in Cpus, Cpus = {c}, KernelInv, WakeInv,
           ShortThread \/ \E d \in Cpus : ShortInHandler(d)
    PROVE  WakeInv'
<1>0. /\ current \in [Cpus -> PidOrNone] /\ KernelTypes /\ NoCpu \notin Cpus
      /\ sched.pc = "idle" /\ UNCHANGED lists /\ exec \subseteq Pids /\ NoPid \notin Pids
  BY DispatcherAssumption DEF KernelInv, Typed, KernelTypes, ListTypes, ShortThread, ShortInHandler
<1>1. PICK by \in Cpus \cup {NoCpu} : Choose(by) /\ (by # NoCpu => handler[by].pc = "short")
  BY DEF ShortThread, ShortInHandler
<1> DEFINE free == { d \in Cpus : Free(d) }
<1>2. PICK d \in IF free # {} THEN free ELSE BusyCandidates :
        /\ current' = IF d \in free THEN [current EXCEPT ![d] = NoPid] ELSE current
        /\ \/ /\ d = NoCpu \/ ready = <<>>
              /\ sched' = Idle
              /\ handler' = IF by = NoCpu THEN handler ELSE [handler EXCEPT ![by].pc = "recv"]
           \/ /\ d # NoCpu
              /\ \E p \in ReadyCandidates :
                    sched' = [pc |-> "chosen", cpu |-> d, pid |-> p, by |-> by]
              /\ UNCHANGED handler
  BY <1>1 DEF Choose
<1>3. CASE sched' = Idle /\ (d = NoCpu \/ ready = <<>>)
  <2>1. ready' = ready /\ exec' = exec /\ sched'.pc = "idle" /\ sched'.by = NoCpu
    BY <1>0, <1>3 DEF lists, Idle
  <2>2. CASE ready = <<>>
    BY <2>1, <2>2 DEF WakeInv, NoLostWakeup
  <2>3. CASE d = NoCpu
    <3>1. free = {} /\ current' = current
      BY <1>0, <1>2, <2>3
    <3>2. \A e \in Cpus : ~Free(e)'
      BY <2>1, <3>1 DEF Free
    <3> QED BY <2>1, <3>2 DEF WakeInv, NoLostWakeup
  <2> QED BY <1>3, <2>2, <2>3
<1>4. ASSUME d # NoCpu, UNCHANGED handler, NEW p \in ReadyCandidates,
             sched' = [pc |-> "chosen", cpu |-> d, pid |-> p, by |-> by]
      PROVE  WakeInv'
  <2>1. sched'.pc = "chosen" /\ sched'.cpu = d /\ sched'.by = by
    BY <1>4
  <2>2. d \in Cpus
    BY <1>2, <1>4 DEF BusyCandidates
  <2>3. current'[d] = NoPid \/ current'[d] \in exec'
    BY <1>0, <1>2, <2>2 DEF Free, lists
  <2> QED BY <1>1, <1>4, <2>1, <2>2, <2>3 DEF WakeInv, NoLostWakeup, SchedulerPending
<1> QED BY <1>2, <1>3, <1>4

\* The scheduler dispatches to the only CPU, or leaves it to a process in EXEC.
LEMMA SchedulerWakes ==
    ASSUME NEW c \in Cpus, Cpus = {c}, KernelInv, WakeInv,
           DispatchFree \/ KeepRunning \/ SendInterrupt \/ AnswerSame \/ AnswerOther
    PROVE  WakeInv'
<1>0. /\ current \in [Cpus -> PidOrNone] /\ KernelTypes /\ NoCpu \notin Cpus /\ NoPid \notin Pids
      /\ sched.pc # "idle" /\ sched.cpu = c /\ sched.pid \in Pids /\ sched.by \in Cpus \cup {NoCpu}
  BY DispatcherAssumption, RangeElements DEF KernelInv, Typed, KernelTypes, ListTypes, Held,
     DispatchFree, KeepRunning, SendInterrupt, AnswerSame, AnswerOther
<1>1. CASE DispatchFree \/ AnswerSame \/ AnswerOther
  <2>1. /\ current' = [current EXCEPT ![c] = sched.pid] /\ sched.pid \in exec' /\ sched' = Idle
    BY <1>0, <1>1 DEF DispatchFree, AnswerSame, AnswerOther, DispatchTo, Return
  <2>2. ~Free(c)' /\ sched'.pc = "idle" /\ sched'.by = NoCpu
    BY <1>0, <2>1 DEF Free, Idle
  <2> QED BY <2>2 DEF WakeInv, NoLostWakeup
<1>2. CASE SendInterrupt
  <2>1. sched' = [sched EXCEPT !.pc = "waiting"]
    BY <1>2 DEF SendInterrupt
  <2>2. sched'.pc = "waiting" /\ sched'.cpu = c /\ sched'.by = sched.by
    BY <1>0, <2>1 DEF KernelTypes
  <2> QED BY <1>0, <1>2, <2>2 DEF SendInterrupt, WakeInv, NoLostWakeup, SchedulerPending, lists, threads
<1>3. CASE KeepRunning
  <2>1. /\ sched' = Idle /\ UNCHANGED <<ready, exec, current, threads>> /\ current[c] # NoPid
        /\ handler' = IF sched.by = NoCpu THEN handler ELSE [handler EXCEPT ![sched.by].pc = "recv"]
    BY <1>0, <1>3 DEF KeepRunning, Return, lists
  <2>2. sched'.pc = "idle" /\ sched'.by = NoCpu
    BY <2>1 DEF Idle
  <2>3. CASE current[c] \in exec
    <3>1. ~Free(c)'
      BY <2>1, <2>3 DEF Free
    <3> QED BY <2>2, <3>1 DEF WakeInv, NoLostWakeup
  <2>4. CASE current[c] \notin exec
    <3>1. \/ short_threads + long_threads > 0
          \/ sched.by = NoCpu /\ \E d \in Cpus : handler[d].pc # "recv"
      BY <1>0, <2>1, <2>4 DEF WakeInv
    <3>2. SchedulerPending'
      BY <2>1, <3>1 DEF SchedulerPending, threads
    <3> QED BY <2>2, <3>2 DEF WakeInv, NoLostWakeup
  <2> QED BY <2>3, <2>4
<1> QED BY <1>1, <1>2, <1>3

\* The long-term scheduler, the handlers and the devices leave a run of the
\* short-term scheduler to come.
LEMMA KernelWakes ==
    ASSUME NEW c \in Cpus, Cpus = {c}, ~DumpMayFail, KernelInv, WakeInv,
           LongThread \/ Handler(c) \/ \E p \in Pids : IoCompletion(p)
    PROVE  WakeInv'
<1>0. /\ short_threads \in Nat /\ long_threads \in Nat /\ handler \in [Cpus -> HandlerStates]
      /\ NoCpu \notin Cpus /\ sched.by \in Cpus \cup {NoCpu}
  BY DispatcherAssumption DEF KernelInv, Typed, KernelTypes, ThreadTypes
<1>1. CASE LongThread
  <2>1. short_threads' + long_threads' > 0 /\ sched.pc = "idle" /\ UNCHANGED <<sched, handler>>
    BY <1>0, <1>1 DEF LongThread
  <2> QED BY <2>1 DEF WakeInv, NoLostWakeup, SchedulerPending
<1>2. ASSUME NEW p \in Pids, IoCompletion(p) PROVE WakeInv'
  <2>1. short_threads' + long_threads' > 0 /\ sched.pc = "idle" /\ UNCHANGED <<sched, handler>>
    BY <1>0, <1>2 DEF IoCompletion
  <2> QED BY <2>1 DEF WakeInv, NoLostWakeup, SchedulerPending
<1>3. CASE short_threads' + long_threads' > 0 /\ UNCHANGED <<sched, handler>>
  BY <1>3 DEF WakeInv, NoLostWakeup, SchedulerPending
<1>4. CASE UNCHANGED <<ready, exec, current, sched, handler, threads>>
  BY <1>4, WakeKept
<1>5. ASSUME NEW p \in Pids,
             handle_init_proc(c, p) \/ exit_process(c, p) \/ handle_io_process(c, p)
                \/ handle_io_connection_not_found(c, p)
      PROVE  WakeInv'
  <2>1. UNCHANGED <<sched, handler, current, ready>>
    BY <1>5 DEF handle_init_proc, exit_process, handle_io_process, handle_io_connection_not_found
  <2>2. short_threads' + long_threads' > 0 \/ UNCHANGED <<exec, threads>>
    BY <1>0, <1>5 DEF handle_init_proc, exit_process, handle_io_process,
       handle_io_connection_not_found, ExitFromExec, threads
  <2> QED BY <1>3, <1>4, <2>1, <2>2
<1>6. ASSUME NEW p \in Pids, dump_memory(c, p) PROVE WakeInv'
  <2>1. CASE p \notin exec
    BY <1>4, <1>6, <2>1 DEF dump_memory
  <2>2. CASE p \in exec
    <3>1. /\ handler' = [handler EXCEPT ![c] = [pc |-> "dump", pid |-> p]] /\ handler[c].pc = "recv"
          /\ sched' = sched
      BY <1>6, <2>2 DEF dump_memory, Received
    <3>2. handler'[c].pc = "dump"
      BY <1>0, <3>1
    <3>3. sched.by = NoCpu
      BY <1>0, <3>1 DEF WakeInv
    <3> QED BY <3>1, <3>2, <3>3 DEF WakeInv, NoLostWakeup, SchedulerPending
  <2> QED BY <2>1, <2>2
<1>7. CASE DumpAnswered(c)
  <2>1. /\ handler' = [handler EXCEPT ![c] = [pc |-> "short", pid |-> NoPid]]
        /\ sched' = sched /\ sched.pc = "idle"
    BY <1>7 DEF DumpAnswered
  <2>2. handler'[c].pc = "short"
    BY <1>0, <2>1
  <2> QED BY <1>0, <2>1, <2>2 DEF WakeInv, NoLostWakeup, SchedulerPending
<1> QED BY <1>1, <1>2, <1>5, <1>6, <1>7 DEF Handler

\* With one CPU, with or without preemption, while a process waits in READY and the
\* CPU is free, a run of the short-term scheduler is still to come: a scheduler run
\* that found the CPU busy cannot miss that its process has left EXEC.  With more
\* CPUs or with dumps that fail this does not hold.
THEOREM NoWakeupLost == Cardinality(Cpus) = 1 /\ ~DumpMayFail /\ Spec => []NoLostWakeup
<1> SUFFICES ASSUME NEW c, Cpus = {c}, ~DumpMayFail PROVE Spec => []NoLostWakeup
  BY DispatcherAssumption, FS_Singleton
<1>0. c \in Cpus
  OBVIOUS
<1>1. Init => WakeInv
  BY DEF Init, WakeInv, NoLostWakeup, SchedulerPending, Idle
<1>2. KernelInv /\ WakeInv /\ [Next]_vars => WakeInv'
  <2> SUFFICES ASSUME KernelInv, WakeInv, [Next]_vars PROVE WakeInv'
    OBVIOUS
  <2>1. CASE UNCHANGED vars
    BY <2>1, WakeKept DEF vars, lists
  <2>2. CASE \E d \in Cpus : Execute(d) \/ Listener(d)
    <3>1. UNCHANGED <<ready, exec, current, sched, handler, threads>>
      BY <2>2 DEF Execute, Listener, recv_dispatch, RecvUnexpected, ExecuteLocal, ExecuteSyscall,
         RecvConfirmation, EndInstruction, ListenerRecv, ListenerHandle, lists
    <3> QED BY <3>1, WakeKept
  <2> QED BY <1>0, <2>1, <2>2, ChooseWakes, SchedulerWakes, KernelWakes DEF Next, Scheduler
<1>3. WakeInv => NoLostWakeup
  BY DEF WakeInv
<1> QED BY <1>1, <1>2, <1>3, KernelInvariant, PTL DEF Spec
=============================================================================
