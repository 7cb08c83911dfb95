-------------------------- MODULE SuspensionProofs --------------------------
(***************************************************************************)
(* The long-term and the medium-term scheduler, proved for any number of   *)
(* processes, CPUs and scheduler threads and for any sizes of memory and   *)
(* of the swap file.                                                       *)
(***************************************************************************)
EXTENDS Suspension, ListFacts, FiniteSetTheorems, TLAPS

\* The types, with the upper bound of swap_free left to SwapBacked.
Typed ==
    /\ new \in Seq(Pids) /\ susp_ready \in Seq(Pids)
    /\ ready \subseteq Pids /\ exec \subseteq Pids /\ blocked \subseteq Pids
    /\ susp_blocked \subseteq Pids /\ exited \subseteq Pids /\ moving \subseteq Pids
    /\ io_pending \subseteq Pids /\ dumping \subseteq Pids
    /\ stays \in [Pids -> Nat]
    /\ medium \subseteq [pid : Pids, stay : Nat, pc : {"sleep", "swap", "ok", "refused"}]
    /\ long_susp \in Nat /\ long_new \in Nat
    /\ asking \in Pids \cup {NoPid} /\ admitting \in BOOLEAN
    /\ mem \in [Pids -> {"none", "resident", "suspended"}]
    /\ frames_free \in Nat /\ swap_free \in Nat

\* OneList, list by list.
Apart ==
    /\ IsInjective(new) /\ IsInjective(susp_ready)
    /\ Range(new) \cap Range(susp_ready) = {}
    /\ \A p \in Range(new) \cup Range(susp_ready) :
          p \notin ready /\ p \notin exec /\ p \notin blocked /\ p \notin susp_blocked
          /\ p \notin exited /\ p \notin moving
    /\ \A p \in ready : p \notin exec /\ p \notin blocked /\ p \notin susp_blocked
                        /\ p \notin exited /\ p \notin moving
    /\ \A p \in exec : p \notin blocked /\ p \notin susp_blocked /\ p \notin exited /\ p \notin moving
    /\ \A p \in blocked : p \notin susp_blocked /\ p \notin exited /\ p \notin moving
    /\ \A p \in susp_blocked : p \notin exited /\ p \notin moving
    /\ \A p \in exited : p \notin moving

\* What the threads that work without a lock rely on: the process that UNSUSPEND
\* was sent for is still in SUSP_READY, the one of a device still in one of the
\* blocked lists, and the timers that find a process in a dump are old ones.
Waiting ==
    /\ asking # NoPid => asking \in Range(susp_ready)
    /\ \A p \in io_pending : p \in blocked \/ p \in susp_blocked
    /\ \A p \in dumping : p \in blocked /\ p \notin io_pending
    /\ \A t \in medium : t.stay <= stays[t.pid]
    /\ \A t \in medium : t.pid \in dumping /\ t.pc = "sleep" => t.stay < stays[t.pid]

\* The inductive invariant of the lists.
ListInv == Typed /\ Apart /\ Waiting /\ SuspendedGaveMemoryBack

-----------------------------------------------------------------------------
(* The lists. *)

\* Apart is OneList.
LEMMA ApartIsOneList ==
    ASSUME new \in Seq(Pids), susp_ready \in Seq(Pids)
    PROVE  Apart <=> OneList
<1>1. IsInjective(new \o susp_ready) <=>
          IsInjective(new) /\ IsInjective(susp_ready) /\ Range(new) \cap Range(susp_ready) = {}
  BY ConcatFacts
<1> DEFINE S == <<Range(new), Range(susp_ready), ready, exec, blocked, susp_blocked, exited, moving>>
<1>2. DOMAIN S = 1 .. 8
  OBVIOUS
<1>3. ASSUME Apart PROVE OneList
  <2>1. \A i, j \in 1 .. 8 : i < j => S[i] \cap S[j] = {}
    BY <1>3 DEF Apart
  <2>2. \A i, j \in 1 .. 8 : i # j => S[i] \cap S[j] = {}
    BY <2>1
  <2> QED BY <1>1, <1>2, <1>3, <2>2 DEF OneList, Apart
<1>4. ASSUME OneList PROVE Apart
  <2>1. \A i, j \in 1 .. 8 : i # j => S[i] \cap S[j] = {}
    BY <1>2, <1>4 DEF OneList
  <2> HIDE <1>1
  <2>2. /\ \A j \in 2 .. 8 : S[1] \cap S[j] = {}
        /\ \A j \in 3 .. 8 : S[2] \cap S[j] = {}
        /\ \A j \in 4 .. 8 : S[3] \cap S[j] = {}
        /\ \A j \in 5 .. 8 : S[4] \cap S[j] = {}
        /\ \A j \in 6 .. 8 : S[5] \cap S[j] = {}
        /\ \A j \in 7 .. 8 : S[6] \cap S[j] = {}
        /\ S[7] \cap S[8] = {}
    BY <2>1
  <2>3. /\ S[1] = Range(new) /\ S[2] = Range(susp_ready) /\ S[3] = ready /\ S[4] = exec
        /\ S[5] = blocked /\ S[6] = susp_blocked /\ S[7] = exited /\ S[8] = moving
    OBVIOUS
  <2> HIDE DEF S
  <2>4. IsInjective(new \o susp_ready)
    BY <1>4 DEF OneList
  <2> QED BY <1>1, <2>2, <2>3, <2>4 DEF Apart
<1> QED BY <1>3, <1>4

\* The first state.
LEMMA InitListInv == Init => ListInv
<1> SUFFICES ASSUME Init PROVE ListInv
  OBVIOUS
<1> USE DEF Init
<1>1. Range(<<Root>>) = {Root} /\ IsInjective(<<Root>>) /\ Range(<<>>) = {} /\ IsInjective(<<>>)
  BY DEF Range, IsInjective
<1>2. Typed
  <2>1. <<Root>> \in Seq(Pids) /\ <<>> \in Seq(Pids)
    BY SuspensionAssumption
  <2>2. admitting \in BOOLEAN
    OBVIOUS
  <2>3. stays \in [Pids -> Nat] /\ mem \in [Pids -> {"none", "resident", "suspended"}]
    OBVIOUS
  <2> QED BY SuspensionAssumption, <2>1, <2>2, <2>3 DEF Typed
<1>3. Apart
  BY <1>1 DEF Apart
<1>4. Waiting
  BY DEF Waiting
<1>5. SuspendedGaveMemoryBack
  BY DEF SuspendedGaveMemoryBack
<1> QED BY <1>2, <1>3, <1>4, <1>5 DEF ListInv

\* The choice of the long-term scheduler is an entry of the list.
LEMMA NextOfFacts ==
    ASSUME NEW list \in Seq(Pids)
    PROVE  NextOf(list) \subseteq Range(list) /\ NextOf(list) \subseteq Pids
BY RangeElements DEF NextOf

\* KILL_PROCESS keeps the types of memoria's tables.
LEMMA KillTyped ==
    ASSUME Typed, NEW p \in Pids, KillInMemory(p)
    PROVE  /\ mem' \in [Pids -> {"none", "resident", "suspended"}]
           /\ frames_free' \in Nat /\ swap_free' \in Nat
<1>1. mem \in [Pids -> {"none", "resident", "suspended"}] /\ mem' = [mem EXCEPT ![p] = "none"]
  BY DEF Typed, KillInMemory
<1>2. mem' \in [Pids -> {"none", "resident", "suspended"}]
  BY <1>1
<1>3. Size[p] \in Nat
  BY SuspensionAssumption
<1>4. frames_free' \in Nat /\ swap_free' \in Nat
  BY <1>3 DEF Typed, KillInMemory
<1> QED BY <1>2, <1>4

\* The timer: the process it suspends is not one that is dumped.
LEMMA MediumWakesLists ==
    ASSUME ~LateInDump, ListInv, NEW t \in medium, MediumWakes(t)
    PROVE  ListInv'
<1> USE SuspensionAssumption DEF ListInv, MediumWakes, MayHaveSlept, Thread, lists, waits, long, memory
<1>1. Typed'
  BY DEF Typed
<1>2. Apart'
  BY DEF Apart, Waiting
<1>3. Waiting'
  BY DEF Typed, Apart, Waiting
<1>4. SuspendedGaveMemoryBack'
  <2>1. medium \subseteq [pid : Pids, stay : Nat, pc : {"sleep", "swap", "ok", "refused"}]
    BY DEF Typed
  <2> SUFFICES ASSUME NEW p \in susp_blocked', mem[p] # "suspended", Size[p] # 0
               PROVE  \E u \in medium' : u.pid = p /\ u.pc \in {"swap", "refused"}
    BY DEF SuspendedGaveMemoryBack
  <2>2. CASE p \in susp_blocked
    <3>1. PICK u \in medium : u.pid = p /\ u.pc \in {"swap", "refused"}
      BY <2>2 DEF SuspendedGaveMemoryBack
    <3>2. u # t
      BY <3>1
    <3> QED BY <3>1, <3>2
  <2>3. CASE p \notin susp_blocked
    <3>1. p = t.pid /\ Thread(p, t.stay, "swap") \in medium'
      BY <2>3
    <3>2. Thread(p, t.stay, "swap").pid = p /\ Thread(p, t.stay, "swap").pc = "swap"
      OBVIOUS
    <3> QED BY <3>1, <3>2
  <2> QED BY <2>2, <2>3
<1> QED BY <1>1, <1>2, <1>3, <1>4

\* SWAP at memoria: whatever the answer, the thread still accounts for the process.
LEMMA SwapInMemoryLists ==
    ASSUME ListInv, NEW t \in medium, SwapInMemory(t)
    PROVE  ListInv'
<1> USE SuspensionAssumption DEF ListInv, SwapInMemory, Thread, lists, waits, long, memory
<1>1. Typed'
  <2>1. t.pid \in Pids /\ t.stay \in Nat
    BY DEF Typed
  <2>2. \A pc \in {"ok", "refused"} :
           Thread(t.pid, t.stay, pc) \in [pid : Pids, stay : Nat, pc : {"sleep", "swap", "ok", "refused"}]
    BY <2>1
  <2>3. medium' \subseteq [pid : Pids, stay : Nat, pc : {"sleep", "swap", "ok", "refused"}]
    BY <2>2 DEF Typed
  <2>4. mem \in [Pids -> {"none", "resident", "suspended"}]
    BY DEF Typed
  <2>5. mem' = mem \/ mem' = [mem EXCEPT ![t.pid] = "suspended"]
    OBVIOUS
  <2>6. mem' \in [Pids -> {"none", "resident", "suspended"}]
    BY <2>1, <2>4, <2>5
  <2>7. Size[t.pid] \in Nat /\ frames_free \in Nat /\ swap_free \in Nat
    BY <2>1 DEF Typed
  <2>8. frames_free' \in Nat /\ swap_free' \in Nat
    BY <2>7
  <2> QED BY <2>3, <2>6, <2>8 DEF Typed
<1>2. Apart'
  BY DEF Apart, Waiting
<1>3. Waiting'
  BY DEF Typed, Apart, Waiting
<1>4. SuspendedGaveMemoryBack'
  <2>1. mem \in [Pids -> {"none", "resident", "suspended"}] /\ t.pid \in Pids /\ susp_blocked \subseteq Pids
    BY DEF Typed
  <2> SUFFICES ASSUME NEW p \in susp_blocked, mem'[p] # "suspended", Size[p] # 0
               PROVE  \E u \in medium' : u.pid = p /\ u.pc \in {"swap", "refused"}
    BY DEF SuspendedGaveMemoryBack
  <2>2. mem[p] # "suspended"
    BY <2>1
  <2>3. PICK u \in medium : u.pid = p /\ u.pc \in {"swap", "refused"}
    BY <2>2 DEF SuspendedGaveMemoryBack
  <2>4. CASE u # t
    BY <2>3, <2>4
  <2>5. CASE u = t
    <3>1. mem'[t.pid] # "suspended" => Thread(t.pid, t.stay, "refused") \in medium'
      BY <2>1, <2>2, <2>3, <2>5
    <3>2. /\ Thread(t.pid, t.stay, "refused").pid = t.pid
          /\ Thread(t.pid, t.stay, "refused").pc = "refused"
      OBVIOUS
    <3> QED BY <2>3, <2>5, <3>1, <3>2
  <2> QED BY <2>4, <2>5
<1> QED BY <1>1, <1>2, <1>3, <1>4

\* A refused SWAP puts back only a process that is still in SUSP_BLOCKED.
LEMMA SwapRefusedLists ==
    ASSUME ListInv, NEW t \in medium, SwapRefused(t)
    PROVE  ListInv'
<1> USE SuspensionAssumption DEF ListInv, SwapRefused, lists, waits, long, memory
<1>1. Typed'
  <2>1. t.pid \in Pids
    BY DEF Typed
  <2>2. stays \in [Pids -> Nat] /\ (stays' = stays \/ stays' = [stays EXCEPT ![t.pid] = @ + 1])
    BY DEF Typed
  <2>3. stays' \in [Pids -> Nat]
    BY <2>1, <2>2
  <2> QED BY <2>1, <2>3 DEF Typed
<1>2. Apart'
  BY DEF Apart, Waiting
<1>3. Waiting'
  <2>1. t.pid \in Pids /\ stays \in [Pids -> Nat]
        /\ \A u \in medium : u.pid \in Pids /\ u.stay \in Nat
    BY DEF Typed
  <2>2. \A p \in Pids : stays[p] <= stays'[p]
    BY <2>1
  <2>3. stays' \in [Pids -> Nat]
    BY <1>1 DEF Typed
  <2>4. \A u \in medium' : u.stay <= stays'[u.pid]
    BY <2>1, <2>2, <2>3 DEF Waiting
  <2>5. \A u \in medium' : u.pid \in dumping /\ u.pc = "sleep" => u.stay < stays'[u.pid]
    BY <2>1, <2>2, <2>3 DEF Waiting
  <2> QED BY <2>4, <2>5 DEF Waiting, Apart, Typed
<1>4. SuspendedGaveMemoryBack'
  BY DEF Typed, Apart, Waiting, SuspendedGaveMemoryBack
<1> QED BY <1>1, <1>2, <1>3, <1>4

\* The end of a suspension.
LEMMA SwapDoneLists ==
    ASSUME ListInv, NEW t \in medium, SwapDone(t)
    PROVE  ListInv'
<1> USE SuspensionAssumption DEF ListInv, SwapDone, CallLong, lists, waits, long, memory
<1>1. Typed'
  BY DEF Typed
<1>2. Apart'
  BY DEF Apart, Waiting
<1>3. Waiting'
  BY DEF Typed, Apart, Waiting
<1>4. SuspendedGaveMemoryBack'
  BY DEF Typed, Apart, Waiting, SuspendedGaveMemoryBack
<1> QED BY <1>1, <1>2, <1>3, <1>4

\* UNSUSPEND is sent for a process of SUSP_READY.
LEMMA LongAsksLists ==
    ASSUME ListInv, LongAsks
    PROVE  ListInv'
<1> USE SuspensionAssumption DEF ListInv, LongAsks, lists, waits, long, memory
<1>1. Typed'
  <2>1. NextOf(susp_ready) \subseteq Pids
    BY NextOfFacts DEF Typed
  <2> QED BY <2>1, SMTT(30) DEF Typed
<1>2. Apart'
  BY DEF Apart, Waiting
<1>3. Waiting'
  <2>1. NextOf(susp_ready) \subseteq Range(susp_ready)
    BY NextOfFacts DEF Typed
  <2> QED BY <2>1 DEF Typed, Waiting
<1>4. SuspendedGaveMemoryBack'
  BY DEF Typed, Apart, Waiting, SuspendedGaveMemoryBack
<1> QED BY <1>1, <1>2, <1>3, <1>4

\* The resumed process leaves SUSP_READY, and its thread holds it.
LEMMA LongUnsuspendsLists ==
    ASSUME ListInv, LongUnsuspends
    PROVE  ListInv'
<1> USE SuspensionAssumption DEF ListInv, LongUnsuspends, CanUnsuspend, UnsuspendInMemory, lists, waits, long, memory
<1>1. Typed'
  <2>1. /\ susp_ready' \in Seq(Pids) /\ IsInjective(susp_ready')
        /\ Range(susp_ready') = Range(susp_ready) \ {asking}
    BY RemoveFirstFacts DEF Typed, Apart
  <2>2. asking \in Pids /\ mem \in [Pids -> {"none", "resident", "suspended"}]
    BY DEF Typed
  <2>3. mem' = mem \/ mem' = [mem EXCEPT ![asking] = "resident"]
    OBVIOUS
  <2>4. mem' \in [Pids -> {"none", "resident", "suspended"}]
    BY <2>2, <2>3
  <2>5. Size[asking] \in Nat /\ frames_free \in Nat /\ swap_free \in Nat
    BY <2>2 DEF Typed
  <2>6. frames_free' \in Nat /\ swap_free' \in Nat
    BY <2>5
  <2> QED BY <2>1, <2>2, <2>4, <2>6 DEF Typed
<1>2. Apart'
  <2>1. /\ susp_ready' \in Seq(Pids) /\ IsInjective(susp_ready')
        /\ Range(susp_ready') = Range(susp_ready) \ {asking}
    BY RemoveFirstFacts DEF Typed, Apart
  <2>2. asking \in Range(susp_ready)
    BY DEF Waiting
  <2> QED BY <2>1, <2>2 DEF Apart
<1>3. Waiting'
  BY DEF Typed, Apart, Waiting
<1>4. SuspendedGaveMemoryBack'
  BY DEF Typed, Apart, Waiting, SuspendedGaveMemoryBack
<1> QED BY <1>1, <1>2, <1>3, <1>4

\* UNSUSPEND was refused.
LEMMA LongRefusedLists ==
    ASSUME ListInv, LongRefused
    PROVE  ListInv'
<1> USE SuspensionAssumption DEF ListInv, LongRefused, CanUnsuspend, lists, waits, long, memory
<1>1. Typed'
  BY DEF Typed
<1>2. Apart'
  BY DEF Apart, Waiting
<1>3. Waiting'
  BY DEF Typed, Apart, Waiting
<1>4. SuspendedGaveMemoryBack'
  BY DEF Typed, Apart, Waiting, SuspendedGaveMemoryBack
<1> QED BY <1>1, <1>2, <1>3, <1>4

\* The resumed process enters READY.
LEMMA LongMovesLists ==
    ASSUME ListInv, NEW p \in Pids, LongMoves(p)
    PROVE  ListInv'
<1> USE SuspensionAssumption DEF ListInv, LongMoves, lists, waits, long, memory
<1>1. Typed'
  BY DEF Typed
<1>2. Apart'
  BY DEF Apart, Waiting
<1>3. Waiting'
  BY DEF Typed, Apart, Waiting
<1>4. SuspendedGaveMemoryBack'
  BY DEF Typed, Apart, Waiting, SuspendedGaveMemoryBack
<1> QED BY <1>1, <1>2, <1>3, <1>4

\* The second loop begins.
LEMMA LongStartsNewLists ==
    ASSUME ListInv, LongStartsNew
    PROVE  ListInv'
<1> USE SuspensionAssumption DEF ListInv, LongStartsNew, lists, waits, long, memory
<1>1. Typed'
  BY DEF Typed
<1>2. Apart'
  BY DEF Apart, Waiting
<1>3. Waiting'
  BY DEF Typed, Apart, Waiting
<1>4. SuspendedGaveMemoryBack'
  BY DEF Typed, Apart, Waiting, SuspendedGaveMemoryBack
<1> QED BY <1>1, <1>2, <1>3, <1>4

\* A process of NEW enters READY.
LEMMA LongAdmitsLists ==
    ASSUME ListInv, LongAdmits
    PROVE  ListInv'
<1> USE SuspensionAssumption DEF ListInv, LongAdmits, lists, waits, long, memory
<1>1. Typed'
  <2>1. PICK p \in NextOf(new) :
          /\ frames_free >= Size[p]
          /\ mem' = [mem EXCEPT ![p] = "resident"]
          /\ frames_free' = frames_free - Size[p]
          /\ new' = RemoveFirst(new, p)
          /\ ready' = ready \cup {p}
    OBVIOUS
  <2>2. p \in Range(new) /\ p \in Pids
    BY NextOfFacts DEF Typed
  <2>3. new' \in Seq(Pids) /\ IsInjective(new') /\ Range(new') = Range(new) \ {p}
    BY <2>1, RemoveFirstFacts DEF Typed, Apart
  <2>4. mem \in [Pids -> {"none", "resident", "suspended"}] /\ frames_free \in Nat /\ Size[p] \in Nat
    BY <2>2 DEF Typed
  <2>5. mem' \in [Pids -> {"none", "resident", "suspended"}]
    BY <2>1, <2>2, <2>4
  <2>6. frames_free' \in Nat
    BY <2>1, <2>4
  <2> QED BY <2>1, <2>2, <2>3, <2>5, <2>6, SMTT(30) DEF Typed
<1>2. Apart'
  <2>1. PICK p \in NextOf(new) :
          /\ frames_free >= Size[p]
          /\ mem' = [mem EXCEPT ![p] = "resident"]
          /\ frames_free' = frames_free - Size[p]
          /\ new' = RemoveFirst(new, p)
          /\ ready' = ready \cup {p}
    OBVIOUS
  <2>2. p \in Range(new) /\ p \in Pids
    BY NextOfFacts DEF Typed
  <2>3. new' \in Seq(Pids) /\ IsInjective(new') /\ Range(new') = Range(new) \ {p}
    BY <2>1, RemoveFirstFacts DEF Typed, Apart
  <2> QED BY <2>1, <2>2, <2>3 DEF Apart
<1>3. Waiting'
  BY DEF Typed, Apart, Waiting
<1>4. SuspendedGaveMemoryBack'
  <2>1. PICK p \in NextOf(new) :
          /\ frames_free >= Size[p]
          /\ mem' = [mem EXCEPT ![p] = "resident"]
          /\ frames_free' = frames_free - Size[p]
          /\ new' = RemoveFirst(new, p)
          /\ ready' = ready \cup {p}
    OBVIOUS
  <2>2. p \in Range(new) /\ p \in Pids
    BY NextOfFacts DEF Typed
  <2>3. new' \in Seq(Pids) /\ IsInjective(new') /\ Range(new') = Range(new) \ {p}
    BY <2>1, RemoveFirstFacts DEF Typed, Apart
  <2>4. \A q \in susp_blocked : q # p
    BY <2>2 DEF Apart
  <2> QED BY <2>1, <2>2, <2>4 DEF SuspendedGaveMemoryBack, Typed
<1> QED BY <1>1, <1>2, <1>3, <1>4

\* The second loop ends.
LEMMA LongEndsLists ==
    ASSUME ListInv, LongEnds
    PROVE  ListInv'
<1> USE SuspensionAssumption DEF ListInv, LongEnds, lists, waits, long, memory
<1>1. Typed'
  BY DEF Typed
<1>2. Apart'
  BY DEF Apart, Waiting
<1>3. Waiting'
  BY DEF Typed, Apart, Waiting
<1>4. SuspendedGaveMemoryBack'
  BY DEF Typed, Apart, Waiting, SuspendedGaveMemoryBack
<1> QED BY <1>1, <1>2, <1>3, <1>4

\* A process gets a CPU.
LEMMA DispatchLists ==
    ASSUME ListInv, NEW p \in Pids, Dispatch(p)
    PROVE  ListInv'
<1> USE SuspensionAssumption DEF ListInv, Dispatch, lists, waits, long, memory
<1>1. Typed'
  BY DEF Typed
<1>2. Apart'
  BY DEF Apart, Waiting
<1>3. Waiting'
  BY DEF Typed, Apart, Waiting
<1>4. SuspendedGaveMemoryBack'
  BY DEF Typed, Apart, Waiting, SuspendedGaveMemoryBack
<1> QED BY <1>1, <1>2, <1>3, <1>4

\* INIT_PROC takes a pid that no list has.
LEMMA InitProcLists ==
    ASSUME ListInv, NEW p \in Pids, NEW q \in Pids, InitProc(p, q)
    PROVE  ListInv'
<1> USE SuspensionAssumption DEF ListInv, InitProc, CallLong, Unborn, lists, waits, long, memory
<1>1. Typed'
  BY SMTT(30) DEF Typed
<1>2. Apart'
  <2>1. Range(new') = Range(new) \cup {q} /\ (q \notin Range(new) => IsInjective(new'))
    BY AppendFacts DEF Typed, Apart
  <2> QED BY <2>1 DEF Apart
<1>3. Waiting'
  BY DEF Typed, Apart, Waiting
<1>4. SuspendedGaveMemoryBack'
  BY DEF Typed, Apart, Waiting, SuspendedGaveMemoryBack
<1> QED BY <1>1, <1>2, <1>3, <1>4

\* EXIT: the process was executing, so nothing else is known of it.
LEMMA ExitProcessLists ==
    ASSUME ListInv, NEW p \in Pids, ExitProcess(p)
    PROVE  ListInv'
<1> USE SuspensionAssumption DEF ListInv, ExitProcess, CallLong, KillInMemory, lists, waits, long, memory
<1>1. Typed'
  <2>1. mem' \in [Pids -> {"none", "resident", "suspended"}] /\ frames_free' \in Nat /\ swap_free' \in Nat
    BY KillTyped
  <2> QED BY <2>1, SMTT(30) DEF Typed
<1>2. Apart'
  BY DEF Apart, Waiting
<1>3. Waiting'
  BY DEF Typed, Apart, Waiting
<1>4. SuspendedGaveMemoryBack'
  BY DEF Typed, Apart, Waiting, SuspendedGaveMemoryBack
<1> QED BY <1>1, <1>2, <1>3, <1>4

\* IO: the new timer belongs to the new stay.
LEMMA IoProcessLists ==
    ASSUME ListInv, NEW p \in Pids, IoProcess(p)
    PROVE  ListInv'
<1> USE SuspensionAssumption DEF ListInv, IoProcess, Thread, lists, waits, long, memory
<1>1. Typed'
  BY DEF Typed
<1>2. Apart'
  BY DEF Apart, Waiting
<1>3. Waiting'
  BY DEF Typed, Apart, Waiting
<1>4. SuspendedGaveMemoryBack'
  BY DEF Typed, Apart, Waiting, SuspendedGaveMemoryBack
<1> QED BY <1>1, <1>2, <1>3, <1>4

\* DUMP_MEMORY: every timer of the process is of an earlier stay.
LEMMA DumpMemoryLists ==
    ASSUME ListInv, NEW p \in Pids, DumpMemory(p)
    PROVE  ListInv'
<1> USE SuspensionAssumption DEF ListInv, DumpMemory, lists, waits, long, memory
<1>1. Typed'
  BY SMTT(30) DEF Typed
<1>2. Apart'
  BY DEF Apart, Waiting
<1>3. Waiting'
  BY DEF Typed, Apart, Waiting
<1>4. SuspendedGaveMemoryBack'
  BY DEF Typed, Apart, Waiting, SuspendedGaveMemoryBack
<1> QED BY <1>1, <1>2, <1>3, <1>4

\* The dumped process is still in BLOCKED.
LEMMA DumpAnsweredLists ==
    ASSUME ListInv, NEW p \in Pids, DumpAnswered(p)
    PROVE  ListInv'
<1> USE SuspensionAssumption DEF ListInv, DumpAnswered, KillInMemory, lists, waits, long, memory
<1>1. Typed'
  <2>1. mem' \in [Pids -> {"none", "resident", "suspended"}] /\ frames_free' \in Nat /\ swap_free' \in Nat
    BY KillTyped DEF Typed, KillInMemory
  <2> QED BY <2>1 DEF Typed
<1>2. Apart'
  BY DEF Apart, Waiting
<1>3. Waiting'
  BY DEF Typed, Apart, Waiting
<1>4. SuspendedGaveMemoryBack'
  BY DEF Typed, Apart, Waiting, SuspendedGaveMemoryBack
<1> QED BY <1>1, <1>2, <1>3, <1>4

\* The process of a device is in one of the two blocked lists.
LEMMA IoCompletionLists ==
    ASSUME ListInv, NEW p \in Pids, IoCompletion(p)
    PROVE  ListInv'
<1> USE SuspensionAssumption DEF ListInv, IoCompletion, CallLong, lists, waits, long, memory
<1>1. Typed'
  <2>1. susp_ready \in Seq(Pids) /\ (susp_ready' = susp_ready \/ susp_ready' = Append(susp_ready, p))
    BY DEF Typed
  <2>2. susp_ready' \in Seq(Pids)
    BY <2>1, AppendFacts
  <2>3. long_susp' \in Nat /\ long_new' = long_new /\ asking' = asking /\ admitting' = admitting
    BY DEF Typed
  <2>4. /\ ready' \subseteq Pids /\ blocked' \subseteq Pids /\ susp_blocked' \subseteq Pids
        /\ io_pending' \subseteq Pids
    BY DEF Typed
  <2> QED BY <2>2, <2>3, <2>4 DEF Typed
<1>2. Apart'
  <2>1. CASE p \in blocked /\ UNCHANGED susp_ready
    BY <2>1 DEF Apart
  <2>2. CASE p \in susp_blocked /\ susp_ready' = Append(susp_ready, p)
    <3>1. Range(susp_ready') = Range(susp_ready) \cup {p} /\ IsInjective(susp_ready')
      BY <2>2, AppendFacts DEF Typed, Apart
    <3> QED BY <2>2, <3>1 DEF Apart
  <2> QED BY <2>1, <2>2
<1>3. Waiting'
  BY DEF Typed, Apart, Waiting
<1>4. SuspendedGaveMemoryBack'
  BY DEF Typed, Apart, Waiting, SuspendedGaveMemoryBack
<1> QED BY <1>1, <1>2, <1>3, <1>4

\* The process of a lost device ends from one of the two blocked lists.
LEMMA IoDisconnectedLists ==
    ASSUME ListInv, NEW p \in Pids, IoDisconnected(p)
    PROVE  ListInv'
<1> USE SuspensionAssumption DEF ListInv, IoDisconnected, CallLong, KillInMemory, lists, waits, long, memory
<1>1. Typed'
  <2>1. mem' \in [Pids -> {"none", "resident", "suspended"}] /\ frames_free' \in Nat /\ swap_free' \in Nat
    BY KillTyped
  <2>2. long_susp' \in Nat /\ long_new' = long_new /\ asking' = asking /\ admitting' = admitting
    BY DEF Typed
  <2>3. /\ blocked' \subseteq Pids /\ susp_blocked' \subseteq Pids /\ exited' \subseteq Pids
        /\ io_pending' \subseteq Pids
    BY DEF Typed
  <2> QED BY <2>1, <2>2, <2>3 DEF Typed
<1>2. Apart'
  BY DEF Apart, Waiting
<1>3. Waiting'
  BY DEF Typed, Apart, Waiting
<1>4. SuspendedGaveMemoryBack'
  BY DEF Typed, Apart, Waiting, SuspendedGaveMemoryBack
<1> QED BY <1>1, <1>2, <1>3, <1>4

\* Every step of the schedulers, programs and devices keeps the invariant.
LEMMA NextListInv ==
    ASSUME ~LateInDump
    PROVE  ListInv /\ [Next]_vars => ListInv'
<1> SUFFICES ASSUME ListInv, [Next]_vars PROVE ListInv'
  OBVIOUS
<1>1. CASE UNCHANGED vars
  BY <1>1 DEF vars, lists, waits, long, memory, ListInv, Typed, Apart, Waiting, SuspendedGaveMemoryBack
<1>2. ASSUME NEW t \in medium, Medium(t) PROVE ListInv'
  BY <1>2, MediumWakesLists, SwapInMemoryLists, SwapRefusedLists, SwapDoneLists DEF Medium
<1>3. CASE LongSusp
  BY <1>3, LongAsksLists, LongUnsuspendsLists, LongRefusedLists, LongMovesLists DEF LongSusp
<1>4. CASE LongNew
  BY <1>4, LongStartsNewLists, LongAdmitsLists, LongEndsLists DEF LongNew
<1>5. ASSUME NEW p \in Pids, Dispatch(p) PROVE ListInv'
  BY <1>5, DispatchLists
<1>6. ASSUME NEW p \in Pids, Program(p) PROVE ListInv'
  BY <1>6, InitProcLists, ExitProcessLists, IoProcessLists, DumpMemoryLists DEF Program
<1>7. ASSUME NEW p \in Pids, DumpAnswered(p) PROVE ListInv'
  BY <1>7, DumpAnsweredLists
<1>8. ASSUME NEW p \in Pids, IoCompletion(p) PROVE ListInv'
  BY <1>8, IoCompletionLists
<1>9. ASSUME NEW p \in Pids, IoDisconnected(p) PROVE ListInv'
  BY <1>9, IoDisconnectedLists
<1> QED BY <1>1, <1>2, <1>3, <1>4, <1>5, <1>6, <1>7, <1>8, <1>9 DEF Next

\* The lists, the threads and memoria's answers fit together in every state, if
\* no timer is so late that it suspends a process in a dump.
THEOREM ListInvariant == ~LateInDump /\ Spec => []ListInv
<1> SUFFICES ASSUME ~LateInDump PROVE Spec => []ListInv
  OBVIOUS
<1>1. Init => ListInv
  BY InitListInv
<1>2. ListInv /\ [Next]_vars => ListInv'
  BY NextListInv
<1> QED BY <1>1, <1>2, PTL DEF Spec

\* A process is in one list only, in any order of completions, dumps, runs of the
\* long-term scheduler and timers, among them old timers that suspend the process
\* in a later IO; none may be so late that it suspends a process in a dump.
THEOREM OneListAlways == ~LateInDump /\ Spec => []OneList
<1>1. ListInv => OneList
  BY ApartIsOneList DEF ListInv, Typed
<1> QED BY <1>1, ListInvariant, PTL

\* A process of SUSP_BLOCKED gave its frames back, or its SWAP is under way: also
\* when memoria refuses the SWAP, for want of room or because the write fails, but
\* not when a timer suspends a process in a dump.
THEOREM SuspensionFreesMemory == ~LateInDump /\ Spec => []SuspendedGaveMemoryBack
<1>1. ListInv => SuspendedGaveMemoryBack
  BY DEF ListInv
<1> QED BY <1>1, ListInvariant, PTL

-----------------------------------------------------------------------------
(* The swap file. *)

\* swap_free counts the slots that are not in use, and every suspended process has
\* slots of its own among those in use.  Killing a suspended process, and a write
\* of the file that fails, leave slots in use.
SwapBacked ==
    \E used \in SUBSET (1 .. SwapTotal), slots \in [Pids -> SUBSET (1 .. SwapTotal)] :
        /\ swap_free = SwapTotal - Cardinality(used)
        /\ \A p \in Pids : mem[p] = "suspended" =>
              slots[p] \subseteq used /\ Cardinality(slots[p]) = Size[p]
        /\ \A p, q \in Pids : mem[p] = "suspended" /\ mem[q] = "suspended" /\ p # q =>
              slots[p] \cap slots[q] = {}

\* A finite set has a subset of every smaller size.
LEMMA SubsetOfSize ==
    ASSUME NEW S, IsFiniteSet(S), NEW n \in Nat, n <= Cardinality(S)
    PROVE  \E T \in SUBSET S : Cardinality(T) = n
<1>1. Cardinality(S) \in Nat /\ ExistsBijection(1 .. Cardinality(S), S)
  BY FS_CardinalityType
<1>2. PICK f : f \in Bijection(1 .. Cardinality(S), S)
  BY <1>1 DEF ExistsBijection
<1> DEFINE T == { f[i] : i \in 1 .. n }
           g == [i \in 1 .. n |-> f[i]]
<1>3. f \in [1 .. Cardinality(S) -> S] /\ \A i, j \in 1 .. Cardinality(S) : f[i] = f[j] => i = j
  BY <1>2 DEF Bijection, Injection, IsInjective
<1>4. 1 .. n \subseteq 1 .. Cardinality(S)
  BY <1>1
<1>5. T \in SUBSET S
  BY <1>3, <1>4
<1>6. g \in Bijection(1 .. n, T)
  BY <1>3, <1>4 DEF Bijection, Injection, Surjection, IsInjective
<1>7. IsFiniteSet(1 .. n) /\ Cardinality(1 .. n) = n
  BY FS_Interval
<1>8. Cardinality(T) = Cardinality(1 .. n)
  BY <1>6, <1>7, FS_Bijection DEF ExistsBijection
<1> QED BY <1>5, <1>7, <1>8

\* The slots are as many as their numbers, and those in use finite.
LEMMA SlotSets ==
    /\ IsFiniteSet(1 .. SwapTotal) /\ Cardinality(1 .. SwapTotal) = SwapTotal
    /\ \A used \in SUBSET (1 .. SwapTotal) :
          IsFiniteSet(used) /\ Cardinality(used) \in 0 .. SwapTotal
<1>1. SwapTotal \in Nat
  BY SuspensionAssumption
<1>2. IsFiniteSet(1 .. SwapTotal) /\ Cardinality(1 .. SwapTotal) = SwapTotal
  BY <1>1, FS_Interval
<1>3. ASSUME NEW used \in SUBSET (1 .. SwapTotal)
      PROVE  IsFiniteSet(used) /\ Cardinality(used) \in 0 .. SwapTotal
  <2>1. IsFiniteSet(used) /\ Cardinality(used) <= SwapTotal
    BY <1>2, FS_Subset
  <2> QED BY <1>1, <2>1, FS_CardinalityType
<1> QED BY <1>2, <1>3

\* What is in use never exceeds the file.
LEMMA SwapBackedBound == SwapBacked => swap_free \in 0 .. SwapTotal
BY SuspensionAssumption, SlotSets DEF SwapBacked

\* Steps that suspend and resume nobody keep the slots.
LEMMA SwapKept ==
    ASSUME SwapBacked, swap_free' = swap_free,
           \A p \in Pids : mem'[p] = "suspended" => mem[p] = "suspended"
    PROVE  SwapBacked'
BY DEF SwapBacked

\* SWAP takes free slots.
LEMMA SwapTaken ==
    ASSUME SwapBacked, Typed, NEW p \in Pids, mem[p] # "suspended", swap_free >= Size[p],
           mem' = [mem EXCEPT ![p] = "suspended"], swap_free' = swap_free - Size[p]
    PROVE  SwapBacked'
<1>1. PICK used \in SUBSET (1 .. SwapTotal), slots \in [Pids -> SUBSET (1 .. SwapTotal)] :
        /\ swap_free = SwapTotal - Cardinality(used)
        /\ \A q \in Pids : mem[q] = "suspended" =>
              slots[q] \subseteq used /\ Cardinality(slots[q]) = Size[q]
        /\ \A q, r \in Pids : mem[q] = "suspended" /\ mem[r] = "suspended" /\ q # r =>
              slots[q] \cap slots[r] = {}
  BY DEF SwapBacked
<1> DEFINE free == (1 .. SwapTotal) \ used
<1>2. Size[p] \in Nat /\ SwapTotal \in Nat /\ Cardinality(used) \in Nat /\ IsFiniteSet(used)
  BY SuspensionAssumption, SlotSets
<1>3. IsFiniteSet(free) /\ Cardinality(free) = SwapTotal - Cardinality((1 .. SwapTotal) \cap used)
  BY SlotSets, FS_Difference
<1>4. (1 .. SwapTotal) \cap used = used
  OBVIOUS
<1>5. Size[p] <= Cardinality(free)
  BY <1>1, <1>2, <1>3, <1>4
<1>6. PICK T \in SUBSET free : Cardinality(T) = Size[p]
  BY <1>2, <1>3, <1>5, SubsetOfSize
<1>7. IsFiniteSet(T) /\ T \cap used = {}
  BY <1>3, FS_Subset
<1>8. Cardinality(used \cup T) = Cardinality(used) + Cardinality(T) - Cardinality(used \cap T)
  BY <1>2, <1>7, FS_Union
<1>9. Cardinality(used \cap T) = 0
  BY <1>7, FS_EmptySet
<1> DEFINE slots1 == [slots EXCEPT ![p] = T]
           used1 == used \cup T
<1>10. swap_free' = SwapTotal - Cardinality(used1)
  BY <1>1, <1>2, <1>6, <1>8, <1>9
<1>11. used1 \in SUBSET (1 .. SwapTotal) /\ slots1 \in [Pids -> SUBSET (1 .. SwapTotal)]
  OBVIOUS
<1>12. mem \in [Pids -> {"none", "resident", "suspended"}]
  BY DEF Typed
<1>13. \A q \in Pids : q # p => mem'[q] = mem[q] /\ slots1[q] = slots[q]
  BY <1>12
<1>14. slots1[p] = T
  OBVIOUS
<1> HIDE DEF slots1
<1>15. \A q \in Pids : mem'[q] = "suspended" =>
          slots1[q] \subseteq used1 /\ Cardinality(slots1[q]) = Size[q]
  BY <1>1, <1>6, <1>13, <1>14
<1>16. \A q, r \in Pids : mem'[q] = "suspended" /\ mem'[r] = "suspended" /\ q # r =>
          slots1[q] \cap slots1[r] = {}
  BY <1>1, <1>6, <1>7, <1>13, <1>14
<1> HIDE DEF used1
<1> QED BY <1>10, <1>11, <1>15, <1>16 DEF SwapBacked

\* A failed write loses free slots.
LEMMA SwapLost ==
    ASSUME SwapBacked, NEW n \in Nat, swap_free >= n, mem' = mem, swap_free' = swap_free - n
    PROVE  SwapBacked'
<1>1. PICK used \in SUBSET (1 .. SwapTotal), slots \in [Pids -> SUBSET (1 .. SwapTotal)] :
        /\ swap_free = SwapTotal - Cardinality(used)
        /\ \A q \in Pids : mem[q] = "suspended" =>
              slots[q] \subseteq used /\ Cardinality(slots[q]) = Size[q]
        /\ \A q, r \in Pids : mem[q] = "suspended" /\ mem[r] = "suspended" /\ q # r =>
              slots[q] \cap slots[r] = {}
  BY DEF SwapBacked
<1> DEFINE free == (1 .. SwapTotal) \ used
<1>2. SwapTotal \in Nat /\ Cardinality(used) \in Nat /\ IsFiniteSet(used)
  BY SuspensionAssumption, SlotSets
<1>3. IsFiniteSet(free) /\ Cardinality(free) = SwapTotal - Cardinality((1 .. SwapTotal) \cap used)
  BY SlotSets, FS_Difference
<1>4. (1 .. SwapTotal) \cap used = used
  OBVIOUS
<1>5. n <= Cardinality(free)
  BY <1>1, <1>2, <1>3, <1>4
<1>6. PICK T \in SUBSET free : Cardinality(T) = n
  BY <1>3, <1>5, SubsetOfSize
<1>7. IsFiniteSet(T) /\ T \cap used = {}
  BY <1>3, FS_Subset
<1>8. Cardinality(used \cup T) = Cardinality(used) + Cardinality(T) - Cardinality(used \cap T)
  BY <1>2, <1>7, FS_Union
<1>9. Cardinality(used \cap T) = 0
  BY <1>7, FS_EmptySet
<1>10. swap_free' = SwapTotal - Cardinality(used \cup T)
  BY <1>1, <1>2, <1>6, <1>8, <1>9
<1>11. used \cup T \in SUBSET (1 .. SwapTotal)
  OBVIOUS
<1> QED BY <1>1, <1>10, <1>11 DEF SwapBacked

\* UNSUSPEND gives the slots of the process back, so the file does not overflow.
LEMMA SwapReturned ==
    ASSUME SwapBacked, Typed, NEW p \in Pids, mem[p] = "suspended",
           mem' = [mem EXCEPT ![p] = "resident"], swap_free' = swap_free + Size[p]
    PROVE  SwapBacked'
<1>1. PICK used \in SUBSET (1 .. SwapTotal), slots \in [Pids -> SUBSET (1 .. SwapTotal)] :
        /\ swap_free = SwapTotal - Cardinality(used)
        /\ \A q \in Pids : mem[q] = "suspended" =>
              slots[q] \subseteq used /\ Cardinality(slots[q]) = Size[q]
        /\ \A q, r \in Pids : mem[q] = "suspended" /\ mem[r] = "suspended" /\ q # r =>
              slots[q] \cap slots[r] = {}
  BY DEF SwapBacked
<1> DEFINE used1 == used \ slots[p]
<1>2. Size[p] \in Nat /\ SwapTotal \in Nat /\ Cardinality(used) \in Nat /\ IsFiniteSet(used)
  BY SuspensionAssumption, SlotSets
<1>3. Cardinality(used1) = Cardinality(used) - Cardinality(used \cap slots[p])
  BY <1>2, FS_Difference
<1>4. used \cap slots[p] = slots[p] /\ Cardinality(slots[p]) = Size[p]
  BY <1>1
<1> HIDE DEF used1
<1>11. Cardinality(used1) = Cardinality(used) - Size[p]
  BY <1>3, <1>4
<1>5. swap_free' = SwapTotal - Cardinality(used1)
  BY <1>1, <1>2, <1>11
<1> USE DEF used1
<1>6. mem \in [Pids -> {"none", "resident", "suspended"}]
  BY DEF Typed
<1>7. mem'[p] = "resident" /\ \A q \in Pids : q # p => mem'[q] = mem[q]
  BY <1>6
<1>8. \A q \in Pids : mem'[q] = "suspended" =>
          slots[q] \subseteq used1 /\ Cardinality(slots[q]) = Size[q]
  <2> SUFFICES ASSUME NEW q \in Pids, mem'[q] = "suspended"
               PROVE  slots[q] \subseteq used1 /\ Cardinality(slots[q]) = Size[q]
    OBVIOUS
  <2>1. q # p /\ mem[q] = "suspended"
    BY <1>7
  <2>2. slots[q] \cap slots[p] = {} /\ slots[q] \subseteq used /\ Cardinality(slots[q]) = Size[q]
    BY <1>1, <2>1
  <2> QED BY <2>2
<1>9. \A q, r \in Pids : mem'[q] = "suspended" /\ mem'[r] = "suspended" /\ q # r =>
          slots[q] \cap slots[r] = {}
  BY <1>1, <1>7
<1>10. used1 \in SUBSET (1 .. SwapTotal)
  OBVIOUS
<1> HIDE DEF used1
<1> QED BY <1>5, <1>8, <1>9, <1>10 DEF SwapBacked

\* KILL_PROCESS and INIT_PROCESS suspend nobody.
LEMMA KillSwap ==
    ASSUME SwapBacked, Typed, NEW p \in Pids, KillInMemory(p)
    PROVE  SwapBacked'
<1>1. mem \in [Pids -> {"none", "resident", "suspended"}] /\ mem' = [mem EXCEPT ![p] = "none"]
      /\ swap_free' = swap_free
  BY DEF Typed, KillInMemory
<1>2. \A q \in Pids : mem'[q] = "suspended" => mem[q] = "suspended"
  BY <1>1
<1> QED BY <1>1, <1>2, SwapKept

\* Every step keeps the account of the swap file.
LEMMA NextSwapBacked == ListInv /\ SwapBacked /\ [Next]_vars => SwapBacked'
<1> SUFFICES ASSUME ListInv, SwapBacked, [Next]_vars PROVE SwapBacked'
  OBVIOUS
<1>1. Typed
  BY DEF ListInv
<1>2. UNCHANGED memory => SwapBacked'
  BY SwapKept DEF memory
<1>3. CASE UNCHANGED vars
  BY <1>2, <1>3 DEF vars
<1>4. ASSUME NEW t \in medium, Medium(t) PROVE SwapBacked'
  <2>1. t.pid \in Pids
    BY <1>1 DEF Typed
  <2>2. CASE SwapInMemory(t)
    <3>1. CASE UNCHANGED memory
      BY <1>2, <3>1
    <3>2. CASE /\ mem[t.pid] = "resident" /\ swap_free >= Size[t.pid]
               /\ mem' = [mem EXCEPT ![t.pid] = "suspended"]
               /\ swap_free' = swap_free - Size[t.pid]
      BY <1>1, <2>1, <3>2, SwapTaken
    <3>3. CASE /\ swap_free >= Size[t.pid] /\ swap_free' = swap_free - Size[t.pid]
               /\ mem' = mem
      BY <2>1, <3>3, SwapLost, SuspensionAssumption
    <3> QED BY <2>2, <3>1, <3>2, <3>3 DEF SwapInMemory
  <2> QED BY <1>2, <1>4, <2>2 DEF Medium, MediumWakes, SwapRefused, SwapDone
<1>5. CASE LongSusp
  <2>1. CASE LongUnsuspends
    <3>1. asking \in Pids
      BY <1>1, <2>1 DEF Typed, LongUnsuspends
    <3>2. CASE UNCHANGED memory
      BY <1>2, <3>2
    <3>3. CASE /\ mem[asking] = "suspended"
               /\ mem' = [mem EXCEPT ![asking] = "resident"]
               /\ swap_free' = swap_free + Size[asking]
      BY <1>1, <3>1, <3>3, SwapReturned
    <3> QED BY <2>1, <3>2, <3>3 DEF LongUnsuspends, UnsuspendInMemory
  <2> QED BY <1>2, <1>5, <2>1 DEF LongSusp, LongAsks, LongRefused, LongMoves
<1>6. CASE LongNew
  <2>1. CASE LongAdmits
    <3>1. PICK p \in NextOf(new) : mem' = [mem EXCEPT ![p] = "resident"]
      BY <2>1 DEF LongAdmits
    <3>2. mem \in [Pids -> {"none", "resident", "suspended"}]
      BY <1>1 DEF Typed
    <3>3. \A q \in Pids : mem'[q] = "suspended" => mem[q] = "suspended"
      BY <3>1, <3>2
    <3> QED BY <2>1, <3>3, SwapKept DEF LongAdmits
  <2> QED BY <1>2, <1>6, <2>1 DEF LongNew, LongStartsNew, LongEnds
<1>7. ASSUME NEW p \in Pids, Dispatch(p) PROVE SwapBacked'
  BY <1>2, <1>7 DEF Dispatch
<1>8. ASSUME NEW p \in Pids, Program(p) PROVE SwapBacked'
  <2>1. CASE ExitProcess(p)
    BY <1>1, <2>1, KillSwap DEF ExitProcess
  <2> QED BY <1>2, <1>8, <2>1 DEF Program, InitProc, IoProcess, DumpMemory
<1>9. ASSUME NEW p \in Pids, DumpAnswered(p) PROVE SwapBacked'
  BY <1>1, <1>2, <1>9, KillSwap DEF DumpAnswered
<1>10. ASSUME NEW p \in Pids, IoCompletion(p) PROVE SwapBacked'
  BY <1>2, <1>10 DEF IoCompletion
<1>11. ASSUME NEW p \in Pids, IoDisconnected(p) PROVE SwapBacked'
  BY <1>1, <1>11, KillSwap DEF IoDisconnected
<1> QED BY <1>3, <1>4, <1>5, <1>6, <1>7, <1>8, <1>9, <1>10, <1>11 DEF Next

\* Types are right, and neither free count becomes negative or grows past its
\* swap file: SWAP, failed writes included, and UNSUSPEND keep the account of the
\* slots.  Without the hypothesis on late timers a process may be in two lists.
THEOREM TypeCorrect == ~LateInDump /\ Spec => []TypeOK
<1> SUFFICES ASSUME ~LateInDump PROVE Spec => []TypeOK
  OBVIOUS
<1>1. Init => SwapBacked
  <2> SUFFICES ASSUME Init PROVE SwapBacked
    OBVIOUS
  <2>1. Cardinality({}) = 0 /\ SwapTotal \in Nat
    BY FS_EmptySet, SuspensionAssumption
  <2>2. {} \in SUBSET (1 .. SwapTotal) /\ [p \in Pids |-> {}] \in [Pids -> SUBSET (1 .. SwapTotal)]
    OBVIOUS
  <2>3. swap_free = SwapTotal - Cardinality({}) /\ \A p \in Pids : mem[p] # "suspended"
    BY <2>1 DEF Init
  <2> QED BY <2>2, <2>3 DEF SwapBacked
<1>2. ListInv /\ SwapBacked /\ [Next]_vars => SwapBacked'
  BY NextSwapBacked
<1>3. Spec => []SwapBacked
  BY <1>1, <1>2, ListInvariant, PTL DEF Spec
<1>4. ListInv /\ SwapBacked => TypeOK
  <2> SUFFICES ASSUME ListInv, SwapBacked PROVE TypeOK
    OBVIOUS
  <2>1. swap_free \in 0 .. SwapTotal
    BY SwapBackedBound
  <2>2. \A s \in {ready, exec, blocked, susp_blocked, exited, moving, io_pending, dumping} : s \subseteq Pids
    BY DEF ListInv, Typed
  <2> QED BY <2>1, <2>2 DEF ListInv, Typed, TypeOK
<1> QED BY <1>3, <1>4, ListInvariant, PTL

-----------------------------------------------------------------------------
(* The life cycle of a process. *)

\* The state that a list stands for.
LEMMA StateOfList ==
    ASSUME Apart, NEW p \in Pids
    PROVE  /\ p \in Range(new) => ListOf(p) = "NEW"
           /\ p \in ready => ListOf(p) = "READY"
           /\ p \in exec <=> ListOf(p) = "EXEC"
           /\ p \in blocked => ListOf(p) = "BLOCKED"
           /\ p \in susp_blocked => ListOf(p) = "SUSP_BLOCKED"
           /\ p \in Range(susp_ready) \cup moving => ListOf(p) = "SUSP_READY"
           /\ p \in exited => ListOf(p) = "EXIT"
           /\ p \in Unborn => ListOf(p) = "none"
BY DEF Apart, ListOf, Unborn

\* The same after a step.
LEMMA StateOfListNext ==
    ASSUME Apart', NEW p \in Pids
    PROVE  /\ p \in Range(new)' => ListOf(p)' = "NEW"
           /\ p \in ready' => ListOf(p)' = "READY"
           /\ p \in exec' => ListOf(p)' = "EXEC"
           /\ p \in blocked' => ListOf(p)' = "BLOCKED"
           /\ p \in susp_blocked' => ListOf(p)' = "SUSP_BLOCKED"
           /\ p \in Range(susp_ready)' \cup moving' => ListOf(p)' = "SUSP_READY"
           /\ p \in exited' => ListOf(p)' = "EXIT"
BY DEF Apart, ListOf

\* A process whose lists a step leaves alone keeps its state.
LEMMA SameState ==
    ASSUME NEW p \in Pids,
           p \in Range(new)' <=> p \in Range(new),
           p \in ready' <=> p \in ready,
           p \in exec' <=> p \in exec,
           p \in blocked' <=> p \in blocked,
           p \in susp_blocked' <=> p \in susp_blocked,
           p \in Range(susp_ready)' \cup moving' <=> p \in Range(susp_ready) \cup moving,
           p \in exited' <=> p \in exited
    PROVE  ListOf(p)' = ListOf(p)
BY DEF ListOf

\* One process changes its state, the others keep theirs.
LEMMA MoveStep ==
    ASSUME NEW p \in Pids, NEW from, NEW to, ListOf(p) = from, ListOf(p)' = to,
           \A q \in Pids : q # p => ListOf(q)' = ListOf(q)
    PROVE  Lifecycle!Move(p, from, to)
BY DEF Lifecycle!Move

\* Nobody changes state.
LEMMA StutterStep ==
    ASSUME \A q \in Pids : ListOf(q)' = ListOf(q)
    PROVE  UNCHANGED [p \in Pids |-> ListOf(p)]
OBVIOUS

\* An arrow of the diagram.
LEMMA ArrowStep ==
    ASSUME NEW p \in Pids,
           \/ Lifecycle!Move(p, "none", "NEW")
           \/ Lifecycle!Dispatch(p)
           \/ Lifecycle!Move(p, "EXEC", "BLOCKED")
           \/ Lifecycle!Move(p, "BLOCKED", "READY")
           \/ Lifecycle!Move(p, "BLOCKED", "SUSP_BLOCKED")
           \/ Lifecycle!Move(p, "SUSP_BLOCKED", "BLOCKED")
           \/ Lifecycle!Move(p, "SUSP_BLOCKED", "SUSP_READY")
           \/ Lifecycle!Move(p, "SUSP_READY", "READY")
           \/ \E s \in {"EXEC", "BLOCKED", "SUSP_BLOCKED"} : Lifecycle!Move(p, s, "EXIT")
    PROVE  Lifecycle!Next
BY DEF Lifecycle!Next, Lifecycle!Create, Lifecycle!Block, Lifecycle!Unblock, Lifecycle!Suspend,
       Lifecycle!Unsuspend, Lifecycle!Wake, Lifecycle!Resume, Lifecycle!Finish

\* What a step of the schedulers must be for the diagram: an arrow, or nothing.
LifecycleStep == Lifecycle!Next \/ UNCHANGED [p \in Pids |-> ListOf(p)]

\* The medium-term scheduler suspends, takes a suspension back, or moves nobody.
LEMMA MediumLifecycle ==
    ASSUME ListInv, ListInv', NEW t \in medium, Medium(t)
    PROVE  LifecycleStep
<1> USE DEF lists
<1>0. Apart /\ Apart' /\ t.pid \in Pids
  BY DEF ListInv, Typed
<1>1. CASE UNCHANGED lists
  BY <1>1, SameState, StutterStep DEF LifecycleStep
<1>2. CASE /\ t.pid \in blocked /\ blocked' = blocked \ {t.pid}
           /\ susp_blocked' = susp_blocked \cup {t.pid}
           /\ UNCHANGED <<new, susp_ready, ready, exec, exited, moving>>
  <2>1. ListOf(t.pid) = "BLOCKED" /\ ListOf(t.pid)' = "SUSP_BLOCKED"
    BY <1>0, <1>2, StateOfList, StateOfListNext
  <2>2. \A q \in Pids : q # t.pid => ListOf(q)' = ListOf(q)
    BY <1>2, SameState
  <2> QED BY <1>0, <2>1, <2>2, MoveStep, ArrowStep DEF LifecycleStep
<1>3. CASE /\ t.pid \in susp_blocked /\ susp_blocked' = susp_blocked \ {t.pid}
           /\ blocked' = blocked \cup {t.pid}
           /\ UNCHANGED <<new, susp_ready, ready, exec, exited, moving>>
  <2>1. ListOf(t.pid) = "SUSP_BLOCKED" /\ ListOf(t.pid)' = "BLOCKED"
    BY <1>0, <1>3, StateOfList, StateOfListNext
  <2>2. \A q \in Pids : q # t.pid => ListOf(q)' = ListOf(q)
    BY <1>3, SameState
  <2> QED BY <1>0, <2>1, <2>2, MoveStep, ArrowStep DEF LifecycleStep
<1>4. MediumWakes(t) => UNCHANGED lists \/ <1>2!1
  BY DEF MediumWakes
<1>5. SwapRefused(t) => UNCHANGED lists \/ <1>3!1
  BY DEF SwapRefused
<1>6. SwapInMemory(t) \/ SwapDone(t) => UNCHANGED lists
  BY DEF SwapInMemory, SwapDone
<1> QED BY <1>1, <1>2, <1>3, <1>4, <1>5, <1>6 DEF Medium

\* The long-term scheduler resumes or admits one process, or moves nobody.
LEMMA LongLifecycle ==
    ASSUME ListInv, ListInv', LongSusp \/ LongNew
    PROVE  LifecycleStep
<1> USE DEF lists
<1>0. Apart /\ Apart' /\ new \in Seq(Pids) /\ susp_ready \in Seq(Pids)
  BY DEF ListInv, Typed
<1>1. CASE UNCHANGED lists
  BY <1>1, SameState, StutterStep DEF LifecycleStep
<1>2. CASE LongUnsuspends
  <2>1. Range(susp_ready') = Range(susp_ready) \ {asking} /\ asking \in Range(susp_ready)
    BY <1>0, <1>2, RemoveFirstFacts DEF LongUnsuspends, ListInv, Waiting, Apart
  <2>2. \A q \in Pids : q \in Range(susp_ready)' \cup moving' <=> q \in Range(susp_ready) \cup moving
    BY <1>2, <2>1 DEF LongUnsuspends
  <2>3. \A q \in Pids : ListOf(q)' = ListOf(q)
    BY <1>2, <2>2, SameState DEF LongUnsuspends
  <2> QED BY <2>3, StutterStep DEF LifecycleStep
<1>3. ASSUME NEW p \in Pids, LongMoves(p) PROVE LifecycleStep
  <2>1. ListOf(p) = "SUSP_READY" /\ ListOf(p)' = "READY"
    BY <1>0, <1>3, StateOfList, StateOfListNext DEF LongMoves
  <2>2. \A q \in Pids : q # p => ListOf(q)' = ListOf(q)
    BY <1>3, SameState DEF LongMoves
  <2> QED BY <2>1, <2>2, MoveStep, ArrowStep DEF LifecycleStep
<1>4. CASE LongAdmits
  <2>1. PICK p \in NextOf(new) : new' = RemoveFirst(new, p) /\ ready' = ready \cup {p}
    BY <1>4 DEF LongAdmits
  <2>2. p \in Range(new) /\ p \in Pids
    BY <1>0, NextOfFacts
  <2>3. Range(new') = Range(new) \ {p}
    BY <1>0, <2>1, RemoveFirstFacts DEF Apart
  <2>4. ListOf(p) = "NEW" /\ ListOf(p)' = "READY"
    BY <1>0, <2>1, <2>2, StateOfList, StateOfListNext
  <2>5. \A q \in Pids : q # p => ListOf(q)' = ListOf(q)
    BY <1>4, <2>1, <2>3, SameState DEF LongAdmits
  <2>6. Lifecycle!Admit({p})
    BY <2>2, <2>4, <2>5 DEF Lifecycle!Admit, Lifecycle!In
  <2> QED BY <2>2, <2>6 DEF LifecycleStep, Lifecycle!Next
<1>5. LongAsks \/ LongRefused \/ LongStartsNew \/ LongEnds => UNCHANGED lists
  BY DEF LongAsks, LongRefused, LongStartsNew, LongEnds
<1> QED BY <1>1, <1>2, <1>3, <1>4, <1>5 DEF LongSusp, LongNew

\* A CPU is given only while there is one to spare.
LEMMA DispatchLifecycle ==
    ASSUME ListInv, ListInv', NEW p \in Pids, Dispatch(p)
    PROVE  LifecycleStep
<1>0. Apart /\ Apart' /\ exec \subseteq Pids
  BY DEF ListInv, Typed
<1>1. ListOf(p) = "READY" /\ ListOf(p)' = "EXEC"
  BY <1>0, StateOfList, StateOfListNext DEF Dispatch
<1>2. \A q \in Pids : q # p => ListOf(q)' = ListOf(q)
  BY SameState DEF Dispatch
<1>3. Lifecycle!In("EXEC") = exec
  BY <1>0, StateOfList DEF Lifecycle!In
<1>4. Cardinality(exec) < Cpus
  BY DEF Dispatch
<1>5. Lifecycle!Move(p, "READY", "EXEC")
  BY <1>1, <1>2, MoveStep
<1>6. Lifecycle!Dispatch(p)
  <2>1. Cardinality(Lifecycle!In("EXEC")) < Cpus
    BY <1>3, <1>4
  <2>2. Lifecycle!Cardinality(Lifecycle!In("EXEC")) = Cardinality(Lifecycle!In("EXEC"))
    BY DEF Cardinality, Lifecycle!Cardinality
  <2> QED BY <1>5, <2>1, <2>2 DEF Lifecycle!Dispatch
<1> QED BY <1>6, ArrowStep DEF LifecycleStep

\* System calls create, block and end processes.
LEMMA ProgramLifecycle ==
    ASSUME ListInv, ListInv', NEW p \in Pids, Program(p)
    PROVE  LifecycleStep
<1>0. Apart /\ Apart' /\ new \in Seq(Pids)
  BY DEF ListInv, Typed
<1>1. ASSUME NEW q \in Pids, InitProc(p, q) PROVE LifecycleStep
  <2>1. Range(new') = Range(new) \cup {q}
    BY <1>0, <1>1, AppendFacts DEF InitProc
  <2>2. ListOf(q) = "none" /\ ListOf(q)' = "NEW"
    BY <1>0, <1>1, <2>1, StateOfList, StateOfListNext DEF InitProc
  <2>3. \A r \in Pids : r # q => ListOf(r)' = ListOf(r)
    BY <1>1, <2>1, SameState DEF InitProc
  <2> QED BY <2>2, <2>3, MoveStep, ArrowStep DEF LifecycleStep
<1>2. CASE ExitProcess(p)
  <2>1. ListOf(p) = "EXEC" /\ ListOf(p)' = "EXIT"
    BY <1>0, <1>2, StateOfList, StateOfListNext DEF ExitProcess
  <2>2. \A q \in Pids : q # p => ListOf(q)' = ListOf(q)
    BY <1>2, SameState DEF ExitProcess
  <2> QED BY <2>1, <2>2, MoveStep, ArrowStep DEF LifecycleStep
<1>3. CASE IoProcess(p) \/ DumpMemory(p)
  <2>1. ListOf(p) = "EXEC" /\ ListOf(p)' = "BLOCKED"
    BY <1>0, <1>3, StateOfList, StateOfListNext DEF IoProcess, DumpMemory
  <2>2. \A q \in Pids : q # p => ListOf(q)' = ListOf(q)
    BY <1>3, SameState DEF IoProcess, DumpMemory
  <2> QED BY <2>1, <2>2, MoveStep, ArrowStep DEF LifecycleStep
<1> QED BY <1>1, <1>2, <1>3 DEF Program

\* memoria's answer to a dump, the end of an IO and the loss of a device.
LEMMA DeviceLifecycle ==
    ASSUME ListInv, ListInv', NEW p \in Pids, DumpAnswered(p) \/ IoCompletion(p) \/ IoDisconnected(p)
    PROVE  LifecycleStep
<1>0. Apart /\ Apart' /\ susp_ready \in Seq(Pids)
  BY DEF ListInv, Typed
<1>1. CASE DumpAnswered(p)
  <2>1. ListOf(p) = "BLOCKED" /\ (ListOf(p)' = "READY" \/ ListOf(p)' = "EXIT")
    BY <1>0, <1>1, StateOfList, StateOfListNext DEF DumpAnswered, ListInv, Waiting
  <2>2. \A q \in Pids : q # p => ListOf(q)' = ListOf(q)
    BY <1>1, SameState DEF DumpAnswered
  <2> QED BY <2>1, <2>2, MoveStep, ArrowStep DEF LifecycleStep
<1>2. CASE IoCompletion(p) /\ p \in blocked
  <2>0. p \notin susp_blocked
    BY <1>0, <1>2 DEF Apart
  <2>1. ListOf(p) = "BLOCKED" /\ ListOf(p)' = "READY"
    BY <1>0, <1>2, <2>0, StateOfList, StateOfListNext DEF IoCompletion
  <2>2. \A q \in Pids : q # p => ListOf(q)' = ListOf(q)
    BY <1>2, <2>0, SameState DEF IoCompletion
  <2> QED BY <2>1, <2>2, MoveStep, ArrowStep DEF LifecycleStep
<1>3. CASE IoCompletion(p) /\ p \notin blocked
  <2>0. /\ susp_ready' = Append(susp_ready, p) /\ p \in susp_blocked
        /\ susp_blocked' = susp_blocked \ {p} /\ UNCHANGED <<blocked, ready>>
    BY <1>3 DEF IoCompletion
  <2>1. Range(susp_ready') = Range(susp_ready) \cup {p}
    BY <1>0, <2>0, AppendFacts
  <2>2. ListOf(p) = "SUSP_BLOCKED" /\ ListOf(p)' = "SUSP_READY"
    BY <1>0, <2>0, <2>1, StateOfList, StateOfListNext
  <2>3. \A q \in Pids : q # p => ListOf(q)' = ListOf(q)
    BY <1>3, <2>0, <2>1, SameState DEF IoCompletion
  <2> QED BY <2>2, <2>3, MoveStep, ArrowStep DEF LifecycleStep
<1>4. CASE IoDisconnected(p)
  <2>1. (ListOf(p) = "BLOCKED" \/ ListOf(p) = "SUSP_BLOCKED") /\ ListOf(p)' = "EXIT"
    BY <1>0, <1>4, StateOfList, StateOfListNext DEF IoDisconnected
  <2>2. \A q \in Pids : q # p => ListOf(q)' = ListOf(q)
    BY <1>4, SameState DEF IoDisconnected
  <2> QED BY <2>1, <2>2, MoveStep, ArrowStep DEF LifecycleStep
<1> QED BY <1>1, <1>2, <1>3, <1>4

\* The schedulers, their timers and the devices implement the seven-state diagram:
\* the root begins in NEW, and every step is an arrow or moves nobody, if no timer
\* suspends a process in a dump.
THEOREM LifecycleImplemented == ~LateInDump /\ Spec => ImplementsLifecycle
<1> SUFFICES ASSUME ~LateInDump PROVE Spec => ImplementsLifecycle
  OBVIOUS
<1>1. Init => Lifecycle!Init
  <2> SUFFICES ASSUME Init PROVE Lifecycle!Init
    OBVIOUS
  <2>1. Range(new) = {Root} /\ Range(susp_ready) = {}
    BY DEF Init, Range
  <2>2. \A p \in Pids : ListOf(p) = IF p = Root THEN "NEW" ELSE "none"
    BY <2>1 DEF Init, ListOf
  <2> QED BY <2>2 DEF Lifecycle!Init
<1>2. ListInv /\ ListInv' /\ [Next]_vars => [Lifecycle!Next]_([p \in Pids |-> ListOf(p)])
  <2> SUFFICES ASSUME ListInv, ListInv', [Next]_vars PROVE LifecycleStep
    BY DEF LifecycleStep
  <2>1. CASE UNCHANGED vars
    BY <2>1, SameState, StutterStep DEF vars, lists, LifecycleStep
  <2> QED BY <2>1, MediumLifecycle, LongLifecycle, DispatchLifecycle, ProgramLifecycle,
             DeviceLifecycle DEF Next
<1> QED BY <1>1, <1>2, ListInvariant, PTL DEF Spec, ImplementsLifecycle, Lifecycle!Spec

-----------------------------------------------------------------------------
(* Where the pages of a process are, when the swap file has room for all. *)

\* home gives every process as many slots of the swap file as it has pages.
Home(home) ==
    /\ home \in [Pids -> SUBSET (1 .. SwapTotal)]
    /\ \A p \in Pids : Cardinality(home[p]) = Size[p]
    /\ \A p, q \in Pids : p # q => home[p] \cap home[q] = {}

\* The swap file has room for all processes at once.
SwapFits == \E home : Home(home)

\* The slots in use are those of the processes that are suspended or were killed
\* while they were.
Stored(home) == \E stored \in SUBSET Pids :
    /\ \A p \in stored : mem[p] = "suspended" \/ p \in exited
    /\ \A p \in Pids : mem[p] = "suspended" => p \in stored
    /\ swap_free = SwapTotal - Cardinality(UNION { home[p] : p \in stored })

\* What memoria keeps of a process follows from its list, no SWAP is refused, and
\* of each process at most one SWAP is under way.
Placed ==
    /\ \A p \in Pids : p \in ready \/ p \in exec \/ p \in moving \/ p \in blocked =>
          mem[p] = "resident"
    /\ \A p \in susp_blocked : mem[p] # "none"
    /\ \A p \in Range(susp_ready) : mem[p] = "suspended" \/ (mem[p] = "resident" /\ Size[p] = 0)
    /\ \A p \in Pids : p \in Range(new) \/ p \in exited \/ p \in Unborn => mem[p] = "none"
    /\ \A t \in medium : t.pc # "refused"
    /\ \A t \in medium : t.pc = "swap" =>
          t.pid \in susp_blocked /\ mem[t.pid] = "resident"
    /\ \A t, u \in medium : t.pc = "swap" /\ u.pc = "swap" /\ t.pid = u.pid => t = u

\* A process that is in memory finds its slots free.
LEMMA RoomToSwap ==
    ASSUME NEW home, Home(home), Stored(home), NEW p \in Pids, mem[p] # "suspended", p \notin exited
    PROVE  Size[p] <= swap_free
<1>1. PICK stored \in SUBSET Pids :
        /\ \A q \in stored : mem[q] = "suspended" \/ q \in exited
        /\ swap_free = SwapTotal - Cardinality(UNION { home[q] : q \in stored })
  BY DEF Stored
<1> DEFINE U == UNION { home[q] : q \in stored }
<1>2. U \in SUBSET (1 .. SwapTotal) /\ home[p] \in SUBSET (1 .. SwapTotal)
  BY DEF Home
<1>3. U \cap home[p] = {}
  BY <1>1 DEF Home
<1>4. /\ IsFiniteSet(U) /\ IsFiniteSet(home[p])
      /\ Cardinality(U) \in Nat /\ Cardinality(home[p]) = Size[p] /\ Size[p] \in Nat
  BY <1>2, SlotSets, SuspensionAssumption DEF Home
<1> HIDE DEF U
<1>5. Cardinality(U \cup home[p]) = Cardinality(U) + Cardinality(home[p]) - Cardinality(U \cap home[p])
  BY <1>4, FS_Union
<1>6. Cardinality(U \cap home[p]) = 0
  BY <1>3, FS_EmptySet
<1>7. U \cup home[p] \in SUBSET (1 .. SwapTotal)
  BY <1>2
<1>8. Cardinality(U \cup home[p]) \in 0 .. SwapTotal /\ SwapTotal \in Nat
  BY <1>7, SlotSets, SuspensionAssumption
<1>9. swap_free = SwapTotal - Cardinality(U)
  BY <1>1 DEF U
<1> QED BY <1>4, <1>5, <1>6, <1>8, <1>9

\* Steps that suspend nobody, and end those whose memory they drop.
LEMMA StoredKept ==
    ASSUME NEW home, Stored(home), swap_free' = swap_free, exited \subseteq exited',
           \A p \in Pids : mem'[p] = "suspended" => mem[p] = "suspended",
           \A p \in Pids : mem[p] = "suspended" => mem'[p] = "suspended" \/ p \in exited'
    PROVE  Stored(home)'
BY DEF Stored

\* SWAP uses the slots of the process.
LEMMA StoredTaken ==
    ASSUME NEW home, Home(home), Stored(home), Typed, NEW p \in Pids, mem[p] # "suspended",
           p \notin exited, mem' = [mem EXCEPT ![p] = "suspended"],
           swap_free' = swap_free - Size[p], exited' = exited
    PROVE  Stored(home)'
<1>1. PICK stored \in SUBSET Pids :
        /\ \A q \in stored : mem[q] = "suspended" \/ q \in exited
        /\ \A q \in Pids : mem[q] = "suspended" => q \in stored
        /\ swap_free = SwapTotal - Cardinality(UNION { home[q] : q \in stored })
  BY DEF Stored
<1> DEFINE U == UNION { home[q] : q \in stored }
           stored1 == stored \cup {p}
<1>2. U \in SUBSET (1 .. SwapTotal) /\ home[p] \in SUBSET (1 .. SwapTotal)
  BY DEF Home
<1>3. U \cap home[p] = {}
  BY <1>1 DEF Home
<1>4. /\ IsFiniteSet(U) /\ IsFiniteSet(home[p])
      /\ Cardinality(U) \in Nat /\ Cardinality(home[p]) = Size[p] /\ Size[p] \in Nat
      /\ SwapTotal \in Nat
  BY <1>2, SlotSets, SuspensionAssumption DEF Home
<1>5. UNION { home[q] : q \in stored1 } = U \cup home[p]
  OBVIOUS
<1>6. swap_free = SwapTotal - Cardinality(U)
  BY <1>1
<1> HIDE DEF U
<1>7. Cardinality(U \cup home[p]) = Cardinality(U) + Cardinality(home[p]) - Cardinality(U \cap home[p])
  BY <1>4, FS_Union
<1>8. Cardinality(U \cap home[p]) = 0
  BY <1>3, FS_EmptySet
<1>9. Cardinality(U \cup home[p]) = Cardinality(U) + Size[p]
  BY <1>4, <1>7, <1>8
<1>10. swap_free' = SwapTotal - Cardinality(U \cup home[p])
  BY <1>4, <1>6, <1>9
<1>11. mem'[p] = "suspended" /\ \A q \in Pids : q # p => mem'[q] = mem[q]
  BY DEF Typed
<1>12. \A q \in stored1 : mem'[q] = "suspended" \/ q \in exited'
  BY <1>1, <1>11
<1>13. \A q \in Pids : mem'[q] = "suspended" => q \in stored1
  BY <1>1, <1>11
<1>14. stored1 \in SUBSET Pids
  OBVIOUS
<1>15. swap_free' = SwapTotal - Cardinality(UNION { home[q] : q \in stored1 })
  BY <1>5, <1>10
<1> HIDE DEF stored1
<1> QED BY <1>12, <1>13, <1>14, <1>15 DEF Stored

\* UNSUSPEND gives them back.
LEMMA StoredReturned ==
    ASSUME NEW home, Home(home), Stored(home), Typed, NEW p \in Pids, mem[p] = "suspended",
           mem' = [mem EXCEPT ![p] = "resident"],
           swap_free' = swap_free + Size[p], exited' = exited
    PROVE  Stored(home)'
<1>1. PICK stored \in SUBSET Pids :
        /\ \A q \in stored : mem[q] = "suspended" \/ q \in exited
        /\ \A q \in Pids : mem[q] = "suspended" => q \in stored
        /\ swap_free = SwapTotal - Cardinality(UNION { home[q] : q \in stored })
  BY DEF Stored
<1> DEFINE U == UNION { home[q] : q \in stored }
           stored1 == stored \ {p}
<1>2. U \in SUBSET (1 .. SwapTotal) /\ home[p] \subseteq U /\ p \in stored
  BY <1>1 DEF Home
<1>3. UNION { home[q] : q \in stored1 } = U \ home[p]
  <2>1. \A q \in stored1 : home[q] \cap home[p] = {}
    BY DEF Home
  <2> QED BY <1>2, <2>1
<1>4. /\ IsFiniteSet(U) /\ Cardinality(U) \in Nat /\ SwapTotal \in Nat
      /\ Cardinality(home[p]) = Size[p] /\ Size[p] \in Nat
  BY <1>2, SlotSets, SuspensionAssumption DEF Home
<1>5. swap_free = SwapTotal - Cardinality(U)
  BY <1>1
<1> HIDE DEF U
<1>6. Cardinality(U \ home[p]) = Cardinality(U) - Cardinality(U \cap home[p])
  BY <1>4, FS_Difference
<1>7. U \cap home[p] = home[p]
  BY <1>2
<1>8. Cardinality(U \ home[p]) = Cardinality(U) - Size[p]
  BY <1>4, <1>6, <1>7
<1>9. swap_free' = SwapTotal - Cardinality(U \ home[p])
  BY <1>4, <1>5, <1>8
<1>10. mem'[p] = "resident" /\ \A q \in Pids : q # p => mem'[q] = mem[q]
  BY DEF Typed
<1>11. \A q \in stored1 : mem'[q] = "suspended" \/ q \in exited'
  BY <1>1, <1>10
<1>12. \A q \in Pids : mem'[q] = "suspended" => q \in stored1
  BY <1>1, <1>10
<1>13. stored1 \in SUBSET Pids
  OBVIOUS
<1>14. swap_free' = SwapTotal - Cardinality(UNION { home[q] : q \in stored1 })
  BY <1>3, <1>9
<1> HIDE DEF stored1
<1> QED BY <1>11, <1>12, <1>13, <1>14 DEF Stored

\* The medium-term scheduler suspends only what is in memory.
LEMMA MediumPlaced ==
    ASSUME ~SwapMayFail, NEW home, Home(home), ListInv, Placed, Stored(home), NEW t \in medium, Medium(t)
    PROVE  Placed' /\ Stored(home)'
<1> USE DEF lists, waits, long, memory
<1>0. /\ Typed /\ Apart /\ t \in [pid : Pids, stay : Nat, pc : {"sleep", "swap", "ok", "refused"}]
      /\ mem \in [Pids -> {"none", "resident", "suspended"}]
      /\ susp_blocked \subseteq Pids /\ \A u \in medium : u.pid \in Pids
  BY DEF ListInv, Typed
<1>1. ~SwapRefused(t)
  BY DEF SwapRefused, Placed
<1>2. CASE MediumWakes(t)
  <2>1. Stored(home)'
    BY <1>2, StoredKept DEF MediumWakes
  <2>2. Unborn' \subseteq Unborn
    BY <1>2 DEF MediumWakes, Unborn
  <2>3. \A u \in medium' : u \in medium \/ u = Thread(t.pid, t.stay, IF Size[t.pid] = 0 THEN "ok" ELSE "swap")
    BY <1>2 DEF MediumWakes
  <2>4. /\ Thread(t.pid, t.stay, "ok").pc = "ok"
        /\ Thread(t.pid, t.stay, "swap").pc = "swap"
        /\ Thread(t.pid, t.stay, "swap").pid = t.pid
        /\ Thread(t.pid, t.stay, "swap").stay = t.stay
    BY DEF Thread
  <2>5. CASE UNCHANGED blocked
    <3>1. medium' \subseteq medium /\ UNCHANGED <<lists, stays, memory>>
      BY <1>0, <1>2, <2>5 DEF MediumWakes
    <3> QED BY <2>1, <2>2, <3>1 DEF Placed
  <2>6. CASE /\ t.pid \in blocked /\ blocked' = blocked \ {t.pid}
             /\ susp_blocked' = susp_blocked \cup {t.pid}
    <3>1. mem[t.pid] = "resident" /\ t.pid \notin susp_blocked /\ mem' = mem
      BY <1>0, <1>2, <2>6 DEF MediumWakes, Placed, Apart
    <3>2. \A u \in medium' : u.pc # "refused"
      BY <2>3, <2>4 DEF Placed
    <3>3. \A u \in medium' : u.pc = "swap" => u.pid \in susp_blocked' /\ mem'[u.pid] = "resident"
      BY <2>3, <2>4, <2>6, <3>1 DEF Placed
    <3>4. \A u \in medium : u.pc = "swap" => u.pid # t.pid
      BY <3>1 DEF Placed
    <3>5. \A u, v \in medium' : u.pc = "swap" /\ v.pc = "swap" /\ u.pid = v.pid => u = v
      BY <2>3, <2>4, <3>4 DEF Placed
    <3> QED BY <1>0, <1>2, <2>1, <2>2, <2>6, <3>1, <3>2, <3>3, <3>5 DEF MediumWakes, Placed
  <2> QED BY <1>2, <2>5, <2>6 DEF MediumWakes
<1>3. CASE SwapInMemory(t)
  <2>1. /\ t.pc = "swap" /\ t.pid \in susp_blocked /\ t.pid \notin exited
        /\ mem[t.pid] = "resident"
    BY <1>0, <1>3 DEF SwapInMemory, Placed, Apart
  <2>2. Size[t.pid] <= swap_free /\ Size[t.pid] \in Nat /\ swap_free \in Nat
    BY <1>0, <2>1, RoomToSwap, SuspensionAssumption DEF Typed
  <2>3. /\ mem' = [mem EXCEPT ![t.pid] = "suspended"] /\ swap_free' = swap_free - Size[t.pid]
        /\ medium' = (medium \ {t}) \cup {Thread(t.pid, t.stay, "ok")}
        /\ UNCHANGED <<lists, stays>>
    BY <1>3, <2>1, <2>2 DEF SwapInMemory
  <2>4. Stored(home)'
    BY <1>0, <2>1, <2>3, StoredTaken
  <2>5. mem'[t.pid] = "suspended" /\ \A p \in Pids : p # t.pid => mem'[p] = mem[p]
    BY <1>0, <2>3
  <2>6. Thread(t.pid, t.stay, "ok").pc = "ok"
    BY DEF Thread
  <2>7. \A u \in medium' : u.pc # "refused"
    BY <2>3, <2>6 DEF Placed
  <2>8. \A u \in medium' : u.pc = "swap" => u \in medium /\ u.pid # t.pid
    BY <2>1, <2>3, <2>6 DEF Placed
  <2>9. Unborn' = Unborn /\ t.pid \notin Unborn
    BY <2>1, <2>3 DEF Unborn
  <2>10. /\ t.pid \notin ready /\ t.pid \notin exec /\ t.pid \notin moving /\ t.pid \notin blocked
         /\ t.pid \notin Range(new) /\ t.pid \notin Range(susp_ready)
    BY <1>0, <2>1 DEF Apart
  <2>11. Range(susp_ready) \subseteq Pids
    BY <1>0, RangeElements DEF Typed
  <2> QED BY <1>0, <2>1, <2>3, <2>4, <2>5, <2>7, <2>8, <2>9, <2>10, <2>11 DEF Placed
<1>4. CASE SwapDone(t)
  <2>1. Stored(home)'
    BY <1>4, StoredKept DEF SwapDone
  <2> QED BY <1>4, <2>1 DEF SwapDone, Placed, Unborn
<1> QED BY <1>1, <1>2, <1>3, <1>4 DEF Medium

\* The long-term scheduler resumes and admits only into memory.
LEMMA LongPlaced ==
    ASSUME NEW home, Home(home), ListInv, Placed, Stored(home), LongSusp \/ LongNew
    PROVE  Placed' /\ Stored(home)'
<1> USE DEF lists, waits, long, memory
<1>0. /\ Typed /\ Apart /\ new \in Seq(Pids) /\ susp_ready \in Seq(Pids)
      /\ mem \in [Pids -> {"none", "resident", "suspended"}]
      /\ susp_blocked \subseteq Pids /\ \A u \in medium : u.pid \in Pids
      /\ Range(new) \subseteq Pids /\ Range(susp_ready) \subseteq Pids
  BY RangeElements DEF ListInv, Typed
<1>1. CASE UNCHANGED <<lists, stays, medium, memory>>
  <2>1. Stored(home)'
    BY <1>1, StoredKept
  <2> QED BY <1>1, <2>1 DEF Placed, Unborn
<1>2. CASE LongUnsuspends
  <2>1. /\ Range(susp_ready') = Range(susp_ready) \ {asking} /\ asking \in Range(susp_ready)
        /\ asking \in Pids
    BY <1>0, <1>2, RemoveFirstFacts DEF LongUnsuspends, ListInv, Waiting, Apart
  <2>2. mem'[asking] = "resident" /\ \A p \in Pids : p # asking => mem'[p] = mem[p]
    BY <1>0, <1>2, <2>1 DEF LongUnsuspends, UnsuspendInMemory
  <2>3. Stored(home)'
    <3>1. CASE UNCHANGED memory
      BY <1>2, <3>1, StoredKept DEF LongUnsuspends
    <3>2. CASE /\ mem[asking] = "suspended" /\ mem' = [mem EXCEPT ![asking] = "resident"]
               /\ swap_free' = swap_free + Size[asking]
      BY <1>0, <1>2, <2>1, <3>2, StoredReturned DEF LongUnsuspends
    <3> QED BY <1>2, <3>1, <3>2 DEF LongUnsuspends, UnsuspendInMemory
  <2>4. Unborn' = Unborn
    BY <1>2, <2>1 DEF LongUnsuspends, Unborn
  <2>5. asking \notin Range(new) /\ asking \notin exited /\ asking \notin susp_blocked /\ asking \notin Unborn
    BY <1>0, <2>1 DEF Apart, Unborn
  <2> QED BY <1>0, <1>2, <2>1, <2>2, <2>3, <2>4, <2>5 DEF LongUnsuspends, Placed
<1>3. ASSUME NEW p \in Pids, LongMoves(p) PROVE Placed' /\ Stored(home)'
  <2>1. Stored(home)'
    BY <1>3, StoredKept DEF LongMoves
  <2>2. Unborn' = Unborn
    BY <1>3 DEF LongMoves, Unborn
  <2> QED BY <1>3, <2>1, <2>2 DEF LongMoves, Placed
<1>4. CASE LongAdmits
  <2>1. PICK p \in NextOf(new) : /\ new' = RemoveFirst(new, p) /\ ready' = ready \cup {p}
                                 /\ mem' = [mem EXCEPT ![p] = "resident"]
    BY <1>4 DEF LongAdmits
  <2>2. p \in Range(new) /\ p \in Pids
    BY <1>0, NextOfFacts
  <2>3. Range(new') = Range(new) \ {p}
    BY <1>0, <2>1, RemoveFirstFacts DEF Apart
  <2>4. mem'[p] = "resident" /\ \A q \in Pids : q # p => mem'[q] = mem[q]
    BY <1>0, <2>1, <2>2
  <2>5. mem[p] = "none"
    BY <2>2 DEF Placed
  <2>6. Stored(home)'
    BY <1>4, <2>2, <2>4, <2>5, StoredKept DEF LongAdmits
  <2>7. Unborn' = Unborn
    BY <1>4, <2>1, <2>2, <2>3 DEF LongAdmits, Unborn
  <2>8. /\ p \notin susp_blocked /\ p \notin Range(susp_ready) /\ p \notin exited /\ p \notin Unborn
    BY <1>0, <2>2 DEF Apart, Unborn
  <2> QED BY <1>0, <1>4, <2>1, <2>3, <2>4, <2>6, <2>7, <2>8 DEF LongAdmits, Placed
<1>5. LongAsks \/ LongRefused \/ LongStartsNew \/ LongEnds => UNCHANGED <<lists, stays, medium, memory>>
  BY DEF LongAsks, LongRefused, LongStartsNew, LongEnds
<1> QED BY <1>1, <1>2, <1>3, <1>4, <1>5 DEF LongSusp, LongNew

\* KILL_PROCESS forgets one process.
LEMMA KillMem ==
    ASSUME Typed, NEW p \in Pids, KillInMemory(p)
    PROVE  mem'[p] = "none" /\ (\A q \in Pids : q # p => mem'[q] = mem[q]) /\ swap_free' = swap_free
BY DEF Typed, KillInMemory

\* Processes that execute are in memory, and EXIT forgets them.
LEMMA ProgramPlaced ==
    ASSUME NEW home, ListInv, Placed, Stored(home), NEW p \in Pids, Dispatch(p) \/ Program(p)
    PROVE  Placed' /\ Stored(home)'
<1> USE DEF lists, waits, long, memory
<1>0. /\ Typed /\ Apart /\ new \in Seq(Pids) /\ susp_ready \in Seq(Pids)
      /\ stays \in [Pids -> Nat]
      /\ susp_blocked \subseteq Pids /\ \A u \in medium : u.pid \in Pids
      /\ Range(new) \subseteq Pids /\ Range(susp_ready) \subseteq Pids
  BY RangeElements DEF ListInv, Typed
<1>1. CASE Dispatch(p)
  <2>1. Stored(home)' /\ Unborn' = Unborn
    BY <1>1, StoredKept DEF Dispatch, Unborn
  <2> QED BY <1>1, <2>1 DEF Dispatch, Placed
<1>2. ASSUME NEW q \in Pids, InitProc(p, q) PROVE Placed' /\ Stored(home)'
  <2>1. Range(new') = Range(new) \cup {q}
    BY <1>0, <1>2, AppendFacts DEF InitProc
  <2>2. Stored(home)'
    BY <1>2, StoredKept DEF InitProc
  <2>3. Unborn' = Unborn \ {q} /\ q \in Unborn
    BY <1>2, <2>1 DEF InitProc, Unborn
  <2> QED BY <1>2, <2>1, <2>2, <2>3 DEF InitProc, Placed
<1>3. CASE ExitProcess(p)
  <2>1. mem'[p] = "none" /\ (\A q \in Pids : q # p => mem'[q] = mem[q]) /\ swap_free' = swap_free
    BY <1>0, <1>3, KillMem DEF ExitProcess
  <2>2. mem[p] = "resident"
    BY <1>3 DEF ExitProcess, Placed
  <2>3. Stored(home)'
    BY <1>3, <2>1, <2>2, StoredKept DEF ExitProcess
  <2>4. Unborn' = Unborn
    BY <1>3 DEF ExitProcess, Unborn
  <2>5. /\ p \notin ready /\ p \notin moving /\ p \notin blocked /\ p \notin susp_blocked
        /\ p \notin Range(susp_ready)
    BY <1>0, <1>3 DEF ExitProcess, Apart
  <2>6. /\ exec' = exec \ {p} /\ exited' = exited \cup {p} /\ medium' = medium
        /\ UNCHANGED <<new, susp_ready, ready, blocked, susp_blocked, moving>>
    BY <1>3 DEF ExitProcess
  <2>7. \A u \in medium' : u.pc = "swap" => u.pid \in susp_blocked' /\ mem'[u.pid] = "resident"
    BY <1>0, <2>1, <2>5, <2>6 DEF Placed
  <2> QED BY <1>0, <2>1, <2>3, <2>4, <2>5, <2>6, <2>7 DEF Placed
<1>4. CASE IoProcess(p) \/ DumpMemory(p)
  <2>1. Stored(home)' /\ Unborn' = Unborn
    BY <1>4, StoredKept DEF IoProcess, DumpMemory, Unborn
  <2>2. /\ p \notin susp_blocked /\ mem' = mem /\ UNCHANGED <<susp_blocked, susp_ready, new, exited>>
    BY <1>0, <1>4 DEF IoProcess, DumpMemory, Apart
  <2>3. \A u \in medium' : u \in medium \/ u.pc = "sleep"
    BY <1>4 DEF IoProcess, DumpMemory, Thread
  <2>4. \A u \in medium' : u.pc # "refused" /\ (u.pc = "swap" => u \in medium /\ u.pid # p)
    BY <2>2, <2>3 DEF Placed
  <2>5. \A u \in medium' : u.pc = "swap" => u.pid \in susp_blocked' /\ mem'[u.pid] = "resident"
    BY <1>0, <2>2, <2>4 DEF Placed
  <2> QED BY <1>4, <2>1, <2>2, <2>4, <2>5 DEF IoProcess, DumpMemory, Placed
<1> QED BY <1>1, <1>2, <1>3, <1>4 DEF Program

\* With devices slower than SWAP, the end of an IO finds the process suspended or
\* in memory, as its list says.
LEMMA DevicePlaced ==
    ASSUME NEW home, ~FastDevices, ListInv, Placed, Stored(home), NEW p \in Pids,
           DumpAnswered(p) \/ IoCompletion(p) \/ IoDisconnected(p)
    PROVE  Placed' /\ Stored(home)'
<1> USE DEF lists, waits, long, memory
<1>0. /\ Typed /\ Apart /\ Waiting /\ new \in Seq(Pids) /\ susp_ready \in Seq(Pids)
      /\ mem \in [Pids -> {"none", "resident", "suspended"}]
      /\ susp_blocked \subseteq Pids /\ \A u \in medium : u.pid \in Pids
      /\ Range(new) \subseteq Pids /\ Range(susp_ready) \subseteq Pids
  BY RangeElements DEF ListInv, Typed
<1>1. CASE DumpAnswered(p)
  <2>0. p \in blocked /\ mem[p] = "resident"
    BY <1>0, <1>1 DEF DumpAnswered, Waiting, Placed
  <2>1. /\ p \notin ready /\ p \notin exec /\ p \notin moving /\ p \notin susp_blocked
        /\ p \notin Range(susp_ready) /\ p \notin Range(new)
    BY <1>0, <2>0 DEF Apart
  <2>2. Unborn' = Unborn
    BY <1>1, <2>0 DEF DumpAnswered, Unborn
  <2>3. CASE ready' = ready \cup {p} /\ UNCHANGED <<exited, memory>>
    <3>1. Stored(home)'
      BY <2>3, StoredKept
    <3> QED BY <1>1, <2>0, <2>2, <2>3, <3>1 DEF DumpAnswered, Placed
  <2>4. CASE exited' = exited \cup {p} /\ KillInMemory(p) /\ UNCHANGED ready
    <3>1. mem'[p] = "none" /\ (\A q \in Pids : q # p => mem'[q] = mem[q]) /\ swap_free' = swap_free
      BY <1>0, <2>4, KillMem
    <3>2. Stored(home)'
      BY <2>0, <2>4, <3>1, StoredKept
    <3> QED BY <1>0, <1>1, <2>1, <2>2, <2>4, <3>1, <3>2 DEF DumpAnswered, Placed
  <2> QED BY <1>1, <2>3, <2>4 DEF DumpAnswered
<1>2. CASE IoCompletion(p) /\ p \in blocked
  <2>0. p \notin susp_blocked
    BY <1>0, <1>2 DEF Apart
  <2>1. Stored(home)' /\ Unborn' = Unborn
    BY <1>2, <2>0, StoredKept DEF IoCompletion, Unborn
  <2> QED BY <1>2, <2>0, <2>1 DEF IoCompletion, Placed
<1>3. CASE IoCompletion(p) /\ p \notin blocked
  <2>0. /\ susp_ready' = Append(susp_ready, p) /\ p \in susp_blocked
        /\ susp_blocked' = susp_blocked \ {p} /\ UNCHANGED <<blocked, ready>>
        /\ \A t \in medium : ~(t.pid = p /\ t.pc = "swap")
    BY <1>3 DEF IoCompletion, SwapUnderWay
  <2>1. Range(susp_ready') = Range(susp_ready) \cup {p}
    BY <1>0, <2>0, AppendFacts
  <2>2. mem[p] = "suspended" \/ (mem[p] = "resident" /\ Size[p] = 0)
    BY <1>0, <2>0 DEF ListInv, SuspendedGaveMemoryBack, Placed
  <2>3. Stored(home)'
    BY <1>3, StoredKept DEF IoCompletion
  <2>4. Unborn' = Unborn
    BY <1>3, <2>0, <2>1 DEF IoCompletion, Unborn
  <2> QED BY <1>3, <2>0, <2>1, <2>2, <2>3, <2>4 DEF IoCompletion, Placed
<1>4. CASE IoDisconnected(p)
  <2>0. /\ KillInMemory(p) /\ exited' = exited \cup {p}
        /\ \A t \in medium : ~(t.pid = p /\ t.pc = "swap")
        /\ p \in blocked \/ p \in susp_blocked
        /\ blocked' \subseteq blocked /\ susp_blocked' \subseteq susp_blocked
        /\ p \notin blocked' /\ p \notin susp_blocked'
        /\ \A q \in Pids : q # p => (q \in blocked' <=> q \in blocked)
                                    /\ (q \in susp_blocked' <=> q \in susp_blocked)
    BY <1>0, <1>4 DEF IoDisconnected, SwapUnderWay, Apart
  <2>1. mem'[p] = "none" /\ (\A q \in Pids : q # p => mem'[q] = mem[q]) /\ swap_free' = swap_free
    BY <1>0, <2>0, KillMem
  <2>2. Stored(home)'
    BY <2>0, <2>1, StoredKept
  <2>3. Unborn' = Unborn
    BY <1>4, <2>0 DEF IoDisconnected, Unborn
  <2>4. /\ p \notin ready /\ p \notin exec /\ p \notin moving /\ p \notin Range(susp_ready)
    BY <1>0, <2>0 DEF Apart
  <2> QED BY <1>0, <1>4, <2>0, <2>1, <2>2, <2>3, <2>4 DEF IoDisconnected, Placed
<1> QED BY <1>1, <1>2, <1>3, <1>4

\* Every step keeps pages and lists in agreement.
LEMMA NextPlaced ==
    ASSUME NEW home, Home(home), ~FastDevices, ~SwapMayFail
    PROVE  ListInv /\ Placed /\ Stored(home) /\ [Next]_vars => Placed' /\ Stored(home)'
<1> SUFFICES ASSUME ListInv, Placed, Stored(home), [Next]_vars PROVE Placed' /\ Stored(home)'
  OBVIOUS
<1>1. CASE UNCHANGED vars
  BY <1>1 DEF vars, lists, waits, long, memory, Placed, Stored, Unborn
<1> QED BY <1>1, MediumPlaced, LongPlaced, ProgramPlaced, DevicePlaced DEF Next

\* Placed and Stored hold always.
LEMMA PlacedAlways ==
    ASSUME NEW home, Home(home), ~FastDevices, ~SwapMayFail, ~LateInDump
    PROVE  Spec => [](Placed /\ Stored(home))
<1>1. Init => Placed /\ Stored(home)
  <2> SUFFICES ASSUME Init PROVE Placed /\ Stored(home)
    OBVIOUS
  <2>1. Cardinality(UNION { home[p] : p \in {} }) = 0 /\ SwapTotal \in Nat
    BY FS_EmptySet, SuspensionAssumption
  <2>2. {} \in SUBSET Pids /\ swap_free = SwapTotal - Cardinality(UNION { home[p] : p \in {} })
    BY <2>1 DEF Init
  <2>3. Stored(home)
    BY <2>2 DEF Init, Stored
  <2>4. Range(susp_ready) = {}
    BY DEF Init, Range
  <2> QED BY <2>3, <2>4 DEF Init, Placed
<1>2. ListInv /\ Placed /\ Stored(home) /\ [Next]_vars => Placed' /\ Stored(home)'
  BY NextPlaced
<1> QED BY <1>1, <1>2, ListInvariant, PTL DEF Spec

\* A process that is READY or executes has its pages in user memory, if devices
\* are slower than SWAP, the swap file has room for all and is written without
\* error, and no timer suspends a process in a dump: whichever process a timer, a
\* device, a dump or the long-term scheduler moves.
THEOREM ResidentWhenItFits ==
    /\ SwapFits /\ ~SwapMayFail
    /\ ~FastDevices /\ ~LateInDump
    /\ Spec
    => []ResidentToRun
<1> SUFFICES ASSUME SwapFits, ~SwapMayFail, ~FastDevices, ~LateInDump PROVE Spec => []ResidentToRun
  OBVIOUS
<1>1. PICK home : Home(home)
  BY DEF SwapFits
<1>2. Spec => [](Placed /\ Stored(home))
  BY <1>1, PlacedAlways
<1>3. ListInv /\ Placed => ResidentToRun
  BY DEF ListInv, Typed, Placed, ResidentToRun
<1> QED BY <1>2, <1>3, ListInvariant, PTL
-----------------------------------------------------------------------------
(* No admission is forgotten. *)

\* A run of the long-term scheduler that will look at SUSP_READY is under way.
PendingSusp ==
    \/ long_susp > 0 \/ asking # NoPid \/ moving # {}
    \/ \E t \in medium : t.pc = "ok"

\* LongPending, loop by loop: only a run that is still to look at SUSP_READY
\* excuses a process there that fits, while NEW may also wait for the second loop.
\* The process that UNSUSPEND was sent for speaks for all that could be next.
AdmissionInv ==
    /\ PendingSusp \/ \A p \in NextOf(susp_ready) : ~CanUnsuspend(p)
    /\ PendingSusp \/ long_new > 0 \/ admitting \/ \A p \in NextOf(new) : frames_free < Size[p]
    /\ asking # NoPid => asking \in NextOf(susp_ready)

\* A process of SUSP_READY holds no frames.
SuspReadyOut ==
    \A p \in Range(susp_ready) : mem[p] = "suspended" \/ (mem[p] = "resident" /\ Size[p] = 0)

\* All that could be next have the same size, and under FIFO there is only one.
LEMMA NextOfSame ==
    ASSUME NEW list \in Seq(Pids), NEW p \in NextOf(list), NEW q \in NextOf(list)
    PROVE  Size[p] = Size[q] /\ (Algorithm = "FIFO" => p = q)
<1>1. list # <<>>
  BY DEF NextOf
<1>2. CASE Algorithm = "FIFO"
  BY <1>1, <1>2 DEF NextOf
<1>3. CASE Algorithm # "FIFO"
  <2>1. p \in Range(list) /\ q \in Range(list) /\ Size[p] <= Size[q] /\ Size[q] <= Size[p]
    BY <1>1, <1>3 DEF NextOf
  <2>2. Size[p] \in Nat /\ Size[q] \in Nat
    BY NextOfFacts, SuspensionAssumption
  <2> QED BY <1>3, <2>1, <2>2
<1> QED BY <1>2, <1>3

\* Nothing is next of an empty list.
LEMMA NextOfEmpty == NextOf(<<>>) = {}
BY DEF NextOf

\* CallLong starts a run that looks at SUSP_READY.
LEMMA CallLongPends ==
    ASSUME Typed, AdmissionInv, CallLong,
           asking # NoPid => susp_ready' = susp_ready
    PROVE  AdmissionInv'
<1>1. long_susp' > 0 /\ asking' = asking
  BY DEF CallLong, Typed
<1>2. asking' # NoPid => asking' \in NextOf(susp_ready')
  BY <1>1 DEF AdmissionInv
<1>3. PendingSusp'
  BY <1>1 DEF PendingSusp
<1> QED BY <1>2, <1>3 DEF AdmissionInv, NextOf

\* A step that leaves the waiting lists and the memory alone, and ends no run,
\* forgets nothing.
LEMMA AdmissionKept ==
    ASSUME AdmissionInv, UNCHANGED <<new, susp_ready, moving, mem, frames_free, long>>,
           \A t \in medium : t.pc = "ok" => t \in medium'
    PROVE  AdmissionInv'
<1>1. PendingSusp => PendingSusp'
  BY DEF PendingSusp, long
<1> QED BY <1>1 DEF AdmissionInv, NextOf, CanUnsuspend, long

\* The medium-term scheduler: a thread whose SWAP succeeded will call the
\* long-term scheduler, and one whose SWAP did not has freed nothing.
LEMMA MediumAdmission ==
    ASSUME Typed, AdmissionInv, NEW t \in medium, Medium(t)
    PROVE  AdmissionInv'
<1> USE DEF lists, waits, memory
<1>1. CASE MediumWakes(t) \/ SwapRefused(t)
  <2>1. \A u \in medium : u.pc = "ok" => u \in medium'
    BY <1>1 DEF MediumWakes, SwapRefused
  <2> QED BY <1>1, <2>1, AdmissionKept DEF MediumWakes, SwapRefused
<1>2. CASE SwapInMemory(t)
  <2>1. \A u \in medium : u.pc = "ok" => u \in medium'
    BY <1>2 DEF SwapInMemory
  <2>2. CASE UNCHANGED <<mem, frames_free>>
    BY <1>2, <2>1, <2>2, AdmissionKept DEF SwapInMemory, memory
  <2>3. CASE medium' = (medium \ {t}) \cup {Thread(t.pid, t.stay, "ok")}
    <3>1. Thread(t.pid, t.stay, "ok").pc = "ok"
      BY DEF Thread
    <3>2. PendingSusp'
      BY <2>3, <3>1 DEF PendingSusp
    <3>3. asking' = asking /\ susp_ready' = susp_ready
      BY <1>2 DEF SwapInMemory, long
    <3> QED BY <3>2, <3>3 DEF AdmissionInv, NextOf
  <2> QED BY <1>2, <2>2, <2>3 DEF SwapInMemory
<1>3. CASE SwapDone(t)
  BY <1>3, CallLongPends DEF SwapDone
<1> QED BY <1>1, <1>2, <1>3 DEF Medium

\* The first loop of the long-term scheduler.
LEMMA LongSuspAdmission ==
    ASSUME Typed, AdmissionInv, Algorithm = "FIFO" \/ SuspReadyOut, LongSusp
    PROVE  AdmissionInv'
<1> USE DEF lists, waits, memory
<1>0. /\ susp_ready \in Seq(Pids) /\ long_susp \in Nat /\ long_new \in Nat /\ frames_free \in Nat
      /\ asking \in Pids \cup {NoPid} /\ NoPid \notin Pids
      /\ NextOf(susp_ready) \subseteq Range(susp_ready) /\ NextOf(susp_ready) \subseteq Pids
  BY NextOfFacts, SuspensionAssumption DEF Typed
<1>1. CASE LongAsks
  <2>1. CASE susp_ready = <<>> /\ long_new' = long_new + 1 /\ UNCHANGED asking
    <3>1. NextOf(susp_ready') = {} /\ asking' = NoPid /\ long_new' > 0
      BY <1>0, <1>1, <2>1, NextOfEmpty DEF LongAsks
    <3> QED BY <1>0, <3>1 DEF AdmissionInv
  <2>2. CASE asking' \in NextOf(susp_ready) /\ UNCHANGED long_new
    <3>1. asking' # NoPid /\ susp_ready' = susp_ready
      BY <1>0, <1>1, <2>2 DEF LongAsks
    <3>2. PendingSusp'
      BY <3>1 DEF PendingSusp
    <3> QED BY <2>2, <3>1, <3>2 DEF AdmissionInv, NextOf
  <2> QED BY <1>1, <2>1, <2>2 DEF LongAsks
<1>2. CASE LongUnsuspends
  <2>1. moving' # {} /\ asking' = NoPid
    BY <1>2 DEF LongUnsuspends
  <2> QED BY <2>1 DEF AdmissionInv, PendingSusp
<1>3. CASE LongRefused
  <2>1. asking \in NextOf(susp_ready) /\ ~CanUnsuspend(asking) /\ asking \in Pids
    BY <1>0, <1>3 DEF LongRefused, AdmissionInv
  <2>2. ASSUME NEW p \in NextOf(susp_ready) PROVE ~CanUnsuspend(p)
    <3>1. Size[p] = Size[asking] /\ (Algorithm = "FIFO" => p = asking)
      BY <1>0, <2>1, NextOfSame
    <3>2. CASE Algorithm = "FIFO"
      BY <2>1, <3>1, <3>2
    <3>3. CASE SuspReadyOut
      <4>1. Size[p] \in Nat /\ Size[asking] \in Nat
        BY <1>0, <2>1, SuspensionAssumption
      <4>2. frames_free < Size[asking]
        BY <1>0, <2>1, <3>3, <4>1 DEF SuspReadyOut, CanUnsuspend
      <4> QED BY <1>0, <3>1, <3>3, <4>1, <4>2 DEF SuspReadyOut, CanUnsuspend
    <3> QED BY <3>2, <3>3
  <2>3. /\ susp_ready' = susp_ready /\ mem' = mem /\ frames_free' = frames_free
        /\ asking' = NoPid /\ long_new' > 0
    BY <1>0, <1>3 DEF LongRefused
  <2> QED BY <2>2, <2>3 DEF AdmissionInv, NextOf, CanUnsuspend
<1>4. ASSUME NEW p \in Pids, LongMoves(p) PROVE AdmissionInv'
  <2>1. long_susp' > 0 /\ asking' = asking /\ susp_ready' = susp_ready
    BY <1>0, <1>4 DEF LongMoves
  <2>2. PendingSusp'
    BY <2>1 DEF PendingSusp
  <2> QED BY <2>1, <2>2 DEF AdmissionInv, NextOf
<1> QED BY <1>1, <1>2, <1>3, <1>4 DEF LongSusp

\* The second loop: it ends only when the next process of NEW does not fit.
LEMMA LongNewAdmission ==
    ASSUME Typed, Apart, AdmissionInv, LongNew
    PROVE  AdmissionInv'
<1> USE DEF lists, waits, memory
<1>0. /\ new \in Seq(Pids) /\ susp_ready \in Seq(Pids) /\ frames_free \in Nat
      /\ NextOf(new) \subseteq Range(new) /\ NextOf(new) \subseteq Pids
      /\ NextOf(susp_ready) \subseteq Range(susp_ready) /\ NextOf(susp_ready) \subseteq Pids
      /\ mem \in [Pids -> {"none", "resident", "suspended"}]
  BY NextOfFacts DEF Typed
<1>1. CASE LongStartsNew
  BY <1>1 DEF LongStartsNew, AdmissionInv, PendingSusp, NextOf, CanUnsuspend
<1>2. CASE LongAdmits
  <2>1. PICK p \in NextOf(new) : /\ frames_free >= Size[p] /\ frames_free' = frames_free - Size[p]
                                 /\ mem' = [mem EXCEPT ![p] = "resident"]
    BY <1>2 DEF LongAdmits
  <2>2. p \in Range(new) /\ Size[p] \in Nat
    BY <1>0, SuspensionAssumption
  <2>3. \A q \in NextOf(susp_ready) : mem'[q] = mem[q] /\ Size[q] \in Nat
    BY <1>0, <2>1, <2>2, SuspensionAssumption DEF Apart
  <2>4. frames_free' <= frames_free /\ frames_free' \in Nat
    BY <1>0, <2>1, <2>2
  <2>5. \A q \in NextOf(susp_ready) : ~CanUnsuspend(q) => ~CanUnsuspend(q)'
    BY <1>0, <2>3, <2>4 DEF CanUnsuspend
  <2>6. admitting' /\ susp_ready' = susp_ready /\ (PendingSusp => PendingSusp') /\ asking' = asking
    BY <1>2 DEF LongAdmits, PendingSusp, long
  <2> QED BY <2>5, <2>6 DEF AdmissionInv, NextOf
<1>3. CASE LongEnds
  <2>1. \A q \in NextOf(new) : frames_free < Size[q]
    BY <1>0, <1>3, NextOfEmpty, NextOfSame DEF LongEnds
  <2> QED BY <1>3, <2>1 DEF LongEnds, AdmissionInv, PendingSusp, NextOf, CanUnsuspend
<1> QED BY <1>1, <1>2, <1>3 DEF LongNew

\* System calls, the short-term scheduler and devices.
LEMMA ProcessAdmission ==
    ASSUME ~MayDisconnect, ~DumpMayFail, Typed, AdmissionInv, NEW p \in Pids,
           Dispatch(p) \/ Program(p) \/ DumpAnswered(p) \/ IoCompletion(p) \/ IoDisconnected(p)
    PROVE  AdmissionInv'
<1> USE DEF lists, waits, memory
<1>1. CASE Dispatch(p) \/ IoProcess(p) \/ DumpMemory(p) \/ DumpAnswered(p)
  <2>1. \A t \in medium : t \in medium'
    BY <1>1 DEF Dispatch, IoProcess, DumpMemory, DumpAnswered
  <2> QED BY <1>1, <2>1, AdmissionKept DEF Dispatch, IoProcess, DumpMemory, DumpAnswered
<1>2. CASE (\E q \in Pids : InitProc(p, q)) \/ ExitProcess(p)
  BY <1>2, CallLongPends DEF InitProc, ExitProcess
<1>3. CASE IoCompletion(p)
  <2>1. CASE UNCHANGED <<susp_ready, long>>
    BY <1>3, <2>1, AdmissionKept DEF IoCompletion
  <2>2. CASE CallLong
    BY <1>3, <2>2, CallLongPends DEF IoCompletion
  <2> QED BY <1>3, <2>1, <2>2 DEF IoCompletion
<1>4. ~IoDisconnected(p)
  BY DEF IoDisconnected
<1> QED BY <1>1, <1>2, <1>3, <1>4 DEF Program

\* Every step keeps AdmissionInv.
LEMMA NextAdmission ==
    ASSUME ~MayDisconnect, ~DumpMayFail
    PROVE  ListInv /\ (Algorithm = "FIFO" \/ SuspReadyOut) /\ AdmissionInv /\ [Next]_vars
               => AdmissionInv'
<1> SUFFICES ASSUME ListInv, Algorithm = "FIFO" \/ SuspReadyOut, AdmissionInv, [Next]_vars
             PROVE  AdmissionInv'
  OBVIOUS
<1>1. Typed /\ Apart
  BY DEF ListInv
<1>2. CASE UNCHANGED vars
  BY <1>2, AdmissionKept DEF vars, lists, memory
<1> QED BY <1>1, <1>2, MediumAdmission, LongSuspAdmission, LongNewAdmission, ProcessAdmission DEF Next

\* While the next process of SUSP_READY or of NEW fits in memory, a run of the
\* long-term scheduler that will try it is under way or about to start: neither
\* the loop that gives up after a refusal nor a scheduler thread that ends while
\* memory comes free loses an admission.  Under PMCP the tables must agree with
\* the lists, which ResidentWhenItFits gives; what the failed dump and the lost
\* device do to it is among the limits in the README.
THEOREM AdmissionNotForgotten ==
    /\ Algorithm = "FIFO" \/ (SwapFits /\ ~SwapMayFail /\ ~FastDevices)
    /\ ~MayDisconnect /\ ~DumpMayFail /\ ~LateInDump
    /\ Spec
    => []AdmissionPending
<1> SUFFICES ASSUME Algorithm = "FIFO" \/ (SwapFits /\ ~SwapMayFail /\ ~FastDevices),
                    ~MayDisconnect, ~DumpMayFail, ~LateInDump
             PROVE  Spec => []AdmissionPending
  OBVIOUS
<1>1. Init => AdmissionInv
  <2> SUFFICES ASSUME Init PROVE AdmissionInv
    OBVIOUS
  <2>1. long_susp > 0 /\ asking = NoPid
    BY DEF Init
  <2> QED BY <2>1 DEF AdmissionInv, PendingSusp
<1>2. ListInv /\ (Algorithm = "FIFO" \/ SuspReadyOut) /\ AdmissionInv /\ [Next]_vars => AdmissionInv'
  BY NextAdmission
<1>3. AdmissionInv => AdmissionPending
  BY DEF AdmissionInv, PendingSusp, AdmissionPending, LongPending
<1>4. CASE Algorithm = "FIFO"
  BY <1>1, <1>2, <1>3, <1>4, ListInvariant, PTL DEF Spec
<1>5. CASE SwapFits /\ ~SwapMayFail /\ ~FastDevices
  <2>1. PICK home : Home(home)
    BY <1>5 DEF SwapFits
  <2>2. Spec => [](Placed /\ Stored(home))
    BY <1>5, <2>1, PlacedAlways
  <2>3. Placed => SuspReadyOut
    BY DEF Placed, SuspReadyOut
  <2> QED BY <1>1, <1>2, <1>3, <2>2, <2>3, ListInvariant, PTL DEF Spec
<1> QED BY <1>4, <1>5
=============================================================================
