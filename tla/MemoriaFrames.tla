--------------------------- MODULE MemoriaFrames ---------------------------
(***************************************************************************)
(* The memory server (memoria/): ownership of user frames and of swap      *)
(* frames across process creation, suspension, resumption and deletion.    *)
(*                                                                         *)
(* Every request is served by a thread of its own.  INIT_PROCESS runs      *)
(* under sem_process_creation, SWAP and UNSUSPEND_PROCESS run under        *)
(* sem_swap_file, KILL_PROCESS only under sem_process_list, and the two    *)
(* bitmaps are protected by a mutex each, held for one allocation or one   *)
(* release.  An action below is what a handler does between two points     *)
(* where another handler can run.                                          *)
(*                                                                         *)
(* A process identity that was deleted may be used again: it stands for a  *)
(* new process, the kernel's own pids never repeat.                        *)
(***************************************************************************)
EXTENDS Integers, Sequences, FiniteSets, Functions

CONSTANTS
    Pids,            \* process identities
    FramesTotal,     \* TAM_MEMORIA / TAM_PAGINA
    SwapTotal,       \* SWAP_INITIAL_FRAMES
    Sizes,           \* sizes in pages a creation request may ask for
    TableCapacity,   \* ENTRADAS_POR_TABLA ^ CANTIDAD_NIVELES
    NoPid            \* no process

ASSUME MemoriaAssumption ==
    /\ FramesTotal \in Nat /\ SwapTotal \in Nat /\ TableCapacity \in Nat
    /\ Sizes \subseteq Nat
    /\ NoPid \notin Pids

VARIABLES
    frames_bitmap,           \* user frames whose bit is set
    frames_free_count,
    swap_frames_bitmap,      \* swap frames whose bit is set
    swap_frames_free_count,
    process_list,            \* pids in global_process_list
    allocated_frames,        \* per process: user frames, or swap frames if suspended
    page_table,              \* per process: frame_number of page i, in page order
    is_suspended,
    user_space,              \* which page image each user frame holds
    swap_file,               \* which page image each swap frame holds
    init_op,                 \* the INIT_PROCESS handler inside sem_process_creation
    waiting,                 \* SWAP and UNSUSPEND handlers before lock_swap_file
    swap_op                  \* the handler that holds sem_swap_file

userVars == <<frames_bitmap, frames_free_count>>
swapVars == <<swap_frames_bitmap, swap_frames_free_count>>
procVars == <<process_list, allocated_frames, page_table, is_suspended>>
vars == <<userVars, swapVars, procVars, user_space, swap_file, init_op, waiting, swap_op>>

Frames == 0 .. FramesTotal - 1
SwapFrames == 0 .. SwapTotal - 1
Requests == {"SWAP", "UNSUSPEND"} \X Pids

\* The image of page i of process p; frames nobody wrote yet hold NoImage.
Image(p, i) == <<p, i>>
NoImage == <<NoPid, 0>>

NoInit == [pc |-> "idle", pid |-> NoPid, pages |-> 0, frames |-> <<>>]
NoSwap == [pc |-> "idle", kind |-> "SWAP", pid |-> NoPid, frames |-> <<>>]

-----------------------------------------------------------------------------
(* The frame allocators. *)

\* The lists the first-fit loops of allocate_frames and swap_allocate_frames can
\* build: the lowest clear bits in increasing order, n of them or all there are.
FirstFit(all, bitmap, n) ==
    { s \in UNION { [1 .. m -> all \ bitmap] : m \in 0 .. n } :
        /\ \A i, j \in DOMAIN s : i < j => s[i] < s[j]
        /\ \A f \in all \ bitmap :
              f \in Range(s) \/ (Len(s) = n /\ \A i \in DOMAIN s : s[i] < f) }

\* allocate_frames: the list s becomes taken.
TakeUser(s) ==
    /\ frames_bitmap' = frames_bitmap \cup Range(s)
    /\ frames_free_count' = frames_free_count - Len(s)
\* Wrong on purpose: the count of released frames is one too high.
release_frames_off_by_one(s) ==
    /\ frames_bitmap' = frames_bitmap \ Range(s)
    /\ frames_free_count' = frames_free_count + Len(s) + 1

\* release_frames: clean_bit for every entry, whoever owns it now.
release_frames(s) ==
    /\ frames_bitmap' = frames_bitmap \ Range(s)
    /\ frames_free_count' = frames_free_count + Len(s)
\* Wrong on purpose: bitarray_set_bit forgotten.
TakeSwap_unmarked(s) ==
    /\ swap_frames_bitmap' = swap_frames_bitmap
    /\ swap_frames_free_count' = swap_frames_free_count - Len(s)

TakeSwap(s) ==
    /\ swap_frames_bitmap' = swap_frames_bitmap \cup Range(s)
    /\ swap_frames_free_count' = swap_frames_free_count - Len(s)
\* Wrong on purpose: the count is not given back.
swap_release_frames_no_count(s) ==
    /\ swap_frames_bitmap' = swap_frames_bitmap \ Range(s)
    /\ UNCHANGED swap_frames_free_count

swap_release_frames(s) ==
    /\ swap_frames_bitmap' = swap_frames_bitmap \ Range(s)
    /\ swap_frames_free_count' = swap_frames_free_count + Len(s)

-----------------------------------------------------------------------------
(* INIT_PROCESS: create_process under sem_process_creation. *)

\* A process of size 0 gets neither frames nor a page table.
CreateEmpty(p) ==
    /\ init_op = NoInit
    /\ p \notin process_list
    /\ \A r \in waiting : r[2] # p
    /\ 0 \in Sizes
    /\ process_list' = process_list \cup {p}
    /\ allocated_frames' = [allocated_frames EXCEPT ![p] = <<>>]
    /\ page_table' = [page_table EXCEPT ![p] = <<>>]
    /\ is_suspended' = [is_suspended EXCEPT ![p] = FALSE]
    /\ UNCHANGED <<userVars, swapVars, user_space, swap_file, init_op, waiting, swap_op>>

\* The free count is read before allocate_frames takes the mutex.
CreateCheck(p, n) ==
    /\ init_op = NoInit
    /\ p \notin process_list
    /\ \A r \in waiting : r[2] # p
    /\ n > 0
    /\ frames_free_count >= n
    /\ init_op' = [pc |-> "alloc", pid |-> p, pages |-> n, frames |-> <<>>]
    /\ UNCHANGED <<userVars, swapVars, procVars, user_space, swap_file, waiting, swap_op>>

\* allocate_frames checks the count again: a resumption may have taken the
\* frames since.  A list shorter than asked for is dropped with its bits set.
CreateAlloc ==
    /\ init_op.pc = "alloc"
    /\ \/ /\ init_op.pages > frames_free_count
          /\ init_op' = NoInit
          /\ UNCHANGED userVars
       \/ /\ init_op.pages <= frames_free_count
          /\ \E s \in FirstFit(Frames, frames_bitmap, init_op.pages) :
                /\ TakeUser(s)
                /\ init_op' = IF Len(s) = init_op.pages
                              THEN [init_op EXCEPT !.pc = "assign", !.frames = s]
                              ELSE NoInit
    /\ UNCHANGED <<swapVars, procVars, user_space, swap_file, waiting, swap_op>>

\* assign_frames fills the page table and the process enters the list; a table
\* too small for the process gives the frames back.
CreateAssign ==
    /\ init_op.pc = "assign"
    /\ \/ /\ init_op.pages <= TableCapacity
          /\ process_list' = process_list \cup {init_op.pid}
          /\ allocated_frames' = [allocated_frames EXCEPT ![init_op.pid] = init_op.frames]
          /\ page_table' = [page_table EXCEPT ![init_op.pid] = init_op.frames]
          /\ is_suspended' = [is_suspended EXCEPT ![init_op.pid] = FALSE]
          /\ user_space' = [f \in Frames |->
                IF f \in Range(init_op.frames)
                THEN Image(init_op.pid, CHOOSE i \in DOMAIN init_op.frames : init_op.frames[i] = f)
                ELSE user_space[f]]
          /\ UNCHANGED userVars
       \/ /\ init_op.pages > TableCapacity
          /\ release_frames(init_op.frames)
          /\ UNCHANGED <<procVars, user_space>>
    /\ init_op' = NoInit
    /\ UNCHANGED <<swapVars, swap_file, waiting, swap_op>>

-----------------------------------------------------------------------------
(* SWAP and UNSUSPEND_PROCESS, one at a time under sem_swap_file. *)

\* The kernel swaps out processes with pages only, and resumes any; the request
\* then waits in delay_swap_access and lock_swap_file.
Request(kind, p) ==
    /\ p \in process_list
    /\ kind = "SWAP" => allocated_frames[p] # <<>>
    /\ waiting' = waiting \cup {<<kind, p>>}
    /\ UNCHANGED <<userVars, swapVars, procVars, user_space, swap_file, init_op, swap_op>>

\* lock_swap_file and the early returns: a process already (un)suspended, or
\* gone, is answered at once.
SwapLock(kind, p) ==
    /\ swap_op.pc = "idle"
    /\ <<kind, p>> \in waiting
    /\ waiting' = waiting \ {<<kind, p>>}
    /\ swap_op' = IF p \in process_list /\ is_suspended[p] = (kind = "UNSUSPEND")
                  THEN [pc |-> "alloc", kind |-> kind, pid |-> p, frames |-> <<>>]
                  ELSE NoSwap
    /\ UNCHANGED <<userVars, swapVars, procVars, user_space, swap_file, init_op>>

SwapOutAlloc ==
    LET n == Len(allocated_frames[swap_op.pid]) IN
    /\ swap_op.pc = "alloc" /\ swap_op.kind = "SWAP"
    /\ \/ /\ n > swap_frames_free_count
          /\ swap_op' = NoSwap
          /\ UNCHANGED swapVars
       \/ /\ n <= swap_frames_free_count
          /\ \E s \in FirstFit(SwapFrames, swap_frames_bitmap, n) :
                /\ TakeSwap(s)
                /\ swap_op' = IF Len(s) = n
                              THEN [swap_op EXCEPT !.pc = "copy", !.frames = s]
                              ELSE NoSwap
    /\ UNCHANGED <<userVars, procVars, user_space, swap_file, init_op, waiting>>

\* The page images move to the swap frames.  If the write of page k + 1 fails,
\* the handler returns and the swap frames stay taken.
SwapOutCopy ==
    LET from == allocated_frames[swap_op.pid]
        written(k) == [g \in SwapFrames |->
            IF \E i \in 1 .. k : swap_op.frames[i] = g
            THEN user_space[from[CHOOSE i \in 1 .. k : swap_op.frames[i] = g]]
            ELSE swap_file[g]]
    IN
    /\ swap_op.pc = "copy" /\ swap_op.kind = "SWAP"
    /\ \/ /\ swap_file' = written(Len(from))
          /\ swap_op' = [swap_op EXCEPT !.pc = "commit"]
       \/ \E k \in 0 .. Len(from) - 1 :
             /\ swap_file' = written(k)
             /\ swap_op' = NoSwap
    /\ UNCHANGED <<userVars, swapVars, procVars, user_space, init_op, waiting>>

SwapOutCommit ==
    /\ swap_op.pc = "commit" /\ swap_op.kind = "SWAP"
    /\ release_frames(allocated_frames[swap_op.pid])
    /\ allocated_frames' = [allocated_frames EXCEPT ![swap_op.pid] = swap_op.frames]
    /\ is_suspended' = [is_suspended EXCEPT ![swap_op.pid] = TRUE]
    /\ swap_op' = NoSwap
    /\ UNCHANGED <<swapVars, process_list, page_table, user_space, swap_file, init_op, waiting>>

\* allocate_frames for the resumption; it competes with CreateAlloc.
SwapInAlloc ==
    LET n == Len(allocated_frames[swap_op.pid]) IN
    /\ swap_op.pc = "alloc" /\ swap_op.kind = "UNSUSPEND"
    /\ \/ /\ n > frames_free_count
          /\ swap_op' = NoSwap
          /\ UNCHANGED userVars
       \/ /\ n <= frames_free_count
          /\ \E s \in FirstFit(Frames, frames_bitmap, n) :
                /\ TakeUser(s)
                /\ swap_op' = IF Len(s) = n
                              THEN [swap_op EXCEPT !.pc = "copy", !.frames = s]
                              ELSE NoSwap
    /\ UNCHANGED <<swapVars, procVars, user_space, swap_file, init_op, waiting>>
\* Wrong on purpose: a failed read keeps the user frames.
SwapInCopy_no_release ==
    /\ swap_op.pc = "copy" /\ swap_op.kind = "UNSUSPEND"
    /\ swap_op' = NoSwap
    /\ UNCHANGED <<userVars, swapVars, procVars, user_space, swap_file, init_op, waiting>>

\* Wrong on purpose: the last page is not read back.
SwapInCopy_one_short ==
    LET from == allocated_frames[swap_op.pid]
        loaded(k) == [f \in Frames |->
            IF \E i \in 1 .. k : swap_op.frames[i] = f
            THEN swap_file[from[CHOOSE i \in 1 .. k : swap_op.frames[i] = f]]
            ELSE user_space[f]]
    IN
    /\ swap_op.pc = "copy" /\ swap_op.kind = "UNSUSPEND"
    /\ user_space' = loaded(Len(from) - 1)
    /\ swap_op' = [swap_op EXCEPT !.pc = "commit"]
    /\ UNCHANGED <<userVars, swapVars, procVars, swap_file, init_op, waiting>>

\* If reading page k + 1 fails the user frames are released.
SwapInCopy ==
    LET from == allocated_frames[swap_op.pid]
        loaded(k) == [f \in Frames |->
            IF \E i \in 1 .. k : swap_op.frames[i] = f
            THEN swap_file[from[CHOOSE i \in 1 .. k : swap_op.frames[i] = f]]
            ELSE user_space[f]]
    IN
    /\ swap_op.pc = "copy" /\ swap_op.kind = "UNSUSPEND"
    /\ \/ /\ user_space' = loaded(Len(from))
          /\ swap_op' = [swap_op EXCEPT !.pc = "commit"]
          /\ UNCHANGED userVars
       \/ \E k \in 0 .. Len(from) - 1 :
             /\ user_space' = loaded(k)
             /\ release_frames(swap_op.frames)
             /\ swap_op' = NoSwap
    /\ UNCHANGED <<swapVars, procVars, swap_file, init_op, waiting>>

\* The page table is left as it was.
SwapInCommit ==
    /\ swap_op.pc = "commit" /\ swap_op.kind = "UNSUSPEND"
    /\ swap_release_frames(allocated_frames[swap_op.pid])
    /\ allocated_frames' = [allocated_frames EXCEPT ![swap_op.pid] = swap_op.frames]
    /\ is_suspended' = [is_suspended EXCEPT ![swap_op.pid] = FALSE]
    /\ swap_op' = NoSwap
    /\ UNCHANGED <<userVars, process_list, page_table, user_space, swap_file, init_op, waiting>>

-----------------------------------------------------------------------------
(* KILL_PROCESS *)

\* destroy_process_info hands allocated_frames to release_frames, suspended or not.
delete_process(p) ==
    /\ p \in process_list
    /\ process_list' = process_list \ {p}
    /\ release_frames(allocated_frames[p])
    /\ allocated_frames' = [allocated_frames EXCEPT ![p] = <<>>]
    /\ page_table' = [page_table EXCEPT ![p] = <<>>]
    /\ is_suspended' = [is_suspended EXCEPT ![p] = FALSE]
    /\ UNCHANGED <<swapVars, user_space, swap_file, init_op, waiting, swap_op>>

\* No handler is between lock_swap_file and unlock_swap_file for p.
NotSwapping(p) == swap_op.pid # p
\* Wrong on purpose: suspended processes are deleted the same way.
KillResident_any_state(p) ==
    /\ NotSwapping(p) /\ \A r \in waiting : r[2] # p
    /\ delete_process(p)

\* The kernel deletes a process that exits from EXEC: it is resident and no
\* suspension of it is under way.
KillResident(p) ==
    /\ ~is_suspended[p] /\ NotSwapping(p) /\ \A r \in waiting : r[2] # p
    /\ delete_process(p)

\* The kernel deletes a process of SUSP_BLOCKED when its device disconnects.
KillSuspended(p) ==
    /\ is_suspended[p] /\ NotSwapping(p) /\ \A r \in waiting : r[2] # p
    /\ delete_process(p)

-----------------------------------------------------------------------------
Init ==
    /\ frames_bitmap = {} /\ frames_free_count = FramesTotal
    /\ swap_frames_bitmap = {} /\ swap_frames_free_count = SwapTotal
    /\ process_list = {}
    /\ allocated_frames = [p \in Pids |-> <<>>]
    /\ page_table = [p \in Pids |-> <<>>]
    /\ is_suspended = [p \in Pids |-> FALSE]
    /\ user_space = [f \in Frames |-> NoImage]
    /\ swap_file = [g \in SwapFrames |-> NoImage]
    /\ init_op = NoInit
    /\ waiting = {}
    /\ swap_op = NoSwap

Create ==
    \/ \E p \in Pids : CreateEmpty(p)
    \/ \E p \in Pids, n \in Sizes : CreateCheck(p, n)
    \/ CreateAlloc
    \/ CreateAssign

SwapOut == SwapOutAlloc \/ SwapOutCopy \/ SwapOutCommit

SwapIn == SwapInAlloc \/ SwapInCopy \/ SwapInCommit

Suspension ==
    \/ \E kind \in {"SWAP", "UNSUSPEND"}, p \in Pids : Request(kind, p)
    \/ \E kind \in {"SWAP", "UNSUSPEND"}, p \in Pids : SwapLock(kind, p)
    \/ SwapOut
    \/ SwapIn

Next ==
    \/ Create
    \/ Suspension
    \/ \E p \in Pids : KillResident(p)

Spec == Init /\ [][Next]_vars

\* The same server when devices may disconnect.
DisconnectNext == Next \/ \E p \in Pids : KillSuspended(p)

DisconnectSpec == Init /\ [][DisconnectNext]_vars

-----------------------------------------------------------------------------
(* Properties *)

InitOps == [pc : {"idle", "alloc", "assign"}, pid : Pids \cup {NoPid},
            pages : Nat, frames : Seq(Nat)]
SwapOps == [pc : {"idle", "alloc", "copy", "commit"}, kind : {"SWAP", "UNSUSPEND"},
            pid : Pids \cup {NoPid}, frames : Seq(Nat)]
Images == (Pids \cup {NoPid}) \X Nat

\* The types of the server's tables; the two free counts stay within the number
\* of frames there are.
TypeOK ==
    /\ frames_bitmap \subseteq Frames
    /\ frames_free_count \in 0 .. FramesTotal
    /\ swap_frames_bitmap \subseteq SwapFrames
    /\ swap_frames_free_count \in 0 .. SwapTotal
    /\ process_list \subseteq Pids
    /\ allocated_frames \in [Pids -> Seq(Nat)]
    /\ page_table \in [Pids -> Seq(Nat)]
    /\ is_suspended \in [Pids -> BOOLEAN]
    /\ user_space \in [Frames -> Images]
    /\ swap_file \in [SwapFrames -> Images]
    /\ init_op \in InitOps
    /\ waiting \subseteq Requests
    /\ swap_op \in SwapOps

Resident == { p \in process_list : ~is_suspended[p] }
Suspended == { p \in process_list : is_suspended[p] }

\* User frames held by a process, by the creation or by the resumption under way.
OfProcess(p) == IF p \in Resident THEN Range(allocated_frames[p]) ELSE {}
OfInit == Range(init_op.frames)
OfSwapIn == IF swap_op.kind = "UNSUSPEND" THEN Range(swap_op.frames) ELSE {}

\* Swap frames held by a suspended process or by the suspension under way.
SwapOfProcess(p) == IF p \in Suspended THEN Range(allocated_frames[p]) ELSE {}
OfSwapOut == IF swap_op.kind = "SWAP" THEN Range(swap_op.frames) ELSE {}

\* No user frame belongs to two holders at once, although creation and resumption
\* allocate concurrently from a count they read earlier (allocate_frames).
NoSharedFrame ==
    /\ \A p, q \in Pids : p # q => OfProcess(p) \cap OfProcess(q) = {}
    /\ \A p \in Pids : OfProcess(p) \cap (OfInit \cup OfSwapIn) = {}
    /\ OfInit \cap OfSwapIn = {}

\* The same for swap frames (swap_allocate_frames).
NoSharedSwapFrame ==
    /\ \A p, q \in Pids : p # q => SwapOfProcess(p) \cap SwapOfProcess(q) = {}
    /\ \A p \in Pids : SwapOfProcess(p) \cap OfSwapOut = {}

\* A user frame is marked in the bitmap exactly while somebody holds it: every
\* error path of create_process and swap_in_process gives its frames back.
NoFrameLeak ==
    frames_bitmap = (UNION { OfProcess(p) : p \in Pids }) \cup OfInit \cup OfSwapIn

\* frames_free_count and swap_frames_free_count, which are kept apart from the
\* bitmaps and read without their mutex, always agree with the bitmaps.
FreeCountsExact ==
    /\ frames_free_count = Cardinality(Frames \ frames_bitmap)
    /\ swap_frames_free_count = Cardinality(SwapFrames \ swap_frames_bitmap)

\* A page keeps its contents through any number of suspensions and resumptions:
\* whatever other requests did, page i of a process is in the i-th frame of its
\* list, in user space while resident and in the swap file while suspended.
ImagesIntact ==
    /\ \A p \in Resident : \A i \in DOMAIN allocated_frames[p] :
          user_space[allocated_frames[p][i]] = Image(p, i)
    /\ \A p \in Suspended : \A i \in DOMAIN allocated_frames[p] :
          swap_file[allocated_frames[p][i]] = Image(p, i)

\* The page table the CPU walks points at the frames the process holds.
PageTableCurrent ==
    \A p \in Resident : page_table[p] = allocated_frames[p]
=============================================================================
