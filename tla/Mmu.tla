-------------------------------- MODULE Mmu --------------------------------
(***************************************************************************)
(* The memory side of the cpu programs: TLB, page cache, write-back, and   *)
(* the READ and WRITE instructions, with the processes that come and go on *)
(* a CPU.                                                                  *)
(*                                                                         *)
(* A CPU has a configuration of its own, chosen in Init.  A process leaves *)
(* a CPU through a system call, which leaves TLB and cache as they are, or *)
(* through an interrupt, which is answered first and followed by           *)
(* mmu_process_cleanup.                                                    *)
(*                                                                         *)
(* What is abstracted: the page tables are those memoria made when the     *)
(* process was created (no process is suspended here; module MemoriaFrames *)
(* has what becomes of the tables then); LRU timestamps are the order of   *)
(* the slots by last use; a WRITE fills its bytes with one value and does  *)
(* not run over the end of its page; the fields of an invalid cache entry, *)
(* which nothing reads before it is filled again, are those of EmptySlot.  *)
(***************************************************************************)
EXTENDS PageTables, FiniteSets

CONSTANTS
    Cpus, Pids, NoPid,
    allocated_frames,  \* the frames of each process, in the order of its pages
    Program,         \* the READs and WRITEs in the program of each process
    FrameCount,      \* frames of user space
    PageSize,        \* TAM_PAGINA
    Bytes,           \* what a program writes; 0 is a cleared byte
    Configs,         \* configurations a CPU may have
    NoAccess

ASSUME MmuAssumption ==
    /\ NoPid \notin Pids
    /\ FrameCount \in Nat /\ PageSize \in Nat \ {0}
    /\ Bytes \subseteq Nat \ {0}
    /\ allocated_frames \in [Pids -> Seq(0..(FrameCount - 1))]
    /\ \A p \in Pids : Len(allocated_frames[p]) <= pow[Levels]
    /\ \A k \in Configs :
        /\ k.tlb_entries \in Nat /\ k.tlb_algo \in {"FIFO", "LRU"}
        /\ k.cache_entries \in Nat /\ k.cache_algo \in {"CLOCK", "CLOCK-M"}

\* The pages of the processes, and the frame memoria keeps each of them in.
Owned == {k \in Pids \X (0..(FrameCount - 1)) : k[2] < Len(allocated_frames[k[1]])}
Frame == [k \in Owned |-> allocated_frames[k[1]][k[2] + 1]]

\* A frame has one owner (NoSharedFrame of MemoriaFrames).
ASSUME FramesAssumption == \A k, l \in Owned : Frame[k] = Frame[l] => k = l

Offsets == 0..(PageSize - 1)
Addresses == 0..(FrameCount * PageSize - 1)
Pages == {k[2] : k \in Owned}

\* The operands of READ and WRITE.
Reads == [kind : {"READ"}, page : Pages, offset : Offsets]
Writes == [kind : {"WRITE"}, page : Pages, offset : Offsets, size : 1..PageSize, byte : Bytes]
Accesses == Reads \cup Writes

\* Programs use pages they have, and their WRITEs end with the page.
ASSUME ProgramAssumption ==
    \A p \in Pids : \A a \in Program[p] :
        /\ a \in Accesses /\ <<p, a.page>> \in Owned
        /\ a.kind = "WRITE" => a.offset + a.size <= PageSize

Instructions == UNION {Program[p] : p \in Pids}

VARIABLES
    config,          \* cpu.config of each CPU
    pid, phase,      \* the process on each CPU, and "idle", "run" or "cleanup"
    retry,           \* the access each process has to execute again
    tlb,             \* [list, used, fifo]: entries, slots by last use, pointer
    cache, clock,    \* entries of the page cache, and the clock pointer
    mem,             \* user space of memoria, byte by byte
    wrote,           \* history: the last byte a process wrote at an address, or Doubtful
    refusals         \* history: how often in a row, in this burst, an access was refused

history == <<wrote, refusals>>
vars == <<config, pid, phase, retry, tlb, cache, clock, mem, history>>

Blank == [o \in Offsets |-> 0]

\* In the history: a byte the code makes no promise about any more, until the
\* process writes it again.
Doubtful == -1
EmptySlot ==
    [valid |-> FALSE, page |-> 0, pid |-> NoPid, use |-> FALSE,
     modified |-> FALSE, from |-> 0, to |-> 0, content |-> Blank]
EmptyTlb(pointer) == [list |-> <<>>, used |-> <<>>, fifo |-> pointer]

Address(frame, offset) == frame * PageSize + offset

\* memoria copies the bytes a..b - 1 of a page to its frame.
WriteToMemory(m, frame, a, b, content) ==
    [x \in Addresses |->
        IF x \in Address(frame, a)..(Address(frame, b) - 1)
        THEN content[x - Address(frame, 0)] ELSE m[x]]

\* memoria reads a page from any address on; past the end it answers zeros.
ReadFromMemory(m, address) ==
    IF address + PageSize > FrameCount * PageSize
    THEN Blank ELSE [o \in Offsets |-> m[address + o]]

-----------------------------------------------------------------------------
(* The TLB *)

\* The tables of each process, and the frame a walk through them finds.
page_table == [p \in Pids |-> assign_frames(allocated_frames[p])]
Walk == [k \in Owned |-> mmu_perform_page_walk(page_table[k[1]], k[2])]

\* The slot of the entry for a page of a process: a set with at most one slot
\* when the entries are distinct.
tlb_find_entry(t, p, g) ==
    {i \in DOMAIN t.list : t.list[i].page = g /\ t.list[i].pid = p}

\* lru_timestamp of a slot becomes the greatest one.
Stamp(k, t, i) ==
    [t EXCEPT !.used = IF k.tlb_algo = "LRU"
                       THEN Append(RemoveFirst(@, i), i) ELSE @]

\* Wrong on purpose: the FIFO pointer does not wrap around.
NextFifo(k, i) == i + 1

\* The FIFO pointer after a replacement.
WrapFifo(k, i) == (i + 1) % k.tlb_entries

\* The new entry takes a free slot, or the one of the victim.
tlb_add_entry(k, t, p, g, frame) ==
    LET entry == [page |-> g, pid |-> p, frame |-> frame]
        victim == IF k.tlb_algo = "FIFO" THEN t.fifo + 1 ELSE Head(t.used)
    IN  IF Len(t.list) < k.tlb_entries
        THEN Stamp(k, [t EXCEPT !.list = Append(@, entry)], Len(t.list) + 1)
        ELSE Stamp(k, [t EXCEPT
                !.list[victim] = entry,
                !.fifo = IF k.tlb_algo = "FIFO" THEN WrapFifo(k, @) ELSE @],
                victim)

\* The frame of a page, and the TLB afterwards.
mmu_translate_address(k, t, p, g) ==
    LET slots == IF k.tlb_entries = 0 THEN {} ELSE tlb_find_entry(t, p, g)
        i == CHOOSE i \in slots : \A j \in slots : i <= j
        walk == Walk[<<p, g>>]
    IN  IF slots # {} THEN [frame |-> t.list[i].frame, tlb |-> Stamp(k, t, i)]
        ELSE [frame |-> walk,
              tlb |-> IF k.tlb_entries = 0 THEN t ELSE tlb_add_entry(k, t, p, g, walk)]

-----------------------------------------------------------------------------
(* The page cache *)

\* Wrong on purpose: a page without its use bit is not found.
CacheFindUsed(cs, g) ==
    {s \in DOMAIN cs : cs[s].valid /\ cs[s].page = g /\ cs[s].use}

\* The valid entry of a page, whatever process it belongs to.
cache_find_entry(cs, g) == {s \in DOMAIN cs : cs[s].valid /\ cs[s].page = g}

First(S) == CHOOSE i \in S : \A j \in S : i <= j

\* The slot the hand reaches after i steps, and those it passes on the way.
Hand(k, hand, i) == (hand + i) % k.cache_entries
Passed(k, hand, i) == {Hand(k, hand, j) : j \in 0..(i - 1)}

\* Wrong on purpose: the hand stays on the victim.
Stay(k, slot) == slot

\* Both algorithms leave the hand one past the victim.
Advance(k, slot) == (slot + 1) % k.cache_entries

\* CLOCK: the first slot that is free or was not used, within two rounds; the
\* ones it passes lose their use bit.
cache_find_victim_clock(k, cs, hand) ==
    LET n == k.cache_entries
        unused == {i \in 0..(n - 1) : LET e == cs[Hand(k, hand, i)] IN ~e.valid \/ ~e.use}
        steps == IF unused = {} THEN n ELSE First(unused)
    IN  [slot |-> Hand(k, hand, steps), passed |-> Passed(k, hand, steps)]

\* CLOCK-M: a free slot or an unused clean page; else an unused modified page,
\* taking use bits on the way; else both again, now that no page counts as used.
cache_find_victim_clock_m(k, cs, hand) ==
    LET n == k.cache_entries
        steps == 0..(n - 1)
        entry(i) == cs[Hand(k, hand, i)]
        first_pass == {i \in steps : ~entry(i).valid \/ (~entry(i).use /\ ~entry(i).modified)}
        second_pass == {i \in steps : ~entry(i).use /\ entry(i).modified}
        clean == {i \in steps : ~entry(i).modified}
        found(S, i) == [slot |-> Hand(k, hand, First(S)), passed |-> Passed(k, hand, i)]
    IN  CASE first_pass # {} -> found(first_pass, 0)
          [] first_pass = {} /\ second_pass # {} -> found(second_pass, First(second_pass))
          [] first_pass = {} /\ second_pass = {} /\ clean # {} -> found(clean, n)
          [] OTHER -> found(steps, n)

\* The victim of a miss: its slot, the cache with the use bits taken, the hand
\* one further, and the TLB and memory after the write-back of a modified one.
\* A victim whose page starts at address 0 is taken for a failed translation.
select_victim_entry(k, t, cs, hand, m) ==
    LET v == IF k.cache_algo = "CLOCK" THEN cache_find_victim_clock(k, cs, hand)
             ELSE cache_find_victim_clock_m(k, cs, hand)
        e == cs[v.slot]
        dirty == e.valid /\ e.modified
        to == mmu_translate_address(k, t, e.pid, e.page)
        refused == dirty /\ k.tlb_entries > 0 /\ Address(to.frame, 0) = 0
    IN  [refused |-> refused,
         slot |-> v.slot,
         cache |-> [s \in DOMAIN cs |-> IF s \in v.passed THEN [cs[s] EXCEPT !.use = FALSE] ELSE cs[s]],
         hand |-> Advance(k, v.slot),
         tlb |-> IF dirty THEN to.tlb ELSE t,
         mem |-> IF dirty /\ ~refused /\ e.from < e.to
                 THEN WriteToMemory(m, to.frame, e.from, e.to, e.content) ELSE m]

\* The page is read from the address of the access, not from its first byte.
cache_load_page(p, a, frame, m) ==
    [valid |-> TRUE, page |-> a.page, pid |-> p, use |-> TRUE, modified |-> FALSE,
     from |-> 0, to |-> 0, content |-> ReadFromMemory(m, Address(frame, a.offset))]

\* A WRITE that misses clears its entry instead of reading the page.
NewEntry(p, a, victim) ==
    [valid |-> TRUE, page |-> a.page, pid |-> p, use |-> TRUE, modified |-> victim.modified,
     from |-> a.offset, to |-> a.offset + a.size, content |-> Blank]

Lesser(x, y) == IF x < y THEN x ELSE y
Greater(x, y) == IF x > y THEN x ELSE y

\* Wrong on purpose: the region is always that of the last WRITE.
WriteEntryLastOnly(e, a) ==
    LET end == a.offset + a.size
    IN  [e EXCEPT
            !.use = TRUE, !.modified = TRUE, !.from = a.offset, !.to = end,
            !.content = [o \in Offsets |-> IF o \in a.offset..(end - 1) THEN a.byte ELSE @[o]]]

\* The bytes of a WRITE in its entry, and the region that is to be written back.
WriteEntry(e, a) ==
    LET end == a.offset + a.size
    IN  [e EXCEPT
            !.use = TRUE,
            !.modified = TRUE,
            !.from = IF e.modified THEN Lesser(@, a.offset) ELSE a.offset,
            !.to = IF e.modified THEN Greater(@, end) ELSE end,
            !.content = [o \in Offsets |-> IF o \in a.offset..(end - 1) THEN a.byte ELSE @[o]]]

-----------------------------------------------------------------------------
(* READ and WRITE *)

\* The process on c executes access a: the one it has to repeat, if any.
Executes(c, a) ==
    /\ phase[c] = "run"
    /\ a \in Program[pid[c]]
    /\ retry[pid[c]] \in {NoAccess, a}

\* The bytes of a WRITE, and those it leaves between them and the region of a
\* modified entry: the region grows over them, and they go to memory with it.
Extent(a) == a.offset..(a.offset + a.size - 1)
Gap(e, a) ==
    IF e.modified THEN (e.to..(a.offset - 1)) \cup ((a.offset + a.size)..(e.from - 1)) ELSE {}

\* History h with b for bytes R of page k.
Rewritten(h, k, R, b) == [h EXCEPT ![k] = [o \in Offsets |-> IF o \in R THEN b ELSE h[k][o]]]

\* The history after process p wrote in entry e.  cache_find_entry looks at the
\* page number alone: in an entry of another process the bytes are in doubt for
\* both, the one that wrote them and the one whose page they go to.
Noted(h, p, e, a) ==
    LET b == IF e.pid = p THEN a.byte ELSE Doubtful
        gapped == Rewritten(h, <<e.pid, a.page>>, Gap(e, a), Doubtful)
    IN  Rewritten(Rewritten(gapped, <<e.pid, a.page>>, Extent(a), b), <<p, a.page>>, Extent(a), b)

\* PC goes on to the next instruction.
Completed(c) ==
    /\ retry' = [retry EXCEPT ![pid[c]] = NoAccess]
    /\ refusals' = [refusals EXCEPT ![pid[c]] = 0]
    /\ UNCHANGED <<config, pid, phase>>

\* A WRITE that found no entry has its bytes in one of its own, or in memory.
CompletedFresh(c, a) ==
    /\ Completed(c)
    /\ wrote' = IF a.kind = "READ" THEN wrote
                ELSE Rewritten(wrote, <<pid[c], a.page>>, Extent(a), a.byte)

Hit(c, a) ==
    /\ Executes(c, a)
    /\ config[c].cache_entries > 0
    /\ LET slots == cache_find_entry(cache[c], a.page) IN
        /\ slots # {}
        /\ cache' = [cache EXCEPT ![c][First(slots)] =
                IF a.kind = "READ" THEN [@ EXCEPT !.use = TRUE] ELSE WriteEntry(@, a)]
        /\ wrote' = IF a.kind = "READ" THEN wrote
                    ELSE Noted(wrote, pid[c], cache[c][First(slots)], a)
    /\ Completed(c)
    /\ UNCHANGED <<tlb, clock, mem>>

\* A miss: the victim is written back, then a READ loads the page.
Miss(c, a) ==
    /\ Executes(c, a)
    /\ config[c].cache_entries > 0
    /\ cache_find_entry(cache[c], a.page) = {}
    /\ \E v \in {select_victim_entry(config[c], tlb[c], cache[c], clock[c], mem)} :
       LET to == mmu_translate_address(config[c], v.tlb, pid[c], a.page) IN
        /\ ~v.refused
        /\ mem' = v.mem
        /\ clock' = [clock EXCEPT ![c] = v.hand]
        /\ tlb' = [tlb EXCEPT ![c] = IF a.kind = "READ" THEN to.tlb ELSE v.tlb]
        /\ cache' = [cache EXCEPT ![c] = [v.cache EXCEPT ![v.slot] =
                IF a.kind = "READ" THEN cache_load_page(pid[c], a, to.frame, v.mem)
                ELSE WriteEntry(NewEntry(pid[c], a, @), a)]]
    /\ CompletedFresh(c, a)

\* select_victim_entry returns NULL: PC stays, the instruction comes again.
MissRefused(c, a) ==
    /\ Executes(c, a)
    /\ config[c].cache_entries > 0
    /\ cache_find_entry(cache[c], a.page) = {}
    /\ \E v \in {select_victim_entry(config[c], tlb[c], cache[c], clock[c], mem)} :
        /\ v.refused
        /\ clock' = [clock EXCEPT ![c] = v.hand]
        /\ tlb' = [tlb EXCEPT ![c] = v.tlb]
        /\ cache' = [cache EXCEPT ![c] = v.cache]
    /\ retry' = [retry EXCEPT ![pid[c]] = a]
    /\ refusals' = [refusals EXCEPT ![pid[c]] = @ + 1]
    /\ UNCHANGED <<config, pid, phase, mem, wrote>>

\* Without a cache the access goes to memoria.
Uncached(c, a) ==
    /\ Executes(c, a)
    /\ config[c].cache_entries = 0
    /\ LET to == mmu_translate_address(config[c], tlb[c], pid[c], a.page) IN
        /\ tlb' = [tlb EXCEPT ![c] = to.tlb]
        /\ mem' = IF a.kind = "READ" THEN mem
                  ELSE WriteToMemory(mem, to.frame, a.offset, a.offset + a.size,
                                     [o \in Offsets |-> a.byte])
    /\ CompletedFresh(c, a)
    /\ UNCHANGED <<cache, clock>>

-----------------------------------------------------------------------------
(* Processes come and go *)

\* The kernel sends a process to a CPU: never one that runs elsewhere, but
\* perhaps one whose interrupt was answered and whose pages are still cached.
recv_dispatch(c, p) ==
    /\ phase[c] = "idle"
    /\ \A d \in Cpus : pid[d] = p => phase[d] = "cleanup"
    /\ pid' = [pid EXCEPT ![c] = p]
    /\ phase' = [phase EXCEPT ![c] = "run"]
    /\ refusals' = [refusals EXCEPT ![p] = 0]
    /\ UNCHANGED <<config, retry, tlb, cache, clock, mem, wrote>>

\* IO, DUMP_MEMORY or EXIT ends the burst; TLB and cache stay as they are.
Syscall(c) ==
    /\ phase[c] = "run"
    /\ retry[pid[c]] = NoAccess
    /\ pid' = [pid EXCEPT ![c] = NoPid]
    /\ phase' = [phase EXCEPT ![c] = "idle"]
    /\ UNCHANGED <<config, retry, tlb, cache, clock, mem, history>>

\* An interrupt for the process that runs is answered, after an access or
\* after the system call that ended its burst.
check_interrupt(c) ==
    /\ phase[c] = "run"
    /\ phase' = [phase EXCEPT ![c] = "cleanup"]
    /\ UNCHANGED <<config, pid, retry, tlb, cache, clock, mem, history>>

\* A modified entry is written to its frame; the translation may use the TLB.
WriteBack(k, w, e) ==
    LET to == mmu_translate_address(k, w.tlb, e.pid, e.page)
    IN  IF e.valid /\ e.modified
        THEN [tlb |-> to.tlb,
              mem |-> IF e.from < e.to
                      THEN WriteToMemory(w.mem, to.frame, e.from, e.to, e.content) ELSE w.mem]
        ELSE w

\* TLB and memory after all entries were written back in their order.
WriteBackAll(k, t, m, cs) ==
    LET upto[n \in 0..k.cache_entries] ==
            IF n = 0 THEN [tlb |-> t, mem |-> m]
            ELSE WriteBack(k, upto[n - 1], cs[n - 1])
    IN  upto[k.cache_entries]

\* All entries are written back and become free, the TLB becomes empty; the
\* clock pointer and the FIFO pointer stay where they are then.
mmu_process_cleanup(c) ==
    /\ phase[c] = "cleanup"
    /\ \E w \in {WriteBackAll(config[c], tlb[c], mem, cache[c])} :
        /\ mem' = w.mem
        /\ tlb' = [tlb EXCEPT ![c] = EmptyTlb(w.tlb.fifo)]
    /\ cache' = [cache EXCEPT ![c] = [s \in DOMAIN @ |-> EmptySlot]]
    /\ pid' = [pid EXCEPT ![c] = NoPid]
    /\ phase' = [phase EXCEPT ![c] = "idle"]
    /\ UNCHANGED <<config, retry, clock, history>>

-----------------------------------------------------------------------------
Init ==
    /\ config \in [Cpus -> Configs]
    /\ pid = [c \in Cpus |-> NoPid]
    /\ phase = [c \in Cpus |-> "idle"]
    /\ retry = [p \in Pids |-> NoAccess]
    /\ tlb = [c \in Cpus |-> EmptyTlb(0)]
    /\ cache = [c \in Cpus |-> [s \in 0..(config[c].cache_entries - 1) |-> EmptySlot]]
    /\ clock = [c \in Cpus |-> 0]
    /\ mem = [x \in Addresses |-> 0]
    /\ wrote = [k \in Owned |-> Blank]
    /\ refusals = [p \in Pids |-> 0]

Next ==
    \E c \in Cpus :
        \/ \E a \in Instructions : Hit(c, a) \/ Miss(c, a) \/ MissRefused(c, a) \/ Uncached(c, a)
        \/ \E p \in Pids : recv_dispatch(c, p)
        \/ Syscall(c)
        \/ check_interrupt(c)
        \/ mmu_process_cleanup(c)

Spec == Init /\ [][Next]_vars

-----------------------------------------------------------------------------
TlbEntry == [page : Pages, pid : Pids, frame : 0..(FrameCount - 1)]
CacheEntry ==
    [valid : BOOLEAN, page : Nat, pid : Pids \cup {NoPid}, use : BOOLEAN,
     modified : BOOLEAN, from : 0..PageSize, to : 0..PageSize, content : [Offsets -> Bytes \cup {0}]]

\* Types; TLB and cache keep within their configured sizes, and the pointers
\* of FIFO and CLOCK within their tables, through replacements and clean-ups.
TypeOK ==
    /\ config \in [Cpus -> Configs]
    /\ pid \in [Cpus -> Pids \cup {NoPid}]
    /\ phase \in [Cpus -> {"idle", "run", "cleanup"}]
    /\ retry \in [Pids -> Accesses \cup {NoAccess}]
    /\ refusals \in [Pids -> Nat]
    /\ mem \in [Addresses -> Bytes \cup {0}]
    /\ wrote \in [Owned -> [Offsets -> Bytes \cup {0, Doubtful}]]
    /\ \A c \in Cpus : LET k == config[c] IN
        /\ tlb[c].list \in Seq(TlbEntry) /\ Len(tlb[c].list) <= k.tlb_entries
        /\ tlb[c].used \in Seq(DOMAIN tlb[c].list)
        /\ tlb[c].fifo < Greater(1, k.tlb_entries)
        /\ cache[c] \in [0..(k.cache_entries - 1) -> CacheEntry]
        /\ clock[c] < Greater(1, k.cache_entries)

\* The TLB never answers with the frame of another process or page: what the
\* walks through the tables put there is the frame memoria gave the page, in
\* the order of its list, and stays with its page and process through
\* replacements; under LRU every slot has its place in the order (mmu.c,
\* tlb_add_entry, mmu_perform_page_walk; page_table.c, assign_frames).
TlbExact ==
    \A c \in Cpus : LET t == tlb[c] IN
        /\ \A i \in DOMAIN t.list : t.list[i].frame = Frame[<<t.list[i].pid, t.list[i].page>>]
        /\ \A i, j \in DOMAIN t.list :
            i # j => <<t.list[i].pid, t.list[i].page>> # <<t.list[j].pid, t.list[j].page>>
        /\ config[c].tlb_algo = "LRU" => Range(t.used) = DOMAIN t.list

\* What is cached for byte o of page g of process p and not yet in memory.
Unsaved(p, g, o) ==
    {k \in UNION {{c} \X DOMAIN cache[c] : c \in Cpus} : LET e == cache[k[1]][k[2]] IN
        /\ e.valid /\ e.modified /\ e.pid = p /\ e.page = g
        /\ o \in e.from..(e.to - 1)}

\* A WRITE is lost in two ways only: the process hits an entry of another one
\* with the same page number, or a WRITE leaves a gap in the modified region.
\* Every other byte a process wrote, on pages whose number others use too, is
\* in the modified region of exactly one entry of that page and process, or it is in
\* memory; replacement, write-back with the victim's pid, refusals, system
\* calls and clean-ups included (mmu.c, instructionCycle.c).
NoWriteLost ==
    \A k \in Owned, o \in Offsets :
        LET unsaved == Unsaved(k[1], k[2], o) IN
            \/ wrote[k][o] = Doubtful
            \/ unsaved = {} /\ mem[Address(Frame[k], o)] = wrote[k][o]
            \/ \E l \in unsaved :
                unsaved = {l} /\ cache[l[1]][l[2]].content[o] = wrote[k][o]

\* A page is cached once on a CPU, so that the first match of cache_find_entry
\* is the only one: a miss never loads what another slot already has, and the
\* hand never fills two slots with one page (mmu.c:367).
CachedOnce ==
    \A c \in Cpus : \A r, s \in DOMAIN cache[c] :
        cache[c][r].valid /\ cache[c][s].valid /\ cache[c][r].page = cache[c][s].page => r = s

\* An instruction is not repeated for ever: after at most two refusals in a
\* burst the hand reaches a victim that can be written back, whatever the use
\* bits and the modified bits are (mmu.c:484, instructionCycle.c:114).
BoundedRefusals == \A p \in Pids : refusals[p] <= 2

=============================================================================
