----------------------------- MODULE MmuProofs -----------------------------
(***************************************************************************)
(* TLB and page cache of a CPU, proved for any number of CPUs, processes   *)
(* and pages, any sizes of both tables and both algorithms of each.        *)
(***************************************************************************)
EXTENDS Mmu, PageTablesProofs, ListFacts

-----------------------------------------------------------------------------
(* A page is cached once *)

Fields == {"valid", "page", "pid", "use", "modified", "from", "to", "content"}

\* Every slot of every cache has the fields of an entry.
Entered ==
    /\ DOMAIN cache = Cpus
    /\ \A c \in Cpus : \A s \in DOMAIN cache[c] : DOMAIN cache[c][s] = Fields

\* Two caches with the same pages in the same slots.
SamePages(cs, ds) ==
    /\ DOMAIN cs = DOMAIN ds
    /\ \A s \in DOMAIN ds :
        /\ DOMAIN cs[s] = Fields
        /\ cs[s].valid = ds[s].valid /\ cs[s].page = ds[s].page

OnceIn(cs) ==
    \A r, s \in DOMAIN cs : cs[r].valid /\ cs[s].valid /\ cs[r].page = cs[s].page => r = s

\* What programs execute are READs and WRITEs.
LEMMA ProgramAccesses == Instructions \subseteq Accesses
BY ProgramAssumption DEF Instructions

\* What a change of the cache of one CPU must keep.
LEMMA OneCache ==
    ASSUME Entered, CachedOnce, NEW c \in Cpus, NEW cs,
           cache' = [cache EXCEPT ![c] = cs],
           OnceIn(cs), \A s \in DOMAIN cs : DOMAIN cs[s] = Fields
    PROVE  Entered' /\ CachedOnce'
<1>1. /\ DOMAIN cache' = Cpus /\ cache'[c] = cs
      /\ \A d \in Cpus : d # c => cache'[d] = cache[d]
  BY DEF Entered
<1>2. Entered'
  BY <1>1 DEF Entered
<1>3. CachedOnce'
  BY <1>1 DEF CachedOnce, OnceIn
<1> QED
  BY <1>2, <1>3

\* The search for a victim takes use bits and nothing else.
LEMMA VictimPages ==
    ASSUME NEW k, NEW t, NEW cs, NEW hand, NEW m,
           \A s \in DOMAIN cs : DOMAIN cs[s] = Fields
    PROVE  SamePages(select_victim_entry(k, t, cs, hand, m).cache, cs)
<1> DEFINE v == IF k.cache_algo = "CLOCK" THEN cache_find_victim_clock(k, cs, hand)
                ELSE cache_find_victim_clock_m(k, cs, hand)
           ds == [s \in DOMAIN cs |->
                    IF s \in v.passed THEN [cs[s] EXCEPT !.use = FALSE] ELSE cs[s]]
<1>1. select_victim_entry(k, t, cs, hand, m).cache = ds
  BY DEF select_victim_entry
<1> HIDE DEF v
<1>2. ASSUME NEW s \in DOMAIN cs
      PROVE  DOMAIN ds[s] = Fields /\ ds[s].valid = cs[s].valid /\ ds[s].page = cs[s].page
  <2>1. DOMAIN [cs[s] EXCEPT !.use = FALSE] = Fields
    OBVIOUS
  <2>2. /\ [cs[s] EXCEPT !.use = FALSE].valid = cs[s].valid
        /\ [cs[s] EXCEPT !.use = FALSE].page = cs[s].page
    BY DEF Fields
  <2> QED
    BY <2>1, <2>2
<1> QED
  BY <1>1, <1>2 DEF SamePages

\* An entry that is written keeps its page.
LEMMA WrittenEntry ==
    ASSUME NEW e, DOMAIN e = Fields, NEW a
    PROVE  /\ DOMAIN WriteEntry(e, a) = Fields
           /\ WriteEntry(e, a).valid = e.valid /\ WriteEntry(e, a).page = e.page
BY DEF WriteEntry, Fields

\* The entry a miss leaves in the slot of its victim.
LEMMA FilledEntry ==
    ASSUME NEW p, NEW a, NEW f, NEW m, NEW old,
           NEW e, e = (IF a.kind = "READ" THEN cache_load_page(p, a, f, m)
                       ELSE WriteEntry(NewEntry(p, a, old), a))
    PROVE  DOMAIN e = Fields /\ e.page = a.page
<1>1. /\ DOMAIN NewEntry(p, a, old) = Fields
      /\ NewEntry(p, a, old).page = a.page
  BY DEF NewEntry, Fields
<1>2. /\ DOMAIN cache_load_page(p, a, f, m) = Fields
      /\ cache_load_page(p, a, f, m).page = a.page
  BY DEF cache_load_page, Fields
<1> QED
  BY <1>1, <1>2, WrittenEntry

\* Every step keeps pages apart: a page enters a cache only after a search for it
\* found nothing.
LEMMA NextOnce == Entered /\ CachedOnce /\ [Next]_vars => Entered' /\ CachedOnce'
<1> SUFFICES ASSUME Entered, CachedOnce, [Next]_vars PROVE Entered' /\ CachedOnce'
  OBVIOUS
<1>0. ASSUME UNCHANGED cache PROVE Entered' /\ CachedOnce'
  BY <1>0 DEF Entered, CachedOnce
<1>1. ASSUME NEW c \in Cpus, NEW a \in Accesses, Hit(c, a) PROVE Entered' /\ CachedOnce'
  <2> DEFINE i == First(cache_find_entry(cache[c], a.page))
             e == cache[c][i]
             f == IF a.kind = "READ" THEN [e EXCEPT !.use = TRUE] ELSE WriteEntry(e, a)
             cs == [cache[c] EXCEPT ![i] = f]
  <2>1. cache' = [cache EXCEPT ![c] = cs]
    BY <1>1 DEF Hit, Entered
  <2>2. \A s \in DOMAIN cache[c] : DOMAIN cache[c][s] = Fields
    BY DEF Entered
  <2> HIDE DEF i
  <2>3. i \in DOMAIN cache[c] => DOMAIN f = Fields /\ f.valid = e.valid /\ f.page = e.page
    <3> SUFFICES ASSUME i \in DOMAIN cache[c]
                 PROVE  DOMAIN f = Fields /\ f.valid = e.valid /\ f.page = e.page
      OBVIOUS
    <3>1. DOMAIN e = Fields
      BY <2>2
    <3> HIDE DEF e
    <3>2. /\ DOMAIN [e EXCEPT !.use = TRUE] = Fields
          /\ [e EXCEPT !.use = TRUE].valid = e.valid /\ [e EXCEPT !.use = TRUE].page = e.page
      BY <3>1 DEF Fields
    <3> QED
      BY <3>1, <3>2, WrittenEntry
  <2>4. /\ DOMAIN cs = DOMAIN cache[c]
        /\ \A s \in DOMAIN cache[c] : cs[s] = IF s = i THEN f ELSE cache[c][s]
    OBVIOUS
  <2> HIDE DEF f, cs
  <2>5. SamePages(cs, cache[c])
    BY <2>2, <2>3, <2>4 DEF SamePages
  <2>6. OnceIn(cs)
    BY <2>5 DEF OnceIn, SamePages, CachedOnce
  <2> QED
    BY <2>1, <2>5, <2>6, OneCache DEF SamePages
<1>2. ASSUME NEW c \in Cpus, NEW a \in Accesses, Miss(c, a) PROVE Entered' /\ CachedOnce'
  <2> DEFINE v == select_victim_entry(config[c], tlb[c], cache[c], clock[c], mem)
             to == mmu_translate_address(config[c], v.tlb, pid[c], a.page)
             old == v.cache[v.slot]
             f == IF a.kind = "READ" THEN cache_load_page(pid[c], a, to.frame, v.mem)
                  ELSE WriteEntry(NewEntry(pid[c], a, old), a)
             cs == [v.cache EXCEPT ![v.slot] = f]
  <2>1. /\ cache' = [cache EXCEPT ![c] = cs]
        /\ cache_find_entry(cache[c], a.page) = {}
    BY <1>2 DEF Miss
  <2>2. SamePages(v.cache, cache[c])
    BY VictimPages DEF Entered
  <2> HIDE DEF v
  <2>3. DOMAIN f = Fields /\ f.page = a.page
    BY FilledEntry
  <2> HIDE DEF f
  <2>4. /\ DOMAIN cs = DOMAIN cache[c]
        /\ \A s \in DOMAIN cache[c] : cs[s] = IF s = v.slot THEN f ELSE v.cache[s]
    BY <2>2 DEF SamePages
  <2> HIDE DEF cs
  <2>5. \A s \in DOMAIN cache[c] : cache[c][s].valid => cache[c][s].page # a.page
    BY <2>1 DEF cache_find_entry
  <2>6. OnceIn(cs)
    BY <2>2, <2>3, <2>4, <2>5 DEF OnceIn, SamePages, CachedOnce
  <2>7. \A s \in DOMAIN cs : DOMAIN cs[s] = Fields
    BY <2>2, <2>3, <2>4 DEF SamePages
  <2> QED
    BY <2>1, <2>6, <2>7, OneCache
<1>3. ASSUME NEW c \in Cpus, NEW a \in Accesses, MissRefused(c, a) PROVE Entered' /\ CachedOnce'
  <2> DEFINE cs == select_victim_entry(config[c], tlb[c], cache[c], clock[c], mem).cache
  <2>1. cache' = [cache EXCEPT ![c] = cs]
    BY <1>3 DEF MissRefused
  <2>2. SamePages(cs, cache[c])
    BY VictimPages DEF Entered
  <2> HIDE DEF cs
  <2>3. OnceIn(cs)
    BY <2>2 DEF OnceIn, SamePages, CachedOnce
  <2> QED
    BY <2>1, <2>2, <2>3, OneCache DEF SamePages
<1>4. ASSUME NEW c \in Cpus, mmu_process_cleanup(c) PROVE Entered' /\ CachedOnce'
  <2> DEFINE cs == [s \in DOMAIN cache[c] |-> EmptySlot]
  <2>1. cache' = [cache EXCEPT ![c] = cs]
    BY <1>4 DEF mmu_process_cleanup, Entered
  <2>2. DOMAIN EmptySlot = Fields /\ EmptySlot.valid = FALSE
    BY DEF EmptySlot, Fields
  <2>3. OnceIn(cs) /\ \A s \in DOMAIN cs : DOMAIN cs[s] = Fields
    BY <2>2 DEF OnceIn
  <2> QED
    BY <2>1, <2>3, OneCache
<1>5. ASSUME NEW c \in Cpus,
             \/ \E a \in Accesses : Uncached(c, a)
             \/ \E p \in Pids : recv_dispatch(c, p)
             \/ Syscall(c) \/ check_interrupt(c)
      PROVE  UNCHANGED cache
  BY <1>5 DEF Uncached, recv_dispatch, Syscall, check_interrupt
<1>6. CASE UNCHANGED vars
  BY <1>0, <1>6 DEF vars
<1> QED
  BY <1>0, <1>1, <1>2, <1>3, <1>4, <1>5, <1>6, ProgramAccesses DEF Next

\* Caches start empty.
LEMMA InitOnce == Init => Entered /\ CachedOnce
<1> SUFFICES ASSUME Init PROVE Entered /\ CachedOnce
  OBVIOUS
<1>1. DOMAIN EmptySlot = Fields /\ EmptySlot.valid = FALSE
  BY DEF EmptySlot, Fields
<1>2. cache = [c \in Cpus |-> [s \in 0..(config[c].cache_entries - 1) |-> EmptySlot]]
  BY DEF Init
<1> HIDE DEF EmptySlot
<1> QED
  BY <1>1, <1>2 DEF Entered, CachedOnce

\* A page is in at most one slot of the cache of a CPU, whatever the configuration
\* and however many processes use the same page number: the first match of
\* cache_find_entry is the only one.
THEOREM PageCachedOnce == Spec => []CachedOnce
BY InitOnce, NextOnce, PTL DEF Spec

-----------------------------------------------------------------------------
(* The TLB answers with the frame of the page *)

\* The walk through the tables of a process finds the frame of each of its pages.
LEMMA WalksExact == \A k \in Owned : Walk[k] = Frame[k]
<1> SUFFICES ASSUME NEW k \in Owned PROVE Walk[k] = Frame[k]
  OBVIOUS
<1>1. PICK fs : fs = allocated_frames[k[1]]
  OBVIOUS
<1>2. k[1] \in Pids /\ k[2] \in Nat /\ k[2] < Len(fs)
  BY <1>1, MmuAssumption DEF Owned
<1>3. Len(fs) \in Nat /\ Len(fs) <= pow[Levels]
  BY <1>1, <1>2, MmuAssumption
<1>4. k[2] \in 0..(Len(fs) - 1)
  BY <1>2, <1>3
<1>5. mmu_perform_page_walk(assign_frames(fs), k[2]) = fs[k[2] + 1]
  BY <1>3, <1>4, WalkFinds
<1>6. Walk[k] = mmu_perform_page_walk(assign_frames(fs), k[2])
  BY <1>1, <1>2 DEF Walk, page_table
<1>7. Frame[k] = fs[k[2] + 1]
  BY <1>1 DEF Frame
<1> QED
  BY <1>5, <1>6, <1>7

Tlbs == [list : Seq(TlbEntry), used : Seq(Nat), fifo : Nat]

\* The entries are those of different pages, each with its frame.
Exact(t) ==
    /\ \A i \in DOMAIN t.list :
        /\ <<t.list[i].pid, t.list[i].page>> \in Owned
        /\ t.list[i].frame = Frame[<<t.list[i].pid, t.list[i].page>>]
    /\ \A i, j \in DOMAIN t.list :
        i # j => <<t.list[i].pid, t.list[i].page>> # <<t.list[j].pid, t.list[j].page>>

\* Every slot has one place in the order of last use.
InOrder(k, t) ==
    /\ Range(t.used) \subseteq DOMAIN t.list /\ IsInjective(t.used)
    /\ k.tlb_algo = "LRU" => Range(t.used) = DOMAIN t.list

\* A TLB of configuration k.
Sound(k, t) ==
    /\ t \in Tlbs /\ Exact(t) /\ InOrder(k, t)
    /\ Len(t.list) <= k.tlb_entries
    /\ t.fifo < Greater(1, k.tlb_entries)

\* The pages of the processes and their frames are in range.
LEMMA OwnedFacts ==
    ASSUME NEW p, NEW g, <<p, g>> \in Owned
    PROVE  /\ p \in Pids /\ g \in Nat /\ g \in Pages
           /\ Frame[<<p, g>>] \in 0..(FrameCount - 1)
<1>1. p \in Pids /\ g \in 0..(FrameCount - 1) /\ g < Len(allocated_frames[p])
  BY DEF Owned
<1>2. g \in Pages
  <2> DEFINE k == <<p, g>>
  <2>1. k \in Owned /\ k[2] = g
    OBVIOUS
  <2> QED
    BY <2>1 DEF Pages
<1>3. allocated_frames[p] \in Seq(0..(FrameCount - 1))
  BY <1>1, MmuAssumption
<1>4. Frame[<<p, g>>] = allocated_frames[p][g + 1]
  BY DEF Frame
<1>5. g + 1 \in 1..Len(allocated_frames[p])
  BY <1>1, <1>3
<1>6. allocated_frames[p][g + 1] \in 0..(FrameCount - 1)
  BY <1>3, <1>5, ElementOfSeq
<1> QED
  BY <1>1, <1>2, <1>4, <1>6

\* The configuration of a CPU.
LEMMA ConfigFacts ==
    ASSUME NEW k \in Configs
    PROVE  /\ k.tlb_entries \in Nat /\ k.tlb_algo \in {"FIFO", "LRU"}
           /\ k.cache_entries \in Nat /\ k.cache_algo \in {"CLOCK", "CLOCK-M"}
BY MmuAssumption

\* The new time stamp of a slot puts it last and leaves the entries alone.
LEMMA StampFacts ==
    ASSUME NEW k \in Configs, NEW t \in Tlbs, NEW i \in DOMAIN t.list,
           Range(t.used) \subseteq DOMAIN t.list, IsInjective(t.used),
           k.tlb_algo = "LRU" => Range(t.used) \cup {i} = DOMAIN t.list
    PROVE  /\ Stamp(k, t, i) \in Tlbs /\ InOrder(k, Stamp(k, t, i))
           /\ Stamp(k, t, i).list = t.list /\ Stamp(k, t, i).fifo = t.fifo
<1>1. /\ t.list \in Seq(TlbEntry) /\ t.used \in Seq(Nat) /\ t.fifo \in Nat
      /\ i \in Nat
  BY DEF Tlbs
<1> DEFINE r == RemoveFirst(t.used, i)
           u == Append(r, i)
<1>2. r \in Seq(Nat) /\ Range(r) = Range(t.used) \ {i} /\ IsInjective(r)
  BY <1>1, RemoveFirstFacts
<1> HIDE DEF r
<1>3. u \in Seq(Nat) /\ Range(u) = Range(r) \cup {i} /\ IsInjective(u)
  BY <1>1, <1>2, AppendFacts
<1> HIDE DEF u
<1>4. CASE k.tlb_algo = "LRU"
  <2>1. Stamp(k, t, i) = [t EXCEPT !.used = u]
    BY <1>4 DEF Stamp, u, r
  <2>2. /\ Stamp(k, t, i) \in Tlbs /\ Stamp(k, t, i).list = t.list
        /\ Stamp(k, t, i).used = u /\ Stamp(k, t, i).fifo = t.fifo
    BY <1>1, <1>3, <2>1 DEF Tlbs
  <2> QED
    BY <1>2, <1>3, <1>4, <2>2 DEF InOrder
<1>5. CASE k.tlb_algo # "LRU"
  <2>1. Stamp(k, t, i) = [t EXCEPT !.used = t.used]
    BY <1>5 DEF Stamp
  <2>2. /\ Stamp(k, t, i) \in Tlbs /\ Stamp(k, t, i).list = t.list
        /\ Stamp(k, t, i).used = t.used /\ Stamp(k, t, i).fifo = t.fifo
    BY <1>1, <2>1 DEF Tlbs
  <2> QED
    BY <1>5, <2>2 DEF InOrder
<1> QED
  BY <1>4, <1>5

\* A remainder is below its divisor.
LEMMA Remainder ==
    ASSUME NEW x \in Nat, NEW n \in Nat, n > 0
    PROVE  x % n \in 0..(n - 1)
OBVIOUS

\* A miss adds the entry of the page in a free slot or in that of the victim, and
\* the other entries stay.
LEMMA AddedEntry ==
    ASSUME NEW k \in Configs, k.tlb_entries > 0, NEW t, Sound(k, t), NEW p, NEW g,
           <<p, g>> \in Owned, tlb_find_entry(t, p, g) = {}
    PROVE  Sound(k, tlb_add_entry(k, t, p, g, Frame[<<p, g>>]))
<1> DEFINE n == Len(t.list)
           e == [page |-> g, pid |-> p, frame |-> Frame[<<p, g>>]]
           victim == IF k.tlb_algo = "FIFO" THEN t.fifo + 1 ELSE Head(t.used)
<1>1. /\ t.list \in Seq(TlbEntry) /\ t.used \in Seq(Nat) /\ t.fifo \in Nat /\ n \in Nat
      /\ DOMAIN t.list = 1..n /\ t \in Tlbs
  BY DEF Sound, Tlbs
<1>2. e \in TlbEntry
  BY OwnedFacts DEF TlbEntry
<1>3. \A i \in 1..n : ~(t.list[i].page = g /\ t.list[i].pid = p)
  BY <1>1 DEF tlb_find_entry
<1>4. k.tlb_entries \in Nat /\ k.tlb_algo \in {"FIFO", "LRU"}
  BY ConfigFacts
<1>5. ASSUME NEW l \in Seq(TlbEntry), NEW i \in DOMAIN l, l[i] = e,
             \A j \in DOMAIN l : j # i => j \in 1..n /\ l[j] = t.list[j],
             NEW u, u.list = l
      PROVE  Exact(u)
  <2>1. /\ e.page = g /\ e.pid = p /\ e.frame = Frame[<<p, g>>]
    OBVIOUS
  <2> HIDE DEF e
  <2>2. \A j \in 1..n : /\ <<t.list[j].pid, t.list[j].page>> \in Owned
                        /\ t.list[j].frame = Frame[<<t.list[j].pid, t.list[j].page>>]
    BY <1>1 DEF Sound, Exact
  <2>3. \A j, m \in 1..n :
          j # m => ~(t.list[j].pid = t.list[m].pid /\ t.list[j].page = t.list[m].page)
    BY <1>1 DEF Sound, Exact
  <2>4. \A j \in DOMAIN l : /\ <<l[j].pid, l[j].page>> \in Owned
                            /\ l[j].frame = Frame[<<l[j].pid, l[j].page>>]
    BY <1>5, <2>1, <2>2
  <2>5. \A j, m \in DOMAIN l :
          j # m => ~(l[j].pid = l[m].pid /\ l[j].page = l[m].page)
    <3> SUFFICES ASSUME NEW j \in DOMAIN l, NEW m \in DOMAIN l, j # m,
                        l[j].pid = l[m].pid, l[j].page = l[m].page
                 PROVE  FALSE
      OBVIOUS
    <3>1. CASE j = i
      BY <1>3, <1>5, <2>1, <3>1
    <3>2. CASE m = i
      BY <1>3, <1>5, <2>1, <3>2
    <3>3. CASE j # i /\ m # i
      BY <1>5, <2>3, <3>3
    <3> QED
      BY <3>1, <3>2, <3>3
  <2> QED
    BY <1>5, <2>4, <2>5 DEF Exact
<1>6. CASE n < k.tlb_entries
  <2> DEFINE l == Append(t.list, e)
             u == [t EXCEPT !.list = l]
  <2>1. tlb_add_entry(k, t, p, g, Frame[<<p, g>>]) = Stamp(k, u, n + 1)
    BY <1>6 DEF tlb_add_entry
  <2>2. /\ l \in Seq(TlbEntry) /\ Len(l) = n + 1 /\ DOMAIN l = 1..(n + 1)
        /\ l[n + 1] = e /\ \A j \in 1..n : l[j] = t.list[j]
    BY <1>1, <1>2
  <2> HIDE DEF l, e
  <2>3. u \in Tlbs /\ u.list = l /\ u.used = t.used /\ u.fifo = t.fifo
    BY <1>1, <2>2 DEF Tlbs
  <2> HIDE DEF u
  <2>4. Exact(u)
    <3>1. n + 1 \in DOMAIN l /\ \A j \in DOMAIN l : j # n + 1 => j \in 1..n /\ l[j] = t.list[j]
      BY <1>1, <2>2
    <3> QED
      BY <1>5, <2>2, <2>3, <3>1
  <2>5. /\ Range(u.used) \subseteq DOMAIN u.list /\ IsInjective(u.used)
        /\ k.tlb_algo = "LRU" => Range(u.used) \cup {n + 1} = DOMAIN u.list
    <3>1. /\ Range(t.used) \subseteq 1..n /\ IsInjective(t.used)
          /\ k.tlb_algo = "LRU" => Range(t.used) = 1..n
      BY <1>1 DEF Sound, InOrder
    <3>2. 1..(n + 1) = (1..n) \cup {n + 1}
      BY <1>1
    <3> QED
      BY <2>2, <2>3, <3>1, <3>2
  <2>6. n + 1 \in DOMAIN u.list
    BY <1>1, <2>2, <2>3
  <2> DEFINE w == Stamp(k, u, n + 1)
  <2>7. w \in Tlbs /\ InOrder(k, w) /\ w.list = l /\ w.fifo = t.fifo
    BY <2>3, <2>5, <2>6, StampFacts
  <2> HIDE DEF w
  <2>8. Exact(w)
    BY <2>3, <2>4, <2>7 DEF Exact
  <2>9. Len(w.list) <= k.tlb_entries /\ w.fifo < Greater(1, k.tlb_entries)
    BY <1>1, <1>4, <1>6, <2>2, <2>7 DEF Sound
  <2> QED
    BY <2>1, <2>7, <2>8, <2>9 DEF Sound, w
<1>7. CASE ~(n < k.tlb_entries)
  <2> DEFINE l == [t.list EXCEPT ![victim] = e]
             f == IF k.tlb_algo = "FIFO" THEN WrapFifo(k, t.fifo) ELSE t.fifo
             u == [t EXCEPT !.list[victim] = e, !.fifo = f]
  <2>0. n = k.tlb_entries /\ n > 0
    BY <1>1, <1>4, <1>7 DEF Sound
  <2>1. tlb_add_entry(k, t, p, g, Frame[<<p, g>>]) = Stamp(k, u, victim)
    BY <1>1, <1>7 DEF tlb_add_entry, Tlbs
  <2>2. /\ Range(t.used) \subseteq 1..n /\ IsInjective(t.used)
        /\ k.tlb_algo = "LRU" => Range(t.used) = 1..n
    BY <1>1 DEF Sound, InOrder
  <2>3. victim \in 1..n
    <3>1. CASE k.tlb_algo = "FIFO"
      <4>1. t.fifo < n
        BY <2>0, <1>1, <1>4 DEF Sound, Greater
      <4> QED
        BY <1>1, <3>1, <4>1
    <3>2. CASE k.tlb_algo = "LRU"
      <4>1. t.used # <<>> => Head(t.used) \in Range(t.used)
        BY <1>1, RangeElements
      <4>2. t.used # <<>>
        <5>1. 1 \in Range(t.used)
          BY <2>0, <2>2, <3>2, <1>1
        <5> QED
          BY <5>1, <1>1, RangeElements
      <4> QED
        BY <2>2, <3>2, <4>1, <4>2
    <3> QED
      BY <1>4, <3>1, <3>2
  <2>4. f \in Nat /\ f < Greater(1, k.tlb_entries)
    <3>1. CASE k.tlb_algo = "FIFO"
      <4>1. (t.fifo + 1) % k.tlb_entries \in 0..(k.tlb_entries - 1)
        BY <1>1, <1>4, Remainder
      <4>2. f = (t.fifo + 1) % k.tlb_entries
        BY <3>1 DEF WrapFifo
      <4> HIDE DEF f
      <4> QED
        BY <1>4, <4>1, <4>2 DEF Greater
    <3>2. CASE k.tlb_algo # "FIFO"
      BY <1>1, <3>2 DEF Sound
    <3> QED
      BY <3>1, <3>2
  <2> HIDE DEF victim, f, e
  <2>5. /\ l \in Seq(TlbEntry) /\ Len(l) = n /\ DOMAIN l = 1..n
        /\ l[victim] = e /\ \A j \in 1..n : j # victim => l[j] = t.list[j]
    BY <1>1, <1>2, <2>3
  <2>6. u \in Tlbs /\ u.list = l /\ u.used = t.used /\ u.fifo = f
    <3>1. l = [t.list EXCEPT ![victim] = e] /\ l \in Seq(TlbEntry)
      BY <2>5
    <3> HIDE DEF l
    <3>2. u = [t EXCEPT !.list = l, !.fifo = f]
      BY <1>1, <3>1 DEF Tlbs
    <3> HIDE DEF u
    <3> QED
      BY <1>1, <2>4, <3>1, <3>2 DEF Tlbs
  <2> HIDE DEF l, u
  <2>7. Exact(u)
    BY <1>5, <2>3, <2>5, <2>6
  <2>8. /\ Range(u.used) \subseteq DOMAIN u.list /\ IsInjective(u.used)
        /\ k.tlb_algo = "LRU" => Range(u.used) \cup {victim} = DOMAIN u.list
    BY <2>2, <2>3, <2>5, <2>6
  <2> DEFINE w == Stamp(k, u, victim)
  <2>9. w \in Tlbs /\ InOrder(k, w) /\ w.list = l /\ w.fifo = f
    BY <2>3, <2>5, <2>6, <2>8, StampFacts
  <2> HIDE DEF w
  <2>10. Exact(w)
    BY <2>6, <2>7, <2>9 DEF Exact
  <2> QED
    BY <2>0, <2>1, <2>4, <2>5, <2>9, <2>10 DEF Sound, w
<1> QED
  BY <1>6, <1>7

\* A translation delivers the frame of the page and leaves a sound TLB.
LEMMA Translation ==
    ASSUME NEW k \in Configs, NEW t, Sound(k, t), NEW p, NEW g, <<p, g>> \in Owned
    PROVE  /\ mmu_translate_address(k, t, p, g).frame = Frame[<<p, g>>]
           /\ Sound(k, mmu_translate_address(k, t, p, g).tlb)
<1>1. Walk[<<p, g>>] = Frame[<<p, g>>]
  BY WalksExact
<1>2. k.tlb_entries \in Nat
  BY ConfigFacts
<1>3. CASE k.tlb_entries = 0
  BY <1>1, <1>3 DEF mmu_translate_address
<1>4. CASE k.tlb_entries > 0 /\ tlb_find_entry(t, p, g) = {}
  <2>1. Sound(k, tlb_add_entry(k, t, p, g, Frame[<<p, g>>]))
    BY <1>4, AddedEntry
  <2> QED
    BY <1>1, <1>4, <2>1 DEF mmu_translate_address
<1>5. CASE k.tlb_entries > 0 /\ tlb_find_entry(t, p, g) # {}
  <2> DEFINE slots == IF k.tlb_entries = 0 THEN {} ELSE tlb_find_entry(t, p, g)
             i == CHOOSE i \in slots : \A j \in slots : i <= j
  <2>1. /\ mmu_translate_address(k, t, p, g).frame = t.list[i].frame
        /\ mmu_translate_address(k, t, p, g).tlb = Stamp(k, t, i)
    <3>1. slots # {}
      BY <1>5
    <3> QED
      BY <3>1 DEF mmu_translate_address
  <2>2. t \in Tlbs /\ t.list \in Seq(TlbEntry) /\ DOMAIN t.list = 1..Len(t.list)
        /\ Len(t.list) \in Nat
    BY DEF Sound, Tlbs
  <2>3. PICK j \in DOMAIN t.list : t.list[j].page = g /\ t.list[j].pid = p
    BY <1>5 DEF tlb_find_entry
  <2>4. slots = {j}
    BY <1>5, <2>3 DEF tlb_find_entry, Sound, Exact
  <2>5. i = j
    BY <2>2, <2>4
  <2> HIDE DEF i
  <2>6. t.list[i].frame = Frame[<<p, g>>]
    BY <2>3, <2>5 DEF Sound, Exact
  <2>7. /\ Range(t.used) \subseteq DOMAIN t.list /\ IsInjective(t.used)
        /\ k.tlb_algo = "LRU" => Range(t.used) \cup {i} = DOMAIN t.list
    BY <2>3, <2>5 DEF Sound, InOrder
  <2> DEFINE w == Stamp(k, t, i)
  <2>8. w \in Tlbs /\ InOrder(k, w) /\ w.list = t.list /\ w.fifo = t.fifo
    BY <2>2, <2>3, <2>5, <2>7, StampFacts
  <2> HIDE DEF w
  <2>9. Sound(k, w)
    BY <2>8 DEF Sound, Exact
  <2> QED
    BY <2>1, <2>6, <2>9 DEF w
<1> QED
  BY <1>2, <1>3, <1>4, <1>5

-----------------------------------------------------------------------------
(* Memory, the victim of a miss, and the write-back *)

Values == Bytes \cup {0}

\* Histories of what was written.
Histories == [Owned -> [Offsets -> Values \cup {Doubtful}]]

\* A cache of configuration k.
Caching(k, cs) ==
    /\ cs \in [0..(k.cache_entries - 1) -> CacheEntry]
    /\ \A s \in DOMAIN cs : cs[s].valid => <<cs[s].pid, cs[s].page>> \in Owned

\* A set of numbers has a first one.
LEMMA FirstFacts ==
    ASSUME NEW S \in SUBSET Nat, S # {}
    PROVE  First(S) \in S /\ \A j \in S : First(S) <= j
BY Least DEF First

\* memoria stores bytes of a page, and answers with bytes.
LEMMA StoredBytes ==
    ASSUME NEW m \in [Addresses -> Values], NEW frame \in Nat, NEW a \in Nat,
           NEW b \in 0..PageSize, NEW content \in [Offsets -> Values]
    PROVE  WriteToMemory(m, frame, a, b, content) \in [Addresses -> Values]
<1>1. frame * PageSize \in Nat /\ PageSize \in Nat
  BY MmuAssumption
<1>2. ASSUME NEW x \in Addresses, x \in Address(frame, a)..(Address(frame, b) - 1)
      PROVE  x - Address(frame, 0) \in Offsets
  BY <1>1, <1>2 DEF Address, Offsets, Addresses
<1> QED
  BY <1>2 DEF WriteToMemory

\* What memoria answers to a read of a page.
LEMMA LoadedBytes ==
    ASSUME NEW m \in [Addresses -> Values], NEW x \in Nat
    PROVE  ReadFromMemory(m, x) \in [Offsets -> Values]
<1>1. FrameCount * PageSize \in Nat /\ PageSize \in Nat
  BY MmuAssumption
<1>2. Blank \in [Offsets -> Values]
  BY DEF Blank, Values
<1>3. ASSUME ~(x + PageSize > FrameCount * PageSize), NEW o \in Offsets
      PROVE  m[x + o] \in Values
  <2>1. x + o \in Addresses
    BY <1>1, <1>3 DEF Offsets, Addresses
  <2> QED
    BY <2>1
<1> QED
  BY <1>2, <1>3 DEF ReadFromMemory

\* The hand stays on the clock.
LEMMA HandFacts ==
    ASSUME NEW k \in Configs, k.cache_entries > 0, NEW hand \in Nat, NEW i \in Nat
    PROVE  Hand(k, hand, i) \in 0..(k.cache_entries - 1)
BY ConfigFacts, Remainder DEF Hand

\* Both searches end with a slot of the cache.
LEMMA VictimSlot ==
    ASSUME NEW k \in Configs, k.cache_entries > 0, NEW hand \in Nat, NEW cs
    PROVE  /\ cache_find_victim_clock(k, cs, hand).slot \in 0..(k.cache_entries - 1)
           /\ cache_find_victim_clock_m(k, cs, hand).slot \in 0..(k.cache_entries - 1)
<1> DEFINE n == k.cache_entries
<1>0. n \in Nat /\ 0 \in 0..(n - 1)
  BY ConfigFacts
<1>1. ASSUME NEW S \in SUBSET (0..(n - 1)), S # {}
      PROVE  Hand(k, hand, First(S)) \in 0..(n - 1)
  <2>1. S \in SUBSET Nat
    BY <1>0
  <2>2. First(S) \in Nat
    BY <1>1, <2>1, FirstFacts
  <2> QED
    BY <2>2, HandFacts
<1>2. cache_find_victim_clock(k, cs, hand).slot \in 0..(n - 1)
  <2> DEFINE unused == {i \in 0..(n - 1) :
                          LET e == cs[Hand(k, hand, i)] IN ~e.valid \/ ~e.use}
             steps == IF unused = {} THEN n ELSE First(unused)
  <2>1. cache_find_victim_clock(k, cs, hand).slot = Hand(k, hand, steps)
    BY DEF cache_find_victim_clock
  <2>2. unused \in SUBSET (0..(n - 1))
    OBVIOUS
  <2> HIDE DEF unused
  <2>3. CASE unused = {}
    <3>1. Hand(k, hand, n) \in 0..(n - 1)
      BY <1>0, HandFacts
    <3> QED
      BY <2>1, <2>3, <3>1
  <2>4. CASE unused # {}
    BY <1>1, <2>1, <2>2, <2>4
  <2> QED
    BY <2>3, <2>4
<1>3. cache_find_victim_clock_m(k, cs, hand).slot \in 0..(n - 1)
  <2> DEFINE steps == 0..(n - 1)
             entry(i) == cs[Hand(k, hand, i)]
             first_pass == {i \in steps : ~entry(i).valid \/ (~entry(i).use /\ ~entry(i).modified)}
             second_pass == {i \in steps : ~entry(i).use /\ entry(i).modified}
             clean == {i \in steps : ~entry(i).modified}
             slot == cache_find_victim_clock_m(k, cs, hand).slot
  <2>1. \/ first_pass # {} /\ slot = Hand(k, hand, First(first_pass))
        \/ second_pass # {} /\ slot = Hand(k, hand, First(second_pass))
        \/ clean # {} /\ slot = Hand(k, hand, First(clean))
        \/ slot = Hand(k, hand, First(steps))
    BY DEF cache_find_victim_clock_m
  <2>2. /\ first_pass \in SUBSET (0..(n - 1)) /\ second_pass \in SUBSET (0..(n - 1))
        /\ clean \in SUBSET (0..(n - 1)) /\ steps \in SUBSET (0..(n - 1)) /\ steps # {}
    BY <1>0
  <2> HIDE DEF first_pass, second_pass, clean, steps, slot
  <2>3. slot \in 0..(n - 1)
    BY <1>1, <2>1, <2>2
  <2> QED
    BY <2>3 DEF slot
<1> QED
  BY <1>2, <1>3

\* What a modified entry needs to be written back.
LEMMA EntryFacts ==
    ASSUME NEW k \in Configs, NEW cs, Caching(k, cs), NEW s \in 0..(k.cache_entries - 1)
    PROVE  /\ cs[s] \in CacheEntry
           /\ cs[s].valid => /\ <<cs[s].pid, cs[s].page>> \in Owned
                             /\ Frame[<<cs[s].pid, cs[s].page>>] \in Nat
           /\ cs[s].from \in Nat /\ cs[s].to \in 0..PageSize
           /\ cs[s].content \in [Offsets -> Values]
<1>1. cs[s] \in CacheEntry /\ s \in DOMAIN cs
  BY DEF Caching
<1>2. cs[s].valid => <<cs[s].pid, cs[s].page>> \in Owned
  BY <1>1 DEF Caching
<1>3. cs[s].valid => Frame[<<cs[s].pid, cs[s].page>>] \in Nat
  <2> SUFFICES ASSUME cs[s].valid PROVE Frame[<<cs[s].pid, cs[s].page>>] \in Nat
    OBVIOUS
  <2>1. Frame[<<cs[s].pid, cs[s].page>>] \in 0..(FrameCount - 1)
    BY <1>2, OwnedFacts
  <2> QED
    BY <2>1, MmuAssumption
<1>4. cs[s].from \in 0..PageSize /\ cs[s].to \in 0..PageSize /\ cs[s].content \in [Offsets -> Values]
  BY <1>1 DEF CacheEntry, Values
<1> QED
  BY <1>1, <1>2, <1>3, <1>4

\* The write-back of one entry: the translation may use the TLB, the bytes go to
\* the frame of the page.
LEMMA WrittenBack ==
    ASSUME NEW k \in Configs, NEW cs, Caching(k, cs),
           NEW s \in 0..(k.cache_entries - 1), NEW w, Sound(k, w.tlb),
           w.mem \in [Addresses -> Values]
    PROVE  /\ Sound(k, WriteBack(k, w, cs[s]).tlb)
           /\ WriteBack(k, w, cs[s]).mem \in [Addresses -> Values]
<1> DEFINE e == cs[s]
           to == mmu_translate_address(k, w.tlb, e.pid, e.page)
<1>1. /\ e.valid => <<e.pid, e.page>> \in Owned /\ Frame[<<e.pid, e.page>>] \in Nat
      /\ e.from \in Nat /\ e.to \in 0..PageSize /\ e.content \in [Offsets -> Values]
  BY EntryFacts
<1> HIDE DEF e
<1>2. CASE e.valid /\ e.modified
  <2>1. to.frame = Frame[<<e.pid, e.page>>] /\ Sound(k, to.tlb)
    BY <1>1, <1>2, Translation
  <2> HIDE DEF to
  <2>2. WriteToMemory(w.mem, to.frame, e.from, e.to, e.content) \in [Addresses -> Values]
    BY <1>1, <1>2, <2>1, StoredBytes
  <2> QED
    BY <1>2, <2>1, <2>2 DEF WriteBack, to, e
<1>3. CASE ~(e.valid /\ e.modified)
  BY <1>3 DEF WriteBack, e
<1> QED
  BY <1>2, <1>3

\* The victim of a miss: a slot, a hand, a cache, a TLB and a memory of the same
\* kind as before.
LEMMA SelectedVictim ==
    ASSUME NEW k \in Configs, k.cache_entries > 0, NEW t, Sound(k, t),
           NEW cs, Caching(k, cs), NEW hand \in Nat, NEW m \in [Addresses -> Values],
           NEW v, v = select_victim_entry(k, t, cs, hand, m)
    PROVE  /\ v.slot \in 0..(k.cache_entries - 1)
           /\ v.hand \in 0..(k.cache_entries - 1)
           /\ Caching(k, v.cache) /\ Sound(k, v.tlb) /\ v.mem \in [Addresses -> Values]
<1> DEFINE u == IF k.cache_algo = "CLOCK" THEN cache_find_victim_clock(k, cs, hand)
                ELSE cache_find_victim_clock_m(k, cs, hand)
           e == cs[u.slot]
           dirty == e.valid /\ e.modified
           to == mmu_translate_address(k, t, e.pid, e.page)
           refused == dirty /\ k.tlb_entries > 0 /\ Address(to.frame, 0) = 0
           ds == [s \in DOMAIN cs |-> IF s \in u.passed THEN [cs[s] EXCEPT !.use = FALSE] ELSE cs[s]]
<1>1. /\ v.slot = u.slot /\ v.hand = Advance(k, u.slot) /\ v.cache = ds
      /\ v.tlb = (IF dirty THEN to.tlb ELSE t)
      /\ v.mem = (IF dirty /\ ~refused /\ e.from < e.to
                  THEN WriteToMemory(m, to.frame, e.from, e.to, e.content) ELSE m)
  BY DEF select_victim_entry
<1>2. u.slot \in 0..(k.cache_entries - 1)
  BY VictimSlot
<1> HIDE DEF u
<1>3. v.hand \in 0..(k.cache_entries - 1)
  <2>1. k.cache_entries \in Nat /\ u.slot + 1 \in Nat
    BY <1>2, ConfigFacts
  <2>2. (u.slot + 1) % k.cache_entries \in 0..(k.cache_entries - 1)
    BY <2>1, Remainder
  <2> QED
    BY <1>1, <2>2 DEF Advance
<1>4. Caching(k, ds)
  <2>1. DOMAIN cs = 0..(k.cache_entries - 1)
    BY DEF Caching
  <2>2. ASSUME NEW s \in DOMAIN cs
        PROVE  ds[s] \in CacheEntry /\ (ds[s].valid => <<ds[s].pid, ds[s].page>> \in Owned)
    <3> DEFINE f == cs[s]
               h == [f EXCEPT !.use = FALSE]
    <3>1. f \in CacheEntry /\ (f.valid => <<f.pid, f.page>> \in Owned)
      BY <2>1, EntryFacts
    <3>2. ds[s] = IF s \in u.passed THEN h ELSE f
      OBVIOUS
    <3> HIDE DEF f, ds
    <3>3. h \in CacheEntry /\ h.valid = f.valid /\ h.pid = f.pid /\ h.page = f.page
      BY <3>1 DEF CacheEntry
    <3> HIDE DEF h
    <3> QED
      BY <3>1, <3>2, <3>3
  <2>3. ds = [s \in DOMAIN cs |-> ds[s]] /\ DOMAIN ds = DOMAIN cs
    OBVIOUS
  <2> HIDE DEF ds
  <2> QED
    BY <2>1, <2>2, <2>3 DEF Caching
<1>5. /\ e.valid => <<e.pid, e.page>> \in Owned /\ Frame[<<e.pid, e.page>>] \in Nat
      /\ e.from \in Nat /\ e.to \in 0..PageSize /\ e.content \in [Offsets -> Values]
  BY <1>2, EntryFacts
<1> HIDE DEF e, ds
<1>6. dirty => to.frame = Frame[<<e.pid, e.page>>] /\ Sound(k, to.tlb)
  BY <1>5, Translation
<1> HIDE DEF to
<1>7. dirty => WriteToMemory(m, to.frame, e.from, e.to, e.content) \in [Addresses -> Values]
  BY <1>5, <1>6, StoredBytes
<1> HIDE DEF refused
<1> QED
  BY <1>1, <1>2, <1>3, <1>4, <1>6, <1>7

\* The bytes of a WRITE in an entry.
LEMMA TypedWrite ==
    ASSUME NEW e \in CacheEntry, NEW a \in Writes, a.offset + a.size <= PageSize
    PROVE  /\ WriteEntry(e, a) \in CacheEntry
           /\ WriteEntry(e, a).valid = e.valid
           /\ WriteEntry(e, a).pid = e.pid /\ WriteEntry(e, a).page = e.page
<1> DEFINE end == a.offset + a.size
           from == IF e.modified THEN Lesser(e.from, a.offset) ELSE a.offset
           to == IF e.modified THEN Greater(e.to, end) ELSE end
           content == [o \in Offsets |-> IF o \in a.offset..(end - 1) THEN a.byte ELSE e.content[o]]
<1>1. a.offset \in Offsets /\ a.size \in 1..PageSize /\ a.byte \in Bytes /\ PageSize \in Nat
  BY MmuAssumption DEF Writes
<1>2. /\ e.from \in 0..PageSize /\ e.to \in 0..PageSize /\ e.content \in [Offsets -> Bytes \cup {0}]
      /\ e.modified \in BOOLEAN /\ e.valid \in BOOLEAN
  BY DEF CacheEntry
<1>3. from \in 0..PageSize /\ to \in 0..PageSize
  BY <1>1, <1>2 DEF Lesser, Greater, Offsets
<1>4. content \in [Offsets -> Bytes \cup {0}]
  BY <1>1, <1>2
<1>5. WriteEntry(e, a) = [e EXCEPT !.use = TRUE, !.modified = TRUE, !.from = from,
                                   !.to = to, !.content = content]
  BY DEF WriteEntry
<1> HIDE DEF from, to, content
<1>6. ASSUME NEW f, f = [e EXCEPT !.use = TRUE, !.modified = TRUE, !.from = from,
                                  !.to = to, !.content = content]
      PROVE  f \in CacheEntry /\ f.valid = e.valid /\ f.pid = e.pid /\ f.page = e.page
  BY <1>3, <1>4, <1>6 DEF CacheEntry
<1> QED
  BY <1>5, <1>6

\* The entry of the page an access missed.
LEMMA TypedFill ==
    ASSUME NEW p, NEW a \in Accesses, <<p, a.page>> \in Owned,
           a.kind = "WRITE" => a.offset + a.size <= PageSize,
           NEW frame \in Nat, NEW m \in [Addresses -> Values], NEW old \in CacheEntry,
           NEW e, e = (IF a.kind = "READ" THEN cache_load_page(p, a, frame, m)
                       ELSE WriteEntry(NewEntry(p, a, old), a))
    PROVE  e \in CacheEntry /\ e.pid = p /\ e.page = a.page
<1>1. p \in Pids /\ a.page \in Nat
  BY OwnedFacts
<1>2. a.offset \in Offsets /\ PageSize \in Nat /\ 0 \in 0..PageSize
  BY MmuAssumption DEF Accesses, Reads, Writes
<1>3. CASE a.kind = "READ"
  <2>1. Address(frame, a.offset) \in Nat
    BY <1>2 DEF Address, Offsets
  <2> DEFINE b == ReadFromMemory(m, Address(frame, a.offset))
  <2>2. b \in [Offsets -> Bytes \cup {0}]
    BY <2>1, LoadedBytes DEF Values
  <2>3. e = [valid |-> TRUE, page |-> a.page, pid |-> p, use |-> TRUE, modified |-> FALSE,
             from |-> 0, to |-> 0, content |-> b]
    BY <1>3 DEF cache_load_page
  <2> HIDE DEF b
  <2>4. ASSUME NEW g \in Nat, NEW B, NEW c \in B
        PROVE  [valid |-> TRUE, page |-> g, pid |-> p, use |-> TRUE, modified |-> FALSE,
                from |-> 0, to |-> 0, content |-> c]
               \in [valid : BOOLEAN, page : Nat, pid : Pids \cup {NoPid}, use : BOOLEAN,
                    modified : BOOLEAN, from : 0..PageSize, to : 0..PageSize, content : B]
    BY <1>1, <1>2
  <2>5. e \in CacheEntry
    <3> DEFINE B == [Offsets -> Bytes \cup {0}]
    <3>1. b \in B
      BY <2>2
    <3> HIDE DEF B
    <3>2. [valid |-> TRUE, page |-> a.page, pid |-> p, use |-> TRUE, modified |-> FALSE,
           from |-> 0, to |-> 0, content |-> b]
               \in [valid : BOOLEAN, page : Nat, pid : Pids \cup {NoPid}, use : BOOLEAN,
                    modified : BOOLEAN, from : 0..PageSize, to : 0..PageSize, content : B]
      BY <1>1, <2>4, <3>1
    <3> QED
      BY <2>3, <3>2 DEF CacheEntry, B
  <2> QED
    BY <2>3, <2>5
<1>4. CASE a.kind # "READ"
  <2>1. a \in Writes /\ a.kind = "WRITE"
    BY <1>4 DEF Accesses, Reads, Writes
  <2>2. a.size \in 1..PageSize /\ a.offset + a.size <= PageSize
    BY <2>1 DEF Writes
  <2> DEFINE f == NewEntry(p, a, old)
  <2>3. Blank \in [Offsets -> Bytes \cup {0}]
    BY DEF Blank
  <2>4. a.offset \in 0..PageSize /\ a.offset + a.size \in 0..PageSize
    BY <1>2, <2>2 DEF Offsets
  <2>5. old.modified \in BOOLEAN
    BY DEF CacheEntry
  <2>6. f \in CacheEntry /\ f.pid = p /\ f.page = a.page
    BY <1>1, <2>3, <2>4, <2>5 DEF NewEntry, CacheEntry
  <2> HIDE DEF f
  <2>7. e = WriteEntry(f, a)
    BY <1>4 DEF f
  <2> QED
    BY <2>1, <2>2, <2>6, <2>7, TypedWrite
<1> QED
  BY <1>3, <1>4

\* The clean-up of a process writes entry after entry.  The function that
\* WriteBackAll defines by recursion exists, since it does up to every number of
\* entries.
LEMMA WriteBackSteps ==
    ASSUME NEW k \in Configs, NEW t, NEW m, NEW cs
    PROVE  \E f : /\ f[0] = [tlb |-> t, mem |-> m]
                  /\ \A n \in 1..k.cache_entries : f[n] = WriteBack(k, f[n - 1], cs[n - 1])
                  /\ WriteBackAll(k, t, m, cs) = f[k.cache_entries]
<1> DEFINE N == k.cache_entries
           w0 == [tlb |-> t, mem |-> m]
           Upto(f, n) == /\ f[0] = w0
                         /\ \A i \in 1..n : f[i] = WriteBack(k, f[i - 1], cs[i - 1])
<1>1. N \in Nat
  BY ConfigFacts
<1>2. \A n \in 0..N : \E f : Upto(f, n)
  <2> DEFINE S == {n \in 0..N : ~ \E f : Upto(f, n)}
  <2> SUFFICES ASSUME S # {} PROVE FALSE
    OBVIOUS
  <2>1. S \in SUBSET Nat
    BY <1>1
  <2>2. First(S) \in S /\ \A j \in S : First(S) <= j
    BY <2>1, FirstFacts
  <2>3. PICK n \in S : \A j \in S : n <= j
    BY <2>2
  <2>4. n \in 0..N /\ ~ \E f : Upto(f, n)
    OBVIOUS
  <2>5. n # 0
    <3>1. Upto([i \in {0} |-> w0], 0)
      BY <1>1
    <3> QED
      BY <2>4, <3>1
  <2>6. n - 1 \in 0..N /\ n - 1 \notin S
    BY <1>1, <2>3, <2>4, <2>5
  <2>7. PICK f : Upto(f, n - 1)
    BY <2>6
  <2> DEFINE g == [i \in 0..n |-> IF i = n THEN WriteBack(k, f[n - 1], cs[n - 1]) ELSE f[i]]
  <2>8. Upto(g, n)
    <3> HIDE DEF w0
    <3>1. n \in Nat /\ n > 0
      BY <1>1, <2>4, <2>5
    <3>2. g[0] = w0
      BY <2>7, <3>1
    <3>3. ASSUME NEW i \in 1..n PROVE g[i] = WriteBack(k, g[i - 1], cs[i - 1])
      <4>1. i - 1 \in 0..n /\ i - 1 # n /\ i \in 0..n
        BY <3>1
      <4>2. g[i - 1] = f[i - 1]
        BY <4>1
      <4>3. CASE i = n
        BY <4>1, <4>2, <4>3
      <4>4. CASE i # n
        <5>1. i \in 1..(n - 1)
          BY <3>1, <4>4
        <5>2. f[i] = WriteBack(k, f[i - 1], cs[i - 1])
          BY <2>7, <5>1
        <5> QED
          BY <4>1, <4>2, <4>4, <5>2
      <4> QED
        BY <4>3, <4>4
    <3> QED
      BY <3>2, <3>3
  <2> QED
    BY <2>4, <2>8
<1>3. \E f : f = [n \in 0..N |-> IF n = 0 THEN w0 ELSE WriteBack(k, f[n - 1], cs[n - 1])]
  <2>1. PICK h : Upto(h, N)
    BY <1>1, <1>2
  <2> DEFINE f == [n \in 0..N |-> h[n]]
  <2> HIDE DEF w0
  <2>2. ASSUME NEW n \in 0..N
        PROVE  f[n] = IF n = 0 THEN w0 ELSE WriteBack(k, f[n - 1], cs[n - 1])
    <3>1. CASE n = 0
      BY <2>1, <3>1
    <3>2. CASE n # 0
      <4>1. n \in 1..N /\ n - 1 \in 0..N
        BY <1>1, <3>2
      <4>2. h[n] = WriteBack(k, h[n - 1], cs[n - 1])
        BY <2>1, <4>1
      <4> QED
        BY <3>2, <4>1, <4>2
    <3> QED
      BY <3>1, <3>2
  <2>3. f = [n \in 0..N |-> IF n = 0 THEN w0 ELSE WriteBack(k, f[n - 1], cs[n - 1])]
    BY <2>2
  <2> QED
    BY <2>3
<1>4. PICK f : /\ f = [n \in 0..N |-> IF n = 0 THEN w0 ELSE WriteBack(k, f[n - 1], cs[n - 1])]
               /\ WriteBackAll(k, t, m, cs) = f[N]
  BY <1>3 DEF WriteBackAll
<1> HIDE DEF w0
<1>5. f[0] = w0 /\ \A n \in 1..N : f[n] = WriteBack(k, f[n - 1], cs[n - 1])
  <2>1. f[0] = w0
    BY <1>1, <1>4
  <2>2. ASSUME NEW n \in 1..N PROVE f[n] = WriteBack(k, f[n - 1], cs[n - 1])
    BY <1>1, <1>4
  <2> QED
    BY <2>1, <2>2
<1> QED
  BY <1>4, <1>5 DEF w0

\* What holds of TLB and memory after each write-back holds at the end.
LEMMA AllWrittenBack ==
    ASSUME NEW k \in Configs, NEW t, Sound(k, t),
           NEW m \in [Addresses -> Values], NEW cs, Caching(k, cs)
    PROVE  /\ Sound(k, WriteBackAll(k, t, m, cs).tlb)
           /\ WriteBackAll(k, t, m, cs).mem \in [Addresses -> Values]
<1> DEFINE N == k.cache_entries
           w0 == [tlb |-> t, mem |-> m]
           Fit(w) == Sound(k, w.tlb) /\ w.mem \in [Addresses -> Values]
<1>1. N \in Nat
  BY ConfigFacts
<1>2. PICK f : /\ f[0] = w0
               /\ \A n \in 1..N : f[n] = WriteBack(k, f[n - 1], cs[n - 1])
               /\ WriteBackAll(k, t, m, cs) = f[N]
  BY WriteBackSteps
<1>3. Fit(w0)
  BY DEF w0
<1> HIDE DEF w0
<1>4. \A n \in 0..N : Fit(f[n])
  <2> DEFINE S == {n \in 0..N : ~Fit(f[n])}
  <2> SUFFICES ASSUME S # {} PROVE FALSE
    OBVIOUS
  <2>1. S \in SUBSET Nat
    BY <1>1
  <2>2. PICK n \in S : \A j \in S : n <= j
    BY <2>1, FirstFacts
  <2> HIDE DEF Fit
  <2>3. n \in 0..N /\ ~Fit(f[n])
    OBVIOUS
  <2>4. n # 0
    BY <1>2, <1>3, <2>3
  <2>5. n - 1 \in 0..(N - 1) /\ n - 1 \in 0..N /\ n - 1 \notin S /\ n \in 1..N
    BY <1>1, <2>2, <2>3, <2>4
  <2>6. Fit(f[n - 1])
    BY <2>5
  <2>7. Fit(WriteBack(k, f[n - 1], cs[n - 1]))
    BY <2>5, <2>6, WrittenBack DEF Fit
  <2> QED
    BY <1>2, <2>3, <2>5, <2>7
<1>5. Fit(f[N])
  BY <1>1, <1>4
<1> QED
  BY <1>2, <1>5

-----------------------------------------------------------------------------
(* The invariant of the CPUs *)

\* Processes on CPUs.
Placed ==
    /\ config \in [Cpus -> Configs]
    /\ pid \in [Cpus -> Pids \cup {NoPid}]
    /\ phase \in [Cpus -> {"idle", "run", "cleanup"}]
    /\ \A c \in Cpus : phase[c] # "idle" => pid[c] \in Pids
    /\ retry \in [Pids -> Accesses \cup {NoAccess}]
    /\ refusals \in [Pids -> Nat]
    /\ wrote \in Histories

\* The tables of the CPUs, and memory.
Tabled ==
    /\ mem \in [Addresses -> Values]
    /\ DOMAIN tlb = Cpus /\ DOMAIN cache = Cpus /\ clock \in [Cpus -> Nat]
    /\ \A c \in Cpus :
        /\ Sound(config[c], tlb[c]) /\ Caching(config[c], cache[c])
        /\ clock[c] < Greater(1, config[c].cache_entries)

MmuInv == Placed /\ Tabled

\* A list whose entries are in a set is a list over that set.
LEMMA SeqOver ==
    ASSUME NEW S, NEW T, NEW s \in Seq(S), Range(s) \subseteq T
    PROVE  s \in Seq(T)
<1>1. DOMAIN s = 1..Len(s) /\ Len(s) \in Nat /\ s \in [1..Len(s) -> S]
  OBVIOUS
<1>2. \A i \in 1..Len(s) : s[i] \in T
  BY <1>1 DEF Range
<1>3. s \in [1..Len(s) -> T]
  BY <1>1, <1>2
<1> QED
  BY <1>1, <1>3, SeqDef

\* The invariant has the types and the exactness of the TLB.
LEMMA MmuInvImplies == MmuInv => TypeOK /\ TlbExact
<1> SUFFICES ASSUME MmuInv PROVE TypeOK /\ TlbExact
  OBVIOUS
<1>1. ASSUME NEW c \in Cpus
      PROVE  /\ tlb[c].list \in Seq(TlbEntry) /\ Len(tlb[c].list) <= config[c].tlb_entries
             /\ tlb[c].used \in Seq(DOMAIN tlb[c].list)
             /\ tlb[c].fifo < Greater(1, config[c].tlb_entries)
             /\ cache[c] \in [0..(config[c].cache_entries - 1) -> CacheEntry]
             /\ clock[c] < Greater(1, config[c].cache_entries)
  <2>1. Sound(config[c], tlb[c]) /\ Caching(config[c], cache[c])
    BY DEF MmuInv, Tabled
  <2>2. /\ tlb[c].list \in Seq(TlbEntry) /\ tlb[c].used \in Seq(Nat)
        /\ Range(tlb[c].used) \subseteq DOMAIN tlb[c].list
    BY <2>1 DEF Sound, Tlbs, InOrder
  <2>3. tlb[c].used \in Seq(DOMAIN tlb[c].list)
    BY <2>2, SeqOver
  <2> QED
    BY <2>1, <2>2, <2>3 DEF MmuInv, Tabled, Sound, Caching
<1>2. TypeOK
  <2>1. Values \cup {Doubtful} = Bytes \cup {0, Doubtful}
    BY DEF Values
  <2>2. wrote \in [Owned -> [Offsets -> Bytes \cup {0, Doubtful}]]
    BY <2>1 DEF MmuInv, Placed, Histories
  <2> QED
    BY <1>1, <2>2 DEF TypeOK, MmuInv, Placed, Tabled, Values
<1>3. TlbExact
  <2>1. ASSUME NEW c \in Cpus PROVE Exact(tlb[c]) /\ InOrder(config[c], tlb[c])
    BY DEF MmuInv, Tabled, Sound
  <2> QED
    BY <2>1 DEF TlbExact, Exact, InOrder
<1> QED
  BY <1>2, <1>3

\* CPUs start with empty tables.
LEMMA EmptyTables ==
    ASSUME NEW k \in Configs, NEW i \in Nat, i < Greater(1, k.tlb_entries)
    PROVE  /\ Sound(k, EmptyTlb(i))
           /\ EmptySlot \in CacheEntry /\ EmptySlot.valid = FALSE
<1>1. k.tlb_entries \in Nat /\ PageSize \in Nat
  BY ConfigFacts, MmuAssumption
<1>2. /\ EmptyTlb(i).list = <<>> /\ EmptyTlb(i).used = <<>> /\ EmptyTlb(i).fifo = i
      /\ EmptyTlb(i) \in Tlbs
  BY DEF EmptyTlb, Tlbs
<1>3. DOMAIN EmptyTlb(i).list = {} /\ Range(EmptyTlb(i).used) = {} /\ IsInjective(EmptyTlb(i).used)
      /\ Len(EmptyTlb(i).list) = 0
  BY <1>2 DEF Range, IsInjective
<1>4. Sound(k, EmptyTlb(i))
  BY <1>1, <1>2, <1>3 DEF Sound, Exact, InOrder
<1>5. EmptySlot \in CacheEntry /\ EmptySlot.valid = FALSE
  <2>1. Blank \in [Offsets -> Bytes \cup {0}] /\ 0 \in 0..PageSize
    BY <1>1 DEF Blank
  <2> HIDE DEF Blank
  <2> QED
    BY <2>1 DEF EmptySlot, CacheEntry
<1> QED
  BY <1>4, <1>5

\* The invariant holds at the beginning.
LEMMA InitMmuInv == Init => MmuInv
<1> SUFFICES ASSUME Init PROVE MmuInv
  OBVIOUS
<1>1. Placed
  <2>1. Blank \in [Offsets -> Values \cup {Doubtful}]
    BY DEF Blank, Values
  <2> QED
    BY <2>1 DEF Init, Placed, Histories
<1>2. config \in [Cpus -> Configs]
  BY DEF Init
<1>3. ASSUME NEW c \in Cpus
      PROVE  Sound(config[c], tlb[c]) /\ Caching(config[c], cache[c])
             /\ clock[c] < Greater(1, config[c].cache_entries)
  <2>1. config[c] \in Configs /\ config[c].tlb_entries \in Nat /\ config[c].cache_entries \in Nat
    BY <1>2, ConfigFacts
  <2>2. 0 < Greater(1, config[c].tlb_entries) /\ 0 < Greater(1, config[c].cache_entries)
    BY <2>1 DEF Greater
  <2>3. Sound(config[c], EmptyTlb(0)) /\ EmptySlot \in CacheEntry /\ EmptySlot.valid = FALSE
    BY <2>1, <2>2, EmptyTables
  <2>4. tlb[c] = EmptyTlb(0) /\ clock[c] = 0
        /\ cache[c] = [s \in 0..(config[c].cache_entries - 1) |-> EmptySlot]
    BY DEF Init
  <2> HIDE DEF EmptySlot
  <2> QED
    BY <2>2, <2>3, <2>4 DEF Caching
<1>4. /\ mem \in [Addresses -> Values]
      /\ DOMAIN tlb = Cpus /\ DOMAIN cache = Cpus /\ clock \in [Cpus -> Nat]
  BY DEF Init, Values
<1> QED
  BY <1>1, <1>3, <1>4 DEF MmuInv, Tabled

\* A step of one CPU.
LEMMA OneCpu ==
    ASSUME Tabled, config' = config, NEW c \in Cpus,
           mem' \in [Addresses -> Values],
           DOMAIN tlb' = Cpus, DOMAIN cache' = Cpus, clock' \in [Cpus -> Nat],
           \A d \in Cpus : d # c => tlb'[d] = tlb[d] /\ cache'[d] = cache[d] /\ clock'[d] = clock[d],
           Sound(config[c], tlb'[c]), Caching(config[c], cache'[c]),
           clock'[c] < Greater(1, config[c].cache_entries)
    PROVE  Tabled'
<1>1. ASSUME NEW d \in Cpus
      PROVE  /\ Sound(config[d], tlb'[d]) /\ Caching(config[d], cache'[d])
             /\ clock'[d] < Greater(1, config[d].cache_entries)
  BY DEF Tabled
<1> QED
  BY <1>1 DEF Tabled

\* An access of the process on a CPU is to a page the process has.
LEMMA ExecutedAccess ==
    ASSUME MmuInv, NEW c \in Cpus, NEW a \in Accesses, Executes(c, a)
    PROVE  /\ pid[c] \in Pids /\ <<pid[c], a.page>> \in Owned
           /\ Frame[<<pid[c], a.page>>] \in Nat
           /\ a.kind = "WRITE" => a.offset + a.size <= PageSize
           /\ a.kind # "READ" => a \in Writes /\ a.kind = "WRITE"
           /\ config[c] \in Configs /\ config[c].cache_entries \in Nat
<1>1. pid[c] \in Pids
  BY DEF MmuInv, Placed, Executes
<1>2. <<pid[c], a.page>> \in Owned /\ (a.kind = "WRITE" => a.offset + a.size <= PageSize)
  BY <1>1, ProgramAssumption DEF Executes
<1>3. Frame[<<pid[c], a.page>>] \in 0..(FrameCount - 1)
  BY <1>2, OwnedFacts
<1>4. a.kind # "READ" => a \in Writes /\ a.kind = "WRITE"
  BY DEF Accesses, Reads, Writes
<1>5. config[c] \in Configs
  BY DEF MmuInv, Placed
<1> QED
  BY <1>1, <1>2, <1>3, <1>4, <1>5, ConfigFacts, MmuAssumption

\* A history with other bytes in one page.
LEMMA RewrittenFacts ==
    ASSUME NEW h \in Histories, NEW k \in Owned, NEW R, NEW b \in Values \cup {Doubtful}
    PROVE  /\ Rewritten(h, k, R, b) \in Histories
           /\ \A j \in Owned, o \in Offsets :
                Rewritten(h, k, R, b)[j][o] = IF j = k /\ o \in R THEN b ELSE h[j][o]
<1> DEFINE f == [o \in Offsets |-> IF o \in R THEN b ELSE h[k][o]]
           g == [h EXCEPT ![k] = f]
<1>1. h[k] \in [Offsets -> Values \cup {Doubtful}] /\ DOMAIN h = Owned
  BY DEF Histories
<1>2. f \in [Offsets -> Values \cup {Doubtful}] /\ \A o \in Offsets : f[o] = IF o \in R THEN b ELSE h[k][o]
  BY <1>1
<1> HIDE DEF f
<1>3. g \in Histories
  BY <1>2 DEF Histories
<1>4. g[k] = f /\ \A j \in Owned : j # k => g[j] = h[j]
  BY <1>1
<1>5. g = Rewritten(h, k, R, b)
  BY DEF Rewritten, f
<1> HIDE DEF g
<1>6. \A j \in Owned, o \in Offsets : g[j][o] = IF j = k /\ o \in R THEN b ELSE h[j][o]
  BY <1>2, <1>4
<1> QED
  BY <1>3, <1>5, <1>6

\* The history of a WRITE in an entry.
LEMMA NotedHistory ==
    ASSUME NEW h \in Histories, NEW p, NEW a, NEW e, <<p, a.page>> \in Owned,
           <<e.pid, a.page>> \in Owned, a.byte \in Values
    PROVE  Noted(h, p, e, a) \in Histories
<1> DEFINE b == IF e.pid = p THEN a.byte ELSE Doubtful
           g == Rewritten(h, <<e.pid, a.page>>, Gap(e, a), Doubtful)
           n == Rewritten(g, <<e.pid, a.page>>, Extent(a), b)
<1>1. b \in Values \cup {Doubtful}
  OBVIOUS
<1> HIDE DEF b
<1>2. g \in Histories
  BY RewrittenFacts
<1> HIDE DEF g
<1>3. n \in Histories
  BY <1>1, <1>2, RewrittenFacts
<1> HIDE DEF n
<1>4. Rewritten(n, <<p, a.page>>, Extent(a), b) \in Histories
  BY <1>1, <1>3, RewrittenFacts
<1> QED
  BY <1>4 DEF Noted, n, g, b

\* An access that is completed leaves processes where they were.
LEMMA CompletedPlaced ==
    ASSUME MmuInv, NEW c \in Cpus, NEW a \in Accesses, Executes(c, a), Completed(c),
           wrote' \in Histories
    PROVE  Placed' /\ config' = config
<1>1. /\ retry' = [retry EXCEPT ![pid[c]] = NoAccess]
      /\ refusals' = [refusals EXCEPT ![pid[c]] = 0]
      /\ UNCHANGED <<config, pid, phase>>
  BY DEF Completed
<1>2. retry' \in [Pids -> Accesses \cup {NoAccess}] /\ refusals' \in [Pids -> Nat]
  BY <1>1 DEF MmuInv, Placed
<1> QED
  BY <1>1, <1>2 DEF MmuInv, Placed

\* The history after an access that found no entry.
LEMMA FreshHistory ==
    ASSUME MmuInv, NEW c \in Cpus, NEW a \in Accesses, Executes(c, a), CompletedFresh(c, a)
    PROVE  wrote' \in Histories
<1>1. wrote \in Histories /\ <<pid[c], a.page>> \in Owned
  BY ExecutedAccess DEF MmuInv, Placed
<1>2. a.kind # "READ" => a.byte \in Values
  BY ExecutedAccess DEF Writes, Values
<1> QED
  BY <1>1, <1>2, RewrittenFacts DEF CompletedFresh

\* A hit changes one entry of the cache of its CPU.
LEMMA HitInv ==
    ASSUME MmuInv, NEW c \in Cpus, NEW a \in Accesses, Hit(c, a)
    PROVE  MmuInv'
<1> DEFINE S == cache_find_entry(cache[c], a.page)
           i == First(S)
           e == cache[c][i]
           f == IF a.kind = "READ" THEN [e EXCEPT !.use = TRUE] ELSE WriteEntry(e, a)
           cs == [cache[c] EXCEPT ![i] = f]
<1>1. /\ Executes(c, a) /\ Completed(c) /\ S # {}
      /\ UNCHANGED <<tlb, clock, mem>>
      /\ cache' = [cache EXCEPT ![c] = cs]
      /\ wrote' = IF a.kind = "READ" THEN wrote ELSE Noted(wrote, pid[c], e, a)
  BY DEF Hit, MmuInv, Tabled
<1>2. Caching(config[c], cache[c]) /\ config[c] \in Configs /\ config[c].cache_entries \in Nat
  BY <1>1, ExecutedAccess DEF MmuInv, Tabled
<1>3. i \in 0..(config[c].cache_entries - 1) /\ e.valid /\ e.page = a.page
  <2>1. S \subseteq 0..(config[c].cache_entries - 1)
    BY <1>2 DEF cache_find_entry, Caching
  <2>2. S \in SUBSET Nat
    BY <1>2, <2>1
  <2>3. i \in S
    BY <1>1, <2>2, FirstFacts
  <2> HIDE DEF i
  <2> QED
    BY <2>1, <2>3 DEF cache_find_entry
<1> HIDE DEF i, S
<1>4. e \in CacheEntry /\ (e.valid => <<e.pid, e.page>> \in Owned)
  BY <1>2, <1>3, EntryFacts
<1> HIDE DEF e
<1>5. Placed' /\ config' = config
  <2>1. wrote \in Histories /\ <<pid[c], a.page>> \in Owned /\ <<e.pid, a.page>> \in Owned
    BY <1>1, <1>3, <1>4, ExecutedAccess DEF MmuInv, Placed
  <2>2. a.kind # "READ" => a.byte \in Values
    BY <1>1, ExecutedAccess DEF Writes, Values
  <2>3. wrote' \in Histories
    BY <1>1, <2>1, <2>2, NotedHistory
  <2> QED
    BY <1>1, <2>3, CompletedPlaced
<1>6. f \in CacheEntry /\ f.valid = e.valid /\ f.pid = e.pid /\ f.page = e.page
  <2>1. CASE a.kind = "READ"
    BY <1>4, <2>1 DEF CacheEntry
  <2>2. CASE a.kind # "READ"
    <3>1. a \in Writes /\ a.offset + a.size <= PageSize
      BY <1>1, <2>2, ExecutedAccess
    <3> QED
      BY <1>4, <2>2, <3>1, TypedWrite
  <2> QED
    BY <2>1, <2>2
<1> HIDE DEF f
<1>7. Caching(config[c], cs)
  <2>1. cache[c] \in [0..(config[c].cache_entries - 1) -> CacheEntry]
    BY <1>2 DEF Caching
  <2>2. /\ cs \in [0..(config[c].cache_entries - 1) -> CacheEntry]
        /\ cs[i] = f /\ \A s \in 0..(config[c].cache_entries - 1) : s # i => cs[s] = cache[c][s]
    BY <1>3, <1>6, <2>1
  <2> HIDE DEF cs
  <2> QED
    BY <1>2, <1>4, <1>6, <2>1, <2>2 DEF Caching
<1> HIDE DEF cs
<1>8. DOMAIN cache' = Cpus /\ cache'[c] = cs /\ \A d \in Cpus : d # c => cache'[d] = cache[d]
  BY <1>1 DEF MmuInv, Tabled
<1>9. Tabled'
  <2>1. /\ Tabled /\ mem' \in [Addresses -> Values] /\ DOMAIN tlb' = Cpus
        /\ clock' \in [Cpus -> Nat] /\ Sound(config[c], tlb'[c])
        /\ clock'[c] < Greater(1, config[c].cache_entries)
    BY <1>1 DEF MmuInv, Tabled
  <2> QED
    BY <1>1, <1>5, <1>7, <1>8, <2>1, OneCpu
<1> QED
  BY <1>5, <1>9 DEF MmuInv

\* What a miss has before it: the victim of a sound CPU.
LEMMA MissedVictim ==
    ASSUME MmuInv, NEW c \in Cpus, NEW a \in Accesses, Executes(c, a),
           config[c].cache_entries > 0,
           NEW v, v = select_victim_entry(config[c], tlb[c], cache[c], clock[c], mem)
    PROVE  /\ v.slot \in 0..(config[c].cache_entries - 1)
           /\ v.hand \in Nat /\ v.hand < Greater(1, config[c].cache_entries)
           /\ Caching(config[c], v.cache) /\ Sound(config[c], v.tlb)
           /\ v.mem \in [Addresses -> Values]
<1>1. /\ config[c] \in Configs /\ config[c].cache_entries \in Nat
      /\ Sound(config[c], tlb[c]) /\ Caching(config[c], cache[c])
      /\ clock[c] \in Nat /\ mem \in [Addresses -> Values]
  BY ExecutedAccess DEF MmuInv, Tabled
<1>2. /\ v.slot \in 0..(config[c].cache_entries - 1)
      /\ v.hand \in 0..(config[c].cache_entries - 1)
      /\ Caching(config[c], v.cache) /\ Sound(config[c], v.tlb) /\ v.mem \in [Addresses -> Values]
  BY <1>1, SelectedVictim
<1> QED
  BY <1>1, <1>2 DEF Greater

\* A miss writes its victim back and fills the slot with its page.
LEMMA MissInv ==
    ASSUME MmuInv, NEW c \in Cpus, NEW a \in Accesses, Miss(c, a)
    PROVE  MmuInv'
<1> DEFINE v == select_victim_entry(config[c], tlb[c], cache[c], clock[c], mem)
           p == pid[c]
           to == mmu_translate_address(config[c], v.tlb, p, a.page)
           old == v.cache[v.slot]
           e == IF a.kind = "READ" THEN cache_load_page(p, a, to.frame, v.mem)
                ELSE WriteEntry(NewEntry(p, a, old), a)
           cs == [v.cache EXCEPT ![v.slot] = e]
           n == config[c].cache_entries
<1>1. /\ Executes(c, a) /\ Completed(c) /\ CompletedFresh(c, a) /\ n > 0
      /\ mem' = v.mem /\ clock' = [clock EXCEPT ![c] = v.hand]
      /\ tlb' = [tlb EXCEPT ![c] = IF a.kind = "READ" THEN to.tlb ELSE v.tlb]
      /\ cache' = [cache EXCEPT ![c] = cs]
  BY DEF Miss, CompletedFresh
<1>2. Placed' /\ config' = config
  BY <1>1, CompletedPlaced, FreshHistory
<1>3. /\ v.slot \in 0..(n - 1) /\ v.hand \in Nat /\ v.hand < Greater(1, n)
      /\ Caching(config[c], v.cache) /\ Sound(config[c], v.tlb) /\ v.mem \in [Addresses -> Values]
  BY <1>1, MissedVictim
<1>4. /\ <<p, a.page>> \in Owned /\ Frame[<<p, a.page>>] \in Nat
      /\ a.kind = "WRITE" => a.offset + a.size <= PageSize
      /\ config[c] \in Configs
  BY <1>1, ExecutedAccess
<1> HIDE DEF v, p
<1>5. to.frame = Frame[<<p, a.page>>] /\ Sound(config[c], to.tlb)
  BY <1>3, <1>4, Translation
<1> HIDE DEF to
<1>6. old \in CacheEntry
  BY <1>3, <1>4, EntryFacts
<1> HIDE DEF old
<1>7. e \in CacheEntry /\ e.pid = p /\ e.page = a.page
  BY <1>3, <1>4, <1>5, <1>6, TypedFill
<1> HIDE DEF e
<1>8. Caching(config[c], cs)
  <2>1. v.cache \in [0..(n - 1) -> CacheEntry]
    BY <1>3 DEF Caching
  <2>2. /\ cs \in [0..(n - 1) -> CacheEntry]
        /\ cs[v.slot] = e /\ \A s \in 0..(n - 1) : s # v.slot => cs[s] = v.cache[s]
    BY <1>3, <1>7, <2>1
  <2> HIDE DEF cs
  <2> QED
    BY <1>3, <1>4, <1>7, <2>1, <2>2 DEF Caching
<1> HIDE DEF cs
<1>9. /\ DOMAIN cache' = Cpus /\ cache'[c] = cs /\ DOMAIN tlb' = Cpus
      /\ tlb'[c] = IF a.kind = "READ" THEN to.tlb ELSE v.tlb
      /\ clock'[c] = v.hand /\ clock' \in [Cpus -> Nat]
      /\ \A d \in Cpus : d # c => tlb'[d] = tlb[d] /\ cache'[d] = cache[d] /\ clock'[d] = clock[d]
  BY <1>1, <1>3 DEF MmuInv, Tabled
<1>10. Tabled'
  <2>1. Tabled /\ mem' \in [Addresses -> Values] /\ Sound(config[c], tlb'[c])
    BY <1>1, <1>3, <1>5, <1>9 DEF MmuInv
  <2> QED
    BY <1>2, <1>3, <1>8, <1>9, <2>1, OneCpu
<1> QED
  BY <1>2, <1>10 DEF MmuInv

\* A refused miss takes use bits, moves the hand and may load the TLB.
LEMMA MissRefusedInv ==
    ASSUME MmuInv, NEW c \in Cpus, NEW a \in Accesses, MissRefused(c, a)
    PROVE  MmuInv'
<1> DEFINE v == select_victim_entry(config[c], tlb[c], cache[c], clock[c], mem)
           n == config[c].cache_entries
<1>1. /\ Executes(c, a) /\ n > 0
      /\ clock' = [clock EXCEPT ![c] = v.hand] /\ tlb' = [tlb EXCEPT ![c] = v.tlb]
      /\ cache' = [cache EXCEPT ![c] = v.cache]
      /\ retry' = [retry EXCEPT ![pid[c]] = a]
      /\ refusals' = [refusals EXCEPT ![pid[c]] = @ + 1]
      /\ UNCHANGED <<config, pid, phase, mem, wrote>>
  BY DEF MissRefused
<1>2. /\ v.hand \in Nat /\ v.hand < Greater(1, n)
      /\ Caching(config[c], v.cache) /\ Sound(config[c], v.tlb)
  BY <1>1, MissedVictim
<1> HIDE DEF v
<1>3. pid[c] \in Pids
  BY <1>1, ExecutedAccess
<1>4. Placed'
  BY <1>1, <1>3 DEF MmuInv, Placed
<1>5. /\ DOMAIN cache' = Cpus /\ cache'[c] = v.cache /\ DOMAIN tlb' = Cpus /\ tlb'[c] = v.tlb
      /\ clock'[c] = v.hand /\ clock' \in [Cpus -> Nat]
      /\ \A d \in Cpus : d # c => tlb'[d] = tlb[d] /\ cache'[d] = cache[d] /\ clock'[d] = clock[d]
  BY <1>1, <1>2 DEF MmuInv, Tabled
<1>6. Tabled'
  <2>1. Tabled /\ mem' \in [Addresses -> Values]
    BY <1>1 DEF MmuInv, Tabled
  <2> QED
    BY <1>1, <1>2, <1>5, <2>1, OneCpu
<1> QED
  BY <1>4, <1>6 DEF MmuInv

\* Without a cache the bytes go to the frame of the page.
LEMMA UncachedInv ==
    ASSUME MmuInv, NEW c \in Cpus, NEW a \in Accesses, Uncached(c, a)
    PROVE  MmuInv'
<1> DEFINE p == pid[c]
           to == mmu_translate_address(config[c], tlb[c], p, a.page)
           b == [o \in Offsets |-> a.byte]
<1>1. /\ Executes(c, a) /\ Completed(c) /\ CompletedFresh(c, a) /\ UNCHANGED <<cache, clock>>
      /\ tlb' = [tlb EXCEPT ![c] = to.tlb]
      /\ mem' = IF a.kind = "READ" THEN mem
                ELSE WriteToMemory(mem, to.frame, a.offset, a.offset + a.size, b)
  BY DEF Uncached, CompletedFresh
<1>2. Placed' /\ config' = config
  BY <1>1, CompletedPlaced, FreshHistory
<1>3. /\ <<p, a.page>> \in Owned /\ Frame[<<p, a.page>>] \in Nat
      /\ a.kind # "READ" => a \in Writes /\ a.offset + a.size <= PageSize
      /\ config[c] \in Configs /\ Sound(config[c], tlb[c]) /\ mem \in [Addresses -> Values]
  BY <1>1, ExecutedAccess DEF MmuInv, Tabled
<1> HIDE DEF p
<1>4. to.frame = Frame[<<p, a.page>>] /\ Sound(config[c], to.tlb)
  BY <1>3, Translation
<1> HIDE DEF to
<1>5. mem' \in [Addresses -> Values]
  <2>1. CASE a.kind = "READ"
    BY <1>1, <1>3, <2>1
  <2>2. CASE a.kind # "READ"
    <3>1. a.byte \in Values /\ a.offset \in Nat /\ a.offset + a.size \in 0..PageSize
      BY <1>3, <2>2, MmuAssumption DEF Writes, Values, Offsets
    <3>2. b \in [Offsets -> Values]
      BY <3>1
    <3> HIDE DEF b
    <3> QED
      BY <1>1, <1>3, <1>4, <2>2, <3>1, <3>2, StoredBytes
  <2> QED
    BY <2>1, <2>2
<1>6. /\ DOMAIN tlb' = Cpus /\ tlb'[c] = to.tlb
      /\ \A d \in Cpus : d # c => tlb'[d] = tlb[d]
  BY <1>1 DEF MmuInv, Tabled
<1>7. Tabled'
  <2>1. /\ Tabled /\ DOMAIN cache' = Cpus /\ clock' \in [Cpus -> Nat]
        /\ Caching(config[c], cache'[c]) /\ clock'[c] < Greater(1, config[c].cache_entries)
    BY <1>1 DEF MmuInv, Tabled
  <2> QED
    BY <1>1, <1>2, <1>4, <1>5, <1>6, <2>1, OneCpu
<1> QED
  BY <1>2, <1>7 DEF MmuInv

\* The clean-up writes all entries back and leaves empty tables.
LEMMA CleanupInv ==
    ASSUME MmuInv, NEW c \in Cpus, mmu_process_cleanup(c)
    PROVE  MmuInv'
<1> DEFINE w == WriteBackAll(config[c], tlb[c], mem, cache[c])
           cs == [s \in DOMAIN cache[c] |-> EmptySlot]
<1>1. /\ mem' = w.mem /\ tlb' = [tlb EXCEPT ![c] = EmptyTlb(w.tlb.fifo)]
      /\ cache' = [cache EXCEPT ![c] = cs]
      /\ pid' = [pid EXCEPT ![c] = NoPid] /\ phase' = [phase EXCEPT ![c] = "idle"]
      /\ UNCHANGED <<config, retry, clock, history>>
  BY DEF mmu_process_cleanup, MmuInv, Tabled
<1>2. /\ config[c] \in Configs /\ Sound(config[c], tlb[c]) /\ mem \in [Addresses -> Values]
      /\ Caching(config[c], cache[c])
  BY DEF MmuInv, Placed, Tabled
<1>3. Sound(config[c], w.tlb) /\ w.mem \in [Addresses -> Values]
  BY <1>2, AllWrittenBack
<1> HIDE DEF w
<1>4. w.tlb.fifo \in Nat /\ w.tlb.fifo < Greater(1, config[c].tlb_entries)
  BY <1>3 DEF Sound, Tlbs
<1>5. /\ Sound(config[c], EmptyTlb(w.tlb.fifo))
      /\ EmptySlot \in CacheEntry /\ EmptySlot.valid = FALSE
  BY <1>2, <1>4, EmptyTables
<1>6. Caching(config[c], cs)
  <2> HIDE DEF EmptySlot
  <2> QED
    BY <1>2, <1>5 DEF Caching
<1> HIDE DEF cs
<1>7. Placed'
  BY <1>1 DEF MmuInv, Placed, history
<1>8. /\ DOMAIN cache' = Cpus /\ cache'[c] = cs
      /\ DOMAIN tlb' = Cpus /\ tlb'[c] = EmptyTlb(w.tlb.fifo)
      /\ \A d \in Cpus : d # c => tlb'[d] = tlb[d] /\ cache'[d] = cache[d]
  BY <1>1 DEF MmuInv, Tabled
<1>9. Tabled'
  <2>1. /\ Tabled /\ clock' \in [Cpus -> Nat] /\ mem' \in [Addresses -> Values]
        /\ clock'[c] < Greater(1, config[c].cache_entries)
    BY <1>1, <1>3 DEF MmuInv, Tabled
  <2> QED
    BY <1>1, <1>5, <1>6, <1>8, <2>1, OneCpu
<1> QED
  BY <1>7, <1>9 DEF MmuInv

\* Every step of a CPU keeps the invariant: accesses change the tables of one CPU,
\* dispatches, system calls and interrupts change none.
LEMMA NextMmuInv ==
    ASSUME MmuInv, [Next]_vars
    PROVE  MmuInv'
<1>1. ASSUME NEW c \in Cpus, NEW a \in Accesses,
             Hit(c, a) \/ Miss(c, a) \/ MissRefused(c, a) \/ Uncached(c, a)
      PROVE  MmuInv'
  BY <1>1, HitInv, MissInv, MissRefusedInv, UncachedInv
<1>2. ASSUME UNCHANGED <<config, tlb, cache, clock, mem>>
      PROVE  Tabled'
  BY <1>2 DEF MmuInv, Tabled
<1>3. ASSUME NEW c \in Cpus, NEW p \in Pids, recv_dispatch(c, p)
      PROVE  MmuInv'
  <2>1. Placed'
    BY <1>3 DEF recv_dispatch, MmuInv, Placed
  <2> QED
    BY <1>2, <1>3, <2>1 DEF recv_dispatch, MmuInv
<1>4. ASSUME NEW c \in Cpus, Syscall(c)
      PROVE  MmuInv'
  <2>1. Placed'
    BY <1>4 DEF Syscall, MmuInv, Placed, history
  <2> QED
    BY <1>2, <1>4, <2>1 DEF Syscall, MmuInv
<1>5. ASSUME NEW c \in Cpus, check_interrupt(c)
      PROVE  MmuInv'
  <2>1. Placed'
    BY <1>5 DEF check_interrupt, MmuInv, Placed, history
  <2> QED
    BY <1>2, <1>5, <2>1 DEF check_interrupt, MmuInv
<1>6. CASE UNCHANGED vars
  <2>1. Placed'
    BY <1>6 DEF vars, history, MmuInv, Placed
  <2> QED
    BY <1>2, <1>6, <2>1 DEF vars, MmuInv
<1> QED
  BY <1>1, <1>3, <1>4, <1>5, <1>6, CleanupInv, ProgramAccesses DEF Next

\* The invariant always holds.
LEMMA MmuInvariant == Spec => []MmuInv
<1>1. MmuInv /\ [Next]_vars => MmuInv'
  BY NextMmuInv
<1> QED
  BY <1>1, InitMmuInv, PTL DEF Spec

\* The types of TLB, cache and memory; the tables keep within their configured
\* sizes and the pointers of FIFO and CLOCK within their tables, for any sizes.
THEOREM TypeCorrect == Spec => []TypeOK
<1>1. MmuInv => TypeOK
  BY MmuInvImplies
<1> QED
  BY <1>1, MmuInvariant, PTL

\* The TLB never answers with the frame of another page or process, through
\* replacements of both algorithms, write-backs of other processes' pages, system
\* calls and clean-ups, on any number of CPUs.
THEOREM TlbIsExact == Spec => []TlbExact
<1>1. MmuInv => TlbExact
  BY MmuInvImplies
<1> QED
  BY <1>1, MmuInvariant, PTL

-----------------------------------------------------------------------------
(* An instruction is refused at most twice in a row *)

\* A clock of one entry that needs a translation to write it back turns for ever
\* when that entry is the page at address 0.
RoomToTurn == \A k \in Configs : k.tlb_entries = 0 \/ k.cache_entries # 1

\* The entries whose write-back is taken for a failed translation.
AtZero(e) == e.valid /\ e.modified /\ Frame[<<e.pid, e.page>>] = 0

\* What r refusals in a row leave: the page at address 0 has no use bit, the hand
\* is one past it, and after the second one another slot has no use bit either.
Turned(k, cs, hand, r) ==
    \E s \in DOMAIN cs :
        /\ AtZero(cs[s]) /\ ~cs[s].use /\ hand = Advance(k, s)
        /\ r > 1 => \E j \in DOMAIN cs : j # s /\ ~cs[j].use

\* A process runs on one CPU at a time.
RunsOnce ==
    \A c, d \in Cpus : phase[c] = "run" /\ phase[d] = "run" /\ pid[c] = pid[d] => c = d

\* After a refusal the clock has turned past the page at address 0.
Turning ==
    \A c \in Cpus :
        phase[c] = "run" /\ refusals[pid[c]] > 0 =>
            Turned(config[c], cache[c], clock[c], refusals[pid[c]])

\* The inductive invariant for refusals.
TurnInv == RunsOnce /\ Turning /\ BoundedRefusals

\* Remainders of the numbers the hand adds up.
LEMMA SmallRemainders ==
    ASSUME NEW n \in Nat, n > 0, NEW x \in 0..(n - 1)
    PROVE  x % n = x /\ (x + n) % n = x
<1>1. x % n = x
  OBVIOUS
<1>2. (x + n) % n = x
  OBVIOUS
<1> QED
  BY <1>1, <1>2

\* From one past slot s the hand reaches s with its last step, and every other slot
\* before.
LEMMA OneTurn ==
    ASSUME NEW k \in Configs, k.cache_entries > 0, NEW s \in 0..(k.cache_entries - 1)
    PROVE  /\ \A i \in 0..(k.cache_entries - 1) :
                Hand(k, Advance(k, s), i) = s => i = k.cache_entries - 1
           /\ \A j \in 0..(k.cache_entries - 1) :
                j # s => \E i \in 0..(k.cache_entries - 2) : Hand(k, Advance(k, s), i) = j
<1> DEFINE n == k.cache_entries
           h == Advance(k, s)
<1>1. n \in Nat /\ n > 0
  BY ConfigFacts
<1>2. h = IF s = n - 1 THEN 0 ELSE s + 1
  <2>1. CASE s = n - 1
    <3>1. s + 1 = 0 + n /\ 0 \in 0..(n - 1)
      BY <1>1, <2>1
    <3>2. (0 + n) % n = 0
      BY <1>1, <3>1, SmallRemainders
    <3> QED
      BY <2>1, <3>1, <3>2 DEF Advance
  <2>2. CASE s # n - 1
    <3>1. s + 1 \in 0..(n - 1)
      BY <1>1, <2>2
    <3>2. (s + 1) % n = s + 1
      BY <1>1, <3>1, SmallRemainders
    <3> QED
      BY <2>2, <3>2 DEF Advance
  <2> QED
    BY <2>1, <2>2
<1> HIDE DEF h
<1>3. ASSUME NEW i \in 0..(n - 1)
      PROVE  Hand(k, h, i) = IF h + i < n THEN h + i ELSE h + i - n
  <2>1. CASE h + i < n
    <3>1. h + i \in 0..(n - 1)
      BY <1>1, <1>2, <2>1
    <3>2. (h + i) % n = h + i
      BY <1>1, <3>1, SmallRemainders
    <3> QED
      BY <2>1, <3>2 DEF Hand
  <2>2. CASE ~(h + i < n)
    <3> DEFINE x == h + i - n
    <3>1. x \in 0..(n - 1) /\ h + i = x + n
      BY <1>1, <1>2, <2>2
    <3> HIDE DEF x
    <3>2. (x + n) % n = x
      BY <1>1, <3>1, SmallRemainders
    <3>3. Hand(k, h, i) = x
      BY <3>1, <3>2 DEF Hand
    <3> QED
      BY <2>2, <3>3 DEF x
  <2> QED
    BY <2>1, <2>2
<1> HIDE DEF n
<1>4. ASSUME NEW i \in 0..(n - 1), Hand(k, h, i) = s PROVE i = n - 1
  BY <1>1, <1>2, <1>3, <1>4 DEF n
<1>5. ASSUME NEW j \in 0..(n - 1), j # s
      PROVE  \E i \in 0..(n - 2) : Hand(k, h, i) = j
  <2>1. CASE h <= j
    <3>1. j - h \in 0..(n - 1) /\ j - h \in 0..(n - 2)
      BY <1>1, <1>2, <1>5, <2>1 DEF n
    <3>2. Hand(k, h, j - h) = j
      BY <1>1, <1>2, <1>3, <2>1, <3>1 DEF n
    <3> QED
      BY <3>1, <3>2
  <2>2. CASE ~(h <= j)
    <3> DEFINE i == j + n - h
    <3>1. i \in 0..(n - 1) /\ i \in 0..(n - 2) /\ h + i - n = j /\ ~(h + i < n)
      BY <1>1, <1>2, <1>5, <2>2 DEF n
    <3>2. Hand(k, h, i) = j
      BY <1>3, <3>1
    <3> HIDE DEF i
    <3> QED
      BY <3>1, <3>2
  <2> QED
    BY <2>1, <2>2
<1> QED
  BY <1>4, <1>5 DEF n, h

\* The search of both algorithms, if it ends with a valid modified entry: the slots
\* passed before had a use bit and lose it, and so does the entry itself.
LEMMA SearchedVictim ==
    ASSUME NEW k \in Configs, k.cache_entries > 0, NEW cs, Caching(k, cs), NEW hand \in Nat,
           NEW u, \/ u = cache_find_victim_clock(k, cs, hand)
                  \/ u = cache_find_victim_clock_m(k, cs, hand),
           hand < k.cache_entries,
           cs[u.slot].valid, cs[u.slot].modified
    PROVE  \E st \in 0..(k.cache_entries - 1) :
                /\ u.slot = Hand(k, hand, st)
                /\ \A i \in 0..(st - 1) :
                        cs[Hand(k, hand, i)].use /\ Hand(k, hand, i) \in u.passed
                /\ cs[u.slot].use => u.slot \in u.passed
<1> DEFINE n == k.cache_entries
           entry(i) == cs[Hand(k, hand, i)]
<1>0. n \in Nat /\ n > 0 /\ 0 \in 0..(n - 1) /\ 0..(n - 1) # {}
  BY ConfigFacts
<1>1. ASSUME NEW S \in SUBSET (0..(n - 1)), S # {}
      PROVE  First(S) \in S /\ First(S) \in 0..(n - 1) /\ \A j \in S : First(S) <= j
  <2>1. S \in SUBSET Nat
    BY <1>0
  <2> QED
    BY <1>1, <2>1, FirstFacts
<1>2. ASSUME NEW i \in 0..(n - 1)
      PROVE  entry(i) \in CacheEntry
  <2>1. Hand(k, hand, i) \in 0..(n - 1)
    BY <1>0, HandFacts
  <2> QED
    BY <2>1, EntryFacts
<1>3. \A j \in Nat : \A i \in 0..(j - 1) : Hand(k, hand, i) \in Passed(k, hand, j)
  BY DEF Passed
<1>4. CASE u = cache_find_victim_clock(k, cs, hand)
  <2> DEFINE unused == {i \in 0..(n - 1) : ~entry(i).valid \/ ~entry(i).use}
             steps == IF unused = {} THEN n ELSE First(unused)
  <2>1. u.slot = Hand(k, hand, steps) /\ u.passed = Passed(k, hand, steps)
    BY <1>4 DEF cache_find_victim_clock
  <2>2. unused \in SUBSET (0..(n - 1))
    OBVIOUS
  <2>3. CASE unused = {}
    <3>1. Hand(k, hand, n) = Hand(k, hand, 0)
      <4>1. hand \in 0..(n - 1)
        BY <1>0
      <4>2. (hand + n) % n = hand /\ hand % n = hand
        BY <1>0, <4>1, SmallRemainders
      <4>3. hand + 0 = hand
        OBVIOUS
      <4> QED
        BY <4>2, <4>3 DEF Hand
    <3>2. u.slot = Hand(k, hand, 0) /\ u.passed = Passed(k, hand, n)
      BY <2>1, <2>3, <3>1
    <3>3. u.slot \in u.passed
      BY <1>0, <1>3, <3>2
    <3> QED
      BY <1>0, <3>2, <3>3
  <2>4. CASE unused # {}
    <3>1. /\ First(unused) \in unused /\ First(unused) \in 0..(n - 1)
          /\ \A j \in unused : First(unused) <= j
      BY <1>1, <2>2, <2>4
    <3>2. PICK st \in 0..(n - 1) : st = First(unused)
      BY <3>1
    <3>3. u.slot = Hand(k, hand, st) /\ u.passed = Passed(k, hand, st)
      BY <2>1, <2>4, <3>2
    <3>4. ~cs[u.slot].use
      BY <3>1, <3>2, <3>3
    <3>5. ASSUME NEW i \in 0..(st - 1) PROVE entry(i).use
      <4>1. i \in 0..(n - 1) /\ ~(st <= i)
        BY <1>0, <3>2
      <4>2. i \notin unused
        BY <3>1, <3>2, <4>1
      <4> QED
        BY <4>1, <4>2
    <3>6. \A i \in 0..(st - 1) : Hand(k, hand, i) \in u.passed
      BY <1>0, <1>3, <3>3
    <3> QED
      BY <3>3, <3>4, <3>5, <3>6
  <2> QED
    BY <2>3, <2>4
<1>5. CASE u = cache_find_victim_clock_m(k, cs, hand)
  <2> DEFINE steps == 0..(n - 1)
             first_pass == {i \in steps : ~entry(i).valid \/ (~entry(i).use /\ ~entry(i).modified)}
             second_pass == {i \in steps : ~entry(i).use /\ entry(i).modified}
             clean == {i \in steps : ~entry(i).modified}
             found(S, i) == [slot |-> Hand(k, hand, First(S)), passed |-> Passed(k, hand, i)]
  <2>1. \/ first_pass # {} /\ u = found(first_pass, 0)
        \/ first_pass = {} /\ second_pass # {} /\ u = found(second_pass, First(second_pass))
        \/ first_pass = {} /\ second_pass = {} /\ clean # {} /\ u = found(clean, n)
        \/ u = found(steps, n)
    BY <1>5 DEF cache_find_victim_clock_m
  <2>2. /\ first_pass \in SUBSET (0..(n - 1)) /\ second_pass \in SUBSET (0..(n - 1))
        /\ clean \in SUBSET (0..(n - 1)) /\ steps \in SUBSET (0..(n - 1)) /\ steps # {}
    BY <1>0
  <2>3. CASE first_pass # {} /\ u = found(first_pass, 0)
    <3>1. First(first_pass) \in first_pass /\ u.slot = Hand(k, hand, First(first_pass))
      BY <1>1, <2>2, <2>3
    <3>2. ~cs[u.slot].valid \/ ~cs[u.slot].modified
      BY <3>1
    <3> QED
      BY <3>2
  <2>4. CASE first_pass = {} /\ second_pass # {} /\ u = found(second_pass, First(second_pass))
    <3>1. /\ First(second_pass) \in second_pass /\ First(second_pass) \in 0..(n - 1)
          /\ \A j \in second_pass : First(second_pass) <= j
      BY <1>1, <2>2, <2>4
    <3>2. PICK st \in 0..(n - 1) : st = First(second_pass)
      BY <3>1
    <3>3. u.slot = Hand(k, hand, st) /\ u.passed = Passed(k, hand, st)
      BY <2>4, <3>2
    <3>4. ~cs[u.slot].use
      BY <3>1, <3>2, <3>3
    <3>5. ASSUME NEW i \in 0..(st - 1) PROVE entry(i).use
      <4>1. i \in 0..(n - 1) /\ ~(st <= i)
        BY <1>0, <3>2
      <4>2. i \notin second_pass /\ i \notin first_pass
        BY <2>4, <3>1, <3>2, <4>1
      <4> QED
        BY <4>1, <4>2
    <3>6. \A i \in 0..(st - 1) : Hand(k, hand, i) \in u.passed
      BY <1>0, <1>3, <3>3
    <3> QED
      BY <3>3, <3>4, <3>5, <3>6
  <2>5. CASE first_pass = {} /\ second_pass = {} /\ clean # {} /\ u = found(clean, n)
    <3>1. First(clean) \in clean /\ u.slot = Hand(k, hand, First(clean))
      BY <1>1, <2>2, <2>5
    <3>2. ~cs[u.slot].modified
      BY <3>1
    <3> QED
      BY <3>2
  <2>6. CASE u = found(steps, n)
    <3>1. First(steps) \in steps /\ \A j \in steps : First(steps) <= j
      BY <1>1, <2>2
    <3>2. First(steps) = 0
      BY <1>0, <3>1
    <3>3. u.slot = Hand(k, hand, 0) /\ u.passed = Passed(k, hand, n)
      BY <2>6, <3>2
    <3>4. u.slot \in u.passed
      BY <1>0, <1>3, <3>3
    <3> QED
      BY <1>0, <3>3, <3>4
  <2> QED
    BY <2>1, <2>3, <2>4, <2>5, <2>6
<1> QED
  BY <1>4, <1>5

\* A refused miss: the victim is the page at address 0, it has no use bit afterwards,
\* and the entries the hand passed had one and have none now.
LEMMA RefusedVictim ==
    ASSUME NEW k \in Configs, k.cache_entries > 0, NEW t, Sound(k, t),
           NEW cs, Caching(k, cs), NEW hand \in Nat, hand < k.cache_entries, NEW m,
           NEW v, v = select_victim_entry(k, t, cs, hand, m), v.refused
    PROVE  /\ k.tlb_entries # 0 /\ v.slot \in 0..(k.cache_entries - 1)
           /\ AtZero(cs[v.slot]) /\ v.hand = Advance(k, v.slot)
           /\ DOMAIN v.cache = DOMAIN cs
           /\ \A s \in DOMAIN cs : AtZero(cs[s]) => AtZero(v.cache[s])
           /\ ~v.cache[v.slot].use
           /\ \E st \in 0..(k.cache_entries - 1) :
                /\ v.slot = Hand(k, hand, st)
                /\ \A i \in 0..(st - 1) : /\ cs[Hand(k, hand, i)].use
                                          /\ ~v.cache[Hand(k, hand, i)].use
<1> DEFINE u == IF k.cache_algo = "CLOCK" THEN cache_find_victim_clock(k, cs, hand)
                ELSE cache_find_victim_clock_m(k, cs, hand)
           e == cs[u.slot]
           to == mmu_translate_address(k, t, e.pid, e.page)
           ds == [s \in DOMAIN cs |-> IF s \in u.passed THEN [cs[s] EXCEPT !.use = FALSE] ELSE cs[s]]
<1>1. /\ v.slot = u.slot /\ v.hand = Advance(k, u.slot) /\ v.cache = ds
      /\ e.valid /\ e.modified /\ k.tlb_entries > 0 /\ Address(to.frame, 0) = 0
  BY DEF select_victim_entry
<1>2. u.slot \in 0..(k.cache_entries - 1)
  BY VictimSlot
<1>3. PICK st \in 0..(k.cache_entries - 1) :
        /\ u.slot = Hand(k, hand, st)
        /\ \A i \in 0..(st - 1) : cs[Hand(k, hand, i)].use /\ Hand(k, hand, i) \in u.passed
        /\ cs[u.slot].use => u.slot \in u.passed
  <2>1. u = cache_find_victim_clock(k, cs, hand) \/ u = cache_find_victim_clock_m(k, cs, hand)
    OBVIOUS
  <2> HIDE DEF u
  <2> QED
    BY <1>1, <2>1, SearchedVictim
<1> HIDE DEF u
<1>4. <<e.pid, e.page>> \in Owned /\ Frame[<<e.pid, e.page>>] \in Nat
  BY <1>1, <1>2, EntryFacts
<1>5. to.frame = Frame[<<e.pid, e.page>>]
  BY <1>4, Translation
<1> HIDE DEF to
<1>6. Frame[<<e.pid, e.page>>] = 0
  <2>1. PageSize \in Nat \ {0} /\ to.frame \in Nat
    BY <1>4, <1>5, MmuAssumption
  <2>2. to.frame * PageSize + 0 = 0
    BY <1>1 DEF Address
  <2>3. to.frame = 0
    BY <2>1, <2>2
  <2> QED
    BY <1>5, <2>3
<1>7. ASSUME NEW s \in DOMAIN cs
      PROVE  /\ ds[s].valid = cs[s].valid /\ ds[s].modified = cs[s].modified
             /\ ds[s].pid = cs[s].pid /\ ds[s].page = cs[s].page
             /\ ds[s].use = IF s \in u.passed THEN FALSE ELSE cs[s].use
  <2> DEFINE f == cs[s]
             h == [f EXCEPT !.use = FALSE]
  <2>1. f \in CacheEntry
    BY DEF Caching
  <2>2. ds[s] = IF s \in u.passed THEN h ELSE f
    OBVIOUS
  <2> HIDE DEF f, ds
  <2>3. /\ h.valid = f.valid /\ h.modified = f.modified /\ h.pid = f.pid /\ h.page = f.page
        /\ h.use = FALSE
    BY <2>1 DEF CacheEntry
  <2> HIDE DEF h
  <2> QED
    BY <2>2, <2>3 DEF f
<1>8. DOMAIN cs = 0..(k.cache_entries - 1) /\ DOMAIN ds = DOMAIN cs /\ k.tlb_entries \in Nat
  BY ConfigFacts DEF Caching
<1> HIDE DEF ds
<1>9. \A s \in DOMAIN cs : AtZero(cs[s]) => AtZero(ds[s])
  BY <1>7 DEF AtZero
<1>10. ~ds[u.slot].use
  BY <1>2, <1>3, <1>7, <1>8
<1>11. ASSUME NEW i \in 0..(st - 1) PROVE cs[Hand(k, hand, i)].use /\ ~ds[Hand(k, hand, i)].use
  <2>1. i \in Nat
    OBVIOUS
  <2>2. Hand(k, hand, i) \in DOMAIN cs
    BY <1>8, <2>1, HandFacts
  <2> QED
    BY <1>3, <1>7, <2>2
<1>12. AtZero(cs[u.slot])
  BY <1>1, <1>6 DEF AtZero
<1> QED
  BY <1>1, <1>2, <1>3, <1>8, <1>9, <1>10, <1>11, <1>12

\* A frame has one owner and a page one slot, so that one entry of a cache is that of
\* the page at address 0.
LEMMA ZeroOnce ==
    ASSUME NEW k \in Configs, NEW cs, Caching(k, cs), OnceIn(cs),
           NEW r \in DOMAIN cs, NEW s \in DOMAIN cs, AtZero(cs[r]), AtZero(cs[s])
    PROVE  r = s
<1>1. <<cs[r].pid, cs[r].page>> \in Owned /\ <<cs[s].pid, cs[s].page>> \in Owned
  BY DEF Caching, AtZero
<1>2. <<cs[r].pid, cs[r].page>> = <<cs[s].pid, cs[s].page>>
  BY <1>1, FramesAssumption DEF AtZero
<1> QED
  BY <1>2 DEF OnceIn, AtZero

\* A refusal when r came before it, all in one burst: there were at most two, and the
\* hand has turned once more.
LEMMA RefusedAgain ==
    ASSUME RoomToTurn, NEW k \in Configs, k.cache_entries > 0, NEW t, Sound(k, t),
           NEW cs, Caching(k, cs), OnceIn(cs), NEW hand \in Nat, hand < k.cache_entries, NEW m,
           NEW v, v = select_victim_entry(k, t, cs, hand, m), v.refused,
           NEW r \in Nat, r > 0 => Turned(k, cs, hand, r)
    PROVE  r + 1 <= 2 /\ Turned(k, v.cache, v.hand, r + 1)
<1> DEFINE n == k.cache_entries
           s == v.slot
<1>1. /\ k.tlb_entries # 0 /\ s \in 0..(n - 1)
      /\ AtZero(cs[s]) /\ v.hand = Advance(k, s)
      /\ DOMAIN v.cache = DOMAIN cs
      /\ \A i \in DOMAIN cs : AtZero(cs[i]) => AtZero(v.cache[i])
      /\ ~v.cache[s].use
  BY RefusedVictim
<1>2. PICK st \in 0..(n - 1) :
        /\ s = Hand(k, hand, st)
        /\ \A i \in 0..(st - 1) : /\ cs[Hand(k, hand, i)].use
                                  /\ ~v.cache[Hand(k, hand, i)].use
  BY RefusedVictim
<1>3. DOMAIN cs = 0..(n - 1) /\ n \in Nat /\ n # 1
  BY <1>1, ConfigFacts DEF Caching, RoomToTurn
<1> HIDE DEF s
<1>4. CASE r = 0
  BY <1>1, <1>3, <1>4 DEF Turned
<1>5. CASE r > 0
  <2>1. PICK z \in DOMAIN cs :
            /\ AtZero(cs[z]) /\ ~cs[z].use /\ hand = Advance(k, z)
            /\ r > 1 => \E j \in DOMAIN cs : j # z /\ ~cs[j].use
    BY <1>5 DEF Turned
  <2>2. z = s
    BY <1>1, <1>3, <2>1, ZeroOnce
  <2>3. /\ \A i \in 0..(n - 1) : Hand(k, hand, i) = s => i = n - 1
        /\ \A j \in 0..(n - 1) : j # s => \E i \in 0..(n - 2) : Hand(k, hand, i) = j
    BY <1>1, <2>1, <2>2, OneTurn
  <2>4. st = n - 1
    BY <1>2, <2>3
  <2>5. ASSUME NEW j \in 0..(n - 1), j # s PROVE cs[j].use /\ ~v.cache[j].use
    <3>1. PICK i \in 0..(n - 2) : Hand(k, hand, i) = j
      BY <2>3, <2>5
    <3>2. i \in 0..(st - 1)
      BY <1>3, <2>4
    <3> QED
      BY <1>2, <3>1, <3>2
  <2>6. r = 1
    BY <1>3, <1>5, <2>1, <2>2, <2>5
  <2>7. PICK j \in 0..(n - 1) : j # s
    <3>1. 0 \in 0..(n - 1) /\ 1 \in 0..(n - 1)
      BY <1>3
    <3> QED
      BY <3>1
  <2>8. Turned(k, v.cache, v.hand, r + 1)
    BY <1>1, <1>3, <2>5, <2>7 DEF Turned
  <2> QED
    BY <2>6, <2>8
<1> QED
  BY <1>4, <1>5

\* A step that completes an access or begins a burst starts counting again; one that
\* leaves process p of CPU c alone leaves its turn alone.
LEMMA TurnKept ==
    ASSUME Placed, Placed', Turning, BoundedRefusals, config' = config,
           NEW p \in Pids, refusals' = [refusals EXCEPT ![p] = 0],
           \A c \in Cpus : phase'[c] = "run" /\ pid'[c] # p =>
                /\ phase[c] = "run" /\ pid'[c] = pid[c]
                /\ cache'[c] = cache[c] /\ clock'[c] = clock[c]
    PROVE  Turning' /\ BoundedRefusals'
<1>1. refusals \in [Pids -> Nat]
  BY DEF Placed
<1>2. BoundedRefusals'
  BY <1>1 DEF BoundedRefusals
<1>3. ASSUME NEW c \in Cpus, phase'[c] = "run", refusals'[pid'[c]] > 0
      PROVE  Turned(config'[c], cache'[c], clock'[c], refusals'[pid'[c]])
  <2>0. pid'[c] \in Pids
    BY <1>3 DEF Placed
  <2>1. pid'[c] # p
    BY <1>1, <1>3, <2>0
  <2>2. refusals'[pid'[c]] = refusals[pid[c]]
    BY <1>1, <1>3, <2>0, <2>1
  <2> QED
    BY <1>3, <2>1, <2>2 DEF Turning
<1> QED
  BY <1>2, <1>3 DEF Turning

\* A refused miss of the process on c: one more, and the hand has turned.
LEMMA RefusedTurn ==
    ASSUME RoomToTurn, MmuInv, CachedOnce, TurnInv,
           NEW c \in Cpus, NEW a \in Accesses, MissRefused(c, a)
    PROVE  TurnInv'
<1> DEFINE v == select_victim_entry(config[c], tlb[c], cache[c], clock[c], mem)
           k == config[c]
           p == pid[c]
           r == refusals[p]
<1>1. /\ Executes(c, a) /\ k.cache_entries > 0 /\ v.refused /\ phase[c] = "run"
      /\ clock' = [clock EXCEPT ![c] = v.hand] /\ cache' = [cache EXCEPT ![c] = v.cache]
      /\ refusals' = [refusals EXCEPT ![p] = r + 1]
      /\ UNCHANGED <<config, pid, phase>>
  BY DEF MissRefused, Executes
<1>2. /\ p \in Pids /\ k \in Configs /\ r \in Nat /\ k.cache_entries \in Nat
      /\ Sound(k, tlb[c]) /\ Caching(k, cache[c]) /\ OnceIn(cache[c])
      /\ clock[c] \in Nat /\ clock[c] < k.cache_entries
  <2>1. clock[c] \in Nat /\ clock[c] < Greater(1, k.cache_entries)
    BY DEF MmuInv, Tabled
  <2>2. p \in Pids /\ k \in Configs /\ k.cache_entries \in Nat
    BY <1>1, ExecutedAccess
  <2>3. clock[c] < k.cache_entries
    BY <1>1, <2>1, <2>2 DEF Greater
  <2>4. r \in Nat /\ Sound(k, tlb[c]) /\ Caching(k, cache[c])
    BY <2>2 DEF MmuInv, Tabled, Placed
  <2>5. OnceIn(cache[c])
    BY DEF CachedOnce, OnceIn
  <2> QED
    BY <2>1, <2>2, <2>3, <2>4, <2>5
<1>3. r > 0 => Turned(k, cache[c], clock[c], r)
  BY <1>1 DEF TurnInv, Turning
<1>4. r + 1 <= 2 /\ Turned(k, v.cache, v.hand, r + 1)
  <2>1. PICK w : w = v
    OBVIOUS
  <2>2. /\ w = select_victim_entry(config[c], tlb[c], cache[c], clock[c], mem) /\ w.refused
        /\ w.cache = v.cache /\ w.hand = v.hand
    BY <1>1, <2>1
  <2> HIDE DEF v, r
  <2>3. r + 1 <= 2 /\ Turned(k, w.cache, w.hand, r + 1)
    BY <1>1, <1>2, <1>3, <2>2, RefusedAgain
  <2> QED
    BY <2>2, <2>3
<1> HIDE DEF v
<1>5. /\ cache'[c] = v.cache /\ clock'[c] = v.hand /\ refusals'[p] = r + 1
      /\ \A d \in Cpus : d # c => cache'[d] = cache[d] /\ clock'[d] = clock[d]
      /\ \A q \in Pids : q # p => refusals'[q] = refusals[q]
  BY <1>1, <1>2 DEF MmuInv, Tabled, Placed
<1>6. BoundedRefusals'
  BY <1>4, <1>5 DEF TurnInv, BoundedRefusals
<1>7. RunsOnce'
  BY <1>1 DEF TurnInv, RunsOnce
<1>8. ASSUME NEW d \in Cpus, phase'[d] = "run", refusals'[pid'[d]] > 0
      PROVE  Turned(config'[d], cache'[d], clock'[d], refusals'[pid'[d]])
  <2>1. phase[d] = "run" /\ pid'[d] = pid[d] /\ config'[d] = config[d] /\ pid[d] \in Pids
    BY <1>1, <1>8 DEF MmuInv, Placed
  <2>2. CASE d = c
    BY <1>4, <1>5, <2>1, <2>2
  <2>3. CASE d # c
    <3>1. pid[d] # p
      BY <1>1, <2>1, <2>3 DEF TurnInv, RunsOnce
    <3>2. refusals'[pid[d]] = refusals[pid[d]]
      BY <1>5, <2>1, <3>1
    <3> QED
      BY <1>5, <1>8, <2>1, <2>3, <3>2 DEF TurnInv, Turning
  <2> QED
    BY <2>2, <2>3
<1>9. Turning'
  BY <1>8 DEF Turning
<1> QED
  BY <1>6, <1>7, <1>9 DEF TurnInv

\* Every step keeps the turn of the hand: a refusal by the argument above, an access
\* that is completed and a dispatch since they start counting again, and the other
\* steps of a CPU since they end its burst.
LEMMA NextTurnInv ==
    ASSUME RoomToTurn, MmuInv, MmuInv', CachedOnce, TurnInv, [Next]_vars
    PROVE  TurnInv'
<1>0. Placed /\ Placed' /\ DOMAIN cache = Cpus /\ DOMAIN clock = Cpus
  BY DEF MmuInv, Tabled
<1>1. ASSUME NEW c \in Cpus, NEW a \in Accesses, MissRefused(c, a)
      PROVE  TurnInv'
  BY <1>1, RefusedTurn
<1>2. ASSUME NEW c \in Cpus, NEW a \in Accesses, Executes(c, a), Completed(c),
             \A d \in Cpus : d # c => cache'[d] = cache[d] /\ clock'[d] = clock[d]
      PROVE  TurnInv'
  <2>1. /\ refusals' = [refusals EXCEPT ![pid[c]] = 0] /\ UNCHANGED <<config, pid, phase>>
        /\ pid[c] \in Pids
    BY <1>2, ExecutedAccess DEF Completed
  <2>2. RunsOnce'
    BY <2>1 DEF TurnInv, RunsOnce
  <2>3. Turning' /\ BoundedRefusals'
    BY <1>0, <1>2, <2>1, TurnKept DEF TurnInv
  <2> QED
    BY <2>2, <2>3 DEF TurnInv
<1>3. ASSUME NEW c \in Cpus, NEW a \in Accesses, Hit(c, a) PROVE TurnInv'
  <2>1. Executes(c, a) /\ Completed(c) /\ clock' = clock
    BY <1>3 DEF Hit
  <2>2. \A d \in Cpus : d # c => cache'[d] = cache[d]
    BY <1>0, <1>3 DEF Hit
  <2> QED
    BY <1>2, <2>1, <2>2
<1>4. ASSUME NEW c \in Cpus, NEW a \in Accesses, Miss(c, a) PROVE TurnInv'
  <2>1. Executes(c, a) /\ Completed(c)
    BY <1>4 DEF Miss, CompletedFresh
  <2>2. \A d \in Cpus : d # c => cache'[d] = cache[d] /\ clock'[d] = clock[d]
    BY <1>0, <1>4 DEF Miss
  <2> QED
    BY <1>2, <2>1, <2>2
<1>5. ASSUME NEW c \in Cpus, NEW a \in Accesses, Uncached(c, a) PROVE TurnInv'
  <2>1. Executes(c, a) /\ Completed(c) /\ UNCHANGED <<cache, clock>>
    BY <1>5 DEF Uncached, CompletedFresh
  <2> QED
    BY <1>2, <2>1
<1>6. ASSUME NEW c \in Cpus, NEW p \in Pids, recv_dispatch(c, p) PROVE TurnInv'
  <2>1. /\ phase[c] = "idle" /\ \A d \in Cpus : pid[d] = p => phase[d] = "cleanup"
        /\ refusals' = [refusals EXCEPT ![p] = 0]
        /\ UNCHANGED <<config, cache, clock>>
    BY <1>6 DEF recv_dispatch
  <2>2. /\ pid'[c] = p /\ phase'[c] = "run"
        /\ \A d \in Cpus : d # c => pid'[d] = pid[d] /\ phase'[d] = phase[d]
    BY <1>0, <1>6 DEF recv_dispatch, Placed
  <2>3. RunsOnce'
    BY <2>1, <2>2 DEF TurnInv, RunsOnce
  <2>4. \A d \in Cpus : phase'[d] = "run" /\ pid'[d] # p =>
            /\ phase[d] = "run" /\ pid'[d] = pid[d]
            /\ cache'[d] = cache[d] /\ clock'[d] = clock[d]
    BY <2>1, <2>2
  <2>5. Turning' /\ BoundedRefusals'
    <3>1. Turning /\ BoundedRefusals /\ config' = config
      BY <2>1 DEF TurnInv
    <3> QED
      BY <1>0, <2>1, <2>4, <3>1, TurnKept
  <2> QED
    BY <2>3, <2>5 DEF TurnInv
<1>7. ASSUME NEW c \in Cpus, UNCHANGED <<config, refusals>>, phase'[c] # "run",
             \A d \in Cpus : d # c => /\ pid'[d] = pid[d] /\ phase'[d] = phase[d]
                                      /\ cache'[d] = cache[d] /\ clock'[d] = clock[d]
      PROVE  TurnInv'
  BY <1>7 DEF TurnInv, RunsOnce, Turning, BoundedRefusals
<1>8. ASSUME NEW c \in Cpus, Syscall(c) \/ check_interrupt(c) PROVE TurnInv'
  <2>1. UNCHANGED <<config, cache, clock, refusals>>
    BY <1>8 DEF Syscall, check_interrupt, history
  <2>2. /\ phase'[c] # "run" /\ \A d \in Cpus : d # c => pid'[d] = pid[d] /\ phase'[d] = phase[d]
    BY <1>0, <1>8 DEF Syscall, check_interrupt, Placed
  <2> QED
    BY <1>7, <2>1, <2>2
<1>9. ASSUME NEW c \in Cpus, mmu_process_cleanup(c) PROVE TurnInv'
  <2>1. UNCHANGED <<config, clock, refusals>>
    BY <1>9 DEF mmu_process_cleanup, history
  <2>2. /\ phase'[c] # "run"
        /\ \A d \in Cpus : d # c => pid'[d] = pid[d] /\ phase'[d] = phase[d] /\ cache'[d] = cache[d]
    BY <1>0, <1>9 DEF mmu_process_cleanup, Placed
  <2> QED
    BY <1>7, <2>1, <2>2
<1>10. CASE UNCHANGED vars
  BY <1>10 DEF vars, history, TurnInv, RunsOnce, Turning, BoundedRefusals
<1> QED
  BY <1>1, <1>3, <1>4, <1>5, <1>6, <1>8, <1>9, <1>10, ProgramAccesses DEF Next

\* An instruction is refused at most twice in a row in a burst, for both algorithms
\* and any size of the cache other than one entry beside a TLB: the third search
\* finds a victim that can be written back before the hand reaches the page at
\* address 0.
THEOREM RefusalsBounded == RoomToTurn /\ Spec => []BoundedRefusals
<1> SUFFICES ASSUME RoomToTurn PROVE Spec => []BoundedRefusals
  OBVIOUS
<1>1. Init => TurnInv
  <2> SUFFICES ASSUME Init PROVE TurnInv
    OBVIOUS
  <2>1. phase = [c \in Cpus |-> "idle"] /\ refusals = [p \in Pids |-> 0]
    BY DEF Init
  <2> QED
    BY <2>1 DEF TurnInv, RunsOnce, Turning, BoundedRefusals
<1>2. MmuInv /\ MmuInv' /\ CachedOnce /\ TurnInv /\ [Next]_vars => TurnInv'
  BY NextTurnInv
<1>3. TurnInv => BoundedRefusals
  BY DEF TurnInv
<1>4. Spec => []MmuInv
  BY MmuInvariant
<1> QED
  BY <1>1, <1>2, <1>3, <1>4, PageCachedOnce, PTL DEF Spec

-----------------------------------------------------------------------------
(* No WRITE is lost *)

\* That needs one CPU: with two, TLC refutes NoWriteLost, as a process may go on
\* elsewhere before its pages are written back.  The programs may be any.
OneCpuOnly == \E c : Cpus = {c}

\* Entry e has byte o of page k for memory.
Dirty(e, k, o) ==
    e.valid /\ e.modified /\ <<e.pid, e.page>> = k /\ o \in e.from..(e.to - 1)

\* The bytes of history h are in slots D of a cache, as far as these are dirty, and
\* in memory m otherwise, unless they are in doubt.
Kept(cs, D, m, h) ==
    \A k \in Owned, o \in Offsets : h[k][o] # Doubtful =>
        /\ (\A s \in D : ~Dirty(cs[s], k, o)) => m[Address(Frame[k], o)] = h[k][o]
        /\ \A s \in D : Dirty(cs[s], k, o) => cs[s].content[o] = h[k][o]

\* The inductive invariant for written bytes.
KeptInv == \A c \in Cpus : Kept(cache[c], DOMAIN cache[c], mem, wrote)

\* Entries that differ at most in the use bit.
SameEntry(e, f) ==
    /\ e.valid = f.valid /\ e.modified = f.modified /\ e.pid = f.pid /\ e.page = f.page
    /\ e.from = f.from /\ e.to = f.to /\ e.content = f.content

\* Bytes of different frames have different addresses.
LEMMA AddressFacts ==
    ASSUME NEW f \in 0..(FrameCount - 1), NEW g \in 0..(FrameCount - 1),
           NEW o \in Offsets, NEW q \in Offsets
    PROVE  /\ Address(f, o) \in Addresses
           /\ Address(f, o) = Address(g, q) => f = g /\ o = q
<1>0. PageSize \in Nat \ {0} /\ FrameCount \in Nat /\ f \in Nat /\ g \in Nat
      /\ o \in 0..(PageSize - 1) /\ q \in 0..(PageSize - 1)
  BY MmuAssumption DEF Offsets
<1>1. ASSUME NEW x \in Nat, NEW y \in Nat, x < y PROVE x * PageSize + PageSize <= y * PageSize
  <2>1. PICK d \in Nat : y = x + 1 + d
    <3>1. y - x - 1 \in Nat /\ y = x + 1 + (y - x - 1)
      BY <1>1
    <3> QED
      BY <3>1
  <2>2. y * PageSize = x * PageSize + PageSize + d * PageSize
    BY <1>0, <2>1
  <2>3. d * PageSize \in Nat /\ x * PageSize \in Nat
    BY <1>0
  <2> QED
    BY <1>0, <2>2, <2>3
<1>2. f * PageSize \in Nat /\ g * PageSize \in Nat /\ FrameCount * PageSize \in Nat
  BY <1>0
<1>3. Address(f, o) \in Addresses
  <2>1. f * PageSize + PageSize <= FrameCount * PageSize
    BY <1>0, <1>1
  <2> QED
    BY <1>0, <1>2, <2>1 DEF Address, Addresses
<1>4. ASSUME Address(f, o) = Address(g, q) PROVE f = g /\ o = q
  <2>1. f * PageSize + o = g * PageSize + q
    BY <1>4 DEF Address
  <2>2. ~(f < g)
    <3>1. f < g => f * PageSize + PageSize <= g * PageSize
      BY <1>0, <1>1
    <3> QED
      BY <1>0, <1>2, <2>1, <3>1
  <2>3. ~(g < f)
    <3>1. g < f => g * PageSize + PageSize <= f * PageSize
      BY <1>0, <1>1
    <3> QED
      BY <1>0, <1>2, <2>1, <3>1
  <2>4. f = g
    BY <1>0, <2>2, <2>3
  <2> QED
    BY <1>0, <1>2, <2>1, <2>4
<1> QED
  BY <1>3, <1>4

\* Memory n is memory m but for bytes a..b - 1 of page l.
Stored(n, m, l, a, b, content) ==
    \A k \in Owned, o \in Offsets :
        n[Address(Frame[k], o)] =
            IF k = l /\ o \in a..(b - 1) THEN content[o] ELSE m[Address(Frame[k], o)]

\* Bytes stored for page l are at the addresses of that page and nowhere else.
LEMMA StoredAt ==
    ASSUME NEW m, NEW l \in Owned, NEW a \in Nat, NEW b \in 0..PageSize, NEW content
    PROVE  Stored(WriteToMemory(m, Frame[l], a, b, content), m, l, a, b, content)
<1> SUFFICES ASSUME NEW k \in Owned, NEW o \in Offsets
             PROVE  WriteToMemory(m, Frame[l], a, b, content)[Address(Frame[k], o)]
                      = IF k = l /\ o \in a..(b - 1) THEN content[o]
                        ELSE m[Address(Frame[k], o)]
  BY DEF Stored
<1> DEFINE f == Frame[l]
           g == Frame[k]
           x == Address(g, o)
<1>1. f \in 0..(FrameCount - 1) /\ g \in 0..(FrameCount - 1)
  <2>1. l = <<l[1], l[2]>> /\ k = <<k[1], k[2]>>
    BY DEF Owned
  <2> QED
    BY <2>1, OwnedFacts
<1>2. x \in Addresses
  BY <1>1, AddressFacts
<1>3. PageSize \in Nat \ {0} /\ f \in Nat /\ f * PageSize \in Nat /\ o \in 0..(PageSize - 1)
  BY <1>1, MmuAssumption DEF Offsets
<1>4. WriteToMemory(m, f, a, b, content)[x]
        = IF x \in Address(f, a)..(Address(f, b) - 1) THEN content[x - Address(f, 0)] ELSE m[x]
  BY <1>2 DEF WriteToMemory
<1>5. CASE k = l /\ o \in a..(b - 1)
  <2>1. x = f * PageSize + o
    BY <1>5 DEF Address
  <2> HIDE DEF x, f
  <2>2. x \in Address(f, a)..(Address(f, b) - 1) /\ x - Address(f, 0) = o
    BY <1>3, <1>5, <2>1 DEF Address
  <2> QED
    BY <1>4, <1>5, <2>2 DEF x, f
<1>6. CASE ~(k = l /\ o \in a..(b - 1))
  <2>1. ASSUME x \in Address(f, a)..(Address(f, b) - 1) PROVE FALSE
    <3> DEFINE q == x - f * PageSize
    <3> HIDE DEF x, f
    <3>1. x \in Int /\ f * PageSize + a <= x /\ x < f * PageSize + b
      BY <1>3, <2>1 DEF Address
    <3>2. q \in Offsets /\ q \in a..(b - 1) /\ x = Address(f, q)
      BY <1>3, <3>1 DEF Offsets, Address
    <3> HIDE DEF q
    <3>3. g = f /\ o = q
      BY <1>1, <3>2, AddressFacts DEF x
    <3>4. k = l
      BY <3>3, FramesAssumption DEF f
    <3> QED
      BY <1>6, <3>2, <3>3, <3>4
  <2> QED
    BY <1>4, <1>6, <2>1
<1> QED
  BY <1>5, <1>6

\* Memory n is memory m with the region of entry e, if it is modified.
Saved(n, m, e) ==
    n = IF e.valid /\ e.modified /\ e.from < e.to
        THEN WriteToMemory(m, Frame[<<e.pid, e.page>>], e.from, e.to, e.content) ELSE m

\* The write-back of entry s: its bytes are in memory now.
LEMMA Flushed ==
    ASSUME NEW k \in Configs, NEW cs, Caching(k, cs), NEW D, NEW m, NEW h, Kept(cs, D, m, h),
           NEW s \in 0..(k.cache_entries - 1), s \in D, NEW n, Saved(n, m, cs[s])
    PROVE  Kept(cs, D \ {s}, n, h)
<1> DEFINE e == cs[s]
           l == <<e.pid, e.page>>
<1>1. /\ e.valid => l \in Owned
      /\ e.from \in Nat /\ e.to \in 0..PageSize /\ PageSize \in Nat
  BY EntryFacts, MmuAssumption
<1> DEFINE mem1 == WriteToMemory(m, Frame[l], e.from, e.to, e.content)
<1>2. n = IF e.valid /\ e.modified /\ e.from < e.to THEN mem1 ELSE m
  BY DEF Saved
<1>3. e.valid => Stored(mem1, m, l, e.from, e.to, e.content)
  <2> HIDE DEF e, l
  <2> QED
    BY <1>1, StoredAt
<1> HIDE DEF mem1
<1>4. ASSUME NEW j \in Owned, NEW o \in Offsets, h[j][o] # Doubtful,
             \A r \in D \ {s} : ~Dirty(cs[r], j, o)
      PROVE  n[Address(Frame[j], o)] = h[j][o]
  <2>1. CASE Dirty(e, j, o)
    <3>1. e.valid /\ e.modified /\ j = l /\ o \in e.from..(e.to - 1) /\ e.content[o] = h[j][o]
      BY <1>4, <2>1 DEF Dirty, Kept
    <3>2. e.from < e.to
      BY <1>1, <3>1
    <3> HIDE DEF e, l
    <3>3. mem1[Address(Frame[j], o)] = e.content[o]
      BY <1>3, <3>1 DEF Stored
    <3> QED
      BY <1>2, <3>1, <3>2, <3>3
  <2>2. CASE ~Dirty(e, j, o)
    <3>1. m[Address(Frame[j], o)] = h[j][o]
      BY <1>4, <2>2 DEF Kept
    <3>2. ASSUME e.valid, e.modified, e.from < e.to
          PROVE  mem1[Address(Frame[j], o)] = m[Address(Frame[j], o)]
      <4>1. ~(j = l /\ o \in e.from..(e.to - 1))
        BY <2>2, <3>2 DEF Dirty
      <4> HIDE DEF e, l
      <4> QED
        BY <1>3, <3>2, <4>1 DEF Stored
    <3> HIDE DEF e, l
    <3> QED
      BY <1>2, <3>1, <3>2
  <2> QED
    BY <2>1, <2>2
<1>5. \A j \in Owned, o \in Offsets : h[j][o] # Doubtful => \A r \in D \ {s} :
        Dirty(cs[r], j, o) => cs[r].content[o] = h[j][o]
  BY DEF Kept
<1> QED
  BY <1>4, <1>5 DEF Kept

\* Use bits do not matter.
LEMMA KeptSame ==
    ASSUME NEW cs, NEW ds, NEW D, NEW m, NEW h, Kept(cs, D, m, h),
           \A s \in D : SameEntry(ds[s], cs[s])
    PROVE  Kept(ds, D, m, h)
<1>1. \A s \in D : \A k, o : Dirty(ds[s], k, o) = Dirty(cs[s], k, o)
  BY DEF SameEntry, Dirty
<1>2. \A s \in D : ds[s].content = cs[s].content
  BY DEF SameEntry
<1> SUFFICES ASSUME NEW k \in Owned, NEW o \in Offsets, h[k][o] # Doubtful
             PROVE  /\ (\A s \in D : ~Dirty(ds[s], k, o)) => m[Address(Frame[k], o)] = h[k][o]
                    /\ \A s \in D : Dirty(ds[s], k, o) => ds[s].content[o] = h[k][o]
  BY DEF Kept
<1>3. /\ (\A s \in D : ~Dirty(cs[s], k, o)) => m[Address(Frame[k], o)] = h[k][o]
      /\ \A s \in D : Dirty(cs[s], k, o) => cs[s].content[o] = h[k][o]
  BY DEF Kept
<1>4. \A s \in D : Dirty(ds[s], k, o) = Dirty(cs[s], k, o)
  BY <1>1
<1> QED
  BY <1>2, <1>3, <1>4

\* Nothing is promised of bytes that come into doubt.
LEMMA KeptDoubt ==
    ASSUME NEW cs, NEW D, NEW m, NEW h \in Histories, Kept(cs, D, m, h), NEW k \in Owned, NEW R
    PROVE  Kept(cs, D, m, Rewritten(h, k, R, Doubtful))
<1> DEFINE g == Rewritten(h, k, R, Doubtful)
<1>1. \A j \in Owned, o \in Offsets : g[j][o] = IF j = k /\ o \in R THEN Doubtful ELSE h[j][o]
  BY RewrittenFacts
<1> HIDE DEF g
<1>2. Kept(cs, D, m, g)
  BY <1>1 DEF Kept
<1> QED
  BY <1>2 DEF g

\* Cache cs is ds but for slot i, which has page k with bytes R new, unless b is
\* doubt, and the others what they were, unless they are in doubt in h; no other
\* slot has the page.
WrittenIn(cs, ds, D, i, k, R, b, h) ==
    /\ \A s \in D \ {i} : cs[s] = ds[s] /\ ~(ds[s].valid /\ <<ds[s].pid, ds[s].page>> = k)
    /\ i \in D => <<ds[i].pid, ds[i].page>> = k
    /\ cs[i].valid /\ cs[i].modified /\ <<cs[i].pid, cs[i].page>> = k
    /\ \A o \in Offsets :
        IF o \in R THEN b # Doubtful => o \in cs[i].from..(cs[i].to - 1) /\ cs[i].content[o] = b
        ELSE h[k][o] # Doubtful =>
             /\ o \in cs[i].from..(cs[i].to - 1) <=> i \in D /\ Dirty(ds[i], k, o)
             /\ i \in D /\ Dirty(ds[i], k, o) => cs[i].content[o] = ds[i].content[o]

\* A WRITE puts its bytes into entry i of page k.
LEMMA KeptWrite ==
    ASSUME NEW ds, NEW D, NEW m, NEW h \in Histories, Kept(ds, D, m, h),
           NEW k \in Owned, NEW i, NEW R, NEW b \in Values \cup {Doubtful},
           NEW cs, WrittenIn(cs, ds, D, i, k, R, b, h)
    PROVE  Kept(cs, D \cup {i}, m, Rewritten(h, k, R, b))
<1> DEFINE g == Rewritten(h, k, R, b)
<1>0. \A j \in Owned, o \in Offsets : g[j][o] = IF j = k /\ o \in R THEN b ELSE h[j][o]
  BY RewrittenFacts
<1> HIDE DEF g
<1> SUFFICES ASSUME NEW j \in Owned, NEW o \in Offsets, g[j][o] # Doubtful
             PROVE  /\ (\A s \in D \cup {i} : ~Dirty(cs[s], j, o)) =>
                            m[Address(Frame[j], o)] = g[j][o]
                    /\ \A s \in D \cup {i} : Dirty(cs[s], j, o) => cs[s].content[o] = g[j][o]
  BY DEF Kept, g
<1>1. h[j][o] # Doubtful =>
        /\ (\A s \in D : ~Dirty(ds[s], j, o)) => m[Address(Frame[j], o)] = h[j][o]
        /\ \A s \in D : Dirty(ds[s], j, o) => ds[s].content[o] = h[j][o]
  BY DEF Kept
<1>2. CASE j # k
  <2>1. g[j][o] = h[j][o]
    BY <1>0, <1>2
  <2>2. ~Dirty(cs[i], j, o) /\ (i \in D => ~Dirty(ds[i], j, o))
    BY <1>2 DEF Dirty, WrittenIn
  <2>3. \A s \in D : s # i => cs[s] = ds[s]
    BY DEF WrittenIn
  <2>4. ASSUME \A s \in D \cup {i} : ~Dirty(cs[s], j, o)
        PROVE  m[Address(Frame[j], o)] = g[j][o]
    <3>1. \A s \in D : ~Dirty(ds[s], j, o)
      BY <2>2, <2>3, <2>4
    <3> QED
      BY <1>1, <2>1, <3>1
  <2>5. ASSUME NEW s \in D \cup {i}, Dirty(cs[s], j, o)
        PROVE  cs[s].content[o] = g[j][o]
    <3>1. s # i /\ s \in D /\ cs[s] = ds[s]
      BY <2>2, <2>3, <2>5
    <3> QED
      BY <1>1, <2>1, <2>5, <3>1
  <2> QED
    BY <2>4, <2>5
<1>3. CASE j = k
  <2>1. g[k][o] = IF o \in R THEN b ELSE h[k][o]
    BY <1>0
  <2>2. \A s \in D \ {i} : ~Dirty(ds[s], k, o) /\ ~Dirty(cs[s], k, o)
    BY DEF Dirty, WrittenIn
  <2>3. Dirty(cs[i], k, o) <=> o \in cs[i].from..(cs[i].to - 1)
    BY DEF Dirty, WrittenIn
  <2>4. CASE o \in R
    <3>1. Dirty(cs[i], k, o) /\ cs[i].content[o] = b
      BY <1>3, <2>1, <2>3, <2>4 DEF WrittenIn
    <3> QED
      BY <1>3, <2>1, <2>2, <2>4, <3>1
  <2>5. CASE o \notin R
    <3>0. h[k][o] # Doubtful
      BY <1>3, <2>1, <2>5
    <3>1. /\ Dirty(cs[i], k, o) <=> i \in D /\ Dirty(ds[i], k, o)
          /\ i \in D /\ Dirty(ds[i], k, o) => cs[i].content[o] = ds[i].content[o]
      BY <2>3, <2>5, <3>0 DEF WrittenIn
    <3>2. (\A s \in D \cup {i} : ~Dirty(cs[s], k, o)) => \A s \in D : ~Dirty(ds[s], k, o)
      BY <2>2, <3>1
    <3>3. \A s \in D \cup {i} : Dirty(cs[s], k, o) => cs[s].content[o] = h[k][o]
      BY <1>1, <1>3, <2>2, <3>0, <3>1
    <3> QED
      BY <1>1, <1>3, <2>1, <2>5, <3>0, <3>2, <3>3
  <2> QED
    BY <2>4, <2>5
<1> QED
  BY <1>2, <1>3

\* The victim of a miss: the entries keep all but their use bits, and the modified
\* one among them is in memory if the miss is not refused.
LEMMA VictimEntries ==
    ASSUME NEW k \in Configs, k.cache_entries > 0, NEW t, Sound(k, t),
           NEW cs, Caching(k, cs), NEW hand \in Nat, NEW m,
           NEW v, v = select_victim_entry(k, t, cs, hand, m)
    PROVE  /\ DOMAIN v.cache = DOMAIN cs /\ v.slot \in DOMAIN cs
           /\ \A s \in DOMAIN cs : SameEntry(v.cache[s], cs[s])
           /\ ~v.refused => Saved(v.mem, m, cs[v.slot])
<1> DEFINE u == IF k.cache_algo = "CLOCK" THEN cache_find_victim_clock(k, cs, hand)
                ELSE cache_find_victim_clock_m(k, cs, hand)
           e == cs[u.slot]
           dirty == e.valid /\ e.modified
           to == mmu_translate_address(k, t, e.pid, e.page)
           refused == dirty /\ k.tlb_entries > 0 /\ Address(to.frame, 0) = 0
           ds == [s \in DOMAIN cs |-> IF s \in u.passed THEN [cs[s] EXCEPT !.use = FALSE] ELSE cs[s]]
<1>1. /\ v.slot = u.slot /\ v.cache = ds /\ v.refused = refused
      /\ v.mem = (IF dirty /\ ~refused /\ e.from < e.to
                  THEN WriteToMemory(m, to.frame, e.from, e.to, e.content) ELSE m)
  BY DEF select_victim_entry
<1>2. u.slot \in 0..(k.cache_entries - 1)
  BY VictimSlot
<1> HIDE DEF u
<1>3. DOMAIN cs = 0..(k.cache_entries - 1) /\ DOMAIN ds = DOMAIN cs
  BY DEF Caching
<1>4. ASSUME NEW s \in DOMAIN cs PROVE SameEntry(ds[s], cs[s])
  <2> DEFINE f == cs[s]
             h == [f EXCEPT !.use = FALSE]
  <2>1. f \in CacheEntry
    BY DEF Caching
  <2>2. ds[s] = IF s \in u.passed THEN h ELSE f
    OBVIOUS
  <2> HIDE DEF f, ds
  <2>3. /\ h.valid = f.valid /\ h.modified = f.modified /\ h.pid = f.pid /\ h.page = f.page
        /\ h.from = f.from /\ h.to = f.to /\ h.content = f.content
    BY <2>1 DEF CacheEntry
  <2> HIDE DEF h
  <2> QED
    BY <2>2, <2>3 DEF SameEntry, f
<1> HIDE DEF ds
<1>5. e.valid => <<e.pid, e.page>> \in Owned
  BY <1>2, EntryFacts
<1> HIDE DEF e
<1>6. dirty => to.frame = Frame[<<e.pid, e.page>>]
  BY <1>5, Translation
<1> HIDE DEF to, refused
<1>7. ~v.refused => Saved(v.mem, m, e)
  BY <1>1, <1>6 DEF Saved
<1>8. e = cs[v.slot]
  BY <1>1 DEF e
<1> QED
  BY <1>1, <1>2, <1>3, <1>4, <1>7, <1>8

\* The other entries and memory have what the history says, once the victim is
\* written back.
LEMMA VictimKept ==
    ASSUME NEW k \in Configs, k.cache_entries > 0, NEW t, Sound(k, t),
           NEW cs, Caching(k, cs), NEW hand \in Nat, NEW m, NEW h, Kept(cs, DOMAIN cs, m, h),
           NEW v, v = select_victim_entry(k, t, cs, hand, m), ~v.refused
    PROVE  Kept(v.cache, DOMAIN cs \ {v.slot}, v.mem, h)
<1> DEFINE D == DOMAIN cs
           s == v.slot
<1>1. /\ s \in D /\ \A i \in D : SameEntry(v.cache[i], cs[i])
      /\ Saved(v.mem, m, cs[s])
  BY VictimEntries
<1>2. D = 0..(k.cache_entries - 1)
  BY DEF Caching
<1> HIDE DEF s, D
<1>3. Kept(cs, D \ {s}, v.mem, h)
  <2>1. Kept(cs, D, m, h)
    BY DEF D
  <2> QED
    BY <1>1, <1>2, <2>1, Flushed
<1>4. Kept(v.cache, D \ {s}, v.mem, h)
  BY <1>1, <1>3, KeptSame
<1> QED
  BY <1>4 DEF s, D

\* Entry f is entry e after WRITE a.
Written(f, e, a) ==
    /\ f.valid = e.valid /\ f.pid = e.pid /\ f.page = e.page /\ f.modified = TRUE
    /\ e.modified => /\ f.from = Lesser(e.from, a.offset)
                     /\ f.to = Greater(e.to, a.offset + a.size)
    /\ ~e.modified => f.from = a.offset /\ f.to = a.offset + a.size
    /\ \A o \in Offsets :
        /\ o \in a.offset..(a.offset + a.size - 1) => f.content[o] = a.byte
        /\ o \notin a.offset..(a.offset + a.size - 1) => f.content[o] = e.content[o]

\* What a WRITE does to an entry.
LEMMA WriteEntryFields ==
    ASSUME NEW e \in CacheEntry, NEW a \in Writes
    PROVE  Written(WriteEntry(e, a), e, a)
<1> DEFINE end == a.offset + a.size
           from == IF e.modified THEN Lesser(e.from, a.offset) ELSE a.offset
           to == IF e.modified THEN Greater(e.to, end) ELSE end
           content == [o \in Offsets |-> IF o \in a.offset..(end - 1) THEN a.byte ELSE e.content[o]]
           f == WriteEntry(e, a)
<1>1. f = [e EXCEPT !.use = TRUE, !.modified = TRUE, !.from = from,
                    !.to = to, !.content = content]
  BY DEF WriteEntry
<1>2. \A o \in Offsets :
        /\ o \in a.offset..(a.offset + a.size - 1) => content[o] = a.byte
        /\ o \notin a.offset..(a.offset + a.size - 1) => content[o] = e.content[o]
  <2>1. a.offset \in Nat /\ a.size \in Nat
    BY MmuAssumption DEF Writes, Offsets
  <2> QED
    BY <2>1
<1>3. /\ e.modified => from = Lesser(e.from, a.offset) /\ to = Greater(e.to, a.offset + a.size)
      /\ ~e.modified => from = a.offset /\ to = a.offset + a.size
  OBVIOUS
<1> HIDE DEF from, to, content, f
<1>4. /\ f.valid = e.valid /\ f.pid = e.pid /\ f.page = e.page /\ f.modified = TRUE
      /\ f.from = from /\ f.to = to /\ f.content = content
  BY <1>1 DEF CacheEntry
<1>5. Written(f, e, a)
  BY <1>2, <1>3, <1>4 DEF Written
<1> QED
  BY <1>5 DEF f

\* The region of an entry grows by the bytes of a WRITE and by the gap.
LEMMA RegionGrows ==
    ASSUME NEW e \in CacheEntry, e.valid, NEW a \in Writes, NEW f, f = WriteEntry(e, a),
           NEW k, k = <<e.pid, e.page>>
    PROVE  \A o \in Offsets :
                IF o \in Extent(a)
                THEN o \in f.from..(f.to - 1) /\ f.content[o] = a.byte
                ELSE /\ o \notin Gap(e, a) => (o \in f.from..(f.to - 1) <=> Dirty(e, k, o))
                     /\ f.content[o] = e.content[o]
<1>1. Written(f, e, a)
  BY WriteEntryFields
<1>2. a.offset \in Nat /\ a.size \in Nat /\ PageSize \in Nat /\ Offsets \subseteq Nat
  BY MmuAssumption DEF Writes, Offsets
<1>3. e.from \in Nat /\ e.to \in Nat /\ e.modified \in BOOLEAN
  BY <1>2 DEF CacheEntry
<1>4. ASSUME NEW o \in Offsets, o \in Extent(a)
      PROVE  o \in f.from..(f.to - 1)
  BY <1>1, <1>2, <1>3, <1>4 DEF Written, Lesser, Greater, Extent
<1>5. ASSUME NEW o \in Offsets, o \notin Extent(a), o \notin Gap(e, a)
      PROVE  o \in f.from..(f.to - 1) <=> Dirty(e, k, o)
  <2>1. Dirty(e, k, o) <=> e.modified /\ o \in e.from..(e.to - 1)
    BY DEF Dirty
  <2>2. o \in Nat
    BY <1>2
  <2>3. CASE e.modified
    <3>1. /\ f.from = Lesser(e.from, a.offset) /\ f.to = Greater(e.to, a.offset + a.size)
          /\ o \notin e.to..(a.offset - 1) /\ o \notin (a.offset + a.size)..(e.from - 1)
      BY <1>1, <1>5, <2>3 DEF Written, Gap
    <3>2. o \in f.from..(f.to - 1) <=> o \in e.from..(e.to - 1)
      BY <1>2, <1>3, <1>5, <2>2, <3>1 DEF Lesser, Greater, Extent
    <3> QED
      BY <2>1, <2>3, <3>2
  <2>4. CASE ~e.modified
    <3>1. f.from = a.offset /\ f.to = a.offset + a.size
      BY <1>1, <2>4 DEF Written
    <3> QED
      BY <1>2, <1>5, <2>1, <2>4, <3>1 DEF Extent
  <2> QED
    BY <2>3, <2>4
<1> QED
  BY <1>1, <1>4, <1>5 DEF Written, Extent

\* A WRITE in an entry of the process itself extends its region; in one of another
\* process it puts its bytes in doubt.
LEMMA HitKept ==
    ASSUME MmuInv, CachedOnce, KeptInv, NEW c \in Cpus, NEW a \in Accesses, Hit(c, a)
    PROVE  Kept(cache'[c], DOMAIN cache'[c], mem', wrote')
<1> DEFINE S == cache_find_entry(cache[c], a.page)
           i == First(S)
           p == pid[c]
           ds == cache[c]
           D == DOMAIN cache[c]
           e == ds[i]
           f == IF a.kind = "READ" THEN [e EXCEPT !.use = TRUE] ELSE WriteEntry(e, a)
           cs == [ds EXCEPT ![i] = f]
           k == <<e.pid, a.page>>
<1>1. /\ Executes(c, a) /\ S # {} /\ mem' = mem /\ cache'[c] = cs
      /\ wrote' = IF a.kind = "READ" THEN wrote ELSE Noted(wrote, p, e, a)
  BY DEF Hit, MmuInv, Tabled
<1>2. /\ Caching(config[c], ds) /\ config[c] \in Configs /\ config[c].cache_entries \in Nat
      /\ p \in Pids /\ <<p, a.page>> \in Owned /\ wrote \in Histories
      /\ a.kind # "READ" => a \in Writes
  BY <1>1, ExecutedAccess DEF MmuInv, Placed, Tabled
<1>3. Kept(ds, D, mem, wrote)
  BY DEF KeptInv
<1>4. i \in D /\ e.valid /\ e.page = a.page
  <2>1. S \subseteq 0..(config[c].cache_entries - 1)
    BY <1>2 DEF cache_find_entry, Caching
  <2>2. S \in SUBSET Nat
    BY <1>2, <2>1
  <2>3. i \in S
    BY <1>1, <2>2, FirstFacts
  <2> HIDE DEF i
  <2> QED
    BY <2>3 DEF cache_find_entry
<1> HIDE DEF i, S
<1>5. e \in CacheEntry /\ k \in Owned
  BY <1>2, <1>4 DEF Caching
<1>6. \A s \in D : s # i => ~(ds[s].valid /\ <<ds[s].pid, ds[s].page>> = k)
  BY <1>4 DEF CachedOnce
<1>7. DOMAIN cs = D /\ cs[i] = f /\ \A s \in D : s # i => cs[s] = ds[s]
  BY <1>4
<1> HIDE DEF e, cs, ds, D
<1>8. CASE a.kind = "READ"
  <2>1. f = [e EXCEPT !.use = TRUE]
    BY <1>8
  <2> HIDE DEF f
  <2>2. SameEntry(f, e)
    BY <1>5, <2>1 DEF CacheEntry, SameEntry
  <2>3. \A s \in D : SameEntry(cs[s], ds[s])
    BY <1>7, <2>2 DEF SameEntry, e
  <2>4. Kept(cs, D, mem, wrote)
    BY <1>3, <2>3, KeptSame
  <2> QED
    BY <1>1, <1>7, <1>8, <2>4
<1>9. CASE a.kind # "READ"
  <2> DEFINE R == Extent(a)
             b == IF e.pid = p THEN a.byte ELSE Doubtful
             g == Rewritten(wrote, k, Gap(e, a), Doubtful)
             n == Rewritten(g, k, R, b)
  <2>1. f = WriteEntry(e, a) /\ a \in Writes
    BY <1>2, <1>9
  <2>2. b \in Values \cup {Doubtful} /\ (b = Doubtful \/ (b = a.byte /\ e.pid = p))
    BY <2>1 DEF Writes, Values
  <2>3. wrote' = Rewritten(n, <<p, a.page>>, R, b)
    BY <1>1, <1>9 DEF Noted
  <2> HIDE DEF f, R, b
  <2>4. \A o \in Offsets :
            IF o \in R THEN o \in f.from..(f.to - 1) /\ f.content[o] = a.byte
            ELSE /\ o \notin Gap(e, a) => (o \in f.from..(f.to - 1) <=> Dirty(e, k, o))
                 /\ f.content[o] = e.content[o]
    BY <1>4, <1>5, <2>1, RegionGrows DEF R
  <2>5. f.valid /\ f.modified /\ <<f.pid, f.page>> = k
    BY <1>4, <1>5, <2>1, WriteEntryFields DEF Written
  <2>6. ds[i] = e /\ cs[i] = f /\ <<e.pid, e.page>> = k
    BY <1>4, <1>7 DEF e
  <2> HIDE DEF k
  <2>7. /\ g \in Histories /\ Kept(ds, D, mem, g)
        /\ \A o \in Offsets : o \in Gap(e, a) => g[k][o] = Doubtful
    <3>1. g \in Histories
      BY <1>2, <1>5, RewrittenFacts
    <3>2. Kept(ds, D, mem, g)
      BY <1>2, <1>3, <1>5, KeptDoubt
    <3>3. \A o \in Offsets : o \in Gap(e, a) => g[k][o] = Doubtful
      BY <1>2, <1>5, RewrittenFacts
    <3> QED
      BY <3>1, <3>2, <3>3
  <2> HIDE DEF g
  <2>8. WrittenIn(cs, ds, D, i, k, R, b, g)
    <3>1. \A s \in D \ {i} : cs[s] = ds[s] /\ ~(ds[s].valid /\ <<ds[s].pid, ds[s].page>> = k)
      BY <1>6, <1>7
    <3>2. /\ <<ds[i].pid, ds[i].page>> = k /\ <<cs[i].pid, cs[i].page>> = k
          /\ cs[i].valid /\ cs[i].modified
      BY <2>5, <2>6
    <3>3. ASSUME NEW o \in Offsets
          PROVE  IF o \in R
                 THEN b # Doubtful => o \in cs[i].from..(cs[i].to - 1) /\ cs[i].content[o] = b
                 ELSE g[k][o] # Doubtful =>
                    /\ o \in cs[i].from..(cs[i].to - 1) <=> i \in D /\ Dirty(ds[i], k, o)
                    /\ i \in D /\ Dirty(ds[i], k, o) => cs[i].content[o] = ds[i].content[o]
      BY <1>4, <2>2, <2>4, <2>6, <2>7
    <3> QED
      BY <3>1, <3>2, <3>3 DEF WrittenIn
  <2>9. n \in Histories /\ Kept(cs, D, mem, n)
    <3>1. D \cup {i} = D
      BY <1>4
    <3>2. Kept(cs, D \cup {i}, mem, n)
      BY <1>5, <2>2, <2>7, <2>8, KeptWrite
    <3>3. n \in Histories
      BY <1>5, <2>2, <2>7, RewrittenFacts
    <3> QED
      BY <3>1, <3>2, <3>3
  <2>10. Kept(cs, D, mem, wrote')
    <3>1. CASE b = Doubtful
      <4> HIDE DEF n
      <4> QED
        BY <1>2, <2>3, <2>9, <3>1, KeptDoubt
    <3>2. CASE b # Doubtful
      <4>1. <<p, a.page>> = k
        BY <2>2, <3>2 DEF k
      <4>2. \A j \in Owned, o \in Offsets : n[j][o] = IF j = k /\ o \in R THEN b ELSE g[j][o]
        BY <1>5, <2>2, <2>7, RewrittenFacts
      <4> HIDE DEF n
      <4>3. \A j \in Owned, o \in Offsets :
                wrote'[j][o] = IF j = k /\ o \in R THEN b ELSE n[j][o]
        BY <1>5, <2>2, <2>3, <2>9, <4>1, RewrittenFacts
      <4>4. \A j \in Owned, o \in Offsets : wrote'[j][o] = n[j][o]
        BY <4>2, <4>3
      <4> QED
        BY <2>9, <4>4 DEF Kept
    <3> QED
      BY <3>1, <3>2
  <2> QED
    BY <1>1, <1>7, <2>10
<1> QED
  BY <1>8, <1>9

\* Entry f has nothing for memory after a READ, and its own bytes after a WRITE.
Filled(f, p, a) ==
    /\ f.valid /\ f.pid = p /\ f.page = a.page
    /\ a.kind = "READ" => ~f.modified
    /\ a.kind # "READ" =>
        /\ f.modified
        /\ \A o \in Offsets :
            IF o \in Extent(a)
            THEN o \in f.from..(f.to - 1) /\ f.content[o] = a.byte
            ELSE o \notin f.from..(f.to - 1)

\* The entry a miss leaves.
LEMMA FilledKept ==
    ASSUME NEW p \in Pids, NEW a \in Accesses, <<p, a.page>> \in Owned, a \in Program[p],
           NEW fr, NEW m, NEW old \in CacheEntry, NEW f,
           f = (IF a.kind = "READ" THEN cache_load_page(p, a, fr, m)
                ELSE WriteEntry(NewEntry(p, a, old), a))
    PROVE  Filled(f, p, a)
<1>1. CASE a.kind = "READ"
  <2>1. f.valid = TRUE /\ f.pid = p /\ f.page = a.page /\ f.modified = FALSE
    BY <1>1 DEF cache_load_page
  <2> QED
    BY <1>1, <2>1 DEF Filled
<1>2. CASE a.kind # "READ"
  <2> DEFINE e == NewEntry(p, a, old)
  <2>1. a \in Writes /\ a.kind = "WRITE"
    BY <1>2 DEF Accesses, Reads, Writes
  <2>2. a.offset \in Offsets /\ a.size \in 1..PageSize /\ a.offset + a.size <= PageSize
        /\ PageSize \in Nat
    BY <2>1, ProgramAssumption, MmuAssumption DEF Writes
  <2>3. /\ e.valid = TRUE /\ e.pid = p /\ e.page = a.page /\ e.modified = old.modified
        /\ e.from = a.offset /\ e.to = a.offset + a.size
    BY DEF NewEntry
  <2>4. e \in CacheEntry
    <3>1. a.offset \in 0..PageSize /\ a.offset + a.size \in 0..PageSize
      BY <2>2 DEF Offsets
    <3>2. old.modified \in BOOLEAN /\ a.page \in Nat /\ Blank \in [Offsets -> Bytes \cup {0}]
      BY OwnedFacts DEF CacheEntry, Blank
    <3> QED
      BY <3>1, <3>2 DEF NewEntry, CacheEntry
  <2> HIDE DEF e
  <2>5. Written(f, e, a)
    BY <1>2, <2>1, <2>4, WriteEntryFields DEF e
  <2>6. f.valid /\ f.pid = p /\ f.page = a.page /\ f.modified
    BY <2>3, <2>5 DEF Written
  <2>7. f.from = a.offset /\ f.to = a.offset + a.size
    <3>1. Lesser(a.offset, a.offset) = a.offset
      BY DEF Lesser
    <3>2. Greater(a.offset + a.size, a.offset + a.size) = a.offset + a.size
      BY DEF Greater
    <3> QED
      BY <2>3, <2>5, <3>1, <3>2 DEF Written
  <2>8. \A o \in Offsets : o \in Extent(a) => f.content[o] = a.byte
    BY <2>5 DEF Written, Extent
  <2>9. f.from..(f.to - 1) = Extent(a)
    <3>1. a.offset \in Nat /\ a.size \in Nat
      BY <2>2 DEF Offsets
    <3> QED
      BY <2>7, <3>1 DEF Extent
  <2>10. ASSUME NEW o \in Offsets
         PROVE  IF o \in Extent(a)
                THEN o \in f.from..(f.to - 1) /\ f.content[o] = a.byte
                ELSE o \notin f.from..(f.to - 1)
    BY <2>8, <2>9
  <2> QED
    BY <1>2, <2>6, <2>10 DEF Filled
<1> QED
  BY <1>1, <1>2

\* A miss writes its victim back before the slot gets the new entry.
LEMMA MissKept ==
    ASSUME MmuInv, KeptInv, NEW c \in Cpus, NEW a \in Accesses, Miss(c, a)
    PROVE  Kept(cache'[c], DOMAIN cache'[c], mem', wrote')
<1> DEFINE v == select_victim_entry(config[c], tlb[c], cache[c], clock[c], mem)
           p == pid[c]
           to == mmu_translate_address(config[c], v.tlb, p, a.page)
           i == v.slot
           ds == v.cache
           f == IF a.kind = "READ" THEN cache_load_page(p, a, to.frame, v.mem)
                ELSE WriteEntry(NewEntry(p, a, ds[i]), a)
           cs == [ds EXCEPT ![i] = f]
           D == DOMAIN cache[c]
           k == <<p, a.page>>
<1>1. /\ Executes(c, a) /\ CompletedFresh(c, a) /\ config[c].cache_entries > 0 /\ mem' = v.mem
      /\ ~v.refused /\ cache'[c] = cs /\ cache_find_entry(cache[c], a.page) = {}
      /\ a \in Program[p]
  BY DEF Miss, MmuInv, Tabled, Executes
<1>2. /\ Caching(config[c], cache[c]) /\ config[c] \in Configs /\ Sound(config[c], tlb[c])
      /\ clock[c] \in Nat /\ p \in Pids /\ k \in Owned
      /\ wrote \in Histories /\ (a.kind # "READ" => a.byte \in Values)
  BY <1>1, ExecutedAccess DEF MmuInv, Placed, Tabled, Writes, Values
<1>3. Kept(cache[c], D, mem, wrote)
  BY DEF KeptInv
<1>4. Kept(ds, D \ {i}, v.mem, wrote)
  BY <1>1, <1>2, <1>3, VictimKept
<1>5. DOMAIN ds = D /\ i \in D /\ \A s \in D : SameEntry(ds[s], cache[c][s])
  BY <1>1, <1>2, VictimEntries
<1>6. ds[i] \in CacheEntry
  <2>1. Caching(config[c], ds)
    BY <1>1, MissedVictim
  <2> QED
    BY <1>5, <2>1 DEF Caching
<1> HIDE DEF v, to
<1>7. Filled(f, p, a)
  <2>1. PICK old \in CacheEntry : old = ds[i]
    BY <1>6
  <2>2. f = IF a.kind = "READ" THEN cache_load_page(p, a, to.frame, v.mem)
            ELSE WriteEntry(NewEntry(p, a, old), a)
    BY <2>1
  <2> HIDE DEF f, p, ds, i
  <2> QED
    BY <1>1, <1>2, <2>2, FilledKept
<1>8. DOMAIN cs = D /\ cs[i] = f /\ \A s \in D \ {i} : cs[s] = ds[s]
  BY <1>5
<1> HIDE DEF f, cs, ds, i, D
<1>9. \A s \in D : ~(ds[s].valid /\ <<ds[s].pid, ds[s].page>> = k)
  BY <1>1, <1>5 DEF cache_find_entry, SameEntry, D
<1>10. CASE a.kind = "READ"
  <2>1. wrote' = wrote
    BY <1>1, <1>10 DEF CompletedFresh
  <2>2. \A j, o : ~Dirty(cs[i], j, o)
    BY <1>7, <1>8, <1>10 DEF Dirty, Filled
  <2>3. Kept(cs, D, v.mem, wrote)
    <3>1. Kept(cs, D \ {i}, v.mem, wrote)
      <4>1. \A s \in D \ {i} : SameEntry(cs[s], ds[s])
        BY <1>8 DEF SameEntry
      <4> QED
        BY <1>4, <4>1, KeptSame
    <3> QED
      BY <2>2, <3>1 DEF Kept
  <2> QED
    BY <1>1, <1>8, <2>1, <2>3
<1>11. CASE a.kind # "READ"
  <2> DEFINE R == Extent(a)
  <2>1. wrote' = Rewritten(wrote, k, R, a.byte)
    BY <1>1, <1>11 DEF CompletedFresh
  <2>2. <<cs[i].pid, cs[i].page>> = k /\ cs[i].valid /\ cs[i].modified
    BY <1>7, <1>8, <1>11 DEF Filled
  <2>3. \A o \in Offsets :
            IF o \in R THEN o \in cs[i].from..(cs[i].to - 1) /\ cs[i].content[o] = a.byte
            ELSE o \notin cs[i].from..(cs[i].to - 1)
    BY <1>7, <1>8, <1>11 DEF Filled
  <2> HIDE DEF k, R
  <2>4. WrittenIn(cs, ds, D \ {i}, i, k, R, a.byte, wrote)
    BY <1>8, <1>9, <2>2, <2>3 DEF WrittenIn
  <2>5. Kept(cs, (D \ {i}) \cup {i}, v.mem, wrote')
    BY <1>2, <1>4, <1>11, <2>1, <2>4, KeptWrite
  <2>6. (D \ {i}) \cup {i} = D
    BY <1>5
  <2> QED
    BY <1>1, <1>8, <2>5, <2>6
<1> QED
  BY <1>10, <1>11

\* A refused miss leaves the bytes where they are.
LEMMA RefusedKept ==
    ASSUME MmuInv, KeptInv, NEW c \in Cpus, NEW a \in Accesses, MissRefused(c, a)
    PROVE  Kept(cache'[c], DOMAIN cache'[c], mem', wrote')
<1> DEFINE v == select_victim_entry(config[c], tlb[c], cache[c], clock[c], mem)
           D == DOMAIN cache[c]
<1>1. /\ Executes(c, a) /\ config[c].cache_entries > 0 /\ mem' = mem /\ wrote' = wrote
      /\ cache'[c] = v.cache
  BY DEF MissRefused, MmuInv, Tabled
<1>2. /\ Caching(config[c], cache[c]) /\ config[c] \in Configs /\ Sound(config[c], tlb[c])
      /\ clock[c] \in Nat
  BY <1>1, ExecutedAccess DEF MmuInv, Tabled
<1>3. Kept(cache[c], D, mem, wrote)
  BY DEF KeptInv
<1>4. DOMAIN v.cache = D /\ \A s \in D : SameEntry(v.cache[s], cache[c][s])
  BY <1>1, <1>2, VictimEntries
<1> HIDE DEF v, D
<1>5. Kept(v.cache, D, mem, wrote)
  BY <1>3, <1>4, KeptSame
<1> QED
  BY <1>1, <1>4, <1>5

\* Without a cache all bytes are in memory.
LEMMA UncachedKept ==
    ASSUME MmuInv, KeptInv, NEW c \in Cpus, NEW a \in Accesses, Uncached(c, a)
    PROVE  Kept(cache'[c], DOMAIN cache'[c], mem', wrote')
<1> DEFINE p == pid[c]
           to == mmu_translate_address(config[c], tlb[c], p, a.page)
           b == [o \in Offsets |-> a.byte]
           k == <<p, a.page>>
           end == a.offset + a.size
<1>1. /\ Executes(c, a) /\ CompletedFresh(c, a) /\ cache' = cache /\ config[c].cache_entries = 0
      /\ mem' = IF a.kind = "READ" THEN mem
                ELSE WriteToMemory(mem, to.frame, a.offset, end, b)
  BY DEF Uncached
<1>2. /\ k \in Owned /\ config[c] \in Configs /\ Sound(config[c], tlb[c])
      /\ a.kind # "READ" => a \in Writes /\ end <= PageSize
      /\ wrote \in Histories /\ Caching(config[c], cache[c])
  BY <1>1, ExecutedAccess DEF MmuInv, Placed, Tabled
<1>3. DOMAIN cache[c] = {}
  BY <1>1, <1>2 DEF Caching
<1>4. \A j \in Owned, o \in Offsets :
        wrote[j][o] # Doubtful => mem[Address(Frame[j], o)] = wrote[j][o]
  BY <1>3 DEF KeptInv, Kept
<1>5. to.frame = Frame[k]
  BY <1>2, Translation
<1>6. /\ a.kind = "READ" => wrote' = wrote
      /\ a.kind # "READ" => wrote' = Rewritten(wrote, k, Extent(a), a.byte)
  BY <1>1 DEF CompletedFresh
<1> HIDE DEF to, k, p
<1>7. \A j \in Owned, o \in Offsets :
        wrote'[j][o] # Doubtful => mem'[Address(Frame[j], o)] = wrote'[j][o]
  <2>1. CASE a.kind = "READ"
    BY <1>1, <1>4, <1>6, <2>1
  <2>2. CASE a.kind # "READ"
    <3> DEFINE R == Extent(a)
    <3>1. a.offset \in Nat /\ end \in 0..PageSize
      BY <1>2, <2>2, MmuAssumption DEF Writes, Offsets
    <3>2. wrote' = Rewritten(wrote, k, R, a.byte)
      BY <1>6, <2>2
    <3>3. mem' = WriteToMemory(mem, Frame[k], a.offset, end, b)
      BY <1>1, <1>5, <2>2
    <3>4. \A o \in Offsets : b[o] = a.byte
      OBVIOUS
    <3>5. a.offset..(end - 1) = R /\ a.byte \in Values
      BY <1>2, <2>2, MmuAssumption DEF Writes, Offsets, Extent, Values
    <3> HIDE DEF end, b, R
    <3>6. Stored(mem', mem, k, a.offset, end, b)
      BY <1>2, <3>1, <3>3, StoredAt
    <3>7. ASSUME NEW j \in Owned, NEW o \in Offsets, wrote'[j][o] # Doubtful
          PROVE  mem'[Address(Frame[j], o)] = wrote'[j][o]
      <4>1. mem'[Address(Frame[j], o)] =
                IF j = k /\ o \in R THEN b[o] ELSE mem[Address(Frame[j], o)]
        BY <3>6, <3>5 DEF Stored
      <4>2. wrote'[j][o] = IF j = k /\ o \in R THEN a.byte ELSE wrote[j][o]
        BY <1>2, <3>2, <3>5, RewrittenFacts
      <4> QED
        BY <1>4, <3>4, <3>7, <4>1, <4>2
    <3> QED
      BY <3>7
  <2> QED
    BY <2>1, <2>2
<1> QED
  BY <1>1, <1>3, <1>7 DEF Kept

\* The clean-up: after n write-backs only the slots from n on have bytes for memory.
LEMMA AllKept ==
    ASSUME NEW k \in Configs, NEW t, Sound(k, t), NEW m \in [Addresses -> Values],
           NEW cs, Caching(k, cs), NEW h, Kept(cs, DOMAIN cs, m, h)
    PROVE  Kept(cs, {}, WriteBackAll(k, t, m, cs).mem, h)
<1> DEFINE N == k.cache_entries
           w0 == [tlb |-> t, mem |-> m]
           Good(w, n) == /\ Sound(k, w.tlb) /\ w.mem \in [Addresses -> Values]
                         /\ Kept(cs, n..(N - 1), w.mem, h)
<1>1. N \in Nat /\ DOMAIN cs = 0..(N - 1)
  BY ConfigFacts DEF Caching
<1>2. PICK f : /\ f[0] = w0
               /\ \A n \in 1..N : f[n] = WriteBack(k, f[n - 1], cs[n - 1])
               /\ WriteBackAll(k, t, m, cs) = f[N]
  BY WriteBackSteps
<1>3. Good(w0, 0)
  BY <1>1
<1> HIDE DEF w0
<1>4. ASSUME NEW n \in 1..N, Good(f[n - 1], n - 1) PROVE Good(f[n], n)
  <2> DEFINE w == f[n - 1]
             e == cs[n - 1]
             x == WriteBack(k, w, e)
             to == mmu_translate_address(k, w.tlb, e.pid, e.page)
  <2>1. f[n] = x /\ n - 1 \in 0..(N - 1) /\ n - 1 \in (n - 1)..(N - 1)
    BY <1>1, <1>2
  <2>2. /\ Sound(k, w.tlb) /\ w.mem \in [Addresses -> Values]
        /\ Kept(cs, (n - 1)..(N - 1), w.mem, h)
    BY <1>4
  <2> HIDE DEF w
  <2>3. Sound(k, x.tlb) /\ x.mem \in [Addresses -> Values]
    BY <2>1, <2>2, WrittenBack
  <2>4. Saved(x.mem, w.mem, e)
    <3>1. e.valid => <<e.pid, e.page>> \in Owned
      BY <2>1, EntryFacts
    <3> HIDE DEF e
    <3>2. e.valid => to.frame = Frame[<<e.pid, e.page>>]
      BY <2>2, <3>1, Translation
    <3>3. x = IF e.valid /\ e.modified
              THEN [tlb |-> to.tlb,
                    mem |-> IF e.from < e.to
                            THEN WriteToMemory(w.mem, to.frame, e.from, e.to, e.content)
                            ELSE w.mem]
              ELSE w
      BY DEF WriteBack
    <3> HIDE DEF to, x
    <3> QED
      BY <3>2, <3>3 DEF Saved
  <2> HIDE DEF x
  <2>5. Kept(cs, ((n - 1)..(N - 1)) \ {n - 1}, x.mem, h)
    BY <2>1, <2>2, <2>4, Flushed
  <2>6. ((n - 1)..(N - 1)) \ {n - 1} = n..(N - 1)
    BY <1>1
  <2> QED
    BY <2>1, <2>3, <2>5, <2>6
<1> HIDE DEF Good
<1>5. \A n \in 0..N : Good(f[n], n)
  <2> DEFINE S == {n \in 0..N : ~Good(f[n], n)}
  <2> SUFFICES ASSUME S # {} PROVE FALSE
    OBVIOUS
  <2>1. S \in SUBSET Nat
    BY <1>1
  <2>2. PICK n \in S : \A j \in S : n <= j
    BY <2>1, FirstFacts
  <2>3. n \in 0..N /\ ~Good(f[n], n)
    OBVIOUS
  <2>4. n # 0
    BY <1>2, <1>3, <2>3
  <2>5. n - 1 \in 0..N /\ n - 1 \notin S /\ n \in 1..N
    BY <1>1, <2>2, <2>3, <2>4
  <2>6. Good(f[n - 1], n - 1)
    BY <2>5
  <2> QED
    BY <1>4, <2>3, <2>5, <2>6
<1>6. Good(f[N], N) /\ N..(N - 1) = {}
  BY <1>1, <1>5
<1> QED
  BY <1>2, <1>6 DEF Good

\* The clean-up leaves all bytes in memory.
LEMMA CleanupKept ==
    ASSUME MmuInv, KeptInv, NEW c \in Cpus, mmu_process_cleanup(c)
    PROVE  Kept(cache'[c], DOMAIN cache'[c], mem', wrote')
<1> DEFINE m == WriteBackAll(config[c], tlb[c], mem, cache[c]).mem
           cs == [s \in DOMAIN cache[c] |-> EmptySlot]
<1>1. mem' = m /\ wrote' = wrote /\ cache'[c] = cs
  BY DEF mmu_process_cleanup, MmuInv, Tabled, history
<1>2. /\ config[c] \in Configs /\ Sound(config[c], tlb[c]) /\ mem \in [Addresses -> Values]
      /\ Caching(config[c], cache[c]) /\ Kept(cache[c], DOMAIN cache[c], mem, wrote)
  BY DEF MmuInv, Placed, Tabled, KeptInv
<1>3. Kept(cache[c], {}, m, wrote)
  BY <1>2, AllKept
<1> HIDE DEF m
<1>4. \A j \in Owned, o \in Offsets :
        wrote[j][o] # Doubtful => m[Address(Frame[j], o)] = wrote[j][o]
  BY <1>3 DEF Kept
<1>5. \A s \in DOMAIN cs : cs[s].valid = FALSE
  BY DEF EmptySlot
<1> HIDE DEF cs
<1>6. Kept(cs, DOMAIN cs, m, wrote)
  BY <1>4, <1>5 DEF Kept, Dirty
<1> QED
  BY <1>1, <1>6

\* Every step of the CPU keeps the bytes.
LEMMA NextKeptInv ==
    ASSUME OneCpuOnly, MmuInv, CachedOnce, KeptInv, [Next]_vars
    PROVE  KeptInv'
<1>1. ASSUME NEW c \in Cpus, Kept(cache'[c], DOMAIN cache'[c], mem', wrote')
      PROVE  KeptInv'
  <2>1. \A d \in Cpus : d = c
    BY DEF OneCpuOnly
  <2> QED
    BY <1>1, <2>1 DEF KeptInv
<1>2. ASSUME NEW c \in Cpus, NEW a \in Accesses,
             Hit(c, a) \/ Miss(c, a) \/ MissRefused(c, a) \/ Uncached(c, a)
      PROVE  KeptInv'
  BY <1>1, <1>2, HitKept, MissKept, RefusedKept, UncachedKept
<1>3. ASSUME NEW c \in Cpus, mmu_process_cleanup(c) PROVE KeptInv'
  BY <1>1, <1>3, CleanupKept
<1>4. ASSUME UNCHANGED <<cache, mem, wrote>> PROVE KeptInv'
  BY <1>4 DEF KeptInv
<1>5. ASSUME NEW c \in Cpus,
             (\E p \in Pids : recv_dispatch(c, p)) \/ Syscall(c) \/ check_interrupt(c)
      PROVE  KeptInv'
  <2>1. UNCHANGED <<cache, mem, wrote>>
    BY <1>5 DEF recv_dispatch, Syscall, check_interrupt, history
  <2> QED
    BY <1>4, <2>1
<1>6. CASE UNCHANGED vars
  <2>1. UNCHANGED <<cache, mem, wrote>>
    BY <1>6 DEF vars, history
  <2> QED
    BY <1>4, <2>1
<1> QED
  BY <1>2, <1>3, <1>5, <1>6, ProgramAccesses DEF Next

\* Bytes are in one dirty entry, or in memory.
LEMMA KeptImplies ==
    ASSUME OneCpuOnly, MmuInv, CachedOnce, KeptInv
    PROVE  NoWriteLost
<1>1. PICK c : Cpus = {c}
  BY DEF OneCpuOnly
<1> DEFINE D == DOMAIN cache[c]
<1>2. ASSUME NEW k \in Owned, NEW o \in Offsets, wrote[k][o] # Doubtful
      PROVE  \/ Unsaved(k[1], k[2], o) = {} /\ mem[Address(Frame[k], o)] = wrote[k][o]
             \/ \E l \in Unsaved(k[1], k[2], o) :
                    /\ Unsaved(k[1], k[2], o) = {l}
                    /\ cache[l[1]][l[2]].content[o] = wrote[k][o]
  <2> DEFINE U == Unsaved(k[1], k[2], o)
  <2>1. k = <<k[1], k[2]>>
    BY DEF Owned
  <2>2. U = {l \in {c} \X D : Dirty(cache[l[1]][l[2]], k, o)}
    <3>1. UNION {{d} \X DOMAIN cache[d] : d \in Cpus} = {c} \X D
      BY <1>1
    <3>2. ASSUME NEW l \in {c} \X D
          PROVE  Dirty(cache[l[1]][l[2]], k, o) <=>
                    /\ cache[l[1]][l[2]].valid /\ cache[l[1]][l[2]].modified
                    /\ cache[l[1]][l[2]].pid = k[1] /\ cache[l[1]][l[2]].page = k[2]
                    /\ o \in cache[l[1]][l[2]].from..(cache[l[1]][l[2]].to - 1)
      BY <2>1 DEF Dirty
    <3> QED
      BY <3>1, <3>2 DEF Unsaved
  <2> HIDE DEF U
  <2>3. Kept(cache[c], D, mem, wrote)
    BY <1>1 DEF KeptInv
  <2>4. CASE \A s \in D : ~Dirty(cache[c][s], k, o)
    <3>1. U = {}
      BY <2>2, <2>4
    <3>2. mem[Address(Frame[k], o)] = wrote[k][o]
      BY <1>2, <2>3, <2>4 DEF Kept
    <3> QED
      BY <3>1, <3>2 DEF U
  <2>5. CASE \E s \in D : Dirty(cache[c][s], k, o)
    <3>1. PICK s \in D : Dirty(cache[c][s], k, o)
      BY <2>5
    <3>2. cache[c][s].content[o] = wrote[k][o]
      BY <1>2, <2>3, <3>1 DEF Kept
    <3>3. ASSUME NEW r \in D, Dirty(cache[c][r], k, o) PROVE r = s
      <4>1. /\ cache[c][r].valid /\ cache[c][s].valid
            /\ <<cache[c][r].pid, cache[c][r].page>> = <<cache[c][s].pid, cache[c][s].page>>
        BY <3>1, <3>3 DEF Dirty
      <4> QED
        BY <1>1, <4>1 DEF CachedOnce
    <3> DEFINE l == <<c, s>>
    <3>4. l[1] = c /\ l[2] = s /\ l \in {c} \X D
      OBVIOUS
    <3>5. l \in U
      BY <2>2, <3>1, <3>4
    <3>6. ASSUME NEW j \in U PROVE j = l
      <4>1. j \in {c} \X D /\ Dirty(cache[j[1]][j[2]], k, o)
        BY <2>2
      <4>2. j[1] = c /\ j[2] \in D /\ j = <<j[1], j[2]>>
        BY <4>1
      <4> QED
        BY <3>3, <4>1, <4>2
    <3>7. U = {l}
      BY <3>5, <3>6
    <3>8. cache[l[1]][l[2]].content[o] = wrote[k][o]
      BY <3>2, <3>4
    <3> HIDE DEF l
    <3> QED
      BY <3>5, <3>7, <3>8 DEF U
  <2> QED
    BY <2>4, <2>5
<1> QED
  BY <1>2 DEF NoWriteLost

\* On a machine with one CPU a WRITE is lost in two ways only, whatever the programs
\* are and however many of them use a page number: a WRITE in an entry of another
\* process, and a WRITE that leaves a gap in the modified region.  For any sizes of TLB
\* and cache and both algorithms of each, every other byte a process wrote is in
\* the modified region of exactly one entry of its page or in memory, through
\* replacements, refusals, system calls and clean-ups.
THEOREM WritesKept == OneCpuOnly /\ Spec => []NoWriteLost
<1> SUFFICES ASSUME OneCpuOnly
             PROVE  Spec => []NoWriteLost
  OBVIOUS
<1>1. Init => KeptInv
  <2> SUFFICES ASSUME Init PROVE KeptInv
    OBVIOUS
  <2>1. MmuInv
    BY InitMmuInv
  <2>2. ASSUME NEW j \in Owned, NEW o \in Offsets
        PROVE  mem[Address(Frame[j], o)] = wrote[j][o]
    <3>1. Frame[j] \in 0..(FrameCount - 1)
      <4>1. j = <<j[1], j[2]>>
        BY DEF Owned
      <4> QED
        BY <4>1, OwnedFacts
    <3>2. Address(Frame[j], o) \in Addresses
      BY <3>1, AddressFacts
    <3>3. mem = [x \in Addresses |-> 0] /\ wrote = [k \in Owned |-> Blank]
      BY DEF Init
    <3>4. Blank[o] = 0
      BY DEF Blank
    <3> QED
      BY <3>2, <3>3, <3>4
  <2>3. ASSUME NEW c \in Cpus, NEW s \in DOMAIN cache[c] PROVE cache[c][s].valid = FALSE
    <3>1. EmptySlot.valid = FALSE
      BY DEF EmptySlot
    <3>2. cache = [d \in Cpus |-> [i \in 0..(config[d].cache_entries - 1) |-> EmptySlot]]
      BY DEF Init
    <3> HIDE DEF EmptySlot
    <3> QED
      BY <3>1, <3>2
  <2>4. ASSUME NEW c \in Cpus PROVE Kept(cache[c], DOMAIN cache[c], mem, wrote)
    <3>1. \A s \in DOMAIN cache[c] : \A j, o : ~Dirty(cache[c][s], j, o)
      BY <2>3 DEF Dirty
    <3> QED
      BY <2>2, <3>1 DEF Kept
  <2> QED
    BY <2>4 DEF KeptInv
<1>2. MmuInv /\ CachedOnce /\ KeptInv /\ [Next]_vars => KeptInv'
  BY NextKeptInv
<1>3. MmuInv /\ CachedOnce /\ KeptInv => NoWriteLost
  BY KeptImplies
<1>4. Spec => []MmuInv
  BY MmuInvariant
<1> QED
  BY <1>1, <1>2, <1>3, <1>4, PageCachedOnce, PTL DEF Spec
=============================================================================
