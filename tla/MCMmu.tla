------------------------------- MODULE MCMmu -------------------------------
(* Model-checking instances of Mmu. *)
EXTENDS Mmu

\* Process 1 has two pages, one of them in frame 0; process 2 has six, the last
\* of which it uses.
MCFrames == [p \in Pids |-> IF p = 1 THEN <<0, 7>> ELSE <<2, 1, 4, 3, 6, 5>>]

Rd(g, o) == [kind |-> "READ", page |-> g, offset |-> o]
Wr(g, o, n, b) == [kind |-> "WRITE", page |-> g, offset |-> o, size |-> n, byte |-> b]

\* Both processes use page 0, as programs do that address from 0, and process 1
\* writes its bytes with a gap between them, and reads it from the middle; the other
\* pages have one user.
MCProgram == [p \in Pids |->
    IF p = 1 THEN {Rd(0, 1), Wr(0, 0, 1, 1), Wr(0, 2, 1, 1), Wr(1, 0, 1, 1)}
    ELSE {Wr(0, 0, 1, 2), Wr(5, 1, 1, 1)}]

Machine(te, ta, ce, ca) ==
    [tlb_entries |-> te, tlb_algo |-> ta, cache_entries |-> ce, cache_algo |-> ca]

\* Both algorithms of each table, with fewer slots than pages, and a CPU
\* without a TLB and one without a cache.
MCConfigs ==
    {Machine(1, "FIFO", 2, "CLOCK"), Machine(2, "LRU", 2, "CLOCK-M"),
     Machine(0, "FIFO", 1, "CLOCK"), Machine(2, "FIFO", 0, "CLOCK")}
=============================================================================
