\* Two processes compete for three user frames and two swap frames: creation
\* and resumption race for the last frames, either allocator can refuse, and a
\* process larger than its page table exists.
CONSTANTS
    Pids = {p1, p2}
    NoPid = NoPid
    FramesTotal = 3
    SwapTotal = 2
    Sizes = {0, 1, 2, 3}
    TableCapacity = 2
SYMMETRY Symmetry
SPECIFICATION Spec
INVARIANTS
    TypeOK
    NoSharedFrame
    NoSharedSwapFrame
    NoFrameLeak
    FreeCountsExact
    ImagesIntact
