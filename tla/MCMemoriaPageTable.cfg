\* The page table of a resumed process.
CONSTANTS
    Pids = {p1, p2}
    NoPid = NoPid
    FramesTotal = 3
    SwapTotal = 2
    Sizes = {0, 1, 2, 3}
    TableCapacity = 2
SYMMETRY Symmetry
SPECIFICATION Spec
INVARIANT PageTableCurrent
