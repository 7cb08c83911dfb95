\* A device may disconnect while a process suspended on it is in swap.
CONSTANTS
    Pids = {p1, p2}
    NoPid = NoPid
    FramesTotal = 3
    SwapTotal = 2
    Sizes = {0, 1, 2, 3}
    TableCapacity = 2
SYMMETRY Symmetry
SPECIFICATION DisconnectSpec
INVARIANT NoSharedFrame
