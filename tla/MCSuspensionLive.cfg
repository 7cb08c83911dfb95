\* No failures and enough swap space: nothing keeps a process from ending.
CONSTANTS
    Pids = {0, 1, 2}
    Root = 0
    Size <- MCSize
    FramesTotal = 2
    SwapTotal = 4
    Cpus = 1
    Algorithm = "FIFO"
    MaxStays = 1
    MaxLong = 2
    FastDevices = FALSE
    MayDisconnect = FALSE
    DumpMayFail = FALSE
    SwapMayFail = FALSE
    LateInDump = FALSE
    NoPid = NoPid
SPECIFICATION FairSpec
CHECK_DEADLOCK FALSE
INVARIANTS ResidentToRun AdmissionPending
PROPERTY EveryProcessEnds
