\* Two frames for processes of one and two pages, and as much swap space:
\* admission, resumption and suspension all meet a full memory; dumps and writes of
\* the swap file fail, devices disconnect, and a timer may be late, but in a dump.
CONSTANTS
    Pids = {0, 1}
    Root = 0
    Size <- MCSize
    FramesTotal = 2
    SwapTotal = 2
    Cpus = 1
    Algorithm = "PMCP"
    MaxStays = 2
    MaxLong = 2
    FastDevices = TRUE
    MayDisconnect = TRUE
    DumpMayFail = TRUE
    SwapMayFail = TRUE
    LateInDump = FALSE
    NoPid = NoPid
SPECIFICATION Spec
CHECK_DEADLOCK FALSE
INVARIANTS
    TypeOK
    OneList
    SuspendedGaveMemoryBack
PROPERTY ImplementsLifecycle
