\* No preemption, FIFO, one CPU, and memoria never refuses a dump.
CONSTANTS
    Root = root
    Pids = {root, p1, p2}
    Cpus = {c1}
    NoPid = NoPid
    NoCpu = NoCpu
    Preemption = FALSE
    Algorithm = "FIFO"
    Instructions = {"INIT_PROC", "IO", "DUMP_MEMORY", "EXIT"}
    DumpMayFail = FALSE
    MaxThreads = 2
    MaxPackages = 2
SPECIFICATION FairSpec
CHECK_DEADLOCK FALSE
INVARIANT NoLostWakeup
PROPERTY ReadyIsDispatched
