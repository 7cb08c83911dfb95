\* SRT on one CPU.
CONSTANTS
    Root = root
    Pids = {root, p1, p2}
    Cpus = {c1}
    NoPid = NoPid
    NoCpu = NoCpu
    Preemption = TRUE
    Algorithm = "SJF"
    Instructions = {"INIT_PROC", "IO", "EXIT"}
    DumpMayFail = FALSE
    MaxThreads = 1
    MaxPackages = 2
SYMMETRY Symmetry
SPECIFICATION Spec
CHECK_DEADLOCK FALSE
INVARIANTS
    OneList
    OneAnswerPerInterrupt
    NoLostWakeup
