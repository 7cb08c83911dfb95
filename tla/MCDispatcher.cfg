\* No preemption, FIFO: three processes on two CPUs, every system call.
CONSTANTS
    Root = root
    Pids = {root, p1, p2}
    Cpus = {c1, c2}
    NoPid = NoPid
    NoCpu = NoCpu
    Preemption = FALSE
    Algorithm = "FIFO"
    Instructions = {"INIT_PROC", "IO", "DUMP_MEMORY", "EXIT"}
    DumpMayFail = TRUE
    MaxThreads = 2
    MaxPackages = 2
SYMMETRY Symmetry
SPECIFICATION Spec
CHECK_DEADLOCK FALSE
INVARIANTS
    TypeOK
    OneList
    ExecIsServed
    OneProcessPerCpu
    NoSyscallLost
PROPERTY ImplementsLifecycle
