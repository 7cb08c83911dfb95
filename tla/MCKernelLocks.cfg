\* Three threads that go through any sections of the kernel in any order.
CONSTANTS
    Threads = {t1, t2, t3}
    Semaphores <- KernelSemaphores
    Modes <- KernelModes
    Sections <- KernelSections
    Height <- KernelHeight
    Guarding <- KernelGuarding
    MaxValue = 2
SYMMETRY Symmetry
SPECIFICATION Spec
INVARIANTS
    WaitsInOrder
    NoDeadlock
    Exclusive
    NothingKept
