\* One CPU in four configurations, two processes that both use page 0 and other
\* pages of tables of three levels, and writes with a gap in pages of three bytes.
CONSTANTS
    Cpus = {c1}
    Pids = {1, 2}
    NoPid = NoPid
    allocated_frames <- MCFrames
    Levels = 3
    Entries = 2
    FrameCount = 8
    PageSize = 3
    Program <- MCProgram
    Bytes = {1, 2}
    Configs <- MCConfigs
    NoAccess = NoAccess
SPECIFICATION Spec
INVARIANTS
    TypeOK
    TlbExact
    
    CachedOnce
    BoundedRefusals
