\* Two instances of one device, neither of which is ever lost.
CONSTANTS
    p1 = p1
    p2 = p2
    p3 = p3
    disco = disco
    teclado = teclado
    Pids <- MCPids
    Sockets <- MCSockets
    Names <- MCNames
    Setups <- Instances
    EarlyDeath = FALSE
    MaxCalls = 4
    NoPid = NoPid
SPECIFICATION Spec
CHECK_DEADLOCK FALSE
INVARIANT CurrentIsServed
