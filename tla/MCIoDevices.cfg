\* Two instances of one device, or two devices of which one may be lost.
CONSTANTS
    p1 = p1
    p2 = p2
    p3 = p3
    disco = disco
    teclado = teclado
    Pids <- MCPids
    Sockets <- MCSockets
    Names <- MCNames
    Setups <- Both
    EarlyDeath = FALSE
    MaxCalls = 4
    NoPid = NoPid
SPECIFICATION FairSpec
CHECK_DEADLOCK FALSE

INVARIANTS
    TypeOK
    
    CurrentIsServedAlone
    RequestRemembered
 
