SPECIFICATION Spec
CONSTANTS
    a1 = a1
    a2 = a2
    b1 = b1
    b2 = b2
    b3 = b3
    c1 = c1
    c2 = c2
    c3 = c3
    Genesis = Genesis
    Blocks <- MCBlocks
    Prev <- MCPrev
    Chain <- MCChain
    TotalDifficulty <- MCTotalDifficulty
    Forged = {a2}
    Tips = {b3, c3}
    Conns = {p1, p2}
    FirstTip = a1
    FirstPeerTip = c3
    FORK_MAX_UNCLE_ALLOWED = 0
    FORK_MAX_DOWNLOAD = 1
    MaxErrors = 1
    MaxFailures = 1
    MaxClosed = 1
 
PROPERTIES ProgressIsKept Converges
CHECK_DEADLOCK FALSE
