SPECIFICATION Spec
CONSTANTS
    Keys = {k1}
    Workers = {1, 2}
    Balances = {2}
    MinimumStake = 2
    FirstTip = 2
    LastTip = 4
    OthersTip = 3
    MaxAsks = 2
    SyncLimit = 1
    StartLimit = 1
    ManyBlocks = 1
    None = None
INVARIANTS ForgingIsSound
PROPERTIES WorkArrives ForgingStarts
CHECK_DEADLOCK FALSE
