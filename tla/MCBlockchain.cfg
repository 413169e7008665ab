\* Batches of up to four blocks of the tree, with crashes at every step.
CONSTANTS
    a0 = a0
    b1 = b1
    b2 = b2
    b3 = b3
    c1 = c1
    c2 = c2
    x3 = x3
    d0 = d0
    d1 = d1
    y2 = y2
    z2 = z2
    t1 = t1
    t2 = t2
    t3 = t3
    Genesis = Genesis
    None = None
    Blocks <- MCBlocks
    Txs <- MCTxs
    Batches <- MCBatches
    Header <- MCHeader
    Difficulty <- MCDifficulty
    GenesisState <- MCGenesisState
    MaxHeight = 4
SPECIFICATION Spec
INVARIANTS ChainIsWhole  MemoryIsStored
PROPERTIES DifficultyGrows UpdateIsExact
