\* Two clients, two new tips of which the second is a fork that undoes two blocks, one failed AddBlocks.
CONSTANTS
    t1 = t1
    t2 = t2
    t3 = t3
    t4 = t4
    s1 = s1
    s2 = s2
    s3 = s3
    c1 = c1
    c2 = c2
    None = None
    Txs <- MCTxs
    Staking <- MCStaking
    Clients <- MCClients
    Nonce <- MCNonce
    Fee <- MCFee
    Size <- MCSize
    Submits <- MCSubmits
    Chain <- MCChain
    MaxSize = 3
    MaxErrors = 1
    AddBuffer = 2
SPECIFICATION FairSpec
CHECK_DEADLOCK FALSE
INVARIANTS PoolIsSound ResultApplies
PROPERTIES ResultAppendOnly UndoneReturn AddBlocksReturns ClientsAreAnswered
