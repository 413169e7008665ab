SPECIFICATION Spec
CONSTANTS
    forgerKey = forgerKey
    spendKey = spendKey
    staker1 = staker1
    staker2 = staker2
    new2 = new2
    user = user
    guest = guest
    provider1 = provider1
    provider2 = provider2
    new1 = new1
    A = A
    B = B
    coin = coin
    pay = pay
    create = create
    mint = mint
    fund = fund
    rateP = rateP
    rateQ = rateQ
    leaveP = leaveP
    assetPay = assetPay
    lock = lock
    settle = settle
    None = None
    Refused = Refused
    Native = coin
    Forger = forgerKey
    Temp = new1
    Decoy = spendKey
    Keys <- MCKeys
    NewKeys <- MCNewKeys
    Promised <- MCPromised
    Stuck = Stuck
    Assets <- MCAssets
    Txs <- MCTxs
    Heights <- MCHeights
    Identification <- MCIdentification
    Start <- MCStart
    Def <- MCDef
    Amounts = {1, 3}
    RequiredFee = 2
    RequiredStake = 3
    PendingWindow = 2
    MinDeadline = 2
    MinStakingRing = 2
    BlockReward = 1
    MaxBlocks = 3
    MaxTxs = 2
    Base = 4
    MaxDigits = 5
    NativeId = 99
    Nil = Nil
    Order = 12289
    Unity = 8246
    UnityOrder = 8
    HalfBits = 4
    H = 9
    UBase = 81
    Gs <- MCGs
    Hs <- MCHs
    Unproved = Unproved
INVARIANTS FormatsReadBack   DuesCanBePaid BuilderFitsLedger
PROPERTIES  AlgorithmsAreRight
CHECK_DEADLOCK FALSE
