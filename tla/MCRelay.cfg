\* An honest peer, a liar, and a client that sends a transaction or has the node build one.
CONSTANTS
    Txs = {"good", "own"}
    Valid = {"good"}
    MaxWorkers = 1
    Http = {"local"}
    Honest = {"honest"}
    Liars = {"liar"}
    Builders = {"local"}
    Offers <- MCOffers
    AppliesAt <- MCAppliesAt
    Candidates <- MCCandidates
    MaxOffers = 1
SPECIFICATION Spec
INVARIANTS RelayIsSound
PROPERTIES AllAreAnswered TxsSpread
CHECK_DEADLOCK FALSE
