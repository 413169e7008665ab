\* The mempool's view: a read-only transaction, commits after each accepted transaction.
CONSTANTS
    Keys = {k1, k2, k3}
    Values = {v1, empty}
    Deletable = {empty}
    Nil = Nil
    Indexable = FALSE
    Writable = FALSE
    Collected = FALSE
    DrainHeight = 0
    MaxBlocks = 0
SPECIFICATION Spec
SYMMETRY Symmetry
CHECK_DEADLOCK FALSE
INVARIANTS CountIsCardinality LayersAgree
