\* A map of a collection (accounts): indexable, recorded per height.
CONSTANTS
    Keys = {k1, k2}
    Values = {v1, v2}
    Deletable = {}
    Nil = Nil
    Indexable = TRUE
    Writable = TRUE
    Collected = TRUE
    DrainHeight = 0
    MaxBlocks = 2
SPECIFICATION Spec
SYMMETRY Symmetry
CHECK_DEADLOCK FALSE
INVARIANTS ReadsAreFresh IndexesAreExact
PROPERTY RevertRestores
