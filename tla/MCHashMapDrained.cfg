\* A map of a collection (conditional payments due at height 3): indexable, recorded per height.
CONSTANTS
    Keys = {k1, k2}
    Values = {v1}
    Deletable = {}
    Nil = Nil
    Indexable = TRUE
    Writable = TRUE
    Collected = TRUE
    DrainHeight = 3
    MaxBlocks = 3
SPECIFICATION Spec
SYMMETRY Symmetry
CHECK_DEADLOCK FALSE
PROPERTY RevertRestores
