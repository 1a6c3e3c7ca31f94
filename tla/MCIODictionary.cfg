CONSTANTS
    k1 = k1
    k2 = k2
    k3 = k3
    k4 = k4
    o1 = o1
    o2 = o2
    NoObject = NoObject
    Keys <- MCKeys
    Objects <- MCObjects
    Hash <- MCHash
    MaxBuckets = 5
    AllocCanFail = TRUE
    Requested = {12}
SYMMETRY MCObjectSymmetry
SPECIFICATION Spec
INVARIANT TypeOK
INVARIANT BookkeepingMatchesBuckets
PROPERTY ImplementsKeyedMap
CHECK_DEADLOCK FALSE
