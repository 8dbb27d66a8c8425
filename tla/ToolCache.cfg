SPECIFICATION Spec
CONSTANTS
    Keys = {k1, k2, k3}
    Values = {v1, v2}
    NoValue = NoValue
    MaxSize = 2
    TTL = 1
    MaxTime = 3
INVARIANTS StoreConsistent
PROPERTIES HitIsFresh EvictsOldest ImplementsLossyMap
