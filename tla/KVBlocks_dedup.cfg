SPECIFICATION Spec
CONSTANTS
    None = None
    Workers = {w1, w2}
    Migrators = {}
    Sessions = {s1, s2}
    Contents = {c1, c2}
    Blocks = {b1, b2, b3}
    NumTiers = 1
    MaxLogical = 1
    MaxRefs = 2
    PrefixCapacity = 1
SYMMETRY Symmetry
INVARIANTS TypeOK HoldersCounted OneBlockPerContent
PROPERTY ImplementsKVSessions
