SPECIFICATION Spec
CONSTANTS
    None = None
    Workers = {w1, w2, m1}
    Migrators = {m1}
    Sessions = {s1, s2}
    Contents = {c1}
    Blocks = {b1, b2}
    NumTiers = 2
    MaxLogical = 1
    MaxRefs = 2
    PrefixCapacity = 1
SYMMETRY Symmetry
INVARIANT LiveBlockReadable
PROPERTY ImplementsKVSessions
