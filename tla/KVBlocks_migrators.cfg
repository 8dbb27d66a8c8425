SPECIFICATION Spec
CONSTANTS
    None = None
    Workers = {w1, m1, m2}
    Migrators = {m1, m2}
    Sessions = {s1}
    Contents = {c1}
    Blocks = {b1}
    NumTiers = 2
    MaxLogical = 1
    MaxRefs = 2
    PrefixCapacity = 1
INVARIANT LiveBlockReadable
