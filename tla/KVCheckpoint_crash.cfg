SPECIFICATION Spec
CONSTANTS
    None = None
    Torn = Torn
    Callers = {w1, w2}
    Sessions = {s1, s2}
    Contents = {c1, c2}
    Blocks = {b1, b2}
    MaxMapped = 2
    MaxRefs = 2
SYMMETRY Symmetry
INVARIANTS HoldersCounted OneBlockPerContent RegisteredReadable AckedRestorable
