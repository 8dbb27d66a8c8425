SPECIFICATION FairSpec
CONSTANTS
    a = a
    b = b
    c = c
    d = d
    None = None
    Nodes <- FourNodes
    Edges <- Diamond
    Conditional <- OnA
    Silent <- NoFn
    Checkpointed <- TwoSaved
    MaxAttempts = 2
    MaxRuns = 3
INVARIANTS RunsInOrder ReturnsWhole NothingLeftRunning
PROPERTIES SavedNotRepeated EveryRunEnds
