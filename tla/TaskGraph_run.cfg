SPECIFICATION FairSpec
CONSTANTS
    a = a
    b = b
    c = c
    d = d
    Nodes <- FourNodes
    Edges <- Join
    MaxAttempts = 2
    RetryOnFailure = TRUE
    RetryOnTimeout = TRUE
    Modes = {"graph", "node", "subtree", "downstream"}
INVARIANTS NeverStuck AncestorsEnded FailureStopsGraph
PROPERTIES VerdictHonest NothingBeginsAfterCancel RunEnds
