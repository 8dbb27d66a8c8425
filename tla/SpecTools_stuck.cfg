SPECIFICATION FairSpec
CONSTANTS
    Requests = {r1, r2}
    Keys = {k1}
    None = None
    MaxPreds = 0
    MaxInflight = 1
PROPERTY EveryRequestAnswered
