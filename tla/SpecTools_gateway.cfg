SPECIFICATION Spec
CONSTANTS
    Requests = {r1, r2}
    Keys = {k1, k2}
    None = None
    MaxPreds = 1
    MaxInflight = 2
SYMMETRY Symmetry
INVARIANTS TypeOK NoPermitInvented OnlySuccessCached NothingLeftUncancelled FallbackAlone
PROPERTY ImplementsToolService
