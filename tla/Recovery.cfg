SPECIFICATION FairSpec
CONSTANTS
    r1 = r1
    r2 = r2
    tier1 = tier1
    tier2 = tier2
    tier3 = tier3
    Requests = {r1, r2}
    Backends = {tier1, tier2, tier3}
    Registered = {tier1, tier2}
    Primary <- OwnTier
    Fallbacks <- OtherTiers
    FailureThreshold = 2
    MaxRetries = 1
    MaxServed = 2
CHECK_DEADLOCK FALSE
INVARIANTS ProbeUnderWay DegradedIsLast
PROPERTIES ClosesOnSuccess EveryRequestAnswered
