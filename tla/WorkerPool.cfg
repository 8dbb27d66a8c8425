SPECIFICATION FairSpec
CONSTANTS
    Tasks = {t1, t2}
    None = None
    Size = 2
    MaxWorkers = 4
INVARIANTS TaskConserved
PROPERTIES TakesOnlyWhileMember EveryTaskRuns
