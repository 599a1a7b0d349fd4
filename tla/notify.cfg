SPECIFICATION FairSpec
CONSTANTS
    w1 = w1
    w2 = w2
    t1 = t1
    t2 = t2
    NoWorker = NoWorker
    Workers = {w1, w2}
    Tables = {t1, t2}
    TouchSets <- MCTouchSets
    MaxSnapshot = 2
    MaxFaults = 2
INVARIANTS TypeOK DoneIsPublished NoneForgotten
PROPERTIES EverySnapshotIsLogged
CHECK_DEADLOCK FALSE
