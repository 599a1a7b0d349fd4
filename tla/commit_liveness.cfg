SPECIFICATION FairSpec
CONSTANTS
    r1 = r1
    r2 = r2
    w1 = w1
    w2 = w2
    x0 = x0
    x1 = x1
    Requests = {r1, r2}
    InitialRows = {x0}
    DirectRows = {x1}
    Rows <- MCRows
    Workers = {w1}
    WorkerOf <- MCWorkerOfOne
    Shapes <- MCShapes
    StaleAllocators = FALSE
    MaxSnapshot = 2
PROPERTIES EveryCommitAnswered
