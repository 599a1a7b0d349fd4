SPECIFICATION ReadersFairSpec
CONSTANTS
    k1 = k1
    k2 = k2
    w1 = w1
    w2 = w2
    None = None
    Calls = {k1, k2}
    Workers = {w1, w2}
    WorkerOf <- TwoWorkers
    Early = {"a"}
    Late = {"b"}
    Sweepers = {w2}
    MaxInterrupts = 1
INVARIANTS ReadersTypeOK ReadersArePoliced
PROPERTIES PutOffIsDone RolesAreCollected
