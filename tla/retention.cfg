SPECIFICATION FairSpec
CONSTANTS
    ann = ann
    bob = bob
    rest = rest
    mcp = mcp
    analyst = analyst
    k1 = k1
    k2 = k2
    i1 = i1
    i2 = i2
    None = None
    Deleted = Deleted
    Callers <- Sessions
    Queries = {"plain", "draws"}
    Asking = {}
    Volatile = {"draws"}
    First <- Equal
    Regimes <- Equal
    Calls = {k1, k2}
    Ids = {i1, i2}
    Sweepers = {"w"}
    CacheMax = 1
    MaxStamp = 0
    MaxData = 0
    MaxFaults = 1
INVARIANTS TypeOK RowsHaveTheirFile
PROPERTIES ObjectsArePurged
