SPECIFICATION Spec
CONSTANTS
    ann = ann
    bob = bob
    rest = rest
    mcp = mcp
    analyst = analyst
    k1 = k1
    k2 = k2
    i1 = i1
    i2 = i2
    None = None
    Deleted = Deleted
    Callers <- ThreeSessions
    Queries = {"plain"}
    Asking = {}
    Volatile = {}
    First <- Equal
    Regimes <- Rulebook
    Calls = {k1, k2}
    Ids = {i1, i2}
    Sweepers = {}
    CacheMax = 1
    MaxStamp = 1
    MaxData = 1
    MaxFaults = 0
SYMMETRY Symmetry
INVARIANTS AnswersAreFresh
PROPERTIES ServedAsGoverned
