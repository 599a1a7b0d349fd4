SPECIFICATION Spec
CONSTANTS
    k1 = k1
    k2 = k2
    t1 = t1
    t2 = t2
    far = far
    ann = ann
    None = None
    Whole = Whole
    Bypass = Bypass
    Agent = Agent
    Calls = {k1, k2}
    Tables = {t1, t2, far}
    Namespace = {t1, t2}
    Asked = {t1}
    Callers <- Sessions
    Regimes <- Rulebook
    MaxChanges = 1
SYMMETRY Symmetry
INVARIANTS TypeOK BaseStaysHidden RoutesAreReadable
