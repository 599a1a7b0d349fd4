SPECIFICATION Spec
CONSTANTS
    s1 = s1
    s2 = s2
    p1 = p1
    p2 = p2
    r1 = r1
    f1 = f1
    c1 = c1
    None = None
    Nobody = Nobody
    Sigs = {s1, s2}
    Requests = {r1}
    Refreshes = {f1}
    Collections = {c1}
    Parts = {p1, p2}
    RetainDirs = 1
    MaxSnapshot = 2
    MaxFaults = 1
SYMMETRY Symmetry
INVARIANTS TypeOK VendedIsWhole
PROPERTIES ReplacedByAnother
