SPECIFICATION Spec
CONSTANTS
    sales = sales
    orders = orders
    items = items
    c = c
    d = d
    g = g
    m1 = m1
    m2 = m2
    r = r
    analyst = analyst
    agent = agent
    ann = ann
    k1 = k1
    k2 = k2
    i1 = i1
    i2 = i2
    i3 = i3
    None = None
    Schemas = {sales}
    Names = {orders, items}
    Columns = {c, d}
    Tags = {g}
    MaskPolicies = {m1, m2}
    RowPolicies = {r}
    Roles = {analyst, agent}
    Principals = {ann}
    Agent = agent
    Calls = {k1, k2}
    Ids = {i1, i2, i3}
    First <- There
    Seeds <- SeedModels
    MaxFaults = 1
SYMMETRY Symmetry
INVARIANT MasksNeverLapse
