SPECIFICATION Spec
CONSTANTS
    main = main
    sales = sales
    hr = hr
    x1 = x1
    x2 = x2
    x3 = x3
    x4 = x4
    x5 = x5
    q1 = q1
    q2 = q2
    b1 = b1
    NoContext = NoContext
    Catalogs = {main, sales, hr}
    Default = main
    Contexts = {x1, x2, x3, x4, x5}
    Requests = {q1, q2}
    Background = {b1}
    MaxActive = 2
    MaxGets <- MCMaxGets
INVARIANTS TypeOK LeasesAreRight OneContextPerCatalog SettledIsOpen
PROPERTIES HeldStaysOpen
