SPECIFICATION Spec
CONSTANTS
    x1 = x1
    x2 = x2
    c1 = c1
    Exts = {x1, x2}
    Cats = {c1}
    CatOf <- OneCategory
    Sessions = {s1, s2}
    MinRows = 2
    MinLive = 2
    Rates = {1, 2}
    Faults = {"cut", "bad", "net"}
    MaxEvents = 2

PROPERTIES
    CategoryVisible
CHECK_DEADLOCK FALSE
