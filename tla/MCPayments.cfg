SPECIFICATION Spec
CONSTANTS
    MaxInvoices = 2
    Sessions = {s1, s2}
    Keys = {k1, k2}
    None = None
    Method <- MCMethod
    Limit = 1
    Faults = {"short", "late", "refund", "aging", "crash"}
SYMMETRY Symmetry
INVARIANTS
    StatusHonest
PROPERTIES
    ImplementsDeposits
CHECK_DEADLOCK FALSE
