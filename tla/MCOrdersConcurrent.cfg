SPECIFICATION Spec
CONSTANTS
    Users = {u1}
    Sessions = {s1, s2}
    Keys = {k1, k2}
    None = None
    MaxOrders = 3
    Charge <- MCCharge
    Opening = 5
    Operations = {"place", "sync", "refill", "resolve"}
    Faults = {"reject", "timeout"}
    Reports = {"processing", "partial", "completed", "canceled", "failed"}
    Undelivered = {1}
    Coupons = {FALSE}
    MaxUses = 1
    PerUserLimit = 1
    CommissionCap = 1
SYMMETRY SessionSymmetry
INVARIANTS
    TypeOK
    HoldsBacked
    NoFreeDelivery
    UndeliveredPaidBack
PROPERTIES
    ImplementsEscrow
