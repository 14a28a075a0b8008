SPECIFICATION Spec
CONSTANTS
    Users = {u1}
    Sessions = {s1}
    Keys = {k1, k2}
    None = None
    MaxOrders = 2
    Charge <- MCCharge
    Opening = 5
    Operations = {"place", "sync"}
    Faults = {}
    Reports <- UsualReports
    Undelivered = {0, 1}
    Coupons = {FALSE}
    MaxUses = 1
    PerUserLimit = 1
    CommissionCap = 1
INVARIANTS
    CommissionCapped
