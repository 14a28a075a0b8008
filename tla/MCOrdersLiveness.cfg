SPECIFICATION FairSpec
CONSTANTS
    Users = {u1}
    Sessions = {s1, s2}
    Keys = {k1}
    None = None
    MaxOrders = 2
    Charge <- MCCharge
    Opening = 5
    Operations = {"place", "sync", "cancel"}
    Faults = {"timeout"}
    Reports <- UsualReports
    Undelivered = {0, 1}
    Coupons = {FALSE}
    MaxUses = 1
    PerUserLimit = 1
    CommissionCap = 1
INVARIANTS
    KeyPlacedOnce
PROPERTIES
    EventuallySettled
