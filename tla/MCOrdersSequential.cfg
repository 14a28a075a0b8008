SPECIFICATION Spec
CONSTANTS
    Users = {u1, u2}
    Sessions = {s1}
    Keys = {k1}
    None = None
    MaxOrders = 3
    Charge <- MCCharge
    Opening = 5
    Operations = {"place", "sync", "cancel", "refill", "resolve"}
    Faults = {"reject", "timeout", "garbled", "crash"}
    Reports = {"pending", "processing", "partial", "completed", "canceled", "failed"}
    Undelivered = {1}
    Coupons = {TRUE, FALSE}
    MaxUses = 2
    PerUserLimit = 1
    CommissionCap = 2
SYMMETRY UserSymmetry
INVARIANTS
    RefundCap
    DeliveredNotRefunded
    CommissionOnDelivery
    CouponWithinLimits
    CouponCountExact
PROPERTIES
    FinishedStays
