SPECIFICATION FairSpec
CONSTANTS
    a = a
    b = b
    Users = {a, b}
    None = None
    Jobs = {1, 2, 3, 4}
    Kind <- MCKind
    Buyer <- MCBuyer
    Referred <- MCReferred
    Visits <- MCVisits
    Webhooks = {w1}
    Taps = {p1}
    Reconcile = Reconcile
    Sync = Sync
    OrderCap = 3
    MaxChances = 2
INVARIANTS
    OneCommission
    CommissionDue
PROPERTIES
    EventuallyRecorded
CHECK_DEADLOCK FALSE
