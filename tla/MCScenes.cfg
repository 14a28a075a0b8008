SPECIFICATION Spec
CONSTANTS
    Owners = {o1}
    Slugs = {s1, s2}
    Tokens = {k1, k2}
    NoToken = NoToken
    Requests = {r1, r2}
    PerOwner = 2
    Overlap = FALSE
    MaxRows = 2
    MaxOps = 5
    MaxRestarts = 2
    Readers = {1, 2}
    Runs = {w1}
    BatchSize = 2
    MaxTries = 2
    MaxCasts = 2
    MaxPlans = 2
    MaxEdits = 2
    MaxCrashes = 1
    Panels = {p1, p2}
    Services = {s1}
    Calls = {c1, c2}
    DegradedAfter = 2
    DownAfter = 3
    MaxCalls = 5
    MaxToggles = 2
    Users = {u1}
    Txs = {t1, t2}
    Duration = 1
    MaxTime = 3
    MaxGrants = 3
    MaxTxs = 4
    Admins = {a1}
    Tasks = {t1}
    Things = {x1, x2}
    Forms = {"credit", "debit", "price", "catname", "broadcast", "search", "star",
             "couponcode", "catadd", "global", "margin", "switch"}
    Serial = TRUE
    MaxTaps = 5
    Payments = {p1}
    Sessions = {s1, s2}
    Amounts = {1, 2}
    MaxOpened = 3
    MaxOrders = 3
    Chunk = 2
    ShortLists = FALSE
    Misleading = FALSE
    Procs = {q1, q2}
    MaxUses = 1
    MaxWords = 1
    Rates = {5900, 9137}
    Costs = {15, 9999}
    Quantities = {333}
    Markups = {0, 5}
    Margins = {5, 20}
    CustomPrices = {0, 100}
    Percents = {0, 30}
    Coupons = {0, 500}
INVARIANTS
    BotsMatchRows
    CountsExact
    FlagHonest
    AsAsked
    DepositOnce
    HonestAnswers
    OperatorKept
    ChargedFairly
PROPERTY TripKept
CHECK_DEADLOCK FALSE
