SPECIFICATION FairSpec
CONSTANTS
    MaxInvoices = 2
    Sessions = {s1, s2}
    Keys = {k1, k2}
    None = None
    Method <- MCMethod
    Limit = 2
    Faults = {"late"}
PROPERTIES
    ReceivedIsCredited
CHECK_DEADLOCK FALSE
