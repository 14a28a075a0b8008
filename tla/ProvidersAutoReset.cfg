SPECIFICATION Spec
CONSTANTS
    Panels = {p1}
    Services = {s1}
    Calls = {c1}
    DegradedAfter = 2
    DownAfter = 3
    MaxCalls = 5
    MaxToggles = 0
INVARIANTS
    AutoReset
CHECK_DEADLOCK FALSE
