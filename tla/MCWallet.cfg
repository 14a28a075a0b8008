SPECIFICATION Spec
CONSTANTS
    Sessions = {s1, s2}
    Keys = {k1, k2, k3}
    Amounts = {1, 2}
    None = None
SYMMETRY Symmetry
INVARIANTS
    TypeOK
    LedgerLegal
    RowMatchesLedger
PROPERTY ImplementsStatement
CHECK_DEADLOCK TRUE
