SPECIFICATION Spec
CONSTANTS
    newcomer = newcomer
    regular = regular
    admin = admin
    Users = {newcomer, regular, admin}
    Owner = Nobody
    Nobody = Nobody
    Admins = {admin}
    Regulars = {regular}
    Tasks = {t1, t2}
    Applied <- AppliedDef
    Uses <- UsesDef
    Price = 1
    MinPayout = 1
    MaxUpdates = 5
    MaxApps = 2
SYMMETRY Symmetry
INVARIANTS
    CashAccounted
    WelcomeOnce
    TermsFirst
PROPERTY StaffOnly
CHECK_DEADLOCK FALSE
