SPECIFICATION Spec
CONSTANTS
    Keys = {k1, k2}
    Desks = {d1}
    Ops = {"approve", "deny", "link", "unlink", "grant", "revoke", "activate", "deactivate"}
    MaxUsers = 2
    MaxRows = 2
    MaxTasks = 6
    MaxVisits = 3
SYMMETRY Symmetry
CHECK_DEADLOCK FALSE
INVARIANTS
    TypeOK
    TrailTellsAccess
PROPERTIES
    ListIsKept
