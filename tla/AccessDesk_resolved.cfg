SPECIFICATION Spec
CONSTANTS
    Keys = {k1}
    Desks = {d1, d2}
    Ops = {"approve", "deny"}
    MaxUsers = 1
    MaxRows = 2
    MaxTasks = 4
    MaxVisits = 2
SYMMETRY Symmetry
CHECK_DEADLOCK FALSE
PROPERTIES
    ResolvedOnce
