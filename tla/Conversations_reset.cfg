SPECIFICATION Spec
CONSTANTS
    k1 = k1
    k2 = k2
    Keys = {k1}
    MaxUsers = 1
    MaxAgents = 1
    MaxLives = 1
    MaxMessages = 2
    MaxTasks = 1
    MaxChanges = 1
SYMMETRY Symmetry
CHECK_DEADLOCK FALSE
INVARIANTS
    ResetForgets
