SPECIFICATION Spec
CONSTANTS
    k1 = k1
    k2 = k2
    Keys = {k1, k2}
    MaxUsers = 2
    MaxAgents = 2
    MaxLives = 3
    MaxMessages = 2
    MaxTasks = 2
    MaxChanges = 3
SYMMETRY Symmetry
CHECK_DEADLOCK FALSE
INVARIANTS
    TypeOK
    LivingAreSeparate
    OnlyTurnsBringBack
PROPERTIES
    
    HistoryNeedsPurge
