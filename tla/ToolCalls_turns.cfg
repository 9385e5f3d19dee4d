SPECIFICATION Spec
CONSTANTS
    Turns = {t1, t2}
    Configs = {c1, c2}
    NoConfig = NoConfig
    AtStart = c1
    Keys = {k1}
    Concurrency = 1
    MaxObjects = 2
    MaxConnections = 4
    MaxEvents = 2
    MaxRounds = 1
    MaxCalls = 2
INVARIANTS TypeOK NothingLeftOpen CallsAreAccountedFor
PROPERTY TurnsFinish
CHECK_DEADLOCK FALSE
