SPECIFICATION FairSpec
CONSTANTS
    localFile = localFile
    hubFile = hubFile
    otherFile = otherFile
    bigFile = bigFile
    m = m
    Names = {m}
    InUse = {}
    Local = {localFile}
    Remote = {hubFile, otherFile, bigFile}
    Size <- MCSize
    Announced = {hubFile, otherFile}
    Hashed = {hubFile, otherFile, bigFile}
    Ranged = {hubFile, otherFile}
    MaxBytes = 3
    Jobs = {j1, j2}
    MaxAsks = 3
    MaxCrashes = 1
CHECK_DEADLOCK FALSE
INVARIANTS
    TypeOK
    ModelsAreWhole
    ClaimsMatchJobs
PROPERTIES
    LibraryIsKept
    EveryJobEnds
