SPECIFICATION Spec
CONSTANTS
    Addresses = {a, b}
    FailureLimit = 2
    Window = 1
    MaxTracked = 1
    MaxGuesses = 3
    Names = {"ENCRYPTION_KEY", "LOG_LEVEL"}
    SecretKey = "ENCRYPTION_KEY"
    Owners = {"u", "v"}
    MaxId = 3
    BatchSize = 1
    PageSizes = {1, 2}
    Offsets = {0, 1}
    Requests = {r, s}
    a = a
    b = b
    r = r
    s = s
    Steps = {"configure", "rename"}
CONSTRAINT OneStory
SYMMETRY Symmetry
INVARIANTS TypeOK GuessesAreLimited KeyIsKept 
PROPERTY RequestsAreAtomic
CHECK_DEADLOCK FALSE
