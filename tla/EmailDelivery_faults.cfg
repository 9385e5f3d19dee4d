SPECIFICATION Spec
CONSTANTS
    crash = 1
    db = 1
    model = 1
    smtp = 2
    lost = 1
    imap = 1
    admin = 1
    human = 0
    MaxIncidents = 3
    MaxArrivals = 2
    MaxAttempts = 2
    LookBack = 50
    Filing = TRUE
    Users = {"ann"}
    Addresses = {"home", "work"}
    Texts = {"t1", "t2"}
    Agents = {"default", "other"}
    Default = "default"
    Mails = {1, 4, 6}
    Kind <- MCKind
    Sender <- MCSender
    Text <- MCText
    Owner <- MCOwner
    Budget <- MCBudget
CONSTRAINT FirstComes
ACTION_CONSTRAINT InTime
INVARIANTS
    TypeOK
    AnswersMatchTheirMail
    RepeatsAreAccountedFor
    UndeliveredIsNotRegenerated
    FoldersTellTheEnd
    
