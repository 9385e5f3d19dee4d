SPECIFICATION FairSpec
CONSTANTS
    crash = 1
    db = 1
    model = 1
    smtp = 2
    lost = 1
    imap = 1
    admin = 2
    human = 1
    MaxIncidents = 2
    MaxArrivals = 2
    MaxAttempts = 2
    LookBack = 50
    Filing = FALSE
    Users = {"ann"}
    Addresses = {"home"}
    Texts = {"t1", "t2"}
    Agents = {"default"}
    Default = "default"
    Mails = {1, 2, 5, 6}
    Kind <- MCKind
    Sender <- MCSender
    Text <- MCText
    Owner <- MCOwner
    Budget <- MCBudget
PROPERTIES
    EveryTaggedMailIsSettled
