SPECIFICATION Spec
CONSTANTS
    Questions = {"short", "long"}
    Replies = {"reply"}
    Models = {"small", "large"}
    EngineCtx = 8
    Tables <- MCTables
    Exact <- MCExact
    Estimate <- MCEstimate
    PromptSize = 1
    SummarySizes = {1, 2}
    SummaryBatch = 2
    MaxMessages = 7
INVARIANTS TypeOK SummaryIsThePast FewAreForgotten PromptIsSound
CHECK_DEADLOCK FALSE
