SPECIFICATION ChatSpec
CONSTANTS
    n_layers = 2
    Replies = {"x", "y"}
    Tokens = {"x", "y", "bos", "sys", "user", "eot", "asst"}
    MaxNew = 3
    System = TRUE
    MaxPos = 24
    Vocabulary = 4
    MaxMass = 3
INVARIANTS
    CacheIsContext
    SampledFromDialog
    PromptIsWellFormed
    NucleusIsSmallest
PROPERTIES
    ContextSpec
    ConversationSpec
    TurnEnds
CHECK_DEADLOCK FALSE
