SPECIFICATION Spec
CONSTANTS
    Vocabulary <- MCVocabulary
    max_new = 4
INVARIANTS
    NeverGarbled
    NothingElseHeldBack
    WrittenInFull
CHECK_DEADLOCK FALSE
