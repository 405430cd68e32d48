SPECIFICATION MCSpec
CONSTANTS
    Texts <- MCTexts
    ShortTexts <- MCShortTexts
    kDefaultCapacity = 1
    Values = 2
    MaxBlocks = 3
    MaxCells = 4
    MaxCalls = 5
    Tokens <- MCTokens
    InvalidIndex = 9
    MaxTokens = 2
    MaxPointerCalls = 3
INVARIANTS
    BlocksOwnedOnce
    ValuesKeepPromises
    ValuesAreValidated
PROPERTIES
    PointersFindValues
CHECK_DEADLOCK FALSE
