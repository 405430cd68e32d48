SPECIFICATION MCSpec
CONSTANTS
    Lexemes <- MCLexemes
    ParseFlags <- MCFlags
    MaxDepth = 3
    MaxCount = 2
    indentCharCount_ = 2
INVARIANTS
    ParsersAgree
    WritersCopy
PROPERTIES
    EmitsOneValue
    TextsConvert
    NumbersConvert
CHECK_DEADLOCK FALSE
