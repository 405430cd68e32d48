SPECIFICATION Spec
CONSTANTS
    Types = {"BOOL", "BYTE", "INT", "D_INT"}
    MaxMixed = 3
    MaxRegisters = 5
    Configs <- MCConfigs
CHECK_DEADLOCK FALSE
INVARIANTS
    NoSharedRegister
    FitsMemory
    OneAddress
    AcceptedWindowsFit
    EveryItemReadable
