SPECIFICATION Spec
CONSTANTS
    Config <- MCConfig
    ListOfDataItemGroups <- MCGroups
    DeviceValues <- MCDeviceValues
    Requests <- MCRequests
    Queries <- MCQueries
    MaxVars = 20
INVARIANTS
    TypeOK
    ConfirmedWriteReached
    ImageIsWhole
