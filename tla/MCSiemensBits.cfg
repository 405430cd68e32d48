SPECIFICATION Spec
CONSTANTS
    Config <- MCConfig
    ListOfDataItemGroups <- MCGroups
    DeviceValues <- MCDeviceValues
    Requests <- MCRequests
    MaxVars = 20
INVARIANTS
    ClientExclusive
    OfflineCleared
    WriteSendsPayload
    LocalCopyIsPolled
    WriteAnswerIsTrue
    WriteAllWritable
PROPERTIES
    ImplementsProcessImage
