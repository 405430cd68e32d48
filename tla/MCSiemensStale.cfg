SPECIFICATION Spec
CONSTANTS
    Config <- MCConfig
    ListOfDataItemGroups <- MCGroups
    DeviceValues <- MCDeviceValues
    Requests <- MCRequests
    MaxVars = 20
PROPERTIES
    ReadsReturnPLCData
