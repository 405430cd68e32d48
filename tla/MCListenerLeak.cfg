SPECIFICATION FairSpec
CONSTANTS
    c1 = c1
    c2 = c2
    c3 = c3
    Clients <- MCClients
    Observed <- MCObserved
    MaxFds = 4
    LinkMayFail = FALSE
    AcceptMayFail = FALSE
PROPERTIES
    ServiceAlwaysReturns
