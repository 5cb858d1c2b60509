CONSTANTS
    c1 = c1
    c2 = c2
    NoClient = NoClient
    Clients <- MCClients
    MaxProcs = 3
SPECIFICATION FairSpec
INVARIANTS IdentityUnique ToolsHaveOneClient RelaunchExcludesClients
PROPERTIES OthersSpared StopEndsClient
CHECK_DEADLOCK FALSE
