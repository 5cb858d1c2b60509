CONSTANTS
    c1 = c1
    c2 = c2
    NoClient = NoClient
    Clients <- MCClients
    MaxProcs = 3
SPECIFICATION Spec
INVARIANT HandoffSparesOthers
CHECK_DEADLOCK FALSE
