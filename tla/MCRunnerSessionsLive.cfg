CONSTANTS
    o1 = o1
    o2 = o2
    o3 = o3
    p1 = p1
    planA = planA
    planB = planB
    wine = wine
    NoOne = NoOne
    Ops <- MCOps2
    Prefixes <- MCPrefixes
    OpPrefix <- MCOpPrefix
    OpRunner <- MCOpRunner
    OpPlan <- MCOpPlan
    Launchers <- MCOne
    Clients <- MCTwo
    Quiescers <- MCNone
    MaxSessions = 2
SPECIFICATION FairSpec
INVARIANTS ActiveIsExact
PROPERTIES BeginResolves QuietSessionStops
CHECK_DEADLOCK FALSE
