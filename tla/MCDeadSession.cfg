CONSTANTS
    o1 = o1
    o2 = o2
    o3 = o3
    p1 = p1
    planA = planA
    planB = planB
    wine = wine
    NoOne = NoOne
    Ops <- MCOne
    Prefixes <- MCPrefixes
    OpPrefix <- MCOpPrefix
    OpRunner <- MCOpRunner
    OpPlan <- MCOpPlan
    Launchers <- MCOne
    Clients <- MCOne
    Quiescers <- MCOne
    MaxSessions = 1
SPECIFICATION FairSpec
PROPERTY DeadSessionFails
CHECK_DEADLOCK FALSE
