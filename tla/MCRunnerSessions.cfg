CONSTANTS
    o1 = o1
    o2 = o2
    o3 = o3
    p1 = p1
    planA = planA
    planB = planB
    wine = wine
    NoOne = NoOne
    Ops <- MCOps3
    Prefixes <- MCPrefixes
    OpPrefix <- MCOpPrefix
    OpRunner <- MCOpRunner
    OpPlan <- MCOpPlan
    Launchers <- MCNone
    Clients <- MCThree
    Quiescers <- MCTwo
    MaxSessions = 2
SPECIFICATION Spec
INVARIANTS OneSupervisorPerPrefix LeaseProtectsSession SupervisorsAreOwned
CHECK_DEADLOCK FALSE
