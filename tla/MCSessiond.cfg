CONSTANTS
    r1 = r1
    r2 = r2
    r3 = r3
    RequestIds <- MCRequestIds
    Forkers <- MCForkers
    MaxInFlight = 1
    ClientLines <- MCClientLines
    MaxLines = 4
    MaxUnread = 1
    NoId = NoId
SPECIFICATION MCSpec
INVARIANTS TypeOK StoppedIsClean RequestsPair
PROPERTIES IdleIsTruthful ShutdownCompletes
CHECK_DEADLOCK FALSE
