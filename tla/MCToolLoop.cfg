SPECIFICATION ToolLoopSpec
CONSTANTS
    Tools = {"autopot"}
    MaxGames = 3
    Rules <- RulesDef
    MaxTicks = 2
PROPERTIES StopReturns
CHECK_DEADLOCK FALSE
