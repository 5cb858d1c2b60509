SPECIFICATION BindingRunSpec
CONSTANTS
    Payload <- MCPayload
    Legacy <- MCLegacy
    Invocations = {"l"}
    Builds <- MCBuilds
    MaxSwaps = 1
    MaxSetups = 1
    MaxToggles = 1
    RunnerPaths = {"current", "previous", "custom"}
    LaunchTargets = {"Game", "MaintenancePatcher", "OpenSetup", "GraphicsControlPanel"}
    Digests = {"old", "new"}
    Commands = {"c1", "c2"}
    MaxCommands = 3
    MaxReplacements = 1
    MaxRestarts = 1
    Askers = {"play", "rebuild"}
    Runners <- MCRunners
    Scopes = {"shared", "isolated", "custom"}
    MaxEvents = 2
INVARIANTS DecisionsAreCurrent
CHECK_DEADLOCK FALSE
