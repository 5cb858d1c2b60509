SPECIFICATION Spec
CONSTANTS
    Documents = {"a", "b", "c"}
    MaxCrashes = 2
    MaxDamage = 1
    MaxSaves = 3
    MaxIoErrors = 1
    Processes = {"desktop", "import"}
    Tasks = {1, 2, 3}
    MaxAttempts = 1
    Files = {"exe", "dll"}
    Policies = {"Refuse", "ReplaceNotReady"}
    MaxDamages = 1
    MaxKills = 1
    MaxErrors = 1
    MaxInstalls = 2
    MaxToolErrors = 1
    MaxToolKills = 1
    MaxToolOps = 3
    MaxToolLaunches = 1
    MaxUserEdits = 1
    Launches = {"l1", "l2"}
    MaxTogether = 2
    MaxStarts = 2
    MaxReplacements = 1
    ObservationLimit = 1
    RunLimit = 1
    RecordAge = 3
    ExitKinds = {"crash", "zero"}
    Verdicts = {"Passed"}
    Keys = {"k"}
    MaxRecordErrors = 1
INVARIANTS GuardsExclude ActivationSound WrapperIsSound RecordsAreSound
PROPERTIES DocumentImplemented TreesSurvive
CHECK_DEADLOCK FALSE
