SPECIFICATION SpammerSpec
CONSTANTS
    Labels = {"F1", "F2", "F9"}
    Writers <- WritersDef
    HighCapacity = 2
    NormalCapacity = 1
    MaxFaults = 1
    Keys = {"F1", "F2"}
    ShiftKeys = {"F2"}
    RuleKeys = {"F1"}
    AtkKey <- AtkDef
    DefKey <- DefDef
    PotKey = "F1"
    MaxSessions = 2
    CycleOf <- CycleOfDef
    GearOf <- GearOfDef
    Scenarios <- ScenariosDef
INVARIANTS ReleaseIsFinal ActiveHasWork
PROPERTIES ClickIsIntended
CHECK_DEADLOCK FALSE
