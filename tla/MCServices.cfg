SPECIFICATION Spec
CONSTANTS
    MaxRuns = 2
    MaxEdits = 2
    MaxFaults = 1
    Operations = {"one", "two"}
    MaxReleases = 2
    MaxRequests = 4
    MaxRestarts = 1
    Tools = {"autopot", "autobuff"}
    MaxGames = 3
    Rules <- RulesDef
    MaxTicks = 1
    Requests = {"a", "b"}
    MaxWaits = 1
    Calls = {"one", "two"}
    Kinds = {"Hp", "Level"}
    MaxGenerations = 3
    MaxLeases = 2
    Players = {"a", "b"}
    Profiles = {"f"}
    Characters = {"x", "y"}
    Layouts <- LayoutsDef
    StableSamples = 2
    InvalidSamples = 3
    MaxCommands = 4
    Windows = {"c1", "c2"}
    Refreshes = {"r1", "r2"}
    MaxHandoffs = 1
    Runners = {"p", "q"}
    MaxSettingEdits = 4
    AddressSpace = 6
    ChunkSize = 2
    WordSize = 2
    MaxCandidates = 2
    Mappings <- MappingsDef
    Needles <- NeedlesDef
    Slots = 5
    AnchorWindow = 2
    PackedSpan = 1
    LayoutSpan = 1
    AnchorSets <- AnchorSetsDef
    MaxRefines = 2
INVARIANTS DraftsAreSound UpdateIsSound LinkIsSound ScannerIsSound ShownIsCurrent WindowsAreTrue
PROPERTIES InstalledStays CancelEnds LifecycleFrees
CHECK_DEADLOCK FALSE
