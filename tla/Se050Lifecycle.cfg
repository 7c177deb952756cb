CONSTANTS
    NoId = NoId
    i1 = i1
    i2 = i2
    Byte = 4
    Block = 2
    PlatformKeys = {"k1"}
    Applet = "V7_2_0"
    StrictEcdh = TRUE
    Commands <- LifecycleCommands
    OverChannel <- LifecycleCommands
    InPlain <- LifecycleCommands
    Persistent = TRUE
    SaveOutcomes = {"saved"}
    Crashes = FALSE
SPECIFICATION OSpec
INVARIANTS CountersCount CurvesKeepParameters FileIsCurrent ObjectsHaveMetadata
PROPERTY ScpRequiredSticks
