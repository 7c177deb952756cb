CONSTANTS
    NoId = NoId
    i1 = i1
    i2 = i2
    Byte = 4
    Block = 2
    PlatformKeys = {"k1"}
    Applet = "V7_2_0"
    StrictEcdh = TRUE
    Commands <- PolicyCommands
    OverChannel <- PolicyCommands
    InPlain <- PolicyCommands
    Persistent = TRUE
    SaveOutcomes = {"saved"}
    Crashes = TRUE
SPECIFICATION OSpec
INVARIANT ObjectsHaveMetadata
