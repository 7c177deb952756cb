CONSTANTS
    NoId = NoId
    i1 = i1
    Byte = 2
    Block = 2
    Applet = "V7_2_0"
    StrictEcdh = TRUE
    Commands <- CardCommands
    InPlain <- CardPlain
    OverChannel <- CardChannel
    PlatformKeys = {"k0", "k1"}
    DefaultKeys = "k0"
    Conns = {"c1", "c2"}
    Unruly = {"c1"}
    LongAnswers <- CardLong
    BodyLen <- CardBodyLen
    MaxSessions = 2
    KeyVersions = {"any"}
    Levels = {2, 51}
    MaxPackets = 2
    MaxChunks = 1
    MaxPieces = 1
SPECIFICATION CSpec
INVARIANTS WrappedOnceInOrder ResponseIcvFresh PoliteHostInStep
PROPERTIES RotationNeedsKeysInForce ImplementsObjects
