CONSTANTS
    NoId = NoId
    aes = aes
    x1 = x1
    x2 = x2
    Byte = 4
    Block = 2
    MaxFed = 5
    PlatformKeys = {"k1"}
    Applet = "V7_2_0"
    StrictEcdh = TRUE
    Commands <- StreamCommands
    OverChannel <- StreamCommands
    InPlain <- StreamCommands
    Persistent = FALSE
    SaveOutcomes = {"saved"}
    Crashes = FALSE
SPECIFICATION SSpec
INVARIANTS StreamIsOneShot NothingLostInCipher ContextsMatchCryptoObjects
