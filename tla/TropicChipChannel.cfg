CONSTANTS
    Personality = "Es220"
    MCOUNTER_VALUE_MAX = 2
    Commands <- ChannelCommands
    SaveOutcomes = {"saved"}
    Requests <- ChannelRequests
    BusyPolls = 0
    MaxNonce = 2
    MaxSessions = 2
    MaxQueue = 1
    StraySizes = {6}
    None = None
SPECIFICATION Spec
INVARIANT NoReplay
PROPERTIES ChangesAreAnswered ImplementsDevice
