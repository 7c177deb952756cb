CONSTANTS
    Personality = "Es012"
    MCOUNTER_VALUE_MAX = 2
    Commands <- LinkCommands
    SaveOutcomes = {"saved"}
    Requests <- AllRequests
    BusyPolls = 1
    MaxNonce = 2
    MaxSessions = 1
    MaxQueue = 4
    StraySizes = {1, 6}
    None = None
SPECIFICATION Spec
INVARIANTS ChannelClean ResponsesInOrder
