CONSTANTS
    Personality = "Es012"
    MCOUNTER_VALUE_MAX = 2
    Commands <- HostCommands
    SaveOutcomes = {"saved"}
    Requests <- HostRequests
    BusyPolls = 2
    MaxNonce = 2
    MaxSessions = 1
    MaxQueue = 4
    StraySizes = {1, 6}
    MaxPolls = 3
    None = None
SPECIFICATION HSpec
INVARIANT ExchangeIsWhole
PROPERTY EveryRequestEnds
