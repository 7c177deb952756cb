CONSTANTS
    Personality = "Es012"
    MCOUNTER_VALUE_MAX = 2
    Commands <- ConfigCommands
    SaveOutcomes = {"saved", "torn"}
SPECIFICATION DSpec
INVARIANT ChangesAreAllowed
PROPERTY RevocationIsPermanent
