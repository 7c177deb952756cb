CONSTANTS
    Personality = "Es220"
    MCOUNTER_VALUE_MAX = 2
    Commands <- MemoryCommands
    SaveOutcomes = {"saved"}
SPECIFICATION DSpec
INVARIANTS SavedUnlessWriteFailed StoredKeysUsable ChangesAreAllowed CountersOnlyCountDown
