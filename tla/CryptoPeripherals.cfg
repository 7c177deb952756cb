CONSTANTS
    NBD = 3
    MAX_BD_CHAIN = 4
    MAX_POLLED = 4
    BUF = 2
    BLOCK = 2
    Streams <- MCStreams
    Singles <- MCSingles
    Silicons = {"EF", "EC"}
    MaxArms = 3
    Contexts = {c1, c2}
    Algos = {"MD5", "SHA256"}
    MaxWords = 2
    MaxAbsorbed = 3
    BLOCK_WORDS = 2
    Crs <- MCCrs
    KeyWrites <- MCKeyWrites
    Ivs = {1}
    MaxFed = 4
    MaxHashed = 3
SPECIFICATION Spec
INVARIANTS DigestIsMessage SingleUndisturbed DigestIsOwn EngineInStep OutputIsReference
PROPERTIES StreamProgress
