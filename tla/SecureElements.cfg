CONSTANTS
    Conns = {c1, c2}
    NUM_SLOTS = 2
    SLOT_SIZE = 3
    OTP_SIZE = 2
    BLOCK = 2
    LockBlock = 2
    LockWord = 0
    Packets <- MCPackets
    StoreFiles <- MCStoreFiles
    AteccKeys = 1
    MaxStream = 1
    KeySlots = {0, 255}
    Frames <- MCFrames
    CertLength = 87
    StsafeKeys = 3
SYMMETRY Hosts
SPECIFICATION Spec
INVARIANTS SessionIsOwn SealedKeyIsOne IdentityIsOne
PROPERTIES AnsweredLocksLast KeysNeverRevert
