SPECIFICATION UnitSpec
SYMMETRY Symmetry
CHECK_DEADLOCK FALSE
CONSTANTS
    KeyType <- MCKeyType
    OurKey = "gateway"
    Verifiers <- MCVerifiers
    SignRequests <- MCSignRequests
    OthersTokens <- MCOthersTokens
    Call = {c1, c2}
    MaxTime = 2
    Width = 2
    HighBit = 16
    SEQUENCE = 3
    INTEGER = 2
    ScalarBytes = {0, 1, 15, 16}
    MaxEdits = 1
    MINIMUM_STATUS_LIST_ENTRIES = 8
    MAX_STATUS_LIST_BYTES = 4
    EntryCounts = {7, 8, 12, 16}
    Sizes = {0, 1, 2, 9}
    MaxSet = 2
    DamageBytes = {64, 0, 1, 16, 33, 63}
    Caller = {k1, k2}
    Limit = 2
    Window = 2
    PruneAbove = 1
    MaxClock = 4
    MaxAttempts = 3
INVARIANTS
    AcceptedSound
    JtiAcceptedOnce
    DerExact
    ListSound
PROPERTIES
    LimiterPromise
