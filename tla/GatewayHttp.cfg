SPECIFICATION HttpSpec
CHECK_DEADLOCK FALSE
CONSTANTS
    w1 = w1
    w2 = w2
    Req = {q1, q2, q3}
    Address = {w1, w2}
    SessionId = {s1, s2}
    BODY_CAP_BYTES = 1
    Chunks = {1}
    SESSION_JWT_MAX_TTL_SECONDS = 1
    MaxSeconds = 2
    Paths <- AllPaths
    Methods = {"GET", "POST"}
SYMMETRY Symmetry
INVARIANTS
    AnswersSound
    IssuedForLiveToken
PROPERTIES
    AnswersDiscreet
