SPECIFICATION Spec
SYMMETRY Symmetry
CHECK_DEADLOCK FALSE
CONSTANTS
    a1 = a1
    a2 = a2
    t1 = t1
    t2 = t2
    AccountId <- MCAccountId
    Token <- MCToken
    Email = {e1, e2}
    Password = {p1, p2}
    None = None
    SessionTtl = 2
    MaxTime = 2
    WriteFaults = TRUE
    ResetWhileUp = FALSE
INVARIANTS
    StoresSound
    SessionsSound
    ResetTakesHold
