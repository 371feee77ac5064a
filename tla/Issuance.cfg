SPECIFICATION Spec
CONSTANTS
    w1 = w1
    w2 = w2
    s1 = s1
    s2 = s2
    q1 = q1
    q2 = q2
    q3 = q3
    Wallet = {w1, w2}
    Session = {s1, s2}
    Request = {q1, q2, q3}
    NoWallet = NoWallet
    NoSession = NoSession
    NoCredential = NoCredential
    MaxAllocations = 3
    MAX_REVOCATION_INDEX = 1
    LIST_ENTRIES = 1
SYMMETRY Interchangeable
INVARIANTS
    IndexesUnique
    CredentialsEarned
    RevocationSurvives
    CustodyKept
CHECK_DEADLOCK FALSE
