SPECIFICATION Spec
CONSTANTS
    a1 = a1
    i1 = i1
    k1 = k1
    k2 = k2
    s1 = s1
    s2 = s2
    n1 = n1
    n2 = n2
    over18 = over18
    over21 = over21
    NoAddress = NoAddress
    NoIssuer = NoIssuer
    Address = {a1}
    IssuerId = {i1}
    Key = {k1, k2}
    Subject = {s1, s2}
    Nonce = {n1, n2}
    Claim = {over18, over21}
    Credential <- OneCredential
    MaxLedger = 3
    MinPersistentTtl = 1
    MaxEpoch = 1
    CLAIM_TTL_THRESHOLD = 1
    CLAIM_TTL_EXTEND_TO = 2
    NONCE_MIN_TTL = 1
    NONCE_MAX_TTL = 3
    PROOF_MAX_WINDOW = 1
    MaxPresentations = 2
    MaxRevocations = 2
    Validity = {1}
SYMMETRY Interchangeable
INVARIANTS
    PresentationSpentOnce
    RecordWithinNonce
    EpochCountsRevocations
    TrustSound
PROPERTIES
    RecordMovesForward
    ImplementsClaimLedger
CHECK_DEADLOCK FALSE
