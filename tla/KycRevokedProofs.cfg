SPECIFICATION Spec
CONSTANTS
    a1 = a1
    i1 = i1
    k1 = k1
    k2 = k2
    s1 = s1
    s2 = s2
    n1 = n1
    n2 = n2
    over18 = over18
    over21 = over21
    NoAddress = NoAddress
    NoIssuer = NoIssuer
    Address = {a1}
    IssuerId = {i1}
    Key = {k1}
    Subject = {s1}
    Nonce = {n1}
    Claim = {over18, over21}
    Credential <- OneCredential
    MaxLedger = 4
    MinPersistentTtl = 1
    MaxEpoch = 2
    CLAIM_TTL_THRESHOLD = 1
    CLAIM_TTL_EXTEND_TO = 3
    NONCE_MIN_TTL = 1
    NONCE_MAX_TTL = 4
    PROOF_MAX_WINDOW = 1
    MaxPresentations = 2
    MaxRevocations = 3
    Validity = {0, 1}
INVARIANT
    ProofsDieWithTheirEpoch
CHECK_DEADLOCK FALSE
