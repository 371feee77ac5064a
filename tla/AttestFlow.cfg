SPECIFICATION Spec
SYMMETRY Symmetry
CHECK_DEADLOCK FALSE
CONSTANTS
    r1 = r1
    r2 = r2
    Run = {r1, r2}
    Margin = 2
    PROOF_MAX_WINDOW = 1
    RecordLifetime = 3
    MAX_EXPIRY_HORIZON = 2
    TxLife = 1
    PollAttempts = 1
    MaxEpoch = 1
    MaxLedger = 3
    Disclosures <- Accepted
INVARIANTS
    ReportsSound
    RecordOfOneRun
PROPERTIES
    EpochNeverGuessed
