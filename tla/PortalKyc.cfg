SPECIFICATION Spec
CONSTANTS
    r1 = r1
    r2 = r2
    r3 = r3
    u1 = u1
    u2 = u2
    u3 = u3
    w1 = w1
    w2 = w2
    q1 = q1
    q2 = q2
    q3 = q3
    RunId = {r1, r2, r3}
    Account = {u1, u2, u3}
    NoAccount = NoAccount
    Listener = {}
    NoRun = NoRun
    MaxSteps = 0
    Wallet = {w1, w2}
    NoWallet = NoWallet
    NoTx = NoTx
    Request = {q1, q2, q3}
    MaxActiveRuns = 2
SYMMETRY Interchangeable
INVARIANTS
    AccountsSound
    RecordsForKeptWallets
    RunsBounded
PROPERTIES
    WalletFixed
CHECK_DEADLOCK FALSE
