SPECIFICATION Spec
CONSTANTS
    r1 = r1
    r2 = r2
    r3 = r3
    q1 = q1
    q2 = q2
    q3 = q3
    k1 = k1
    k2 = k2
    u1 = u1
    RunId = {r1, r2, r3}
    Account = {u1}
    NoAccount = NoAccount
    Listener = {}
    NoRun = NoRun
    MaxSteps = 0
    Key = {k1, k2}
    NoKey = NoKey
    Request = {q1, q2, q3}
    WriteFaults = TRUE
SYMMETRY Interchangeable
INVARIANTS
    PurchasesSound
    DepositsGated
    KeyOfFundsKept
CHECK_DEADLOCK FALSE
