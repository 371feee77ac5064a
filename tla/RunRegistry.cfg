SPECIFICATION RegistrySpec
CONSTANTS
    r1 = r1
    r2 = r2
    u1 = u1
    u2 = u2
    l1 = l1
    l2 = l2
    RunId = {r1, r2}
    Account = {u1, u2}
    NoAccount = NoAccount
    Listener = {l1, l2}
    NoRun = NoRun
    MaxSteps = 2
INVARIANTS
    OneOutcome
    StreamFollowsRun
PROPERTIES
    RunsEnd
CHECK_DEADLOCK FALSE
