SPECIFICATION Spec
CONSTANTS
    auth = auth  ledger = ledger
    Services = {auth, ledger}
    Faults = {ledger}
    Polled <- MCPolled
    AuthKey = auth
    DbLock = ledger
    Probing = FALSE
    StatusFails = FALSE
    NoToken = NoToken
    Runs = {1, 2}
    MaxRuns = 2
    MaxCycles = 1
    MaxKills = 1
CHECK_DEADLOCK FALSE
INVARIANTS
    RecoveryIsClean
    ActiveIsFaulty
    SliceIsOwn
    LeftOnIsRecorded
