SPECIFICATION Spec
CONSTANTS
    auth = auth  ledger = ledger
    Services = {auth, ledger}
    Faults = {auth}
    Polled <- MCPolled
    AuthKey = auth
    DbLock = ledger
    Probing = TRUE
    StatusFails = TRUE
    NoToken = NoToken
    Runs = {1}
    MaxRuns = 1
    MaxCycles = 2
    MaxKills = 0
CHECK_DEADLOCK FALSE
INVARIANTS
    RecoveryTokenIsRestored
