SPECIFICATION Spec
CONSTANTS
    auth = auth  ledger = ledger
    Services = {auth, ledger}
    Faults = {ledger}
    Polled <- MCPolled
    AuthKey = auth
    DbLock = ledger
    Probing = FALSE
    StatusFails = TRUE
    NoToken = NoToken
    Runs = {1}
    MaxRuns = 1
    MaxCycles = 1
    MaxKills = 0
CHECK_DEADLOCK FALSE
INVARIANTS
    IncidentHadItsFault
