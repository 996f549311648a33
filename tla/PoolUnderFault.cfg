SPECIFICATION FairSpec
CONSTANTS
    r1 = r1  r2 = r2  r3 = r3  r4 = r4  x1 = x1  x2 = x2
    a1 = a1  a2 = a2  usd = usd  eur = eur
    Requests = {r1, r2}
    Accounts = {a1}
    Currencies = {usd, eur}
    Ops <- MCTraffic
    MaxBalance = 3
    None = None
    PoolMax = 3
    Callers = {x1, x2}
    HoldRequested = 5
    NoCaller = NoCaller
    MaxCrashes = 1
INVARIANTS
    ConnectionsConserved
    FaultLeavesOne
    FaultConsistent
PROPERTIES
    EveryRequestEnds
    MonitorComesFree
