SPECIFICATION Spec
CONSTANTS
    r1 = r1  r2 = r2  r3 = r3  r4 = r4  x1 = x1  x2 = x2
    a1 = a1  a2 = a2  usd = usd  eur = eur
    Requests = {r1, r2, r3, r4}
    Accounts = {a1, a2}
    Currencies = {usd, eur}
    Ops <- MCContention
    MaxBalance = 3
    None = None
    PoolMax = 2
    Callers = {}
    HoldRequested = 0
    NoCaller = NoCaller
    MaxCrashes = 1
SYMMETRY RequestSymmetry
CHECK_DEADLOCK FALSE
INVARIANTS
    TypeOK
    LockDiscipline
    JournalChain
    BooksBalance
    ReplyMatchesJournal
    CreatedOnce
PROPERTIES
    ImplementsAtomicLedger
