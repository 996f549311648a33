SPECIFICATION FairSpec
CONSTANTS
    p1 = p1  p2 = p2  acct = acct  nobody = nobody  usd = usd  eur = eur
    k1 = k1
    Payments = {p1, p2}
    Wants <- MCRivals
    Accounts = {acct}
    Currency = usd
    NoAmount = NoAmount
    OpeningFunds = 3
    FaultKeys = {}
    Timeout = 5
    DefaultDelay = 6
    Delays = {}
INVARIANTS
    TypeOK
    OutcomeMatchesLedger
PROPERTIES
    EveryPaymentEnds
