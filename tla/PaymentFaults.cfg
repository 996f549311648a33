SPECIFICATION FairSpec
CONSTANTS
    p1 = p1  p2 = p2  acct = acct  nobody = nobody  usd = usd  eur = eur
    k1 = k1
    Payments = {p1}
    Wants <- MCWants
    Accounts = {acct}
    Currency = usd
    NoAmount = NoAmount
    OpeningFunds = 3
    FaultKeys = {k1}
    Timeout = 5
    DefaultDelay = 6
    Delays = {1}
INVARIANTS
    DebitNeedsValidToken
    ReceiptNeedsDebit
PROPERTIES
    DebitedIsAccepted
