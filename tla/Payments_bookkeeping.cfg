\* Two concurrent requests work on two payments between two accounts.
SPECIFICATION Spec
CONSTANTS
    r1 = r1
    r2 = r2
    t1 = t1
    t2 = t2
    k1 = k1
    k2 = k2
    usd = usd
    None = None
    Requests = {r1, r2}
    Accounts = {1, 2}
    TxnIds = {t1, t2}
    Keys = {k1, k2}
    Currencies = {usd}
    Amounts = {0, 2}
    Openings <- TwoOrNegative
    Callers = {None}
    MaxBigint = 4
    PoolSize = 2
    WebhookURL = FALSE
    Faults = {}
SYMMETRY Symmetry
INVARIANTS
    TypeOK
    LedgerReplays
    NoLostUpdate
    ExplicitLocksDeadlockFree
PROPERTIES
    ImplementsAtomicPayments
    MoneyConserved
