\* Three concurrent requests with one idempotency key, under every failure.
SPECIFICATION Spec
CONSTANTS
    r1 = r1
    r2 = r2
    r3 = r3
    t1 = t1
    t2 = t2
    k1 = k1
    usd = usd
    None = None
    Requests = {r1, r2, r3}
    Accounts = {1}
    TxnIds = {t1, t2}
    Keys = {k1}
    Currencies = {usd}
    Amounts = {2}
    Openings = {2}
    Callers = {None}
    MaxBigint = 3
    PoolSize = 2
    WebhookURL = TRUE
    Faults = {"abort", "lost_ack", "audit", "crash"}
SYMMETRY Symmetry
INVARIANTS
    OneTransactionPerKey
    SuccessIsDurable
    NotifiedOnceAndTruly
