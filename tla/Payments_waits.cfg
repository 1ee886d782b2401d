\* Waits for rows, keys and deadlocks end; one payment is already authorized.
SPECIFICATION WarmFairSpec
CONSTANTS
    r1 = r1
    r2 = r2
    t1 = t1
    t2 = t2
    k1 = k1
    k2 = k2
    usd = usd
    None = None
    Requests = {r1, r2}
    Accounts = {1, 2}
    TxnIds = {t1, t2}
    Keys = {k1, k2}
    Currencies = {usd}
    Amounts = {1}
    Openings = {1}
    Callers = {None}
    MaxBigint = 2
    PoolSize = 2
    WebhookURL = FALSE
    Faults = {}
PROPERTIES
    EveryRequestEnds
