\* One payment; statements fail, acknowledgements are lost, the server crashes.
SPECIFICATION Spec
CONSTANTS
    r1 = r1
    r2 = r2
    t1 = t1
    t2 = t2
    k1 = k1
    usd = usd
    eur = eur
    None = None
    Requests = {r1, r2}
    Accounts = {1, 2}
    TxnIds = {t1, t2}
    Keys = {k1}
    Currencies = {usd, eur}
    Amounts = {2}
    Openings = {1, 2}
    Callers = {None, 1}
    MaxBigint = 3
    PoolSize = 2
    WebhookURL = FALSE
    Faults = {"abort", "lost_ack", "audit", "crash"}
SYMMETRY Symmetry
INVARIANTS
    DoubleEntry
    SameCurrency
PROPERTIES
    LifecycleRespected
