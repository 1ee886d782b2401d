\* Concurrent requests of two clients: one bucket each, and its bound.
SPECIFICATION Spec
CONSTANTS
    r1 = r1
    r2 = r2
    a = a
    b = b
    l1 = l1
    l2 = l2
    l3 = l3
    None = None
    Requests = {r1, r2}
    Clients = {a, b}
    Limiters = {l1, l2, l3}
    Rate = 1
    Burst = 2
    MaxTime = 2
SYMMETRY Symmetry
INVARIANTS
    LimiterTypeOK
    OneBucket
    RateBound
PROPERTIES
    ImplementsRateLimits
