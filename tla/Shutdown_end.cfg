\* The end of the server, with handlers that hang and endpoints that do not
\* answer.
SPECIFICATION FairSpec
CONSTANTS
    Requests = {r1, r2, r3}
    MayHang = TRUE
    MaxHops = 1
CHECK_DEADLOCK FALSE
INVARIANTS
    ShutdownTypeOK
    OnceAndTruly
PROPERTIES
    WaitsEnd
