\* Overlapping broadcasts and slow clients: all stop when a lock is left behind.
SPECIFICATION Spec
CONSTANTS
    r1 = r1
    r2 = r2
    c1 = c1
    c2 = c2
    None = None
    Requests = {r1, r2}
    Conns = {c1, c2}
    SlowPeers = {c1, c2}
SYMMETRY Symmetry
CHECK_DEADLOCK FALSE
INVARIANTS
    HubTypeOK
    OpenIsRegistered
    ClientsAreServed
    ReachesAll
PROPERTIES
    MapStable
