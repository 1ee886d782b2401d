\* One broadcast at a time, and clients that come, go and stop reading.
SPECIFICATION FairSpec
CONSTANTS
    r1 = r1
    c1 = c1
    c2 = c2
    None = None
    Requests = {r1}
    Conns = {c1, c2}
    SlowPeers = {c1, c2}
PROPERTIES
    BroadcastsEnd
    DisconnectsHandled
