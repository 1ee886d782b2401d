\* One page and its sockets, whatever is lost, late or out of order.
SPECIFICATION MCFairSpec
CONSTANTS
    Txns = {t1}
    Requests = {r1}
    Sockets = {s1, s2}
    Fetches = {f1, f2}
    Filters = {"all", "pending"}
    Starts = {"mounted", "remounted", "loaded"}
    MaxUpsets = 1
    MaxInbox = 1
CHECK_DEADLOCK FALSE
INVARIANTS
    FeedTypeOK
    ShowsCommitted
PROPERTIES
    Reconnects
    CatchesUp
    NeverBackwards
