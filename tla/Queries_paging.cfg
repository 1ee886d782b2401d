\* Pages of one and two rows, some cut off, of three transactions that change.
SPECIFICATION Spec
CONSTANTS
    Txns = {t1, t2, t3}
    Limits = {0, 1, 4}
    Most = 3
    Default = 2
    Filter = "all"
    SameTime = FALSE
    MayCut = TRUE
    MaxTime = 3
CHECK_DEADLOCK FALSE
INVARIANTS
    NothingMissed
    RepeatsAreInserts
