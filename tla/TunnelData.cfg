CONSTANTS
    c1 = c1
    c2 = c2
    l1 = l1
    l2 = l2
    d1 = d1
    d2 = d2
    None = None
    Conns = {c1, c2}
    Listeners = {l1, l2}
    DataConns = {d1, d2}
    MaxPending = 1
SPECIFICATION FairSpec
INVARIANTS
    DataSafe
    NoneForgotten
    OneTaker
PROPERTIES
    Settles
CHECK_DEADLOCK FALSE
