CONSTANTS
    h1 = h1
    h2 = h2
    l1 = l1
    l2 = l2
    c1 = c1
    n1 = n1
    NoListener = NoListener
    Names = {n1}
    Handlers = {h1, h2}
    Listeners = {l1, l2}
    Conns = {c1}
    MaxRequests = 2
SPECIFICATION AccessFairSpec
INVARIANTS
    AccessSafe
PROPERTIES
    RevocationReaches
    AcceptLoopsEnd
