CONSTANTS
    r1 = r1
    r2 = r2
    x = x
    y = y
    i1 = i1
    i2 = i2
    c1 = c1
    o1 = o1
    o2 = o2
    None = None
    Routes = {r1}
    Sources = {x}
    Ids = {i1}
    Conns = {c1}
    Objects = {o1, o2}
SPECIFICATION FairSpec
INVARIANTS
    UdpSafe
PROPERTIES
    ServerCleansUp
    ClientCleansUp
CHECK_DEADLOCK FALSE
