CONSTANTS
    s1 = s1
    s2 = s2
    c1 = c1
    None = None
    Sessions = {s1, s2}
    Conns = {c1}
    MaxPort = 2
    ConfiguredPorts = {0}
    MaxPendingConnections = 1
    MaxDrops = 1
SPECIFICATION FairSpec
INVARIANTS
    LegacySafe
PROPERTIES
    ImplementsNameService
    LegacyLive
CHECK_DEADLOCK FALSE
