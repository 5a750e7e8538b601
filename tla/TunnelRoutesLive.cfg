CONSTANTS
    s1 = s1
    s2 = s2
    syncer = syncer
    ra = ra
    rb = rb
    None = None
    Sessions = {s1}
    Syncer = syncer
    Routes = {ra}
    MaxPort = 2
    BusyPorts = {}
    AutoRange = {}
    Requests <- RequestsMoving
    Listeners <- ListenerIds
SPECIFICATION FairSpec
PROPERTIES
    AssignedStable
    RoutesSynced
    WithdrawnEventually
