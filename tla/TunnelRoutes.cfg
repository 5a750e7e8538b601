CONSTANTS
    s1 = s1
    s2 = s2
    syncer = syncer
    ra = ra
    rb = rb
    None = None
    Sessions = {s1, s2}
    Syncer = syncer
    Routes = {ra, rb}
    MaxPort = 2
    BusyPorts = {}
    AutoRange = {1, 2}
    Requests <- RequestsCompeting
    Listeners <- ListenerIds
VIEW ScenarioView
SPECIFICATION Spec
ACTION_CONSTRAINT InOneScenario
INVARIANTS
    RoutesSafe
    LostOnlyByOverlap
