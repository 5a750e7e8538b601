CONSTANTS
    s1 = s1
    s2 = s2
    syncer = syncer
    ra = ra
    None = None
    Sessions = {s1, s2}
    Syncer = syncer
    Routes = {}
    Requests <- RequestsTcp
    Bindings = {}
    StoreMayFail = TRUE
SPECIFICATION FairSpec
INVARIANTS
    QuicSafe
PROPERTIES
    PresenceHeals
    ShutdownTerminates
