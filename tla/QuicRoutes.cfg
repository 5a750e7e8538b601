CONSTANTS
    s1 = s1
    s2 = s2
    syncer = syncer
    ra = ra
    None = None
    Sessions = {s1, s2}
    Syncer = syncer
    Routes = {ra}
    Requests <- RequestsTcp
    Bindings <- BindingIds
    StoreMayFail = FALSE
SYMMETRY SymmetricSessions
SPECIFICATION Spec
INVARIANTS
    CleanupCommitted
    LostOnlyByOverlap
