CONSTANTS
    a = a
    s1 = s1
    s2 = s2
    s3 = s3
    Clients = {a}
    Sessions = {s1, s2, s3}
    ClientOf <- ClientOfThree
    NoSession = NoSession
    StoreMayFail = TRUE
    OtherEngine = TRUE
SPECIFICATION FairSpec
INVARIANTS
    RegistrySafe
    NoOrphan
    RestartForgets
PROPERTIES
    ImplementsNameService
    PresenceHeals
    ShutdownTerminates
