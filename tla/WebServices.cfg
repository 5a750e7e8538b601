CONSTANTS
    h1 = h1
    h2 = h2
    v1 = v1
    v2 = v2
    p = p
    q = q
    None = None
    ServiceHandlers = {h1, h2}
    ServerEngines = {"classic", "quic"}
    Servers = {v1, v2}
    Configs = {"default", "insecure", "paths"}
    Default = "default"
    AutoStart = {"paths"}
    Insecure = {"insecure"}
    OwnPaths = {"paths"}
    StartRequests <- StartBoth
    SaveRequests <- SaveClassic
    Pairs = {p, q}
SPECIFICATION ScenarioSpec
INVARIANTS
    WebSafe
PROPERTIES
    StoresKept
    StopsEnd
