CONSTANTS
    c1 = c1
    c2 = c2
    c3 = c3
    addr = addr
    m1 = m1
    m2 = m2
    k1 = k1
    k2 = k2
    k3 = k3
    k4 = k4
    None = None
    Conns = {c1, c2, c3}
    IPs = {addr}
    IPOf <- IPOfAll
    Limiters = {m1, m2}
    Counters = {k1, k2, k3, k4}
    Configs <- ConfigsMoving
    DefaultMax = 3
    Unlimited = 9
SYMMETRY Symmetry
VIEW View
SPECIFICATION Spec
INVARIANTS
    LimiterSafe
    Drained
    NeverOvercharged
