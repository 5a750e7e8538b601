CONSTANTS
    Runs = {c1, c2}
    NoRun = NoRun
    Routes = {r1}
SPECIFICATION FairSpec
INVARIANTS
    ClientSafe
    ShownRoutesAreServed
PROPERTIES
    NoReconnectAfterStop
    StopTakesEffect
    Reconnects
