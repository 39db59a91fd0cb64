SPECIFICATION Spec
CONSTANTS
    s1 = s1
    s2 = s2
    c1 = c1
    c2 = c2
    Servers = {s1, s2}
    Cameras = {c2}
    Home <- OneEach
    NumSettings = 1
    NoCamera = NoCamera
    MaxApplies = 3
    MaxAgain = 0
    MaxStops = 0
    MaxFaults = 0
INVARIANTS
    SyncedToAll
