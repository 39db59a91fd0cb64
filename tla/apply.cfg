SPECIFICATION LiveSpec
CONSTANTS
    s1 = s1
    s2 = s2
    c1 = c1
    c2 = c2
    Servers = {s1}
    Cameras = {c1, c2}
    Home <- OneServer
    NumSettings = 2
    NoCamera = NoCamera
    MaxApplies = 2
    MaxAgain = 0
    MaxStops = 1
    MaxFaults = 1
INVARIANTS
    TypeOK
    SyncedToAll
    SourceKept
    NoOverlap
PROPERTIES
    EveryApplyCounts
