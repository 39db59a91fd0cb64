SPECIFICATION Spec
CONSTANTS
    Ips = {c1, c2, c3}
    Torn = Torn
    Names <- OneWordNames
    Handlers = {h1, h2}
    Scanners = {}
    NoThread = NoThread
    NoName = NoName
    Commands <- ListCommands
    Links <- AlwaysUp
    DiskMayFail = FALSE
    MaxCameras = 3
    MaxRestarts = 1
SYMMETRY Symmetry
INVARIANTS
    TypeOK
    NoDuplicates
    AliveOnce
    RecordCoversList
PROPERTIES
    DurableRestart
    ImplementsDurable
