SPECIFICATION LiveSpec
CONSTANTS
    Ips = {c1, c2}
    Torn = Torn
    Names <- OneWordNames
    Handlers = {h1}
    Scanners = {}
    NoThread = NoThread
    NoName = NoName
    Commands <- LiveCommands
    Links <- UpDown
    DiskMayFail = FALSE
    MaxCameras = 2
    MaxRestarts = 1
PROPERTIES
    GoneLeavesAlive
    ReachableBecomesAlive
