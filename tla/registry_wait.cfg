SPECIFICATION LiveSpec
CONSTANTS
    Ips = {c1}
    Torn = Torn
    Names <- OneWordNames
    Handlers = {h1, h2}
    Scanners = {s1}
    NoThread = NoThread
    NoName = NoName
    Commands <- WaitCommands
    Links <- AlwaysUp
    DiskMayFail = TRUE
    MaxCameras = 1
    MaxRestarts = 0
PROPERTIES
    CommandsEnd
    FoundBecomesListed
