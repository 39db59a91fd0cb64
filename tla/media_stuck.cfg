SPECIFICATION LiveSpec
CONSTANTS
    s1 = s1
    c1 = c1
    c2 = c2
    Masters = {m1}
    Servers = {s1}
    Local = {}
    Cameras = {c1, c2}
    Entries <- TwoCameras
    Downloaders = {d1}
    Requests = {r1, r2}
    Kinds = {"browser"}
    Everything = Everything
    Nobody = Nobody
    NoFile = NoFile
    MaxClicks = 2
    MaxFaults = 0
CHECK_DEADLOCK FALSE
PROPERTIES
    DownloadsEnd
