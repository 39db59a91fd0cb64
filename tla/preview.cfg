SPECIFICATION LiveSpec
CONSTANTS
    s1 = s1
    s2 = s2
    c1 = c1
    c2 = c2
    Masters = {m1}
    Servers = {s1}
    Cameras = {c1, c2}
    Home <- OneServer
    Ports = {p1, p2, p3}
    Fds = {f1, f2}
    NoCamera = NoCamera
    NoPort = NoPort
    NoFd = NoFd
    MaxClicks = 3
INVARIANTS
    TypeOK
    EntriesAreChannels
    StreamsAsSelected
PROPERTIES
    PictureComes
    PictureResumes
