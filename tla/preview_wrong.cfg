SPECIFICATION Spec
CONSTANTS
    s1 = s1
    s2 = s2
    c1 = c1
    c2 = c2
    Masters = {m1, m2}
    Servers = {s1, s2}
    Cameras = {c1, c2}
    Home <- OneEach
    Ports = {p1}
    Fds = {f1, f2}
    NoCamera = NoCamera
    NoPort = NoPort
    NoFd = NoFd
    MaxClicks = 2
INVARIANTS
    ShowsSelected
