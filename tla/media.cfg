SPECIFICATION Spec
CONSTANTS
    s1 = s1
    c1 = c1
    c2 = c2
    Masters = {m1, m2}
    Servers = {s1}
    Local = {}
    Cameras = {c1, c2}
    Entries <- TwoCameras
    Downloaders = {d1, d2}
    Requests = {r1, r2}
    Kinds = {"last", "browser"}
    Everything = Everything
    Nobody = Nobody
    NoFile = NoFile
    MaxClicks = 2
    MaxFaults = 1
SYMMETRY Symmetry
CHECK_DEADLOCK FALSE
INVARIANTS
    TypeOK
    SavedIsAsked
PROPERTIES
    StoredStays
