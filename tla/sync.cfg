SPECIFICATION LiveSpec
CONSTANTS
    Servers = {s1}
    Ips = {c1}
    Queries <- AllQueries
    Talks = {t1, t2}
    MaxConnects = 2
    MaxOrphans = 0
INVARIANTS
    TypeOK
    
    FlagsAreOwed
PROPERTIES
    ListIsMirrored
    SilentGoesOffline
    PollingResumes
