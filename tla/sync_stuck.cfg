SPECIFICATION LiveSpec
CONSTANTS
    Servers = {s1}
    Ips = {c1}
    Queries <- ListOnly
    Talks = {t1, t2, t3}
    MaxConnects = 2
    MaxOrphans = 1
PROPERTIES
    KeepsPolling
