SPECIFICATION CacheSpec
CONSTANTS
    r1 = r1
    r2 = r2
    c1 = c1
    h1 = h1
    Records = {r1, r2}
    Clients = {c1}
    Hosts = {h1}
    Confs <- MCConfs
    MaxChanges = 2
CHECK_DEADLOCK FALSE
INVARIANTS
    CacheTypeOK
PROPERTIES
    KeptAlive GoneIsRemoved EventuallySeen
