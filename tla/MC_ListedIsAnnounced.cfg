SPECIFICATION BonjourSpec
CHECK_DEADLOCK FALSE
CONSTANTS
    i1 = i1  i2 = i2  i3 = i3  k1 = k1  k2 = k2
    Instances = {i1, i2, i3}
    Keys = {k1, k2}
    KeyOf <- SharedKey
    Ips = {a1}
    MaxResolvers = 2
INVARIANT ListedIsAnnounced
