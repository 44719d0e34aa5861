SPECIFICATION LookupsSpec
CHECK_DEADLOCK FALSE
CONSTANTS
    Hosts = {"h1", "h2"}
    First = "h1"
    Records <- MCRecords
    MaxChanges = 2
    l1 = l1  l2 = l2  r1 = r1  r2 = r2
    Lookups = {l1, l2}
    Servers = {"s1", "s2"}
    WideKeys = {"k", "other"}
    WideRecords = {r1, r2}
    WideKeyOf <- MCKeyOf
    KeyFor <- MCKeyFor
    CacheMax = 1
    MaxSends = 4
    FirstSends = 2
    MaxServerChanges = 1
    Statics <- MCStatics
    RecordNames = {"d1", "d2", "d3"}
    TypeNames = {"d3"}
    Infos = {"i1", "i2", "i3"}
    MaxInfos = 2
    i1 = i1  i2 = i2  i3 = i3  k1 = k1  k2 = k2
    Instances = {i1, i2, i3}
    Keys = {k1, k2}
    KeyOf <- SharedKey
    Browsers = {b1, b2}
    NoBrowser = NoBrowser
INVARIANTS
    ResolverSafe BrowsersSafe AvahiSafe
PROPERTIES
    ImplementsDirectory
    WidePromises
    LookupsAnswer
