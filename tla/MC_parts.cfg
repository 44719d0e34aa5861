SPECIFICATION PartsSpec
CHECK_DEADLOCK FALSE
SYMMETRY QuerierSymmetry
CONSTANTS
    i1 = i1  i2 = i2  i3 = i3  k1 = k1  k2 = k2
    Instances = {i1, i2, i3}
    Keys = {k1, k2}
    KeyOf <- SharedKey
    Ips = {a1}
    MaxResolvers = 3
    MaxRows = 3
    W = 2
    MaxMade = 4
    MaxRequests = 1
    MaxReplies = 1
    Groups = {"g1", "g2"}
    Interfaces <- MCInterfaces
    Names = {"n1"}
    Data = {"x", "y"}
    Hold = 1
    LongHold = 2
    Limit = 2
    Young = 0
    MaxAdds = 2
    MaxDebt = 2
    Events = {"a", "b", "c"}
    MaxTime = 2
    Zone = {"ptr", "srv"}
    Shared = {"ptr"}
    AuxOf <- MCAuxOf
    q1 = q1  q2 = q2
    Queriers = {q1, q2}
    HistoryTicks = 1
    SuppressTicks = 1
    Links = {"k1", "k2"}
    Clients = {"c1", "c2"}
    Slots = 2
    IdMod = 7
    Lag = 4
    Wires = {w1, w2}
    Addrs = {g, l}
    GlobalAddrs = {g}
    MaxQueue = 2
    MaxChurn = 3
INVARIANTS
    ListSafe StubSafe ZoneSafe RespSafe TimeSafe ReflectorSafe InterfacesSafe
PROPERTIES
    ImplementsSignals
    PartsSteps
