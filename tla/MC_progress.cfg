SPECIFICATION ProgressSpec
CHECK_DEADLOCK FALSE
CONSTANTS
    Events = {"a", "b"}
    MaxTime = 2
    Watches = {"w"}
    Timeouts = {"t"}
    Groups = {"g1"}
    Interfaces <- MCInterfaces
    Names = {"n1"}
    Data = {"x"}
    Hold = 1
    LongHold = 2
    Limit = 2
    Young = 0
    MaxAdds = 2
    MaxDebt = 2
    Zone = {"ptr"}
    Shared = {"ptr"}
    AuxOf <- MCAuxOf
    Queriers = {"q1", "q2"}
    HistoryTicks = 1
    SuppressTicks = 1
    Wires = {w1, w2}
    Addrs = {g}
    GlobalAddrs = {g}
    MaxQueue = 2
    MaxChurn = 1
    a1 = a1
    a2 = a2
    a3 = a3
    Addresses <- MCAddresses
    HostNames = {"n1", "n2"}
    FirstName = "n1"
    AnyTime = FALSE
    MaxChanges = 3
    DataMax = 6
    HostMsgs <- MCHostMsgs
    DeviceMsgs <- MCDeviceMsgs
    NoFields <- NoMCFields
    BufferLen = 2
    MaxHeld = 2
    Processes = {"p1", "p2"}
    TokenKeys = {"d1", "d2"}
    TokensOf <- MCTokensOf
    MaxPublishes = 3
INVARIANTS
    HostSafe StoreSafe PublisherSafe
PROPERTIES
    MsgsPromises
    LoopSafe
    ProgressMade
