SPECIFICATION BrowseSpec
CONSTANTS
    i1 = i1
    i2 = i2
    b1 = b1
    b2 = b2
    Ifaces = {i1, i2}
    Unspec = Unspec
    Keys = {"k", "t"}
    Records <- MCRecords
    Browsers = {b1, b2}
    KeyFor <- MCKeyFor
    IfaceFor <- MCIfaceFor
    FlagsFor <- MCFlagsFor
    NoServices <- MCNoServices
    MaxLookups = 3
    MaxEvents = 2
CHECK_DEADLOCK FALSE
INVARIANTS
    BrowseSafe
PROPERTIES
    BrowserAnswered
