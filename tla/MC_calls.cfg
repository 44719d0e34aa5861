\* One device, calls that may be nested, reconnections; against the abstract device.
SPECIFICATION Spec
CONSTANTS
    s1 = s1
    s2 = s2
    s3 = s3
    p1 = p1
    u1 = u1
    Servers = {s1}
    Plain = {}
    Unsupported = {}
    NoPeer = NoPeer
    NoToken = NoToken
    NoReply = NoReply
    CertErrors <- NoErrors
    MaxSubs = 2
    MaxDepth = 3
    MaxCseq = 2
    Ops <- AllOps
    HostOps = {"Connect", "ReadMsgs", "Ioctl"}
    Timeouts <- BothTimeouts
    HostMayNest = TRUE
INVARIANTS
    CallsSafe
PROPERTIES
    ImplementsDevice
    OpenReturnsAuthenticated
