\* The fair system on one device: what must end.
SPECIFICATION FairSpec
CONSTANTS
    s1 = s1
    s2 = s2
    s3 = s3
    p1 = p1
    u1 = u1
    Servers = {s1}
    Plain = {}
    Unsupported = {}
    NoPeer = NoPeer
    NoToken = NoToken
    NoReply = NoReply
    CertErrors <- NoErrors
    MaxSubs = 1
    MaxDepth = 3
    MaxCseq = 2
    Ops <- AllOps
    HostOps = {"ReadMsgs"}
    Timeouts <- BothTimeouts
    HostMayNest = TRUE
PROPERTIES
    RequestsReturn
    LoginEndsOpen
