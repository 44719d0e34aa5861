\* A reconnection keeps the gate of the login open.
CHECK_DEADLOCK FALSE
SPECIFICATION Spec
CONSTANTS
    s1 = s1
    s2 = s2
    s3 = s3
    p1 = p1
    u1 = u1
    Servers = {s1}
    Plain = {}
    Unsupported = {}
    NoPeer = NoPeer
    NoToken = NoToken
    NoReply = NoReply
    CertErrors <- NoErrors
    MaxSubs = 2
    MaxDepth = 2
    MaxCseq = 1
    Ops <- AllOps
    HostOps = {"ReadMsgs"}
    Timeouts <- ShortTimeout
    HostMayNest = FALSE
PROPERTIES
    AuthBeforeMessages
