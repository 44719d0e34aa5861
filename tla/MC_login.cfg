\* Two devices, a plain endpoint and an unsupported URL: logins, drops, selections.
\* A program that waits for an event that does not come is not an error here.
CHECK_DEADLOCK FALSE
SPECIFICATION Spec
CONSTANTS
    s1 = s1
    s2 = s2
    s3 = s3
    p1 = p1
    u1 = u1
    Servers = {s1, s2, s3}
    Plain = {p1}
    Unsupported = {u1}
    NoPeer = NoPeer
    NoToken = NoToken
    NoReply = NoReply
    CertErrors <- SomeErrors
    MaxSubs = 2
    MaxDepth = 3
    MaxCseq = 1
    Ops <- AllOps
    HostOps <- AllOps
    Timeouts <- ShortTimeout
    HostMayNest = FALSE
INVARIANTS
    LoginSafe
    ConnectedMeansAccepted
    ListenerAlive
    TokenBelongsToServer
