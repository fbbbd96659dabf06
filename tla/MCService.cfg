SPECIFICATION MCServiceSpec
CONSTANTS
    root = root
    k1 = k1
    k2 = k2
    k3 = k3
    p = p
    a = a
    b = b
    Handler = {h1, h2}
    Caller = {h1, h2}
    Client = {c1, c2}
    Requests = 2
    Posts = 1
    NoRequest = NoRequest
    Minutes <- MCMinutes
    Peer = {p}
    NoIdentity = NoIdentity
    Hello <- MCHello
    MsgId <- MCMsgId
    Sender <- MCSender
    KeyOf <- MCKeyOf
    Addressed <- MCAddressed
    Issued <- MCIssued
    Expires <- MCExpires
    Key <- MCKey
    Root = root
    NoTime = NoTime
    Skew = 1
    Lifetime = 1
    MaxOverlap = 2
    Retention = 3
    CompactAt = 2
    MaxLog = 2
    MaxTime = 4
    MaxFailures = 2
SYMMETRY Interchangeable
INVARIANTS
    AnsweredIsAudited
    RecordsAreDurable
    CopiesAreBehind
    LimitedInOrder
PROPERTIES
    ReadmittedOnlyLate
CHECK_DEADLOCK FALSE
