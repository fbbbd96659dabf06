SPECIFICATION MCSpec
CONSTANTS
    root = root
    k1 = k1
    k2 = k2
    k3 = k3
    p = p
    a = a
    b = b
    Handler = {h1}
    Peer = {p}
    NoIdentity = NoIdentity
    Hello <- MCForkedHello
    MsgId <- MCMsgId
    Sender <- MCSender
    KeyOf <- MCKeyOf
    Addressed <- MCAddressed
    Issued <- MCIssued
    Expires <- MCExpires
    Key <- MCKey
    Root = root
    NoTime = NoTime
    Skew = 1
    Lifetime = 1
    MaxOverlap = 2
    Retention = 3
    CompactAt = 2
    MaxLog = 2
    MaxTime = 4
    MaxFailures = 2
PROPERTIES
    DeadKeysStayDead
CHECK_DEADLOCK FALSE
