SPECIFICATION MCSpec
CONSTANTS
    a = a
    b = b
    c = c
    MsgId <- MCMsgId
    Issued <- MCIssued
    Expires <- MCExpires
    Skew = 1
    Lifetime = 1
    Retention = 3
    CompactAt = 2
    MaxLog = 2
    MaxTime = 4
    MaxTakenBack = 1
    MaxUnsynced = 1
INVARIANTS
    AtMostOnceFresh
    FreshIsDurable
PROPERTIES
    ImplementsAtMostOnce
CHECK_DEADLOCK FALSE
