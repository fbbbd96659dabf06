SPECIFICATION MCSpec
CONSTANTS
    root = root
    k1 = k1
    k2 = k2
    s1 = s1
    s2 = s2
    Key <- MCKey
    Root = root
    NoTime = NoTime
    NoIdentity = NoIdentity
    Skew = 1
    Lifetime = 2
    MaxOverlap = 2
    Document <- MCDocument
    LifecycleRecord <- MCLifecycleRecord
    History <- MCHistory
    Advert <- MCAdvert
    Snapshot = {s1, s2}
    None = None
    Absent = Absent
    MaxTime = 1
    MaxSurvivors = 2
INVARIANTS
    ExtensionsAreAdmitted
CHECK_DEADLOCK FALSE
