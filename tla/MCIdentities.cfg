SPECIFICATION MCIdentitiesSpec
CONSTANTS
    root = root
    k1 = k1
    k2 = k2
    k3 = k3
    k4 = k4
    Operational = k1
    Created = 0
    Times <- MCTimes
    MaxSeq = 4
    s1 = s1
    s2 = s2
    Key <- MCAllKeys
    Root = root
    NoTime = NoTime
    NoIdentity = NoIdentity
    Skew = 1
    Lifetime = 2
    MaxOverlap = 2
    Document <- MCDocument
    LifecycleRecord <- MCLifecycleRecord
    History <- MCHistory
    Advert <- MCAdvert
    Snapshot = {s1, s2}
    None = None
    Absent = Absent
    MaxTime = 2
    MaxSurvivors = 2
INVARIANTS
    AnswersAreKept
    AdmissionIsExplicit
    PermissionNeedsLiveKey
    NoTripleOverlap
    NoGap
PROPERTIES
    PartitionPointKept
    NeverRevalidated
SYMMETRY Interchangeable
CHECK_DEADLOCK FALSE
