SPECIFICATION Spec
CONSTANTS
    c1 = c1
    c2 = c2
    stdout = stdout
    Child = {c1, c2}
    Stream = {stdout}
    PipeCapacity = 2
    MaxOutput = 1
    Timeout = 2
    PostExitDrain = 1
    TerminationDrain = 1
    CheckInterval = 1
    NoTimer = NoTimer
    NoCode = NoCode
    None = None
    Leader = Leader
    Refused = Refused
    Nothing = Nothing
INVARIANTS
    GreenIsClean
    EvidenceIsTheProbes
    NothingSurvives
    StartsReviewedCode
    PinsOneToolchain
PROPERTIES
    EveryProbeEnds
CHECK_DEADLOCK FALSE
