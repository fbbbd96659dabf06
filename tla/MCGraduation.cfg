CONSTANTS
    old = old
    fix = fix
    target = target
    side = side
    phase = phase
    rust = rust
    Commit <- MCCommit
    Ancestry <- MCAncestry
    Target = target
    SameTools <- MCSameTools
    Probe = {phase, rust}
    RustProbe = rust
    Family = {"f1", "f2"}
    Outcome <- MCOutcome
    Broken <- MCBroken
    Version <- MCVersion
    Elsewhere <- MCElsewhere
    Around <- MCAround
    Checkouts = {target, fix}
    MaxChanges = 2
    Edited = Edited
    NoCommit = NoCommit
    NoEntry = NoEntry
    NoReport = NoReport
    NoCode = NoCode
SPECIFICATION Spec
INVARIANTS
    TypeOK
    JudgesOwnReport
    GraduationIsEarned
    AuditsTheSource
PROPERTIES
    OneAuthor
CHECK_DEADLOCK FALSE
