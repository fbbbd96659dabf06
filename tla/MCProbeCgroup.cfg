SPECIFICATION MCSpec
CONSTANTS
    Machine = "x86_64"
    m1 = m1
    m2 = m2
    f1 = f1
    Member = {m1, m2}
    Foreign = {f1}
    Pid = {1, 2}
    MaxRestarts = 1
    MaxUnits = 2
    KillRounds = 2
INVARIANTS
    CoherentSnapshot
    ForeignUntouched
    NothingLeftStopped
    SandboxIsPolicy
PROPERTIES
    TasksAreReleased
CHECK_DEADLOCK FALSE
