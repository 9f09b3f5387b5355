SPECIFICATION Spec
CONSTANTS
    NoRun = NoRun
    Runs = {r1, r2}
    Callers = {c1}
    MaxJobs = 1
    BackgroundAfter = 1
    DefaultRunTimeout = 2
    ExecTimeout = 1
    Retention = 1
    ReqTimeouts = {0, 3}
    ReadTimeout = 2
    Second = 2
    WordSize = 8
    AgeCap = 2
SYMMETRY RunSymmetry
INVARIANTS
    KilledHasCause
    NoOrphan
PROPERTY ImplementsContract
