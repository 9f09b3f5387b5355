SPECIFICATION Spec
CONSTANTS
    NoRun = NoRun
    Runs = {r1, r2}
    Callers = {c1, c2}
    MaxJobs = 1
    BackgroundAfter = 1
    DefaultRunTimeout = 1
    ExecTimeout = 1
    Retention = 1
    ReqTimeouts = {0}
    ReadTimeout = 1
    Second = 2
    WordSize = 8
    AgeCap = 1
SYMMETRY RunSymmetry
INVARIANTS
    TypeOK
    RegistryBounded
    IdNamesOneJob
    UnreadResultKept
    ConflictMeansOver
PROPERTIES
    RefusedOnlyWhenHeld
    DeleteStopsItsJob
