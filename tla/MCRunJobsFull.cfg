SPECIFICATION Spec
CONSTANTS
    NoRun = NoRun
    Runs = {r1, r2}
    Callers = {c1}
    MaxJobs = 1
    BackgroundAfter = 1
    DefaultRunTimeout = 2
    ExecTimeout = 1
    Retention = 1
    ReqTimeouts = {0}
    ReadTimeout = 1
    Second = 2
    WordSize = 8
    AgeCap = 2
PROPERTY RefusedOnlyAtConcurrentLimit
