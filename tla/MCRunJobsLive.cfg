SPECIFICATION FairSpec
CONSTANTS
    NoRun = NoRun
    Runs = {r1, r2}
    Callers = {c1}
    MaxJobs = 1
    BackgroundAfter = 1
    DefaultRunTimeout = 1
    ExecTimeout = 1
    Retention = 1
    ReqTimeouts = {0}
    ReadTimeout = 2
    Second = 2
    WordSize = 8
    AgeCap = 1
PROPERTIES
    EveryRunAnswered
    EveryJobEnds
