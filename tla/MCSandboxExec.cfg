SPECIFICATION FairSpec
CONSTANTS
    Main = Main
    Descendants = {p1, p2, p3}
    Backends = {"bwrap", "bwrapK8s", "seatbelt", "noop"}
INVARIANTS
    TypeOK
    ExitIsTrue
    OutputComplete
    GroupEnds
    NamespaceEnds
PROPERTIES
    LitterHasReason
    ImplementsPromise
    ExecReturns
CHECK_DEADLOCK FALSE
