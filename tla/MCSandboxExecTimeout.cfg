SPECIFICATION FairSpec
CONSTANTS
    Main = Main
    Descendants = {p1}
    Backends = {"bwrapK8s"}
PROPERTIES
    TimeoutEnforced
CHECK_DEADLOCK FALSE
