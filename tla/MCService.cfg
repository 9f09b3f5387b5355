SPECIFICATION FairSpec
CHECK_DEADLOCK FALSE
CONSTANTS
    Hosts <- MCHosts
    MaxDisturbances = 5
INVARIANTS
    TypeOK
    LimitEnforceable
    DoctorAgrees
    ServingReachable
    AddressesAgree
PROPERTIES
    ServesAgain
    ShutdownEnds
