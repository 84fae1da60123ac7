CONSTANTS
    s1 = s1
    s2 = s2
    Services <- MCServices
    HungServices <- MCNoHung
    HasFabric = TRUE
    PortTaken = FALSE
SPECIFICATION Spec
INVARIANT StoppedNotAvailable
CHECK_DEADLOCK FALSE
