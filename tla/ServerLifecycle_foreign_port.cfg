CONSTANTS
    s1 = s1
    s2 = s2
    Services <- MCServices
    HungServices <- MCNoHung
    HasFabric = FALSE
    PortTaken = TRUE
SPECIFICATION Spec
PROPERTY OnlineOnlyWhenListening
CHECK_DEADLOCK FALSE
