CONSTANTS
    s1 = s1
    s2 = s2
    Services <- MCServices
    HungServices <- MCNoHung
    HasFabric = TRUE
    PortTaken = FALSE
SPECIFICATION Spec
INVARIANT TypeOK
INVARIANT StopWaitsForHooks
PROPERTY StopServerReturns
CHECK_DEADLOCK FALSE
