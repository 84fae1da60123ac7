CONSTANTS
    s1 = s1
    s2 = s2
    Services <- MCServices
    HungServices <- MCHungS1
    HasFabric = FALSE
    PortTaken = FALSE
SPECIFICATION Spec
PROPERTY StopServerReturns
CHECK_DEADLOCK FALSE
