CONSTANTS
    s1 = s1
    s2 = s2
    Services <- MCServices
    HungServices <- MCNoHung
    HasFabric = FALSE
    PortTaken = FALSE
SPECIFICATION Spec
PROPERTY SignalledStartReturns
CHECK_DEADLOCK FALSE
