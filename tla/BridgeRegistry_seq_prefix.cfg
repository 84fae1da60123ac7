\* One goroutine, a prefix bridge: a clear of any channel leaves the prefix route unreachable.
CONSTANTS
    A = A
    B = B
    a1 = a1
    a2 = a2
    NoCh = NoCh
    NoChannel <- NoCh
    D1 = D1
    D2 = D2
    NoD = NoD
    NoDir <- NoD
    StaticDirs <- MCStaticDirs
    Channels <- MCChannels
    ExactUris <- MCNoUris
    PrefixUris <- MCPrefixUris
    StaticPrefixes <- MCNoUris
    Methods <- MCMethods
    ReqPaths <- MCReqPaths
    Actors <- MCOneActor
    MaxRoutes = 2
SPECIFICATION Spec
INVARIANT RegisteredEndpointServed
