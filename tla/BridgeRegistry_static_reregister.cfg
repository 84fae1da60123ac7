\* One goroutine, one static prefix served from two directories in turn.
CONSTANTS
    A = A
    B = B
    a1 = a1
    a2 = a2
    NoCh = NoCh
    NoChannel <- NoCh
    D1 = D1
    D2 = D2
    NoD = NoD
    NoDir <- NoD
    StaticDirs <- MCStaticDirs
    Channels <- MCChannels
    ExactUris <- MCNoUris
    PrefixUris <- MCNoUris
    StaticPrefixes <- MCStaticPrefixes
    Methods <- MCMethods
    ReqPaths <- MCReqPaths
    Actors <- MCOneActor
    MaxRoutes = 2
SPECIFICATION Spec
INVARIANT RouteNamesUnique
