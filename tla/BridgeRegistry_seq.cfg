\* One embedder goroutine: the façade used sequentially.
CONSTANTS
    A = A
    B = B
    a1 = a1
    a2 = a2
    NoCh = NoCh
    NoChannel <- NoCh
    D1 = D1
    D2 = D2
    NoD = NoD
    NoDir <- NoD
    StaticDirs <- MCStaticDirs
    Channels <- MCChannels
    ExactUris <- MCExactUris
    PrefixUris <- MCPrefixUris
    StaticPrefixes <- MCStaticPrefixes
    Methods <- MCMethods
    ReqPaths <- MCReqPaths
    Actors <- MCOneActor
    MaxRoutes = 4
SPECIFICATION Spec
INVARIANT TypeOK
INVARIANT RegistryConsistent
INVARIANT ServedBridgeHandlerRegistered
