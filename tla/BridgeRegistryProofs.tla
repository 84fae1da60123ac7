------------------------ MODULE BridgeRegistryProofs ------------------------
(* Proofs about BridgeRegistry for every value of its constants.          *)
EXTENDS BridgeRegistry, SequenceTheorems, TLAPS

(* A Go map insertion m[k] = v: what MapPut returns.                      *)
LEMMA MapPutFacts ==
    ASSUME NEW m, NEW k, NEW v
    PROVE  /\ DOMAIN MapPut(m, k, v) = DOMAIN m \cup {k}
           /\ MapPut(m, k, v)[k] = v
           /\ \A x \in DOMAIN m \ {k} : MapPut(m, k, v)[x] = m[x]
    BY DEF MapPut

(* The route copied by the Walk is a route.                               *)
LEMMA CopyRouteType ==
    ASSUME NEW r \in Route
    PROVE  CopyRoute(r) \in Route
    BY DEF CopyRoute, Route

(* The router the Walk builds is a router.                                 *)
LEMMA WalkCopyType ==
    ASSUME NEW rt, IsRouter(rt), NEW victims
    PROVE  IsRouter(WalkCopy(rt, victims))
    BY CopyRouteType DEF WalkCopy, IsRouter

(* Appending a route at a position of the bound keeps a router.           *)
LEMMA AddRouteType ==
    ASSUME NEW rt, IsRouter(rt), NEW pos \in Positions, NEW r \in Route
    PROVE  IsRouter(AddRoute(rt, pos, r))
    BY DEF AddRoute, MapPut, IsRouter

(* The position of the next route is within the bound.                    *)
LEMMA NextPosition ==
    ASSUME MaxRoutes \in Nat, NEW n \in 0..MaxRoutes, n < MaxRoutes
    PROVE  n + 1 \in Positions
    BY DEF Positions

LEMMA EmptyRouterType == IsRouter(EmptyRouter)
    BY DEF EmptyRouter, IsRouter

(* Inserting a handler keeps endpointHandlerMap a map from keys to        *)
(* handlers.                                                               *)
LEMMA MapPutHandlers ==
    ASSUME NEW m, DOMAIN m \subseteq Keys,
           \A k \in DOMAIN m : m[k] \in Handlers,
           NEW key \in Keys, NEW h \in Handlers
    PROVE  /\ DOMAIN MapPut(m, key, h) \subseteq Keys
           /\ \A k \in DOMAIN MapPut(m, key, h) : MapPut(m, key, h)[k] \in Handlers
    BY DEF MapPut

(* Type correctness of the registry and of every router.                  *)
THEOREM TypeCorrect == Spec => []TypeOK
<1>1. Init => TypeOK
    BY EmptyRouterType, EmptySeq, BridgeAssumptions DEF Init, TypeOK
<1>2. TypeOK /\ [Next]_vars => TypeOK'
    <2> SUFFICES ASSUME TypeOK, [Next]_vars PROVE TypeOK'
        OBVIOUS
    <2>1. ASSUME NEW a \in Actors, NEW ch \in Channels, NEW uri \in ExactUris,
                 NEW m \in Methods, NEW hd \in BOOLEAN, NEW op \in BOOLEAN,
                 SetHttpChannelBridge(a, ch, uri, m, hd, op)
          PROVE  TypeOK'
        <3> DEFINE key == KeyOf(uri, m)
                   h == [key |-> key, ch |-> ch, dir |-> NoDir]
                   r == [name |-> key, prefix |-> FALSE, path |-> uri,
                         matcher |-> TRUE,
                         methods |-> PermittedMethods(m, hd, op), handler |-> h]
        <3>1. key \in BridgeKeys /\ key \in Keys /\ h \in Handlers
            BY DEF BridgeKeys, Keys, Handlers
        <3>2. r \in Route
            BY <3>1 DEF Route, Paths, PermittedMethods, AllMethods
        <3>3. IsRouter(router')
            <4>1. router' = AddRoute(router, nextPos + 1, r)
                BY <2>1 DEF SetHttpChannelBridge
            <4>2. nextPos + 1 \in Positions
                BY <2>1, NextPosition, BridgeAssumptions DEF SetHttpChannelBridge, TypeOK
            <4>3. QED
                BY <4>1, <4>2, <3>2, AddRouteType DEF TypeOK
        <3>4. serviceChanToBridgeEndpoints' \in [Channels -> Seq(BridgeKeys)]
            BY <2>1, <3>1, AppendProperties DEF SetHttpChannelBridge, TypeOK
        <3>5. /\ DOMAIN endpointHandlerMap' \subseteq Keys
              /\ \A k \in DOMAIN endpointHandlerMap' : endpointHandlerMap'[k] \in Handlers
            <4>1. endpointHandlerMap' = MapPut(endpointHandlerMap, key, h)
                BY <2>1 DEF SetHttpChannelBridge
            <4>2. QED
                BY <4>1, <3>1, MapPutHandlers DEF TypeOK
        <3>6. messageBridgeMap' \subseteq Channels
            BY <2>1 DEF SetHttpChannelBridge, TypeOK, EnsureMessageBridge
        <3>7. nextPos' \in 0..MaxRoutes
            BY <2>1, BridgeAssumptions DEF SetHttpChannelBridge, TypeOK
        <3>8. QED
            BY <2>1, <3>3, <3>4, <3>5, <3>6, <3>7 DEF SetHttpChannelBridge, TypeOK
    <2>2. ASSUME NEW a \in Actors, NEW ch \in Channels, NEW uri \in PrefixUris,
                 SetHttpPathPrefixChannelBridge(a, ch, uri)
          PROVE  TypeOK'
        <3> DEFINE key == KeyOf(uri, AllMethodsWildcard)
                   h == [key |-> key, ch |-> ch, dir |-> NoDir]
                   r == [name |-> key, prefix |-> TRUE, path |-> uri,
                         matcher |-> FALSE, methods |-> {}, handler |-> h]
        <3>1. key \in BridgeKeys /\ key \in Keys /\ h \in Handlers
            BY DEF BridgeKeys, Keys, Handlers
        <3>2. r \in Route
            BY <3>1 DEF Route, Paths
        <3>3. IsRouter(router')
            <4>1. router' = AddRoute(router, nextPos + 1, r)
                BY <2>2 DEF SetHttpPathPrefixChannelBridge
            <4>2. nextPos + 1 \in Positions
                BY <2>2, NextPosition, BridgeAssumptions
                DEF SetHttpPathPrefixChannelBridge, TypeOK
            <4>3. QED
                BY <4>1, <4>2, <3>2, AddRouteType DEF TypeOK
        <3>4. serviceChanToBridgeEndpoints' \in [Channels -> Seq(BridgeKeys)]
            BY <2>2, <3>1, AppendProperties DEF SetHttpPathPrefixChannelBridge, TypeOK
        <3>5. /\ DOMAIN endpointHandlerMap' \subseteq Keys
              /\ \A k \in DOMAIN endpointHandlerMap' : endpointHandlerMap'[k] \in Handlers
            <4>1. endpointHandlerMap' = MapPut(endpointHandlerMap, key, h)
                BY <2>2 DEF SetHttpPathPrefixChannelBridge
            <4>2. QED
                BY <4>1, <3>1, MapPutHandlers DEF TypeOK
        <3>6. messageBridgeMap' \subseteq Channels
            BY <2>2 DEF SetHttpPathPrefixChannelBridge, TypeOK, EnsureMessageBridge
        <3>7. nextPos' \in 0..MaxRoutes
            BY <2>2, BridgeAssumptions DEF SetHttpPathPrefixChannelBridge, TypeOK
        <3>8. QED
            BY <2>2, <3>3, <3>4, <3>5, <3>6, <3>7
            DEF SetHttpPathPrefixChannelBridge, TypeOK
    <2>3. ASSUME NEW a \in Actors, NEW p \in StaticPrefixes, NEW d \in StaticDirs,
                 SetStaticRoute(a, p, d)
          PROVE  TypeOK'
        <3> DEFINE key == StaticKeyOf(p)
                   h == [key |-> key, ch |-> NoChannel, dir |-> d]
                   r == [name |-> key, prefix |-> TRUE, path |-> StaticPathOf(p),
                         matcher |-> FALSE, methods |-> {}, handler |-> h]
        <3>1. key \in Keys /\ h \in Handlers
            BY DEF StaticKeys, Keys, Handlers
        <3>2. r \in Route
            BY <3>1 DEF Route, Paths
        <3>3. IsRouter(router')
            <4>1. router' = AddRoute(router, nextPos + 1, r)
                BY <2>3 DEF SetStaticRoute
            <4>2. nextPos + 1 \in Positions
                BY <2>3, NextPosition, BridgeAssumptions DEF SetStaticRoute, TypeOK
            <4>3. QED
                BY <4>1, <4>2, <3>2, AddRouteType DEF TypeOK
        <3>4. /\ DOMAIN endpointHandlerMap' \subseteq Keys
              /\ \A k \in DOMAIN endpointHandlerMap' : endpointHandlerMap'[k] \in Handlers
            <4>1. endpointHandlerMap' = MapPut(endpointHandlerMap, key, h)
                BY <2>3 DEF SetStaticRoute
            <4>2. QED
                BY <4>1, <3>1, MapPutHandlers DEF TypeOK
        <3>5. nextPos' \in 0..MaxRoutes
            BY <2>3, BridgeAssumptions DEF SetStaticRoute, TypeOK
        <3>6. QED
            BY <2>3, <3>3, <3>4, <3>5 DEF SetStaticRoute, TypeOK
    <2>4. ASSUME NEW a \in Actors, NEW ch \in Channels,
                 ClearHttpChannelBridgesForService(a, ch)
          PROVE  TypeOK'
        <3>1. IsRouter(WalkCopy(router, Elems(serviceChanToBridgeEndpoints[ch])))
            BY WalkCopyType DEF TypeOK
        <3>2. serviceChanToBridgeEndpoints' \in [Channels -> Seq(BridgeKeys)]
            BY <2>4, EmptySeq DEF ClearHttpChannelBridgesForService, TypeOK
        <3>3. QED
            BY <2>4, <3>1, <3>2 DEF ClearHttpChannelBridgesForService, TypeOK
    <2>5. ASSUME NEW a \in Actors, LoadGlobalHttpHandler(a)
          PROVE  TypeOK'
        BY <2>5, EmptyRouterType DEF LoadGlobalHttpHandler, TypeOK
    <2>6. CASE UNCHANGED vars
        BY <2>6 DEF vars, TypeOK
    <2>7. QED
        BY <2>1, <2>2, <2>3, <2>4, <2>5, <2>6 DEF Next
<1>3. QED
    BY <1>1, <1>2, PTL DEF Spec
-----------------------------------------------------------------------------
(* The registry invariant.                                                 *)

(* The part of both bridge operations that the registry invariant sees:   *)
(* a fresh key bound to a handler of ch and appended to ch's list.        *)
AttachStep(ch, key) ==
    /\ key \notin DOMAIN endpointHandlerMap
    /\ endpointHandlerMap' =
          MapPut(endpointHandlerMap, key, [key |-> key, ch |-> ch, dir |-> NoDir])
    /\ serviceChanToBridgeEndpoints' =
          [serviceChanToBridgeEndpoints EXCEPT ![ch] = Append(@, key)]
    /\ messageBridgeMap' = messageBridgeMap \cup {ch}

(* The elements of a list grown by Append.                                *)
LEMMA AppendElems ==
    ASSUME NEW S, NEW s \in Seq(S), NEW x \in S
    PROVE  /\ DOMAIN Append(s, x) = 1..Len(s) + 1
           /\ \A i \in 1..Len(s) : Append(s, x)[i] = s[i]
           /\ Append(s, x)[Len(s) + 1] = x
           /\ Elems(Append(s, x)) = Elems(s) \cup {x}
    <1>1. /\ Append(s, x) \in Seq(S)
          /\ Len(Append(s, x)) = Len(s) + 1
          /\ \A i \in 1..Len(s) : Append(s, x)[i] = s[i]
          /\ Append(s, x)[Len(s) + 1] = x
        BY AppendProperties
    <1>2. DOMAIN Append(s, x) = 1..Len(s) + 1
        BY <1>1, LenProperties
    <1>3. DOMAIN s = 1..Len(s)
        BY LenProperties
    <1>4. QED
        BY <1>1, <1>2, <1>3 DEF Elems

(* Binding a fresh key to a channel keeps the registry consistent.        *)
LEMMA AttachPreserves ==
    ASSUME TypeOK, RegistryConsistent,
           NEW ch \in Channels, NEW key \in BridgeKeys, AttachStep(ch, key)
    PROVE  RegistryConsistent'
    <1> DEFINE L == serviceChanToBridgeEndpoints
               M == endpointHandlerMap
    <1>1. /\ DOMAIN L'[ch] = 1..Len(L[ch]) + 1
          /\ \A i \in 1..Len(L[ch]) : L'[ch][i] = L[ch][i]
          /\ L'[ch][Len(L[ch]) + 1] = key
          /\ Elems(L'[ch]) = Elems(L[ch]) \cup {key}
          /\ \A c \in Channels \ {ch} : L'[c] = L[c]
        BY AppendElems DEF AttachStep, TypeOK
    <1>2. \A c \in Channels : DOMAIN L[c] = 1..Len(L[c])
        BY LenProperties DEF TypeOK
    <1>3. /\ DOMAIN M' = DOMAIN M \cup {key}
          /\ M'[key] = [key |-> key, ch |-> ch, dir |-> NoDir]
          /\ \A k \in DOMAIN M : M'[k] = M[k]
        <2>1. M' = MapPut(M, key, [key |-> key, ch |-> ch, dir |-> NoDir])
            BY DEF AttachStep
        <2>2. key \notin DOMAIN M
            BY DEF AttachStep
        <2>3. QED
            BY <2>1, <2>2 DEF MapPut
    <1>4. ChannelEndpointsRegistered'
        BY <1>1, <1>2, <1>3
        DEF ChannelEndpointsRegistered, RegistryConsistent, AttachStep
    <1>5. EndpointBridgedOnce'
        <2> SUFFICES ASSUME NEW c \in Channels, NEW d \in Channels,
                            NEW i \in DOMAIN L'[c], NEW j \in DOMAIN L'[d],
                            L'[c][i] = L'[d][j]
                     PROVE  c = d /\ i = j
            BY DEF EndpointBridgedOnce
        <2>1. \A e \in Channels : \A n \in DOMAIN L'[e] :
                 \/ e = ch /\ n = Len(L[ch]) + 1 /\ L'[e][n] = key
                 \/ n \in DOMAIN L[e] /\ L'[e][n] = L[e][n]
            BY <1>1, <1>2
        <2>2. \A e \in Channels : \A n \in DOMAIN L[e] : L[e][n] # key
            <3>1. \A e \in Channels : \A n \in DOMAIN L[e] : L[e][n] \in DOMAIN M
                BY DEF RegistryConsistent, ChannelEndpointsRegistered
            <3>2. key \notin DOMAIN M
                BY DEF AttachStep
            <3>3. QED
                BY <3>1, <3>2
        <2>3. QED
            BY <2>1, <2>2 DEF RegistryConsistent, EndpointBridgedOnce
    <1>6. BridgeHandlerListed'
        <2> SUFFICES ASSUME NEW k \in DOMAIN M', M'[k].ch # NoChannel
                     PROVE  k \in Elems(L'[M'[k].ch])
            BY DEF BridgeHandlerListed
        <2>1. CASE k = key
            BY <2>1, <1>1, <1>3
        <2>2. CASE k # key
            <3>1. k \in DOMAIN M /\ M'[k] = M[k]
                BY <2>2, <1>3
            <3>2. k \in Elems(L[M[k].ch]) /\ M[k].ch \in Channels
                BY <3>1 DEF RegistryConsistent, BridgeHandlerListed, TypeOK, Handlers
            <3>3. QED
                BY <3>1, <3>2, <1>1
        <2>3. QED
            BY <2>1, <2>2
    <1>7. BridgedChannelHasMessageBridge'
        BY <1>1 DEF RegistryConsistent, BridgedChannelHasMessageBridge, AttachStep
    <1>8. QED
        BY <1>4, <1>5, <1>6, <1>7 DEF RegistryConsistent

(* The registry invariant, for every instance whose static prefixes do    *)
(* not produce an endpoint key of a bridge: SetHttpChannelBridge,         *)
(* SetHttpPathPrefixChannelBridge, SetStaticRoute and                     *)
(* clearHttpChannelBridgesForService keep every listed endpoint bound to  *)
(* a handler of its channel, listed once, every bridge handler listed and *)
(* every bridged channel with its MessageBridge, whatever the             *)
(* interleaving of their callers.                                         *)
THEOREM RegistryConsistentInvariant ==
    ASSUME StaticKeysDistinct
    PROVE  Spec => []RegistryConsistent
<1> DEFINE L == serviceChanToBridgeEndpoints
           M == endpointHandlerMap
           IInv == TypeOK /\ RegistryConsistent
<1>1. Init => RegistryConsistent
    BY DEF Init, RegistryConsistent, ChannelEndpointsRegistered,
           EndpointBridgedOnce, BridgeHandlerListed,
           BridgedChannelHasMessageBridge, Elems
<1>2. IInv /\ [Next]_vars => RegistryConsistent'
    <2> SUFFICES ASSUME TypeOK, RegistryConsistent, [Next]_vars
                 PROVE  RegistryConsistent'
        OBVIOUS
    <2>1. ASSUME NEW a \in Actors, NEW ch \in Channels, NEW uri \in ExactUris,
                 NEW m \in Methods, NEW hd \in BOOLEAN, NEW op \in BOOLEAN,
                 SetHttpChannelBridge(a, ch, uri, m, hd, op)
          PROVE  RegistryConsistent'
        <3>1. KeyOf(uri, m) \in BridgeKeys
            BY DEF BridgeKeys
        <3>2. AttachStep(ch, KeyOf(uri, m))
            BY <2>1 DEF SetHttpChannelBridge, AttachStep, EnsureMessageBridge
        <3>3. QED
            BY <3>1, <3>2, AttachPreserves
    <2>2. ASSUME NEW a \in Actors, NEW ch \in Channels, NEW uri \in PrefixUris,
                 SetHttpPathPrefixChannelBridge(a, ch, uri)
          PROVE  RegistryConsistent'
        <3>1. KeyOf(uri, AllMethodsWildcard) \in BridgeKeys
            BY DEF BridgeKeys
        <3>2. AttachStep(ch, KeyOf(uri, AllMethodsWildcard))
            BY <2>2 DEF SetHttpPathPrefixChannelBridge, AttachStep, EnsureMessageBridge
        <3>3. QED
            BY <3>1, <3>2, AttachPreserves
    <2>3. ASSUME NEW a \in Actors, NEW p \in StaticPrefixes, NEW d \in StaticDirs,
                 SetStaticRoute(a, p, d)
          PROVE  RegistryConsistent'
        <3> DEFINE key == StaticKeyOf(p)
        <3>1. key \notin BridgeKeys
            BY StaticKeysDistinct DEF StaticKeysDistinct, StaticKeys
        <3>2. /\ M' = MapPut(M, key, [key |-> key, ch |-> NoChannel, dir |-> d])
              /\ L' = L
              /\ messageBridgeMap' = messageBridgeMap
            BY <2>3 DEF SetStaticRoute
        <3>3. /\ DOMAIN M' = DOMAIN M \cup {key}
              /\ M'[key].ch = NoChannel
              /\ \A k \in DOMAIN M \ {key} : M'[k] = M[k]
            BY <3>2 DEF MapPut
        <3>4. \A c \in Channels : \A i \in DOMAIN L[c] : L[c][i] \in BridgeKeys
            BY LenProperties DEF TypeOK
        <3>5. ChannelEndpointsRegistered'
            BY <3>1, <3>2, <3>3, <3>4
            DEF RegistryConsistent, ChannelEndpointsRegistered
        <3>6. BridgeHandlerListed'
            BY <3>2, <3>3 DEF RegistryConsistent, BridgeHandlerListed
        <3>7. QED
            BY <3>2, <3>5, <3>6
            DEF RegistryConsistent, EndpointBridgedOnce, BridgedChannelHasMessageBridge
    <2>4. ASSUME NEW a \in Actors, NEW ch \in Channels,
                 ClearHttpChannelBridgesForService(a, ch)
          PROVE  RegistryConsistent'
        <3> DEFINE victims == Elems(L[ch])
        <3>1. /\ L' = [L EXCEPT ![ch] = <<>>]
              /\ M' = [k \in DOMAIN M \ victims |-> M[k]]
              /\ messageBridgeMap' = messageBridgeMap
            BY <2>4 DEF ClearHttpChannelBridgesForService
        <3>2. \A c \in Channels \ {ch} : \A i \in DOMAIN L[c] : L[c][i] \notin victims
            BY DEF RegistryConsistent, EndpointBridgedOnce, Elems
        <3>3. ChannelEndpointsRegistered'
            BY <3>1, <3>2 DEF RegistryConsistent, ChannelEndpointsRegistered, TypeOK
        <3>4. EndpointBridgedOnce'
            BY <3>1 DEF RegistryConsistent, EndpointBridgedOnce, TypeOK
        <3>5. BridgeHandlerListed'
            <4> SUFFICES ASSUME NEW k \in DOMAIN M', M'[k].ch # NoChannel
                         PROVE  k \in Elems(L'[M'[k].ch])
                BY DEF BridgeHandlerListed
            <4>1. k \in DOMAIN M /\ k \notin victims /\ M'[k] = M[k]
                BY <3>1
            <4>2. k \in Elems(L[M[k].ch]) /\ M[k].ch \in Channels
                BY <4>1 DEF RegistryConsistent, BridgeHandlerListed, TypeOK, Handlers
            <4>3. M[k].ch # ch
                BY <4>1, <4>2
            <4>4. QED
                BY <3>1, <4>1, <4>2, <4>3 DEF TypeOK
        <3>6. BridgedChannelHasMessageBridge'
            BY <3>1 DEF RegistryConsistent, BridgedChannelHasMessageBridge, TypeOK
        <3>7. QED
            BY <3>3, <3>4, <3>5, <3>6 DEF RegistryConsistent
    <2>5. ASSUME NEW a \in Actors, LoadGlobalHttpHandler(a)
          PROVE  RegistryConsistent'
        BY <2>5 DEF LoadGlobalHttpHandler, RegistryConsistent,
               ChannelEndpointsRegistered, EndpointBridgedOnce,
               BridgeHandlerListed, BridgedChannelHasMessageBridge
    <2>6. CASE UNCHANGED vars
        BY <2>6 DEF vars, RegistryConsistent, ChannelEndpointsRegistered,
               EndpointBridgedOnce, BridgeHandlerListed,
               BridgedChannelHasMessageBridge
    <2>7. QED
        BY <2>1, <2>2, <2>3, <2>4, <2>5, <2>6 DEF Next
<1>3. QED
    BY <1>1, <1>2, TypeCorrect, PTL DEF Spec

=============================================================================
