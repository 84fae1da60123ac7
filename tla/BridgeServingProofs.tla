------------------------ MODULE BridgeServingProofs ------------------------
(* With a single goroutine calling the façade, every request the served   *)
(* router hands to a bridge handler reaches the handler endpointHandlerMap *)
(* holds for the route's name (ServedBridgeHandlerRegistered), for every  *)
(* value of the constants.  With two goroutines the clear_load_races run  *)
(* shows it fails; for static routes the static_route_reregistered run    *)
(* shows that a second SetStaticRoute leaves the first route serving.     *)
EXTENDS BridgeRegistryProofs, WellFoundedInduction

(* Every route of rt that carries a bridge handler is registered in       *)
(* endpointHandlerMap under its name, with the handler the route carries. *)
RoutesRegistered(rt) ==
    \A i \in DOMAIN rt :
        rt[i].handler.ch # NoChannel =>
            /\ rt[i].name \in DOMAIN endpointHandlerMap
            /\ endpointHandlerMap[rt[i].name] = rt[i].handler

(* A static key holds a static file handler, not a bridge's.              *)
StaticHandlersFit ==
    \A k \in DOMAIN endpointHandlerMap \cap StaticKeys :
        endpointHandlerMap[k].ch = NoChannel

(* The router a caller will serve next is fully registered: ps.router     *)
(* while it is idle, the router returned by its clear while it loads.     *)
ServingInv ==
    /\ TypeOK
    /\ StaticHandlersFit
    /\ \A a \in Actors :
           /\ pc[a] = "idle" => RoutesRegistered(router)
           /\ pc[a] = "loading" => RoutesRegistered(pending[a])
    /\ DOMAIN pending = Actors

(* One embedder goroutine calls the façade.                               *)
SingleCaller == \E a \in Actors : Actors = {a}

-----------------------------------------------------------------------------
(* The route mux serves is one of the router's routes: a non-empty set of *)
(* positions has a least element.                                          *)
LEMMA ServingRouteInRouter ==
    ASSUME NEW rt, IsRouter(rt), NEW m, NEW p,
           MatchingPositions(rt, m, p) # {}
    PROVE  \E i \in DOMAIN rt : ServingRoute(rt, m, p) = rt[i]
<1> DEFINE M == MatchingPositions(rt, m, p)
<1>1. M \subseteq Nat
    BY DEF MatchingPositions, IsRouter, Positions
<1>2. \E x \in M : \A y \in M : ~(<<y, x>> \in OpToRel(<, Nat))
    BY <1>1, NatLessThanWellFounded, WFMin
<1>3. \E x \in M : \A y \in M : x <= y
    <2>1. PICK x \in M : \A y \in M : ~(<<y, x>> \in OpToRel(<, Nat))
        BY <1>2
    <2>2. \A y \in M : y < x => <<y, x>> \in OpToRel(<, Nat)
        BY <1>1 DEF OpToRel
    <2>3. \A y \in M : ~(y < x)
        BY <2>1, <2>2, Zenon
    <2>4. \A y \in M : x <= y
        BY <1>1, <2>3
    <2>5. QED
        BY <2>4
<1>4. (CHOOSE i \in M : \A j \in M : i <= j) \in M
    BY <1>3
<1>5. QED
    BY <1>4 DEF ServingRoute, MatchingPositions

(* Registering handler h under a free key and appending a route of that  *)
(* name and handler keeps every bridge route registered.                  *)
LEMMA PutFreshKeepsRoutesRegistered ==
    ASSUME NEW key, NEW h, NEW pos, NEW r,
           RoutesRegistered(router),
           key \notin DOMAIN endpointHandlerMap,
           endpointHandlerMap' = MapPut(endpointHandlerMap, key, h),
           router' = MapPut(router, pos, r),
           r.name = key, r.handler = h
    PROVE  RoutesRegistered(router)'
    BY DEF RoutesRegistered, MapPut

(* Registering a static handler under a key that no bridge route names,   *)
(* and appending its route, keeps every bridge route registered.          *)
LEMMA PutStaticKeepsRoutesRegistered ==
    ASSUME NEW key, NEW h, NEW pos, NEW r,
           RoutesRegistered(router),
           \A i \in DOMAIN router : router[i].handler.ch # NoChannel =>
                                       router[i].name # key,
           endpointHandlerMap' = MapPut(endpointHandlerMap, key, h),
           router' = MapPut(router, pos, r),
           r.handler = h, h.ch = NoChannel
    PROVE  RoutesRegistered(router)'
    BY DEF RoutesRegistered, MapPut

(* The router the Walk of a clear builds is registered in the map the    *)
(* clear leaves: it keeps exactly the routes whose names survive.          *)
LEMMA WalkCopyRegistered ==
    ASSUME NEW victims, IsRouter(router), RoutesRegistered(router),
           endpointHandlerMap' =
               [k \in DOMAIN endpointHandlerMap \ victims |-> endpointHandlerMap[k]]
    PROVE  \A i \in DOMAIN WalkCopy(router, victims) :
               WalkCopy(router, victims)[i].handler.ch # NoChannel =>
               /\ WalkCopy(router, victims)[i].name \in DOMAIN endpointHandlerMap'
               /\ endpointHandlerMap'[WalkCopy(router, victims)[i].name]
                      = WalkCopy(router, victims)[i].handler
<1> SUFFICES ASSUME NEW i \in DOMAIN WalkCopy(router, victims),
                    WalkCopy(router, victims)[i].handler.ch # NoChannel
             PROVE  /\ WalkCopy(router, victims)[i].name \in DOMAIN endpointHandlerMap'
                    /\ endpointHandlerMap'[WalkCopy(router, victims)[i].name]
                           = WalkCopy(router, victims)[i].handler
    OBVIOUS
<1>1. /\ i \in DOMAIN router
      /\ router[i].name \notin victims
      /\ WalkCopy(router, victims)[i] = CopyRoute(router[i])
    BY DEF WalkCopy
<1>2. router[i] \in Route
    BY <1>1 DEF IsRouter
<1>3. /\ CopyRoute(router[i]).name = router[i].name
      /\ CopyRoute(router[i]).handler = router[i].handler
    BY <1>2 DEF CopyRoute, Route
<1>4. /\ router[i].name \in DOMAIN endpointHandlerMap
      /\ endpointHandlerMap[router[i].name] = router[i].handler
    BY <1>1, <1>3 DEF RoutesRegistered
<1>5. QED
    BY <1>1, <1>3, <1>4

-----------------------------------------------------------------------------
(* ServingInv holds initially and is kept by every façade call of a single *)
(* caller, given that no static key is a bridge key.                      *)
LEMMA ServingInvInit == Init => ServingInv
    BY EmptyRouterType, EmptySeq, BridgeAssumptions
    DEF Init, ServingInv, TypeOK, StaticHandlersFit, RoutesRegistered, EmptyRouter

LEMMA ServingInvStep ==
    ASSUME StaticKeysDistinct, SingleCaller,
           ServingInv, TypeOK', [Next]_vars
    PROVE  ServingInv'
<1> DEFINE M == endpointHandlerMap
<1>1. PICK a \in Actors : Actors = {a}
    BY DEF SingleCaller
<1>2. SUFFICES /\ StaticHandlersFit'
               /\ pc'[a] = "idle" => RoutesRegistered(router)'
               /\ pc'[a] = "loading" => RoutesRegistered(pending[a])'
               /\ DOMAIN pending' = Actors
    BY <1>1 DEF ServingInv
<1>3. /\ pc[a] = "idle" => RoutesRegistered(router)
      /\ pc[a] = "loading" => RoutesRegistered(pending[a])
      /\ StaticHandlersFit /\ TypeOK /\ DOMAIN pending = Actors
    BY <1>1 DEF ServingInv
<1>4. ASSUME NEW ch \in Channels, NEW uri \in ExactUris, NEW m \in Methods,
             NEW hd \in BOOLEAN, NEW op \in BOOLEAN,
             SetHttpChannelBridge(a, ch, uri, m, hd, op)
      PROVE  <1>2!1
    <2> DEFINE key == KeyOf(uri, m)
               h == [key |-> key, ch |-> ch, dir |-> NoDir]
    <2>1. /\ pc[a] = "idle" /\ key \notin DOMAIN M
          /\ M' = MapPut(M, key, h)
          /\ \E r : /\ router' = MapPut(router, nextPos + 1, r)
                    /\ r.name = key /\ r.handler = h
          /\ UNCHANGED <<pc, pending>>
        BY <1>4 DEF SetHttpChannelBridge, AddRoute
    <2>2. key \notin StaticKeys
        BY StaticKeysDistinct DEF StaticKeysDistinct, BridgeKeys
    <2>3. StaticHandlersFit'
        BY <1>3, <2>1, <2>2 DEF StaticHandlersFit, MapPut
    <2>4. RoutesRegistered(router)'
        BY <1>3, <2>1, PutFreshKeepsRoutesRegistered
    <2>5. QED
        BY <2>1, <2>3, <2>4, <1>3
<1>5. ASSUME NEW ch \in Channels, NEW uri \in PrefixUris,
             SetHttpPathPrefixChannelBridge(a, ch, uri)
      PROVE  <1>2!1
    <2> DEFINE key == KeyOf(uri, AllMethodsWildcard)
               h == [key |-> key, ch |-> ch, dir |-> NoDir]
    <2>1. /\ pc[a] = "idle" /\ key \notin DOMAIN M
          /\ M' = MapPut(M, key, h)
          /\ \E r : /\ router' = MapPut(router, nextPos + 1, r)
                    /\ r.name = key /\ r.handler = h
          /\ UNCHANGED <<pc, pending>>
        BY <1>5 DEF SetHttpPathPrefixChannelBridge, AddRoute
    <2>2. key \notin StaticKeys
        BY StaticKeysDistinct DEF StaticKeysDistinct, BridgeKeys
    <2>3. StaticHandlersFit'
        BY <1>3, <2>1, <2>2 DEF StaticHandlersFit, MapPut
    <2>4. RoutesRegistered(router)'
        BY <1>3, <2>1, PutFreshKeepsRoutesRegistered
    <2>5. QED
        BY <2>1, <2>3, <2>4, <1>3
<1>6. ASSUME NEW p \in StaticPrefixes, NEW d \in StaticDirs, SetStaticRoute(a, p, d)
      PROVE  <1>2!1
    <2> DEFINE key == StaticKeyOf(p)
               h == [key |-> key, ch |-> NoChannel, dir |-> d]
    <2>1. /\ pc[a] = "idle"
          /\ M' = MapPut(M, key, h)
          /\ \E r : /\ router' = MapPut(router, nextPos + 1, r)
                    /\ r.handler = h
          /\ UNCHANGED <<pc, pending>>
        BY <1>6 DEF SetStaticRoute, AddRoute
    <2>2. key \in StaticKeys
        BY DEF StaticKeys
    <2>3. \A i \in DOMAIN router : router[i].handler.ch # NoChannel =>
                                     router[i].name # key
        <3> SUFFICES ASSUME NEW i \in DOMAIN router,
                            router[i].handler.ch # NoChannel,
                            router[i].name = key
                     PROVE  FALSE
            OBVIOUS
        <3>1. key \in DOMAIN M /\ M[key] = router[i].handler
            BY <1>3, <2>1 DEF RoutesRegistered
        <3>2. M[key].ch = NoChannel
            BY <1>3, <2>2, <3>1 DEF StaticHandlersFit
        <3>3. QED
            BY <3>1, <3>2
    <2>4. StaticHandlersFit'
        BY <1>3, <2>1 DEF StaticHandlersFit, MapPut
    <2>5. RoutesRegistered(router)'
        BY <1>3, <2>1, <2>3, PutStaticKeepsRoutesRegistered
    <2>6. QED
        BY <2>1, <2>4, <2>5, <1>3
<1>7. ASSUME NEW ch \in Channels, ClearHttpChannelBridgesForService(a, ch)
      PROVE  <1>2!1
    <2> DEFINE victims == Elems(serviceChanToBridgeEndpoints[ch])
    <2>1. /\ pc[a] = "idle"
          /\ pending' = [pending EXCEPT ![a] = WalkCopy(router, victims)]
          /\ pc' = [pc EXCEPT ![a] = "loading"]
          /\ M' = [k \in DOMAIN M \ victims |-> M[k]]
        BY <1>7 DEF ClearHttpChannelBridgesForService
    <2>2. pending'[a] = WalkCopy(router, victims) /\ DOMAIN pending' = Actors
        BY <1>3, <2>1
    <2>3. pc'[a] = "loading"
        BY <1>3, <2>1 DEF TypeOK
    <2>4. RoutesRegistered(pending[a])'
        <3>1. IsRouter(router) /\ RoutesRegistered(router)
            BY <1>3, <2>1 DEF TypeOK
        <3>2. \A i \in DOMAIN WalkCopy(router, victims) :
                  WalkCopy(router, victims)[i].handler.ch # NoChannel =>
                  /\ WalkCopy(router, victims)[i].name \in DOMAIN M'
                  /\ M'[WalkCopy(router, victims)[i].name]
                         = WalkCopy(router, victims)[i].handler
            BY <2>1, <3>1, WalkCopyRegistered
        <3>3. QED
            BY <2>2, <3>2 DEF RoutesRegistered
    <2>5. StaticHandlersFit'
        BY <1>3, <2>1 DEF StaticHandlersFit
    <2>6. QED
        BY <2>2, <2>3, <2>4, <2>5
<1>8. ASSUME LoadGlobalHttpHandler(a)
      PROVE  <1>2!1
    <2>1. /\ pc[a] = "loading"
          /\ router' = pending[a]
          /\ pc' = [pc EXCEPT ![a] = "idle"]
          /\ pending' = [pending EXCEPT ![a] = EmptyRouter]
          /\ UNCHANGED endpointHandlerMap
        BY <1>8 DEF LoadGlobalHttpHandler
    <2>2. pc'[a] = "idle" /\ DOMAIN pending' = Actors
        BY <1>3, <2>1 DEF TypeOK
    <2>3. RoutesRegistered(router)'
        BY <1>3, <2>1 DEF RoutesRegistered
    <2>4. StaticHandlersFit'
        BY <1>3, <2>1 DEF StaticHandlersFit
    <2>5. QED
        BY <2>2, <2>3, <2>4
<1>9. CASE UNCHANGED vars
    BY <1>3, <1>9 DEF vars, StaticHandlersFit, RoutesRegistered
<1>10. QED
    BY <1>1, <1>4, <1>5, <1>6, <1>7, <1>8, <1>9 DEF Next

(* With one goroutine calling the façade and no static key equal to a     *)
(* bridge key, every request that ps.router hands to a bridge handler      *)
(* reaches the handler endpointHandlerMap holds for the route's name: an  *)
(* endpoint cleared by clearHttpChannelBridgesForService is no longer      *)
(* served once its router is loaded, and no bridge route serves a handler *)
(* other than the registered one.                                         *)
THEOREM ServedBridgeHandlerRegisteredSingleCaller ==
    ASSUME StaticKeysDistinct, SingleCaller
    PROVE  Spec => []ServedBridgeHandlerRegistered
<1>1. ServingInv => ServedBridgeHandlerRegistered
    <2> SUFFICES ASSUME ServingInv, Quiescent,
                        NEW m \in AllMethods, NEW p \in ReqPaths,
                        MatchingPositions(router, m, p) # {},
                        ServingRoute(router, m, p).handler.ch # NoChannel
                 PROVE  /\ ServingRoute(router, m, p).name \in DOMAIN endpointHandlerMap
                        /\ endpointHandlerMap[ServingRoute(router, m, p).name]
                               = ServingRoute(router, m, p).handler
        BY DEF ServedBridgeHandlerRegistered
    <2>1. PICK a \in Actors : Actors = {a}
        BY DEF SingleCaller
    <2>2. RoutesRegistered(router) /\ IsRouter(router)
        BY <2>1 DEF Quiescent, ServingInv, TypeOK
    <2>3. PICK i \in DOMAIN router : ServingRoute(router, m, p) = router[i]
        BY <2>2, ServingRouteInRouter
    <2>4. QED
        BY <2>2, <2>3 DEF RoutesRegistered
<1>2. ServingInv /\ [Next]_vars /\ TypeOK' => ServingInv'
    BY ServingInvStep
<1>3. QED
    BY <1>1, <1>2, ServingInvInit, TypeCorrect, PTL DEF Spec

=============================================================================
