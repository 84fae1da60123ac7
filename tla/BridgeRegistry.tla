--------------------------- MODULE BridgeRegistry ---------------------------
(***************************************************************************)
(* The REST <-> bus bridge registry of the platform server                 *)
(* (plank server.go): the maps endpointHandlerMap,                         *)
(* serviceChanToBridgeEndpoints and messageBridgeMap, and the gorilla mux  *)
(* router ps.router that the HTTP server serves.                           *)
(*                                                                         *)
(* Every façade operation that takes ps.lock is one atomic action.  The    *)
(* replacement protocol of the code is two lock acquisitions by the same   *)
(* caller: clearHttpChannelBridgesForService builds and RETURNS a new      *)
(* router, and only a later loadGlobalHttpHandler installs it.  An actor   *)
(* is a goroutine of the embedder calling the façade; pc[a] = "loading"    *)
(* while it holds a router returned by the clear and not yet installed.   *)
(*                                                                         *)
(* A router is a function from insertion positions to routes: mux matches  *)
(* the routes of its list in insertion order, which here is increasing     *)
(* position.  nextPos counts the routes registered so far in the run.      *)
(***************************************************************************)
EXTENDS Naturals, Sequences, FiniteSets

CONSTANTS
    Channels,        \* service channels that can be bridged
    ExactUris,       \* URIs given to SetHttpChannelBridge
    PrefixUris,      \* URIs given to SetHttpPathPrefixChannelBridge
    StaticPrefixes,  \* prefixes given to SetStaticRoute
    StaticDirs,      \* its fullpath and middlewareFn arguments, one value each
    Methods,         \* HTTP methods a RESTBridgeConfig may name
    ReqPaths,        \* request paths that probe the served router
    Actors,          \* embedder goroutines calling the façade concurrently
    NoChannel,       \* the channel field of a static-file handler
    NoDir,           \* the directory field of a bridge handler
    MaxRoutes        \* bound: routes registered in one behaviour

MethodHead == "HEAD"
MethodOptions == "OPTIONS"
AllMethodsWildcard == "*"

ASSUME BridgeAssumptions ==
    /\ Channels # {} /\ Actors # {}
    /\ NoChannel \notin Channels
    /\ NoDir \notin StaticDirs
    /\ MaxRoutes \in Nat
    /\ AllMethodsWildcard \notin Methods

(* endpointHandlerKey := bridgeConfig.Uri + "-" + bridgeConfig.Method      *)
KeyOf(uri, method) == uri \o "-" \o method

(* endpointHandlerMapKey := prefix + "*"                                   *)
StaticKeyOf(prefix) == prefix \o "*"

(* ps.router.PathPrefix(prefix + "/")                                      *)
StaticPathOf(prefix) == prefix \o "/"

BridgeKeys ==
    {KeyOf(u, m) : u \in ExactUris, m \in Methods}
    \cup {KeyOf(u, AllMethodsWildcard) : u \in PrefixUris}

StaticKeys == {StaticKeyOf(p) : p \in StaticPrefixes}

Keys == BridgeKeys \cup StaticKeys

(* The static-file keys are not endpoint keys of any bridge.  The code   *)
(* does not ensure it: SetStaticRoute("/x-") stores under "/x-*", the key *)
(* of the prefix bridge at "/x".                                           *)
StaticKeysDistinct == StaticKeys \cap BridgeKeys = {}

Paths == ExactUris \cup PrefixUris \cup {StaticPathOf(p) : p \in StaticPrefixes}

AllMethods == Methods \cup {MethodHead, MethodOptions}

(* A handler is identified by the endpoint key it was built for, the      *)
(* service channel whose payload channel it waits on (NoChannel for the   *)
(* static file server) and, for the static file server, the directory and *)
(* middlewares it was built around (NoDir for a bridge).                  *)
Handlers == [key : Keys, ch : Channels \cup {NoChannel},
             dir : StaticDirs \cup {NoDir}]

(* A mux route: its name, PathPrefix or Path, its template, whether it has *)
(* a method matcher and the methods of that matcher, and its handler.     *)
Route ==
    [name : Keys, prefix : BOOLEAN, path : Paths,
     matcher : BOOLEAN, methods : SUBSET AllMethods, handler : Handlers]

Positions == 1..MaxRoutes

IsRouter(rt) ==
    /\ DOMAIN rt \subseteq Positions
    /\ \A i \in DOMAIN rt : rt[i] \in Route

EmptyRouter == [i \in {} |-> CHOOSE r \in Route : TRUE]

VARIABLES
    endpointHandlerMap,            \* ps.endpointHandlerMap
    serviceChanToBridgeEndpoints,  \* ps.serviceChanToBridgeEndpoints
    messageBridgeMap,              \* channels with an entry in ps.messageBridgeMap
    router,                        \* the routes of ps.router
    nextPos,                       \* routes registered so far
    pc,                            \* per actor: "idle" or "loading"
    pending                        \* per actor: router returned by the clear

vars == <<endpointHandlerMap, serviceChanToBridgeEndpoints, messageBridgeMap,
          router, nextPos, pc, pending>>

-----------------------------------------------------------------------------
(* Helpers translated from the handlers.                                   *)

(* Go map insertion m[k] = v.                                              *)
MapPut(m, k, v) == [x \in DOMAIN m \cup {k} |-> IF x = k THEN v ELSE m[x]]

(* The set of names held in a []string.                                    *)
Elems(s) == {s[i] : i \in DOMAIN s}

(* Mutant: the route stored one position past the end of the list.       *)
AddRouteOffByOne(rt, pos, r) == MapPut(rt, pos + 1, r)

(* router.Path(...).Methods(...).Name(...).Handler(...) and               *)
(* router.PathPrefix(...).Name(...).Handler(...) append one route.         *)
AddRoute(rt, pos, r) == MapPut(rt, pos, r)

(* permittedMethods: the bridge method, plus HEAD and OPTIONS on request. *)
PermittedMethods(method, allowHead, allowOptions) ==
    {method}
    \cup (IF allowHead THEN {MethodHead} ELSE {})
    \cup (IF allowOptions THEN {MethodOptions} ELSE {})

(* The MessageBridge for a channel is created on its first bridge.        *)
EnsureMessageBridge(ch) == messageBridgeMap' = messageBridgeMap \cup {ch}

(* The body of the Walk callback of clearHttpChannelBridgesForService for *)
(* a route that is kept: it is re-added with newRouter.Name(name)          *)
(* .Path(path).Methods(methods...).  A PathPrefix route thus becomes a     *)
(* Path route, and GetMethods of a route without a method matcher fails,  *)
(* so it is re-added with a matcher of no methods.                         *)
CopyRoute(r) ==
    [r EXCEPT !.prefix = FALSE,
              !.matcher = TRUE,
              !.methods = IF r.matcher THEN r.methods ELSE {}]

(* Mutant: the Walk copies every route, the lookupMap test dropped.       *)
WalkCopyAll(rt, victims) == [i \in DOMAIN rt |-> CopyRoute(rt[i])]

(* The Walk: every route whose name is not a victim, copied, in order.    *)
WalkCopy(rt, victims) ==
    [i \in {j \in DOMAIN rt : rt[j].name \notin victims} |-> CopyRoute(rt[i])]

-----------------------------------------------------------------------------
(* Operations.                                                             *)

Init ==
    /\ endpointHandlerMap = [k \in {} |-> CHOOSE h \in Handlers : TRUE]
    /\ serviceChanToBridgeEndpoints = [c \in Channels |-> <<>>]
    /\ messageBridgeMap = {}
    /\ router = EmptyRouter
    /\ nextPos = 0
    /\ pc = [a \in Actors |-> "idle"]
    /\ pending = [a \in Actors |-> EmptyRouter]

(* Mutant: SetHttpChannelBridge without the occupied-key early return.    *)
SetHttpChannelBridgeUnguarded(a, ch, uri, method, allowHead, allowOptions) ==
    LET key == KeyOf(uri, method)
        h   == [key |-> key, ch |-> ch, dir |-> NoDir]
    IN
    /\ pc[a] = "idle"
    /\ nextPos < MaxRoutes
    /\ EnsureMessageBridge(ch)
    /\ endpointHandlerMap' = MapPut(endpointHandlerMap, key, h)
    /\ serviceChanToBridgeEndpoints' =
          [serviceChanToBridgeEndpoints EXCEPT ![ch] = Append(@, key)]
    /\ router' = AddRoute(router, nextPos + 1,
                   [name |-> key, prefix |-> FALSE, path |-> uri,
                    matcher |-> TRUE,
                    methods |-> PermittedMethods(method, allowHead, allowOptions),
                    handler |-> h])
    /\ nextPos' = nextPos + 1
    /\ UNCHANGED <<pc, pending>>

(* SetHttpChannelBridge: under ps.lock.  An occupied key is a warning and  *)
(* an early return, a stuttering step.                                     *)
SetHttpChannelBridge(a, ch, uri, method, allowHead, allowOptions) ==
    LET key == KeyOf(uri, method)
        h   == [key |-> key, ch |-> ch, dir |-> NoDir]
    IN
    /\ pc[a] = "idle"
    /\ nextPos < MaxRoutes
    /\ key \notin DOMAIN endpointHandlerMap
    /\ EnsureMessageBridge(ch)
    /\ endpointHandlerMap' = MapPut(endpointHandlerMap, key, h)
    /\ serviceChanToBridgeEndpoints' =
          [serviceChanToBridgeEndpoints EXCEPT ![ch] = Append(@, key)]
    /\ router' = AddRoute(router, nextPos + 1,
                   [name |-> key, prefix |-> FALSE, path |-> uri,
                    matcher |-> TRUE,
                    methods |-> PermittedMethods(method, allowHead, allowOptions),
                    handler |-> h])
    /\ nextPos' = nextPos + 1
    /\ UNCHANGED <<pc, pending>>

(* SetHttpPathPrefixChannelBridge: as above with key uri + "-*" and a      *)
(* PathPrefix route without a method matcher.  The CAS on                  *)
(* routerConcurrencyProtection is taken under ps.lock and never fails.     *)
SetHttpPathPrefixChannelBridge(a, ch, uri) ==
    LET key == KeyOf(uri, AllMethodsWildcard)
        h   == [key |-> key, ch |-> ch, dir |-> NoDir]
    IN
    /\ pc[a] = "idle"
    /\ nextPos < MaxRoutes
    /\ key \notin DOMAIN endpointHandlerMap
    /\ EnsureMessageBridge(ch)
    /\ endpointHandlerMap' = MapPut(endpointHandlerMap, key, h)
    /\ serviceChanToBridgeEndpoints' =
          [serviceChanToBridgeEndpoints EXCEPT ![ch] = Append(@, key)]
    /\ router' = AddRoute(router, nextPos + 1,
                   [name |-> key, prefix |-> TRUE, path |-> uri,
                    matcher |-> FALSE, methods |-> {}, handler |-> h])
    /\ nextPos' = nextPos + 1
    /\ UNCHANGED <<pc, pending>>

(* SetStaticRoute: no lock, no check for an occupied key; a new handler    *)
(* around the directory and middlewares is stored (overwriting) and a      *)
(* PathPrefix(prefix + "/") route carrying it appended.  An earlier route  *)
(* of the same prefix stays in the router with the handler it was given.  *)
SetStaticRoute(a, prefix, dir) ==
    LET key == StaticKeyOf(prefix)
        h   == [key |-> key, ch |-> NoChannel, dir |-> dir]
    IN
    /\ pc[a] = "idle"
    /\ nextPos < MaxRoutes
    /\ endpointHandlerMap' = MapPut(endpointHandlerMap, key, h)
    /\ router' = AddRoute(router, nextPos + 1,
                   [name |-> key, prefix |-> TRUE, path |-> StaticPathOf(prefix),
                    matcher |-> FALSE, methods |-> {}, handler |-> h])
    /\ nextPos' = nextPos + 1
    /\ UNCHANGED <<serviceChanToBridgeEndpoints, messageBridgeMap, pc, pending>>

(* clearHttpChannelBridgesForService: under ps.lock, build the new router  *)
(* from the current one without the channel's endpoints, empty the         *)
(* channel's list and delete its keys; the new router is returned to the   *)
(* caller, ps.router is left as it is.  The MessageBridge is kept.        *)
ClearHttpChannelBridgesForService(a, ch) ==
    LET victims == Elems(serviceChanToBridgeEndpoints[ch])
    IN
    /\ pc[a] = "idle"
    /\ pending' = [pending EXCEPT ![a] = WalkCopy(router, victims)]
    /\ pc' = [pc EXCEPT ![a] = "loading"]
    /\ serviceChanToBridgeEndpoints' =
          [serviceChanToBridgeEndpoints EXCEPT ![ch] = <<>>]
    /\ endpointHandlerMap' =
          [k \in DOMAIN endpointHandlerMap \ victims |-> endpointHandlerMap[k]]
    /\ UNCHANGED <<messageBridgeMap, router, nextPos>>

(* loadGlobalHttpHandler(newRouter): under ps.lock, ps.router = h and the  *)
(* HTTP server's handler is rebuilt around it.                            *)
LoadGlobalHttpHandler(a) ==
    /\ pc[a] = "loading"
    /\ router' = pending[a]
    /\ pc' = [pc EXCEPT ![a] = "idle"]
    /\ pending' = [pending EXCEPT ![a] = EmptyRouter]
    /\ UNCHANGED <<endpointHandlerMap, serviceChanToBridgeEndpoints,
                   messageBridgeMap, nextPos>>

Next ==
    \E a \in Actors :
        \/ \E ch \in Channels, uri \in ExactUris, m \in Methods,
              hd \in BOOLEAN, op \in BOOLEAN :
              SetHttpChannelBridge(a, ch, uri, m, hd, op)
        \/ \E ch \in Channels, uri \in PrefixUris :
              SetHttpPathPrefixChannelBridge(a, ch, uri)
        \/ \E p \in StaticPrefixes, d \in StaticDirs : SetStaticRoute(a, p, d)
        \/ \E ch \in Channels : ClearHttpChannelBridgesForService(a, ch)
        \/ LoadGlobalHttpHandler(a)

Spec == Init /\ [][Next]_vars

-----------------------------------------------------------------------------
(* Serving a request: mux tries the routes in order and the first whose   *)
(* path and method matchers both match handles it.                         *)

IsPrefixOf(pre, s) == Len(pre) <= Len(s) /\ SubSeq(s, 1, Len(pre)) = pre

Matches(r, method, p) ==
    /\ IF r.prefix THEN IsPrefixOf(r.path, p) ELSE r.path = p
    /\ ~r.matcher \/ method \in r.methods

MatchingPositions(rt, method, p) ==
    {i \in DOMAIN rt : Matches(rt[i], method, p)}

(* The route that serves (method, p), for a non-empty MatchingPositions.  *)
ServingRoute(rt, method, p) ==
    LET M == MatchingPositions(rt, method, p)
    IN rt[CHOOSE i \in M : \A j \in M : i <= j]

Quiescent == \A a \in Actors : pc[a] = "idle"

-----------------------------------------------------------------------------
(* Properties.                                                             *)

TypeOK ==
    /\ DOMAIN endpointHandlerMap \subseteq Keys
    /\ \A k \in DOMAIN endpointHandlerMap : endpointHandlerMap[k] \in Handlers
    /\ serviceChanToBridgeEndpoints \in [Channels -> Seq(BridgeKeys)]
    /\ messageBridgeMap \subseteq Channels
    /\ IsRouter(router)
    /\ nextPos \in 0..MaxRoutes
    /\ pc \in [Actors -> {"idle", "loading"}]
    /\ \A a \in Actors : IsRouter(pending[a])

(* P1 of the spec, sharpened: every name in a channel's endpoint list is a *)
(* key of endpointHandlerMap whose handler waits on that channel.          *)
ChannelEndpointsRegistered ==
    \A c \in Channels : \A i \in DOMAIN serviceChanToBridgeEndpoints[c] :
        LET k == serviceChanToBridgeEndpoints[c][i]
        IN  /\ k \in DOMAIN endpointHandlerMap
            /\ endpointHandlerMap[k] = [key |-> k, ch |-> c, dir |-> NoDir]

(* An endpoint name is bridged to at most one channel, and listed once.   *)
EndpointBridgedOnce ==
    \A c, d \in Channels :
        \A i \in DOMAIN serviceChanToBridgeEndpoints[c] :
        \A j \in DOMAIN serviceChanToBridgeEndpoints[d] :
            serviceChanToBridgeEndpoints[c][i] = serviceChanToBridgeEndpoints[d][j]
                => c = d /\ i = j

(* Conversely every bridge handler in endpointHandlerMap is listed under  *)
(* its channel, so a clear of that channel will remove it.                *)
BridgeHandlerListed ==
    \A k \in DOMAIN endpointHandlerMap :
        endpointHandlerMap[k].ch # NoChannel =>
            k \in Elems(serviceChanToBridgeEndpoints[endpointHandlerMap[k].ch])

(* P2 of the spec, the direction the code keeps: a channel with bridged   *)
(* endpoints has its MessageBridge (the bridge outlives a clear).          *)
BridgedChannelHasMessageBridge ==
    \A c \in Channels :
        serviceChanToBridgeEndpoints[c] # <<>> => c \in messageBridgeMap

(* The registry invariant kept by SetHttpChannelBridge,                   *)
(* SetHttpPathPrefixChannelBridge and clearHttpChannelBridgesForService   *)
(* under any interleaving of their callers.                               *)
RegistryConsistent ==
    /\ ChannelEndpointsRegistered
    /\ EndpointBridgedOnce
    /\ BridgeHandlerListed
    /\ BridgedChannelHasMessageBridge

(* P4, first half: when no caller is between a clear and the load of its  *)
(* router, a request that the served router routes somewhere reaches the  *)
(* handler that endpointHandlerMap holds for that route's name.            *)
ServedHandlerRegistered ==
    Quiescent =>
        \A m \in AllMethods, p \in ReqPaths :
            MatchingPositions(router, m, p) # {} =>
                LET r == ServingRoute(router, m, p)
                IN  r.name \in DOMAIN endpointHandlerMap
                    /\ endpointHandlerMap[r.name] = r.handler

(* P4, first half, for the bridges: when no caller is between a clear and *)
(* the load of its router, a request that the served router hands to a    *)
(* bridge handler reaches a handler that endpointHandlerMap still holds   *)
(* under the route's name, so an endpoint removed by                       *)
(* clearHttpChannelBridgesForService is no longer served once the router  *)
(* the clear built is loaded.                                              *)
ServedBridgeHandlerRegistered ==
    Quiescent =>
        \A m \in AllMethods, p \in ReqPaths :
            /\ MatchingPositions(router, m, p) # {}
            /\ ServingRoute(router, m, p).handler.ch # NoChannel
            => LET r == ServingRoute(router, m, p)
               IN  r.name \in DOMAIN endpointHandlerMap
                   /\ endpointHandlerMap[r.name] = r.handler

(* P4, second half: when no caller is between a clear and its load, every *)
(* endpoint in endpointHandlerMap is reachable: some request is served by *)
(* its handler.                                                            *)
RegisteredEndpointServed ==
    Quiescent =>
        \A k \in DOMAIN endpointHandlerMap :
            \E m \in AllMethods, p \in ReqPaths :
                /\ MatchingPositions(router, m, p) # {}
                /\ ServingRoute(router, m, p).handler = endpointHandlerMap[k]

RouteNamesUnique ==
    \A i, j \in DOMAIN router : router[i].name = router[j].name => i = j

(* P3 / RouteConflict: no step replaces the handler a bridge registered   *)
(* under its endpoint key by another one; a bridge key is only ever added *)
(* or removed.                                                             *)
NoBridgeHandlerOverwrite ==
    [][\A k \in DOMAIN endpointHandlerMap :
          endpointHandlerMap[k].ch # NoChannel /\ k \in DOMAIN endpointHandlerMap' =>
              endpointHandlerMap'[k] = endpointHandlerMap[k]]_vars

=============================================================================
