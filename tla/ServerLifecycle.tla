--------------------------- MODULE ServerLifecycle ---------------------------
(***************************************************************************)
(* Start and stop of the platform server (StartServer, StopServer and      *)
(* CustomizeTLSConfig of src/unnamed/part_000).                            *)
(*                                                                         *)
(* StartServer's goroutine ("main") launches up to three goroutines: the   *)
(* fabric broker, the HTTP listener and the signal watcher.  It then dials *)
(* the port until it answers, publishes online=true, and blocks on         *)
(* connClosed.  StopServer may run in the signal watcher and in a          *)
(* goroutine of the embedder; each call clears the Http flag, starts one   *)
(* goroutine per service shutdown hook counted by its own WaitGroup, shuts *)
(* the HTTP server down, stops the broker, and waits for the WaitGroup.    *)
(***************************************************************************)
EXTENDS Naturals, Sequences, FiniteSets

CONSTANTS
    Services,      \* service channels that have an OnServerShutdown hook
    HungServices,  \* those whose hook never returns
    HasFabric,     \* serverConfig.FabricConfig != nil (with a fabricConn)
    PortTaken      \* another process already listens on serverConfig.Port

ASSUME LifecycleAssumptions ==
    /\ IsFiniteSet(Services)
    /\ HungServices \subseteq Services
    /\ HasFabric \in BOOLEAN
    /\ PortTaken \in BOOLEAN

\* The goroutines that can call StopServer.
Callers == {"signal", "embedder"}

VARIABLES
    mainPc,        \* StartServer: "start", "dial", "wait", "returned"
    httpPc,        \* HTTP goroutine: "none", "spawned", "listen", "serving", "done"
    fabricPc,      \* fabric goroutine: "none", "spawned", "done"
    sigPc,         \* signal goroutine: "none", "wait", "stopping", "done"
    signalled,     \* SIGINT/SIGTERM has been delivered to SyscallChan
    connClosed,    \* close(connClosed) has happened
    Http,          \* ServerAvailability.Http
    Fabric,        \* ServerAvailability.Fabric
    listening,     \* the server's own listener is bound to the port
    httpClosed,    \* HttpServer.Shutdown has been called
    onlineEvents,  \* payloads sent on RANCH_SERVER_ONLINE_CHANNEL, in order
    stopPc,        \* per caller: "idle", "flag", "hooks", "shutdown", "fabric", "wait", "done"
    wg,            \* per caller: the counter of that call's WaitGroup
    hookPc,        \* per caller and service: "none", "running", "done"
    tlsCustom      \* CustomizeTLSConfig has stored a TLS config

vars == <<mainPc, httpPc, fabricPc, sigPc, signalled, connClosed, Http, Fabric,
          listening, httpClosed, onlineEvents, stopPc, wg, hookPc, tlsCustom>>

StopPcs == {"idle", "flag", "hooks", "shutdown", "fabric", "wait", "done"}

TypeOK ==
    /\ mainPc \in {"start", "dial", "wait", "returned"}
    /\ httpPc \in {"none", "spawned", "listen", "serving", "done"}
    /\ fabricPc \in {"none", "spawned", "done"}
    /\ sigPc \in {"none", "wait", "stopping", "done"}
    /\ signalled \in BOOLEAN /\ connClosed \in BOOLEAN
    /\ Http \in BOOLEAN /\ Fabric \in BOOLEAN
    /\ listening \in BOOLEAN /\ httpClosed \in BOOLEAN /\ tlsCustom \in BOOLEAN
    /\ onlineEvents \in Seq(BOOLEAN)
    /\ stopPc \in [Callers -> StopPcs]
    /\ wg \in [Callers -> Nat]
    /\ hookPc \in [Callers -> [Services -> {"none", "running", "done"}]]

Init ==
    /\ mainPc = "start"
    /\ httpPc = "none"
    /\ fabricPc = "none"
    /\ sigPc = "none"
    /\ signalled = FALSE
    /\ connClosed = FALSE
    /\ Http = FALSE
    /\ Fabric = FALSE
    /\ listening = FALSE
    /\ httpClosed = FALSE
    /\ onlineEvents = <<>>
    /\ stopPc = [c \in Callers |-> "idle"]
    /\ wg = [c \in Callers |-> 0]
    /\ hookPc = [c \in Callers |-> [s \in Services |-> "none"]]
    /\ tlsCustom = FALSE

\* The port accepts a TCP dial: our listener or another process holds it.
PortAccepts == listening \/ PortTaken

---------------------------------------------------------------------------
(* StartServer                                                             *)

\* signal.Notify, checkPortAvailability (which only logs), loading the
\* router and the SPA route, then go-statements for the fabric broker (when
\* configured), the HTTP listener and the signal watcher.
Launch ==
    /\ mainPc = "start"
    /\ mainPc' = "dial"
    /\ fabricPc' = IF HasFabric THEN "spawned" ELSE "none"
    /\ httpPc' = "spawned"
    /\ sigPc' = "wait"
    /\ UNCHANGED <<signalled, connClosed, Http, Fabric, listening, httpClosed,
                   onlineEvents, stopPc, wg, hookPc, tlsCustom>>

\* The readiness loop: a successful dial publishes online=true and leaves
\* the loop; a failed one sleeps and dials again (no change of state).
DialReady ==
    /\ mainPc = "dial"
    /\ PortAccepts
    /\ onlineEvents' = Append(onlineEvents, TRUE)
    /\ mainPc' = "wait"
    /\ UNCHANGED <<httpPc, fabricPc, sigPc, signalled, connClosed, Http, Fabric,
                   listening, httpClosed, stopPc, wg, hookPc, tlsCustom>>

\* <-connClosed, and StartServer returns.
MainReturn ==
    /\ mainPc = "wait"
    /\ connClosed
    /\ mainPc' = "returned"
    /\ UNCHANGED <<httpPc, fabricPc, sigPc, signalled, connClosed, Http, Fabric,
                   listening, httpClosed, onlineEvents, stopPc, wg, hookPc, tlsCustom>>

\* The fabric goroutine sets Fabric = true, then StartFabricEndpoint, whose
\* outcome is only logged.
FabricStart ==
    /\ fabricPc = "spawned"
    /\ Fabric' = TRUE
    /\ fabricPc' = "done"
    /\ UNCHANGED <<mainPc, httpPc, sigPc, signalled, connClosed, Http, listening,
                   httpClosed, onlineEvents, stopPc, wg, hookPc, tlsCustom>>

\* The HTTP goroutine sets Http = true before it calls ListenAndServe(TLS).
HttpSetFlag ==
    /\ httpPc = "spawned"
    /\ Http' = TRUE
    /\ httpPc' = "listen"
    /\ UNCHANGED <<mainPc, fabricPc, sigPc, signalled, connClosed, Fabric,
                   listening, httpClosed, onlineEvents, stopPc, wg, hookPc, tlsCustom>>

\* ListenAndServe binds the port and serves until Shutdown.
HttpListen ==
    /\ httpPc = "listen"
    /\ ~httpClosed
    /\ ~PortTaken
    /\ listening' = TRUE
    /\ httpPc' = "serving"
    /\ UNCHANGED <<mainPc, fabricPc, sigPc, signalled, connClosed, Http, Fabric,
                   httpClosed, onlineEvents, stopPc, wg, hookPc, tlsCustom>>

\* ListenAndServe returns at once: ErrServerClosed after a Shutdown, or a
\* bind or certificate error that is logged.  Http stays as it is.
HttpListenFails ==
    /\ httpPc = "listen"
    /\ httpPc' = "done"
    /\ UNCHANGED <<mainPc, fabricPc, sigPc, signalled, connClosed, Http, Fabric,
                   listening, httpClosed, onlineEvents, stopPc, wg, hookPc, tlsCustom>>

\* The operating system delivers SIGINT or SIGTERM after signal.Notify.
Signal ==
    /\ ~signalled
    /\ mainPc # "start"
    /\ signalled' = TRUE
    /\ UNCHANGED <<mainPc, httpPc, fabricPc, sigPc, connClosed, Http, Fabric,
                   listening, httpClosed, onlineEvents, stopPc, wg, hookPc, tlsCustom>>

\* The signal watcher: <-SyscallChan, online=false, then StopServer.
SignalReceived ==
    /\ sigPc = "wait"
    /\ signalled
    /\ onlineEvents' = Append(onlineEvents, FALSE)
    /\ sigPc' = "stopping"
    /\ stopPc' = [stopPc EXCEPT !["signal"] = "flag"]
    /\ UNCHANGED <<mainPc, httpPc, fabricPc, signalled, connClosed, Http, Fabric,
                   listening, httpClosed, wg, hookPc, tlsCustom>>

\* After its StopServer returns, the watcher closes connClosed.
SignalClose ==
    /\ sigPc = "stopping"
    /\ stopPc["signal"] = "done"
    /\ connClosed' = TRUE
    /\ sigPc' = "done"
    /\ UNCHANGED <<mainPc, httpPc, fabricPc, signalled, Http, Fabric, listening,
                   httpClosed, onlineEvents, stopPc, wg, hookPc, tlsCustom>>

\* The embedder calls StopServer from a goroutine of its own while
\* StartServer runs.
EmbedderStop ==
    /\ mainPc # "start"
    /\ stopPc["embedder"] = "idle"
    /\ stopPc' = [stopPc EXCEPT !["embedder"] = "flag"]
    /\ UNCHANGED <<mainPc, httpPc, fabricPc, sigPc, signalled, connClosed, Http,
                   Fabric, listening, httpClosed, onlineEvents, wg, hookPc, tlsCustom>>

---------------------------------------------------------------------------
(* StopServer, one call per caller c                                       *)

\* ServerAvailability.Http = false; the shutdown context is created (its
\* deadline goroutine only logs).
StopFlag(c) ==
    /\ stopPc[c] = "flag"
    /\ Http' = FALSE
    /\ stopPc' = [stopPc EXCEPT ![c] = "hooks"]
    /\ UNCHANGED <<mainPc, httpPc, fabricPc, sigPc, signalled, connClosed, Fabric,
                   listening, httpClosed, onlineEvents, wg, hookPc, tlsCustom>>

\* Mutant: wg.Add(1) left out of the loop.
StopSpawnHooksNoAdd(c) ==
    /\ stopPc[c] = "hooks"
    /\ hookPc' = [hookPc EXCEPT ![c] = [s \in Services |-> "running"]]
    /\ stopPc' = [stopPc EXCEPT ![c] = "shutdown"]
    /\ UNCHANGED <<mainPc, httpPc, fabricPc, sigPc, signalled, connClosed, Http,
                   Fabric, listening, httpClosed, onlineEvents, wg, tlsCustom>>

\* Mutant: one wg.Add(1) too many.
StopSpawnHooksExtraAdd(c) ==
    /\ stopPc[c] = "hooks"
    /\ wg' = [wg EXCEPT ![c] = @ + Cardinality(Services) + 1]
    /\ hookPc' = [hookPc EXCEPT ![c] = [s \in Services |-> "running"]]
    /\ stopPc' = [stopPc EXCEPT ![c] = "shutdown"]
    /\ UNCHANGED <<mainPc, httpPc, fabricPc, sigPc, signalled, connClosed, Http,
                   Fabric, listening, httpClosed, onlineEvents, tlsCustom>>

\* For every service channel with a hook: wg.Add(1) and a goroutine that
\* runs OnServerShutdown and then wg.Done().
StopSpawnHooks(c) ==
    /\ stopPc[c] = "hooks"
    /\ wg' = [wg EXCEPT ![c] = @ + Cardinality(Services)]
    /\ hookPc' = [hookPc EXCEPT ![c] = [s \in Services |-> "running"]]
    /\ stopPc' = [stopPc EXCEPT ![c] = "shutdown"]
    /\ UNCHANGED <<mainPc, httpPc, fabricPc, sigPc, signalled, connClosed, Http,
                   Fabric, listening, httpClosed, onlineEvents, tlsCustom>>

\* HttpServer.Shutdown(shutdownCtx): the listener is closed and any later
\* ListenAndServe returns ErrServerClosed.
StopShutdown(c) ==
    /\ stopPc[c] = "shutdown"
    /\ httpClosed' = TRUE
    /\ listening' = FALSE
    /\ stopPc' = [stopPc EXCEPT ![c] = "fabric"]
    /\ UNCHANGED <<mainPc, httpPc, fabricPc, sigPc, signalled, connClosed, Http,
                   Fabric, onlineEvents, wg, hookPc, tlsCustom>>

\* if ps.fabricConn != nil: StopFabricEndpoint and Fabric = false.
StopFabric(c) ==
    /\ stopPc[c] = "fabric"
    /\ Fabric' = IF HasFabric THEN FALSE ELSE Fabric
    /\ stopPc' = [stopPc EXCEPT ![c] = "wait"]
    /\ UNCHANGED <<mainPc, httpPc, fabricPc, sigPc, signalled, connClosed, Http,
                   listening, httpClosed, onlineEvents, wg, hookPc, tlsCustom>>

\* Mutant: wg.Wait() left out.
StopWaitNoWait(c) ==
    /\ stopPc[c] = "wait"
    /\ stopPc' = [stopPc EXCEPT ![c] = "done"]
    /\ UNCHANGED <<mainPc, httpPc, fabricPc, sigPc, signalled, connClosed, Http,
                   Fabric, listening, httpClosed, onlineEvents, wg, hookPc, tlsCustom>>

\* wg.Wait(), with no deadline, and StopServer returns.
StopWait(c) ==
    /\ stopPc[c] = "wait"
    /\ wg[c] = 0
    /\ stopPc' = [stopPc EXCEPT ![c] = "done"]
    /\ UNCHANGED <<mainPc, httpPc, fabricPc, sigPc, signalled, connClosed, Http,
                   Fabric, listening, httpClosed, onlineEvents, wg, hookPc, tlsCustom>>

\* A hook goroutine: OnServerShutdown returns (unless it hangs), wg.Done().
HookDone(c, s) ==
    /\ hookPc[c][s] = "running"
    /\ s \notin HungServices
    /\ hookPc' = [hookPc EXCEPT ![c][s] = "done"]
    /\ wg' = [wg EXCEPT ![c] = @ - 1]
    /\ UNCHANGED <<mainPc, httpPc, fabricPc, sigPc, signalled, connClosed, Http,
                   Fabric, listening, httpClosed, onlineEvents, stopPc, tlsCustom>>

\* CustomizeTLSConfig: refused while either flag is set, else stored.
CustomizeTLSConfig ==
    /\ ~Http
    /\ ~Fabric
    /\ tlsCustom' = TRUE
    /\ UNCHANGED <<mainPc, httpPc, fabricPc, sigPc, signalled, connClosed, Http,
                   Fabric, listening, httpClosed, onlineEvents, stopPc, wg, hookPc>>

---------------------------------------------------------------------------

StopStep(c) ==
    \/ StopFlag(c) \/ StopSpawnHooks(c) \/ StopShutdown(c)
    \/ StopFabric(c) \/ StopWait(c)

Next ==
    \/ Launch \/ DialReady \/ MainReturn
    \/ FabricStart \/ HttpSetFlag \/ HttpListen \/ HttpListenFails
    \/ Signal \/ SignalReceived \/ SignalClose \/ EmbedderStop
    \/ \E c \in Callers : StopStep(c)
    \/ \E c \in Callers, s \in Services : HookDone(c, s)
    \/ CustomizeTLSConfig

\* The Go scheduler runs every runnable goroutine: main once StartServer is
\* called, the goroutines it starts, the StopServer calls and the hooks.
\* The signal, the embedder's StopServer and CustomizeTLSConfig are choices
\* of the environment and get no fairness.
Fairness ==
    /\ WF_vars(Launch) /\ WF_vars(DialReady) /\ WF_vars(MainReturn)
    /\ WF_vars(FabricStart) /\ WF_vars(HttpSetFlag)
    /\ WF_vars(HttpListen \/ HttpListenFails)
    /\ WF_vars(SignalReceived) /\ WF_vars(SignalClose)
    /\ \A c \in Callers : WF_vars(StopStep(c))
    /\ \A c \in Callers, s \in Services : WF_vars(HookDone(c, s))

Spec == Init /\ [][Next]_vars /\ Fairness

---------------------------------------------------------------------------
(* Properties                                                              *)

\* A StopServer call returns only after every shutdown hook it started has
\* completed: the WaitGroup counts exactly its running hook goroutines.
StopWaitsForHooks ==
    \A c \in Callers : stopPc[c] = "done" =>
        \A s \in Services : hookPc[c][s] = "done"

\* Every StopServer call that has begun returns (spec 4.5 stop(): wait for
\* the hooks OR the deadline, then return).
StopServerReturns ==
    \A c \in Callers : (stopPc[c] # "idle") ~> (stopPc[c] = "done")

\* The readiness channel never announces online=true after it announced
\* online=false (spec 6: true on readiness, false on shutdown initiation).
OnlineEventsOrdered ==
    \A i, j \in 1..Len(onlineEvents) :
        (i < j /\ ~onlineEvents[i]) => ~onlineEvents[j]

\* online=true is published only while the server's own listener is bound
\* (spec 4.5 start step 7: readiness of this server's HTTP listener).
OnlineOnlyWhenListening ==
    [][ (Len(onlineEvents') > Len(onlineEvents)
         /\ onlineEvents'[Len(onlineEvents')]) => listening ]_vars

\* Once a StopServer call has returned, neither availability flag says the
\* server runs (spec 4.5 stop() steps 2 and 6, 4.6 customizeTLSConfig).
StoppedNotAvailable ==
    (\E c \in Callers : stopPc[c] = "done") => (~Http /\ ~Fabric)

\* After SIGINT or SIGTERM, StartServer returns (spec 4.5 start step 8).
SignalledStartReturns ==
    signalled ~> (mainPc = "returned")

=============================================================================
