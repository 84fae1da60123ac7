------------------------ MODULE ServerLifecycleProofs ------------------------
(***************************************************************************)
(* Proofs about StopServer's WaitGroup in ServerLifecycle: for every set   *)
(* of services, a StopServer call returns only after all the shutdown      *)
(* hooks it started have completed.                                        *)
(***************************************************************************)
EXTENDS ServerLifecycle, FiniteSetTheorems, SequenceTheorems, TLAPS

\* The hook goroutines of call c that have not yet called wg.Done().
Running(c) == {s \in Services : hookPc[c][s] = "running"}

\* Call c has passed the loop that starts the hook goroutines.
Spawned(c) == stopPc[c] \in {"shutdown", "fabric", "wait", "done"}

\* The WaitGroup invariant: the counter of each call is the number of its
\* running hooks; no hook runs before the loop, every hook has started
\* after it, and none runs once the call has returned.
WaitGroupInv ==
    \A c \in Callers :
        /\ wg[c] = Cardinality(Running(c))
        /\ ~Spawned(c) => \A s \in Services : hookPc[c][s] = "none"
        /\ Spawned(c) => \A s \in Services : hookPc[c][s] # "none"
        /\ stopPc[c] = "done" => Running(c) = {}

\* The signal watcher exists only once StartServer has launched it, and it
\* starts its StopServer call only on the signal.
SignalInv ==
    /\ mainPc = "start" => sigPc = "none"
    /\ sigPc \in {"none", "wait"} => stopPc["signal"] = "idle"

IInv == TypeOK /\ WaitGroupInv /\ SignalInv

\* The running hooks of a call form a finite set.
LEMMA RunningFinite ==
    ASSUME NEW c \in Callers
    PROVE  /\ IsFiniteSet(Running(c))
           /\ Cardinality(Running(c)) \in Nat
<1>1. IsFiniteSet(Running(c))
    BY LifecycleAssumptions, FS_Subset DEF Running
<1>2. QED
    BY <1>1, FS_CardinalityType

\* Steps that leave the StopServer state alone keep the invariant.
LEMMA StopStateUnchanged ==
    ASSUME IInv, TypeOK', UNCHANGED <<stopPc, wg, hookPc>>
    PROVE  WaitGroupInv'
BY DEF IInv, WaitGroupInv, Running, Spawned

\* A call whose StopServer state a step leaves alone keeps its part.
LEMMA OtherCallUnchanged ==
    ASSUME IInv, TypeOK', NEW c \in Callers,
           stopPc'[c] = stopPc[c], wg'[c] = wg[c], hookPc'[c] = hookPc[c]
    PROVE  WaitGroupInv!(c)'
<1>1. Running(c)' = Running(c)
    BY DEF Running
<1>2. Spawned(c)' <=> Spawned(c)
    BY DEF Spawned
<1>3. QED
    BY <1>1, <1>2 DEF IInv, WaitGroupInv

\* A step that moves one call c0 to another state of StopServer, on the
\* same side of the hook loop and not to "done", keeps the invariant.
LEMMA StopPcStep ==
    ASSUME IInv, TypeOK', UNCHANGED <<wg, hookPc>>,
           NEW c0 \in Callers,
           stopPc' = [stopPc EXCEPT ![c0] = stopPc'[c0]],
           Spawned(c0)' <=> Spawned(c0),
           stopPc'[c0] # "done"
    PROVE  WaitGroupInv'
<1> SUFFICES ASSUME NEW c \in Callers PROVE WaitGroupInv!(c)'
    BY DEF WaitGroupInv
<1>1. Running(c)' = Running(c)
    BY DEF Running
<1>2. wg'[c] = Cardinality(Running(c))'
    BY <1>1 DEF IInv, WaitGroupInv
<1>3. Spawned(c)' <=> Spawned(c)
    BY DEF Spawned, TypeOK
<1>4. ~Spawned(c)' => \A s \in Services : hookPc'[c][s] = "none"
    BY <1>3 DEF IInv, WaitGroupInv
<1>5. Spawned(c)' => \A s \in Services : hookPc'[c][s] # "none"
    BY <1>3 DEF IInv, WaitGroupInv
<1>6. stopPc'[c] = "done" => Running(c)' = {}
    BY <1>1 DEF IInv, WaitGroupInv, TypeOK
<1>7. QED
    BY <1>2, <1>4, <1>5, <1>6

\* The steps of the hook loop and of the hooks, one lemma each.
LEMMA SpawnHooksStep ==
    ASSUME IInv, TypeOK', NEW c0 \in Callers, StopSpawnHooks(c0)
    PROVE  WaitGroupInv'
<1> SUFFICES ASSUME NEW c \in Callers PROVE WaitGroupInv!(c)'
    BY DEF WaitGroupInv
<1>1. CASE c = c0
    <2>1. Running(c0) = {}
        BY DEF IInv, WaitGroupInv, Running, Spawned, StopSpawnHooks
    <2>2. wg[c0] = 0
        BY <2>1, FS_EmptySet DEF IInv, WaitGroupInv
    <2>3. Running(c0)' = Services
        BY DEF Running, StopSpawnHooks, TypeOK
    <2>4. wg'[c0] = Cardinality(Services)
        BY <2>2, LifecycleAssumptions, FS_CardinalityType DEF StopSpawnHooks, TypeOK
    <2>5. Spawned(c0)' /\ stopPc'[c0] # "done"
        BY DEF Spawned, StopSpawnHooks, TypeOK
    <2>6. \A s \in Services : hookPc'[c0][s] # "none"
        BY DEF StopSpawnHooks, TypeOK
    <2>7. QED
        BY <1>1, <2>3, <2>4, <2>5, <2>6
<1>2. CASE c # c0
    BY <1>2, OtherCallUnchanged DEF StopSpawnHooks, TypeOK
<1>3. QED
    BY <1>1, <1>2

LEMMA HookDoneStep ==
    ASSUME IInv, TypeOK', NEW c0 \in Callers, NEW s0 \in Services,
           HookDone(c0, s0)
    PROVE  WaitGroupInv'
<1> SUFFICES ASSUME NEW c \in Callers PROVE WaitGroupInv!(c)'
    BY DEF WaitGroupInv
<1>1. CASE c = c0
    <2>1. s0 \in Running(c0)
        BY DEF Running, HookDone
    <2>2. Running(c0)' = Running(c0) \ {s0}
        BY DEF Running, HookDone, TypeOK
    <2>3. Cardinality(Running(c0) \ {s0}) = Cardinality(Running(c0)) - 1
        BY <2>1, RunningFinite, FS_RemoveElement
    <2>4. wg'[c0] = Cardinality(Running(c0))'
        BY <2>2, <2>3 DEF IInv, WaitGroupInv, HookDone, TypeOK
    <2>5. Spawned(c0) /\ stopPc[c0] # "done"
        BY <2>1 DEF IInv, WaitGroupInv, Running, HookDone
    <2>6. Spawned(c0)' /\ stopPc'[c0] # "done"
        BY <2>5 DEF Spawned, HookDone
    <2>7. \A s \in Services : hookPc'[c0][s] # "none"
        BY <2>5 DEF IInv, WaitGroupInv, HookDone, TypeOK
    <2>8. QED
        BY <1>1, <2>4, <2>6, <2>7
<1>2. CASE c # c0
    BY <1>2, OtherCallUnchanged DEF HookDone, TypeOK
<1>3. QED
    BY <1>1, <1>2

LEMMA StopWaitStep ==
    ASSUME IInv, TypeOK', NEW c0 \in Callers, StopWait(c0)
    PROVE  WaitGroupInv'
<1> SUFFICES ASSUME NEW c \in Callers PROVE WaitGroupInv!(c)'
    BY DEF WaitGroupInv
<1>1. CASE c = c0
    <2>1. Running(c0) = {}
        BY RunningFinite, FS_EmptySet DEF IInv, WaitGroupInv, StopWait
    <2>2. Running(c0)' = Running(c0)
        BY DEF Running, StopWait
    <2>3. QED
        BY <1>1, <2>1, <2>2 DEF IInv, WaitGroupInv, Spawned, StopWait, TypeOK
<1>2. CASE c # c0
    BY <1>2, OtherCallUnchanged DEF StopWait, TypeOK
<1>3. QED
    BY <1>1, <1>2

\* The steps that leave StopServer's state alone.
OtherStep ==
    \/ Launch \/ DialReady \/ MainReturn \/ FabricStart \/ HttpSetFlag
    \/ HttpListen \/ HttpListenFails \/ Signal \/ SignalClose
    \/ CustomizeTLSConfig

LEMMA OtherStepFrame ==
    ASSUME OtherStep PROVE UNCHANGED <<stopPc, wg, hookPc>>
BY DEF OtherStep, Launch, DialReady, MainReturn, FabricStart, HttpSetFlag,
       HttpListen, HttpListenFails, Signal, SignalClose, CustomizeTLSConfig

\* Every step keeps the variables in their types; a hook's wg.Done() does
\* not take the counter below zero because the hook is counted.
LEMMA NextTypeOK ==
    ASSUME IInv, [Next]_vars PROVE TypeOK'
<1> USE DEF IInv
<1>1. CASE Launch
    BY <1>1 DEF TypeOK, Launch
<1>2. CASE MainReturn
    BY <1>2 DEF TypeOK, MainReturn
<1>3. CASE FabricStart
    BY <1>3 DEF TypeOK, FabricStart
<1>4. CASE HttpSetFlag
    BY <1>4 DEF TypeOK, HttpSetFlag
<1>5. CASE HttpListen
    BY <1>5 DEF TypeOK, HttpListen
<1>6. CASE HttpListenFails
    BY <1>6 DEF TypeOK, HttpListenFails
<1>7. CASE Signal
    BY <1>7 DEF TypeOK, Signal
<1>8. CASE SignalClose
    BY <1>8 DEF TypeOK, SignalClose
<1>9. CASE CustomizeTLSConfig
    BY <1>9 DEF TypeOK, CustomizeTLSConfig
<1>10. CASE DialReady
    BY <1>10, AppendProperties DEF TypeOK, DialReady
<1>11. CASE SignalReceived
    BY <1>11, AppendProperties DEF Callers, TypeOK, SignalReceived, StopPcs
<1>12. CASE EmbedderStop
    BY <1>12 DEF Callers, TypeOK, EmbedderStop, StopPcs
<1>13. ASSUME NEW c \in Callers, StopStep(c) PROVE TypeOK'
    <2>1. Cardinality(Services) \in Nat
        BY LifecycleAssumptions, FS_CardinalityType
    <2>2. CASE StopFlag(c)
        <3>1. Http' \in BOOLEAN
            BY <2>2, Zenon DEF StopFlag
        <3>2. QED
            BY <2>2, <3>1 DEF TypeOK, StopPcs, StopFlag
    <2>3. CASE StopSpawnHooks(c)
        BY <2>1, <2>3 DEF TypeOK, StopPcs, StopSpawnHooks
    <2>4. CASE StopShutdown(c)
        <3>1. httpClosed' \in BOOLEAN /\ listening' \in BOOLEAN
            BY <2>4, Zenon DEF StopShutdown
        <3>2. QED
            BY <2>4, <3>1 DEF TypeOK, StopPcs, StopShutdown
    <2>5. CASE StopFabric(c)
        <3>1. Fabric' \in BOOLEAN
            BY <2>5, Zenon DEF StopFabric, TypeOK
        <3>2. stopPc' \in [Callers -> StopPcs]
            BY <2>5 DEF TypeOK, StopPcs, StopFabric
        <3>3. UNCHANGED <<mainPc, httpPc, fabricPc, sigPc, signalled, connClosed,
                           Http, listening, httpClosed, onlineEvents, wg, hookPc,
                           tlsCustom>>
            BY <2>5 DEF StopFabric
        <3>4. QED
            BY <3>1, <3>2, <3>3 DEF TypeOK
    <2>6. CASE StopWait(c)
        BY <2>6 DEF TypeOK, StopPcs, StopWait
    <2>7. QED
        BY <1>13, <2>2, <2>3, <2>4, <2>5, <2>6 DEF StopStep
<1>14. ASSUME NEW c \in Callers, NEW s0 \in Services, HookDone(c, s0)
      PROVE TypeOK'
    <2>1. s0 \in Running(c)
        BY <1>14 DEF HookDone, Running
    <2>2. Cardinality(Running(c)) # 0
        BY <2>1, RunningFinite, FS_EmptySet
    <2>3. wg[c] \in Nat \ {0}
        BY <2>2, RunningFinite DEF WaitGroupInv
    <2>4. QED
        BY <1>14, <2>3 DEF TypeOK, HookDone
<1>15. CASE UNCHANGED vars
    BY <1>15 DEF vars, TypeOK
<1>16. QED
    BY <1>1, <1>2, <1>3, <1>4, <1>5, <1>6, <1>7, <1>8, <1>9, <1>10, <1>11, <1>12, <1>13, <1>14, <1>15 DEF Next

\* Every step keeps SignalInv.
LEMMA SignalInvStep ==
    ASSUME IInv, [Next]_vars PROVE SignalInv'
<1>1. CASE Launch
    BY <1>1 DEF IInv, TypeOK, Callers, SignalInv, Launch
<1>2. CASE DialReady
    BY <1>2 DEF IInv, TypeOK, Callers, SignalInv, DialReady
<1>3. CASE MainReturn
    BY <1>3 DEF IInv, TypeOK, Callers, SignalInv, MainReturn
<1>4. CASE FabricStart
    BY <1>4 DEF IInv, TypeOK, Callers, SignalInv, FabricStart
<1>5. CASE HttpSetFlag
    BY <1>5 DEF IInv, TypeOK, Callers, SignalInv, HttpSetFlag
<1>6. CASE HttpListen
    BY <1>6 DEF IInv, TypeOK, Callers, SignalInv, HttpListen
<1>7. CASE HttpListenFails
    BY <1>7 DEF IInv, TypeOK, Callers, SignalInv, HttpListenFails
<1>8. CASE Signal
    BY <1>8 DEF IInv, TypeOK, Callers, SignalInv, Signal
<1>9. CASE SignalReceived
    BY <1>9 DEF IInv, TypeOK, Callers, SignalInv, SignalReceived
<1>10. CASE SignalClose
    BY <1>10 DEF IInv, TypeOK, Callers, SignalInv, SignalClose
<1>11. CASE EmbedderStop
    BY <1>11 DEF IInv, TypeOK, Callers, SignalInv, EmbedderStop
<1>12. CASE CustomizeTLSConfig
    BY <1>12 DEF IInv, TypeOK, Callers, SignalInv, CustomizeTLSConfig
<1>13. ASSUME NEW c \in Callers, StopStep(c) PROVE SignalInv'
    <2>1. stopPc[c] # "idle" /\ UNCHANGED <<mainPc, sigPc>>
        BY <1>13 DEF StopStep, StopFlag, StopSpawnHooks, StopShutdown,
           StopFabric, StopWait
    <2>2. \A x \in Callers \ {c} : stopPc'[x] = stopPc[x]
        BY <1>13 DEF IInv, TypeOK, StopStep, StopFlag, StopSpawnHooks,
           StopShutdown, StopFabric, StopWait
    <2>3. QED
        BY <2>1, <2>2 DEF IInv, SignalInv, Callers
<1>14. ASSUME NEW c \in Callers, NEW s0 \in Services, HookDone(c, s0)
      PROVE SignalInv'
    BY <1>14 DEF IInv, SignalInv, HookDone
<1>15. CASE UNCHANGED vars
    BY <1>15 DEF IInv, SignalInv, vars
<1>16. QED
    BY <1>1, <1>2, <1>3, <1>4, <1>5, <1>6, <1>7, <1>8, <1>9, <1>10, <1>11, <1>12, <1>13, <1>14, <1>15 DEF Next

\* Each call's WaitGroup counts its running hook goroutines, in every
\* reachable state and for every set of services.
THEOREM WaitGroupInvariant == Spec => []IInv
<1>1. Init => IInv
    <2> SUFFICES ASSUME Init PROVE IInv
        OBVIOUS
    <2>1. TypeOK
        <3>1. /\ signalled \in BOOLEAN /\ connClosed \in BOOLEAN
              /\ Http \in BOOLEAN /\ Fabric \in BOOLEAN
              /\ listening \in BOOLEAN /\ httpClosed \in BOOLEAN
              /\ tlsCustom \in BOOLEAN
            BY Zenon DEF Init
        <3>2. /\ onlineEvents \in Seq(BOOLEAN)
              /\ stopPc \in [Callers -> StopPcs]
              /\ wg \in [Callers -> Nat]
              /\ hookPc \in [Callers -> [Services -> {"none", "running", "done"}]]
              /\ mainPc \in {"start", "dial", "wait", "returned"}
              /\ httpPc \in {"none", "spawned", "listen", "serving", "done"}
              /\ fabricPc \in {"none", "spawned", "done"}
              /\ sigPc \in {"none", "wait", "stopping", "done"}
            BY DEF Init, StopPcs
        <3>3. QED
            BY <3>1, <3>2 DEF TypeOK
    <2>2. \A c \in Callers : Running(c) = {}
        BY DEF Init, Running
    <2>3. WaitGroupInv
        BY <2>2, FS_EmptySet DEF Init, WaitGroupInv, Spawned
    <2>4. SignalInv
        BY DEF Init, SignalInv, Callers
    <2>5. QED
        BY <2>1, <2>3, <2>4 DEF IInv
<1>2. IInv /\ [Next]_vars => IInv'
    <2> SUFFICES ASSUME IInv, [Next]_vars PROVE IInv'
        OBVIOUS
    <2>1. TypeOK'
        BY NextTypeOK
    <2>2. SignalInv'
        BY SignalInvStep
    <2>3. WaitGroupInv'
        <3>1. CASE OtherStep \/ UNCHANGED vars
            BY <2>1, <3>1, OtherStepFrame, StopStateUnchanged DEF vars
        <3>2. CASE SignalReceived
            <4>1. stopPc["signal"] = "idle" /\ stopPc'["signal"] = "flag"
                BY <3>2 DEF IInv, TypeOK, Callers, SignalInv, SignalReceived
            <4>2. stopPc' = [stopPc EXCEPT !["signal"] = stopPc'["signal"]]
                BY <3>2, <4>1 DEF SignalReceived
            <4>3. UNCHANGED <<wg, hookPc>>
                BY <3>2 DEF SignalReceived
            <4>4. QED
                BY <2>1, <4>1, <4>2, <4>3, StopPcStep DEF Callers, Spawned
        <3>3. CASE EmbedderStop
            <4>1. stopPc["embedder"] = "idle" /\ stopPc'["embedder"] = "flag"
                BY <3>3 DEF IInv, TypeOK, Callers, EmbedderStop
            <4>2. stopPc' = [stopPc EXCEPT !["embedder"] = stopPc'["embedder"]]
                BY <3>3, <4>1 DEF EmbedderStop
            <4>3. UNCHANGED <<wg, hookPc>>
                BY <3>3 DEF EmbedderStop
            <4>4. QED
                BY <2>1, <4>1, <4>2, <4>3, StopPcStep DEF Callers, Spawned
        <3>4. ASSUME NEW c \in Callers, StopStep(c) PROVE WaitGroupInv'
            <4>1. CASE StopFlag(c) \/ StopShutdown(c) \/ StopFabric(c)
                <5>1. /\ stopPc' = [stopPc EXCEPT ![c] = stopPc'[c]]
                      /\ (Spawned(c)' <=> Spawned(c))
                      /\ stopPc'[c] # "done"
                      /\ UNCHANGED <<wg, hookPc>>
                    BY <4>1 DEF IInv, TypeOK, Spawned, StopFlag, StopShutdown,
                       StopFabric
                <5>2. QED
                    BY <2>1, <5>1, StopPcStep
            <4>2. CASE StopSpawnHooks(c)
                BY <2>1, <4>2, SpawnHooksStep
            <4>3. CASE StopWait(c)
                BY <2>1, <4>3, StopWaitStep
            <4>4. QED
                BY <3>4, <4>1, <4>2, <4>3 DEF StopStep
        <3>5. ASSUME NEW c \in Callers, NEW s0 \in Services, HookDone(c, s0)
              PROVE WaitGroupInv'
            BY <2>1, <3>5, HookDoneStep
        <3>6. QED
            BY <3>1, <3>2, <3>3, <3>4, <3>5 DEF Next, OtherStep
    <2>4. QED
        BY <2>1, <2>2, <2>3 DEF IInv
<1>3. QED
    BY <1>1, <1>2, PTL DEF Spec

\* StopServer returns only after every shutdown hook it started has run to
\* completion (the property StopWaitsForHooks that the runs check).
THEOREM StopWaitsForHooksInvariant == Spec => []StopWaitsForHooks
<1>1. IInv => StopWaitsForHooks
    <2> SUFFICES ASSUME IInv, NEW c \in Callers, stopPc[c] = "done",
                        NEW s \in Services
                 PROVE  hookPc[c][s] = "done"
        BY DEF StopWaitsForHooks
    <2>1. hookPc[c][s] # "none"
        BY DEF IInv, WaitGroupInv, Spawned
    <2>2. hookPc[c][s] # "running"
        BY DEF IInv, WaitGroupInv, Running
    <2>3. QED
        BY <2>1, <2>2 DEF IInv, TypeOK
<1>2. QED
    BY <1>1, WaitGroupInvariant, PTL

\* Every reachable state of the lifecycle is well typed; in particular no
\* WaitGroup counter goes below zero.
THEOREM TypeCorrect == Spec => []TypeOK
<1>1. IInv => TypeOK
    BY DEF IInv
<1>2. QED
    BY <1>1, WaitGroupInvariant, PTL

=============================================================================
