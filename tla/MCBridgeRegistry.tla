-------------------------- MODULE MCBridgeRegistry --------------------------
(* Small instances of BridgeRegistry for TLC.                              *)
EXTENDS BridgeRegistry

CONSTANTS A, B, a1, a2, NoCh, D1, D2, NoD

MCChannels == {A, B}
MCExactUris == {"/v1"}
MCPrefixUris == {"/files"}
MCStaticPrefixes == {"/static"}
(* Two directories (with their middlewares) a static prefix may serve.    *)
MCStaticDirs == {D1, D2}
MCMethods == {"GET", "POST"}
MCReqPaths == {"/v1", "/files", "/files/a", "/static/x"}
MCOneActor == {a1}
MCTwoActors == {a1, a2}

(* Variants for the runs that isolate one behaviour.                       *)
MCNoUris == {}
(* A static prefix whose key "/files-*" is also the key of the prefix     *)
(* bridge at "/files".                                                     *)
MCCollidingStaticPrefixes == {"/files-"}
=============================================================================
