--------------------------- MODULE ModuleLifecycle ---------------------------
(***************************************************************************)
(* The life of the module: what AMXX calls (src/src/module.cpp through the *)
(* exports of src/src/sdk/amxxmodule.cpp) and the frame hook in the ReHLDS *)
(* engine (src/src/RehldsFrameHook.cpp).                                   *)
(*                                                                         *)
(* OnPluginsUnloading and OnAmxxDetach are sequences of steps, between     *)
(* which Paho's threads go on; the dispatcher, the clients and the options *)
(* appear only as far as these steps touch them.                           *)
(*                                                                         *)
(* AMXX is external: it may attach without having called CheckGame, attach *)
(* again, detach with the plugins loaded, and call natives from the moment *)
(* they are added, before OnPluginsLoaded too.                             *)
(***************************************************************************)
EXTENDS Naturals, Sequences

CONSTANTS Clients,               \* bound: clients that can exist
          MaxCallbacksPerFrame,  \* 256 in the code
          MaxQueue               \* bound: events in the queue

ASSUME LifecycleAssumption ==
    /\ MaxCallbacksPerFrame \in Nat \ {0}
    /\ MaxQueue \in Nat

\* What an engine offers the lookup: the factory, the interface, its version,
\* the table of hook chains and the SV_Frame registry in it.
Engines == [factory : BOOLEAN, api : BOOLEAN, major : 3..4, minor : 6..8,
            hookchains : BOOLEAN, registry : BOOLEAN]

VARIABLES
    engine,         \* the engine the module was loaded into
    amxx,           \* what AMXX knows of the module
    frameRegistry,  \* the pointer is set
    hooks,          \* registrations of OnServerFrame in the engine
    natives,        \* MF_AddNatives was called since the last attach
    todo,           \* steps left of OnPluginsUnloading or OnAmxxDetach
    accepting,      \* acceptingCallbacks
    queue,          \* pendingCallbacks
    clients,        \* g_mqttClientMgr
    options         \* g_connectOptionMgr is not empty

hookVars   == <<frameRegistry, hooks>>
objectVars == <<clients, options>>
queueVars  == <<accepting, queue>>
vars == <<engine, amxx, hookVars, natives, todo, queueVars, objectVars>>

TypeOK ==
    /\ engine \in Engines
    /\ amxx \in {"queried", "checked", "refused", "attached", "running", "detached"}
    /\ frameRegistry \in BOOLEAN
    /\ hooks \in Nat
    /\ natives \in BOOLEAN
    /\ todo \in Seq({"stop", "unhook", "clients", "options"})
    /\ accepting \in BOOLEAN
    /\ queue \in Seq(Clients)
    /\ clients \subseteq Clients
    /\ options \in BOOLEAN

Init ==
    /\ engine \in Engines
    /\ amxx = "queried"
    /\ frameRegistry = FALSE
    /\ hooks = 0
    /\ natives = FALSE
    /\ todo = <<>>
    /\ accepting = FALSE
    /\ queue = <<>>
    /\ clients = {}
    /\ options = FALSE

-----------------------------------------------------------------------------
(* The frame hook.                                                         *)

\* Entries are appended to API 3, so every minor version from 7 on will do.
SupportedVersion(e) == e.major = 3 /\ e.minor >= 7

\* FindFrameRegistry(error) # nullptr.
FindFrameRegistry(e) ==
    e.factory /\ e.api /\ SupportedVersion(e) /\ e.hookchains /\ e.registry

\* Mutant: a registry that is already known is registered with again.
RegisterAgain ==
    /\ frameRegistry' = FindFrameRegistry(engine)
    /\ hooks' = IF frameRegistry' THEN hooks + 1 ELSE hooks

RegisterRehldsFrameHook ==
    /\ frameRegistry' = (frameRegistry \/ FindFrameRegistry(engine))
    /\ hooks' = IF ~frameRegistry /\ frameRegistry' THEN hooks + 1 ELSE hooks

UnregisterRehldsFrameHook ==
    /\ frameRegistry' = FALSE
    /\ hooks' = IF frameRegistry THEN hooks - 1 ELSE hooks

-----------------------------------------------------------------------------
(* What AMXX calls.                                                        *)

Returned == todo = <<>>   \* the last call of AMXX has returned

OnAmxxCheckGame ==
    /\ amxx = "queried"
    /\ amxx' = IF FindFrameRegistry(engine) THEN "checked" ELSE "refused"
    /\ UNCHANGED <<engine, hookVars, natives, todo, queueVars, objectVars>>

\* Mutant: the natives are added although the hook is missing.
AddNativesAlways == natives' = TRUE

AddNatives == natives' = frameRegistry'

OnAmxxAttach ==
    /\ Returned
    /\ amxx \in {"queried", "checked", "attached", "detached"}
    /\ amxx' = "attached"
    /\ RegisterRehldsFrameHook
    /\ AddNatives
    /\ UNCHANGED <<engine, todo, queueVars, objectVars>>

\* AMXX_Attach returns AMXX_OK even if there is no hook, so this may follow.
OnPluginsLoaded ==
    /\ Returned
    /\ amxx = "attached"
    /\ amxx' = "running"
    /\ accepting' = TRUE
    /\ UNCHANGED <<engine, hookVars, natives, todo, queue, objectVars>>

UnloadingSteps == <<"stop", "clients", "options">>

OnPluginsUnloading ==
    /\ Returned
    /\ amxx = "running"
    /\ amxx' = "attached"
    /\ todo' = UnloadingSteps
    /\ UNCHANGED <<engine, hookVars, natives, queueVars, objectVars>>

\* Mutants: the hook is removed first; the clients are left to the exit of
\* the process.
UnhookFirst == <<"unhook", "stop", "clients", "options">>
KeepClients == <<"stop", "unhook", "options">>

DetachSteps == <<"stop", "unhook", "clients", "options">>

OnAmxxDetach ==
    /\ Returned
    /\ amxx \in {"attached", "running"}
    /\ amxx' = "detached"
    /\ todo' = DetachSteps
    /\ UNCHANGED <<engine, hookVars, natives, queueVars, objectVars>>

Does(step) ==
    /\ todo # <<>>
    /\ Head(todo) = step
    /\ todo' = Tail(todo)
    /\ UNCHANGED <<engine, amxx, natives>>

StopCallbackDispatcher ==
    /\ Does("stop")
    /\ accepting' = FALSE
    /\ queue' = <<>>
    /\ UNCHANGED <<hookVars, objectVars>>

RemoveHook ==
    /\ Does("unhook")
    /\ UnregisterRehldsFrameHook
    /\ UNCHANGED <<queueVars, objectVars>>

\* g_mqttClientMgr.reset() returns when every client is destroyed.
ResetClients ==
    /\ Does("clients")
    /\ clients' = {}
    /\ UNCHANGED <<hookVars, queueVars, options>>

ResetOptions ==
    /\ Does("options")
    /\ options' = FALSE
    /\ UNCHANGED <<hookVars, queueVars, clients>>

-----------------------------------------------------------------------------
(* The rest of the world.                                                  *)

NativesCallable == natives /\ Returned /\ amxx \in {"attached", "running"}

CreateClient(c) ==
    /\ NativesCallable
    /\ clients' = clients \cup {c}
    /\ UNCHANGED <<engine, amxx, hookVars, natives, todo, queueVars, options>>

DestroyClient(c) ==
    /\ NativesCallable
    /\ clients' = clients \ {c}
    /\ UNCHANGED <<engine, amxx, hookVars, natives, todo, queueVars, options>>

CreateOptions ==
    /\ NativesCallable
    /\ options' = TRUE
    /\ UNCHANGED <<engine, amxx, hookVars, natives, todo, queueVars, clients>>

\* A thread of Paho enqueues for a client that is not destroyed yet.
NetworkEvent(c) ==
    /\ c \in clients
    /\ accepting
    /\ Len(queue) < MaxQueue
    /\ queue' = Append(queue, c)
    /\ UNCHANGED <<engine, amxx, hookVars, natives, todo, accepting, objectVars>>

Batch == IF Len(queue) < MaxCallbacksPerFrame THEN Len(queue) ELSE MaxCallbacksPerFrame

\* The engine runs SV_Frame and with it OnServerFrame.
OnServerFrame ==
    /\ Returned
    /\ hooks > 0
    /\ queue' = SubSeq(queue, Batch + 1, Len(queue))
    /\ UNCHANGED <<engine, amxx, hookVars, natives, todo, accepting, objectVars>>

Amxx ==
    \/ OnAmxxCheckGame
    \/ OnAmxxAttach
    \/ OnPluginsLoaded
    \/ OnPluginsUnloading
    \/ OnAmxxDetach

Teardown ==
    \/ StopCallbackDispatcher
    \/ RemoveHook
    \/ ResetClients
    \/ ResetOptions

Next ==
    \/ Amxx
    \/ Teardown
    \/ CreateOptions
    \/ OnServerFrame
    \/ \E c \in Clients : CreateClient(c) \/ DestroyClient(c) \/ NetworkEvent(c)

Spec == Init /\ [][Next]_vars

-----------------------------------------------------------------------------
\* Through every order of attaches and detaches the engine calls the module
\* once per frame while the module holds the registry, and never otherwise.
OneHook == hooks = IF frameRegistry THEN 1 ELSE 0

\* An event waits only where a frame will come to take it: nothing is queued
\* in a module whose attach failed, nor while it is being detached.
EventsHaveFrames == queue # <<>> => hooks = 1

\* Outside the teardown, clients and options exist only in a module with a
\* frame hook: a plugin cannot start work whose callbacks would never come.
ObjectsHaveFrames == (clients # {} \/ options) /\ Returned => hooks = 1

\* When OnAmxxDetach has returned, nothing of the module is left that the
\* engine, Paho's threads or AMXX could still call into.
DetachedIsQuiet ==
    amxx = "detached" /\ Returned =>
        /\ hooks = 0
        /\ clients = {}
        /\ ~options
        /\ ~accepting
        /\ queue = <<>>
=============================================================================
