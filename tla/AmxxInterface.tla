--------------------------- MODULE AmxxInterface ---------------------------
(***************************************************************************)
(* The exports that AMXX calls (src/src/sdk/amxxmodule.cpp, as configured  *)
(* by moduleconfig.h) and the function pointers through which the module   *)
(* calls AMXX back: AMXX_Attach asks for them one after the other, MF_...  *)
(* calls through them without a test, and module.cpp, natives.cpp and      *)
(* CallbackDispatcher.cpp use MF_... wherever they need AMXX.              *)
(*                                                                         *)
(* AMXX itself is external: which version it has, which functions it knows *)
(* and in which order it calls.  Of the functions that the module requests *)
(* and never calls, the first and the last stand for all.                  *)
(***************************************************************************)
EXTENDS Naturals, Sequences

CONSTANTS AMXX_INTERFACE_VERSION,   \* 4 in the code
          CoreVersions              \* bound: versions AMXX may have

ASSUME InterfaceAssumption ==
    AMXX_INTERFACE_VERSION \in Nat /\ CoreVersions \subseteq Nat

\* The functions, in the order in which AMXX_Attach requests them.
Requests == <<"BuildPathname", "Log", "LogError", "SetAmxStringUTF8CharSafe",
              "GetAmxString", "GetAmxAddr", "AddNatives", "RegisterSPForwardByName",
              "UnregisterSPForward", "ExecuteForward", "RealToCell">>

Functions == {Requests[i] : i \in DOMAIN Requests}

\* Requested with REQFUNC_OPT.
OptionalFunctions == {"SetAmxStringUTF8CharSafe"}

Answers == {"AMXX_OK", "AMXX_IFVERS", "AMXX_PARAM", "AMXX_FUNC_NOT_PRESENT",
            "AMXX_GAME_OK", "AMXX_GAME_BAD"}

VARIABLES
    offered, version,   \* AMXX: functions it knows, and its interface version
    engine,             \* the engine has the frame hook that the module needs
    status,             \* what AMXX has made of the module
    answer,             \* what the last export returned
    pointers,           \* the g_fn_... that are not null
    called,             \* history: functions the last step called
    hooked, natives,    \* OnAmxxAttach: frame hook, natives added
    accepting, queued,  \* the dispatcher; it has an event for a callback
    client, forward     \* there is a client; it has a forward

amxxVars   == <<offered, version, engine>>
exportVars == <<status, answer>>
moduleVars == <<hooked, natives, accepting, queued, client, forward>>
vars == <<amxxVars, exportVars, pointers, called, moduleVars>>

TypeOK ==
    /\ offered \subseteq Functions
    /\ version \in CoreVersions
    /\ engine \in BOOLEAN
    /\ status \in {"loaded", "queried", "checked", "attached", "running", "detached", "refused"}
    /\ answer \in Answers
    /\ pointers \subseteq Functions
    /\ called \subseteq Functions
    /\ \A flag \in {hooked, natives, accepting, queued, client, forward} : flag \in BOOLEAN

Init ==
    /\ offered \in SUBSET Functions
    /\ version \in CoreVersions
    /\ engine \in BOOLEAN
    /\ status = "loaded"
    /\ answer = "AMXX_OK"
    /\ pointers = {}
    /\ called = {}
    /\ hooked = FALSE
    /\ natives = FALSE
    /\ accepting = FALSE
    /\ queued = FALSE
    /\ client = FALSE
    /\ forward = FALSE

\* MF_Log, MF_AddNatives, ...: calls through g_fn_....
Calls(functions) == called' = functions

Returns(code, newStatus) == answer' = code /\ status' = newStatus

-----------------------------------------------------------------------------
(* Loading.                                                                *)

\* AMXX passes no place for the version or the information.
QueryWithoutParameters ==
    /\ status = "loaded"
    /\ Returns("AMXX_PARAM", status)
    /\ Calls({})
    /\ UNCHANGED <<amxxVars, pointers, moduleVars>>

\* The module answers with its own version, and AMXX refuses it.
AMXX_Query ==
    /\ status = "loaded"
    /\ IF version = AMXX_INTERFACE_VERSION
       THEN Returns("AMXX_OK", "queried")
       ELSE Returns("AMXX_IFVERS", "refused")
    /\ Calls({})
    /\ UNCHANGED <<amxxVars, pointers, moduleVars>>

\* Mutant: a bad game is logged like every other error.
CheckGameLogs(ok) == IF ok THEN {} ELSE {"Log"}

\* No function was requested yet: the error goes to stderr.
CheckGameCalls(ok) == {}

AMXX_CheckGame ==
    /\ status = "queried"
    /\ Calls(CheckGameCalls(engine))
    /\ IF engine THEN Returns("AMXX_GAME_OK", "checked")
                 ELSE Returns("AMXX_GAME_BAD", "refused")
    /\ UNCHANGED <<amxxVars, pointers, moduleVars>>

-----------------------------------------------------------------------------
(* AMXX_Attach.                                                            *)

Required == Functions \ OptionalFunctions

\* The place in Requests of the first required function that AMXX does not
\* know, or the place behind the last.
FirstMissing ==
    CHOOSE i \in 1..(Len(Requests) + 1) :
        /\ i \in DOMAIN Requests => Requests[i] \in Required \ offered
        /\ \A j \in 1..(i - 1) : Requests[j] \notin Required \ offered

\* REQFUNC assigns before it tests: those before the first missing one have
\* their answer, that one is null, those behind it keep what they had.
Requested ==
    {Requests[i] : i \in {j \in DOMAIN Requests :
        IF j <= FirstMissing THEN Requests[j] \in offered ELSE Requests[j] \in pointers}}

Complete == FirstMissing > Len(Requests)

\* OnAmxxAttach returns nothing: AMXX_Attach succeeds without the hook too.
OnAmxxAttach ==
    /\ hooked' = (hooked \/ engine)
    /\ natives' = hooked'
    /\ Calls(IF hooked' THEN {"AddNatives", "Log"} ELSE {"Log"})
    /\ UNCHANGED <<accepting, queued, client, forward>>

\* Mutant: the module starts before the functions are requested.
AttachFirst ==
    /\ OnAmxxAttach
    /\ IF Complete THEN Returns("AMXX_OK", "attached")
                   ELSE Returns("AMXX_FUNC_NOT_PRESENT", "refused")

AttachIfComplete ==
    IF Complete
    THEN OnAmxxAttach /\ Returns("AMXX_OK", "attached")
    ELSE /\ Returns("AMXX_FUNC_NOT_PRESENT", "refused")
         /\ Calls({})
         /\ UNCHANGED moduleVars

\* AMXX may attach without CheckGame, and again after a detach.
AMXX_Attach ==
    /\ status \in {"queried", "checked", "detached"}
    /\ pointers' = Requested
    /\ AttachIfComplete
    /\ UNCHANGED amxxVars

AttachWithoutFunction ==
    /\ status \in {"queried", "checked", "detached"}
    /\ Returns("AMXX_PARAM", "refused")
    /\ Calls({})
    /\ UNCHANGED <<amxxVars, pointers, moduleVars>>

-----------------------------------------------------------------------------
(* The other exports.                                                      *)

AMXX_PluginsLoaded ==
    /\ status = "attached"
    /\ accepting' = TRUE
    /\ Calls({})
    /\ Returns("AMXX_OK", "running")
    /\ UNCHANGED <<amxxVars, pointers, hooked, natives, queued, client, forward>>

\* Destroying a client releases its forwards.
Destroyed == IF forward THEN {"UnregisterSPForward"} ELSE {}

StopAndReset ==
    /\ accepting' = FALSE
    /\ queued' = FALSE
    /\ client' = FALSE
    /\ forward' = FALSE

AMXX_PluginsUnloading ==
    /\ status = "running"
    /\ StopAndReset
    /\ Calls(Destroyed)
    /\ status' = "attached"
    /\ UNCHANGED <<amxxVars, answer, pointers, hooked, natives>>

AMXX_Detach ==
    /\ status \in {"attached", "running"}
    /\ StopAndReset
    /\ hooked' = FALSE
    /\ natives' = FALSE   \* AMXX forgets the natives of a detached module
    /\ Calls(Destroyed \cup {"Log"})
    /\ Returns("AMXX_OK", "detached")
    /\ UNCHANGED <<amxxVars, pointers>>

-----------------------------------------------------------------------------
(* Natives, frames and the network, as far as they use AMXX.               *)

Native(functions) ==
    /\ natives
    /\ status \in {"attached", "running"}
    /\ Calls(functions)
    /\ UNCHANGED <<amxxVars, exportVars, pointers, hooked, natives, accepting, queued>>

\* Any native that reports an error.
NativeFails == Native({"LogError"}) /\ UNCHANGED <<client, forward>>

CreateClient == ~client /\ Native({"GetAmxString"}) /\ client' = TRUE /\ UNCHANGED forward

DestroyClient ==
    /\ Native(Destroyed)
    /\ client' = FALSE
    /\ forward' = FALSE

SetOptions == Native({"GetAmxString", "GetAmxAddr"}) /\ UNCHANGED <<client, forward>>

\* Setting a message callback again releases the forward it replaces.
SetCallback ==
    /\ client
    /\ \E replaced \in {{}, Destroyed} :
           Native({"GetAmxString", "RegisterSPForwardByName"} \cup replaced)
    /\ forward' = TRUE
    /\ UNCHANGED client

NetworkEvent ==
    /\ client
    /\ accepting
    /\ queued' = TRUE
    /\ Calls({})
    /\ UNCHANGED <<amxxVars, exportVars, pointers, hooked, natives, accepting, client, forward>>

\* ProcessPendingCallbacks, from the frame hook.
OnServerFrame ==
    /\ hooked
    /\ queued' = FALSE
    /\ Calls(IF queued /\ forward THEN {"ExecuteForward"} ELSE {})
    /\ UNCHANGED <<amxxVars, exportVars, pointers, hooked, natives, accepting, client, forward>>

Exports ==
    \/ QueryWithoutParameters
    \/ AMXX_Query
    \/ AMXX_CheckGame
    \/ AMXX_Attach
    \/ AttachWithoutFunction
    \/ AMXX_PluginsLoaded
    \/ AMXX_PluginsUnloading
    \/ AMXX_Detach

Work ==
    \/ NativeFails
    \/ CreateClient
    \/ DestroyClient
    \/ SetOptions
    \/ SetCallback
    \/ NetworkEvent
    \/ OnServerFrame

Next == Exports \/ Work

Spec == Init /\ [][Next]_vars

-----------------------------------------------------------------------------
\* The module never calls through a pointer that AMXX_Attach has not filled:
\* not before the attach, not after one that failed half way, not on a core
\* that lacks functions.
NoCallThroughNull == called \subseteq pointers

\* A module that AMXX believes attached has every function it may call.
AttachedIsComplete == status \in {"attached", "running"} => Required \subseteq pointers

\* A refused or detached module leaves nothing behind: no hook that the engine
\* would call in a library that AMXX unloads, no native, no client.
RefusedLeavesNothing ==
    status \in {"loaded", "queried", "checked", "refused", "detached"} =>
        ~hooked /\ ~natives /\ ~client /\ ~queued

=============================================================================
