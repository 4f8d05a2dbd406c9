----------------------------- MODULE MqttModule -----------------------------
(***************************************************************************)
(* The composition: several clients with their Paho threads, the handlers  *)
(* that MqttClientMgr::make binds, the callback queue and the game thread  *)
(* that runs frames, natives, destructors and map changes.                 *)
(*                                                                         *)
(* The dispatcher's variables and actions are those of CallbackDispatcher. *)
(* What is added is where its events come from (a handler that a thread of *)
(* Paho, or the game thread, has copied and runs) and what the game thread *)
(* cannot do meanwhile: it is one thread, so while it is inside a native,  *)
(* a destructor or a map change neither a frame nor another native runs.   *)
(*                                                                         *)
(* Each client is MqttClient's, seen from further away: the connection     *)
(* flag and m_handlerMutex, whose critical sections block nobody, are left *)
(* out.  The clients cause a bounded number of events; messages, losses    *)
(* and map changes may come at any moment.                                 *)
(***************************************************************************)
EXTENDS Naturals, Sequences, FiniteSets

CONSTANTS Handles,               \* client handles, each issued once
          Watched,               \* kinds of callbacks that plugins set
          MaxCallbacksPerFrame,  \* 256 in the code
          MaxConnects,           \* bounds, over all clients: calls of connect,
          MaxRequests,           \*   calls of disconnect,
          MaxMessages,           \*   messages received
          NoEvent                \* no event is in the game thread's hands

Kinds   == {"connected", "message", "connectionLost", "disconnected"}
Answers == {"success", "failure", "error"}
Threads == {"game", "recv", "send"}
Workers == {"recv", "send"}

\* What a thread is inside a client for when a connection has ended.
Endings == {"connectionLost", "disconnected", "success"}

\* Each connect causes two events at most, a request and a message one each.
EventBound == 2 * MaxConnects + MaxRequests + MaxMessages

ASSUME ModuleAssumption ==
    /\ Watched \subseteq Kinds
    /\ MaxCallbacksPerFrame \in Nat \ {0}
    /\ MaxConnects \in Nat /\ MaxRequests \in Nat /\ MaxMessages \in Nat
    /\ NoEvent \notin [type : Kinds, handle : Handles]

VARIABLES
    acceptingCallbacks, pendingCallbacks,   \* the dispatcher, see
    framePc, remaining, event,              \*   CallbackDispatcher
    issued, live, registered,
    log, cursor, backlog, ran,
    link, actions,        \* Paho, for each client: connection, queued actions
    pc, call,             \* where each thread is in each client
    phase,                \* life of each client up to its destruction
    unloading,            \* between the steps of OnPluginsUnloading
    connects, requests, messages,   \* calls and messages so far
    causes, told, missed, \* history of the disconnected callbacks, see below
    ended                 \* history: positions in the log, see below

(***************************************************************************)
(* History: causes counts what calls for a disconnected callback (requests *)
(* and disconnects by the server), told those events taken from the queue, *)
(* missed those that came while the dispatcher did not accept any.  ended  *)
(* are the events of the log that report the end of a connection, unlike   *)
(* the disconnected events of requests that failed.                        *)
(***************************************************************************)
queueVars   == <<acceptingCallbacks, pendingCallbacks, log, cursor>>
frameVars   == <<framePc, remaining, event, backlog, ran>>
handleVars  == <<issued, live, registered>>
pahoVars    == <<link, actions>>
threadVars  == <<pc, call>>
causeVars   == <<connects, requests, messages, causes>>
clientVars  == <<pahoVars, threadVars, phase, causeVars>>
vars == <<queueVars, frameVars, handleVars, clientVars, unloading, told, missed, ended>>

Dispatcher == INSTANCE CallbackDispatcher
    WITH CallbackTypes <- Kinds, MaxEvents <- EventBound

Dying == {"stop", "wait", "cancel"}

TypeOK ==
    /\ Dispatcher!TypeOK
    /\ link \in [Handles -> {"down", "connecting", "up"}]
    /\ actions \in [Handles -> Seq({"connect", "disconnect"})]
    /\ pc \in [Handles -> [Threads -> {"idle", "copy", "run"}]]
    /\ call \in [Handles -> [Threads -> Kinds \cup Answers \cup {"none"}]]
    /\ phase \in [Handles -> {"none", "alive", "freed"} \cup Dying]
    /\ unloading \in BOOLEAN
    /\ connects \in 0..MaxConnects
    /\ requests \in 0..MaxRequests
    /\ messages \in 0..MaxMessages
    /\ causes \in [Handles -> Nat]
    /\ told \in [Handles -> Nat]
    /\ missed \in [Handles -> Nat]
    /\ ended \subseteq DOMAIN log

Init ==
    /\ Dispatcher!Init
    /\ link = [h \in Handles |-> "down"]
    /\ actions = [h \in Handles |-> <<>>]
    /\ pc = [h \in Handles |-> [t \in Threads |-> "idle"]]
    /\ call = [h \in Handles |-> [t \in Threads |-> "none"]]
    /\ phase = [h \in Handles |-> "none"]
    /\ unloading = FALSE
    /\ connects = 0
    /\ requests = 0
    /\ messages = 0
    /\ causes = [h \in Handles |-> 0]
    /\ told = [h \in Handles |-> 0]
    /\ missed = [h \in Handles |-> 0]
    /\ ended = {}

-----------------------------------------------------------------------------
(* A call into a client: copy the handler, run the copy.                   *)

Enter(h, t, k) ==
    /\ pc' = [pc EXCEPT ![h][t] = "copy"]
    /\ call' = [call EXCEPT ![h][t] = k]

Leave(h, t) ==
    /\ pc' = [pc EXCEPT ![h][t] = "idle"]
    /\ call' = [call EXCEPT ![h][t] = "none"]

Stopping(h) == phase[h] \in {"wait", "cancel", "freed"}

\* make binds all four handlers before it returns the handle, so that
\* copyHandler returns one unless the client is being destroyed.
CopyHandler(h, t) ==
    /\ pc[h][t] = "copy"
    /\ IF Stopping(h)
       THEN Leave(h, t)
       ELSE pc' = [pc EXCEPT ![h][t] = "run"] /\ UNCHANGED call
    /\ UNCHANGED <<queueVars, frameVars, handleVars, pahoVars, phase, causeVars,
                   unloading, told, missed, ended>>

\* Mutant: a request that succeeds is reported as a lost connection.
TypeOfLosing(k) ==
    IF k = "success" THEN "connectionLost" ELSE IF k \in Answers THEN "disconnected" ELSE k

\* Mutant: make binds the disconnected handler to the wrong dispatcher.
TypeOfMisbound(k) == IF k \in {"message", "connectionLost"} THEN k ELSE "connected"

\* The handler of a listener's answer is the one of the Disconnected events.
TypeOf(k) == IF k \in Answers THEN "disconnected" ELSE k

\* Mutant: ProcessPendingCallbacks keeps the lock while it executes an event.
HeldWhileExecuting == {"execute", "pawn"}

\* Where a frame holds callbackMutex: TakeEvent takes and releases it, and no
\* step of a frame leaves it locked.
HeldBetweenSteps == {}

CallbackMutexFree == framePc \notin HeldBetweenSteps

\* The handler hands its event to EnqueueCallback.
RunHandler(h, t) ==
    LET e == [type |-> TypeOf(call[h][t]), handle |-> h] IN
    /\ pc[h][t] = "run"
    /\ CallbackMutexFree
    /\ \/ /\ Dispatcher!EnqueueCallback(e)
          /\ ended' = IF call[h][t] \in Endings THEN ended \cup {Len(log')} ELSE ended
          /\ UNCHANGED missed
       \/ /\ ~acceptingCallbacks
          /\ missed' = [missed EXCEPT ![h] = IF e.type = "disconnected" THEN @ + 1 ELSE @]
          /\ UNCHANGED <<queueVars, frameVars, handleVars, ended>>
    /\ Leave(h, t)
    /\ UNCHANGED <<pahoVars, phase, causeVars, unloading, told>>

-----------------------------------------------------------------------------
(* The game thread is one thread, an assumption about AMXX and the engine  *)
(* which MqttClientMgr::assertGameThread only asserts.                     *)

\* It is in no native, in no destructor and in no map change.
NotInNative ==
    /\ ~unloading
    /\ \A h \in Handles : pc[h]["game"] = "idle" /\ phase[h] \notin Dying

\* It runs Pawn, or AMXX, and may call a native.
RunsPawn == NotInNative /\ Dispatcher!RunsPawn

TakeEvent ==
    /\ NotInNative
    /\ Dispatcher!TakeEvent
    /\ told' = [h \in Handles |->
                   IF event' = [type |-> "disconnected", handle |-> h]
                   THEN told[h] + 1 ELSE told[h]]
    /\ UNCHANGED <<clientVars, unloading, missed, ended>>

FrameStep(step) ==
    /\ NotInNative
    /\ step
    /\ UNCHANGED <<clientVars, unloading, told, missed, ended>>

BeginFrame  == FrameStep(Dispatcher!BeginFrame)
EndFrame    == FrameStep(Dispatcher!EndFrame)
CallPawn    == FrameStep(Dispatcher!CallPawn)
SkipEvent   == FrameStep(Dispatcher!SkipEvent)
PawnReturns == FrameStep(Dispatcher!PawnReturns)

MakeClient(h) ==
    /\ RunsPawn
    /\ Dispatcher!MakeClient(h)
    /\ phase' = [phase EXCEPT ![h] = "alive"]
    /\ UNCHANGED <<pahoVars, threadVars, causeVars, unloading, told, missed, ended>>

SetCallback(h, k) ==
    /\ RunsPawn
    /\ Dispatcher!SetCallback(h, k)
    /\ UNCHANGED <<clientVars, unloading, told, missed, ended>>

\* A native that found its client.
Uses(h) ==
    /\ RunsPawn
    /\ h \in live
    /\ UNCHANGED <<queueVars, frameVars, handleVars, phase, unloading, told, missed, ended>>

Connect(h) ==
    /\ Uses(h)
    /\ connects < MaxConnects
    /\ connects' = connects + 1
    /\ actions' = [actions EXCEPT ![h] = Append(@, "connect")]
    /\ UNCHANGED <<link, threadVars, requests, messages, causes>>

\* Paho accepts the request, or throws and the game thread notifies.
Disconnect(h) ==
    /\ Uses(h)
    /\ requests < MaxRequests
    /\ requests' = requests + 1
    /\ causes' = [causes EXCEPT ![h] = @ + 1]
    /\ \/ /\ link[h] = "up"
          /\ actions' = [actions EXCEPT ![h] = Append(@, "disconnect")]
          /\ UNCHANGED threadVars
       \/ /\ link[h] # "up"
          /\ Enter(h, "game", "error")
          /\ UNCHANGED actions
    /\ UNCHANGED <<link, connects, messages>>

-----------------------------------------------------------------------------
(* Destruction, on the game thread, one client after the other.            *)

\* mqtt_destroy: the handle leaves m_clients before the client is destroyed.
DestroyClient(h) ==
    /\ RunsPawn
    /\ Dispatcher!DestroyClient(h)
    /\ phase' = [phase EXCEPT ![h] = "stop"]
    /\ UNCHANGED <<pahoVars, threadVars, causeVars, unloading, told, missed, ended>>

SetStopping(h) ==
    /\ phase[h] = "stop"
    /\ \A g \in Handles : phase[g] \notin {"wait", "cancel"}
    /\ phase' = [phase EXCEPT ![h] = "wait"]
    /\ UNCHANGED <<queueVars, frameVars, handleVars, pahoVars, threadVars,
                   causeVars, unloading, told, missed, ended>>

WorkersGone(h) == \A t \in Workers : pc[h][t] = "idle"

\* Mutant: m_pClient is not reset, and declared before the handlers, which are
\* then freed before Paho has waited for anything.
FreeHandlersFirst(h) ==
    /\ phase[h] = "wait"
    /\ phase' = [phase EXCEPT ![h] = "freed"]
    /\ UNCHANGED <<queueVars, frameVars, handleVars, pahoVars, threadVars,
                   causeVars, unloading, told, missed, ended>>

\* m_pClient.reset(): MQTTAsync_destroy has waited for the running callbacks.
PahoDestroy(h) ==
    /\ phase[h] = "wait"
    /\ WorkersGone(h)
    /\ phase' = [phase EXCEPT ![h] = "cancel"]
    /\ link' = [link EXCEPT ![h] = "down"]
    /\ UNCHANGED <<queueVars, frameVars, handleVars, actions, threadVars,
                   causeVars, unloading, told, missed, ended>>

\* An action left is cancelled; for a disconnect Paho may call on_failure.
CancelAction(h) ==
    /\ phase[h] = "cancel"
    /\ pc[h]["game"] = "idle"
    /\ actions[h] # <<>>
    /\ actions' = [actions EXCEPT ![h] = Tail(@)]
    /\ \/ Head(actions[h]) = "disconnect" /\ Enter(h, "game", "failure")
       \/ UNCHANGED threadVars
    /\ UNCHANGED <<queueVars, frameVars, handleVars, link, phase, causeVars,
                   unloading, told, missed, ended>>

FreeMembers(h) ==
    /\ phase[h] = "cancel"
    /\ pc[h]["game"] = "idle"
    /\ actions[h] = <<>>
    /\ phase' = [phase EXCEPT ![h] = "freed"]
    /\ UNCHANGED <<queueVars, frameVars, handleVars, pahoVars, threadVars,
                   causeVars, unloading, told, missed, ended>>

-----------------------------------------------------------------------------
(* Map changes.                                                            *)

OnPluginsLoaded ==
    /\ RunsPawn
    /\ Dispatcher!OnPluginsLoaded
    /\ UNCHANGED <<clientVars, unloading, told, missed, ended>>

\* Mutant: the clients are reset before the dispatcher is stopped.
ResetBeforeStop == <<"reset", "stop">>

UnloadingSteps == <<"stop", "reset">>

\* MqttClientMgr::reset swaps m_clients away; the destructors follow.
ResetClients ==
    /\ live' = {}
    /\ registered' = {}
    /\ phase' = [h \in Handles |-> IF h \in live THEN "stop" ELSE phase[h]]
    /\ UNCHANGED <<issued, queueVars, ended>>

StopDispatcher ==
    /\ Dispatcher!StopCallbackDispatcher
    /\ ended' = {}
    /\ UNCHANGED <<handleVars, phase>>

UnloadingStep(i) ==
    /\ IF UnloadingSteps[i] = "stop" THEN StopDispatcher ELSE ResetClients
    /\ UNCHANGED <<frameVars, pahoVars, threadVars, causeVars, told, missed>>

OnPluginsUnloading ==
    /\ RunsPawn
    /\ unloading' = TRUE
    /\ UnloadingStep(1)

\* Paho's threads may have run since; the game thread has not.
FinishUnloading ==
    /\ unloading
    /\ unloading' = FALSE
    /\ UnloadingStep(2)

-----------------------------------------------------------------------------
(* Paho (external), as in MqttClient.                                      *)

PahoAlive(h) == phase[h] \in {"alive", "stop", "wait"}

PahoLockFree(h) == \A t \in Workers : pc[h][t] = "idle" \/ call[h][t] = "message"

PahoOnly(h) ==
    /\ PahoAlive(h)
    /\ UNCHANGED <<queueVars, frameVars, handleVars, phase, connects, requests,
                   unloading, told, missed, ended>>

LinkChanges(h, from, to, k) ==
    /\ PahoOnly(h)
    /\ PahoLockFree(h)
    /\ pc[h]["recv"] = "idle"
    /\ link[h] = from
    /\ link' = [link EXCEPT ![h] = to]
    /\ Enter(h, "recv", k)
    /\ causes' = [causes EXCEPT ![h] = IF k = "disconnected" THEN @ + 1 ELSE @]
    /\ UNCHANGED <<actions, messages>>

ConnectionUp(h)     == LinkChanges(h, "connecting", "up", "connected")
ConnectionLost(h)   == LinkChanges(h, "up", "down", "connectionLost")
ServerDisconnect(h) == LinkChanges(h, "up", "down", "disconnected")

ConnectionRefused(h) ==
    /\ PahoOnly(h)
    /\ PahoLockFree(h)
    /\ link[h] = "connecting"
    /\ link' = [link EXCEPT ![h] = "down"]
    /\ UNCHANGED <<actions, threadVars, messages, causes>>

MessageArrived(h) ==
    /\ PahoOnly(h)
    /\ pc[h]["recv"] = "idle"
    /\ link[h] = "up"
    /\ messages < MaxMessages
    /\ messages' = messages + 1
    /\ Enter(h, "recv", "message")
    /\ UNCHANGED <<pahoVars, causes>>

TakesAction(h, a) ==
    /\ PahoOnly(h)
    /\ PahoLockFree(h)
    /\ pc[h]["send"] = "idle"
    /\ link[h] # "connecting"
    /\ actions[h] # <<>>
    /\ Head(actions[h]) = a
    /\ actions' = [actions EXCEPT ![h] = Tail(@)]
    /\ UNCHANGED <<messages, causes>>

ProcessConnect(h) ==
    /\ TakesAction(h, "connect")
    /\ link' = [link EXCEPT ![h] = IF @ = "down" THEN "connecting" ELSE @]
    /\ UNCHANGED threadVars

DisconnectSucceeds(h) ==
    /\ TakesAction(h, "disconnect")
    /\ link[h] = "up"
    /\ link' = [link EXCEPT ![h] = "down"]
    /\ Enter(h, "send", "success")

DisconnectFails(h) ==
    /\ TakesAction(h, "disconnect")
    /\ Enter(h, "send", "failure")
    /\ UNCHANGED link

-----------------------------------------------------------------------------
Frame ==
    \/ BeginFrame
    \/ TakeEvent
    \/ EndFrame
    \/ CallPawn
    \/ SkipEvent
    \/ PawnReturns

Natives(h) ==
    \/ MakeClient(h)
    \/ \E k \in Watched : SetCallback(h, k)
    \/ Connect(h)
    \/ Disconnect(h)
    \/ DestroyClient(h)

Destructor(h) ==
    \/ SetStopping(h)
    \/ PahoDestroy(h)
    \/ CancelAction(h)
    \/ FreeMembers(h)

MapChange == OnPluginsLoaded \/ OnPluginsUnloading \/ FinishUnloading

SendThread(h) == ProcessConnect(h) \/ DisconnectSucceeds(h) \/ DisconnectFails(h)

Network(h) ==
    \/ ConnectionUp(h)
    \/ ConnectionLost(h)
    \/ ServerDisconnect(h)
    \/ ConnectionRefused(h)
    \/ MessageArrived(h)

CallStep(h, t) == CopyHandler(h, t) \/ RunHandler(h, t)

Next ==
    \/ Frame
    \/ MapChange
    \/ \E h \in Handles :
           \/ Natives(h)
           \/ Destructor(h)
           \/ SendThread(h)
           \/ Network(h)
           \/ \E t \in Threads : CallStep(h, t)

Spec == Init /\ [][Next]_vars

(***************************************************************************)
(* The threads run, the engine runs frames, a connection attempt ends, and *)
(* a Pawn callback does finitely many things before it returns (it could   *)
(* otherwise unload and load the plugins for ever).  Nothing else is owed. *)
(***************************************************************************)
Fairness ==
    /\ \A h \in Handles :
           /\ \A t \in Threads : WF_vars(CallStep(h, t))
           /\ WF_vars(Destructor(h))
           /\ WF_vars(SendThread(h))
           /\ WF_vars(ConnectionUp(h) \/ ConnectionRefused(h))
    /\ WF_vars(BeginFrame \/ TakeEvent \/ EndFrame \/ CallPawn \/ SkipEvent)
    /\ SF_vars(PawnReturns)
    /\ WF_vars(FinishUnloading)

FairSpec == Spec /\ Fairness

-----------------------------------------------------------------------------
(* Safety.                                                                 *)

IsNotice(e, h) == e = [type |-> "disconnected", handle |-> h]

\* Disconnected events of h that are on their way: requested from Paho, in the
\* hands of a thread, in the queue.
OnTheirWay(h) ==
    Cardinality({i \in DOMAIN actions[h] : actions[h][i] = "disconnect"})
    + Cardinality({t \in Threads : pc[h][t] # "idle" /\ TypeOf(call[h][t]) = "disconnected"})
    + Cardinality({i \in DOMAIN pendingCallbacks : IsNotice(pendingCallbacks[i], h)})

\* From mqtt_disconnect, or the server's disconnect, to Pawn exactly one
\* disconnected event comes for each: through Paho's queue, two threads, the
\* handler and the callback queue none is lost and none doubled, except those
\* that came before the plugins were loaded.
EachCauseToldOnce ==
    \A h \in live :
        ~unloading => told[h] + missed[h] + OnTheirWay(h) = causes[h]

\* Between two connected callbacks of a client its plugin is told that the
\* first connection ended, by whatever ended it and not by a request that failed
\* meanwhile: the threads of Paho and the queue keep the order.
ConnectsAlternate ==
    \A i, j \in DOMAIN log :
        i < j /\ log[i] = log[j] /\ log[i].type = "connected" =>
            \E m \in i..j : /\ m \in ended
                            /\ log[m].handle = log[i].handle
                            /\ log[m].type \in {"connectionLost", "disconnected"}

\* When mqtt_destroy, or the unloading, is done with a client, no thread is
\* inside it and none will queue an event for it.
FreedIsSilent ==
    [][\A h \in Handles : phase[h] = "freed" =>
           /\ pc[h] = [t \in Threads |-> "idle"] /\ pc'[h] = pc[h]
           /\ ~(Len(log') > Len(log) /\ log'[Len(log')].handle = h)]_vars

\* The composition implements the dispatcher's specification: its assumptions
\* about who calls it are met.  Seen from there the handles are gone as soon
\* as the unloading begins, although m_clients still holds them.
AsSeen == INSTANCE CallbackDispatcher
    WITH CallbackTypes <- Kinds, MaxEvents <- EventBound,
         live <- IF unloading THEN {} ELSE live,
         registered <- IF unloading THEN {} ELSE registered

ImplementsDispatcher == AsSeen!Spec

-----------------------------------------------------------------------------
(* Liveness.                                                               *)

\* mqtt_destroy and the unloading return, although they wait for threads that
\* wait for callbackMutex, and although they may run inside a callback.
DestroyReturns == \A h \in Handles : (phase[h] \in Dying) ~> (phase[h] = "freed")

\* A frame ends: CallbackDispatcher assumes that a Pawn callback returns, also
\* when it destroys clients.
FrameEnds == (framePc # "idle") ~> (framePc = "idle")

\* Each cause of a disconnected callback reaches the game thread, or came before
\* the dispatcher was started, unless the client is destroyed.
RequestHeard ==
    \A h \in Handles : \A k \in 1..(MaxRequests + MaxConnects) :
        (causes[h] >= k) ~> (told[h] + missed[h] >= k \/ h \notin live)
=============================================================================
