----------------------------- MODULE MqttClient -----------------------------
(***************************************************************************)
(* One MqttClient (src/src/MqttClient.cpp, MqttClient.h): the connection   *)
(* flag, the four handlers behind m_handlerMutex and the destructor, run   *)
(* by the game thread and by Paho's receive and send threads.              *)
(*                                                                         *)
(* Paho is external.  What the module assumes of it, from the comments and *)
(* the tests of the repository:                                            *)
(*  - connect and disconnect only queue an action, and disconnect throws   *)
(*    when the connection is not up; the send thread takes the actions in  *)
(*    order and each one completes once;                                   *)
(*  - Paho changes the connection and makes the callbacks about it under   *)
(*    its own lock, so that these callbacks exclude each other; a message  *)
(*    is delivered without that lock;                                      *)
(*  - MQTTAsync_destroy waits for the callbacks that are running, starts   *)
(*    none afterwards, and cancels the actions left, for which it may call *)
(*    on_failure on the thread that destroys.                              *)
(***************************************************************************)
EXTENDS Naturals, Sequences, FiniteSets

CONSTANTS MaxConnects,     \* bound: calls of connect
          MaxDisconnects   \* bound: calls of disconnect

ASSUME ClientAssumption == MaxConnects \in Nat /\ MaxDisconnects \in Nat

Threads == {"game", "recv", "send"}
Nobody  == "nobody"

HandlerKinds == {"connected", "message", "connectionLost", "disconnected"}

\* Why a thread is inside the client: a Paho callback, the listener's
\* on_success or on_failure, or the notification after a synchronous error.
CallKinds == HandlerKinds \cup {"success", "failure", "error"}

\* What each thread calls: on_failure also runs on the thread that destroys.
CallsOf(t) ==
    CASE t = "game" -> {"error", "failure"}
      [] t = "recv" -> HandlerKinds
      [] t = "send" -> {"success", "failure"}

\* A disconnect request is answered by exactly these.
Answers == {"success", "failure", "error"}

\* notifyDisconnect uses the handler of the Disconnected events.
HandlerOf(k) == IF k \in Answers THEN "disconnected" ELSE k

VARIABLES
    isConnected,   \* m_bIsConnected
    stopping,      \* m_stopping
    handlers,      \* the handlers that are not empty
    mutex,         \* who holds m_handlerMutex
    link,          \* Paho's view of the connection
    actions,       \* Paho's queue of connect and disconnect actions
    pc, call,      \* where each thread is in a callback, and in which one
    dtor,          \* progress of ~MqttClient
    connects,      \* calls of connect
    requests,      \* calls of disconnect
    answered,      \* disconnect requests whose handler ran
    excused        \* those whose handler was empty or silenced

members == <<isConnected, stopping, handlers, mutex>>
paho    == <<link, actions>>
threads == <<pc, call>>
counts  == <<connects, requests, answered, excused>>
vars    == <<members, dtor, paho, threads, counts>>

TypeOK ==
    /\ isConnected \in BOOLEAN
    /\ stopping \in BOOLEAN
    /\ handlers \subseteq HandlerKinds
    /\ mutex \in Threads \cup {Nobody}
    /\ link \in {"down", "connecting", "up"}
    /\ actions \in Seq({"connect", "disconnect"})
    /\ pc \in [Threads -> {"idle", "flag", "lock", "copy", "run"}]
    /\ call \in [Threads -> CallKinds \cup {"none"}]
    /\ \A t \in Threads :
           IF pc[t] = "idle" THEN call[t] = "none" ELSE call[t] \in CallsOf(t)
    /\ dtor \in {"alive", "lock", "stop", "reset", "cancel", "freed"}
    /\ connects \in 0..MaxConnects
    /\ requests \in 0..MaxDisconnects
    /\ answered \in Nat
    /\ excused \in Nat

Init ==
    /\ isConnected = FALSE
    /\ stopping = FALSE
    /\ handlers = {}
    /\ mutex = Nobody
    /\ link = "down"
    /\ actions = <<>>
    /\ pc = [t \in Threads |-> "idle"]
    /\ call = [t \in Threads |-> "none"]
    /\ dtor = "alive"
    /\ connects = 0
    /\ requests = 0
    /\ answered = 0
    /\ excused = 0

-----------------------------------------------------------------------------
(* A call into the client, on whichever thread it is made: store the flag  *)
(* if the callback does, copyHandler under the mutex, run the copy.        *)

\* Mutant: on_success notifies without storing the flag.
StoresFlagButSuccess(k) == k \in {"connected", "connectionLost", "disconnected"}

\* Mutant: the connected handler of Paho does not store the flag.
StoresFlagButConnected(k) == k \in {"connectionLost", "disconnected", "success"}

\* Message, failure and error callbacks do not touch m_bIsConnected.
StoresFlag(k) == k \in {"connected", "connectionLost", "disconnected", "success"}

Enter(t, k) ==
    /\ pc' = [pc EXCEPT ![t] = IF StoresFlag(k) THEN "flag" ELSE "lock"]
    /\ call' = [call EXCEPT ![t] = k]

Leave(t) ==
    /\ pc' = [pc EXCEPT ![t] = "idle"]
    /\ call' = [call EXCEPT ![t] = "none"]

\* One more answer if the call ends a disconnect request.
Counted(n, t) == IF call[t] \in Answers THEN n + 1 ELSE n

StoreFlag(t) ==
    /\ pc[t] = "flag"
    /\ isConnected' = (call[t] = "connected")
    /\ pc' = [pc EXCEPT ![t] = "lock"]
    /\ UNCHANGED <<stopping, handlers, mutex, dtor, paho, call, counts>>

LockHandlers(t) ==
    /\ pc[t] = "lock"
    /\ mutex = Nobody
    /\ mutex' = t
    /\ pc' = [pc EXCEPT ![t] = "copy"]
    /\ UNCHANGED <<isConnected, stopping, handlers, dtor, paho, call, counts>>

\* Mutant: copyHandler does not look at m_stopping.
IsCopiedAlways(k) == HandlerOf(k) \in handlers

\* What copyHandler returns is not empty.
IsCopied(k) == ~stopping /\ HandlerOf(k) \in handlers

CopyHandler(t) ==
    /\ pc[t] = "copy"
    /\ IsCopied(call[t])
    /\ mutex' = Nobody
    /\ pc' = [pc EXCEPT ![t] = "run"]
    /\ UNCHANGED <<isConnected, stopping, handlers, dtor, paho, call, counts>>

CopyNothing(t) ==
    /\ pc[t] = "copy"
    /\ ~IsCopied(call[t])
    /\ mutex' = Nobody
    /\ Leave(t)
    /\ excused' = Counted(excused, t)
    /\ UNCHANGED <<isConnected, stopping, handlers, dtor, paho, connects,
                   requests, answered>>

\* The copied handler runs without the mutex and without touching a member.
RunHandler(t) ==
    /\ pc[t] = "run"
    /\ Leave(t)
    /\ answered' = Counted(answered, t)
    /\ UNCHANGED <<members, dtor, paho, connects, requests, excused>>

-----------------------------------------------------------------------------
(* The game thread uses the client until it destroys it.                   *)

GameThreadUses == dtor = "alive" /\ pc["game"] = "idle"

\* setConnectedHandler, setMessageHandler, setConnectionLostHandler and
\* setDisconnectHandler; an empty std::function clears the handler.
SetHandler(k) ==
    /\ GameThreadUses
    /\ mutex = Nobody
    /\ handlers' \in {handlers \cup {k}, handlers \ {k}}
    /\ UNCHANGED <<isConnected, stopping, mutex, dtor, paho, threads, counts>>

Connect ==
    /\ GameThreadUses
    /\ connects < MaxConnects
    /\ connects' = connects + 1
    /\ actions' = Append(actions, "connect")
    /\ UNCHANGED <<members, dtor, link, threads, requests, answered, excused>>

RequestDisconnect ==
    /\ GameThreadUses
    /\ requests < MaxDisconnects
    /\ requests' = requests + 1
    /\ UNCHANGED <<members, dtor, link, connects, answered, excused>>

\* Paho accepts the action and will call the listener.
Disconnect ==
    /\ RequestDisconnect
    /\ link = "up"
    /\ actions' = Append(actions, "disconnect")
    /\ UNCHANGED threads

\* Mutant: the exception is swallowed without a notification.
NotifyNobody == UNCHANGED threads

NotifyError == Enter("game", "error")

\* Paho throws: notifyDisconnect on the game thread.
DisconnectError ==
    /\ RequestDisconnect
    /\ link # "up"
    /\ NotifyError
    /\ UNCHANGED actions

-----------------------------------------------------------------------------
(* The destructor.                                                         *)

BeginDestroy ==
    /\ GameThreadUses
    /\ dtor' = "lock"
    /\ UNCHANGED <<members, paho, threads, counts>>

LockForStop ==
    /\ dtor = "lock"
    /\ mutex = Nobody
    /\ mutex' = "game"
    /\ dtor' = "stop"
    /\ UNCHANGED <<isConnected, stopping, handlers, paho, threads, counts>>

\* Mutant: the scope of the lock_guard reaches to the end of the destructor.
UnlockLate == dtor' = "reset" /\ UNCHANGED mutex

\* Mutant: m_pClient is declared before, so destroyed after, the members its
\* callbacks use.
UnlockAndFree == dtor' = "freed" /\ mutex' = Nobody

UnlockAndReset == dtor' = "reset" /\ mutex' = Nobody

SetStopping ==
    /\ dtor = "stop"
    /\ stopping' = TRUE
    /\ UnlockAndReset
    /\ UNCHANGED <<isConnected, handlers, paho, threads, counts>>

\* m_pClient.reset(): MQTTAsync_destroy has waited for the running callbacks.
PahoDestroy ==
    /\ dtor = "reset"
    /\ pc["recv"] = "idle" /\ pc["send"] = "idle"
    /\ link' = "down"
    /\ dtor' = "cancel"
    /\ UNCHANGED <<members, actions, threads, counts>>

\* MQTTAsync_destroy cancels an action: on_failure on the game thread, if it
\* is a disconnect and Paho reports it.
CancelAction ==
    /\ dtor = "cancel"
    /\ pc["game"] = "idle"
    /\ actions # <<>>
    /\ actions' = Tail(actions)
    /\ \/ /\ Head(actions) = "disconnect"
          /\ Enter("game", "failure")
          /\ UNCHANGED excused
       \/ /\ excused' = IF Head(actions) = "disconnect" THEN excused + 1 ELSE excused
          /\ UNCHANGED threads
    /\ UNCHANGED <<members, dtor, link, connects, requests, answered>>

\* The reset returned; the handlers and m_handlerMutex are destroyed.
FreeMembers ==
    /\ dtor = "cancel"
    /\ pc["game"] = "idle"
    /\ actions = <<>>
    /\ dtor' = "freed"
    /\ UNCHANGED <<members, paho, threads, counts>>

-----------------------------------------------------------------------------
(* Paho (external).                                                        *)

PahoAlive == dtor \in {"alive", "lock", "stop", "reset"}

\* The lock under which Paho changes the connection and reports it is free.
PahoLockFree ==
    \A t \in {"recv", "send"} : pc[t] = "idle" \/ call[t] = "message"

\* The receive thread sees the connection change and calls back.
LinkChanges(from, to, k) ==
    /\ PahoAlive
    /\ PahoLockFree
    /\ pc["recv"] = "idle"
    /\ link = from
    /\ link' = to
    /\ Enter("recv", k)
    /\ UNCHANGED <<members, actions, dtor, counts>>

ConnectionUp     == LinkChanges("connecting", "up", "connected")
ConnectionLost   == LinkChanges("up", "down", "connectionLost")
ServerDisconnect == LinkChanges("up", "down", "disconnected")

\* connect passes no listener: a refused connection is not reported.
ConnectionRefused ==
    /\ PahoAlive
    /\ PahoLockFree
    /\ link = "connecting"
    /\ link' = "down"
    /\ UNCHANGED <<members, actions, threads, dtor, counts>>

MessageArrived ==
    /\ PahoAlive
    /\ pc["recv"] = "idle"
    /\ link = "up"
    /\ Enter("recv", "message")
    /\ UNCHANGED <<members, paho, dtor, counts>>

\* The send thread takes the next action, once no connection is being made.
TakesAction(a) ==
    /\ PahoAlive
    /\ PahoLockFree
    /\ pc["send"] = "idle"
    /\ link # "connecting"
    /\ actions # <<>>
    /\ Head(actions) = a
    /\ actions' = Tail(actions)
    /\ UNCHANGED <<members, dtor, counts>>

ProcessConnect ==
    /\ TakesAction("connect")
    /\ link' = IF link = "down" THEN "connecting" ELSE link
    /\ UNCHANGED threads

DisconnectSucceeds ==
    /\ TakesAction("disconnect")
    /\ link = "up"
    /\ link' = "down"
    /\ Enter("send", "success")

\* The connection was lost before, or Paho gives the action up while it is
\* still up: on_failure does not tell.
DisconnectFails ==
    /\ TakesAction("disconnect")
    /\ Enter("send", "failure")
    /\ UNCHANGED link

-----------------------------------------------------------------------------
CallStep(t) ==
    \/ StoreFlag(t)
    \/ LockHandlers(t)
    \/ CopyNothing(t)
    \/ CopyHandler(t)
    \/ RunHandler(t)

Destructor ==
    \/ LockForStop
    \/ SetStopping
    \/ PahoDestroy
    \/ CancelAction
    \/ FreeMembers

GameThread ==
    \/ \E k \in HandlerKinds : SetHandler(k)
    \/ Connect
    \/ Disconnect
    \/ DisconnectError
    \/ BeginDestroy

Network ==
    \/ ConnectionUp
    \/ ConnectionLost
    \/ ServerDisconnect
    \/ ConnectionRefused
    \/ MessageArrived

SendThread == ProcessConnect \/ DisconnectSucceeds \/ DisconnectFails

Next ==
    \/ \E t \in Threads : CallStep(t)
    \/ GameThread
    \/ Destructor
    \/ Network
    \/ SendThread

Spec == Init /\ [][Next]_vars

(***************************************************************************)
(* Threads run: a callback goes on, the destructor goes on, the send       *)
(* thread works its queue and a connection attempt ends.  A thread that    *)
(* keeps finding m_handlerMutex or Paho's lock free gets it, although      *)
(* messages may arrive forever.  Nothing else happens unless it wants to.  *)
(***************************************************************************)
Fairness ==
    /\ \A t \in Threads :
           /\ WF_vars(StoreFlag(t) \/ CopyNothing(t) \/ CopyHandler(t) \/ RunHandler(t))
           /\ SF_vars(LockHandlers(t))
    /\ SF_vars(LockForStop)
    /\ WF_vars(SetStopping)
    /\ SF_vars(PahoDestroy)
    /\ WF_vars(CancelAction \/ FreeMembers)
    /\ SF_vars(SendThread)
    /\ SF_vars(ConnectionUp \/ ConnectionRefused)

FairSpec == Spec /\ Fairness

-----------------------------------------------------------------------------
(* Safety.                                                                 *)

\* m_handlerMutex is held only to copy a handler or to set m_stopping: never
\* while a handler runs, and never while Paho is destroyed and may call
\* on_failure on the thread that would hold it.
MutexHeldBriefly ==
    \A t \in Threads :
        mutex = t <=> pc[t] = "copy" \/ (t = "game" /\ dtor = "stop")

\* Between the callbacks about the connection, isConnected() is Paho's own
\* view: no interleaving of a connect, a loss, a server's disconnect and a
\* disconnect request leaves the flag behind.
FlagTracksLink ==
    PahoAlive /\ PahoLockFree => (isConnected <=> link = "up")

\* The connected handler runs while isConnected() holds, and a lost or a
\* successfully closed connection is visible before its handler runs.
StateBeforeNotice ==
    \A t \in Threads : pc[t] = "run" =>
        /\ call[t] = "connected" => isConnected
        /\ call[t] \in {"success", "connectionLost", "disconnected"} => ~isConnected

InQueue   == Cardinality({i \in DOMAIN actions : actions[i] = "disconnect"})
Notifying == {t \in Threads : pc[t] # "idle" /\ call[t] \in Answers}

\* Every call of disconnect is answered once: by the handler if one is set
\* and the client lives, whichever way the request ended.
AnsweredOnce ==
    requests = answered + excused + InQueue
               + (IF "game" \in Notifying THEN 1 ELSE 0)
               + (IF "send" \in Notifying THEN 1 ELSE 0)

\* Cancellation and late callbacks reach no handler: from the moment Paho's
\* destruction has waited for the running callbacks, none starts.
SilentDuringDestruction ==
    dtor \in {"cancel", "freed"} => \A t \in Threads : pc[t] # "run"

\* The members that callbacks and listener use outlive all of them.
MembersOutliveCallbacks ==
    dtor = "freed" => \A t \in Threads : pc[t] = "idle"

\* The disconnected callback "will be called when client disconnected"
\* (scripting/include/MqttClient.inc:241): the client is not connected then.
DisconnectNoticeMeansDown ==
    \A t \in Threads :
        pc[t] = "run" /\ HandlerOf(call[t]) = "disconnected" => ~isConnected

-----------------------------------------------------------------------------
(* Liveness.                                                               *)

\* The destructor returns whatever the network does: neither the mutex nor
\* a cancelled action blocks it.
DestroyCompletes == (dtor # "alive") ~> (dtor = "freed")

\* Every disconnect request is eventually answered, or silenced with the
\* client.
EveryDisconnectAnswered ==
    \A n \in 1..MaxDisconnects : (requests >= n) ~> (answered + excused >= n)
=============================================================================
