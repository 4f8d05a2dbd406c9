------------------------- MODULE CallbackDispatcher -------------------------
(***************************************************************************)
(* The callback queue between Paho's network threads and the game thread   *)
(* (src/src/CallbackDispatcher.cpp) together with what its steps depend    *)
(* on: the clients the manager resolves, the forwards that are registered, *)
(* and the map changes that start and stop the dispatcher.                 *)
(*                                                                         *)
(* Every critical section of callbackMutex is short and calls nothing that *)
(* blocks, so each is one action.  The game thread runs                    *)
(* ProcessPendingCallbacks step by step: it can be overtaken by the        *)
(* network threads between any two of them, and the Pawn code a callback   *)
(* runs ("pawn") may itself create and destroy clients or trigger the      *)
(* unloading of the plugins before it returns.                             *)
(***************************************************************************)
EXTENDS Naturals, Sequences, FiniteSets

CONSTANTS Handles,               \* client handles, each issued once
          CallbackTypes,         \* Connected, Message, ConnectionLost, Disconnected
          MaxCallbacksPerFrame,  \* 256 in the code
          MaxEvents,             \* bound: events accepted in one session
          NoEvent                \* no event is in the game thread's hands

CallbackEvent == [type : CallbackTypes, handle : Handles]

ASSUME DispatcherAssumption ==
    /\ MaxCallbacksPerFrame \in Nat \ {0}
    /\ MaxEvents \in Nat
    /\ NoEvent \notin CallbackEvent

VARIABLES
    acceptingCallbacks, pendingCallbacks,  \* the queue, under callbackMutex
    framePc, remaining, event,             \* ProcessPendingCallbacks
    issued, live,                          \* handles: ever made, resolvable
    registered,                            \* <<handle, type>> with a forward
    log, cursor, backlog, ran              \* history, see below

(***************************************************************************)
(* History: log is every event accepted in this session and cursor the     *)
(* number of them taken from the queue; backlog is the length of the queue *)
(* when the running frame began and ran the events that frame has taken.   *)
(***************************************************************************)
queueVars  == <<acceptingCallbacks, pendingCallbacks, log, cursor>>
frameVars  == <<framePc, remaining, event, backlog, ran>>
clientVars == <<issued, live, registered>>
vars       == <<queueVars, frameVars, clientVars>>

FramePcs == {"idle", "loop", "execute", "pawn"}

TypeOK ==
    /\ acceptingCallbacks \in BOOLEAN
    /\ pendingCallbacks \in Seq(CallbackEvent)
    /\ framePc \in FramePcs
    /\ remaining \in 0..MaxCallbacksPerFrame
    /\ event \in CallbackEvent \cup {NoEvent}
    /\ issued \subseteq Handles
    /\ live \subseteq issued
    /\ registered \subseteq live \X CallbackTypes
    /\ log \in Seq(CallbackEvent)
    /\ cursor \in Nat
    /\ backlog \in Nat
    /\ ran \in Nat

Init ==
    /\ acceptingCallbacks = FALSE
    /\ pendingCallbacks = <<>>
    /\ framePc = "idle"
    /\ remaining = 0
    /\ event = NoEvent
    /\ issued = {}
    /\ live = {}
    /\ registered = {}
    /\ log = <<>>
    /\ cursor = 0
    /\ backlog = 0
    /\ ran = 0

-----------------------------------------------------------------------------
(* The network threads.                                                    *)

\* Mutant: the event is pushed at the front of the deque.
PushFront(q, e) == <<e>> \o q

PushBack(q, e) == Append(q, e)

\* Mutant: acceptingCallbacks is not looked at.
AdmitsAlways == TRUE

Admits == acceptingCallbacks

\* EnqueueCallback, reached through one of the four *CallbackDispatcher
\* functions: the event is dropped unless the dispatcher accepts.  A call can
\* come late: nothing in this file relies on Paho being done with a client
\* that was destroyed, so any handle ever issued may appear.
EnqueueCallback(e) ==
    /\ e.handle \in issued
    /\ Admits
    /\ Len(log) < MaxEvents
    /\ pendingCallbacks' = PushBack(pendingCallbacks, e)
    /\ log' = Append(log, e)
    /\ UNCHANGED <<acceptingCallbacks, cursor, frameVars, clientVars>>

-----------------------------------------------------------------------------
(* The game thread: ProcessPendingCallbacks, once per server frame.        *)

Smaller(m, n) == IF m < n THEN m ELSE n

\* Mutant: the loop pre-decrements its counter.
BatchOneShort(n) == IF n = 0 THEN 0 ELSE Smaller(n, MaxCallbacksPerFrame) - 1

Batch(n) == Smaller(n, MaxCallbacksPerFrame)

BeginFrame ==
    /\ framePc = "idle"
    /\ framePc' = "loop"
    /\ remaining' = Batch(Len(pendingCallbacks))
    /\ backlog' = Len(pendingCallbacks)
    /\ ran' = 0
    /\ UNCHANGED <<event, queueVars, clientVars>>

\* Mutant: the counter is not decremented.
SpendNothing(n) == n

Spend(n) == n - 1

\* Mutant: the newest event is taken.
NewestEvent(q) == q[Len(q)]

NextEvent(q) == Head(q)

\* One turn of the loop up to the end of its critical section.
TakeEvent ==
    /\ framePc = "loop"
    /\ remaining > 0
    /\ acceptingCallbacks
    /\ pendingCallbacks # <<>>
    /\ remaining' = Spend(remaining)
    /\ event' = NextEvent(pendingCallbacks)
    /\ pendingCallbacks' = Tail(pendingCallbacks)
    /\ cursor' = cursor + 1
    /\ ran' = ran + 1
    /\ framePc' = "execute"
    /\ UNCHANGED <<acceptingCallbacks, log, backlog, clientVars>>

\* The budget is spent, the dispatcher was stopped or the queue is empty.
LoopOver == remaining = 0 \/ ~acceptingCallbacks \/ pendingCallbacks = <<>>

EndFrame ==
    /\ framePc = "loop"
    /\ LoopOver
    /\ framePc' = "idle"
    /\ remaining' = 0
    /\ backlog' = 0
    /\ ran' = 0
    /\ UNCHANGED <<event, queueVars, clientVars>>

\* Mutant: the result of getClient is used without the check for nullptr.
DeliverableUnchecked(e) ==
    e.handle \in live => <<e.handle, e.type>> \in registered

\* The manager still resolves the handle and the client has a forward.
Deliverable(e) == e.handle \in live /\ <<e.handle, e.type>> \in registered

\* ExecuteCallback up to MF_ExecuteForward.
CallPawn ==
    /\ framePc = "execute"
    /\ Deliverable(event)
    /\ framePc' = "pawn"
    /\ UNCHANGED <<remaining, event, backlog, ran, queueVars, clientVars>>

\* ExecuteCallback returns without calling Pawn; the event is destroyed.
SkipEvent ==
    /\ framePc = "execute"
    /\ ~Deliverable(event)
    /\ framePc' = "loop"
    /\ event' = NoEvent
    /\ UNCHANGED <<remaining, backlog, ran, queueVars, clientVars>>

PawnReturns ==
    /\ framePc = "pawn"
    /\ framePc' = "loop"
    /\ event' = NoEvent
    /\ UNCHANGED <<remaining, backlog, ran, queueVars, clientVars>>

-----------------------------------------------------------------------------
(* The game thread outside ProcessPendingCallbacks: plugins calling        *)
(* natives and AMXX loading and unloading plugins, either between frames   *)
(* or from inside the callback that is running.                            *)

\* An assumption about AMXX: it calls plugins on the game thread only, which is
\* either between frames or in the callback that a frame executes.
RunsPawn == framePc \in {"idle", "pawn"}

\* mqtt_create: MqttClientMgr::make issues a handle that was never issued.
MakeClient(h) ==
    /\ RunsPawn
    /\ h \notin issued
    /\ issued' = issued \cup {h}
    /\ live' = live \cup {h}
    /\ UNCHANGED <<registered, queueVars, frameVars>>

\* One of the four mqtt_set_..._callback natives.
SetCallback(h, t) ==
    /\ RunsPawn
    /\ h \in live
    /\ registered' = registered \cup {<<h, t>>}
    /\ UNCHANGED <<issued, live, queueVars, frameVars>>

\* Mutant: the forwards outlive their client.
InvalidateKeepingForwards(H) ==
    /\ live' = live \ H
    /\ UNCHANGED <<issued, registered>>

\* The handles stop resolving and the clients' forwards are released.
Invalidate(H) ==
    /\ live' = live \ H
    /\ registered' = {r \in registered : r[1] \notin H}
    /\ UNCHANGED issued

\* mqtt_destroy: MqttClientMgr::destroy.
DestroyClient(h) ==
    /\ RunsPawn
    /\ h \in live
    /\ Invalidate({h})
    /\ UNCHANGED <<queueVars, frameVars>>

StartCallbackDispatcher ==
    /\ acceptingCallbacks' = TRUE
    /\ UNCHANGED <<pendingCallbacks, log, cursor>>

\* Mutant: the queue is not cleared.
StopKeepingQueue ==
    /\ acceptingCallbacks' = FALSE
    /\ log' = <<>>
    /\ cursor' = 0
    /\ UNCHANGED pendingCallbacks

StopCallbackDispatcher ==
    /\ acceptingCallbacks' = FALSE
    /\ pendingCallbacks' = <<>>
    /\ log' = <<>>
    /\ cursor' = 0

OnPluginsLoaded ==
    /\ RunsPawn
    /\ StartCallbackDispatcher
    /\ UNCHANGED <<frameVars, clientVars>>

\* Stop first, then MqttClientMgr::reset.
OnPluginsUnloading ==
    /\ RunsPawn
    /\ StopCallbackDispatcher
    /\ Invalidate(live)
    /\ UNCHANGED frameVars

-----------------------------------------------------------------------------
GameThread ==
    \/ BeginFrame
    \/ TakeEvent
    \/ EndFrame
    \/ CallPawn
    \/ SkipEvent
    \/ PawnReturns

Host ==
    \/ \E h \in Handles : MakeClient(h) \/ DestroyClient(h)
    \/ \E h \in Handles, t \in CallbackTypes : SetCallback(h, t)
    \/ OnPluginsLoaded
    \/ OnPluginsUnloading

Next ==
    \/ \E e \in CallbackEvent : EnqueueCallback(e)
    \/ GameThread
    \/ Host

Spec == Init /\ [][Next]_vars

(***************************************************************************)
(* The engine runs frame after frame (SV_Frame, even while paused), the    *)
(* code between two steps of a frame does not block, a Pawn callback       *)
(* returns, also from the destructors it runs (DestroyCompletes in         *)
(* MqttClient).  Nothing obliges the network, the plugins or AMXX to act.  *)
(***************************************************************************)
Fairness ==
    /\ WF_vars(BeginFrame)
    /\ WF_vars(TakeEvent)
    /\ WF_vars(EndFrame)
    /\ WF_vars(CallPawn)
    /\ WF_vars(SkipEvent)
    /\ WF_vars(PawnReturns)

FairSpec == Spec /\ Fairness

-----------------------------------------------------------------------------
(* Safety.                                                                 *)

\* q is what remains of l after its first c elements.
IsRest(q, l, c) ==
    /\ c <= Len(l)
    /\ Len(q) = Len(l) - c
    /\ \A i \in 1..Len(q) : q[i] = l[c + i]

\* The queue is exactly the part of this session's log that was not taken
\* yet: EnqueueCallback, the frame loop and StopCallbackDispatcher together
\* lose, duplicate and reorder nothing, and nothing survives a session.
QueueIsUntakenLog == IsRest(pendingCallbacks, log, cursor)

\* A stopped dispatcher holds nothing that a later StartCallbackDispatcher
\* could deliver to the plugins of the next map.
StoppedMeansEmpty == ~acceptingCallbacks => pendingCallbacks = <<>>

\* ProcessPendingCallbacks takes at most MaxCallbacksPerFrame events and never
\* more than were queued when the frame began, whatever the network threads
\* add and whatever the callbacks do meanwhile.
FrameBudget ==
    framePc # "idle" =>
        /\ ran + remaining <= MaxCallbacksPerFrame
        /\ ran + remaining <= backlog

\* An event about to be executed is the one just taken from the running
\* session's log: no event popped before a shutdown is executed after it.
EventBelongsToSession ==
    framePc = "execute" =>
        /\ acceptingCallbacks
        /\ cursor \in 1..Len(log)
        /\ event = log[cursor]

\* After mqtt_destroy or a plugin unload no callback starts for the client,
\* though its events may still be queued or still be arriving.
NoCallbackAfterDestroy ==
    [][\A h \in issued \ live :
           ~(framePc # "pawn" /\ framePc' = "pawn" /\ event'.handle = h)]_vars

\* The dispatcher implements the abstract channel.
Channel == INSTANCE EventChannel
    WITH Events <- CallbackEvent,
         open <- acceptingCallbacks,
         current <- event

ImplementsChannel == Channel!Spec

-----------------------------------------------------------------------------
(* Liveness.                                                               *)

\* Every accepted event is eventually taken by a frame unless the dispatcher
\* is stopped first: the budget postpones events but never starves one.
EveryEventTaken ==
    \A k \in 1..MaxEvents : (Len(log) >= k) ~> (cursor >= k \/ Len(log) < k)

=============================================================================
