----------------------- MODULE CallbackDispatcherProofs -----------------------
(***************************************************************************)
(* Theorems about CallbackDispatcher for every set of handles and types    *)
(* and every value of MaxCallbacksPerFrame and MaxEvents.                  *)
(*                                                                         *)
(* Inv collects the safety invariants and what makes them inductive: the   *)
(* event in the game thread's hands is the last one taken, it is there     *)
(* exactly from TakeEvent to the end of its callback, and the dispatcher   *)
(* cannot be stopped between the critical section that took the event and  *)
(* the callback.                                                           *)
(***************************************************************************)
EXTENDS CallbackDispatcher, TLAPS

\* The local variable event holds an event exactly while one is handled.
EventHeldWhileHandled == event = NoEvent <=> framePc \in {"idle", "loop"}

Inv ==
    /\ TypeOK
    /\ QueueIsUntakenLog
    /\ StoppedMeansEmpty
    /\ FrameBudget
    /\ EventBelongsToSession
    /\ EventHeldWhileHandled

-----------------------------------------------------------------------------
(* Sequences.                                                              *)

\* Appending an event to the queue and to the log keeps the one a rest of
\* the other.
LEMMA AppendIsRest ==
    ASSUME NEW S, NEW q \in Seq(S), NEW l \in Seq(S), NEW c \in Nat, NEW e \in S,
           IsRest(q, l, c)
    PROVE  IsRest(Append(q, e), Append(l, e), c)
  <1> USE DEF IsRest
  <1>1. /\ Len(Append(q, e)) = Len(q) + 1
        /\ Len(Append(l, e)) = Len(l) + 1
    OBVIOUS
  <1>2. ASSUME NEW i \in 1..Len(Append(q, e))
        PROVE  Append(q, e)[i] = Append(l, e)[c + i]
    <2>1. CASE i = Len(q) + 1
      BY <1>1, <2>1
    <2>2. CASE i # Len(q) + 1
      <3>1. i \in 1..Len(q) /\ c + i \in 1..Len(l)
        BY <1>1, <2>2
      <3>2. Append(q, e)[i] = q[i] /\ Append(l, e)[c + i] = l[c + i]
        BY <3>1
      <3> QED  BY <3>1, <3>2
    <2> QED  BY <2>1, <2>2
  <1>3. Len(l) \in Nat
    OBVIOUS
  <1>4. Len(Append(q, e)) = Len(Append(l, e)) - c /\ c <= Len(Append(l, e))
    BY <1>1, <1>3
  <1> QED  BY <1>2, <1>4, Zenon

\* Taking the head of the queue takes the next event of the log.
LEMMA TailIsRest ==
    ASSUME NEW S, NEW q \in Seq(S), NEW l \in Seq(S), NEW c \in Nat,
           q # <<>>, IsRest(q, l, c)
    PROVE  /\ Head(q) \in S
           /\ Tail(q) \in Seq(S)
           /\ c + 1 \in 1..Len(l)
           /\ Head(q) = l[c + 1]
           /\ IsRest(Tail(q), l, c + 1)
  <1> USE DEF IsRest
  <1>1. /\ Len(q) \in Nat \ {0}
        /\ Len(l) \in Nat
        /\ Tail(q) \in Seq(S)
        /\ Head(q) = q[1]
        /\ q[1] \in S
        /\ Len(Tail(q)) = Len(q) - 1
        /\ \A i \in 1..Len(Tail(q)) : Tail(q)[i] = q[i + 1]
    OBVIOUS
  <1>2. ASSUME NEW i \in 1..Len(Tail(q))
        PROVE  Tail(q)[i] = l[(c + 1) + i]
    <2>1. i + 1 \in 1..Len(q)
      BY <1>1
    <2>2. q[i + 1] = l[c + (i + 1)]
      BY <2>1
    <2>3. c + (i + 1) = (c + 1) + i
      OBVIOUS
    <2> QED  BY <1>1, <2>2, <2>3
  <1>3. Head(q) = l[c + 1] /\ c + 1 \in 1..Len(l)
    BY <1>1
  <1>4. c + 1 <= Len(l) /\ Len(Tail(q)) = Len(l) - (c + 1)
    BY <1>1
  <1>5. Head(q) \in S /\ Tail(q) \in Seq(S)
    BY <1>1
  <1> QED  BY <1>2, <1>3, <1>4, <1>5, Zenon

-----------------------------------------------------------------------------
(* The inductive invariant.                                                *)

LEMMA InitInv == Init => Inv
  <1> SUFFICES ASSUME Init PROVE Inv
    OBVIOUS
  <1> USE DEF Init
  <1>1. <<>> \in Seq(CallbackEvent) /\ Len(<<>>) = 0
    OBVIOUS
  <1>2. TypeOK
    <2>1. remaining \in 0..MaxCallbacksPerFrame
      BY DispatcherAssumption
    <2>2. pendingCallbacks \in Seq(CallbackEvent) /\ log \in Seq(CallbackEvent)
      BY <1>1
    <2>3. /\ issued \subseteq Handles
          /\ live \subseteq issued
          /\ registered \subseteq live \X CallbackTypes
      BY Zenon
    <2> QED  BY <2>1, <2>2, <2>3 DEF TypeOK, FramePcs
  <1>3. QueueIsUntakenLog
    BY <1>1 DEF QueueIsUntakenLog, IsRest
  <1> QED
    BY <1>2, <1>3
    DEF Inv, StoppedMeansEmpty, FrameBudget, EventBelongsToSession,
        EventHeldWhileHandled

\* The network threads can run between any two steps of the game thread.
LEMMA EnqueueCallbackInv ==
    ASSUME Inv, NEW e \in CallbackEvent, EnqueueCallback(e)
    PROVE  Inv'
  <1> USE DEF Inv, EnqueueCallback, Admits, PushBack, frameVars, clientVars
  <1>1. /\ pendingCallbacks \in Seq(CallbackEvent)
        /\ log \in Seq(CallbackEvent)
        /\ cursor \in Nat
    BY DEF TypeOK
  <1>2. TypeOK'
    BY <1>1 DEF TypeOK
  <1>3. QueueIsUntakenLog'
    BY <1>1, AppendIsRest DEF QueueIsUntakenLog
  <1>4. StoppedMeansEmpty'
    BY DEF StoppedMeansEmpty
  <1>5. EventBelongsToSession'
    <2>1. /\ Len(log') = Len(log) + 1
          /\ \A i \in 1..Len(log) : log'[i] = log[i]
      BY <1>1
    <2>2. Len(log) \in Nat
      BY <1>1
    <2> QED  BY <2>1, <2>2 DEF TypeOK, EventBelongsToSession
  <1> QED
    BY <1>2, <1>3, <1>4, <1>5 DEF FrameBudget, EventHeldWhileHandled


LEMMA BeginFrameInv ==
    ASSUME Inv, BeginFrame
    PROVE  Inv'
  <1> USE DEF Inv, BeginFrame, queueVars, clientVars
  <1>1. Len(pendingCallbacks) \in Nat /\ MaxCallbacksPerFrame \in Nat
    BY DispatcherAssumption DEF TypeOK
  <1>2. /\ remaining' \in 0..MaxCallbacksPerFrame
        /\ remaining' <= backlog'
        /\ ran' = 0
        /\ backlog' \in Nat
    BY <1>1 DEF Batch, Smaller
  <1>3. TypeOK'
    BY <1>2 DEF TypeOK, FramePcs
  <1>4. FrameBudget'
    BY <1>1, <1>2 DEF FrameBudget
  <1> QED
    BY <1>3, <1>4
    DEF QueueIsUntakenLog, StoppedMeansEmpty, EventBelongsToSession,
        EventHeldWhileHandled

\* What TakeEvent takes, in terms of the log.
LEMMA TakeEventTakesNext ==
    ASSUME Inv, TakeEvent
    PROVE  /\ event' \in CallbackEvent
           /\ pendingCallbacks' \in Seq(CallbackEvent)
           /\ cursor' \in 1..Len(log)
           /\ event' = log[cursor']
           /\ IsRest(pendingCallbacks', log, cursor')
  <1>1. /\ pendingCallbacks \in Seq(CallbackEvent)
        /\ log \in Seq(CallbackEvent)
        /\ cursor \in Nat
        /\ pendingCallbacks # <<>>
        /\ IsRest(pendingCallbacks, log, cursor)
    BY DEF Inv, TakeEvent, TypeOK, QueueIsUntakenLog
  <1>2. /\ Head(pendingCallbacks) \in CallbackEvent
        /\ Tail(pendingCallbacks) \in Seq(CallbackEvent)
        /\ cursor + 1 \in 1..Len(log)
        /\ Head(pendingCallbacks) = log[cursor + 1]
        /\ IsRest(Tail(pendingCallbacks), log, cursor + 1)
    BY ONLY <1>1, TailIsRest, Zenon
  <1>3. /\ event' = Head(pendingCallbacks)
        /\ pendingCallbacks' = Tail(pendingCallbacks)
        /\ cursor' = cursor + 1
    BY DEF TakeEvent, NextEvent
  <1> QED  BY ONLY <1>2, <1>3, Zenon

LEMMA TakeEventInv ==
    ASSUME Inv, TakeEvent
    PROVE  Inv'
  <1> USE DEF Inv, TakeEvent, Spend, clientVars
  <1>1. log \in Seq(CallbackEvent) /\ cursor' \in Nat
    BY DEF TypeOK
  <1>2. /\ event' \in CallbackEvent
        /\ pendingCallbacks' \in Seq(CallbackEvent)
        /\ cursor' \in 1..Len(log)
        /\ event' = log[cursor']
        /\ IsRest(pendingCallbacks', log, cursor')
    BY TakeEventTakesNext
  <1>3. /\ remaining' \in 0..MaxCallbacksPerFrame
        /\ ran' \in Nat
        /\ ran' + remaining' = ran + remaining
    BY DispatcherAssumption DEF TypeOK
  <1>4. TypeOK'
    BY <1>1, <1>2, <1>3 DEF TypeOK, FramePcs
  <1>5. QueueIsUntakenLog' /\ EventBelongsToSession'
    BY <1>2 DEF QueueIsUntakenLog, EventBelongsToSession
  <1>6. EventHeldWhileHandled'
    BY <1>2, DispatcherAssumption DEF EventHeldWhileHandled
  <1> QED
    BY <1>3, <1>4, <1>5, <1>6 DEF FrameBudget, StoppedMeansEmpty

LEMMA EndFrameInv ==
    ASSUME Inv, EndFrame
    PROVE  Inv'
  <1> USE DEF Inv, EndFrame, queueVars, clientVars
  <1>1. TypeOK'
    BY DispatcherAssumption DEF TypeOK, FramePcs
  <1> QED
    BY <1>1
    DEF QueueIsUntakenLog, StoppedMeansEmpty, FrameBudget,
        EventBelongsToSession, EventHeldWhileHandled

\* CallPawn, SkipEvent and PawnReturns: the queue stands still on the game
\* thread's side and the event is destroyed with its turn of the loop.
LEMMA ExecuteInv ==
    ASSUME Inv, CallPawn \/ SkipEvent \/ PawnReturns
    PROVE  Inv'
  <1> USE DEF Inv, queueVars, clientVars
  <1>1. CASE CallPawn
    BY <1>1
    DEF CallPawn, TypeOK, FramePcs, QueueIsUntakenLog, StoppedMeansEmpty,
        FrameBudget, EventBelongsToSession, EventHeldWhileHandled
  <1>2. CASE SkipEvent
    BY <1>2
    DEF SkipEvent, TypeOK, FramePcs, QueueIsUntakenLog, StoppedMeansEmpty,
        FrameBudget, EventBelongsToSession, EventHeldWhileHandled
  <1>3. CASE PawnReturns
    BY <1>3
    DEF PawnReturns, TypeOK, FramePcs, QueueIsUntakenLog, StoppedMeansEmpty,
        FrameBudget, EventBelongsToSession, EventHeldWhileHandled
  <1> QED  BY <1>1, <1>2, <1>3

\* What the natives do to the clients leaves the queue and the frame alone.
LEMMA NativesInv ==
    ASSUME Inv, NEW h \in Handles,
           \/ MakeClient(h)
           \/ DestroyClient(h)
           \/ \E t \in CallbackTypes : SetCallback(h, t)
    PROVE  Inv'
  <1> USE DEF Inv
  <1>1. UNCHANGED <<queueVars, frameVars>>
    BY DEF MakeClient, DestroyClient, SetCallback
  <1>2. /\ issued' \subseteq Handles
        /\ live' \subseteq issued'
        /\ registered' \subseteq live' \X CallbackTypes
    <2>1. CASE MakeClient(h)
      BY <2>1 DEF MakeClient, TypeOK
    <2>2. CASE DestroyClient(h)
      BY <2>2 DEF DestroyClient, Invalidate, TypeOK
    <2>3. CASE \E t \in CallbackTypes : SetCallback(h, t)
      BY <2>3 DEF SetCallback, TypeOK
    <2> QED  BY <2>1, <2>2, <2>3
  <1>3. TypeOK'
    BY <1>1, <1>2 DEF TypeOK, queueVars, frameVars
  <1> QED
    BY <1>1, <1>3
    DEF queueVars, frameVars, QueueIsUntakenLog, StoppedMeansEmpty,
        FrameBudget, EventBelongsToSession, EventHeldWhileHandled

LEMMA OnPluginsLoadedInv ==
    ASSUME Inv, OnPluginsLoaded
    PROVE  Inv'
  BY DEF Inv, OnPluginsLoaded, StartCallbackDispatcher, frameVars, clientVars,
         TypeOK, QueueIsUntakenLog, StoppedMeansEmpty, FrameBudget,
         EventBelongsToSession, EventHeldWhileHandled

\* The game thread is not between TakeEvent and CallPawn: RunsPawn.
LEMMA OnPluginsUnloadingInv ==
    ASSUME Inv, OnPluginsUnloading
    PROVE  Inv'
  <1> USE DEF Inv, OnPluginsUnloading, StopCallbackDispatcher, frameVars
  <1>1. <<>> \in Seq(CallbackEvent) /\ Len(<<>>) = 0
    OBVIOUS
  <1>2. /\ issued' \subseteq Handles
        /\ live' \subseteq issued'
        /\ registered' \subseteq live' \X CallbackTypes
    BY DEF Invalidate, TypeOK
  <1>3. TypeOK'
    BY <1>1, <1>2 DEF TypeOK
  <1>4. QueueIsUntakenLog'
    BY <1>1 DEF QueueIsUntakenLog, IsRest
  <1> QED
    BY <1>3, <1>4
    DEF RunsPawn, StoppedMeansEmpty, FrameBudget, EventBelongsToSession,
        EventHeldWhileHandled

LEMMA NextInv == Inv /\ [Next]_vars => Inv'
  <1> SUFFICES ASSUME Inv, [Next]_vars PROVE Inv'
    OBVIOUS
  <1>1. ASSUME NEW e \in CallbackEvent, EnqueueCallback(e) PROVE Inv'
    BY <1>1, EnqueueCallbackInv
  <1>2. CASE GameThread
    BY <1>2, BeginFrameInv, TakeEventInv, EndFrameInv, ExecuteInv DEF GameThread
  <1>3. CASE Host
    BY <1>3, NativesInv, OnPluginsLoadedInv, OnPluginsUnloadingInv DEF Host
  <1>4. CASE UNCHANGED vars
    BY <1>4
    DEF vars, queueVars, frameVars, clientVars, Inv, TypeOK, QueueIsUntakenLog,
        StoppedMeansEmpty, FrameBudget, EventBelongsToSession,
        EventHeldWhileHandled
  <1> QED  BY <1>1, <1>2, <1>3, <1>4 DEF Next


\* Every reachable state of the dispatcher satisfies Inv.
THEOREM InvHolds == Spec => []Inv
  <1>1. Inv /\ [Next]_vars => Inv'
    BY NextInv
  <1> QED  BY InitInv, <1>1, PTL DEF Spec

-----------------------------------------------------------------------------
(* The invariants the runs check.                                          *)

\* The variables keep their types.
THEOREM TypeCorrect == Spec => []TypeOK
  <1>1. Inv => TypeOK
    BY DEF Inv
  <1> QED  BY InvHolds, <1>1, PTL

\* EnqueueCallback, the frame loop and StopCallbackDispatcher lose, duplicate
\* and reorder no event of a session.
THEOREM NothingLostOrReordered == Spec => []QueueIsUntakenLog
  <1>1. Inv => QueueIsUntakenLog
    BY DEF Inv
  <1> QED  BY InvHolds, <1>1, PTL

\* Nothing is left in a stopped dispatcher for the next session to deliver.
THEOREM StoppedIsEmpty == Spec => []StoppedMeansEmpty
  <1>1. Inv => StoppedMeansEmpty
    BY DEF Inv
  <1> QED  BY InvHolds, <1>1, PTL

\* A frame takes at most MaxCallbacksPerFrame events and never more than were
\* queued when it began.
THEOREM FrameIsBounded == Spec => []FrameBudget
  <1>1. Inv => FrameBudget
    BY DEF Inv
  <1> QED  BY InvHolds, <1>1, PTL

\* No event is executed in another session than the one that accepted it.
THEOREM NoEventCrossesSessions == Spec => []EventBelongsToSession
  <1>1. Inv => EventBelongsToSession
    BY DEF Inv
  <1> QED  BY InvHolds, <1>1, PTL

-----------------------------------------------------------------------------
(* Steps.                                                                  *)

\* Only CallPawn starts a callback.
LEMMA CallbackStarts ==
    ASSUME [Next]_vars, framePc # "pawn", framePc' = "pawn"
    PROVE  CallPawn
  <1>1. CASE \E e \in CallbackEvent : EnqueueCallback(e)
    BY <1>1 DEF EnqueueCallback, frameVars
  <1>2. CASE GameThread
    BY <1>2 DEF GameThread, BeginFrame, TakeEvent, EndFrame, SkipEvent, PawnReturns
  <1>3. CASE Host
    BY <1>3 DEF Host, MakeClient, DestroyClient, SetCallback, OnPluginsLoaded,
                OnPluginsUnloading, frameVars
  <1>4. CASE UNCHANGED vars
    BY <1>4 DEF vars, frameVars
  <1> QED  BY <1>1, <1>2, <1>3, <1>4 DEF Next

\* No callback starts for a client that was destroyed, by mqtt_destroy or by
\* the unloading of the plugins, however late its events arrive.
THEOREM DestroyedClientsStaySilent == Spec => NoCallbackAfterDestroy
  <1> DEFINE Silent ==
        \A h \in issued \ live :
            ~(framePc # "pawn" /\ framePc' = "pawn" /\ event'.handle = h)
  <1>1. [Next]_vars => [Silent]_vars
    <2> SUFFICES ASSUME [Next]_vars, NEW h \in issued \ live,
                        framePc # "pawn", framePc' = "pawn", event'.handle = h
                 PROVE  FALSE
      OBVIOUS
    <2>1. CallPawn
      BY CallbackStarts
    <2> QED  BY <2>1 DEF CallPawn, Deliverable
  <1> QED  BY <1>1, PTL DEF Spec, NoCallbackAfterDestroy

-----------------------------------------------------------------------------
(* Refinement of EventChannel.                                             *)

LEMMA InitRefines == Init => Channel!Init
  BY DEF Init, Channel!Init

LEMMA StepRefines == Inv /\ [Next]_vars => [Channel!Next]_(Channel!vars)
  <1> SUFFICES ASSUME Inv, [Next]_vars
               PROVE  Channel!Next \/ UNCHANGED Channel!vars
    BY DEF Channel!vars
  <1>1. ASSUME NEW e \in CallbackEvent, EnqueueCallback(e)
        PROVE  Channel!Accept(e)
    BY <1>1 DEF EnqueueCallback, Admits, frameVars, Channel!Accept
  <1>2. ASSUME BeginFrame \/ EndFrame \/ CallPawn
        PROVE  UNCHANGED Channel!vars
    BY <1>2 DEF BeginFrame, EndFrame, CallPawn, queueVars, Channel!vars
  <1>3. ASSUME TakeEvent
        PROVE  Channel!Take
    <2>1. cursor \in Nat /\ Len(log) \in Nat /\ cursor' = cursor + 1
      BY <1>3 DEF TakeEvent, Inv, TypeOK
    <2>2. cursor' \in 1..Len(log) /\ event' = log[cursor']
      BY <1>3, TakeEventTakesNext
    <2>3. cursor < Len(log)
      BY <2>1, <2>2
    <2>4. event = NoEvent
      BY <1>3 DEF TakeEvent, Inv, EventHeldWhileHandled
    <2> QED  BY <1>3, <2>1, <2>2, <2>3, <2>4 DEF TakeEvent, Channel!Take
  <1>4. ASSUME SkipEvent \/ PawnReturns
        PROVE  Channel!Finish
    <2>1. event # NoEvent
      BY <1>4 DEF SkipEvent, PawnReturns, Inv, EventHeldWhileHandled
    <2> QED  BY <1>4, <2>1 DEF SkipEvent, PawnReturns, queueVars, Channel!Finish
  <1>5. ASSUME NEW h \in Handles,
               \/ MakeClient(h)
               \/ DestroyClient(h)
               \/ \E t \in CallbackTypes : SetCallback(h, t)
        PROVE  UNCHANGED Channel!vars
    BY <1>5 DEF MakeClient, DestroyClient, SetCallback, queueVars, frameVars,
                Channel!vars
  <1>6. ASSUME OnPluginsLoaded
        PROVE  Channel!Open
    BY <1>6 DEF OnPluginsLoaded, StartCallbackDispatcher, frameVars, Channel!Open
  <1>7. ASSUME OnPluginsUnloading
        PROVE  Channel!Close
    BY <1>7 DEF OnPluginsUnloading, StopCallbackDispatcher, frameVars, Channel!Close
  <1>8. ASSUME UNCHANGED vars
        PROVE  UNCHANGED Channel!vars
    BY <1>8 DEF vars, queueVars, frameVars, Channel!vars
  <1> QED
    BY <1>1, <1>2, <1>3, <1>4, <1>5, <1>6, <1>7, <1>8
    DEF Next, GameThread, Host, Channel!Next

\* The dispatcher is an event channel: what its clients see is explained by
\* one log handled in order, opened and closed with the plugins.
THEOREM DispatcherImplementsChannel == Spec => ImplementsChannel
  <1> QED
    BY InvHolds, InitRefines, StepRefines, PTL
    DEF Spec, ImplementsChannel, Channel!Spec
===============================================================================
