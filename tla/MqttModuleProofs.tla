-------------------------- MODULE MqttModuleProofs --------------------------
(***************************************************************************)
(* Theorems about the composition for every set of clients and every       *)
(* number of calls and messages.                                           *)
(*                                                                         *)
(* Inv says where a thread can be in a client during its life: Paho's      *)
(* threads are out of it once MQTTAsync_destroy has returned, the game     *)
(* thread is out of it before its members are freed, and what is inside    *)
(* runs a call that has a handler.  From it follow the silence of freed    *)
(* clients and the refinement of CallbackDispatcher, and from the latter   *)
(* everything CallbackDispatcherProofs proves.  CausesOK and OrderOK are   *)
(* the inductive invariants behind what plugins are told of connections;   *)
(* BoundOK counts the events that can still come, for all clients          *)
(* together.  Each client implements ClientContract.                       *)
(***************************************************************************)
EXTENDS MqttModule, FiniteSetTheorems, TLAPS

Calls == Kinds \cup Answers

Phases == {"none", "alive", "freed"} \cup Dying

CallsNamed == \A h \in Handles, t \in Threads : pc[h][t] # "idle" => call[h][t] \in Calls

QuietAfterWait ==
    \A h \in Handles, t \in Workers : phase[h] \in {"cancel", "freed"} => pc[h][t] = "idle"

FreedIsIdle == \A h \in Handles : phase[h] = "freed" => pc[h]["game"] = "idle"

\* Where the threads are, and what is left of a client then.
ThreadsOK ==
    /\ pc \in [Handles -> [Threads -> {"idle", "copy", "run"}]]
    /\ call \in [Handles -> [Threads -> Calls \cup {"none"}]]
    /\ phase \in [Handles -> Phases]
    /\ CallsNamed
    /\ QuietAfterWait
    /\ FreedIsIdle

\* The manager's map, and the clients it owns.
HandlesOK ==
    /\ issued \subseteq Handles
    /\ live \subseteq issued
    /\ registered \subseteq live \X Kinds
    /\ \A h \in Handles : h \in live <=> phase[h] = "alive"

PahoOK ==
    /\ link \in [Handles -> {"down", "connecting", "up"}]
    /\ actions \in [Handles -> Seq({"connect", "disconnect"})]

CountsOK ==
    /\ unloading \in BOOLEAN
    /\ connects \in 0..MaxConnects
    /\ requests \in 0..MaxRequests
    /\ messages \in 0..MaxMessages
    /\ causes \in [Handles -> Nat]
    /\ told \in [Handles -> Nat]
    /\ missed \in [Handles -> Nat]

Inv == ThreadsOK /\ HandlesOK /\ PahoOK /\ CountsOK

-----------------------------------------------------------------------------
(* Threads enter a client, leave it, or stay where they are.               *)

LEMMA MoveOK ==
    ASSUME ThreadsOK, NEW h \in Handles, NEW t \in Threads, UNCHANGED phase,
           pc' \in [Handles -> [Threads -> {"idle", "copy", "run"}]],
           call' \in [Handles -> [Threads -> Calls \cup {"none"}]],
           \A g \in Handles, u \in Threads :
               g # h \/ u # t => pc'[g][u] = pc[g][u] /\ call'[g][u] = call[g][u],
           pc'[h][t] # "idle" => /\ call'[h][t] \in Calls
                                 /\ phase[h] # "freed"
                                 /\ t \in Workers => phase[h] # "cancel"
    PROVE  ThreadsOK'
  <1>1. Workers \subseteq Threads /\ "game" \in Threads
    BY DEF Workers, Threads
  <1>2. CallsNamed'
    <2> SUFFICES ASSUME NEW g \in Handles, NEW u \in Threads, pc'[g][u] # "idle"
                 PROVE  call'[g][u] \in Calls
      BY DEF CallsNamed
    <2> QED  BY DEF ThreadsOK, CallsNamed
  <1>3. QuietAfterWait'
    <2> SUFFICES ASSUME NEW g \in Handles, NEW u \in Workers, phase[g] \in {"cancel", "freed"}
                 PROVE  pc'[g][u] = "idle"
      BY DEF QuietAfterWait
    <2> QED  BY <1>1 DEF ThreadsOK, QuietAfterWait
  <1>4. FreedIsIdle'
    <2> SUFFICES ASSUME NEW g \in Handles, phase[g] = "freed" PROVE pc'[g]["game"] = "idle"
      BY DEF FreedIsIdle
    <2> QED  BY <1>1 DEF ThreadsOK, FreedIsIdle
  <1> QED  BY <1>2, <1>3, <1>4 DEF ThreadsOK

LEMMA EnterOK ==
    ASSUME ThreadsOK, NEW h \in Handles, NEW t \in Threads, NEW k \in Calls,
           Enter(h, t, k), UNCHANGED phase,
           t \in Workers => PahoAlive(h), phase[h] # "freed"
    PROVE  ThreadsOK'
  <1>1. /\ pc' \in [Handles -> [Threads -> {"idle", "copy", "run"}]]
        /\ call' \in [Handles -> [Threads -> Calls \cup {"none"}]]
        /\ call'[h][t] = k
    BY DEF ThreadsOK, Enter
  <1>2. \A g \in Handles, u \in Threads :
            g # h \/ u # t => pc'[g][u] = pc[g][u] /\ call'[g][u] = call[g][u]
    BY DEF ThreadsOK, Enter
  <1> QED  BY <1>1, <1>2, MoveOK DEF PahoAlive

LEMMA LeaveOK ==
    ASSUME ThreadsOK, NEW h \in Handles, NEW t \in Threads, Leave(h, t), UNCHANGED phase
    PROVE  ThreadsOK'
  <1>1. /\ pc' \in [Handles -> [Threads -> {"idle", "copy", "run"}]]
        /\ call' \in [Handles -> [Threads -> Calls \cup {"none"}]]
        /\ pc'[h][t] = "idle"
    BY DEF ThreadsOK, Leave
  <1>2. \A g \in Handles, u \in Threads :
            g # h \/ u # t => pc'[g][u] = pc[g][u] /\ call'[g][u] = call[g][u]
    BY DEF ThreadsOK, Leave
  <1> QED  BY <1>1, <1>2, MoveOK

LEMMA StayOK ==
    ASSUME ThreadsOK, UNCHANGED threadVars, phase' \in [Handles -> Phases],
           \A h \in Handles :
               /\ phase'[h] \in {"cancel", "freed"} => phase[h] \in {"cancel", "freed"} \/ WorkersGone(h)
               /\ phase'[h] = "freed" => phase[h] = "freed" \/ pc[h]["game"] = "idle"
    PROVE  ThreadsOK'
  BY DEF ThreadsOK, CallsNamed, QuietAfterWait, FreedIsIdle, threadVars, WorkersGone

\* A client passes from one phase of its destruction to the next.
LEMMA PhaseOK ==
    ASSUME ThreadsOK, HandlesOK, NEW h \in Handles, NEW p \in Phases,
           phase' = [phase EXCEPT ![h] = p], phase[h] # "alive", p # "alive",
           UNCHANGED <<handleVars, threadVars>>,
           p \in {"cancel", "freed"} => phase[h] = "cancel" \/ WorkersGone(h),
           p = "freed" => pc[h]["game"] = "idle"
    PROVE  ThreadsOK' /\ HandlesOK'
  <1>1. /\ phase' \in [Handles -> Phases]
        /\ phase'[h] = p
        /\ \A g \in Handles : g # h => phase'[g] = phase[g]
    BY DEF ThreadsOK
  <1>2. ThreadsOK'
    BY <1>1, StayOK
  <1>3. HandlesOK'
    BY <1>1 DEF HandlesOK, handleVars
  <1> QED  BY <1>2, <1>3

-----------------------------------------------------------------------------
(* The inductive invariant, one lemma for each thread.                     *)

LEMMA InitInv == Init => Inv
  <1> SUFFICES ASSUME Init PROVE Inv
    OBVIOUS
  <1> USE DEF Init, Dispatcher!Init
  <1>1. ThreadsOK
    BY DEF ThreadsOK, CallsNamed, QuietAfterWait, FreedIsIdle, Phases, Workers, Threads
  <1>2. HandlesOK
    BY DEF HandlesOK
  <1>3. <<>> \in Seq({"connect", "disconnect"})
    OBVIOUS
  <1>4. PahoOK
    BY <1>3 DEF PahoOK
  <1>5. CountsOK
    <2>1. connects \in 0..MaxConnects /\ requests \in 0..MaxRequests /\ messages \in 0..MaxMessages
      BY ModuleAssumption
    <2>2. causes \in [Handles -> Nat] /\ told \in [Handles -> Nat] /\ missed \in [Handles -> Nat]
      OBVIOUS
    <2> QED  BY <2>1, <2>2 DEF CountsOK
  <1> QED  BY <1>1, <1>2, <1>4, <1>5 DEF Inv

\* Frames, and the loading of plugins, move the queue only.
LEMMA QueueMovesInv ==
    ASSUME Inv, UNCHANGED <<clientVars, handleVars, unloading, missed>>,
           told' \in [Handles -> Nat]
    PROVE  Inv'
  BY DEF Inv, ThreadsOK, HandlesOK, PahoOK, CountsOK, clientVars, threadVars, pahoVars,
         causeVars, handleVars, CallsNamed, QuietAfterWait, FreedIsIdle

LEMMA FrameInv ==
    ASSUME Inv, Frame
    PROVE  Inv'
  <1>1. CASE TakeEvent
    <2>1. told' \in [Handles -> Nat]
      BY <1>1 DEF TakeEvent, Inv, CountsOK
    <2> QED
      BY <1>1, <2>1, QueueMovesInv
      DEF TakeEvent, Dispatcher!TakeEvent, Dispatcher!clientVars, handleVars
  <1>2. CASE ~TakeEvent
    BY <1>2, QueueMovesInv
    DEF Frame, BeginFrame, EndFrame, CallPawn, SkipEvent, PawnReturns, FrameStep,
        Dispatcher!BeginFrame, Dispatcher!EndFrame, Dispatcher!CallPawn, Dispatcher!SkipEvent,
        Dispatcher!PawnReturns, Dispatcher!clientVars, handleVars, Inv, CountsOK
  <1> QED  BY <1>1, <1>2

LEMMA CallStepInv ==
    ASSUME Inv, NEW h \in Handles, NEW t \in Threads, CallStep(h, t)
    PROVE  Inv'
  <1>1. CASE CopyHandler(h, t)
    <2> USE <1>1 DEF CopyHandler
    <2>1. ThreadsOK'
      <3>1. CASE Stopping(h)
        BY <3>1, LeaveOK DEF Inv
      <3>2. CASE ~Stopping(h)
        <4>1. /\ pc' \in [Handles -> [Threads -> {"idle", "copy", "run"}]]
              /\ call' \in [Handles -> [Threads -> Calls \cup {"none"}]]
              /\ \A g \in Handles, u \in Threads :
                     g # h \/ u # t => pc'[g][u] = pc[g][u] /\ call'[g][u] = call[g][u]
          <5>1. pc' = [pc EXCEPT ![h][t] = "run"] /\ call' = call
            BY <3>2
          <5>2. /\ pc \in [Handles -> [Threads -> {"idle", "copy", "run"}]]
                /\ call \in [Handles -> [Threads -> Calls \cup {"none"}]]
            BY DEF Inv, ThreadsOK
          <5> HIDE <1>1 DEF CopyHandler
          <5> QED  BY <5>1, <5>2
        <4>2. call'[h][t] \in Calls
          BY <3>2 DEF Inv, ThreadsOK, CallsNamed
        <4> QED  BY <3>2, <4>1, <4>2, MoveOK DEF Inv, Stopping
      <3> QED  BY <3>1, <3>2
    <2> QED  BY <2>1 DEF Inv, HandlesOK, PahoOK, CountsOK, handleVars, pahoVars, causeVars
  <1>2. CASE RunHandler(h, t)
    <2> USE <1>2 DEF RunHandler
    <2>1. ThreadsOK'
      BY LeaveOK DEF Inv
    <2>2. UNCHANGED handleVars
      BY DEF Dispatcher!EnqueueCallback, Dispatcher!clientVars, handleVars
    <2>3. missed' \in [Handles -> Nat]
      BY DEF Inv, CountsOK
    <2> QED  BY <2>1, <2>2, <2>3 DEF Inv, HandlesOK, PahoOK, CountsOK, handleVars, pahoVars, causeVars
  <1> QED  BY <1>1, <1>2 DEF CallStep

\* The natives that plugins call.
LEMMA NativesInv ==
    ASSUME Inv, NEW h \in Handles, Natives(h)
    PROVE  Inv'
  <1>1. CASE MakeClient(h)
    <2> USE <1>1 DEF MakeClient, Dispatcher!MakeClient
    <2>1. phase' \in [Handles -> Phases] /\ \A g \in Handles : phase'[g] = IF g = h THEN "alive" ELSE phase[g]
      BY DEF Inv, ThreadsOK, Phases
    <2>2. ThreadsOK'
      BY <2>1, StayOK DEF Inv
    <2>3. HandlesOK'
      BY <2>1 DEF Inv, HandlesOK
    <2> QED  BY <2>2, <2>3 DEF Inv, PahoOK, CountsOK, pahoVars, causeVars
  <1>2. ASSUME NEW k \in Watched, SetCallback(h, k) PROVE Inv'
    <2> USE <1>2 DEF SetCallback, Dispatcher!SetCallback
    <2>1. k \in Kinds
      BY ModuleAssumption
    <2>2. ThreadsOK'
      BY StayOK DEF Inv, ThreadsOK, clientVars
    <2>3. HandlesOK'
      BY <2>1 DEF Inv, HandlesOK, clientVars
    <2> QED  BY <2>2, <2>3 DEF Inv, PahoOK, CountsOK, clientVars, pahoVars, causeVars
  <1>3. CASE Connect(h)
    <2> USE <1>3 DEF Connect, Uses
    <2>1. ThreadsOK'
      BY StayOK DEF Inv, ThreadsOK
    <2>2. PahoOK'
      BY DEF Inv, PahoOK
    <2>3. connects' \in 0..MaxConnects
      BY ModuleAssumption DEF Inv, CountsOK
    <2> QED  BY <2>1, <2>2, <2>3 DEF Inv, HandlesOK, CountsOK, handleVars
  <1>4. CASE Disconnect(h)
    <2> USE <1>4 DEF Disconnect, Uses
    <2>1. ThreadsOK'
      <3>1. CASE link[h] = "up"
        BY <3>1, StayOK DEF Inv, ThreadsOK
      <3>2. CASE link[h] # "up"
        <4>1. phase[h] = "alive"
          BY DEF Inv, HandlesOK
        <4>2. "game" \in Threads /\ "game" \notin Workers /\ "error" \in Calls
          BY DEF Threads, Workers, Calls, Answers
        <4> QED  BY <3>2, <4>1, <4>2, EnterOK DEF Inv
      <3> QED  BY <3>1, <3>2
    <2>2. PahoOK'
      <3>1. CASE actions' = [actions EXCEPT ![h] = Append(@, "disconnect")] /\ link' = link
        BY <3>1 DEF Inv, PahoOK
      <3>2. CASE UNCHANGED <<link, actions>>
        BY <3>2 DEF Inv, PahoOK
      <3> QED  BY <3>1, <3>2
    <2>3. requests' \in 0..MaxRequests /\ causes' \in [Handles -> Nat]
      BY ModuleAssumption DEF Inv, CountsOK
    <2> QED  BY <2>1, <2>2, <2>3 DEF Inv, HandlesOK, CountsOK, handleVars
  <1>5. CASE DestroyClient(h)
    <2> USE <1>5 DEF DestroyClient, Dispatcher!DestroyClient, Dispatcher!Invalidate
    <2>1. phase' \in [Handles -> Phases] /\ \A g \in Handles : phase'[g] = IF g = h THEN "stop" ELSE phase[g]
      BY DEF Inv, ThreadsOK, Phases, Dying
    <2>2. ThreadsOK'
      BY <2>1, StayOK DEF Inv
    <2>3. HandlesOK'
      BY <2>1 DEF Inv, HandlesOK
    <2> QED  BY <2>2, <2>3 DEF Inv, PahoOK, CountsOK, pahoVars, causeVars
  <1> QED  BY <1>1, <1>2, <1>3, <1>4, <1>5 DEF Natives

\* The destructors, one after the other.
LEMMA DestructorInv ==
    ASSUME Inv, NEW h \in Handles, Destructor(h)
    PROVE  Inv'
  <1> USE DEF Inv, PahoOK, CountsOK, pahoVars, causeVars
  <1>1. {"wait", "cancel", "freed"} \subseteq Phases
    BY DEF Phases, Dying
  <1>2. CASE SetStopping(h)
    <2>1. ThreadsOK' /\ HandlesOK'
      BY <1>1, <1>2, PhaseOK DEF SetStopping
    <2> QED  BY <1>2, <2>1 DEF SetStopping
  <1>3. CASE PahoDestroy(h)
    <2>1. ThreadsOK' /\ HandlesOK'
      BY <1>1, <1>3, PhaseOK DEF PahoDestroy
    <2> QED  BY <1>3, <2>1 DEF PahoDestroy
  <1>4. CASE CancelAction(h)
    <2> USE <1>4 DEF CancelAction
    <2>1. ThreadsOK'
      <3>1. CASE Enter(h, "game", "failure")
        <4>1. "game" \in Threads /\ "game" \notin Workers /\ "failure" \in Calls
          BY DEF Threads, Workers, Calls, Answers
        <4> QED  BY <3>1, <4>1, EnterOK
      <3>2. CASE UNCHANGED threadVars
        BY <3>2, StayOK DEF ThreadsOK
      <3> QED  BY <3>1, <3>2
    <2>2. HandlesOK'
      BY DEF HandlesOK, handleVars
    <2> QED  BY <2>1, <2>2
  <1>5. CASE FreeMembers(h)
    <2>1. ThreadsOK' /\ HandlesOK'
      BY <1>1, <1>5, PhaseOK DEF FreeMembers
    <2> QED  BY <1>5, <2>1 DEF FreeMembers
  <1> QED  BY <1>2, <1>3, <1>4, <1>5 DEF Destructor

\* Paho's threads are in a client only until MQTTAsync_destroy returns.
LEMMA PahoInv ==
    ASSUME Inv, NEW h \in Handles, SendThread(h) \/ Network(h)
    PROVE  Inv'
  <1> USE DEF Inv, PahoOK, CountsOK, pahoVars, PahoOnly
  <1>1. /\ "send" \in Threads /\ "recv" \in Threads /\ "send" # "game" /\ "recv" # "game"
        /\ {"success", "failure", "connected", "connectionLost", "disconnected", "message"} \subseteq Calls
    BY DEF Threads, Calls, Kinds, Answers
  <1>2. PahoAlive(h) => phase[h] # "freed"
    BY DEF PahoAlive
  <1>3. ASSUME NEW from \in {"up", "connecting"}, NEW to \in {"up", "down"},
               NEW k \in {"connected", "connectionLost", "disconnected"},
               LinkChanges(h, from, to, k)
        PROVE  Inv'
    <2> USE <1>3 DEF LinkChanges
    <2>1. ThreadsOK'
      BY <1>1, <1>2, EnterOK
    <2>2. causes' \in [Handles -> Nat]
      OBVIOUS
    <2>3. HandlesOK'
      BY DEF HandlesOK, handleVars
    <2> QED  BY <2>1, <2>2, <2>3
  <1>4. CASE ConnectionRefused(h)
    <2> USE <1>4 DEF ConnectionRefused
    <2>1. ThreadsOK'
      BY StayOK DEF ThreadsOK
    <2>2. HandlesOK'
      BY DEF HandlesOK, handleVars
    <2> QED  BY <2>1, <2>2
  <1>5. CASE MessageArrived(h)
    <2> USE <1>5 DEF MessageArrived
    <2>1. ThreadsOK'
      BY <1>1, <1>2, EnterOK
    <2>2. messages' \in 0..MaxMessages
      BY ModuleAssumption
    <2>3. HandlesOK'
      BY DEF HandlesOK, handleVars
    <2> QED  BY <2>1, <2>2, <2>3
  <1>6. CASE ProcessConnect(h)
    <2> USE <1>6 DEF ProcessConnect, TakesAction
    <2>1. ThreadsOK'
      BY StayOK DEF ThreadsOK
    <2>2. HandlesOK'
      BY DEF HandlesOK, handleVars
    <2> QED  BY <2>1, <2>2
  <1>7. CASE DisconnectSucceeds(h)
    <2> USE <1>7 DEF DisconnectSucceeds, TakesAction
    <2>1. ThreadsOK'
      BY <1>1, <1>2, EnterOK
    <2>2. HandlesOK'
      BY DEF HandlesOK, handleVars
    <2> QED  BY <2>1, <2>2
  <1>8. CASE DisconnectFails(h)
    <2> USE <1>8 DEF DisconnectFails, TakesAction
    <2>1. ThreadsOK'
      BY <1>1, <1>2, EnterOK
    <2>2. HandlesOK'
      BY DEF HandlesOK, handleVars
    <2> QED  BY <2>1, <2>2
  <1> QED
    BY <1>3, <1>4, <1>5, <1>6, <1>7, <1>8
    DEF SendThread, Network, ConnectionUp, ConnectionLost, ServerDisconnect

\* Map changes, in the two steps of OnPluginsUnloading.
LEMMA MapChangeInv ==
    ASSUME Inv, MapChange
    PROVE  Inv'
  <1>1. CASE OnPluginsLoaded
    BY <1>1, QueueMovesInv
    DEF OnPluginsLoaded, Dispatcher!OnPluginsLoaded, Dispatcher!clientVars, handleVars, Inv, CountsOK
  <1>2. CASE OnPluginsUnloading
    <2>1. StopDispatcher /\ UNCHANGED <<pahoVars, threadVars, causeVars, told, missed>> /\ unloading' = TRUE
      BY <1>2 DEF OnPluginsUnloading, UnloadingStep, UnloadingSteps
    <2>2. ThreadsOK'
      BY <2>1, StayOK DEF Inv, ThreadsOK, StopDispatcher
    <2>3. HandlesOK'
      BY <2>1 DEF Inv, HandlesOK, StopDispatcher, handleVars
    <2> QED  BY <2>1, <2>2, <2>3 DEF Inv, PahoOK, CountsOK, pahoVars, causeVars
  <1>3. CASE FinishUnloading
    <2>1. ResetClients /\ UNCHANGED <<pahoVars, threadVars, causeVars, told, missed>> /\ unloading' = FALSE
      BY <1>3 DEF FinishUnloading, UnloadingStep, UnloadingSteps
    <2>2. /\ phase' \in [Handles -> Phases]
          /\ \A g \in Handles : phase'[g] = IF g \in live THEN "stop" ELSE phase[g]
      BY <2>1 DEF ResetClients, Inv, ThreadsOK, Phases, Dying
    <2>3. ThreadsOK'
      BY <2>1, <2>2, StayOK DEF Inv
    <2>4. HandlesOK'
      <3>1. live' = {} /\ registered' = {} /\ issued' = issued
        BY <2>1 DEF ResetClients
      <3>2. live' \subseteq issued' /\ registered' \subseteq live' \X Kinds
        BY <3>1, Zenon
      <3> QED  BY <2>2, <3>1, <3>2 DEF Inv, HandlesOK
    <2> QED  BY <2>1, <2>3, <2>4 DEF Inv, PahoOK, CountsOK, pahoVars, causeVars
  <1> QED  BY <1>1, <1>2, <1>3 DEF MapChange

LEMMA NextInv == Inv /\ [Next]_vars => Inv'
  <1> SUFFICES ASSUME Inv, [Next]_vars PROVE Inv'
    OBVIOUS
  <1>1. CASE UNCHANGED vars
    BY <1>1, QueueMovesInv DEF vars, Inv, CountsOK
  <1> QED
    BY <1>1, FrameInv, MapChangeInv, NativesInv, DestructorInv, PahoInv, CallStepInv DEF Next

\* Every reachable state satisfies Inv.
THEOREM InvHolds == Spec => []Inv
  <1> QED  BY InitInv, NextInv, PTL DEF Spec

-----------------------------------------------------------------------------
(* The refinement: who calls the dispatcher keeps to what it assumes.      *)

LEMMA InitMaps == Init => AsSeen!Init
  BY DEF Init, Dispatcher!Init, AsSeen!Init

\* A handler that runs has a type, so that what it queues is an event.
LEMMA RunHandlerMaps ==
    ASSUME Inv, NEW h \in Handles, NEW t \in Threads, RunHandler(h, t)
    PROVE  \/ \E e \in AsSeen!CallbackEvent : AsSeen!EnqueueCallback(e)
           \/ UNCHANGED AsSeen!vars
  <1> DEFINE e == [type |-> TypeOf(call[h][t]), handle |-> h]
  <1>1. TypeOf(call[h][t]) \in Kinds
    BY DEF RunHandler, Inv, ThreadsOK, CallsNamed, Calls, TypeOf, Kinds
  <1>2. e \in AsSeen!CallbackEvent
    BY <1>1 DEF AsSeen!CallbackEvent
  <1>3. CASE Dispatcher!EnqueueCallback(e)
    <2>1. AsSeen!EnqueueCallback(e)
      BY <1>3
      DEF RunHandler, Dispatcher!EnqueueCallback, Dispatcher!Admits, Dispatcher!PushBack,
          Dispatcher!frameVars, Dispatcher!clientVars, AsSeen!EnqueueCallback, AsSeen!Admits,
          AsSeen!PushBack, AsSeen!frameVars, AsSeen!clientVars
    <2> QED  BY <1>2, <2>1
  <1>4. CASE UNCHANGED <<queueVars, frameVars, handleVars>>
    BY <1>4
    DEF RunHandler, queueVars, frameVars, handleVars, AsSeen!vars, AsSeen!queueVars,
        AsSeen!frameVars, AsSeen!clientVars
  <1> QED  BY <1>3, <1>4 DEF RunHandler

\* A frame runs outside natives and map changes, when the handles are seen as
\* they are.
LEMMA FrameMaps ==
    ASSUME Frame
    PROVE  AsSeen!GameThread
  <1> USE DEF Dispatcher!clientVars, Dispatcher!queueVars, AsSeen!clientVars, AsSeen!queueVars
  <1>1. ~unloading /\ unloading' = unloading
    BY DEF Frame, BeginFrame, TakeEvent, EndFrame, CallPawn, SkipEvent, PawnReturns, FrameStep,
           NotInNative
  <1>2. CASE BeginFrame
    BY <1>1, <1>2
    DEF BeginFrame, FrameStep, Dispatcher!BeginFrame, Dispatcher!Batch, Dispatcher!Smaller,
        AsSeen!BeginFrame, AsSeen!Batch, AsSeen!Smaller, AsSeen!GameThread
  <1>3. CASE TakeEvent
    BY <1>1, <1>3
    DEF TakeEvent, Dispatcher!TakeEvent, Dispatcher!Spend, Dispatcher!NextEvent,
        AsSeen!TakeEvent, AsSeen!Spend, AsSeen!NextEvent, AsSeen!GameThread
  <1>4. CASE EndFrame
    BY <1>1, <1>4
    DEF EndFrame, FrameStep, Dispatcher!EndFrame, Dispatcher!LoopOver, AsSeen!EndFrame,
        AsSeen!LoopOver, AsSeen!GameThread
  <1>5. CASE CallPawn
    BY <1>1, <1>5
    DEF CallPawn, FrameStep, Dispatcher!CallPawn, Dispatcher!Deliverable, AsSeen!CallPawn,
        AsSeen!Deliverable, AsSeen!GameThread
  <1>6. CASE SkipEvent
    BY <1>1, <1>6
    DEF SkipEvent, FrameStep, Dispatcher!SkipEvent, Dispatcher!Deliverable, AsSeen!SkipEvent,
        AsSeen!Deliverable, AsSeen!GameThread
  <1>7. CASE PawnReturns
    BY <1>1, <1>7
    DEF PawnReturns, FrameStep, Dispatcher!PawnReturns, AsSeen!PawnReturns, AsSeen!GameThread
  <1> QED  BY <1>2, <1>3, <1>4, <1>5, <1>6, <1>7 DEF Frame

\* Natives are those the dispatcher knows, or do not concern it.
LEMMA NativesMaps ==
    ASSUME Inv, NEW h \in Handles, Natives(h)
    PROVE  AsSeen!Host \/ UNCHANGED AsSeen!vars
  <1> USE DEF Dispatcher!queueVars, Dispatcher!frameVars, AsSeen!queueVars, AsSeen!frameVars,
              RunsPawn, NotInNative, Dispatcher!RunsPawn, AsSeen!RunsPawn
  <1>1. CASE MakeClient(h)
    BY <1>1 DEF MakeClient, Dispatcher!MakeClient, AsSeen!MakeClient, AsSeen!Host
  <1>2. ASSUME NEW k \in Watched, SetCallback(h, k) PROVE AsSeen!Host
    <2>1. k \in Kinds
      BY ModuleAssumption
    <2> QED
      BY <1>2, <2>1 DEF SetCallback, Dispatcher!SetCallback, AsSeen!SetCallback, AsSeen!Host
  <1>3. CASE Connect(h) \/ Disconnect(h)
    BY <1>3
    DEF Connect, Disconnect, Uses, queueVars, frameVars, handleVars, AsSeen!vars, AsSeen!clientVars
  <1>4. CASE DestroyClient(h)
    BY <1>4
    DEF DestroyClient, Dispatcher!DestroyClient, Dispatcher!Invalidate, AsSeen!DestroyClient,
        AsSeen!Invalidate, AsSeen!Host
  <1> QED  BY <1>1, <1>2, <1>3, <1>4 DEF Natives

\* The dispatcher is stopped before the clients go.
LEMMA MapChangeMaps ==
    ASSUME Inv, MapChange
    PROVE  AsSeen!Host \/ UNCHANGED AsSeen!vars
  <1>1. CASE OnPluginsLoaded
    BY <1>1
    DEF OnPluginsLoaded, RunsPawn, NotInNative, Dispatcher!RunsPawn, Dispatcher!OnPluginsLoaded,
        Dispatcher!StartCallbackDispatcher, Dispatcher!frameVars, Dispatcher!clientVars,
        AsSeen!RunsPawn, AsSeen!OnPluginsLoaded, AsSeen!StartCallbackDispatcher,
        AsSeen!frameVars, AsSeen!clientVars, AsSeen!Host
  <1>2. CASE OnPluginsUnloading
    <2>1. /\ RunsPawn /\ unloading' = TRUE
          /\ StopDispatcher /\ UNCHANGED frameVars
      BY <1>2 DEF OnPluginsUnloading, UnloadingStep, UnloadingSteps
    <2>2. ~unloading /\ AsSeen!RunsPawn
      BY <2>1 DEF RunsPawn, NotInNative, Dispatcher!RunsPawn, AsSeen!RunsPawn
    <2>3. {r \in registered : r[1] \notin live} = {}
      BY DEF Inv, HandlesOK
    <2>4. AsSeen!StopCallbackDispatcher /\ UNCHANGED AsSeen!frameVars /\ issued' = issued
      BY <2>1
      DEF StopDispatcher, Dispatcher!StopCallbackDispatcher, AsSeen!StopCallbackDispatcher,
          frameVars, AsSeen!frameVars, handleVars
    <2>5. AsSeen!Invalidate(live)
      BY <2>1, <2>2, <2>3, <2>4 DEF AsSeen!Invalidate
    <2> QED  BY <2>2, <2>4, <2>5 DEF AsSeen!OnPluginsUnloading, AsSeen!Host
  <1>3. CASE FinishUnloading
    BY <1>3
    DEF FinishUnloading, UnloadingStep, UnloadingSteps, ResetClients, queueVars, frameVars,
        AsSeen!vars, AsSeen!queueVars, AsSeen!frameVars, AsSeen!clientVars
  <1> QED  BY <1>1, <1>2, <1>3 DEF MapChange

\* The rest happens inside clients and Paho.
LEMMA ClientMaps ==
    ASSUME NEW h \in Handles,
           \/ Destructor(h) \/ SendThread(h) \/ Network(h)
           \/ \E t \in Threads : CopyHandler(h, t)
    PROVE  UNCHANGED AsSeen!vars
  <1>1. UNCHANGED <<queueVars, frameVars, handleVars, unloading>>
    BY DEF Destructor, SetStopping, PahoDestroy, CancelAction, FreeMembers, SendThread,
           ProcessConnect, DisconnectSucceeds, DisconnectFails, TakesAction, PahoOnly, Network,
           ConnectionUp, ConnectionLost, ServerDisconnect, LinkChanges, ConnectionRefused,
           MessageArrived, CopyHandler
  <1> QED
    BY <1>1 DEF queueVars, frameVars, handleVars, AsSeen!vars, AsSeen!queueVars,
                AsSeen!frameVars, AsSeen!clientVars

LEMMA StepMaps == Inv /\ [Next]_vars => [AsSeen!Next]_(AsSeen!vars)
  <1> SUFFICES ASSUME Inv, [Next]_vars PROVE [AsSeen!Next]_(AsSeen!vars)
    OBVIOUS
  <1>1. CASE UNCHANGED vars
    BY <1>1 DEF vars, queueVars, frameVars, handleVars, AsSeen!vars, AsSeen!queueVars,
                AsSeen!frameVars, AsSeen!clientVars
  <1>2. CASE Frame
    BY <1>2, FrameMaps DEF AsSeen!Next
  <1>3. CASE MapChange
    BY <1>3, MapChangeMaps DEF AsSeen!Next
  <1>4. ASSUME NEW h \in Handles, Natives(h) PROVE AsSeen!Next \/ UNCHANGED AsSeen!vars
    BY <1>4, NativesMaps DEF AsSeen!Next
  <1>5. ASSUME NEW h \in Handles, NEW t \in Threads, RunHandler(h, t)
        PROVE  AsSeen!Next \/ UNCHANGED AsSeen!vars
    BY <1>5, RunHandlerMaps DEF AsSeen!Next
  <1>6. ASSUME NEW h \in Handles,
               \/ Destructor(h) \/ SendThread(h) \/ Network(h)
               \/ \E t \in Threads : CopyHandler(h, t)
        PROVE  UNCHANGED AsSeen!vars
    BY <1>6, ClientMaps
  <1> QED  BY <1>1, <1>2, <1>3, <1>4, <1>5, <1>6 DEF Next, CallStep

\* Everything the composition does is something CallbackDispatcher allows.
THEOREM DispatcherImplemented == Spec => ImplementsDispatcher
  <1> QED  BY InitMaps, StepMaps, InvHolds, PTL DEF Spec, ImplementsDispatcher, AsSeen!Spec

-----------------------------------------------------------------------------
(* What follows: the theorems of CallbackDispatcherProofs hold of the      *)
(* composition, and freed clients are silent.                              *)

Seen == INSTANCE CallbackDispatcherProofs
    WITH CallbackTypes <- Kinds, MaxEvents <- EventBound,
         live <- IF unloading THEN {} ELSE live,
         registered <- IF unloading THEN {} ELSE registered

LEMMA SeenAssumption == Seen!DispatcherAssumption
  BY ModuleAssumption DEF Seen!DispatcherAssumption, EventBound, Seen!CallbackEvent

LEMMA SeenSpec == Spec => Seen!Spec
  <1>1. AsSeen!Init => Seen!Init
    BY DEF AsSeen!Init, Seen!Init
  <1>2. AsSeen!vars = Seen!vars
    BY DEF AsSeen!vars, Seen!vars, AsSeen!queueVars, Seen!queueVars, AsSeen!frameVars,
           Seen!frameVars, AsSeen!clientVars, Seen!clientVars
  <1>3. AsSeen!Next => Seen!Next
    BY DEF AsSeen!Next, Seen!Next, AsSeen!GameThread, Seen!GameThread, AsSeen!Host,
           Seen!Host, AsSeen!BeginFrame, Seen!BeginFrame, AsSeen!TakeEvent, Seen!TakeEvent,
           AsSeen!EndFrame, Seen!EndFrame, AsSeen!CallPawn, Seen!CallPawn,
           AsSeen!SkipEvent, Seen!SkipEvent, AsSeen!PawnReturns, Seen!PawnReturns,
           AsSeen!EnqueueCallback, Seen!EnqueueCallback, AsSeen!MakeClient,
           Seen!MakeClient, AsSeen!DestroyClient, Seen!DestroyClient, AsSeen!SetCallback,
           Seen!SetCallback, AsSeen!OnPluginsLoaded, Seen!OnPluginsLoaded,
           AsSeen!OnPluginsUnloading, Seen!OnPluginsUnloading,
           AsSeen!StartCallbackDispatcher, Seen!StartCallbackDispatcher,
           AsSeen!StopCallbackDispatcher, Seen!StopCallbackDispatcher, AsSeen!Invalidate,
           Seen!Invalidate, AsSeen!RunsPawn, Seen!RunsPawn, AsSeen!Deliverable,
           Seen!Deliverable, AsSeen!LoopOver, Seen!LoopOver, AsSeen!Spend, Seen!Spend,
           AsSeen!NextEvent, Seen!NextEvent, AsSeen!Batch, Seen!Batch, AsSeen!Smaller,
           Seen!Smaller, AsSeen!Admits, Seen!Admits, AsSeen!PushBack, Seen!PushBack,
           AsSeen!CallbackEvent, Seen!CallbackEvent, AsSeen!queueVars, Seen!queueVars,
           AsSeen!frameVars, Seen!frameVars, AsSeen!clientVars, Seen!clientVars
  <1>4. (AsSeen!vars)' = (Seen!vars)'
    BY DEF AsSeen!vars, Seen!vars, AsSeen!queueVars, Seen!queueVars, AsSeen!frameVars,
           Seen!frameVars, AsSeen!clientVars, Seen!clientVars
  <1>5. [AsSeen!Next]_(AsSeen!vars) => [Seen!Next]_(Seen!vars)
    BY <1>2, <1>3, <1>4
  <1> QED
    BY DispatcherImplemented, <1>1, <1>5, PTL DEF ImplementsDispatcher, AsSeen!Spec, Seen!Spec

\* The dispatcher's invariants, with every client's threads around it.
LEMMA SeenInvHolds == Spec => []Seen!Inv
  <1>1. Seen!Spec => []Seen!Inv
    BY Seen!InvHolds, SeenAssumption, PTL
  <1> QED  BY SeenSpec, <1>1, PTL

\* Whatever the threads of all clients do, the queue is the untaken part of the
\* session's log, a frame keeps its budget, and no event crosses sessions.
THEOREM QueueCorrect ==
    Spec => [](/\ Dispatcher!QueueIsUntakenLog
               /\ Dispatcher!FrameBudget
               /\ Dispatcher!EventBelongsToSession)
  <1>1. Seen!Inv => /\ Dispatcher!QueueIsUntakenLog
                    /\ Dispatcher!FrameBudget
                    /\ Dispatcher!EventBelongsToSession
    BY DEF Seen!Inv, Seen!QueueIsUntakenLog, Seen!IsRest, Seen!FrameBudget,
           Seen!EventBelongsToSession, Dispatcher!QueueIsUntakenLog, Dispatcher!IsRest,
           Dispatcher!FrameBudget, Dispatcher!EventBelongsToSession
  <1> QED  BY SeenInvHolds, <1>1, PTL

\* Once a client is destroyed, or the unloading has begun, no callback starts for
\* it, although the clients are destroyed one after the other.
THEOREM DestroyedClientsStaySilent == Spec => Seen!NoCallbackAfterDestroy
  <1>1. Seen!Spec => Seen!NoCallbackAfterDestroy
    BY Seen!DestroyedClientsStaySilent, SeenAssumption, PTL
  <1> QED  BY SeenSpec, <1>1, PTL

\* The log grows only by a handler that runs inside the new event's client.
LEMMA LogGrowsByHandler ==
    ASSUME Inv, Next, log \in Seq(Dispatcher!CallbackEvent), Len(log') > Len(log)
    PROVE  \E h \in Handles, t \in Threads : pc[h][t] = "run" /\ log'[Len(log')].handle = h
  <1>1. Len(log) \in Nat
    OBVIOUS
  <1>2. ASSUME NEW h \in Handles, NEW t \in Threads, RunHandler(h, t)
        PROVE  pc[h][t] = "run" /\ log'[Len(log')].handle = h
    <2> DEFINE e == [type |-> TypeOf(call[h][t]), handle |-> h]
    <2>1. e \in Dispatcher!CallbackEvent
      <3>1. TypeOf(call[h][t]) \in Kinds
        BY <1>2 DEF RunHandler, Inv, ThreadsOK, CallsNamed, Calls, TypeOf, Kinds
      <3> QED  BY <3>1 DEF Dispatcher!CallbackEvent
    <2>2. pc[h][t] = "run" /\ log' = Append(log, e)
      BY <1>1, <1>2 DEF RunHandler, Dispatcher!EnqueueCallback, queueVars
    <2>3. e.handle = h
      OBVIOUS
    <2> HIDE DEF e
    <2>4. Len(log') = Len(log) + 1 /\ log'[Len(log) + 1] = e
      BY <2>1, <2>2
    <2> QED  BY <2>2, <2>3, <2>4
  <1>3. ASSUME UNCHANGED log \/ log' = <<>>
        PROVE  FALSE
    BY <1>1, <1>3
  <1>4. Frame \/ MapChange => UNCHANGED log \/ log' = <<>>
    BY DEF Frame, BeginFrame, TakeEvent, EndFrame, CallPawn, SkipEvent, PawnReturns, FrameStep,
           Dispatcher!BeginFrame, Dispatcher!TakeEvent, Dispatcher!EndFrame,
           Dispatcher!CallPawn, Dispatcher!SkipEvent, Dispatcher!PawnReturns,
           Dispatcher!queueVars, MapChange, OnPluginsLoaded, Dispatcher!OnPluginsLoaded,
           Dispatcher!StartCallbackDispatcher, OnPluginsUnloading, FinishUnloading,
           UnloadingStep, UnloadingSteps, ResetClients, StopDispatcher,
           Dispatcher!StopCallbackDispatcher, queueVars
  <1>5. ASSUME NEW h \in Handles, Natives(h)
        PROVE  UNCHANGED log
    BY <1>5
    DEF Natives, MakeClient, SetCallback, Connect, Disconnect, Uses, DestroyClient,
        Dispatcher!MakeClient, Dispatcher!SetCallback, Dispatcher!DestroyClient,
        Dispatcher!queueVars, queueVars
  <1>6. ASSUME NEW h \in Handles,
               \/ Destructor(h) \/ SendThread(h) \/ Network(h)
               \/ \E t \in Threads : CopyHandler(h, t)
        PROVE  UNCHANGED log
    BY <1>6, ClientMaps DEF AsSeen!vars, AsSeen!queueVars
  <1> QED  BY <1>2, <1>3, <1>4, <1>5, <1>6 DEF Next, CallStep

\* No thread is in a freed client, none enters it and none queues its events.
LEMMA FreedStep ==
    ASSUME Inv, [Next]_vars, log \in Seq(Dispatcher!CallbackEvent),
           NEW h \in Handles, phase[h] = "freed"
    PROVE  /\ pc[h] = [t \in Threads |-> "idle"]
           /\ pc'[h] = pc[h]
           /\ ~(Len(log') > Len(log) /\ log'[Len(log')].handle = h)
  <1>1. \A t \in Threads : pc[h][t] = "idle"
    BY DEF Inv, ThreadsOK, QuietAfterWait, FreedIsIdle, Threads, Workers
  <1>2. pc[h] = [t \in Threads |-> "idle"]
    BY <1>1 DEF Inv, ThreadsOK
  <1>3. ASSUME NEW g \in Handles, g # h,
               \E t \in Threads, k \in Calls :
                   \/ Enter(g, t, k)
                   \/ Leave(g, t)
                   \/ pc' = [pc EXCEPT ![g][t] = "run"]
        PROVE  pc'[h] = pc[h]
    BY <1>3 DEF Enter, Leave, Inv, ThreadsOK
  <1>4. pc'[h] = pc[h]
    <2>1. ASSUME NEW g \in Handles, Natives(g) PROVE pc'[h] = pc[h]
      <3>1. CASE UNCHANGED pc
        BY <3>1
      <3>2. CASE Enter(g, "game", "error") /\ g \in live
        <4>1. g # h /\ "game" \in Threads /\ "error" \in Calls
          BY <3>2 DEF Inv, HandlesOK, Threads, Calls, Answers
        <4> QED  BY <1>3, <3>2, <4>1
      <3> QED
        BY <2>1, <3>1, <3>2
        DEF Natives, MakeClient, SetCallback, Connect, Disconnect, Uses, DestroyClient,
            clientVars, threadVars
    <2>2. ASSUME NEW g \in Handles, Destructor(g) PROVE pc'[h] = pc[h]
      <3>1. CASE UNCHANGED pc
        BY <3>1
      <3>2. CASE Enter(g, "game", "failure") /\ phase[g] = "cancel"
        <4>1. g # h /\ "game" \in Threads /\ "failure" \in Calls
          BY <3>2 DEF Threads, Calls, Answers
        <4> QED  BY <1>3, <3>2, <4>1
      <3> QED
        BY <2>2, <3>1, <3>2
        DEF Destructor, SetStopping, PahoDestroy, CancelAction, FreeMembers, threadVars
    <2>3. ASSUME NEW g \in Handles, SendThread(g) \/ Network(g) PROVE pc'[h] = pc[h]
      <3>1. CASE UNCHANGED pc
        BY <3>1
      <3>2. CASE PahoAlive(g) /\ \E t \in Threads, k \in Calls : Enter(g, t, k)
        <4>1. g # h
          BY <3>2 DEF PahoAlive
        <4> QED  BY <1>3, <3>2, <4>1
      <3>3. /\ "send" \in Threads /\ "recv" \in Threads
            /\ {"success", "failure", "connected", "connectionLost", "disconnected",
                "message"} \subseteq Calls
        BY DEF Threads, Calls, Kinds, Answers
      <3> QED
        BY <2>3, <3>1, <3>2, <3>3
        DEF SendThread, ProcessConnect, DisconnectSucceeds, DisconnectFails, TakesAction,
            PahoOnly, Network, ConnectionUp, ConnectionLost, ServerDisconnect, LinkChanges,
            ConnectionRefused, MessageArrived, threadVars
    <2>4. ASSUME NEW g \in Handles, NEW t \in Threads, CallStep(g, t) PROVE pc'[h] = pc[h]
      <3>1. g # h
        BY <1>1, <2>4 DEF CallStep, CopyHandler, RunHandler
      <3>2. "error" \in Calls
        BY DEF Calls, Answers
      <3> QED  BY <1>3, <2>4, <3>1, <3>2 DEF CallStep, CopyHandler, RunHandler
    <2>5. CASE Frame \/ MapChange \/ UNCHANGED vars
      BY <2>5
      DEF Frame, BeginFrame, TakeEvent, EndFrame, CallPawn, SkipEvent, PawnReturns, FrameStep,
          MapChange, OnPluginsLoaded, OnPluginsUnloading, FinishUnloading, UnloadingStep, vars,
          clientVars, threadVars
    <2> QED  BY <2>1, <2>2, <2>3, <2>4, <2>5 DEF Next
  <1>5. ASSUME Len(log') > Len(log) PROVE log'[Len(log')].handle # h
    <2>1. Next
      <3>1. Len(log) \in Nat
        OBVIOUS
      <3> QED  BY <1>5, <3>1 DEF vars, queueVars
    <2> QED  BY <1>1, <1>5, <2>1, LogGrowsByHandler
  <1> QED  BY <1>2, <1>4, <1>5

\* When mqtt_destroy, or the unloading, is done with a client, it is silent.
THEOREM FreedClientsAreSilent == Spec => FreedIsSilent
  <1>1. ASSUME Inv, Seen!Inv, [Next]_vars
        PROVE  [\A h \in Handles : phase[h] = "freed" =>
                    /\ pc[h] = [t \in Threads |-> "idle"] /\ pc'[h] = pc[h]
                    /\ ~(Len(log') > Len(log) /\ log'[Len(log')].handle = h)]_vars
    <2>1. log \in Seq(Dispatcher!CallbackEvent)
      BY <1>1 DEF Seen!Inv, Seen!TypeOK, Seen!CallbackEvent, Dispatcher!CallbackEvent
    <2> QED  BY <1>1, <2>1, FreedStep
  <1> QED  BY InvHolds, SeenInvHolds, <1>1, PTL DEF Spec, FreedIsSilent

-----------------------------------------------------------------------------
(* Each step is one client's, or the game thread's between the clients.    *)

ClientStep(h) ==
    \/ Natives(h)
    \/ Destructor(h)
    \/ SendThread(h)
    \/ Network(h)
    \/ \E t \in Threads : CallStep(h, t)

Untouched(h) ==
    UNCHANGED <<link[h], actions[h], pc[h], call[h], phase[h], causes[h], told[h], missed[h]>>

\* What one client does leaves the others alone.
LEMMA OthersUntouched ==
    ASSUME Inv, NEW g \in Handles, ClientStep(g), NEW h \in Handles, h # g
    PROVE  Untouched(h)
  <1> USE DEF Untouched, pahoVars, threadVars, causeVars
  <1>1. ASSUME NEW t \in Threads, NEW k \in Calls, Enter(g, t, k)
        PROVE  pc'[h] = pc[h] /\ call'[h] = call[h]
    BY <1>1 DEF Enter, Inv, ThreadsOK
  <1>2. ASSUME NEW t \in Threads, Leave(g, t)
        PROVE  pc'[h] = pc[h] /\ call'[h] = call[h]
    BY <1>2 DEF Leave, Inv, ThreadsOK
  <1>3. /\ "game" \in Threads /\ "recv" \in Threads /\ "send" \in Threads
        /\ {"connected", "message", "connectionLost", "disconnected",
            "success", "failure", "error"} \subseteq Calls
    BY DEF Threads, Calls, Kinds, Answers
  <1> USE DEF Inv, ThreadsOK, PahoOK, CountsOK
  <1>4. CASE Natives(g)
    <2>1. CASE MakeClient(g)
      BY <2>1 DEF MakeClient
    <2>2. CASE \E k \in Watched : SetCallback(g, k)
      BY <2>2 DEF SetCallback, clientVars
    <2>3. CASE Connect(g)
      BY <2>3 DEF Connect, Uses
    <2>4. CASE Disconnect(g)
      <3>1. UNCHANGED <<link[h], phase[h], told[h], missed[h]>> /\ causes'[h] = causes[h]
        BY <2>4 DEF Disconnect, Uses
      <3>2. actions'[h] = actions[h]
        BY <2>4 DEF Disconnect
      <3>3. pc'[h] = pc[h] /\ call'[h] = call[h]
        BY <1>1, <1>3, <2>4 DEF Disconnect
      <3> QED  BY <3>1, <3>2, <3>3
    <2>5. CASE DestroyClient(g)
      BY <2>5 DEF DestroyClient
    <2> QED  BY <1>4, <2>1, <2>2, <2>3, <2>4, <2>5 DEF Natives
  <1>5. CASE Destructor(g)
    <2>1. CASE SetStopping(g) \/ FreeMembers(g) \/ PahoDestroy(g)
      BY <2>1 DEF SetStopping, FreeMembers, PahoDestroy
    <2>2. CASE CancelAction(g)
      <3>1. pc'[h] = pc[h] /\ call'[h] = call[h]
        BY <1>1, <1>3, <2>2 DEF CancelAction
      <3> QED  BY <2>2, <3>1 DEF CancelAction
    <2> QED  BY <1>5, <2>1, <2>2 DEF Destructor
  <1>6. CASE SendThread(g)
    <2>1. pc'[h] = pc[h] /\ call'[h] = call[h]
      BY <1>1, <1>3, <1>6
      DEF SendThread, ProcessConnect, DisconnectSucceeds, DisconnectFails
    <2>2. UNCHANGED <<link[h], actions[h], phase[h], causes[h], told[h], missed[h]>>
      BY <1>6 DEF SendThread, ProcessConnect, DisconnectSucceeds, DisconnectFails, TakesAction,
                  PahoOnly
    <2> QED  BY <2>1, <2>2
  <1>7. CASE Network(g)
    <2>1. pc'[h] = pc[h] /\ call'[h] = call[h]
      BY <1>1, <1>3, <1>7
      DEF Network, ConnectionUp, ConnectionLost, ServerDisconnect, LinkChanges,
          ConnectionRefused, MessageArrived
    <2>2. UNCHANGED <<link[h], actions[h], phase[h], causes[h], told[h], missed[h]>>
      BY <1>7 DEF Network, ConnectionUp, ConnectionLost, ServerDisconnect, LinkChanges,
                  ConnectionRefused, MessageArrived, PahoOnly
    <2> QED  BY <2>1, <2>2
  <1>8. ASSUME NEW t \in Threads, CallStep(g, t) PROVE Untouched(h)
    <2>1. pc'[h] = pc[h] /\ call'[h] = call[h]
      BY <1>2, <1>8 DEF CallStep, CopyHandler, RunHandler
    <2>2. UNCHANGED <<link[h], actions[h], phase[h], causes[h], told[h], missed[h]>>
      BY <1>8 DEF CallStep, CopyHandler, RunHandler
    <2> QED  BY <2>1, <2>2
  <1> QED  BY <1>4, <1>5, <1>6, <1>7, <1>8 DEF ClientStep

\* Frames and map changes touch only the counts of told events and, of live
\* clients, the phase.
LEMMA GameThreadTouchesLittle ==
    ASSUME Inv, Frame \/ MapChange, NEW h \in Handles
    PROVE  /\ UNCHANGED <<link[h], actions[h], pc[h], call[h], causes[h], missed[h]>>
           /\ h \notin live => phase'[h] = phase[h]
           /\ ~TakeEvent => told'[h] = told[h]
           /\ ~FinishUnloading => phase'[h] = phase[h] /\ live' = live
           /\ issued' = issued
  <1> USE DEF pahoVars, threadVars, causeVars, clientVars, handleVars
  <1>1. CASE Frame
    BY <1>1
    DEF Frame, BeginFrame, TakeEvent, EndFrame, CallPawn, SkipEvent, PawnReturns, FrameStep,
        Dispatcher!BeginFrame, Dispatcher!TakeEvent, Dispatcher!EndFrame, Dispatcher!CallPawn,
        Dispatcher!SkipEvent, Dispatcher!PawnReturns, Dispatcher!clientVars
  <1>2. CASE OnPluginsLoaded
    BY <1>2 DEF OnPluginsLoaded, Dispatcher!OnPluginsLoaded, Dispatcher!clientVars
  <1>3. CASE OnPluginsUnloading
    BY <1>3 DEF OnPluginsUnloading, UnloadingStep, UnloadingSteps, StopDispatcher
  <1>4. CASE FinishUnloading
    BY <1>4 DEF FinishUnloading, UnloadingStep, UnloadingSteps, ResetClients
  <1> QED  BY <1>1, <1>2, <1>3, <1>4 DEF MapChange

\* A handle that was not issued yet has no history.
Fresh ==
    \A h \in Handles : h \notin issued =>
        /\ causes[h] = 0 /\ told[h] = 0 /\ missed[h] = 0
        /\ actions[h] = <<>>
        /\ \A t \in Threads : pc[h][t] = "idle"
        /\ phase[h] = "none"

QueueIssued == \A i \in DOMAIN pendingCallbacks : pendingCallbacks[i].handle \in issued

QueueTyped ==
    /\ pendingCallbacks \in Seq(Dispatcher!CallbackEvent)
    /\ log \in Seq(Dispatcher!CallbackEvent)

\* A handle, once issued, stays issued; what a client does, it does after that.
LEMMA IssuedGrows ==
    ASSUME Inv, [Next]_vars
    PROVE  issued \subseteq issued'
  <1> USE DEF handleVars
  <1>1. CASE UNCHANGED vars
    BY <1>1 DEF vars
  <1>2. CASE Frame
    BY <1>2
    DEF Frame, BeginFrame, TakeEvent, EndFrame, CallPawn, SkipEvent, PawnReturns, FrameStep,
        Dispatcher!BeginFrame, Dispatcher!TakeEvent, Dispatcher!EndFrame, Dispatcher!CallPawn,
        Dispatcher!SkipEvent, Dispatcher!PawnReturns, Dispatcher!clientVars
  <1>3. CASE MapChange
    BY <1>3
    DEF MapChange, OnPluginsLoaded, Dispatcher!OnPluginsLoaded, Dispatcher!clientVars,
        OnPluginsUnloading, FinishUnloading, UnloadingStep, UnloadingSteps, StopDispatcher,
        ResetClients
  <1>4. ASSUME NEW h \in Handles, Natives(h) PROVE issued \subseteq issued'
    BY <1>4
    DEF Natives, MakeClient, SetCallback, Connect, Disconnect, Uses, DestroyClient,
        Dispatcher!MakeClient, Dispatcher!SetCallback, Dispatcher!DestroyClient,
        Dispatcher!Invalidate
  <1>5. ASSUME NEW h \in Handles, NEW t \in Threads, RunHandler(h, t)
        PROVE  issued \subseteq issued'
    BY <1>5 DEF RunHandler, Dispatcher!EnqueueCallback, Dispatcher!clientVars
  <1>6. ASSUME NEW h \in Handles,
               \/ Destructor(h) \/ SendThread(h) \/ Network(h)
               \/ \E t \in Threads : CopyHandler(h, t)
        PROVE  issued \subseteq issued'
    BY <1>6
    DEF Destructor, SetStopping, PahoDestroy, CancelAction, FreeMembers, SendThread,
        ProcessConnect, DisconnectSucceeds, DisconnectFails, TakesAction, PahoOnly, Network,
        ConnectionUp, ConnectionLost, ServerDisconnect, LinkChanges, ConnectionRefused,
        MessageArrived, CopyHandler
  <1> QED  BY <1>1, <1>2, <1>3, <1>4, <1>5, <1>6 DEF Next, CallStep

LEMMA ActorIssued ==
    ASSUME Inv, Fresh, NEW h \in Handles, ClientStep(h)
    PROVE  h \in issued'
  <1>1. issued \subseteq issued'
    BY IssuedGrows DEF ClientStep, Next
  <1>2. CASE h \in issued
    BY <1>1, <1>2
  <1>3. CASE h \notin issued
    <2>1. h \notin live /\ phase[h] = "none" /\ \A t \in Threads : pc[h][t] = "idle"
      BY <1>3 DEF Fresh, Inv, HandlesOK
    <2>2. CASE Natives(h)
      BY <2>1, <2>2
      DEF Natives, MakeClient, Dispatcher!MakeClient, SetCallback, Dispatcher!SetCallback,
          Connect, Disconnect, Uses, DestroyClient, Dispatcher!DestroyClient
    <2>3. ~Destructor(h)
      BY <2>1 DEF Destructor, SetStopping, PahoDestroy, CancelAction, FreeMembers
    <2>4. ~SendThread(h) /\ ~Network(h)
      BY <2>1
      DEF SendThread, ProcessConnect, DisconnectSucceeds, DisconnectFails, TakesAction,
          PahoOnly, PahoAlive, Network, ConnectionUp, ConnectionLost, ServerDisconnect,
          LinkChanges, ConnectionRefused, MessageArrived
    <2>5. ASSUME NEW t \in Threads PROVE ~CallStep(h, t)
      BY <2>1 DEF CallStep, CopyHandler, RunHandler
    <2> QED  BY <2>2, <2>3, <2>4, <2>5 DEF ClientStep
  <1> QED  BY <1>2, <1>3

LEMMA FreshStep ==
    ASSUME Inv, Fresh, QueueIssued, QueueTyped, [Next]_vars
    PROVE  Fresh'
  <1> SUFFICES ASSUME NEW h \in Handles, h \notin issued'
               PROVE  /\ causes'[h] = 0 /\ told'[h] = 0 /\ missed'[h] = 0
                      /\ actions'[h] = <<>>
                      /\ \A t \in Threads : pc'[h][t] = "idle"
                      /\ phase'[h] = "none"
    BY DEF Fresh
  <1>1. h \notin issued /\ h \notin live
    BY IssuedGrows DEF Inv, HandlesOK
  <1>2. CASE UNCHANGED vars
    BY <1>1, <1>2
    DEF Fresh, vars, clientVars, pahoVars, threadVars, causeVars
  <1>3. ASSUME NEW g \in Handles, ClientStep(g) PROVE Untouched(h)
    BY <1>3, ActorIssued, OthersUntouched
  <1>4. CASE Frame \/ MapChange
    <2>1. CASE TakeEvent
      <3>1. event' = pendingCallbacks[1] /\ 1 \in DOMAIN pendingCallbacks
        BY <2>1 DEF TakeEvent, Dispatcher!TakeEvent, Dispatcher!NextEvent, QueueTyped
      <3>2. event' # [type |-> "disconnected", handle |-> h]
        BY <1>1, <3>1 DEF QueueIssued
      <3>3. told'[h] = told[h]
        BY <2>1, <3>2 DEF TakeEvent
      <3> QED  BY <1>1, <1>4, <3>3, GameThreadTouchesLittle DEF Fresh
    <2>2. CASE ~TakeEvent
      BY <1>1, <1>4, <2>2, GameThreadTouchesLittle DEF Fresh
    <2> QED  BY <2>1, <2>2
  <1> QED  BY <1>1, <1>2, <1>3, <1>4 DEF Fresh, Untouched, Next, ClientStep

\* The queue of callbacks grows at the end by a handler of an issued client,
\* shrinks at the head, and is emptied.
LEMMA QueueIssuedStep ==
    ASSUME Inv, QueueIssued, QueueTyped, [Next]_vars
    PROVE  QueueIssued'
  <1> USE DEF queueVars, Dispatcher!queueVars, QueueTyped
  <1>1. issued \subseteq issued'
    BY IssuedGrows
  <1>2. CASE UNCHANGED pendingCallbacks
    BY <1>1, <1>2 DEF QueueIssued
  <1>3. CASE pendingCallbacks' = <<>>
    BY <1>3 DEF QueueIssued
  <1>4. CASE TakeEvent
    <2>1. pendingCallbacks # <<>> /\ pendingCallbacks' = Tail(pendingCallbacks)
      BY <1>4 DEF TakeEvent, Dispatcher!TakeEvent
    <2>2. \A i \in DOMAIN pendingCallbacks' :
              i + 1 \in DOMAIN pendingCallbacks /\ pendingCallbacks'[i] = pendingCallbacks[i + 1]
      BY <2>1
    <2> QED  BY <1>1, <2>2 DEF QueueIssued
  <1>5. ASSUME NEW h \in Handles, NEW t \in Threads, RunHandler(h, t) PROVE QueueIssued'
    <2> DEFINE e == [type |-> TypeOf(call[h][t]), handle |-> h]
    <2>1. CASE Dispatcher!EnqueueCallback(e)
      <3>1. h \in issued /\ pendingCallbacks' = Append(pendingCallbacks, e) /\ e.handle = h
        BY <2>1 DEF Dispatcher!EnqueueCallback, Dispatcher!PushBack
      <3> HIDE DEF e
      <3>2. \A i \in DOMAIN pendingCallbacks' :
                \/ i \in DOMAIN pendingCallbacks /\ pendingCallbacks'[i] = pendingCallbacks[i]
                \/ pendingCallbacks'[i] = e
        BY <3>1
      <3> QED  BY <1>1, <3>1, <3>2 DEF QueueIssued
    <2>2. CASE UNCHANGED pendingCallbacks
      BY <1>2, <2>2
    <2> QED  BY <1>5, <2>1, <2>2 DEF RunHandler
  <1>6. CASE Frame \/ MapChange
    <2>1. TakeEvent \/ UNCHANGED pendingCallbacks \/ pendingCallbacks' = <<>>
      BY <1>6
      DEF Frame, BeginFrame, TakeEvent, EndFrame, CallPawn, SkipEvent, PawnReturns, FrameStep,
          Dispatcher!BeginFrame, Dispatcher!EndFrame, Dispatcher!CallPawn,
          Dispatcher!SkipEvent, Dispatcher!PawnReturns, MapChange, OnPluginsLoaded,
          Dispatcher!OnPluginsLoaded, Dispatcher!StartCallbackDispatcher, OnPluginsUnloading,
          FinishUnloading, UnloadingStep, UnloadingSteps, ResetClients, StopDispatcher,
          Dispatcher!StopCallbackDispatcher
    <2> QED  BY <1>2, <1>3, <1>4, <2>1
  <1>7. ASSUME NEW h \in Handles, Natives(h) PROVE UNCHANGED pendingCallbacks
    BY <1>7
    DEF Natives, MakeClient, SetCallback, Connect, Disconnect, Uses, DestroyClient,
        Dispatcher!MakeClient, Dispatcher!SetCallback, Dispatcher!DestroyClient
  <1>8. ASSUME NEW h \in Handles,
               \/ Destructor(h) \/ SendThread(h) \/ Network(h)
               \/ \E t \in Threads : CopyHandler(h, t)
        PROVE  UNCHANGED pendingCallbacks
    BY <1>8, ClientMaps DEF AsSeen!vars, AsSeen!queueVars
  <1> QED  BY <1>2, <1>5, <1>6, <1>7, <1>8 DEF Next, CallStep, vars

-----------------------------------------------------------------------------
(* How often an element occurs in a queue, as in MqttClientProofs.         *)

Positions(q, e) == {i \in DOMAIN q : q[i] = e}

LEMMA PositionsFinite ==
    ASSUME NEW S, NEW q \in Seq(S), NEW e
    PROVE  IsFiniteSet(Positions(q, e)) /\ Cardinality(Positions(q, e)) \in Nat
  <1>1. DOMAIN q = 1..Len(q) /\ Len(q) \in Int
    OBVIOUS
  <1>2. IsFiniteSet(1..Len(q))
    BY <1>1, FS_Interval
  <1>3. Positions(q, e) \in SUBSET (1..Len(q))
    BY <1>1 DEF Positions
  <1> QED  BY <1>2, <1>3, FS_Subset, FS_CardinalityType

\* An element appended to a queue is there once more.
LEMMA CountAppend ==
    ASSUME NEW S, NEW q \in Seq(S), NEW x \in S, NEW e
    PROVE  Cardinality(Positions(Append(q, x), e)) =
               Cardinality(Positions(q, e)) + (IF x = e THEN 1 ELSE 0)
  <1>1. /\ Len(q) \in Nat
        /\ DOMAIN q = 1..Len(q)
        /\ DOMAIN Append(q, x) = 1..(Len(q) + 1)
        /\ \A i \in 1..Len(q) : Append(q, x)[i] = q[i]
        /\ Append(q, x)[Len(q) + 1] = x
    OBVIOUS
  <1>2. Len(q) + 1 \notin Positions(q, e)
    BY <1>1 DEF Positions
  <1>3. CASE x = e
    <2>1. Positions(Append(q, x), e) = Positions(q, e) \cup {Len(q) + 1}
      BY <1>1, <1>3 DEF Positions
    <2> QED  BY <1>2, <1>3, <2>1, PositionsFinite, FS_AddElement
  <1>4. CASE x # e
    <2>1. Positions(Append(q, x), e) = Positions(q, e)
      BY <1>1, <1>4 DEF Positions
    <2> QED  BY <1>4, <2>1, PositionsFinite
  <1> QED  BY <1>3, <1>4

\* What is taken from a queue was there once more.
LEMMA CountTail ==
    ASSUME NEW S, NEW q \in Seq(S), q # <<>>, NEW e
    PROVE  Cardinality(Positions(q, e)) =
               Cardinality(Positions(Tail(q), e)) + (IF Head(q) = e THEN 1 ELSE 0)
  <1>1. /\ Len(q) \in Nat \ {0}
        /\ DOMAIN q = 1..Len(q)
        /\ Head(q) = q[1]
        /\ Tail(q) \in Seq(S)
        /\ DOMAIN Tail(q) = 1..(Len(q) - 1)
        /\ \A i \in 1..(Len(q) - 1) : Tail(q)[i] = q[i + 1]
    OBVIOUS
  <1> DEFINE T == Positions(Tail(q), e)
             P == Positions(q, e) \ {1}
             shift == [i \in T |-> i + 1]
  <1>2. shift \in [T -> P]
    BY <1>1 DEF Positions
  <1>3. \A i, j \in T : shift[i] = shift[j] => i = j
    BY <1>1 DEF Positions
  <1>4. \A j \in P : \E i \in T : shift[i] = j
    <2> SUFFICES ASSUME NEW j \in P PROVE \E i \in T : shift[i] = j
      OBVIOUS
    <2>1. j - 1 \in T /\ shift[j - 1] = j
      BY <1>1 DEF Positions
    <2> QED  BY <2>1
  <1>5. ExistsBijection(T, P)
    <2> HIDE DEF T, P, shift
    <2>1. shift \in Injection(T, P)
      BY <1>2, <1>3 DEF Injection, IsInjective
    <2>2. shift \in Surjection(T, P)
      BY <1>2, <1>4 DEF Surjection
    <2> QED  BY <2>1, <2>2 DEF ExistsBijection, Bijection
  <1>6. Cardinality(P) = Cardinality(T)
    BY <1>1, <1>5, PositionsFinite, FS_Bijection
  <1>7. Cardinality(P) = IF 1 \in Positions(q, e) THEN Cardinality(Positions(q, e)) - 1
                                                 ELSE Cardinality(Positions(q, e))
    BY PositionsFinite, FS_RemoveElement
  <1>8. 1 \in Positions(q, e) <=> Head(q) = e
    BY <1>1 DEF Positions
  <1>9. Cardinality(Positions(q, e)) \in Nat
    BY PositionsFinite
  <1> HIDE DEF T, P, shift
  <1>10. Cardinality(T) = Cardinality(Positions(Tail(q), e))
    BY DEF T
  <1>11. CASE Head(q) = e
    <2>1. Cardinality(P) = Cardinality(Positions(q, e)) - 1
      BY <1>7, <1>8, <1>11
    <2> QED  BY <1>6, <1>9, <1>10, <1>11, <2>1
  <1>12. CASE Head(q) # e
    <2>1. Cardinality(P) = Cardinality(Positions(q, e))
      BY <1>7, <1>8, <1>12
    <2> QED  BY <1>6, <1>9, <1>10, <1>12, <2>1
  <1> QED  BY <1>11, <1>12

-----------------------------------------------------------------------------
(* Every cause of a disconnected callback is in one place: in Paho's       *)
(* queue, in the hands of a thread, in the queue of callbacks, told, or    *)
(* missed because the plugins were not loaded.                             *)

Notice(h) == [type |-> "disconnected", handle |-> h]

Holders(h) == {t \in Threads : pc[h][t] # "idle" /\ TypeOf(call[h][t]) = "disconnected"}

Requested(h) == Cardinality(Positions(actions[h], "disconnect"))
Held(h)      == Cardinality(Holders(h))
Queued(h)    == Cardinality(Positions(pendingCallbacks, Notice(h)))

Balanced(h) == told[h] + missed[h] + (Requested(h) + Held(h) + Queued(h)) = causes[h]

LEMMA BalancedIs == EachCauseToldOnce <=> \A h \in live : ~unloading => Balanced(h)
  BY DEF EachCauseToldOnce, Balanced, OnTheirWay, Requested, Held, Holders, Queued, Positions,
         IsNotice, Notice

\* The threads that are inside h for a call of one of the kinds K.
Inside(h, K) == {t \in Threads : pc[h][t] # "idle" /\ call[h][t] \in K}

LEMMA InsideType ==
    ASSUME NEW h \in Handles, NEW K
    PROVE  /\ IsFiniteSet(Inside(h, K)) /\ Cardinality(Inside(h, K)) \in Nat
           /\ IsFiniteSet(Inside(h, K)') /\ Cardinality(Inside(h, K)') \in Nat
  <1>1. IsFiniteSet({}) /\ Threads = (({} \cup {"game"}) \cup {"recv"}) \cup {"send"}
    BY FS_EmptySet DEF Threads
  <1>2. IsFiniteSet(Threads)
    BY <1>1, FS_AddElement
  <1>3. Inside(h, K) \in SUBSET Threads /\ Inside(h, K)' \in SUBSET Threads
    BY DEF Inside
  <1> QED  BY <1>2, <1>3, FS_Subset, FS_CardinalityType

\* A thread that enters a client is inside it for the call that it makes.
LEMMA EnterInside ==
    ASSUME Inv, NEW h \in Handles, NEW t \in Threads, NEW k \in Calls, Enter(h, t, k),
           pc[h][t] = "idle", NEW K
    PROVE  Cardinality(Inside(h, K)') = Cardinality(Inside(h, K)) + (IF k \in K THEN 1 ELSE 0)
  <1>1. /\ \A u \in Threads \ {t} : pc'[h][u] = pc[h][u] /\ call'[h][u] = call[h][u]
        /\ pc'[h][t] = "copy" /\ call'[h][t] = k
    BY DEF Enter, Inv, ThreadsOK
  <1>2. t \notin Inside(h, K)
    BY DEF Inside
  <1>3. CASE k \in K
    <2>1. Inside(h, K)' = Inside(h, K) \cup {t}
      BY <1>1, <1>3 DEF Inside
    <2> QED  BY <1>2, <1>3, <2>1, InsideType, FS_AddElement
  <1>4. CASE k \notin K
    <2>1. Inside(h, K)' = Inside(h, K)
      BY <1>1, <1>2, <1>4 DEF Inside
    <2> QED  BY <1>4, <2>1, InsideType
  <1> QED  BY <1>3, <1>4

LEMMA LeaveInside ==
    ASSUME Inv, NEW h \in Handles, NEW t \in Threads, Leave(h, t), pc[h][t] # "idle", NEW K
    PROVE  Cardinality(Inside(h, K)) =
               Cardinality(Inside(h, K)') + (IF call[h][t] \in K THEN 1 ELSE 0)
  <1>1. /\ \A u \in Threads \ {t} : pc'[h][u] = pc[h][u] /\ call'[h][u] = call[h][u]
        /\ pc'[h][t] = "idle"
    BY DEF Leave, Inv, ThreadsOK
  <1>2. t \notin Inside(h, K)'
    BY <1>1 DEF Inside
  <1>3. CASE call[h][t] \in K
    <2>1. Inside(h, K) = Inside(h, K)' \cup {t}
      BY <1>1, <1>3 DEF Inside
    <2> QED  BY <1>2, <1>3, <2>1, InsideType, FS_AddElement
  <1>4. CASE call[h][t] \notin K
    <2>1. Inside(h, K)' = Inside(h, K)
      BY <1>1, <1>2, <1>4 DEF Inside
    <2> QED  BY <1>4, <2>1, InsideType
  <1> QED  BY <1>3, <1>4

\* The calls whose handler queues a disconnected event.
NoticeCalls == Answers \cup {"disconnected"}

LEMMA HeldIs ==
    /\ \A k : TypeOf(k) = "disconnected" <=> k \in NoticeCalls
    /\ \A h : Held(h) = Cardinality(Inside(h, NoticeCalls))
    /\ \A h : Held(h)' = Cardinality(Inside(h, NoticeCalls)')
  <1>1. \A k : TypeOf(k) = "disconnected" <=> k \in NoticeCalls
    BY DEF TypeOf, NoticeCalls, Answers
  <1>2. \A h : Holders(h) = Inside(h, NoticeCalls) /\ Holders(h)' = Inside(h, NoticeCalls)'
    BY <1>1 DEF Holders, Inside
  <1> QED  BY <1>1, <1>2 DEF Held

LEMMA HeldType ==
    ASSUME NEW h \in Handles
    PROVE  Held(h) \in Nat /\ Held(h)' \in Nat
  BY InsideType, HeldIs

\* A thread that enters a client with a disconnected event holds one more.
LEMMA EnterHolds ==
    ASSUME Inv, NEW h \in Handles, NEW t \in Threads, NEW k \in Calls, Enter(h, t, k),
           pc[h][t] = "idle"
    PROVE  Held(h)' = Held(h) + (IF TypeOf(k) = "disconnected" THEN 1 ELSE 0)
  <1>1. Cardinality(Inside(h, NoticeCalls)') =
            Cardinality(Inside(h, NoticeCalls)) + (IF k \in NoticeCalls THEN 1 ELSE 0)
    BY EnterInside
  <1> QED  BY <1>1, HeldIs

LEMMA LeaveHolds ==
    ASSUME Inv, NEW h \in Handles, NEW t \in Threads, Leave(h, t), pc[h][t] # "idle"
    PROVE  Held(h) = Held(h)' + (IF TypeOf(call[h][t]) = "disconnected" THEN 1 ELSE 0)
  <1>1. Cardinality(Inside(h, NoticeCalls)) =
            Cardinality(Inside(h, NoticeCalls)')
            + (IF call[h][t] \in NoticeCalls THEN 1 ELSE 0)
    BY LeaveInside
  <1> QED  BY <1>1, HeldIs

LEMMA RequestedAppend ==
    ASSUME Inv, NEW h \in Handles, NEW a \in {"connect", "disconnect"},
           actions' = [actions EXCEPT ![h] = Append(@, a)]
    PROVE  /\ Requested(h)' = Requested(h) + (IF a = "disconnect" THEN 1 ELSE 0)
           /\ Requested(h) \in Nat
  <1>1. actions[h] \in Seq({"connect", "disconnect"}) /\ actions'[h] = Append(actions[h], a)
    BY DEF Inv, PahoOK
  <1>2. Cardinality(Positions(Append(actions[h], a), "disconnect")) =
            Cardinality(Positions(actions[h], "disconnect")) + (IF a = "disconnect" THEN 1 ELSE 0)
    BY <1>1, CountAppend
  <1>3. Cardinality(Positions(actions[h], "disconnect")) \in Nat
    BY <1>1, PositionsFinite
  <1> QED  BY <1>1, <1>2, <1>3 DEF Requested

LEMMA RequestedTail ==
    ASSUME Inv, NEW h \in Handles, actions[h] # <<>>,
           actions' = [actions EXCEPT ![h] = Tail(@)]
    PROVE  /\ Requested(h) = Requested(h)' + (IF Head(actions[h]) = "disconnect" THEN 1 ELSE 0)
           /\ Requested(h)' \in Nat
  <1>1. /\ actions[h] \in Seq({"connect", "disconnect"})
        /\ Tail(actions[h]) \in Seq({"connect", "disconnect"})
        /\ actions'[h] = Tail(actions[h])
    BY DEF Inv, PahoOK
  <1>2. Cardinality(Positions(actions[h], "disconnect")) =
            Cardinality(Positions(Tail(actions[h]), "disconnect"))
            + (IF Head(actions[h]) = "disconnect" THEN 1 ELSE 0)
    BY <1>1, CountTail
  <1>3. Cardinality(Positions(Tail(actions[h]), "disconnect")) \in Nat
    BY <1>1, PositionsFinite
  <1> QED  BY <1>1, <1>2, <1>3 DEF Requested

\* Where the notices of a client are before a step: the counts are numbers.
LEMMA CountTypes ==
    ASSUME Inv, QueueTyped, NEW h \in Handles
    PROVE  /\ Requested(h) \in Nat /\ Held(h) \in Nat /\ Queued(h) \in Nat
           /\ told[h] \in Nat /\ missed[h] \in Nat /\ causes[h] \in Nat
  <1>1. Requested(h) \in Nat
    <2>1. actions[h] \in Seq({"connect", "disconnect"})
      BY DEF Inv, PahoOK
    <2> QED  BY <2>1, PositionsFinite DEF Requested
  <1>2. Queued(h) \in Nat
    BY PositionsFinite DEF Queued, QueueTyped
  <1> QED  BY <1>1, <1>2, HeldType DEF Inv, CountsOK

LEMMA SameBalance ==
    ASSUME NEW h \in Handles, Balanced(h),
           UNCHANGED <<told[h], missed[h], causes[h], Requested(h), Held(h), Queued(h)>>
    PROVE  Balanced(h)'
  BY DEF Balanced

\* A frame tells of the events it takes; the loading of plugins moves none.
LEMMA FrameBalance ==
    ASSUME Inv, QueueTyped, Frame \/ OnPluginsLoaded, NEW h \in Handles, Balanced(h)
    PROVE  Balanced(h)'
  <1>1. /\ UNCHANGED <<actions[h], pc[h], call[h], causes[h], missed[h]>>
        /\ ~TakeEvent => told'[h] = told[h]
    BY GameThreadTouchesLittle DEF MapChange
  <1>2. UNCHANGED <<Requested(h), Held(h)>>
    <2>1. Holders(h)' = Holders(h)
      BY <1>1 DEF Holders
    <2> QED  BY <1>1, <2>1 DEF Requested, Held
  <1>3. CASE TakeEvent
    <2> DEFINE q == pendingCallbacks
    <2>1. /\ q # <<>> /\ q' = Tail(q) /\ event' = Head(q)
          /\ told'[h] = IF event' = Notice(h) THEN told[h] + 1 ELSE told[h]
      BY <1>3 DEF TakeEvent, Dispatcher!TakeEvent, Dispatcher!NextEvent, Notice
    <2>2. q \in Seq(Dispatcher!CallbackEvent)
      BY DEF QueueTyped
    <2>3. /\ Cardinality(Positions(q, Notice(h))) =
                 Cardinality(Positions(Tail(q), Notice(h)))
                 + (IF Head(q) = Notice(h) THEN 1 ELSE 0)
          /\ Cardinality(Positions(Tail(q), Notice(h))) \in Nat
      <3>1. Tail(q) \in Seq(Dispatcher!CallbackEvent)
        BY <2>1, <2>2
      <3> QED  BY <2>1, <2>2, <3>1, CountTail, PositionsFinite
    <2>4. /\ Queued(h) = Queued(h)' + (IF Head(q) = Notice(h) THEN 1 ELSE 0)
          /\ Queued(h)' \in Nat
      BY <2>1, <2>3 DEF Queued, Notice
    <2>5. CASE Head(q) = Notice(h)
      <3>1. told'[h] = told[h] + 1 /\ Queued(h) = Queued(h)' + 1
        BY <2>1, <2>4, <2>5 DEF Notice
      <3> QED  BY <1>1, <1>2, <2>4, <3>1, CountTypes DEF Balanced
    <2>6. CASE Head(q) # Notice(h)
      BY <1>1, <1>2, <2>1, <2>4, <2>6, CountTypes, SameBalance
    <2> QED  BY <2>5, <2>6
  <1>4. CASE ~TakeEvent
    <2>1. UNCHANGED pendingCallbacks
      BY <1>4
      DEF Frame, BeginFrame, EndFrame, CallPawn, SkipEvent, PawnReturns, FrameStep,
          Dispatcher!BeginFrame, Dispatcher!EndFrame, Dispatcher!CallPawn,
          Dispatcher!SkipEvent, Dispatcher!PawnReturns, Dispatcher!queueVars,
          OnPluginsLoaded, Dispatcher!OnPluginsLoaded, Dispatcher!StartCallbackDispatcher
    <2>2. UNCHANGED Queued(h)
      BY <2>1 DEF Queued, Notice
    <2> QED  BY <1>1, <1>2, <1>4, <2>2, SameBalance
  <1> QED  BY <1>3, <1>4

\* A request begins in Paho's queue, or in the hands of the game thread.
LEMMA NativesBalance ==
    ASSUME Inv, QueueTyped, NEW h \in Handles, Balanced(h),
           \/ \E k \in Watched : SetCallback(h, k)
           \/ Connect(h)
           \/ Disconnect(h)
    PROVE  Balanced(h)'
  <1> USE DEF queueVars, Dispatcher!queueVars, clientVars, pahoVars, threadVars, causeVars
  <1>1. UNCHANGED <<pendingCallbacks, told, missed>>
    BY DEF SetCallback, Dispatcher!SetCallback, Connect, Disconnect, Uses
  <1>2. UNCHANGED <<Queued(h), told[h], missed[h]>>
    BY <1>1 DEF Queued, Notice
  <1>3. UNCHANGED threadVars => UNCHANGED Held(h)
    BY DEF Held, Holders
  <1>4. CASE \E k \in Watched : SetCallback(h, k)
    BY <1>2, <1>3, <1>4, SameBalance DEF SetCallback, Requested
  <1>5. CASE Connect(h)
    <2>1. UNCHANGED Requested(h)
      <3>1. actions' = [actions EXCEPT ![h] = Append(@, "connect")]
        BY <1>5 DEF Connect
      <3>2. /\ Requested(h)' = Requested(h) + (IF "connect" = "disconnect" THEN 1 ELSE 0)
            /\ Requested(h) \in Nat
        BY <3>1, RequestedAppend
      <3> QED  BY <3>2
    <2>2. UNCHANGED <<Held(h), causes[h]>>
      BY <1>3, <1>5 DEF Connect
    <2> QED  BY <1>2, <2>1, <2>2, SameBalance
  <1>6. CASE Disconnect(h)
    <2>1. causes'[h] = causes[h] + 1
      BY <1>6 DEF Disconnect, Inv, CountsOK
    <2>2. CASE actions' = [actions EXCEPT ![h] = Append(@, "disconnect")] /\ UNCHANGED threadVars
      <3>1. Requested(h)' = Requested(h) + 1
        BY <2>2, RequestedAppend
      <3>2. UNCHANGED Held(h)
        BY <1>3, <2>2
      <3> QED  BY <1>2, <2>1, <3>1, <3>2, CountTypes DEF Balanced
    <2>3. CASE Enter(h, "game", "error") /\ UNCHANGED actions
      <3>1. pc[h]["game"] = "idle"
        BY <1>6 DEF Disconnect, Uses, RunsPawn, NotInNative
      <3>2. Held(h)' = Held(h) + 1
        <4>1. "game" \in Threads /\ "error" \in Calls /\ TypeOf("error") = "disconnected"
          BY DEF Threads, Calls, Answers, TypeOf
        <4> QED  BY <2>3, <3>1, <4>1, EnterHolds
      <3>3. UNCHANGED Requested(h)
        BY <2>3 DEF Requested
      <3> QED  BY <1>2, <2>1, <3>2, <3>3, CountTypes DEF Balanced
    <2> QED  BY <1>6, <2>2, <2>3 DEF Disconnect
  <1> QED  BY <1>4, <1>5, <1>6

\* The server's disconnect begins in the hands of the receive thread, an answer
\* passes from Paho's queue to the send thread.
LEMMA PahoBalance ==
    ASSUME Inv, QueueTyped, NEW h \in Handles, Balanced(h), SendThread(h) \/ Network(h)
    PROVE  Balanced(h)'
  <1> USE DEF queueVars, pahoVars, threadVars
  <1>1. UNCHANGED <<pendingCallbacks, told, missed>>
    BY DEF SendThread, ProcessConnect, DisconnectSucceeds, DisconnectFails, TakesAction, PahoOnly,
           Network, ConnectionUp, ConnectionLost, ServerDisconnect, LinkChanges,
           ConnectionRefused, MessageArrived
  <1>2. UNCHANGED <<Queued(h), told[h], missed[h]>>
    BY <1>1 DEF Queued, Notice
  <1>3. UNCHANGED threadVars => UNCHANGED Held(h)
    BY DEF Held, Holders
  <1>4. UNCHANGED actions => UNCHANGED Requested(h)
    BY DEF Requested
  <1>5. /\ "recv" \in Threads /\ "send" \in Threads
        /\ {"connected", "connectionLost", "disconnected", "message", "success", "failure"}
           \subseteq Calls
        /\ \A k \in {"disconnected", "success", "failure"} : TypeOf(k) = "disconnected"
        /\ \A k \in {"connected", "connectionLost", "message"} : TypeOf(k) # "disconnected"
    BY DEF Threads, Calls, Kinds, Answers, TypeOf
  <1>6. ASSUME NEW k \in {"connected", "connectionLost", "message"}, Enter(h, "recv", k),
               pc[h]["recv"] = "idle", UNCHANGED <<actions, causes[h]>>
        PROVE  Balanced(h)'
    <2>1. UNCHANGED Held(h)
      BY <1>5, <1>6, EnterHolds, CountTypes
    <2> QED  BY <1>2, <1>4, <1>6, <2>1, SameBalance
  <1>7. ASSUME NEW from, NEW to, NEW k, LinkChanges(h, from, to, k)
        PROVE  /\ Enter(h, "recv", k) /\ pc[h]["recv"] = "idle" /\ UNCHANGED actions
               /\ causes'[h] = IF k = "disconnected" THEN causes[h] + 1 ELSE causes[h]
    BY <1>7 DEF LinkChanges, Inv, CountsOK
  <1>8. CASE ConnectionUp(h) \/ ConnectionLost(h)
    BY <1>6, <1>7, <1>8 DEF ConnectionUp, ConnectionLost
  <1>9. CASE ServerDisconnect(h)
    <2>1. /\ Enter(h, "recv", "disconnected") /\ pc[h]["recv"] = "idle" /\ UNCHANGED actions
          /\ causes'[h] = causes[h] + 1
      BY <1>7, <1>9 DEF ServerDisconnect
    <2>2. Held(h)' = Held(h) + 1
      BY <1>5, <2>1, EnterHolds
    <2> QED  BY <1>2, <1>4, <2>1, <2>2, CountTypes DEF Balanced
  <1>10. CASE ConnectionRefused(h)
    BY <1>2, <1>3, <1>4, <1>10, SameBalance DEF ConnectionRefused
  <1>11. CASE MessageArrived(h)
    BY <1>6, <1>11 DEF MessageArrived
  <1>12. ASSUME NEW a, TakesAction(h, a)
         PROVE  /\ Requested(h) = Requested(h)' + (IF a = "disconnect" THEN 1 ELSE 0)
                /\ Requested(h)' \in Nat
                /\ pc[h]["send"] = "idle" /\ UNCHANGED causes[h]
    BY <1>12, RequestedTail DEF TakesAction
  <1>13. CASE ProcessConnect(h)
    <2>1. UNCHANGED <<Requested(h), Held(h), causes[h]>>
      BY <1>3, <1>12, <1>13 DEF ProcessConnect
    <2> QED  BY <1>2, <2>1, SameBalance
  <1>14. CASE DisconnectSucceeds(h) \/ DisconnectFails(h)
    <2>1. TakesAction(h, "disconnect") /\ (Enter(h, "send", "success") \/ Enter(h, "send", "failure"))
      BY <1>14 DEF DisconnectSucceeds, DisconnectFails
    <2>2. /\ Requested(h) = Requested(h)' + 1 /\ Requested(h)' \in Nat
          /\ pc[h]["send"] = "idle" /\ UNCHANGED causes[h]
      BY <1>12, <2>1
    <2>3. Held(h)' = Held(h) + 1
      BY <1>5, <2>1, <2>2, EnterHolds
    <2> QED  BY <1>2, <2>2, <2>3, CountTypes DEF Balanced
  <1> QED
    BY <1>8, <1>9, <1>10, <1>11, <1>13, <1>14 DEF SendThread, Network

\* The handler passes the event of its thread to the queue, or misses it.
LEMMA CallStepBalance ==
    ASSUME Inv, QueueTyped, NEW h \in Handles, phase[h] = "alive", Balanced(h),
           NEW t \in Threads, CallStep(h, t)
    PROVE  Balanced(h)'
  <1> USE DEF queueVars, pahoVars, threadVars, causeVars
  <1>1. UNCHANGED <<actions, causes, told>> /\ UNCHANGED Requested(h)
    BY DEF CallStep, CopyHandler, RunHandler, Requested
  <1>2. CASE CopyHandler(h, t)
    <2>1. pc' = [pc EXCEPT ![h][t] = "run"] /\ call' = call /\ pc[h][t] = "copy"
      BY <1>2 DEF CopyHandler, Stopping
    <2>2. Holders(h)' = Holders(h)
      BY <2>1 DEF Holders, Inv, ThreadsOK
    <2>3. UNCHANGED Held(h)
      BY <2>2 DEF Held
    <2>4. UNCHANGED <<Queued(h), missed>>
      BY <1>2 DEF CopyHandler, Queued, Notice
    <2> QED  BY <1>1, <2>3, <2>4, SameBalance
  <1>3. CASE RunHandler(h, t)
    <2> DEFINE e == [type |-> TypeOf(call[h][t]), handle |-> h]
    <2>1. /\ Held(h) = Held(h)' + (IF TypeOf(call[h][t]) = "disconnected" THEN 1 ELSE 0)
          /\ Held(h)' \in Nat
      <3>1. Leave(h, t) /\ pc[h][t] # "idle"
        BY <1>3 DEF RunHandler
      <3> QED  BY <3>1, LeaveHolds, HeldType
    <2>2. e \in Dispatcher!CallbackEvent /\ (e = Notice(h) <=> TypeOf(call[h][t]) = "disconnected")
      <3>1. TypeOf(call[h][t]) \in Kinds
        BY <1>3 DEF RunHandler, Inv, ThreadsOK, CallsNamed, Calls, TypeOf, Kinds
      <3> QED  BY <3>1 DEF Dispatcher!CallbackEvent, Notice
    <2>3. CASE Dispatcher!EnqueueCallback(e) /\ UNCHANGED missed
      <3>1. pendingCallbacks' = Append(pendingCallbacks, e)
        BY <2>3 DEF Dispatcher!EnqueueCallback, Dispatcher!PushBack
      <3> HIDE DEF e
      <3>2. Cardinality(Positions(Append(pendingCallbacks, e), Notice(h))) =
                Cardinality(Positions(pendingCallbacks, Notice(h)))
                + (IF e = Notice(h) THEN 1 ELSE 0)
        BY <2>2, CountAppend DEF QueueTyped
      <3>3. Queued(h)' = Queued(h) + (IF e = Notice(h) THEN 1 ELSE 0)
        BY <3>1, <3>2 DEF Queued, Notice
      <3>4. CASE e = Notice(h)
        <4>1. Queued(h)' = Queued(h) + 1 /\ Held(h) = Held(h)' + 1
          BY <2>1, <2>2, <3>3, <3>4
        <4> QED  BY <1>1, <2>1, <2>3, <4>1, CountTypes DEF Balanced
      <3>5. CASE e # Notice(h)
        <4>1. Queued(h)' = Queued(h) /\ Held(h)' = Held(h)
          BY <2>1, <2>2, <3>3, <3>5, CountTypes
        <4> QED  BY <1>1, <2>3, <4>1, SameBalance
      <3> QED  BY <3>4, <3>5
    <2>4. CASE /\ missed' = [missed EXCEPT ![h] = IF e.type = "disconnected" THEN @ + 1 ELSE @]
               /\ UNCHANGED queueVars
      <3>1. UNCHANGED Queued(h)
        BY <2>4 DEF Queued, Notice
      <3>2. CASE e.type = "disconnected"
        <4>1. missed'[h] = missed[h] + 1 /\ Held(h) = Held(h)' + 1
          BY <2>1, <2>4, <3>2 DEF Inv, CountsOK
        <4> QED  BY <1>1, <2>1, <3>1, <4>1, CountTypes DEF Balanced
      <3>3. CASE e.type # "disconnected"
        <4>1. missed'[h] = missed[h] /\ Held(h)' = Held(h)
          BY <2>1, <2>4, <3>3 DEF Inv, CountsOK
        <4> QED  BY <1>1, <3>1, <4>1, SameBalance
      <3> QED  BY <3>2, <3>3
    <2> QED  BY <1>3, <2>3, <2>4 DEF RunHandler
  <1> QED  BY <1>2, <1>3 DEF CallStep

\* What one client does moves no notice of another.
LEMMA OthersBalance ==
    ASSUME Inv, QueueTyped, NEW g \in Handles, ClientStep(g), NEW h \in Handles, h # g,
           Balanced(h)
    PROVE  Balanced(h)'
  <1>1. Untouched(h)
    BY OthersUntouched
  <1>2. UNCHANGED <<Requested(h), Held(h), causes[h], told[h], missed[h]>>
    BY <1>1 DEF Untouched, Requested, Held, Holders
  <1>3. CASE UNCHANGED pendingCallbacks
    BY <1>2, <1>3, SameBalance DEF Queued, Notice
  <1>4. ASSUME NEW t \in Threads, RunHandler(g, t) PROVE Balanced(h)'
    <2> DEFINE e == [type |-> TypeOf(call[g][t]), handle |-> g]
    <2>1. e \in Dispatcher!CallbackEvent /\ e # Notice(h)
      <3>1. TypeOf(call[g][t]) \in Kinds
        BY <1>4 DEF RunHandler, Inv, ThreadsOK, CallsNamed, Calls, TypeOf, Kinds
      <3> QED  BY <3>1 DEF Dispatcher!CallbackEvent, Notice
    <2>2. pendingCallbacks' = Append(pendingCallbacks, e) \/ UNCHANGED pendingCallbacks
      BY <1>4 DEF RunHandler, Dispatcher!EnqueueCallback, Dispatcher!PushBack, queueVars
    <2> HIDE DEF e
    <2>3. CASE pendingCallbacks' = Append(pendingCallbacks, e)
      <3>1. Cardinality(Positions(Append(pendingCallbacks, e), Notice(h))) =
                Cardinality(Positions(pendingCallbacks, Notice(h)))
        <4>1. Cardinality(Positions(Append(pendingCallbacks, e), Notice(h))) =
                  Cardinality(Positions(pendingCallbacks, Notice(h)))
                  + (IF e = Notice(h) THEN 1 ELSE 0)
          BY <2>1, CountAppend DEF QueueTyped
        <4>2. Cardinality(Positions(pendingCallbacks, Notice(h))) \in Nat
          BY PositionsFinite DEF QueueTyped
        <4> QED  BY <2>1, <4>1, <4>2
      <3>2. UNCHANGED Queued(h)
        BY <2>3, <3>1 DEF Queued, Notice
      <3> QED  BY <1>2, <3>2, SameBalance
    <2> QED  BY <1>3, <2>2, <2>3
  <1>5. (\E t \in Threads : RunHandler(g, t)) \/ UNCHANGED pendingCallbacks
    <2>1. Natives(g) => UNCHANGED pendingCallbacks
      BY DEF Natives, MakeClient, SetCallback, Connect, Disconnect, Uses, DestroyClient,
             Dispatcher!MakeClient, Dispatcher!SetCallback, Dispatcher!DestroyClient,
             queueVars, Dispatcher!queueVars
    <2>2. ASSUME \/ Destructor(g) \/ SendThread(g) \/ Network(g)
                 \/ \E t \in Threads : CopyHandler(g, t)
          PROVE  UNCHANGED pendingCallbacks
      BY <2>2, ClientMaps DEF AsSeen!vars, AsSeen!queueVars
    <2> QED  BY <2>1, <2>2 DEF ClientStep, CallStep
  <1> QED  BY <1>3, <1>4, <1>5

\* Nothing is owed to a client that is being made.
LEMMA MadeBalanced ==
    ASSUME Inv, Fresh, QueueIssued, QueueTyped, NEW h \in Handles, MakeClient(h)
    PROVE  Balanced(h)'
  <1>1. /\ h \notin issued
        /\ UNCHANGED <<pendingCallbacks, pahoVars, threadVars, causeVars, told, missed>>
    BY DEF MakeClient, Dispatcher!MakeClient, Dispatcher!queueVars
  <1>2. /\ causes[h] = 0 /\ told[h] = 0 /\ missed[h] = 0
        /\ actions[h] = <<>> /\ \A t \in Threads : pc[h][t] = "idle"
    BY <1>1 DEF Fresh
  <1>3. Positions(actions[h], "disconnect") = {} /\ Holders(h) = {}
    BY <1>2 DEF Positions, Holders
  <1>4. Positions(pendingCallbacks, Notice(h)) = {}
    BY <1>1 DEF QueueIssued, Positions, Notice
  <1>5. Requested(h) = 0 /\ Held(h) = 0 /\ Queued(h) = 0
    BY <1>3, <1>4, FS_EmptySet DEF Requested, Held, Queued
  <1>6. UNCHANGED <<Requested(h), Held(h), Queued(h), causes, told, missed>>
    BY <1>1 DEF Requested, Held, Holders, Queued, Notice, pahoVars, threadVars, causeVars
  <1> QED  BY <1>2, <1>5, <1>6 DEF Balanced

CausesOK == Fresh /\ QueueIssued /\ EachCauseToldOnce

LEMMA CausesStep ==
    ASSUME Inv, QueueTyped, CausesOK, [Next]_vars
    PROVE  CausesOK'
  <1> USE DEF CausesOK
  <1>1. EachCauseToldOnce'
    <2> SUFFICES ASSUME NEW h \in Handles, h \in live', ~unloading'
                 PROVE  Balanced(h)'
      <3>1. live' \subseteq Handles
        BY NextInv DEF Inv, HandlesOK
      <3>2. ~unloading' => \A h \in live' : Balanced(h)'
        BY <3>1
      <3> QED
        BY <3>2
        DEF EachCauseToldOnce, Balanced, OnTheirWay, Requested, Held, Holders, Queued, Positions,
            IsNotice, Notice
    <2>1. ASSUME h \in live, ~unloading PROVE Balanced(h) /\ phase[h] = "alive"
      BY <2>1, BalancedIs DEF Inv, HandlesOK
    <2>2. CASE UNCHANGED vars
      <3>1. UNCHANGED <<pendingCallbacks, pahoVars, threadVars, causeVars, told, missed, live,
                        unloading>>
        BY <2>2 DEF vars, queueVars, clientVars, handleVars
      <3>2. UNCHANGED <<Requested(h), Held(h), Queued(h), causes[h], told[h], missed[h]>>
        BY <3>1 DEF Requested, Held, Holders, Queued, Notice, pahoVars, threadVars, causeVars
      <3> QED  BY <2>1, <3>1, <3>2, SameBalance
    <2>3. CASE Frame \/ OnPluginsLoaded
      <3>1. live' = live /\ unloading' = unloading
        BY <2>3
        DEF Frame, BeginFrame, TakeEvent, EndFrame, CallPawn, SkipEvent, PawnReturns, FrameStep,
            Dispatcher!BeginFrame, Dispatcher!TakeEvent, Dispatcher!EndFrame,
            Dispatcher!CallPawn, Dispatcher!SkipEvent, Dispatcher!PawnReturns,
            Dispatcher!clientVars, OnPluginsLoaded, Dispatcher!OnPluginsLoaded
      <3> QED  BY <2>1, <2>3, <3>1, FrameBalance
    <2>4. CASE OnPluginsUnloading \/ FinishUnloading
      BY <2>4 DEF OnPluginsUnloading, FinishUnloading, UnloadingStep, UnloadingSteps, ResetClients
    <2>5. ASSUME NEW g \in Handles, ClientStep(g) PROVE Balanced(h)'
      <3>1. CASE MakeClient(h)
        BY <3>1, MadeBalanced
      <3>2. CASE ~MakeClient(h)
        <4>1. h \in live /\ ~unloading
          <5>1. UNCHANGED <<live, unloading>> \/ MakeClient(g) \/ DestroyClient(g)
            BY <2>5, ClientMaps
            DEF ClientStep, Natives, SetCallback, Connect, Disconnect, Uses, CallStep,
                RunHandler, CopyHandler, Dispatcher!SetCallback, Dispatcher!EnqueueCallback,
                Dispatcher!clientVars, handleVars, clientVars,
                Destructor, SetStopping, PahoDestroy, CancelAction, FreeMembers, SendThread,
                ProcessConnect, DisconnectSucceeds, DisconnectFails, TakesAction, PahoOnly,
                Network, ConnectionUp, ConnectionLost, ServerDisconnect, LinkChanges,
                ConnectionRefused, MessageArrived
          <5>2. MakeClient(g) => g # h /\ ~unloading /\ live' = live \cup {g}
            BY <3>2 DEF MakeClient, Dispatcher!MakeClient, RunsPawn, NotInNative
          <5>3. DestroyClient(g) => ~unloading /\ live' = live \ {g}
            BY DEF DestroyClient, Dispatcher!DestroyClient, Dispatcher!Invalidate, RunsPawn,
                   NotInNative
          <5> QED  BY <5>1, <5>2, <5>3
        <4>2. CASE g # h
          BY <2>1, <2>5, <4>1, <4>2, OthersBalance
        <4>3. CASE g = h
          <5>1. ~Destructor(h)
            BY <2>1, <4>1 DEF Destructor, SetStopping, PahoDestroy, CancelAction, FreeMembers
          <5>2. ~DestroyClient(h)
            BY DEF DestroyClient, Dispatcher!DestroyClient, Dispatcher!Invalidate
          <5> QED
            BY <2>1, <2>5, <3>2, <4>1, <4>3, <5>1, <5>2, NativesBalance, PahoBalance,
               CallStepBalance
            DEF ClientStep, Natives
        <4> QED  BY <4>2, <4>3
      <3> QED  BY <3>1, <3>2
    <2> QED  BY <2>2, <2>3, <2>4, <2>5 DEF Next, ClientStep, MapChange
  <1> QED  BY <1>1, FreshStep, QueueIssuedStep

LEMMA InitCauses == Init => CausesOK
  BY DEF Init, Dispatcher!Init, CausesOK, Fresh, QueueIssued, EachCauseToldOnce

LEMMA SeenTypes == Seen!Inv => QueueTyped
  BY DEF Seen!Inv, Seen!TypeOK, Seen!CallbackEvent, Dispatcher!CallbackEvent, QueueTyped

\* Every reachable state satisfies CausesOK.
LEMMA CausesHold == Spec => []CausesOK
  <1>1. Inv /\ Seen!Inv /\ CausesOK /\ [Next]_vars => CausesOK'
    BY CausesStep, SeenTypes
  <1> QED  BY InitCauses, InvHolds, SeenInvHolds, <1>1, PTL DEF Spec

\* While the plugins run, every request to disconnect and every disconnect by
\* the server of every client is told to Pawn once, is still on its way, or came
\* while no plugin was loaded: none is lost and none is told twice, however many
\* clients, threads, frames and map changes there are.
THEOREM EveryCauseToldOnce == Spec => []EachCauseToldOnce
  <1>1. CausesOK => EachCauseToldOnce
    BY DEF CausesOK
  <1> QED  BY CausesHold, <1>1, PTL

-----------------------------------------------------------------------------
(* The order of a client's connected callbacks.  A connection is open in   *)
(* the log if its connected event is there and no event after it reports   *)
(* that it ended.  Then Paho's connection is still up, or a thread of Paho has  *)
(* the event that ends it in its hands and delays the next connection by   *)
(* holding Paho's lock.                                                    *)

\* The event at position m of the log tells of the end of a connection of h.
Ends(m, h) ==
    m \in ended /\ log[m].handle = h /\ log[m].type \in {"connectionLost", "disconnected"}

Opened(h) == [type |-> "connected", handle |-> h]

Open(h) ==
    \E i \in DOMAIN log : log[i] = Opened(h) /\ \A m \in i..Len(log) : ~Ends(m, h)

\* Which thread is inside a client for what.
CallsOf(h) ==
    /\ call[h]["recv"] \in Kinds \cup {"none"}
    /\ call[h]["send"] \in {"success", "failure", "none"}
    /\ call[h]["game"] \in {"failure", "error", "none"}
    /\ \A t \in Threads : pc[h][t] = "idle" => call[h][t] = "none"

WillRun(h, t) == pc[h][t] = "run" \/ (pc[h][t] = "copy" /\ ~Stopping(h))

\* A connected event on its way to the queue finds no open connection there.
OpensOnce(h) == WillRun(h, "recv") /\ call[h]["recv"] = "connected" => ~Open(h)

UpWhileReported(h) == ~Stopping(h) /\ call[h]["recv"] = "connected" => link[h] = "up"

OpenMeansUp(h) ==
    ~Stopping(h) /\ Open(h) =>
        \/ link[h] = "up"
        \/ \E t \in Workers : call[h][t] \in Endings

Ordered(h) == CallsOf(h) /\ OpensOnce(h) /\ UpWhileReported(h) /\ OpenMeansUp(h)

StoppedIsEmpty == ~acceptingCallbacks => log = <<>>

EndedInLog == ended \subseteq DOMAIN log

OrderOK ==
    /\ \A h \in Handles : Ordered(h)
    /\ StoppedIsEmpty
    /\ EndedInLog
    /\ ConnectsAlternate

LEMMA OpenAppend ==
    ASSUME QueueTyped, NEW e \in Dispatcher!CallbackEvent, log' = Append(log, e),
           ended \subseteq ended', NEW h
    PROVE  /\ Open(h)' => Open(h) \/ e = Opened(h)
           /\ /\ Len(log') \in ended'
              /\ e.handle = h /\ e.type \in {"connectionLost", "disconnected"}
              => ~Open(h)'
  <1>1. /\ Len(log) \in Nat /\ Len(log') = Len(log) + 1
        /\ DOMAIN log = 1..Len(log) /\ DOMAIN log' = 1..(Len(log) + 1)
        /\ \A i \in 1..Len(log) : log'[i] = log[i]
        /\ log'[Len(log) + 1] = e
    BY DEF QueueTyped
  <1> DEFINE Ending == /\ Len(log') \in ended'
                       /\ e.handle = h /\ e.type \in {"connectionLost", "disconnected"}
  <1>2. ASSUME Open(h)' PROVE (Open(h) \/ e = Opened(h)) /\ ~Ending
    <2>1. PICK i \in DOMAIN log' :
              log'[i] = Opened(h) /\ \A m \in i..Len(log') : ~Ends(m, h)'
      BY <1>2 DEF Open, Opened
    <2>2. ~Ending
      BY <1>1, <2>1 DEF Ends
    <2>3. CASE i = Len(log) + 1
      BY <1>1, <2>1, <2>2, <2>3
    <2>4. CASE i # Len(log) + 1
      <3>1. i \in DOMAIN log /\ log[i] = Opened(h)
        BY <1>1, <2>1, <2>4
      <3>2. ASSUME NEW m \in i..Len(log) PROVE ~Ends(m, h)
        <4>1. m \in 1..Len(log) /\ m \in i..Len(log')
          BY <1>1, <3>1
        <4>2. ~Ends(m, h)' /\ log'[m] = log[m]
          BY <1>1, <2>1, <4>1
        <4> QED  BY <4>2 DEF Ends
      <3> QED  BY <2>2, <3>1, <3>2 DEF Open
    <2> QED  BY <2>3, <2>4
  <1> QED  BY <1>2

LEMMA AlternateAppend ==
    ASSUME ConnectsAlternate, QueueTyped, NEW e \in Dispatcher!CallbackEvent,
           log' = Append(log, e), ended \subseteq ended',
           e.type = "connected" => ~Open(e.handle)
    PROVE  ConnectsAlternate'
  <1>1. /\ Len(log) \in Nat
        /\ DOMAIN log = 1..Len(log) /\ DOMAIN log' = 1..(Len(log) + 1)
        /\ \A i \in 1..Len(log) : log'[i] = log[i]
        /\ log'[Len(log) + 1] = e
    BY DEF QueueTyped
  <1>2. SUFFICES ASSUME NEW i \in DOMAIN log', NEW j \in DOMAIN log', i < j,
                        log'[i] = log'[j], log'[i].type = "connected"
                 PROVE  \E m \in i..j : /\ m \in ended'
                                        /\ log'[m].handle = log'[i].handle
                                        /\ log'[m].type \in {"connectionLost", "disconnected"}
    BY DEF ConnectsAlternate
  <1>3. CASE j # Len(log) + 1
    <2>1. PICK m \in i..j : /\ m \in ended
                            /\ log[m].handle = log[i].handle
                            /\ log[m].type \in {"connectionLost", "disconnected"}
      BY <1>1, <1>2, <1>3 DEF ConnectsAlternate
    <2>2. m \in 1..Len(log) /\ i \in 1..Len(log)
      BY <1>1, <1>2, <1>3, <2>1
    <2> QED  BY <1>1, <2>1, <2>2
  <1>4. CASE j = Len(log) + 1
    <2>1. i \in DOMAIN log /\ log[i] = e /\ e.type = "connected"
      BY <1>1, <1>2, <1>4
    <2>2. e = Opened(e.handle)
      BY <2>1 DEF Dispatcher!CallbackEvent, Opened
    <2>3. PICK m \in i..Len(log) : Ends(m, e.handle)
      BY <2>1, <2>2 DEF Open
    <2>4. m \in 1..Len(log) /\ m \in i..j
      BY <1>1, <1>4, <2>1, <2>3
    <2> QED  BY <1>1, <2>1, <2>3, <2>4 DEF Ends
  <1> QED  BY <1>3, <1>4

\* A step that leaves a client's receive thread, its calls and its connection
\* alone, adds no connected event of it and does not bring it back to life.
LEMMA OrderedStays ==
    ASSUME NEW h \in Handles, Ordered(h), Open(h)' => Open(h), Stopping(h) => Stopping(h)',
           link'[h] = link[h] \/ Stopping(h)', CallsOf(h)',
           \A t \in Workers : pc'[h][t] = pc[h][t] /\ call'[h][t] = call[h][t]
    PROVE  Ordered(h)'
  <1>1. "recv" \in Workers
    BY DEF Workers
  <1>2. WillRun(h, "recv")' => WillRun(h, "recv")
    BY <1>1 DEF WillRun
  <1>3. OpensOnce(h)'
    BY <1>1, <1>2 DEF Ordered, OpensOnce
  <1>4. UpWhileReported(h)'
    BY <1>1 DEF Ordered, UpWhileReported
  <1>5. OpenMeansUp(h)'
    BY DEF Ordered, OpenMeansUp
  <1> QED  BY <1>3, <1>4, <1>5 DEF Ordered

\* Who is inside a client for what, after a thread entered or left it.
LEMMA CallsOfMove ==
    ASSUME Inv, NEW h \in Handles, NEW t \in Threads, CallsOf(h),
           \/ Leave(h, t)
           \/ t = "recv" /\ \E k \in Kinds : Enter(h, t, k)
           \/ t = "send" /\ \E k \in {"success", "failure"} : Enter(h, t, k)
           \/ t = "game" /\ \E k \in {"failure", "error"} : Enter(h, t, k)
           \/ pc' = [pc EXCEPT ![h][t] = "run"] /\ UNCHANGED call
    PROVE  /\ CallsOf(h)'
           /\ \A u \in Threads : u # t => pc'[h][u] = pc[h][u] /\ call'[h][u] = call[h][u]
  <1>1. \A u \in Threads : u # t => pc'[h][u] = pc[h][u] /\ call'[h][u] = call[h][u]
    BY DEF Inv, ThreadsOK, Leave, Enter
  <1>2. CASE Leave(h, t)
    <2>1. pc'[h][t] = "idle" /\ call'[h][t] = "none"
      BY <1>2 DEF Inv, ThreadsOK, Leave
    <2> QED  BY <1>1, <2>1 DEF CallsOf, Threads
  <1>3. ASSUME NEW k, Enter(h, t, k)
        PROVE  pc'[h][t] = "copy" /\ call'[h][t] = k
    BY <1>3 DEF Inv, ThreadsOK, Enter
  <1>4. CASE t = "recv" /\ \E k \in Kinds : Enter(h, t, k)
    BY <1>1, <1>3, <1>4 DEF CallsOf, Threads
  <1>5. CASE t = "send" /\ \E k \in {"success", "failure"} : Enter(h, t, k)
    BY <1>1, <1>3, <1>5 DEF CallsOf, Threads
  <1>6. CASE t = "game" /\ \E k \in {"failure", "error"} : Enter(h, t, k)
    BY <1>1, <1>3, <1>6 DEF CallsOf, Threads
  <1>7. CASE pc' = [pc EXCEPT ![h][t] = "run"] /\ UNCHANGED call
    <2>1. pc'[h][t] = "run" /\ call'[h] = call[h]
      BY <1>7 DEF Inv, ThreadsOK
    <2> QED  BY <1>1, <2>1 DEF CallsOf, Threads
  <1> QED  BY <1>1, <1>2, <1>4, <1>5, <1>6, <1>7

LEMMA OpenStays == ASSUME NEW h, UNCHANGED <<log, ended>> PROVE Open(h)' => Open(h)
  BY DEF Open, Ends, Opened

\* While Paho's lock is free, no thread is inside for a change of the connection.
LEMMA LockFreeMeansQuiet ==
    ASSUME NEW h \in Handles, Ordered(h), PahoLockFree(h)
    PROVE  /\ \A t \in Workers : call[h][t] \in {"none", "message"}
           /\ ~Stopping(h) /\ Open(h) => link[h] = "up"
  <1>1. \A t \in Workers : call[h][t] \in {"none", "message"}
    BY DEF PahoLockFree, Ordered, CallsOf, Workers, Threads
  <1> QED  BY <1>1 DEF Ordered, OpenMeansUp, Endings

\* The connection comes up when the previous one was closed in the log.
LEMMA NetworkOrdered ==
    ASSUME Inv, NEW h \in Handles, Ordered(h), Network(h)
    PROVE  Ordered(h)'
  <1> USE DEF PahoOnly, queueVars
  <1>1. UNCHANGED <<log, ended, phase>>
    BY DEF Network, ConnectionUp, ConnectionLost, ServerDisconnect, LinkChanges,
           ConnectionRefused, MessageArrived
  <1>2. (Open(h)' => Open(h)) /\ (Stopping(h)' <=> Stopping(h))
    BY <1>1, OpenStays DEF Stopping
  <1>3. CallsOf(h)
    BY DEF Ordered
  <1>4. "recv" \in Workers /\ "send" \in Workers /\ "recv" \in Threads /\ Workers \subseteq Threads
    BY DEF Workers, Threads
  <1>5. ASSUME NEW k \in Kinds, Enter(h, "recv", k)
        PROVE  CallsOf(h)' /\ pc'[h]["recv"] = "copy" /\ call'[h]["recv"] = k
               /\ \A u \in Threads : u # "recv" => pc'[h][u] = pc[h][u] /\ call'[h][u] = call[h][u]
    <2>1. CallsOf(h)' /\ \A u \in Threads : u # "recv" =>
              pc'[h][u] = pc[h][u] /\ call'[h][u] = call[h][u]
      BY <1>3, <1>4, <1>5, CallsOfMove
    <2> QED  BY <1>4, <1>5, <2>1 DEF Enter, Inv, ThreadsOK
  <1>6. CASE ConnectionUp(h)
    <2>1. PahoLockFree(h) /\ link[h] = "connecting" /\ Enter(h, "recv", "connected")
          /\ link' = [link EXCEPT ![h] = "up"]
      BY <1>6 DEF ConnectionUp, LinkChanges
    <2>2. link'[h] = "up"
      BY <2>1 DEF Inv, PahoOK
    <2>3. ~Stopping(h) => ~Open(h)
      BY <2>1, LockFreeMeansQuiet
    <2>4. CallsOf(h)' /\ pc'[h]["recv"] = "copy"
      BY <1>5, <2>1 DEF Kinds
    <2>5. OpensOnce(h)'
      BY <1>2, <2>3, <2>4 DEF OpensOnce, WillRun
    <2> QED  BY <2>2, <2>4, <2>5 DEF Ordered, UpWhileReported, OpenMeansUp, Endings
  <1>7. CASE ConnectionLost(h) \/ ServerDisconnect(h)
    <2>1. PICK k \in {"connectionLost", "disconnected"} : Enter(h, "recv", k)
      BY <1>7 DEF ConnectionLost, ServerDisconnect, LinkChanges
    <2>2. CallsOf(h)' /\ call'[h]["recv"] = k
      BY <1>5, <2>1 DEF Kinds
    <2> QED  BY <1>4, <2>2 DEF Ordered, OpensOnce, UpWhileReported, OpenMeansUp, Endings
  <1>8. CASE ConnectionRefused(h)
    <2>1. PahoLockFree(h) /\ link[h] = "connecting" /\ UNCHANGED threadVars
      BY <1>8 DEF ConnectionRefused
    <2>2. \A t \in Threads : pc'[h][t] = pc[h][t] /\ call'[h][t] = call[h][t]
      BY <2>1 DEF threadVars
    <2>3. CallsOf(h)'
      BY <1>3, <2>1, <2>2 DEF CallsOf, threadVars
    <2>4. (~Stopping(h) => ~Open(h)) /\ call[h]["recv"] # "connected"
      BY <1>4, <2>1, LockFreeMeansQuiet
    <2> QED
      BY <1>2, <1>4, <2>2, <2>3, <2>4 DEF Ordered, OpensOnce, UpWhileReported, OpenMeansUp, Endings
  <1>9. CASE MessageArrived(h)
    <2>1. link[h] = "up" /\ UNCHANGED link /\ Enter(h, "recv", "message")
      BY <1>9 DEF MessageArrived, pahoVars
    <2>2. CallsOf(h)' /\ call'[h]["recv"] = "message"
      BY <1>5, <2>1 DEF Kinds
    <2> QED  BY <2>1, <2>2 DEF Ordered, OpensOnce, UpWhileReported, OpenMeansUp, Endings
  <1> QED  BY <1>6, <1>7, <1>8, <1>9 DEF Network

\* The send thread ends a connection and tells of it before another is made.
LEMMA SendOrdered ==
    ASSUME Inv, NEW h \in Handles, Ordered(h), SendThread(h)
    PROVE  Ordered(h)'
  <1> USE DEF PahoOnly, queueVars
  <1>1. /\ UNCHANGED <<log, ended, phase>>
        /\ PahoLockFree(h) /\ pc[h]["send"] = "idle" /\ link[h] # "connecting"
    BY DEF SendThread, ProcessConnect, DisconnectSucceeds, DisconnectFails, TakesAction
  <1>2. (Open(h)' => Open(h)) /\ (Stopping(h)' <=> Stopping(h))
    BY <1>1, OpenStays DEF Stopping
  <1>3. CallsOf(h)
    BY DEF Ordered
  <1>4. /\ "recv" \in Workers /\ "send" \in Workers /\ "send" \in Threads /\ "recv" \in Threads
        /\ Workers = {"recv", "send"}
    BY DEF Workers, Threads
  <1>5. /\ \A t \in Workers : call[h][t] \in {"none", "message"}
        /\ ~Stopping(h) /\ Open(h) => link[h] = "up"
    BY <1>1, LockFreeMeansQuiet
  <1>6. CASE ProcessConnect(h)
    <2>1. UNCHANGED threadVars /\ (link[h] = "up" => link'[h] = "up")
      BY <1>6 DEF ProcessConnect, Inv, PahoOK
    <2>2. CallsOf(h)' /\ \A t \in Workers : call'[h][t] = call[h][t]
      BY <1>3, <2>1 DEF CallsOf, threadVars
    <2> QED
      BY <1>2, <1>4, <1>5, <2>1, <2>2 DEF Ordered, OpensOnce, UpWhileReported, OpenMeansUp, Endings
  <1>7. ASSUME NEW k \in {"success", "failure"}, Enter(h, "send", k)
        PROVE  /\ CallsOf(h)' /\ call'[h]["send"] = k
               /\ call'[h]["recv"] = call[h]["recv"]
    <2>1. CallsOf(h)' /\ \A u \in Threads : u # "send" =>
              pc'[h][u] = pc[h][u] /\ call'[h][u] = call[h][u]
      BY <1>3, <1>4, <1>7, CallsOfMove
    <2> QED  BY <1>4, <1>7, <2>1 DEF Enter, Inv, ThreadsOK
  <1>8. CASE DisconnectSucceeds(h)
    <2>1. CallsOf(h)' /\ call'[h]["send"] = "success" /\ call'[h]["recv"] # "connected"
      BY <1>4, <1>5, <1>7, <1>8 DEF DisconnectSucceeds
    <2> QED  BY <1>4, <2>1 DEF Ordered, OpensOnce, UpWhileReported, OpenMeansUp, Endings
  <1>9. CASE DisconnectFails(h)
    <2>1. CallsOf(h)' /\ call'[h]["recv"] # "connected" /\ UNCHANGED link
      BY <1>4, <1>5, <1>7, <1>9 DEF DisconnectFails
    <2> QED  BY <1>2, <1>5, <2>1 DEF Ordered, OpensOnce, UpWhileReported, OpenMeansUp, Endings
  <1> QED  BY <1>6, <1>8, <1>9 DEF SendThread

\* A handler queues its event and its thread goes: a connected event opens a
\* connection that is up, the event of a thread that ended one closes it, and
\* the others change nothing.
LEMMA CallStepOrdered ==
    ASSUME Inv, QueueTyped, StoppedIsEmpty, NEW h \in Handles, Ordered(h),
           NEW t \in Threads, CallStep(h, t)
    PROVE  Ordered(h)'
  <1> USE DEF queueVars, pahoVars
  <1>1. UNCHANGED <<link, phase>> /\ (Stopping(h)' <=> Stopping(h))
    BY DEF CallStep, CopyHandler, RunHandler, Stopping
  <1>2. CallsOf(h) /\ "recv" \in Workers /\ Workers \subseteq Threads /\ "recv" \in Threads
    BY DEF Ordered, Workers, Threads
  <1>3. CASE CopyHandler(h, t)
    <2>1. /\ pc[h][t] = "copy"
          /\ \/ Stopping(h) /\ Leave(h, t)
             \/ ~Stopping(h) /\ pc' = [pc EXCEPT ![h][t] = "run"] /\ UNCHANGED call
      BY <1>3 DEF CopyHandler
    <2>2. /\ CallsOf(h)'
          /\ \A u \in Threads : u # t => pc'[h][u] = pc[h][u] /\ call'[h][u] = call[h][u]
      BY <1>2, <2>1, CallsOfMove
    <2>3. Open(h)' => Open(h)
      BY <1>3, OpenStays DEF CopyHandler
    <2>4. CASE Stopping(h)
      <3>1. pc'[h][t] = "idle"
        BY <2>1, <2>4 DEF Leave, Inv, ThreadsOK
      <3>2. WillRun(h, "recv")' => WillRun(h, "recv") /\ call'[h]["recv"] = call[h]["recv"]
        BY <1>1, <1>2, <2>2, <2>4, <3>1 DEF WillRun
      <3> QED
        BY <1>1, <2>2, <2>3, <2>4, <3>2
        DEF Ordered, OpensOnce, UpWhileReported, OpenMeansUp
    <2>5. CASE ~Stopping(h)
      <3>1. pc'[h][t] = "run" /\ call' = call
        BY <2>1, <2>5 DEF Inv, ThreadsOK
      <3>2. WillRun(h, "recv")' => WillRun(h, "recv")
        BY <1>1, <1>2, <2>1, <2>2, <2>5 DEF WillRun
      <3> QED
        BY <1>1, <2>2, <2>3, <3>1, <3>2 DEF Ordered, OpensOnce, UpWhileReported, OpenMeansUp
    <2> QED  BY <2>4, <2>5
  <1>4. CASE RunHandler(h, t)
    <2> DEFINE e == [type |-> TypeOf(call[h][t]), handle |-> h]
    <2>1. Leave(h, t) /\ pc[h][t] = "run"
      BY <1>4 DEF RunHandler
    <2>2. /\ CallsOf(h)'
          /\ \A u \in Threads : u # t => pc'[h][u] = pc[h][u] /\ call'[h][u] = call[h][u]
      BY <1>2, <2>1, CallsOfMove
    <2>3. call'[h][t] = "none"
      BY <2>1 DEF Leave, Inv, ThreadsOK
    <2>4. call[h][t] \in Calls /\ TypeOf(call[h][t]) \in Kinds
      BY <2>1 DEF Inv, ThreadsOK, CallsNamed, Calls, TypeOf, Kinds
    <2>5. UpWhileReported(h)'
      BY <1>1, <1>2, <2>2, <2>3 DEF Ordered, UpWhileReported
    <2>6. ASSUME ~Open(h)' PROVE Ordered(h)'
      BY <2>2, <2>5, <2>6 DEF Ordered, OpensOnce, OpenMeansUp
    <2>7. CASE Dispatcher!EnqueueCallback(e)
      <3>1. e \in Dispatcher!CallbackEvent
        BY <2>4 DEF Dispatcher!CallbackEvent
      <3>2. log' = Append(log, e)
        BY <2>7 DEF Dispatcher!EnqueueCallback
      <3>3. /\ e.handle = h /\ e.type = TypeOf(call[h][t])
            /\ e = Opened(h) => TypeOf(call[h][t]) = "connected"
        BY DEF Opened
      <3> HIDE DEF e
      <3>4. ended' = IF call[h][t] \in Endings THEN ended \cup {Len(log')} ELSE ended
        BY <1>4, <2>7 DEF RunHandler, Dispatcher!EnqueueCallback, Dispatcher!Admits
      <3>5. Open(h)' => Open(h) \/ e = Opened(h)
        BY <3>1, <3>2, <3>4, OpenAppend
      <3>6. CASE call[h][t] \in Endings
        <4>1. e.type \in {"connectionLost", "disconnected"} /\ Len(log') \in ended'
          BY <3>3, <3>4, <3>6 DEF Endings, TypeOf, Answers
        <4>2. ~Open(h)'
          BY <3>1, <3>2, <3>3, <3>4, <4>1, OpenAppend
        <4> QED  BY <2>6, <4>2
      <3>7. CASE call[h][t] = "connected"
        <4>1. t = "recv"
          BY <1>2, <3>7 DEF CallsOf, Threads
        <4>2. ~Stopping(h) => link[h] = "up"
          BY <3>7, <4>1 DEF Ordered, UpWhileReported
        <4> QED
          BY <1>1, <2>2, <2>3, <2>5, <4>1, <4>2 DEF Ordered, OpensOnce, OpenMeansUp
      <3>8. CASE call[h][t] \in {"message", "failure", "error"}
        <4>1. Open(h)' => Open(h)
          BY <3>3, <3>5, <3>8 DEF TypeOf, Answers
        <4>2. \A u \in Workers : call[h][u] \in Endings => call'[h][u] = call[h][u]
          BY <1>2, <2>2, <3>8 DEF Endings
        <4>3. OpenMeansUp(h)'
          BY <1>1, <4>1, <4>2 DEF Ordered, OpenMeansUp
        <4>4. call'[h]["recv"] = "connected" =>
                  pc'[h]["recv"] = pc[h]["recv"] /\ call'[h]["recv"] = call[h]["recv"]
          BY <1>2, <2>2, <2>3
        <4>5. OpensOnce(h)'
          BY <1>1, <4>1, <4>4 DEF Ordered, OpensOnce, WillRun
        <4> QED  BY <2>2, <2>5, <4>3, <4>5 DEF Ordered
      <3>9. call[h][t] \in Endings \cup {"connected", "message", "failure", "error"}
        BY <2>4 DEF Endings, Calls, Kinds, Answers
      <3> QED  BY <3>6, <3>7, <3>8, <3>9
    <2>8. CASE ~acceptingCallbacks /\ UNCHANGED queueVars
      <3>1. log' = <<>>
        BY <2>8 DEF StoppedIsEmpty
      <3>2. ~Open(h)'
        BY <3>1 DEF Open
      <3> QED  BY <2>6, <3>2
    <2> QED  BY <1>4, <2>7, <2>8 DEF RunHandler
  <1> QED  BY <1>3, <1>4 DEF CallStep

\* Natives and the destructor are not concerned with the connection.
LEMMA QuietOrdered ==
    ASSUME Inv, Fresh, NEW h \in Handles, Ordered(h), Natives(h) \/ Destructor(h)
    PROVE  Ordered(h)'
  <1> USE DEF queueVars, Dispatcher!queueVars, pahoVars, threadVars, clientVars
  <1>1. UNCHANGED <<log, ended>>
    BY DEF Natives, MakeClient, SetCallback, Connect, Disconnect, Uses, DestroyClient,
           Dispatcher!MakeClient, Dispatcher!SetCallback, Dispatcher!DestroyClient,
           Destructor, SetStopping, PahoDestroy, CancelAction, FreeMembers
  <1>2. Stopping(h) => Stopping(h)'
    <2>1. CASE MakeClient(h)
      BY <2>1 DEF MakeClient, Dispatcher!MakeClient, Fresh, Stopping
    <2>2. CASE DestroyClient(h)
      BY <2>2 DEF DestroyClient, Dispatcher!DestroyClient, Inv, HandlesOK, Stopping
    <2>3. CASE (\E k \in Watched : SetCallback(h, k)) \/ Connect(h) \/ Disconnect(h)
      BY <2>3 DEF SetCallback, Connect, Disconnect, Uses, Stopping
    <2>4. CASE Destructor(h)
      BY <2>4 DEF Destructor, SetStopping, PahoDestroy, CancelAction, FreeMembers, Stopping, Inv,
                  ThreadsOK
    <2> QED  BY <2>1, <2>2, <2>3, <2>4 DEF Natives
  <1>3. link'[h] = link[h] \/ Stopping(h)'
    BY DEF Natives, MakeClient, SetCallback, Connect, Disconnect, Uses, DestroyClient,
           Destructor, SetStopping, PahoDestroy, CancelAction, FreeMembers, Stopping, Inv, ThreadsOK
  <1>4. \/ UNCHANGED threadVars
        \/ \E k \in {"failure", "error"} : Enter(h, "game", k)
    BY DEF Natives, MakeClient, SetCallback, Connect, Disconnect, Uses, DestroyClient,
           Destructor, SetStopping, PahoDestroy, CancelAction, FreeMembers
  <1>5. /\ CallsOf(h)'
        /\ \A t \in Workers : pc'[h][t] = pc[h][t] /\ call'[h][t] = call[h][t]
    <2>1. CASE UNCHANGED threadVars
      BY <2>1 DEF Ordered, CallsOf
    <2>2. CASE \E k \in {"failure", "error"} : Enter(h, "game", k)
      <3>1. "game" \in Threads /\ Workers \subseteq Threads /\ "game" \notin Workers /\ CallsOf(h)
        BY DEF Threads, Workers, Ordered
      <3> QED  BY <2>2, <3>1, CallsOfMove
    <2> QED  BY <1>4, <2>1, <2>2
  <1> QED  BY <1>1, <1>2, <1>3, <1>5, OpenStays, OrderedStays

LEMMA OnlyHandlersEnd ==
    ASSUME NEW h \in Handles,
           \/ Destructor(h) \/ SendThread(h) \/ Network(h)
           \/ \E t \in Threads : CopyHandler(h, t)
    PROVE  UNCHANGED ended
  BY DEF Destructor, SetStopping, PahoDestroy, CancelAction, FreeMembers, SendThread,
         ProcessConnect, DisconnectSucceeds, DisconnectFails, TakesAction, Network, ConnectionUp,
         ConnectionLost, ServerDisconnect, LinkChanges, ConnectionRefused, MessageArrived,
         PahoOnly, CopyHandler

\* Nor is a client with what happens in another, except for its events.
LEMMA OthersOrdered ==
    ASSUME Inv, QueueTyped, NEW g \in Handles, ClientStep(g), NEW h \in Handles, h # g, Ordered(h)
    PROVE  Ordered(h)'
  <1>1. Untouched(h)
    BY OthersUntouched
  <1>2. /\ Stopping(h)' <=> Stopping(h)
        /\ CallsOf(h)'
        /\ \A t \in Workers : pc'[h][t] = pc[h][t] /\ call'[h][t] = call[h][t]
    BY <1>1 DEF Untouched, Stopping, Ordered, CallsOf
  <1>3. Open(h)' => Open(h)
    <2>1. CASE UNCHANGED <<log, ended>>
      BY <2>1, OpenStays
    <2>2. ASSUME NEW t \in Threads, RunHandler(g, t) PROVE Open(h)' => Open(h)
      <3> DEFINE e == [type |-> TypeOf(call[g][t]), handle |-> g]
      <3>1. e \in Dispatcher!CallbackEvent
        <4>1. TypeOf(call[g][t]) \in Kinds
          BY <2>2 DEF RunHandler, Inv, ThreadsOK, CallsNamed, Calls, TypeOf, Kinds
        <4> QED  BY <4>1 DEF Dispatcher!CallbackEvent
      <3>2. (log' = Append(log, e) /\ ended \subseteq ended') \/ UNCHANGED <<log, ended>>
        BY <2>2 DEF RunHandler, Dispatcher!EnqueueCallback, queueVars
      <3>3. e # Opened(h)
        BY DEF Opened
      <3> HIDE DEF e
      <3> QED  BY <2>1, <3>1, <3>2, <3>3, OpenAppend
    <2>3. (\E t \in Threads : RunHandler(g, t)) \/ UNCHANGED <<log, ended>>
      <3>1. Natives(g) => UNCHANGED <<log, ended>>
        BY DEF Natives, MakeClient, SetCallback, Connect, Disconnect, Uses, DestroyClient,
               Dispatcher!MakeClient, Dispatcher!SetCallback, Dispatcher!DestroyClient,
               queueVars, Dispatcher!queueVars
      <3>2. ASSUME \/ Destructor(g) \/ SendThread(g) \/ Network(g)
                   \/ \E t \in Threads : CopyHandler(g, t)
            PROVE  UNCHANGED <<log, ended>>
        BY <3>2, ClientMaps, OnlyHandlersEnd DEF AsSeen!vars, AsSeen!queueVars
      <3> QED  BY <3>1, <3>2 DEF ClientStep, CallStep
    <2> QED  BY <2>1, <2>2, <2>3
  <1> QED  BY <1>1, <1>2, <1>3, OrderedStays DEF Untouched

\* Frames leave the log alone, map changes empty it.
LEMMA GameThreadOrdered ==
    ASSUME Inv, Frame \/ MapChange, NEW h \in Handles, Ordered(h)
    PROVE  Ordered(h)'
  <1>1. /\ UNCHANGED <<link[h], pc[h], call[h]>>
        /\ Stopping(h) => Stopping(h)'
    BY GameThreadTouchesLittle DEF Stopping, Inv, HandlesOK
  <1>2. UNCHANGED <<log, ended>> \/ log' = <<>>
    BY DEF Frame, BeginFrame, TakeEvent, EndFrame, CallPawn, SkipEvent, PawnReturns, FrameStep,
           Dispatcher!BeginFrame, Dispatcher!TakeEvent, Dispatcher!EndFrame,
           Dispatcher!CallPawn, Dispatcher!SkipEvent, Dispatcher!PawnReturns,
           Dispatcher!queueVars, MapChange, OnPluginsLoaded, Dispatcher!OnPluginsLoaded,
           Dispatcher!StartCallbackDispatcher, OnPluginsUnloading, FinishUnloading,
           UnloadingStep, UnloadingSteps, ResetClients, StopDispatcher,
           Dispatcher!StopCallbackDispatcher, queueVars
  <1>3. Open(h)' => Open(h)
    BY <1>2, OpenStays DEF Open
  <1>4. CallsOf(h)'
    BY <1>1 DEF Ordered, CallsOf
  <1> QED  BY <1>1, <1>3, <1>4, OrderedStays

\* The log is extended by handlers and emptied when the dispatcher stops.
LEMMA LogStep ==
    ASSUME Inv, QueueTyped, OrderOK, [Next]_vars
    PROVE  StoppedIsEmpty' /\ EndedInLog' /\ ConnectsAlternate'
  <1> USE DEF queueVars, Dispatcher!queueVars
  <1>1. CASE UNCHANGED <<acceptingCallbacks, log, ended>>
    BY <1>1 DEF OrderOK, StoppedIsEmpty, EndedInLog, ConnectsAlternate
  <1>2. CASE log' = <<>> /\ ended' = {}
    BY <1>2 DEF StoppedIsEmpty, EndedInLog, ConnectsAlternate
  <1>3. CASE acceptingCallbacks' /\ UNCHANGED <<log, ended>>
    BY <1>3 DEF OrderOK, StoppedIsEmpty, EndedInLog, ConnectsAlternate
  <1>4. ASSUME NEW h \in Handles, NEW t \in Threads, RunHandler(h, t)
        PROVE  StoppedIsEmpty' /\ EndedInLog' /\ ConnectsAlternate'
    <2> DEFINE e == [type |-> TypeOf(call[h][t]), handle |-> h]
    <2>1. CASE Dispatcher!EnqueueCallback(e)
      <3>1. e \in Dispatcher!CallbackEvent
        <4>1. TypeOf(call[h][t]) \in Kinds
          BY <1>4 DEF RunHandler, Inv, ThreadsOK, CallsNamed, Calls, TypeOf, Kinds
        <4> QED  BY <4>1 DEF Dispatcher!CallbackEvent
      <3>2. log' = Append(log, e) /\ acceptingCallbacks /\ UNCHANGED acceptingCallbacks
        BY <2>1 DEF Dispatcher!EnqueueCallback, Dispatcher!Admits
      <3>3. e.type = "connected" => ~Open(e.handle)
        <4> SUFFICES ASSUME TypeOf(call[h][t]) = "connected" PROVE ~Open(h)
          OBVIOUS
        <4>1. call[h][t] = "connected" /\ pc[h][t] = "run"
          BY <1>4 DEF RunHandler, TypeOf
        <4>2. t = "recv"
          BY <4>1 DEF OrderOK, Ordered, CallsOf, Threads
        <4> QED  BY <4>1, <4>2 DEF OrderOK, Ordered, OpensOnce, WillRun
      <3> HIDE DEF e
      <3>4. ended \subseteq ended' /\ ended' \subseteq ended \cup {Len(log')}
        BY <1>4, <2>1 DEF RunHandler, Dispatcher!EnqueueCallback, Dispatcher!Admits
      <3>5. ConnectsAlternate'
        BY <3>1, <3>2, <3>3, <3>4, AlternateAppend DEF OrderOK
      <3>6. EndedInLog'
        <4>1. DOMAIN log \subseteq DOMAIN log' /\ Len(log') \in DOMAIN log'
          BY <3>2 DEF QueueTyped
        <4> QED  BY <3>4, <4>1 DEF OrderOK, EndedInLog
      <3> QED  BY <3>2, <3>5, <3>6 DEF StoppedIsEmpty
    <2>2. CASE UNCHANGED <<queueVars, ended>>
      BY <1>1, <2>2
    <2> QED  BY <1>4, <2>1, <2>2 DEF RunHandler
  <1>5. CASE Frame
    BY <1>1, <1>5
    DEF Frame, BeginFrame, TakeEvent, EndFrame, CallPawn, SkipEvent, PawnReturns, FrameStep,
        Dispatcher!BeginFrame, Dispatcher!TakeEvent, Dispatcher!EndFrame,
        Dispatcher!CallPawn, Dispatcher!SkipEvent, Dispatcher!PawnReturns
  <1>6. CASE MapChange
    BY <1>1, <1>2, <1>3, <1>6
    DEF MapChange, OnPluginsLoaded, Dispatcher!OnPluginsLoaded,
        Dispatcher!StartCallbackDispatcher, OnPluginsUnloading, FinishUnloading,
        UnloadingStep, UnloadingSteps, ResetClients, StopDispatcher,
        Dispatcher!StopCallbackDispatcher
  <1>7. ASSUME NEW h \in Handles, Natives(h) PROVE UNCHANGED <<acceptingCallbacks, log, ended>>
    BY <1>7
    DEF Natives, MakeClient, SetCallback, Connect, Disconnect, Uses, DestroyClient,
        Dispatcher!MakeClient, Dispatcher!SetCallback, Dispatcher!DestroyClient
  <1>8. ASSUME NEW h \in Handles,
               \/ Destructor(h) \/ SendThread(h) \/ Network(h)
               \/ \E t \in Threads : CopyHandler(h, t)
        PROVE  UNCHANGED <<acceptingCallbacks, log, ended>>
    BY <1>8, ClientMaps, OnlyHandlersEnd DEF AsSeen!vars, AsSeen!queueVars
  <1>9. CASE UNCHANGED vars
    BY <1>1, <1>9 DEF vars
  <1> QED  BY <1>1, <1>4, <1>5, <1>6, <1>7, <1>8, <1>9 DEF Next, CallStep

LEMMA OrderStep ==
    ASSUME Inv, QueueTyped, Fresh, OrderOK, [Next]_vars
    PROVE  OrderOK'
  <1>1. ASSUME NEW h \in Handles PROVE Ordered(h)'
    <2>1. Ordered(h) /\ StoppedIsEmpty
      BY DEF OrderOK
    <2>2. CASE UNCHANGED vars
      <3>1. UNCHANGED <<log, ended, link, pc, call, phase>>
        BY <2>2 DEF vars, queueVars, clientVars, pahoVars, threadVars
      <3>2. CallsOf(h)' /\ (Stopping(h)' <=> Stopping(h))
        BY <2>1, <3>1 DEF Ordered, CallsOf, Stopping
      <3> QED  BY <2>1, <3>1, <3>2, OpenStays, OrderedStays
    <2>3. CASE Frame \/ MapChange
      BY <2>1, <2>3, GameThreadOrdered
    <2>4. ASSUME NEW g \in Handles, ClientStep(g) PROVE Ordered(h)'
      <3>1. CASE g # h
        BY <2>1, <2>4, <3>1, OthersOrdered
      <3>2. CASE g = h
        BY <2>1, <2>4, <3>2, QuietOrdered, SendOrdered, NetworkOrdered, CallStepOrdered
        DEF ClientStep
      <3> QED  BY <3>1, <3>2
    <2> QED  BY <2>2, <2>3, <2>4 DEF Next, ClientStep
  <1> QED  BY <1>1, LogStep DEF OrderOK

LEMMA InitOrder == Init => OrderOK
  <1> SUFFICES ASSUME Init PROVE OrderOK
    OBVIOUS
  <1>1. log = <<>> /\ DOMAIN log = {} /\ ended = {}
    BY DEF Init, Dispatcher!Init
  <1>2. ASSUME NEW h \in Handles PROVE Ordered(h)
    <2>1. ~Open(h)
      BY <1>1 DEF Open
    <2>2. \A t \in Threads : pc[h][t] = "idle" /\ call[h][t] = "none"
      BY DEF Init
    <2> QED
      BY <2>1, <2>2 DEF Ordered, CallsOf, OpensOnce, UpWhileReported, OpenMeansUp, Threads
  <1> QED  BY <1>1, <1>2 DEF OrderOK, StoppedIsEmpty, EndedInLog, ConnectsAlternate

LEMMA OrderHolds == Spec => []OrderOK
  <1>1. Inv /\ Seen!Inv /\ CausesOK /\ OrderOK /\ [Next]_vars => OrderOK'
    BY OrderStep, SeenTypes DEF CausesOK
  <1> QED  BY InitOrder, InvHolds, SeenInvHolds, CausesHold, <1>1, PTL DEF Spec

\* A plugin that is told of two connections of a client is told between them
\* that the first one ended, whichever of Paho's threads ended it and whatever
\* request failed meanwhile: the handlers of two threads never overtake each
\* other on the way to the queue.
THEOREM ConnectsAreSeparated == Spec => []ConnectsAlternate
  <1>1. OrderOK => ConnectsAlternate
    BY DEF OrderOK
  <1> QED  BY OrderHolds, <1>1, PTL

\* Every reachable state has the types that TypeOK states.
THEOREM TypeCorrect == Spec => []TypeOK
  <1>1. Inv /\ Seen!Inv /\ OrderOK => TypeOK
    <2> SUFFICES ASSUME Inv, Seen!Inv, OrderOK PROVE TypeOK
      OBVIOUS
    <2>1. Dispatcher!TypeOK
      BY DEF Inv, HandlesOK, Seen!Inv, Seen!TypeOK, Seen!CallbackEvent, Seen!FramePcs,
             Dispatcher!TypeOK, Dispatcher!CallbackEvent, Dispatcher!FramePcs
    <2>2. Calls \cup {"none"} = Kinds \cup Answers \cup {"none"}
      BY DEF Calls
    <2> QED
      BY <2>1, <2>2 DEF TypeOK, Inv, ThreadsOK, PahoOK, CountsOK, Phases, OrderOK, EndedInLog
  <1> QED  BY InvHolds, SeenInvHolds, OrderHolds, <1>1, PTL

-----------------------------------------------------------------------------
(* Every client keeps ClientContract.                                      *)

Life(h) ==
    IF phase[h] = "freed" THEN "gone" ELSE IF Stopping(h) THEN "closed" ELSE "open"

Purpose(h, t) ==
    IF pc[h][t] # "run" THEN "none" ELSE IF call[h][t] \in Answers THEN "answer" ELSE "event"

Serving(h) == [t \in Threads |-> Purpose(h, t)]

Answering(h) == Cardinality(Inside(h, Answers))

Owed(h) == Requested(h) + Answering(h)

Contract(h) == INSTANCE ClientContract WITH
    life <- Life(h), bound <- TRUE, serving <- Serving(h), owed <- Owed(h)

\* The contract sees only the calls, the queued actions and the life of a client.
LEMMA Unseen ==
    ASSUME NEW h \in Handles, UNCHANGED <<pc[h], call[h], actions[h]>>, Life(h)' = Life(h)
    PROVE  UNCHANGED (Contract(h)!vars)
  <1>1. Serving(h)' = Serving(h) /\ Inside(h, Answers)' = Inside(h, Answers)
    BY DEF Serving, Purpose, Inside
  <1>2. Requested(h)' = Requested(h) /\ Answering(h)' = Answering(h)
    BY <1>1 DEF Requested, Answering
  <1> QED  BY <1>1, <1>2 DEF Contract!vars, Owed

LEMMA OwedTypes ==
    ASSUME Inv, NEW h \in Handles
    PROVE  Requested(h) \in Nat /\ Answering(h) \in Nat /\ Answering(h)' \in Nat
  <1>1. actions[h] \in Seq({"connect", "disconnect"})
    BY DEF Inv, PahoOK
  <1> QED  BY <1>1, PositionsFinite, InsideType DEF Requested, Answering

\* What the threads in a client serve when one of them moves.
LEMMA ServingIs ==
    ASSUME NEW h \in Handles, NEW t \in Threads,
           \A u \in Threads \ {t} : pc'[h][u] = pc[h][u] /\ call'[h][u] = call[h][u]
    PROVE  /\ Serving(h)[t] = Purpose(h, t)
           /\ Serving(h)' = [Serving(h) EXCEPT ![t] = Purpose(h, t)']
           /\ Purpose(h, t)' = Purpose(h, t) => Serving(h)' = Serving(h)
  <1>1. \A u \in Threads : u # t => Purpose(h, u)' = Purpose(h, u)
    BY DEF Purpose
  <1> QED  BY <1>1 DEF Serving

\* A thread comes into the client: it serves nothing yet, and an answer is in
\* its hands.
LEMMA EnterSeen ==
    ASSUME Inv, NEW h \in Handles, NEW t \in Threads, NEW k \in Calls, Enter(h, t, k),
           pc[h][t] = "idle"
    PROVE  /\ Serving(h)' = Serving(h)
           /\ Answering(h)' = Answering(h) + (IF k \in Answers THEN 1 ELSE 0)
  <1>1. /\ \A u \in Threads \ {t} : pc'[h][u] = pc[h][u] /\ call'[h][u] = call[h][u]
        /\ pc'[h][t] = "copy"
    BY DEF Enter, Inv, ThreadsOK
  <1>2. Serving(h)' = Serving(h)
    BY <1>1, ServingIs DEF Purpose
  <1> QED  BY <1>2, EnterInside DEF Answering

LEMMA LeaveSeen ==
    ASSUME Inv, NEW h \in Handles, NEW t \in Threads, Leave(h, t), pc[h][t] # "idle"
    PROVE  /\ Serving(h)[t] = Purpose(h, t)
           /\ Serving(h)' = [Serving(h) EXCEPT ![t] = "none"]
           /\ pc[h][t] # "run" => Serving(h)' = Serving(h)
           /\ Answering(h) = Answering(h)' + (IF call[h][t] \in Answers THEN 1 ELSE 0)
  <1>1. /\ \A u \in Threads \ {t} : pc'[h][u] = pc[h][u] /\ call'[h][u] = call[h][u]
        /\ pc'[h][t] = "idle"
    BY DEF Leave, Inv, ThreadsOK
  <1>2. /\ Serving(h)[t] = Purpose(h, t)
        /\ Serving(h)' = [Serving(h) EXCEPT ![t] = "none"]
        /\ pc[h][t] # "run" => Serving(h)' = Serving(h)
    BY <1>1, ServingIs DEF Purpose
  <1> QED  BY <1>2, LeaveInside DEF Answering

\* A handler starts or returns, or is not copied because the client is closed.
LEMMA CallStepKeeps ==
    ASSUME Inv, NEW h \in Handles, NEW t \in Threads, CallStep(h, t)
    PROVE  [Contract(h)!Next]_(Contract(h)!vars)
  <1>1. Life(h)' = Life(h) /\ Requested(h)' = Requested(h)
    BY DEF CallStep, CopyHandler, RunHandler, Life, Stopping, Requested, pahoVars
  <1>2. phase[h] # "freed"
    <2>1. pc[h][t] # "idle"
      BY DEF CallStep, CopyHandler, RunHandler
    <2> QED  BY <2>1 DEF Inv, ThreadsOK, QuietAfterWait, FreedIsIdle, Threads, Workers
  <1>3. CASE CopyHandler(h, t) /\ Stopping(h)
    <2>1. Leave(h, t) /\ pc[h][t] = "copy"
      BY <1>3 DEF CopyHandler
    <2>2. Answering(h) = Answering(h)' + (IF call[h][t] \in Answers THEN 1 ELSE 0)
      BY <2>1, LeaveSeen
    <2>3. Serving(h)' = Serving(h)
      BY <2>1, LeaveSeen
    <2>4. Life(h) = "closed"
      BY <1>2, <1>3 DEF Life
    <2>5. CASE call[h][t] \in Answers
      <3>1. Answering(h) = Answering(h)' + 1
        BY <2>2, <2>5
      <3>2. Owed(h) > 0 /\ Owed(h)' = Owed(h) - 1
        BY <1>1, <3>1, OwedTypes DEF Owed
      <3>3. Contract(h)!Excuse
        BY <1>1, <2>3, <2>4, <3>2 DEF Contract!Excuse
      <3> QED  BY <3>3 DEF Contract!Next
    <2>6. CASE call[h][t] \notin Answers
      <3>1. Answering(h)' = Answering(h)
        BY <2>2, <2>6, OwedTypes
      <3> QED  BY <1>1, <2>3, <3>1 DEF Contract!vars, Owed
    <2> QED  BY <2>5, <2>6
  <1>4. CASE CopyHandler(h, t) /\ ~Stopping(h)
    <2>1. pc' = [pc EXCEPT ![h][t] = "run"] /\ UNCHANGED call /\ pc[h][t] = "copy"
      BY <1>4 DEF CopyHandler
    <2>2. /\ \A u \in Threads \ {t} : pc'[h][u] = pc[h][u]
          /\ pc'[h][t] = "run"
      BY <2>1 DEF Inv, ThreadsOK
    <2>3. /\ Serving(h)[t] = Purpose(h, t)
          /\ Serving(h)' = [Serving(h) EXCEPT ![t] = Purpose(h, t)']
      BY <2>1, <2>2, ServingIs
    <2>4. Inside(h, Answers)' = Inside(h, Answers)
      BY <2>1, <2>2 DEF Inside
    <2>5. Owed(h)' = Owed(h)
      BY <1>1, <2>4 DEF Owed, Answering
    <2>6. Life(h) = "open"
      BY <1>2, <1>4 DEF Life
    <2>7. Purpose(h, t) = "none" /\ Purpose(h, t)' \in {"event", "answer"}
      BY <2>1, <2>2 DEF Purpose
    <2>8. Contract(h)!Start(t, Purpose(h, t)')
      BY <1>1, <2>3, <2>5, <2>6, <2>7 DEF Contract!Start
    <2> QED  BY <2>7, <2>8 DEF Contract!Next
  <1>5. CASE RunHandler(h, t)
    <2>1. Leave(h, t) /\ pc[h][t] = "run"
      BY <1>5 DEF RunHandler
    <2>2. /\ Serving(h)[t] = Purpose(h, t)
          /\ Serving(h)' = [Serving(h) EXCEPT ![t] = "none"]
          /\ Answering(h) = Answering(h)' + (IF call[h][t] \in Answers THEN 1 ELSE 0)
      BY <2>1, LeaveSeen
    <2>3. CASE call[h][t] \in Answers
      <3>1. Answering(h) = Answering(h)' + 1
        BY <2>2, <2>3
      <3>2. Owed(h) > 0 /\ Owed(h)' = Owed(h) - 1
        BY <1>1, <3>1, OwedTypes DEF Owed
      <3>3. Contract(h)!Settle(t)
        BY <1>1, <2>1, <2>2, <2>3, <3>2 DEF Contract!Settle, Purpose
      <3> QED  BY <3>3 DEF Contract!Next
    <2>4. CASE call[h][t] \notin Answers
      <3>1. Answering(h) = Answering(h)'
        BY <2>2, <2>4, OwedTypes
      <3>2. Contract(h)!ReturnFromEvent(t)
        BY <1>1, <2>1, <2>2, <2>4, <3>1 DEF Contract!ReturnFromEvent, Purpose, Owed
      <3> QED  BY <3>2 DEF Contract!Next
    <2> QED  BY <2>3, <2>4
  <1> QED  BY <1>3, <1>4, <1>5 DEF CallStep

\* What plugins ask of the client.
LEMMA NativesKeep ==
    ASSUME Inv, Fresh, NEW h \in Handles, Natives(h)
    PROVE  [Contract(h)!Next]_(Contract(h)!vars)
  <1> USE DEF clientVars, pahoVars, threadVars, causeVars
  <1>1. CASE \E k \in Watched : SetCallback(h, k)
    BY <1>1, Unseen DEF SetCallback, Life, Stopping
  <1>2. CASE MakeClient(h) \/ DestroyClient(h)
    <2>1. UNCHANGED <<pc, call, actions>>
      BY <1>2 DEF MakeClient, DestroyClient
    <2>2. phase[h] \in {"none", "alive"} /\ phase'[h] \in {"alive", "stop"}
      <3>1. CASE MakeClient(h)
        BY <3>1 DEF MakeClient, Dispatcher!MakeClient, Fresh, Inv, ThreadsOK
      <3>2. CASE DestroyClient(h)
        BY <3>2 DEF DestroyClient, Dispatcher!DestroyClient, Inv, HandlesOK, ThreadsOK
      <3> QED  BY <1>2, <3>1, <3>2
    <2>3. Life(h)' = Life(h)
      BY <2>2 DEF Life, Stopping
    <2> QED  BY <2>1, <2>3, Unseen
  <1>3. CASE Connect(h)
    <2>1. UNCHANGED <<phase, pc, call>> /\ actions' = [actions EXCEPT ![h] = Append(@, "connect")]
      BY <1>3 DEF Connect, Uses
    <2>2. Serving(h)' = Serving(h) /\ Inside(h, Answers)' = Inside(h, Answers)
      BY <2>1 DEF Serving, Purpose, Inside
    <2>3. Requested(h)' = Requested(h)
      <3>1. /\ Requested(h)' = Requested(h) + (IF "connect" = "disconnect" THEN 1 ELSE 0)
            /\ Requested(h) \in Nat
        BY <2>1, RequestedAppend
      <3> QED  BY <3>1
    <2> QED  BY <2>1, <2>2, <2>3 DEF Contract!vars, Owed, Answering, Life, Stopping
  <1>4. CASE Disconnect(h)
    <2>1. Life(h) = "open" /\ Life(h)' = Life(h)
      BY <1>4 DEF Disconnect, Uses, Inv, HandlesOK, Life, Stopping
    <2>2. Owed(h)' = Owed(h) + 1 /\ Serving(h)' = Serving(h)
      <3>1. CASE actions' = [actions EXCEPT ![h] = Append(@, "disconnect")] /\ UNCHANGED <<pc, call>>
        <4>1. Requested(h)' = Requested(h) + 1
          BY <3>1, RequestedAppend
        <4>2. Serving(h)' = Serving(h) /\ Inside(h, Answers)' = Inside(h, Answers)
          BY <3>1 DEF Serving, Purpose, Inside
        <4> QED  BY <4>1, <4>2, OwedTypes DEF Owed, Answering
      <3>2. CASE Enter(h, "game", "error") /\ UNCHANGED actions
        <4>1. pc[h]["game"] = "idle"
          BY <1>4 DEF Disconnect, Uses, RunsPawn, NotInNative
        <4>2. "game" \in Threads /\ "error" \in Calls /\ "error" \in Answers
          BY DEF Threads, Calls, Answers
        <4>3. Serving(h)' = Serving(h) /\ Answering(h)' = Answering(h) + 1
          BY <3>2, <4>1, <4>2, EnterSeen
        <4>4. Requested(h)' = Requested(h)
          BY <3>2 DEF Requested
        <4> QED  BY <4>3, <4>4, OwedTypes DEF Owed
      <3> QED  BY <1>4, <3>1, <3>2 DEF Disconnect
    <2>3. Contract(h)!Request
      BY <2>1, <2>2 DEF Contract!Request
    <2> QED  BY <2>3 DEF Contract!Next
  <1> QED  BY <1>1, <1>2, <1>3, <1>4 DEF Natives

\* The client is closed by setting m_stopping and goes when nothing is left.
LEMMA DestructorKeeps ==
    ASSUME Inv, NEW h \in Handles, Destructor(h)
    PROVE  [Contract(h)!Next]_(Contract(h)!vars)
  <1> USE DEF pahoVars, threadVars
  <1>1. ASSUME UNCHANGED <<pc, call, actions>>
        PROVE  Serving(h)' = Serving(h) /\ Owed(h)' = Owed(h)
    <2>1. Serving(h)' = Serving(h) /\ Inside(h, Answers)' = Inside(h, Answers)
      BY <1>1 DEF Serving, Purpose, Inside
    <2> QED  BY <1>1, <2>1 DEF Owed, Requested, Answering
  <1>2. CASE SetStopping(h)
    <2>1. phase[h] = "stop" /\ phase'[h] = "wait" /\ UNCHANGED <<pc, call, actions>>
      BY <1>2 DEF SetStopping, Inv, ThreadsOK
    <2>2. Life(h) = "open" /\ Life(h)' = "closed"
      BY <2>1 DEF Life, Stopping
    <2>3. Contract(h)!Close
      BY <1>1, <2>1, <2>2 DEF Contract!Close
    <2> QED  BY <2>3 DEF Contract!Next
  <1>3. CASE PahoDestroy(h)
    <2>1. phase[h] = "wait" /\ phase'[h] = "cancel" /\ UNCHANGED <<pc, call, actions>>
      BY <1>3 DEF PahoDestroy, Inv, ThreadsOK
    <2>2. Life(h)' = Life(h)
      BY <2>1 DEF Life, Stopping
    <2> QED  BY <2>1, <2>2, Unseen
  <1>4. CASE CancelAction(h)
    <2>1. /\ phase[h] = "cancel" /\ UNCHANGED phase
          /\ pc[h]["game"] = "idle" /\ actions[h] # <<>>
          /\ actions' = [actions EXCEPT ![h] = Tail(@)]
          /\ \/ Head(actions[h]) = "disconnect" /\ Enter(h, "game", "failure")
             \/ UNCHANGED <<pc, call>>
      BY <1>4 DEF CancelAction
    <2>2. Life(h) = "closed" /\ Life(h)' = Life(h)
      BY <2>1 DEF Life, Stopping
    <2>3. /\ Requested(h) = Requested(h)' + (IF Head(actions[h]) = "disconnect" THEN 1 ELSE 0)
          /\ Requested(h)' \in Nat
      BY <2>1, RequestedTail
    <2>4. CASE Head(actions[h]) = "disconnect" /\ Enter(h, "game", "failure")
      <3>1. "game" \in Threads /\ "failure" \in Calls /\ "failure" \in Answers
        BY DEF Threads, Calls, Answers
      <3>2. Serving(h)' = Serving(h) /\ Answering(h)' = Answering(h) + 1
        BY <2>1, <2>4, <3>1, EnterSeen
      <3>3. Requested(h) = Requested(h)' + 1
        BY <2>3, <2>4
      <3>4. Owed(h)' = Owed(h)
        BY <2>3, <3>2, <3>3, OwedTypes DEF Owed
      <3> QED  BY <2>2, <3>2, <3>4 DEF Contract!vars
    <2>5. CASE UNCHANGED <<pc, call>>
      <3>1. Serving(h)' = Serving(h) /\ Answering(h)' = Answering(h)
        <4>1. Inside(h, Answers)' = Inside(h, Answers)
          BY <2>5 DEF Inside
        <4> QED  BY <2>5, <4>1 DEF Serving, Purpose, Answering
      <3>2. CASE Head(actions[h]) = "disconnect"
        <4>1. Requested(h) = Requested(h)' + 1
          BY <2>3, <3>2
        <4>2. Owed(h) > 0 /\ Owed(h)' = Owed(h) - 1
          BY <2>3, <3>1, <4>1, OwedTypes DEF Owed
        <4>3. Contract(h)!Excuse
          BY <2>2, <3>1, <4>2 DEF Contract!Excuse
        <4> QED  BY <4>3 DEF Contract!Next
      <3>3. CASE Head(actions[h]) # "disconnect"
        <4>1. Requested(h)' = Requested(h)
          BY <2>3, <3>3
        <4> QED  BY <2>2, <3>1, <4>1 DEF Contract!vars, Owed
      <3> QED  BY <3>2, <3>3
    <2> QED  BY <2>1, <2>4, <2>5
  <1>5. CASE FreeMembers(h)
    <2>1. /\ phase[h] = "cancel" /\ phase'[h] = "freed" /\ UNCHANGED <<pc, call, actions>>
          /\ pc[h]["game"] = "idle" /\ actions[h] = <<>>
      BY <1>5 DEF FreeMembers, Inv, ThreadsOK
    <2>2. \A t \in Threads : pc[h][t] = "idle"
      BY <2>1 DEF Inv, ThreadsOK, QuietAfterWait, Threads, Workers
    <2>3. (\A t \in Threads : Serving(h)[t] = "none") /\ Inside(h, Answers) = {} /\ Positions(actions[h], "disconnect") = {}
      BY <2>1, <2>2 DEF Serving, Purpose, Inside, Positions
    <2>4. Owed(h) = 0
      BY <2>3, FS_EmptySet DEF Owed, Requested, Answering
    <2>5. Life(h) = "closed" /\ Life(h)' = "gone"
      BY <2>1 DEF Life, Stopping
    <2>6. Contract(h)!Vanish
      BY <1>1, <2>1, <2>3, <2>4, <2>5 DEF Contract!Vanish
    <2> QED  BY <2>6 DEF Contract!Next
  <1> QED  BY <1>2, <1>3, <1>4, <1>5 DEF Destructor

\* Paho moves a request from its queue to the thread that answers it.
LEMMA PahoKeeps ==
    ASSUME Inv, NEW h \in Handles, SendThread(h) \/ Network(h)
    PROVE  UNCHANGED (Contract(h)!vars)
  <1> USE DEF pahoVars, threadVars
  <1>1. Life(h)' = Life(h)
    BY DEF SendThread, ProcessConnect, DisconnectSucceeds, DisconnectFails, TakesAction, PahoOnly,
           Network, ConnectionUp, ConnectionLost, ServerDisconnect, LinkChanges,
           ConnectionRefused, MessageArrived, Life, Stopping
  <1>2. /\ "recv" \in Threads /\ "send" \in Threads
        /\ Kinds \subseteq Calls /\ {"success", "failure"} \subseteq Calls
        /\ {"success", "failure"} \subseteq Answers
        /\ \A k \in Kinds : k \notin Answers
    BY DEF Threads, Calls, Kinds, Answers
  <1>3. CASE ConnectionRefused(h)
    BY <1>1, <1>3, Unseen DEF ConnectionRefused
  <1>4. CASE ConnectionUp(h) \/ ConnectionLost(h) \/ ServerDisconnect(h) \/ MessageArrived(h)
    <2>1. /\ \E k \in Kinds : Enter(h, "recv", k)
          /\ pc[h]["recv"] = "idle" /\ UNCHANGED actions
      BY <1>4
      DEF ConnectionUp, ConnectionLost, ServerDisconnect, LinkChanges, MessageArrived, Kinds
    <2>2. Serving(h)' = Serving(h) /\ Answering(h)' = Answering(h)
      BY <1>2, <2>1, EnterSeen, OwedTypes
    <2> QED  BY <1>1, <2>1, <2>2 DEF Contract!vars, Owed, Requested
  <1>5. ASSUME NEW a, TakesAction(h, a)
        PROVE  /\ Requested(h) = Requested(h)' + (IF a = "disconnect" THEN 1 ELSE 0)
               /\ Requested(h)' \in Nat
               /\ pc[h]["send"] = "idle"
    BY <1>5, RequestedTail DEF TakesAction
  <1>6. CASE ProcessConnect(h)
    <2>1. TakesAction(h, "connect") /\ UNCHANGED <<pc, call>>
      BY <1>6 DEF ProcessConnect
    <2>2. Requested(h)' = Requested(h)
      BY <1>5, <2>1
    <2>3. Serving(h)' = Serving(h) /\ Inside(h, Answers)' = Inside(h, Answers)
      BY <2>1 DEF Serving, Purpose, Inside
    <2> QED  BY <1>1, <2>2, <2>3 DEF Contract!vars, Owed, Answering
  <1>7. CASE DisconnectSucceeds(h) \/ DisconnectFails(h)
    <2>1. TakesAction(h, "disconnect") /\ \E k \in {"success", "failure"} : Enter(h, "send", k)
      BY <1>7 DEF DisconnectSucceeds, DisconnectFails
    <2>2. /\ Requested(h) = Requested(h)' + 1 /\ Requested(h)' \in Nat
          /\ pc[h]["send"] = "idle"
      BY <1>5, <2>1
    <2>3. Serving(h)' = Serving(h) /\ Answering(h)' = Answering(h) + 1
      BY <1>2, <2>1, <2>2, EnterSeen
    <2>4. Owed(h)' = Owed(h)
      BY <2>2, <2>3, OwedTypes DEF Owed
    <2> QED  BY <1>1, <2>3, <2>4 DEF Contract!vars
  <1> QED  BY <1>3, <1>4, <1>6, <1>7 DEF SendThread, Network

\* Each client of the module implements ClientContract, whatever frames, map
\* changes and the other clients do meanwhile: the destruction by mqtt_destroy
\* or by the unloading starts no handler after m_stopping is set, and frees a
\* client only when no handler runs and every request to disconnect is settled.
THEOREM ClientsKeepContract ==
    ASSUME NEW h \in Handles
    PROVE  Spec => Contract(h)!Spec
  <1>1. Init => Contract(h)!Init
    <2> SUFFICES ASSUME Init PROVE Contract(h)!Init
      OBVIOUS
    <2>1. Life(h) = "open"
      BY DEF Init, Life, Stopping
    <2>2. Serving(h) = [t \in Threads |-> "none"] /\ Inside(h, Answers) = {} /\ Positions(actions[h], "disconnect") = {}
      BY DEF Init, Serving, Purpose, Inside, Positions
    <2>3. Owed(h) = 0
      BY <2>2, FS_EmptySet DEF Owed, Requested, Answering
    <2> QED  BY <2>1, <2>2, <2>3 DEF Contract!Init
  <1>2. ASSUME Inv, CausesOK, [Next]_vars PROVE [Contract(h)!Next]_(Contract(h)!vars)
    <2>1. CASE UNCHANGED vars
      BY <2>1, Unseen DEF vars, clientVars, pahoVars, threadVars, Life, Stopping
    <2>2. CASE Frame \/ MapChange
      <3>1. UNCHANGED <<pc[h], call[h], actions[h]>>
        BY <1>2, <2>2, GameThreadTouchesLittle
      <3>2. Life(h)' = Life(h)
        <4>1. phase'[h] = phase[h] \/ (phase[h] = "alive" /\ phase'[h] = "stop")
          <5>1. CASE FinishUnloading
            BY <1>2, <5>1
            DEF FinishUnloading, UnloadingStep, UnloadingSteps, ResetClients, Inv, HandlesOK
          <5>2. CASE ~FinishUnloading
            BY <1>2, <2>2, <5>2, GameThreadTouchesLittle
          <5> QED  BY <5>1, <5>2
        <4> QED  BY <4>1 DEF Life, Stopping
      <3> QED  BY <3>1, <3>2, Unseen
    <2>3. CASE ClientStep(h)
      BY <1>2, <2>3, NativesKeep, DestructorKeeps, PahoKeeps, CallStepKeeps DEF ClientStep, CausesOK
    <2>4. ASSUME NEW g \in Handles, g # h, ClientStep(g)
          PROVE  UNCHANGED (Contract(h)!vars)
      <3>1. Untouched(h)
        BY <1>2, <2>4, OthersUntouched
      <3> QED  BY <3>1, Unseen DEF Untouched, Life, Stopping
    <2> QED  BY <1>2, <2>1, <2>2, <2>3, <2>4 DEF Next, ClientStep
  <1> QED  BY <1>1, <1>2, InvHolds, CausesHold, PTL DEF Spec, Contract!Spec

-----------------------------------------------------------------------------
(* No event comes from nowhere: a connect causes two callbacks at most,    *)
(* that it came up and that it ended, a request and a message one each.    *)
(* Possible counts the events a client may still cause by what it was      *)
(* asked so far, and Units adds them up over the clients.                  *)

LinkPossible(h) ==
    IF link[h] = "connecting" THEN 2 ELSE IF link[h] = "up" THEN 1 ELSE 0

Connects(h) == Cardinality(Positions(actions[h], "connect"))

Inner(h) == Cardinality(Inside(h, Calls))

Possible(h) == Inner(h) + Requested(h) + 2 * Connects(h) + LinkPossible(h)

Outlook == [h \in Handles |-> Possible(h)]

Units(f) == {u \in Handles \X Nat : u[2] \in 1..f[u[1]]}

Caused == 2 * connects + requests + messages

BoundOK ==
    /\ IsFiniteSet(Units(Outlook))
    /\ Len(log) + Cardinality(Units(Outlook)) <= Caused

\* A sum changes with the one number that does.
LEMMA SumMoves ==
    ASSUME NEW f \in [Handles -> Nat], NEW g \in [Handles -> Nat], NEW h \in Handles,
           \A k \in Handles \ {h} : g[k] = f[k], IsFiniteSet(Units(f))
    PROVE  /\ IsFiniteSet(Units(g))
           /\ Cardinality(Units(f)) \in Nat /\ Cardinality(Units(g)) \in Nat
           /\ Cardinality(Units(g)) + f[h] = Cardinality(Units(f)) + g[h]
           /\ f[h] <= Cardinality(Units(f))
  <1> DEFINE Rest == {u \in Units(f) : u[1] # h}
             Part(n) == {h} \X (1..n)
  <1>1. ASSUME NEW n \in Nat
        PROVE  IsFiniteSet(Part(n)) /\ Cardinality(Part(n)) = n
    <2>1. IsFiniteSet({h}) /\ Cardinality({h}) = 1
      BY FS_Singleton
    <2>2. IsFiniteSet(1..n) /\ Cardinality(1..n) = n
      <3>1. 1 \in Int /\ n \in Int
        OBVIOUS
      <3>2. IsFiniteSet(1..n) /\ Cardinality(1..n) = IF 1 > n THEN 0 ELSE n - 1 + 1
        BY <3>1, FS_Interval
      <3> QED  BY <3>2
    <2>3. /\ IsFiniteSet({h} \X (1..n))
          /\ Cardinality({h} \X (1..n)) = Cardinality({h}) * Cardinality(1..n)
      BY <2>1, <2>2, FS_Product
    <2> QED  BY <2>1, <2>2, <2>3
  <1>2. Units(f) = Rest \cup Part(f[h])
    BY DEF Units
  <1>3. Units(g) = Rest \cup Part(g[h])
    BY DEF Units
  <1>4. Rest \cap Part(f[h]) = {} /\ Rest \cap Part(g[h]) = {}
    OBVIOUS
  <1>5. IsFiniteSet(Rest) /\ Cardinality(Rest) \in Nat
    <2>1. Rest \in SUBSET Units(f)
      OBVIOUS
    <2> QED  BY <2>1, FS_Subset, FS_CardinalityType
  <1>6. f[h] \in Nat /\ g[h] \in Nat /\ Cardinality({}) = 0
    BY FS_EmptySet
  <1>7. /\ IsFiniteSet(Part(f[h])) /\ Cardinality(Part(f[h])) = f[h]
        /\ IsFiniteSet(Part(g[h])) /\ Cardinality(Part(g[h])) = g[h]
    BY <1>1, <1>6
  <1> HIDE DEF Rest, Part
  <1>8. Cardinality(Units(f)) = Cardinality(Rest) + f[h]
    <2>1. Cardinality(Rest \cup Part(f[h])) =
              Cardinality(Rest) + Cardinality(Part(f[h])) - Cardinality(Rest \cap Part(f[h]))
      BY <1>5, <1>7, FS_Union
    <2>2. Cardinality(Rest \cap Part(f[h])) = 0
      BY <1>4, <1>6
    <2>3. Units(f) = Rest \cup Part(f[h])
      BY <1>2
    <2> HIDE DEF Units
    <2> QED  BY <1>5, <1>6, <1>7, <2>1, <2>2, <2>3
  <1>9. Cardinality(Units(g)) = Cardinality(Rest) + g[h] /\ IsFiniteSet(Units(g))
    <2>1. /\ Cardinality(Rest \cup Part(g[h])) =
              Cardinality(Rest) + Cardinality(Part(g[h])) - Cardinality(Rest \cap Part(g[h]))
          /\ IsFiniteSet(Rest \cup Part(g[h]))
      BY <1>5, <1>7, FS_Union
    <2>2. Cardinality(Rest \cap Part(g[h])) = 0
      BY <1>4, <1>6
    <2>3. Units(g) = Rest \cup Part(g[h])
      BY <1>3
    <2> HIDE DEF Units
    <2> QED  BY <1>5, <1>6, <1>7, <2>1, <2>2, <2>3
  <1> QED  BY <1>5, <1>6, <1>8, <1>9

LEMMA PossibleTypes ==
    ASSUME Inv, NEW h \in Handles
    PROVE  /\ Inner(h) \in Nat /\ Inner(h)' \in Nat
           /\ Requested(h) \in Nat /\ Connects(h) \in Nat
           /\ LinkPossible(h) \in Nat /\ LinkPossible(h)' \in Nat
           /\ Possible(h) \in Nat
           /\ Caused \in Nat /\ Caused = 2 * connects + (requests + messages)
  <1>1. actions[h] \in Seq({"connect", "disconnect"})
    BY DEF Inv, PahoOK
  <1>2. Requested(h) \in Nat /\ Connects(h) \in Nat
    BY <1>1, PositionsFinite DEF Requested, Connects
  <1>3. Inner(h) \in Nat /\ Inner(h)' \in Nat
    BY InsideType DEF Inner
  <1>4. LinkPossible(h) \in Nat /\ LinkPossible(h)' \in Nat
    BY DEF LinkPossible
  <1>5. Caused \in Nat /\ Caused = 2 * connects + (requests + messages)
    BY DEF Inv, CountsOK, Caused
  <1> QED  BY <1>2, <1>3, <1>4, <1>5 DEF Possible

LEMMA ConnectsAppend ==
    ASSUME Inv, NEW h \in Handles, NEW a \in {"connect", "disconnect"},
           actions' = [actions EXCEPT ![h] = Append(@, a)]
    PROVE  /\ Connects(h)' = Connects(h) + (IF a = "connect" THEN 1 ELSE 0)
           /\ Connects(h)' \in Nat
  <1>1. actions[h] \in Seq({"connect", "disconnect"}) /\ actions'[h] = Append(actions[h], a)
    BY DEF Inv, PahoOK
  <1>2. Cardinality(Positions(Append(actions[h], a), "connect")) =
            Cardinality(Positions(actions[h], "connect")) + (IF a = "connect" THEN 1 ELSE 0)
    BY <1>1, CountAppend
  <1>3. Cardinality(Positions(actions[h], "connect")) \in Nat
    BY <1>1, PositionsFinite
  <1> QED  BY <1>1, <1>2, <1>3 DEF Connects

LEMMA ConnectsTail ==
    ASSUME Inv, NEW h \in Handles, actions[h] # <<>>,
           actions' = [actions EXCEPT ![h] = Tail(@)]
    PROVE  /\ Connects(h) = Connects(h)' + (IF Head(actions[h]) = "connect" THEN 1 ELSE 0)
           /\ Connects(h)' \in Nat
  <1>1. /\ actions[h] \in Seq({"connect", "disconnect"})
        /\ Tail(actions[h]) \in Seq({"connect", "disconnect"})
        /\ actions'[h] = Tail(actions[h])
    BY DEF Inv, PahoOK
  <1>2. Cardinality(Positions(actions[h], "connect")) =
            Cardinality(Positions(Tail(actions[h]), "connect"))
            + (IF Head(actions[h]) = "connect" THEN 1 ELSE 0)
    BY <1>1, CountTail
  <1>3. Cardinality(Positions(Tail(actions[h]), "connect")) \in Nat
    BY <1>1, PositionsFinite
  <1> QED  BY <1>1, <1>2, <1>3 DEF Connects

\* A step of h spends what was possible, or is a new cause.
Covered(h) ==
    /\ Possible(h)' \in Nat
    /\ Len(log') + Possible(h)' + Caused <= Len(log) + Possible(h) + Caused'

\* The log and the causes stay, and no more has become possible.
LEMMA CoveredIf ==
    ASSUME Inv, QueueTyped, NEW h \in Handles,
           UNCHANGED <<log, connects, requests, messages>>,
           Requested(h)' \in Nat, Connects(h)' \in Nat,
           Inner(h)' + Requested(h)' + 2 * Connects(h)' + LinkPossible(h)' <=
               Inner(h) + Requested(h) + 2 * Connects(h) + LinkPossible(h)
    PROVE  Covered(h)
  <1>1. Possible(h)' <= Possible(h) /\ Possible(h)' \in Nat
    BY PossibleTypes DEF Possible
  <1>2. Caused' = Caused /\ Len(log') = Len(log) /\ Len(log) \in Nat
    BY DEF Caused, QueueTyped
  <1>3. Possible(h) \in Nat /\ Caused \in Nat
    BY PossibleTypes
  <1>4. Len(log') + Possible(h)' + Caused <= Len(log) + Possible(h) + Caused'
    BY <1>1, <1>2, <1>3
  <1> QED  BY <1>1, <1>4 DEF Covered

\* The log stays, and what has become possible has a cause.
LEMMA CoveredByCause ==
    ASSUME Inv, QueueTyped, NEW h \in Handles, UNCHANGED log, NEW n \in Nat,
           Possible(h)' = Possible(h) + n, Caused' = Caused + n
    PROVE  Covered(h)
  <1>1. Len(log') = Len(log) /\ Len(log) \in Nat
    BY DEF QueueTyped
  <1>2. Possible(h) \in Nat /\ Caused \in Nat
    BY PossibleTypes
  <1>3. Possible(h)' \in Nat
    BY <1>2
  <1>4. Len(log') + Possible(h)' + Caused = Len(log) + Possible(h) + Caused'
    BY <1>1, <1>2
  <1>5. Len(log') + Possible(h)' + Caused \in Nat
    BY <1>1, <1>2, <1>3
  <1>6. Len(log') + Possible(h)' + Caused <= Len(log) + Possible(h) + Caused'
    BY <1>4, <1>5
  <1> QED  BY <1>3, <1>6 DEF Covered

LEMMA EnterInner ==
    ASSUME Inv, NEW h \in Handles, NEW t \in Threads, NEW k \in Calls, Enter(h, t, k),
           pc[h][t] = "idle"
    PROVE  Inner(h)' = Inner(h) + 1
  BY EnterInside DEF Inner

LEMMA LeaveInner ==
    ASSUME Inv, NEW h \in Handles, NEW t \in Threads, Leave(h, t), pc[h][t] # "idle"
    PROVE  Inner(h) = Inner(h)' + 1
  <1>1. call[h][t] \in Calls
    BY DEF Inv, ThreadsOK, CallsNamed
  <1> QED  BY <1>1, LeaveInside DEF Inner

LEMMA SameQueue ==
    ASSUME Inv, NEW h \in Handles, UNCHANGED actions
    PROVE  /\ Requested(h)' = Requested(h) /\ Connects(h)' = Connects(h)
           /\ Requested(h)' \in Nat /\ Connects(h)' \in Nat
  BY PossibleTypes DEF Requested, Connects

LEMMA SameThreads ==
    ASSUME NEW h \in Handles, UNCHANGED threadVars PROVE Inner(h)' = Inner(h)
  BY DEF Inner, Inside, threadVars

LEMMA CallStepCovered ==
    ASSUME Inv, QueueTyped, NEW h \in Handles, NEW t \in Threads, CallStep(h, t)
    PROVE  Covered(h)
  <1> USE DEF queueVars, pahoVars, causeVars
  <1>1. UNCHANGED <<link, actions, connects, requests, messages>>
    BY DEF CallStep, CopyHandler, RunHandler
  <1>2. /\ Requested(h)' = Requested(h) /\ Connects(h)' = Connects(h)
        /\ Requested(h)' \in Nat /\ Connects(h)' \in Nat
        /\ LinkPossible(h)' = LinkPossible(h)
    BY <1>1, SameQueue DEF LinkPossible
  <1>3. CASE CopyHandler(h, t)
    <2>1. Inner(h)' <= Inner(h)
      <3>1. CASE Leave(h, t)
        BY <1>3, <3>1, LeaveInner, PossibleTypes DEF CopyHandler
      <3>2. CASE pc' = [pc EXCEPT ![h][t] = "run"] /\ UNCHANGED call
        <4>1. Inside(h, Calls)' = Inside(h, Calls)
          BY <1>3, <3>2 DEF CopyHandler, Inside, Inv, ThreadsOK
        <4> QED  BY <4>1, PossibleTypes DEF Inner
      <3> QED  BY <1>3, <3>1, <3>2 DEF CopyHandler
    <2>2. UNCHANGED log
      BY <1>3 DEF CopyHandler
    <2>3. Inner(h)' + Requested(h)' + 2 * Connects(h)' + LinkPossible(h)' <=
              Inner(h) + Requested(h) + 2 * Connects(h) + LinkPossible(h)
      BY <1>2, <2>1, PossibleTypes
    <2> QED  BY <1>1, <1>2, <2>2, <2>3, CoveredIf
  <1>4. CASE RunHandler(h, t)
    <2>1. Inner(h) = Inner(h)' + 1
      BY <1>4, LeaveInner DEF RunHandler
    <2>2. /\ Possible(h)' \in Nat /\ Possible(h) = Possible(h)' + 1
          /\ Caused' = Caused
      BY <1>1, <1>2, <2>1, PossibleTypes DEF Possible, Caused
    <2>3. Len(log) \in Nat /\ (Len(log') = Len(log) + 1 \/ Len(log') = Len(log))
      BY <1>4 DEF RunHandler, Dispatcher!EnqueueCallback, QueueTyped
    <2>4. Possible(h) \in Nat /\ Caused \in Nat
      BY PossibleTypes
    <2> HIDE DEF Caused
    <2>5. Len(log') + Possible(h)' <= Len(log) + Possible(h)
      BY <2>2, <2>3, <2>4
    <2>6. Len(log') + Possible(h)' + Caused <= Len(log) + Possible(h) + Caused'
      BY <2>2, <2>3, <2>4, <2>5
    <2> QED  BY <2>2, <2>6 DEF Covered
  <1> QED  BY <1>3, <1>4 DEF CallStep

LEMMA NativesCovered ==
    ASSUME Inv, QueueTyped, NEW h \in Handles, Natives(h)
    PROVE  Covered(h)
  <1> USE DEF queueVars, pahoVars, causeVars
  <1>1. UNCHANGED <<log, link, messages>> /\ LinkPossible(h)' = LinkPossible(h)
    BY DEF Natives, MakeClient, SetCallback, Connect, Disconnect, Uses, DestroyClient, clientVars,
           Dispatcher!MakeClient, Dispatcher!SetCallback, Dispatcher!DestroyClient,
           Dispatcher!queueVars, LinkPossible
  <1>2. Len(log) \in Nat /\ connects \in Nat /\ requests \in Nat /\ messages \in Nat
    BY DEF QueueTyped, Inv, CountsOK
  <1>3. CASE MakeClient(h) \/ DestroyClient(h) \/ \E k \in Watched : SetCallback(h, k)
    <2>1. UNCHANGED <<actions, threadVars, connects, requests>>
      BY <1>3 DEF MakeClient, DestroyClient, SetCallback, clientVars
    <2>2. /\ Requested(h)' = Requested(h) /\ Connects(h)' = Connects(h)
          /\ Requested(h)' \in Nat /\ Connects(h)' \in Nat
          /\ Inner(h)' = Inner(h)
      BY <2>1, SameQueue, SameThreads
    <2>3. Inner(h)' + Requested(h)' + 2 * Connects(h)' + LinkPossible(h)' <=
              Inner(h) + Requested(h) + 2 * Connects(h) + LinkPossible(h)
      BY <1>1, <2>2, PossibleTypes
    <2> QED  BY <1>1, <2>1, <2>2, <2>3, CoveredIf
  <1>4. CASE Connect(h)
    <2>1. /\ actions' = [actions EXCEPT ![h] = Append(@, "connect")]
          /\ UNCHANGED <<threadVars, requests>> /\ connects' = connects + 1
      BY <1>4 DEF Connect
    <2>2. Requested(h)' = Requested(h) /\ Connects(h)' = Connects(h) + 1 /\ Inner(h)' = Inner(h)
      <3>1. Requested(h)' = Requested(h) + (IF "connect" = "disconnect" THEN 1 ELSE 0)
        BY <2>1, RequestedAppend
      <3>2. Connects(h)' = Connects(h) + (IF "connect" = "connect" THEN 1 ELSE 0)
        BY <2>1, ConnectsAppend
      <3> QED  BY <2>1, <3>1, <3>2, SameThreads, PossibleTypes
    <2>3. Possible(h)' = Possible(h) + 2 /\ Caused' = Caused + 2
      BY <1>1, <1>2, <2>1, <2>2, PossibleTypes DEF Possible, Caused
    <2> QED  BY <1>1, <2>3, CoveredByCause
  <1>5. CASE Disconnect(h)
    <2>1. UNCHANGED connects /\ requests' = requests + 1
      BY <1>5 DEF Disconnect
    <2>2. Possible(h)' = Possible(h) + 1
      <3>1. CASE actions' = [actions EXCEPT ![h] = Append(@, "disconnect")] /\ UNCHANGED threadVars
        <4>1. Requested(h)' = Requested(h) + 1
          BY <3>1, RequestedAppend
        <4>2. Connects(h)' = Connects(h)
          <5>1. Connects(h)' = Connects(h) + (IF "disconnect" = "connect" THEN 1 ELSE 0)
            BY <3>1, ConnectsAppend
          <5> QED  BY <5>1, PossibleTypes
        <4> QED  BY <1>1, <3>1, <4>1, <4>2, SameThreads, PossibleTypes DEF Possible
      <3>2. CASE Enter(h, "game", "error") /\ UNCHANGED actions
        <4>1. pc[h]["game"] = "idle"
          BY <1>5 DEF Disconnect, Uses, RunsPawn, NotInNative
        <4>2. "game" \in Threads /\ "error" \in Calls
          BY DEF Threads, Calls, Answers
        <4>3. Inner(h)' = Inner(h) + 1
          BY <3>2, <4>1, <4>2, EnterInner
        <4> QED  BY <1>1, <3>2, <4>3, SameQueue, PossibleTypes DEF Possible
      <3> QED  BY <1>5, <3>1, <3>2 DEF Disconnect
    <2>3. Caused' = Caused + 1
      BY <1>1, <1>2, <2>1 DEF Caused
    <2> QED  BY <1>1, <2>2, <2>3, CoveredByCause
  <1> QED  BY <1>3, <1>4, <1>5 DEF Natives

LEMMA DestructorCovered ==
    ASSUME Inv, QueueTyped, NEW h \in Handles, Destructor(h)
    PROVE  Covered(h)
  <1> USE DEF queueVars, pahoVars, causeVars
  <1>1. UNCHANGED <<log, connects, requests, messages>>
    BY DEF Destructor, SetStopping, PahoDestroy, CancelAction, FreeMembers
  <1>2. LinkPossible(h)' <= LinkPossible(h)
    BY DEF Destructor, SetStopping, PahoDestroy, CancelAction, FreeMembers, LinkPossible, Inv, PahoOK
  <1>3. CASE SetStopping(h) \/ PahoDestroy(h) \/ FreeMembers(h)
    <2>1. UNCHANGED <<actions, threadVars>>
      BY <1>3 DEF SetStopping, PahoDestroy, FreeMembers
    <2>2. /\ Requested(h)' = Requested(h) /\ Connects(h)' = Connects(h)
          /\ Requested(h)' \in Nat /\ Connects(h)' \in Nat
          /\ Inner(h)' = Inner(h)
      BY <2>1, SameQueue, SameThreads
    <2>3. Inner(h)' + Requested(h)' + 2 * Connects(h)' + LinkPossible(h)' <=
              Inner(h) + Requested(h) + 2 * Connects(h) + LinkPossible(h)
      BY <1>2, <2>2, PossibleTypes
    <2> QED  BY <1>1, <2>2, <2>3, CoveredIf
  <1>4. CASE CancelAction(h)
    <2>1. /\ actions[h] # <<>> /\ actions' = [actions EXCEPT ![h] = Tail(@)]
          /\ pc[h]["game"] = "idle"
          /\ \/ Head(actions[h]) = "disconnect" /\ Enter(h, "game", "failure")
             \/ UNCHANGED threadVars
      BY <1>4 DEF CancelAction
    <2>2. /\ Requested(h) = Requested(h)' + (IF Head(actions[h]) = "disconnect" THEN 1 ELSE 0)
          /\ Requested(h)' \in Nat
          /\ Connects(h)' \in Nat /\ Connects(h)' <= Connects(h)
      <3>1. /\ Requested(h) = Requested(h)' + (IF Head(actions[h]) = "disconnect" THEN 1 ELSE 0)
            /\ Requested(h)' \in Nat
        BY <2>1, RequestedTail
      <3>2. /\ Connects(h) = Connects(h)' + (IF Head(actions[h]) = "connect" THEN 1 ELSE 0)
            /\ Connects(h)' \in Nat
        BY <2>1, ConnectsTail
      <3>3. Connects(h)' <= Connects(h)
        BY <3>2
      <3> QED  BY <3>1, <3>2, <3>3
    <2>3. Inner(h)' + Requested(h)' <= Inner(h) + Requested(h)
      <3>1. CASE Head(actions[h]) = "disconnect" /\ Enter(h, "game", "failure")
        <4>1. "game" \in Threads /\ "failure" \in Calls
          BY DEF Threads, Calls, Answers
        <4>2. Inner(h)' = Inner(h) + 1
          BY <2>1, <3>1, <4>1, EnterInner
        <4>3. Requested(h) = Requested(h)' + 1
          BY <2>2, <3>1
        <4> QED  BY <2>2, <4>2, <4>3, PossibleTypes
      <3>2. CASE UNCHANGED threadVars
        <4>1. Requested(h)' <= Requested(h)
          BY <2>2, PossibleTypes
        <4> QED  BY <2>2, <3>2, <4>1, SameThreads, PossibleTypes
      <3> QED  BY <2>1, <3>1, <3>2
    <2>4. Inner(h)' + Requested(h)' + 2 * Connects(h)' + LinkPossible(h)' <=
              Inner(h) + Requested(h) + 2 * Connects(h) + LinkPossible(h)
      BY <1>2, <2>2, <2>3, PossibleTypes
    <2> QED  BY <1>1, <2>2, <2>4, CoveredIf
  <1> QED  BY <1>3, <1>4 DEF Destructor

LEMMA PahoCovered ==
    ASSUME Inv, QueueTyped, NEW h \in Handles, SendThread(h) \/ Network(h)
    PROVE  Covered(h)
  <1> USE DEF queueVars, pahoVars
  <1>1. UNCHANGED <<log, connects, requests>>
    BY DEF SendThread, ProcessConnect, DisconnectSucceeds, DisconnectFails, TakesAction, PahoOnly,
           Network, ConnectionUp, ConnectionLost, ServerDisconnect, LinkChanges,
           ConnectionRefused, MessageArrived
  <1>2. /\ "recv" \in Threads /\ "send" \in Threads
        /\ Kinds \subseteq Calls /\ {"success", "failure"} \subseteq Calls
    BY DEF Threads, Calls, Kinds, Answers
  <1>3. link \in [Handles -> {"down", "connecting", "up"}]
    BY DEF Inv, PahoOK
  <1>4. CASE ConnectionUp(h) \/ ConnectionLost(h) \/ ServerDisconnect(h)
    <2>1. /\ \E k \in Kinds : Enter(h, "recv", k)
          /\ pc[h]["recv"] = "idle" /\ UNCHANGED <<actions, messages>>
      BY <1>4 DEF ConnectionUp, ConnectionLost, ServerDisconnect, LinkChanges, Kinds
    <2>2. LinkPossible(h) = LinkPossible(h)' + 1
      BY <1>3, <1>4 DEF ConnectionUp, ConnectionLost, ServerDisconnect, LinkChanges, LinkPossible
    <2>3. Inner(h)' = Inner(h) + 1
      BY <1>2, <2>1, EnterInner
    <2>4. /\ Requested(h)' = Requested(h) /\ Connects(h)' = Connects(h)
          /\ Requested(h)' \in Nat /\ Connects(h)' \in Nat
      BY <2>1, SameQueue
    <2>5. Inner(h)' + Requested(h)' + 2 * Connects(h)' + LinkPossible(h)' <=
              Inner(h) + Requested(h) + 2 * Connects(h) + LinkPossible(h)
      BY <2>2, <2>3, <2>4, PossibleTypes
    <2> QED  BY <1>1, <2>1, <2>4, <2>5, CoveredIf
  <1>5. CASE ConnectionRefused(h)
    <2>1. UNCHANGED <<actions, threadVars, messages>>
      BY <1>5 DEF ConnectionRefused
    <2>2. LinkPossible(h)' <= LinkPossible(h)
      BY <1>3, <1>5 DEF ConnectionRefused, LinkPossible
    <2>3. /\ Requested(h)' = Requested(h) /\ Connects(h)' = Connects(h)
          /\ Requested(h)' \in Nat /\ Connects(h)' \in Nat
          /\ Inner(h)' = Inner(h)
      BY <2>1, SameQueue, SameThreads
    <2>4. Inner(h)' + Requested(h)' + 2 * Connects(h)' + LinkPossible(h)' <=
              Inner(h) + Requested(h) + 2 * Connects(h) + LinkPossible(h)
      BY <2>2, <2>3, PossibleTypes
    <2> QED  BY <1>1, <2>1, <2>3, <2>4, CoveredIf
  <1>6. CASE MessageArrived(h)
    <2>1. /\ Enter(h, "recv", "message") /\ pc[h]["recv"] = "idle"
          /\ UNCHANGED <<link, actions>> /\ messages' = messages + 1
      BY <1>6 DEF MessageArrived
    <2>2. Inner(h)' = Inner(h) + 1
      BY <1>2, <2>1, EnterInner DEF Kinds
    <2>3. Possible(h)' = Possible(h) + 1
      BY <2>1, <2>2, SameQueue, PossibleTypes DEF Possible, LinkPossible
    <2>4. Caused' = Caused + 1
      BY <1>1, <2>1 DEF Caused, Inv, CountsOK
    <2> QED  BY <1>1, <2>3, <2>4, CoveredByCause
  <1>7. ASSUME NEW a, TakesAction(h, a)
        PROVE  /\ Requested(h) = Requested(h)' + (IF a = "disconnect" THEN 1 ELSE 0)
               /\ Requested(h)' \in Nat
               /\ Connects(h) = Connects(h)' + (IF a = "connect" THEN 1 ELSE 0)
               /\ Connects(h)' \in Nat
               /\ pc[h]["send"] = "idle" /\ UNCHANGED messages
    <2>1. /\ actions[h] # <<>> /\ Head(actions[h]) = a
          /\ actions' = [actions EXCEPT ![h] = Tail(@)]
      BY <1>7 DEF TakesAction
    <2>2. /\ Requested(h) = Requested(h)' + (IF Head(actions[h]) = "disconnect" THEN 1 ELSE 0)
          /\ Requested(h)' \in Nat
      BY <2>1, RequestedTail
    <2>3. /\ Connects(h) = Connects(h)' + (IF Head(actions[h]) = "connect" THEN 1 ELSE 0)
          /\ Connects(h)' \in Nat
      BY <2>1, ConnectsTail
    <2> QED  BY <1>7, <2>1, <2>2, <2>3 DEF TakesAction
  <1>8. CASE ProcessConnect(h)
    <2>1. TakesAction(h, "connect") /\ UNCHANGED threadVars
      BY <1>8 DEF ProcessConnect
    <2>2. /\ Requested(h)' = Requested(h) /\ Connects(h) = Connects(h)' + 1
          /\ Requested(h)' \in Nat /\ Connects(h)' \in Nat
          /\ UNCHANGED messages
      BY <1>7, <2>1
    <2>3. Inner(h)' = Inner(h)
      BY <2>1, SameThreads
    <2>4. LinkPossible(h)' <= LinkPossible(h) + 2
      BY <1>3, <1>8 DEF ProcessConnect, LinkPossible
    <2>5. Inner(h)' + Requested(h)' + 2 * Connects(h)' + LinkPossible(h)' <=
              Inner(h) + Requested(h) + 2 * Connects(h) + LinkPossible(h)
      BY <2>2, <2>3, <2>4, PossibleTypes
    <2> QED  BY <1>1, <2>2, <2>5, CoveredIf
  <1>9. CASE DisconnectSucceeds(h) \/ DisconnectFails(h)
    <2>1. TakesAction(h, "disconnect") /\ \E k \in {"success", "failure"} : Enter(h, "send", k)
      BY <1>9 DEF DisconnectSucceeds, DisconnectFails
    <2>2. /\ Requested(h) = Requested(h)' + 1 /\ Connects(h)' = Connects(h)
          /\ Requested(h)' \in Nat /\ Connects(h)' \in Nat
          /\ pc[h]["send"] = "idle" /\ UNCHANGED messages
      BY <1>7, <2>1
    <2>3. Inner(h)' = Inner(h) + 1
      BY <1>2, <2>1, <2>2, EnterInner
    <2>4. LinkPossible(h)' <= LinkPossible(h)
      BY <1>3, <1>9 DEF DisconnectSucceeds, DisconnectFails, LinkPossible
    <2>5. Inner(h)' + Requested(h)' + 2 * Connects(h)' + LinkPossible(h)' <=
              Inner(h) + Requested(h) + 2 * Connects(h) + LinkPossible(h)
      BY <2>2, <2>3, <2>4, PossibleTypes
    <2> QED  BY <1>1, <2>2, <2>5, CoveredIf
  <1> QED  BY <1>4, <1>5, <1>6, <1>8, <1>9 DEF SendThread, Network

LEMMA UntouchedPossible ==
    ASSUME NEW h \in Handles, UNCHANGED <<link[h], actions[h], pc[h], call[h]>>
    PROVE  Possible(h)' = Possible(h)
  <1>1. Inside(h, Calls)' = Inside(h, Calls)
    BY DEF Inside
  <1> QED  BY <1>1 DEF Possible, Inner, Requested, Connects, LinkPossible

\* The log and what is still possible stay below what was caused.
LEMMA BoundStep ==
    ASSUME Inv, QueueTyped, QueueTyped', BoundOK, [Next]_vars
    PROVE  BoundOK'
  <1>1. Len(log) \in Nat
    BY DEF QueueTyped
  <1>2. Outlook \in [Handles -> Nat]
    BY PossibleTypes DEF Outlook
  <1>3. ASSUME \A h \in Handles : UNCHANGED <<link[h], actions[h], pc[h], call[h]>>,
               UNCHANGED <<connects, requests, messages>>,
               UNCHANGED log \/ log' = <<>>
        PROVE  BoundOK'
    <2>1. \A h \in Handles : Possible(h)' = Possible(h)
      BY <1>3, UntouchedPossible
    <2>2. Outlook' = Outlook
      BY <2>1 DEF Outlook
    <2>3. IsFiniteSet(Units(Outlook)) /\ Cardinality(Units(Outlook)) \in Nat
      BY FS_CardinalityType DEF BoundOK
    <2>4. Caused' = Caused
      BY <1>3 DEF Caused
    <2>5. Len(log') <= Len(log) /\ Len(log') \in Nat
      <3>1. CASE log' = <<>>
        <4>1. Len(log') = 0
          BY <3>1
        <4> QED  BY <1>1, <4>1
      <3>2. CASE UNCHANGED log
        BY <1>1, <3>2
      <3> QED  BY <1>3, <3>1, <3>2
    <2>6. Caused \in Nat
      BY DEF Caused, Inv, CountsOK
    <2>7. Len(log') + Cardinality(Units(Outlook)) <= Caused
      <3> HIDE DEF Caused
      <3> QED  BY <1>1, <2>3, <2>5, <2>6 DEF BoundOK
    <2> QED  BY <2>2, <2>3, <2>4, <2>7 DEF BoundOK, Units
  <1>4. CASE UNCHANGED vars
    BY <1>3, <1>4 DEF vars, queueVars, clientVars, pahoVars, threadVars, causeVars
  <1>5. CASE Frame \/ MapChange
    <2>1. UNCHANGED <<connects, requests, messages>> /\ (UNCHANGED log \/ log' = <<>>)
      BY <1>5
      DEF Frame, BeginFrame, TakeEvent, EndFrame, CallPawn, SkipEvent, PawnReturns, FrameStep,
          Dispatcher!BeginFrame, Dispatcher!TakeEvent, Dispatcher!EndFrame,
          Dispatcher!CallPawn, Dispatcher!SkipEvent, Dispatcher!PawnReturns,
          Dispatcher!queueVars, MapChange, OnPluginsLoaded, Dispatcher!OnPluginsLoaded,
          Dispatcher!StartCallbackDispatcher, OnPluginsUnloading, FinishUnloading,
          UnloadingStep, UnloadingSteps, ResetClients, StopDispatcher,
          Dispatcher!StopCallbackDispatcher, queueVars, clientVars, causeVars
    <2> QED  BY <1>3, <1>5, <2>1, GameThreadTouchesLittle
  <1>6. ASSUME NEW h \in Handles, ClientStep(h) PROVE BoundOK'
    <2>1. Covered(h)
      BY <1>6, NativesCovered, DestructorCovered, PahoCovered, CallStepCovered DEF ClientStep
    <2>2. ASSUME NEW g \in Handles \ {h} PROVE Possible(g)' = Possible(g)
      <3>1. Untouched(g)
        BY <1>6, OthersUntouched
      <3> QED  BY <3>1, UntouchedPossible DEF Untouched
    <2>3. /\ Outlook' \in [Handles -> Nat]
          /\ \A g \in Handles \ {h} : Outlook'[g] = Outlook[g]
          /\ Outlook[h] = Possible(h) /\ Outlook'[h] = Possible(h)'
      BY <2>1, <2>2, PossibleTypes DEF Outlook, Covered
    <2>4. /\ IsFiniteSet(Units(Outlook'))
          /\ Cardinality(Units(Outlook)) \in Nat /\ Cardinality(Units(Outlook')) \in Nat
          /\ Cardinality(Units(Outlook')) + Outlook[h] = Cardinality(Units(Outlook)) + Outlook'[h]
      <3> HIDE DEF Outlook
      <3> QED  BY <1>2, <2>3, SumMoves DEF BoundOK
    <2>5. Len(log') \in Nat /\ Caused \in Nat /\ Caused' \in Nat
      <3>1. Inv'
        BY NextInv
      <3>2. Len(log') \in Nat
        BY DEF QueueTyped
      <3>3. connects \in Nat /\ requests \in Nat /\ messages \in Nat
        BY DEF Inv, CountsOK
      <3>4. connects' \in Nat /\ requests' \in Nat /\ messages' \in Nat
        BY <3>1 DEF Inv, CountsOK
      <3>5. Caused \in Nat /\ Caused' = 2 * connects' + requests' + messages'
        BY <3>3 DEF Caused
      <3>6. 2 * connects' + requests' + messages' \in Nat
        <4>1. \A a, b, c \in Nat : 2 * a + b + c \in Nat
          OBVIOUS
        <4> QED  BY <3>4, <4>1
      <3> QED  BY <3>2, <3>5, <3>6
    <2>6. Len(log') + Cardinality(Units(Outlook')) <= Caused'
      <3> HIDE DEF Caused, Outlook
      <3>1. Len(log') + Possible(h)' + Caused <= Len(log) + Possible(h) + Caused'
        BY <2>1 DEF Covered
      <3>2. Len(log) + Cardinality(Units(Outlook)) <= Caused
        BY DEF BoundOK
      <3>3. Possible(h) \in Nat /\ Possible(h)' \in Nat
        BY <2>1, PossibleTypes DEF Covered
      <3>4. Cardinality(Units(Outlook')) + Possible(h) = Cardinality(Units(Outlook)) + Possible(h)'
        BY <2>3, <2>4
      <3> QED  BY <1>1, <2>4, <2>5, <3>1, <3>2, <3>3, <3>4
    <2> QED  BY <2>4, <2>6 DEF BoundOK, Units
  <1> QED  BY <1>4, <1>5, <1>6 DEF Next, ClientStep

LEMMA InitBound == Init => BoundOK
  <1> SUFFICES ASSUME Init PROVE BoundOK
    OBVIOUS
  <1>1. ASSUME NEW h \in Handles PROVE Possible(h) = 0
    <2>1. /\ Inside(h, Calls) = {}
          /\ Positions(actions[h], "disconnect") = {} /\ Positions(actions[h], "connect") = {}
      BY DEF Init, Inside, Positions
    <2>2. Inner(h) = 0 /\ Requested(h) = 0 /\ Connects(h) = 0
      BY <2>1, FS_EmptySet DEF Inner, Requested, Connects
    <2>3. LinkPossible(h) = 0
      BY DEF Init, LinkPossible
    <2> QED  BY <2>2, <2>3 DEF Possible
  <1>2. \A h \in Handles : Outlook[h] = 0
    BY <1>1 DEF Outlook
  <1>3. Units(Outlook) = {}
    BY <1>2 DEF Units
  <1>4. Len(log) = 0 /\ Caused = 0
    BY DEF Init, Dispatcher!Init, Caused
  <1> QED  BY <1>3, <1>4, FS_EmptySet DEF BoundOK

LEMMA BoundHolds == Spec => []BoundOK
  <1>1. Inv /\ QueueTyped /\ QueueTyped' /\ BoundOK /\ [Next]_vars => BoundOK'
    BY BoundStep
  <1>2. Seen!Inv => QueueTyped
    BY SeenTypes
  <1> QED  BY InitBound, InvHolds, SeenInvHolds, <1>1, <1>2, PTL DEF Spec

\* What a thread inside a client has in its hands was caused and is not yet in
\* the log.
LEMMA InsideIsPossible ==
    ASSUME Inv, BoundOK, QueueTyped, NEW h \in Handles, NEW t \in Threads, pc[h][t] # "idle"
    PROVE  Len(log) < Caused
  <1>1. Inner(h) \in Nat /\ Inner(h) # 0
    <2>1. t \in Inside(h, Calls)
      BY DEF Inside, Inv, ThreadsOK, CallsNamed
    <2> QED  BY <2>1, InsideType, FS_EmptySet DEF Inner
  <1>2. Possible(h) \in Nat /\ Possible(h) > 0
    BY <1>1, PossibleTypes DEF Possible
  <1>3. Outlook \in [Handles -> Nat] /\ Outlook[h] = Possible(h)
    BY PossibleTypes DEF Outlook
  <1>4. Cardinality(Units(Outlook)) \in Nat /\ Possible(h) <= Cardinality(Units(Outlook))
    <2> HIDE DEF Outlook
    <2> QED  BY <1>3, SumMoves DEF BoundOK
  <1>5. Len(log) \in Nat /\ Caused \in Nat
    BY DEF QueueTyped, Caused, Inv, CountsOK
  <1> HIDE DEF Caused
  <1> QED  BY <1>2, <1>4, <1>5 DEF BoundOK

\* Plugins are told of nothing that did not happen: the events queued in a
\* session are at most two for each connect, for its success and its end, and
\* one for each request to disconnect and each message.
THEOREM EventsHaveCauses == Spec => [](Len(log) <= 2 * connects + requests + messages)
  <1>1. Seen!Inv => QueueTyped
    BY SeenTypes
  <1>2. Inv /\ QueueTyped /\ BoundOK => Len(log) <= 2 * connects + requests + messages
    <2> SUFFICES ASSUME Inv, QueueTyped, BoundOK PROVE Len(log) <= Caused
      BY DEF Caused
    <2>1. Len(log) \in Nat /\ Caused \in Nat
      BY DEF QueueTyped, Caused, Inv, CountsOK
    <2>2. Cardinality(Units(Outlook)) \in Nat
      BY FS_CardinalityType DEF BoundOK
    <2> HIDE DEF Caused
    <2> QED  BY <2>1, <2>2 DEF BoundOK
  <1> QED  BY InvHolds, SeenInvHolds, BoundHolds, <1>1, <1>2, PTL

-----------------------------------------------------------------------------
(* Nobody waits for ever: what DestroyReturns rests on besides fairness.   *)

\* The handler that a thread is about to run can run to its end: callbackMutex
\* is free, and the event is missed or fits into the queue.
HandlerCanRun(h, t) ==
    /\ pc[h][t] = "run"
    /\ CallbackMutexFree
    /\ acceptingCallbacks => h \in issued /\ Len(log) < EventBound

CallCanStep(h, t) == pc[h][t] = "copy" \/ HandlerCanRun(h, t)

\* The next step of the destruction of h waits for nobody.
DestructorCanStep(h) ==
    \/ phase[h] = "stop" /\ \A g \in Handles : phase[g] \notin {"wait", "cancel"}
    \/ phase[h] = "wait" /\ WorkersGone(h)
    \/ phase[h] = "cancel" /\ pc[h]["game"] = "idle"

CallsGoOn ==
    \A h \in Handles, t \in Threads : pc[h][t] # "idle" => CallCanStep(h, t)

DestructionGoesOn ==
    \A h \in Handles : phase[h] \in Dying =>
        \E g \in Handles :
            /\ phase[g] \in Dying
            /\ DestructorCanStep(g) \/ \E t \in Threads : CallCanStep(g, t)

\* A thread that has entered a client is never held up, by no frame, no native,
\* no map change and no destruction, even when mqtt_destroy runs inside a
\* callback that a frame executes.
THEOREM CallsNeverWait == Spec => []CallsGoOn
  <1>1. Seen!Inv => QueueTyped
    BY SeenTypes
  <1>2. Inv /\ QueueTyped /\ CausesOK /\ BoundOK => CallsGoOn
    <2> SUFFICES ASSUME Inv, QueueTyped, CausesOK, BoundOK,
                        NEW h \in Handles, NEW t \in Threads, pc[h][t] # "idle"
                 PROVE  CallCanStep(h, t)
      BY DEF CallsGoOn
    <2>1. Len(log) < Caused
      BY InsideIsPossible
    <2>2. Caused <= EventBound /\ Caused \in Nat /\ EventBound \in Nat
      BY ModuleAssumption DEF Caused, EventBound, Inv, CountsOK
    <2>3. Len(log) \in Nat
      BY DEF QueueTyped
    <2>4. Len(log) < EventBound
      <3> HIDE DEF Caused, EventBound
      <3> QED  BY <2>1, <2>2, <2>3
    <2>5. h \in issued
      BY DEF CausesOK, Fresh
    <2>6. CallbackMutexFree
      BY DEF CallbackMutexFree, HeldBetweenSteps
    <2>7. pc[h][t] \in {"copy", "run"}
      BY DEF Inv, ThreadsOK
    <2> QED  BY <2>4, <2>5, <2>6, <2>7 DEF CallCanStep, HandlerCanRun
  <1> QED  BY InvHolds, SeenInvHolds, CausesHold, BoundHolds, <1>1, <1>2, PTL

\* While a client is being destroyed, a client that is being destroyed, this one
\* or the one before it, has a step to take, its destructor's or that of a
\* thread the destructor waits for: the wait of MQTTAsync_destroy for callbacks
\* that queue events closes no circle.
THEOREM DestructionNeverStuck == Spec => []DestructionGoesOn
  <1>1. Inv /\ CallsGoOn => DestructionGoesOn
    <2>1. ASSUME Inv, CallsGoOn, NEW g \in Handles, phase[g] \in {"wait", "cancel"}
          PROVE  /\ phase[g] \in Dying
                 /\ DestructorCanStep(g) \/ \E t \in Threads : CallCanStep(g, t)
      <3>1. \A t \in Threads : pc[g][t] # "idle" => CallCanStep(g, t)
        BY <2>1 DEF CallsGoOn
      <3>2. (\A t \in Threads : pc[g][t] = "idle") => DestructorCanStep(g)
        BY <2>1 DEF DestructorCanStep, WorkersGone, Threads, Workers
      <3> QED  BY <2>1, <3>1, <3>2 DEF Dying
    <2>2. ASSUME Inv, CallsGoOn, NEW h \in Handles, phase[h] \in Dying
          PROVE  \E g \in Handles :
                     /\ phase[g] \in Dying
                     /\ DestructorCanStep(g) \/ \E t \in Threads : CallCanStep(g, t)
      <3>1. CASE \E g \in Handles : phase[g] \in {"wait", "cancel"}
        BY <2>1, <2>2, <3>1
      <3>2. CASE \A g \in Handles : phase[g] \notin {"wait", "cancel"}
        BY <2>2, <3>2 DEF DestructorCanStep, Dying
      <3> QED  BY <3>1, <3>2
    <2> QED  BY <2>2 DEF DestructionGoesOn
  <1> QED  BY InvHolds, CallsNeverWait, <1>1, PTL
=============================================================================
