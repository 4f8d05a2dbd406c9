------------------------ MODULE ModuleLifecycleProofs ------------------------
(***************************************************************************)
(* Theorems about ModuleLifecycle for any number of clients and events,    *)
(* every engine and every order of AMXX's calls.                           *)
(*                                                                         *)
(* None of the four safety invariants is inductive: an event has a frame   *)
(* because only clients cause events, clients come from natives, natives   *)
(* are added with the hook, and the teardown takes them away in an order   *)
(* that keeps this true after each of its steps.  Inv says what holds      *)
(* after how many steps.                                                   *)
(***************************************************************************)
EXTENDS ModuleLifecycle, SequenceTheorems, TLAPS

\* What may be left of the two teardowns.
Stopped == {<<"unhook", "clients", "options">>, <<"clients", "options">>, <<"options">>}
Whole   == {UnloadingSteps, DetachSteps}

\* Each step of a teardown has done its part.
TeardownOrdered ==
    /\ todo \in Whole \cup Stopped \cup {<<>>}
    /\ todo \in Stopped => ~accepting
    /\ todo = <<"options">> => clients = {}
    /\ todo \in {DetachSteps, <<"unhook", "clients", "options">>} => amxx = "detached"
    /\ todo = UnloadingSteps => amxx = "attached"

\* Natives that can be called were added together with the hook, and what they
\* create keeps the hook until the dispatcher is stopped.
HookBehindObjects ==
    /\ amxx \in {"attached", "running"} /\ natives => frameRegistry
    /\ todo \in Whole \cup {<<>>} /\ (clients # {} \/ options) => frameRegistry

\* Only an open queue holds events, and only clients fill it.
HookBehindEvents == queue # <<>> => accepting /\ frameRegistry

\* A detach that has come so far, or has ended, has left nothing behind.
DetachedSoFar ==
    amxx = "detached" =>
        /\ todo \in {<<"clients", "options">>, <<"options">>, <<>>} => ~frameRegistry
        /\ todo = <<>> => clients = {} /\ ~options /\ ~accepting

Inv ==
    /\ TypeOK
    /\ OneHook
    /\ TeardownOrdered
    /\ HookBehindObjects
    /\ HookBehindEvents
    /\ DetachedSoFar

-----------------------------------------------------------------------------
(* The steps of the teardowns.                                             *)

\* What is left after each step.
LEMMA TodoAfter ==
    /\ Head(UnloadingSteps) = "stop" /\ Tail(UnloadingSteps) = <<"clients", "options">>
    /\ Head(DetachSteps) = "stop" /\ Tail(DetachSteps) = <<"unhook", "clients", "options">>
    /\ Head(<<"unhook", "clients", "options">>) = "unhook"
    /\ Tail(<<"unhook", "clients", "options">>) = <<"clients", "options">>
    /\ Head(<<"clients", "options">>) = "clients" /\ Tail(<<"clients", "options">>) = <<"options">>
    /\ Head(<<"options">>) = "options" /\ Tail(<<"options">>) = <<>>
  BY DEF UnloadingSteps, DetachSteps

\* The teardowns are told apart by what is left.
LEMMA TodoDistinct ==
    /\ UnloadingSteps # DetachSteps
    /\ UnloadingSteps \notin Stopped \cup {<<>>}
    /\ DetachSteps \notin Stopped \cup {<<>>}
    /\ <<>> \notin Stopped
    /\ <<"clients", "options">> # <<"options">>
    /\ <<"unhook", "clients", "options">> \notin {<<"clients", "options">>, <<"options">>}
  BY DEF UnloadingSteps, DetachSteps, Stopped

-----------------------------------------------------------------------------
(* The inductive invariant.                                                *)

LEMMA InitInv == Init => Inv
  <1> SUFFICES ASSUME Init PROVE Inv
    OBVIOUS
  <1>1. TypeOK
    <2>1. clients \subseteq Clients
      BY Zenon DEF Init
    <2>2. <<>> \in Seq(Clients) /\ <<>> \in Seq({"stop", "unhook", "clients", "options"})
      OBVIOUS
    <2> QED  BY <2>1, <2>2 DEF Init, TypeOK
  <1> QED
    BY <1>1 DEF Init, Inv, OneHook, TeardownOrdered, Whole, Stopped, UnloadingSteps,
                DetachSteps, HookBehindObjects, HookBehindEvents, DetachedSoFar

\* AMXX calls: none while a teardown is going on.
LEMMA AmxxInv ==
    ASSUME Inv, Amxx
    PROVE  Inv'
  <1> USE DEF Inv, hookVars, objectVars, queueVars
  <1>1. CASE OnAmxxCheckGame
    <2>1. TypeOK'
      BY <1>1 DEF OnAmxxCheckGame, TypeOK
    <2>2. UNCHANGED <<hookVars, natives, todo, queueVars, objectVars>>
      BY <1>1 DEF OnAmxxCheckGame
    <2>3. amxx = "queried" /\ amxx' \in {"checked", "refused"}
      BY <1>1 DEF OnAmxxCheckGame
    <2> QED
      BY <2>1, <2>2, <2>3
      DEF OneHook, TeardownOrdered, HookBehindObjects, HookBehindEvents, DetachedSoFar
  <1>2. CASE OnAmxxAttach
    <2> USE DEF OnAmxxAttach, RegisterRehldsFrameHook, AddNatives, Returned
    <2>1. TypeOK'
      BY <1>2 DEF TypeOK, FindFrameRegistry
    <2>2. OneHook'
      BY <1>2, <2>1 DEF TypeOK, OneHook
    <2>3. frameRegistry => frameRegistry'
      BY <1>2
    <2>4. todo = <<>> /\ todo' = <<>>
      BY <1>2
    <2> QED
      BY <1>2, <2>1, <2>2, <2>3, <2>4, TodoDistinct
      DEF TeardownOrdered, HookBehindObjects, HookBehindEvents, DetachedSoFar, Whole
  <1>3. CASE OnPluginsLoaded
    <2> USE DEF OnPluginsLoaded, Returned
    <2>1. TypeOK'
      BY <1>3 DEF TypeOK
    <2> QED
      BY <1>3, <2>1, TodoDistinct
      DEF OneHook, TeardownOrdered, HookBehindObjects, HookBehindEvents, DetachedSoFar, Whole
  <1>4. CASE OnPluginsUnloading
    <2> USE DEF OnPluginsUnloading, Returned
    <2>1. TypeOK'
      BY <1>4 DEF TypeOK, UnloadingSteps
    <2>2. OneHook' /\ HookBehindObjects' /\ HookBehindEvents' /\ DetachedSoFar'
      BY <1>4, TodoDistinct
      DEF OneHook, HookBehindObjects, HookBehindEvents, DetachedSoFar, Whole
    <2>3. TeardownOrdered'
      BY <1>4, TodoDistinct DEF TeardownOrdered, Whole, Stopped
    <2> QED
      BY <2>1, <2>2, <2>3
  <1>5. CASE OnAmxxDetach
    <2> USE DEF OnAmxxDetach, Returned
    <2>1. TypeOK'
      BY <1>5 DEF TypeOK, DetachSteps
    <2>2. OneHook' /\ HookBehindObjects' /\ HookBehindEvents' /\ DetachedSoFar'
      BY <1>5, TodoDistinct
      DEF OneHook, HookBehindObjects, HookBehindEvents, DetachedSoFar, Whole, Stopped
    <2>3. TeardownOrdered'
      BY <1>5, TodoDistinct DEF TeardownOrdered, Whole, Stopped
    <2> QED
      BY <2>1, <2>2, <2>3
  <1> QED  BY <1>1, <1>2, <1>3, <1>4, <1>5 DEF Amxx

\* One step of a teardown.
LEMMA TeardownInv ==
    ASSUME Inv, Teardown
    PROVE  Inv'
  <1> USE DEF Inv, hookVars, objectVars, queueVars, Does
  <1>1. todo' \in Stopped \cup {<<>>} /\ todo' = Tail(todo)
    BY TodoAfter DEF Teardown, StopCallbackDispatcher, RemoveHook, ResetClients, ResetOptions,
                     TeardownOrdered, Whole, Stopped
  <1>2. todo' \in Seq({"stop", "unhook", "clients", "options"})
    BY <1>1 DEF TypeOK, Teardown, StopCallbackDispatcher, RemoveHook, ResetClients, ResetOptions
  <1>3. CASE StopCallbackDispatcher
    <2>1. todo \in Whole
      BY <1>3, TodoAfter DEF StopCallbackDispatcher, TeardownOrdered, Stopped
    <2>2. <<>> \in Seq(Clients)
      OBVIOUS
    <2>3. TypeOK'
      BY <1>2, <1>3, <2>2 DEF StopCallbackDispatcher, TypeOK
    <2> QED
      BY <1>1, <1>3, <2>1, <2>3, TodoAfter, TodoDistinct
      DEF StopCallbackDispatcher, OneHook, TeardownOrdered, HookBehindObjects,
          HookBehindEvents, DetachedSoFar, Whole, Stopped
  <1>4. CASE RemoveHook
    <2>1. todo = <<"unhook", "clients", "options">> /\ todo' = <<"clients", "options">>
      BY <1>1, <1>4, TodoAfter DEF RemoveHook, TeardownOrdered, Whole, Stopped
    <2>2. hooks' = 0 /\ ~frameRegistry'
      BY <1>4 DEF RemoveHook, UnregisterRehldsFrameHook, TypeOK, OneHook
    <2>3. frameRegistry' \in BOOLEAN
      BY <1>4 DEF RemoveHook, UnregisterRehldsFrameHook
    <2>4. TypeOK' /\ OneHook'
      BY <1>2, <1>4, <2>2, <2>3 DEF RemoveHook, TypeOK, OneHook
    <2>5. ~accepting /\ queue = <<>> /\ amxx = "detached"
      BY <2>1 DEF TeardownOrdered, Stopped, HookBehindEvents
    <2> QED
      BY <1>1, <1>4, <2>1, <2>2, <2>4, <2>5, TodoDistinct
      DEF RemoveHook, TeardownOrdered, HookBehindObjects, HookBehindEvents, DetachedSoFar,
          Whole, Stopped
  <1>5. CASE ResetClients
    <2>1. todo = <<"clients", "options">> /\ todo' = <<"options">>
      BY <1>1, <1>5, TodoAfter DEF ResetClients, TeardownOrdered, Whole, Stopped
    <2>2. clients' \subseteq Clients
      BY <1>5, Zenon DEF ResetClients
    <2>3. TypeOK' /\ OneHook'
      BY <1>2, <1>5, <2>2 DEF ResetClients, TypeOK, OneHook
    <2>4. ~accepting /\ queue = <<>>
      BY <2>1 DEF TeardownOrdered, Stopped, HookBehindEvents
    <2> QED
      BY <1>1, <1>5, <2>1, <2>3, <2>4, TodoDistinct
      DEF ResetClients, TeardownOrdered, HookBehindObjects, HookBehindEvents, DetachedSoFar,
          Whole, Stopped
  <1>6. CASE ResetOptions
    <2>1. todo = <<"options">> /\ todo' = <<>>
      BY <1>1, <1>6, TodoAfter DEF ResetOptions, TeardownOrdered, Whole, Stopped
    <2>2. TypeOK' /\ OneHook'
      BY <1>2, <1>6 DEF ResetOptions, TypeOK, OneHook
    <2>3. ~accepting /\ queue = <<>> /\ clients = {}
      BY <2>1 DEF TeardownOrdered, Stopped, HookBehindEvents
    <2> QED
      BY <1>1, <1>6, <2>1, <2>2, <2>3, TodoDistinct
      DEF ResetOptions, TeardownOrdered, HookBehindObjects, HookBehindEvents, DetachedSoFar,
          Whole, Stopped
  <1> QED  BY <1>3, <1>4, <1>5, <1>6 DEF Teardown

\* Natives, which need the hook.
LEMMA NativesInv ==
    ASSUME Inv, CreateOptions \/ \E c \in Clients : CreateClient(c) \/ DestroyClient(c)
    PROVE  Inv'
  <1> USE DEF Inv, CreateOptions, CreateClient, DestroyClient, NativesCallable, Returned
  <1>1. UNCHANGED <<engine, amxx, hookVars, natives, todo, queueVars>>
    OBVIOUS
  <1>2. clients' \subseteq Clients /\ options' \in BOOLEAN
    BY DEF TypeOK, objectVars
  <1>3. TypeOK'
    BY <1>1, <1>2 DEF TypeOK, hookVars, queueVars
  <1>4. todo = <<>> /\ frameRegistry /\ amxx # "detached"
    BY DEF HookBehindObjects
  <1> QED
    BY <1>1, <1>3, <1>4, TodoDistinct
    DEF OneHook, TeardownOrdered, HookBehindObjects, HookBehindEvents, DetachedSoFar,
        hookVars, queueVars

\* The queue: Paho's threads fill it, also during a teardown, and frames take.
LEMMA QueueInv ==
    ASSUME Inv, OnServerFrame \/ \E c \in Clients : NetworkEvent(c)
    PROVE  Inv'
  <1> USE DEF Inv
  <1>1. UNCHANGED <<engine, amxx, hookVars, natives, todo, accepting, objectVars>>
    BY DEF OnServerFrame, NetworkEvent
  <1>2. queue' \in Seq(Clients) /\ HookBehindEvents'
    <2>1. CASE OnServerFrame
      <3>1. Len(queue) \in Nat /\ Batch \in 0..Len(queue)
        BY LifecycleAssumption DEF Batch, TypeOK
      <3>2. queue' = SubSeq(queue, Batch + 1, Len(queue)) /\ queue \in Seq(Clients)
        BY <2>1 DEF OnServerFrame, TypeOK
      <3>3. queue' \in Seq(Clients) /\ Len(queue') <= Len(queue)
        BY <3>1, <3>2, SubSeqProperties
      <3>4. queue = <<>> => queue' = <<>>
        BY <3>2, <3>3, EmptySeq
      <3> QED  BY <1>1, <3>3, <3>4 DEF HookBehindEvents, hookVars
    <2>2. CASE \E c \in Clients : NetworkEvent(c)
      <3>1. PICK c \in Clients : NetworkEvent(c)
        BY <2>2
      <3>2. queue' \in Seq(Clients)
        BY <3>1 DEF NetworkEvent, TypeOK
      <3>3. clients # {} /\ accepting
        BY <3>1 DEF NetworkEvent
      <3>4. frameRegistry
        BY <3>3 DEF TeardownOrdered, HookBehindObjects
      <3> QED  BY <1>1, <3>2, <3>3, <3>4 DEF HookBehindEvents, hookVars
    <2> QED  BY <2>1, <2>2
  <1>3. TypeOK'
    BY <1>1, <1>2 DEF TypeOK, hookVars, objectVars
  <1> QED
    BY <1>1, <1>2, <1>3
    DEF OneHook, TeardownOrdered, HookBehindObjects, DetachedSoFar, hookVars, objectVars

LEMMA NextInv == Inv /\ [Next]_vars => Inv'
  <1> SUFFICES ASSUME Inv, [Next]_vars PROVE Inv'
    OBVIOUS
  <1>1. CASE UNCHANGED vars
    BY <1>1
    DEF vars, hookVars, queueVars, objectVars, Inv, TypeOK, OneHook, TeardownOrdered,
        HookBehindObjects, HookBehindEvents, DetachedSoFar
  <1> QED  BY <1>1, AmxxInv, TeardownInv, NativesInv, QueueInv DEF Next

\* Every reachable state satisfies Inv.
THEOREM InvHolds == Spec => []Inv
  <1>1. Inv /\ [Next]_vars => Inv'
    BY NextInv
  <1> QED  BY InitInv, <1>1, PTL DEF Spec

-----------------------------------------------------------------------------
(* The invariants.                                                         *)

\* The variables keep their types.
THEOREM TypeCorrect == Spec => []TypeOK
  <1>1. Inv => TypeOK
    BY DEF Inv
  <1> QED  BY InvHolds, <1>1, PTL

\* OnServerFrame is registered once while the module holds the registry,
\* whatever attaches and detaches came before.
THEOREM HookedOnce == Spec => []OneHook
  <1>1. Inv => OneHook
    BY DEF Inv
  <1> QED  BY InvHolds, <1>1, PTL

\* No event waits in a module that gets no frames.
THEOREM EventsGetFrames == Spec => []EventsHaveFrames
  <1>1. Inv => EventsHaveFrames
    BY DEF Inv, EventsHaveFrames, HookBehindEvents, OneHook
  <1> QED  BY InvHolds, <1>1, PTL

\* No plugin holds a client or options in a module that gets no frames.
THEOREM ObjectsGetFrames == Spec => []ObjectsHaveFrames
  <1>1. Inv => ObjectsHaveFrames
    BY DEF Inv, ObjectsHaveFrames, HookBehindObjects, OneHook, Returned
  <1> QED  BY InvHolds, <1>1, PTL

\* OnAmxxDetach leaves nothing that could be called.
THEOREM DetachLeavesNothing == Spec => []DetachedIsQuiet
  <1>1. Inv => DetachedIsQuiet
    BY DEF Inv, DetachedIsQuiet, DetachedSoFar, HookBehindEvents, OneHook, Returned
  <1> QED  BY InvHolds, <1>1, PTL
==============================================================================
