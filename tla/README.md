# A verification development for AmxxMqttClient

AmxxMqttClient is an AMX Mod X module that lets Pawn plugins of a Half-Life
server use MQTT. Threads of the Paho library produce events; the game thread
delivers them to Pawn callbacks from ReHLDS's `SV_Frame` hook. This directory
holds TLA+ models of that machinery, TLC configurations that check them on
small instances, and TLAPS proofs that hold for every instance.

Paths such as `src/CallbackDispatcher.cpp` are relative to the repository root.
Run the tools in this directory: `tlc -config MqttClient.cfg MqttClient`,
`tlapm MqttClientProofs.tla`.

## Inventory

| Component | State | Operations | Interacts with |
|---|---|---|---|
| Callback dispatcher (`src/CallbackDispatcher.cpp`) | `pendingCallbacks`, `acceptingCallbacks`, both under `callbackMutex`; the locals of a running frame | the four `*CallbackDispatcher` producers (through `EnqueueCallback`), `ProcessPendingCallbacks`, `StartCallbackDispatcher`, `StopCallbackDispatcher` | called by network threads and by the frame hook; resolves clients through the manager; runs Pawn, which re-enters the natives |
| MQTT client (`src/MqttClient.cpp`, `.h`) | `m_bIsConnected`, `m_stopping`, four handlers under `m_handlerMutex`, the Paho client | constructor, destructor, `set*Handler`, `connect`, `disconnect`, `subscribe`, `unsubscribe`, `publish`, `isConnected`, and the callbacks Paho makes | Paho's receive and send threads call back into it; its handlers feed the dispatcher |
| AMXX client (`src/AmxxMqttClient.cpp`) | four AMXX forward ids | four setters, destructor | owns forwards registered with AMXX |
| Client manager (`src/MqttClientMgr.cpp`) | `m_clients`, `m_nextHandle` | `make`, `getClient`, `destroy`, `reset` | game thread only |
| Connection options (`src/ConnectOptionMgr.cpp`, `src/ConnectOption.cpp`) | `m_options`, `m_indexUsed`, one `connect_options` and one `properties` per object | `make`, `getOptions`, `destroy`, `reset` | natives; consumed by `mqtt_connect` |
| Natives (`src/natives.cpp`) | none of their own | one per Pawn native: they check arguments, resolve handles, call a client and turn exceptions into return codes | plugins, AMXX |
| Frame hook (`src/RehldsFrameHook.cpp`) | `frameRegistry` | `CheckRehldsApi`, `RegisterRehldsFrameHook`, `UnregisterRehldsFrameHook`, `OnServerFrame` | the ReHLDS engine |
| SDK interface (`src/sdk/amxxmodule.cpp`) | the pointers `g_fn_...` through which AMXX is called | the `AMXX_...` exports, `MF_...` | AMXX calls the exports; every component calls AMXX through the pointers |
| Module lifecycle (`src/module.cpp`) | none | `OnAmxxCheckGame`, `OnAmxxAttach`, `OnPluginsLoaded`, `OnPluginsUnloading`, `OnAmxxDetach` | AMXX; orders all the others |

There are three kinds of threads: the game thread (AMXX, natives, Pawn, the
frame hook), and in each client Paho's receive thread and send thread. They
share two things: the dispatcher's queue under `callbackMutex`, and the
members of a client, four of which are under `m_handlerMutex`. Everything else
belongs to the game thread; what is hard there is re-entrancy (a Pawn callback
calls natives and may unload the plugins) and the order of the lifecycle calls.

What makes each component correct:

* **Dispatcher**: nothing accepted is lost, duplicated or reordered; a frame is
  bounded; stopping discards everything, even in the middle of a frame; no
  callback runs for a destroyed client; every accepted event is taken.
* **Client**: the flag is Paho's view and is stored before the notice; each
  disconnect request is answered once; the destructor neither deadlocks nor
  lets a callback run into a destroyed client.
* **Manager and AMXX client**: a handle names one client for ever; a slot owns
  its forward; no forward is released twice, leaked, or released for others.
* **Options**: used indices and entries agree; each object is owned once, used
  once, and holds one expiry.
* **Natives**: a plugin compiled against an older include file is read as the
  include file means it; a call that fails has changed nothing; a forward is run
  with the parameters it was registered with.
* **SDK interface**: no call goes through a pointer that was not filled; a
  refused module leaves nothing behind.
* **All together**: from Paho to Pawn each disconnect is told once and in order,
  although two threads, two queues and a destructor lie between.
* **Hook and lifecycle**: one hook while attached, none afterwards; no event
  without a frame that will take it; nothing left after the detach.

The hazards behind these properties are listed line by line in `PROJECT.json`.

## Modules

| Module | Models | Extends or instantiates |
|---|---|---|
| `EventChannel` | what the dispatcher promises: one log per session, handled in order, one event at a time | |
| `CallbackDispatcher` | `CallbackDispatcher.cpp` and the part of the manager and of the lifecycle its steps depend on | implements `EventChannel` |
| `ClientContract` | what a client promises: a request is settled once, no handler starts once it is closed, and it is gone only when nothing runs and nothing is owed | |
| `MqttClient` | `MqttClient.cpp`, `MqttClient.h`, Paho as its environment | implements `ClientContract` (in `MqttClientProofs`) |
| `MqttClientMgr` | `MqttClientMgr.cpp`, `AmxxMqttClient.cpp`, the create, destroy and callback natives, AMXX's forwards as environment | |
| `OptionTable` | what the connection options promise: held under an index of their own until used once | |
| `ConnectOptionMgr` | `ConnectOptionMgr.cpp`, `ConnectOption.cpp`, the options and connect natives | implements `OptionTable` |
| `ModuleLifecycle` | `module.cpp`, `RehldsFrameHook.cpp`, AMXX and the engine as environment | |
| `MqttModule` | several clients with Paho's threads, the handlers of `MqttClientMgr::make`, the queue and the one game thread | composes with, and implements, `CallbackDispatcher` |
| `Natives` | `natives.cpp`: all 14 natives, their arguments, checks, requests and effects | |
| `AmxxInterface` | the exports and the function pointers of `sdk/amxxmodule.cpp`, and who calls through them | |
| `MCMqttClientMgr` | a symmetry set for TLC | `MqttClientMgr` |
| `...Proofs` | the theorems about the module they are named after, one for each but `EventChannel`, `OptionTable` and `ClientContract` | that module |

Operators whose comment begins with "Mutant" are not used by the
specifications. Each is a plausible mistake in a definition that follows it;
put in its place it breaks the property that `PROJECT.json` names, which shows
that the property depends on that code.

### CallbackDispatcher

`pendingCallbacks` and `acceptingCallbacks` are the variables of the code. An
event is its type and its handle; reasons and payloads are left out. Each
critical section of `callbackMutex` is one action, because it calls nothing
that blocks: `EnqueueCallback`, `BeginFrame` (the `std::min` of line 103),
`TakeEvent`, `EndFrame`, `StartCallbackDispatcher`, `StopCallbackDispatcher`.
Between `TakeEvent` and the callback nothing is locked, so `CallPawn`,
`SkipEvent` and `PawnReturns` are steps of their own and network threads may
enqueue between any two of them. While `framePc = "pawn"` the callback may
create and destroy clients, set callbacks, and have the plugins unloaded and
loaded again. AMXX may in fact defer a plugin reload until Pawn has returned;
allowing it inside the callback is an over-approximation, and the test
`tests/CallbackDispatcherTest.cpp` unloads from inside a callback too.

`OnPluginsUnloading` is one action: between its steps the game thread runs no
Pawn and the dispatcher refuses events, so nothing can be told apart.
(`ModuleLifecycle` has the steps one by one.) Events may be enqueued for every
handle ever issued, destroyed or not: the dispatcher does not rely on Paho
being done with a client.

`log`, `cursor`, `backlog` and `ran` are history variables; no guard of the
code depends on them, except that `MaxEvents` bounds the events accepted in a
session.

### MqttClient

A thread in the client is at `pc`: "flag" (about to store `m_bIsConnected`),
"lock" and "copy" (`copyHandler` before and inside its critical section) or
"run" (the copied handler); `call` says why it is there. The destructor is
`dtor`: "lock", "stop" (inside its critical section), "reset"
(`m_pClient.reset()` waits for the callbacks that run), "cancel" (Paho cancels
the queued actions and may call `on_failure` on this thread) and "freed" (the
other members are destroyed).

Paho is not in the repository. What the module assumes of it, from comments
and tests of the repository (`src/MqttClient.cpp:41-43`, `82-83`, `99-101`,
`tests/MqttClientStateTest.cpp:66-70`), is stated at its head: actions are
queued and complete once; connection callbacks are made under one lock that
also guards the connection; destruction waits for running callbacks, starts
none, and cancels what is queued. A message is delivered without that lock,
so that it overlaps with everything. `subscribe`, `unsubscribe` and `publish`
pass their arguments on to Paho and change no member; they are not actions.

### MqttClientMgr

`clients` maps each handle to the four forward slots of its `AmxxMqttClient`;
`owner` is AMXX's registry of forwards, with the slot each forward was
registered for. AMXX hands out any identifier that is not registered, so a
released one comes back at once, to us or to another module. `MaxHandle`
stands for the largest `std::int32_t`, and `ToInt32` is the conversion of the
64-bit counter. Every action runs on the game thread (`assertGameThread`).

### ConnectOptionMgr

`m_options[index]` inserts a null entry for an unknown index, so each lookup is
modelled with that effect (`Looked`). Objects are numbered by allocation,
so that what happens to one object and what happens to its index are
distinguished. Of what an object holds only the session expiry is modelled,
which is kept in the `properties` and again in the `connect_options`.
The user name, the password and the clean start flag are written straight through.

### ModuleLifecycle

An engine is any combination of what `FindFrameRegistry` asks for.
`OnPluginsUnloading` and `OnAmxxDetach` put their steps into `todo` and the
teardown actions take them one by one, while Paho's threads keep enqueuing.
The queue, the clients and the options are reduced to what the steps change.
A frame takes its batch in one action; `CallbackDispatcher` has the details.

### MqttModule

The variables of the queue and of the frame are those of `CallbackDispatcher`,
and the dispatcher's steps are its actions. What this module adds is where the events
come from. `pc` and `call` say, for each client and each of its three threads,
which handler the thread is about to copy or to run; `Watched` are the handlers
that plugins have a callback for. `RunHandler` is the only link to the queue, as
in the code. `phase` is the life of a client: the destructor is entered by
`mqtt_destroy`, inside a Pawn callback or not, or by the unloading, which takes
one client after the other while the threads of the rest go on.

The game thread is one thread: its actions require that it is not inside a
destructor, a native or a map change (`NotInNative`), which
`CallbackDispatcher`, where these are one step each, leaves out. The flag
and `m_handlerMutex` are left to `MqttClient`: no step blocks on them for good, which
`MutexHeldBriefly` and `DestroyCompletes` show there.

`causes`, `told`, `missed` and `ended` are history variables. `ended` holds the positions of the
events in the log that a thread queued because a connection had ended: the queue does not tell
them from the disconnected events of requests that failed, and only they count in
`ConnectsAlternate`.

That the game thread is one thread on which natives do not overlap (`NotInNative`, `RunsPawn`,
also in `CallbackDispatcher`) is an assumption about AMXX and the engine, which the code only
asserts (`MqttClientMgr::assertGameThread`).

### Natives

A call is the number of cells that the plugin passed and a value for every
parameter: what lies behind the arguments can be anything, and it is the
native's business not to read it. `Native(name, n, params, checks, attempt)` is the
shape they all have, checks in the order of the code, the first that fails is
reported; `Optional` is a parameter that older plugins do not pass. `call` and
`reply` are the call that returns and what came of it, with the request made
of Paho. Strings are empty or not. The managers are reduced to which handles and
indices resolve; they have modules of their own.

`Completed`, `Meant` and `Legal` are written from
`scripting/include/MqttClient.inc`: the call that a plugin of today would have made
with the defaults of that file, and what it stands for.

### AmxxInterface

`pointers` are the `g_fn_...` that are not null. `AMXX_Attach` requests them one after
the other and returns at the first required one that AMXX does not have
(`FirstMissing`), so that some are set and some are null. Every other action says with `Calls` which
functions it uses, down to natives and callbacks. Of the functions that the SDK
requests and this module never calls, the first and the last stand for all.

## Runs

| Run | Question | Bounds |
|---|---|---|
| `dispatcher` | safety of the dispatcher; does it implement `EventChannel`? is every accepted event taken? | 2 handles, 2 callback types, 2 callbacks per frame, 3 events per session |
| `client` | safety of the client against Paho's threads and its destructor | 2 connects, 2 disconnect requests |
| `client_live` | does the destructor return, is every request answered? | 1 connect, 2 disconnect requests |
| `client_notice` | can the disconnected handler run while connected? (violated) | 1 connect, 1 request |
| `manager` | handles and forwards over map changes | 2 clients at a time, 3 handles, 4 forward identifiers |
| `manager_leak` | does destruction release every forward? (violated) | 1 client, 2 forward identifiers |
| `options` | indices and objects under any sequence of calls; do they implement `OptionTable`? | 2 indices and two numbers that are none, 4 objects, 2 expiry values |
| `lifecycle` | hook, natives, teardown | every engine, 2 clients, 2 callbacks per frame, 3 events queued |
| `module_order` | from Paho to Pawn: is each disconnect told once, is the end of each connection told before the next? | 1 client, 2 connects, 1 request, 1 message, 2 callbacks per frame |
| `module_live` | do destructors and frames end while others' threads go on, is every request heard, is a freed client silent? does it implement `CallbackDispatcher`? | 2 clients, 1 connect, 1 request, disconnected callbacks, 1 callback per frame |
| `interface` | calls through null pointers, refused modules | every set of functions, 2 interface versions, engine with or without the hook |
| `natives` | old plugins, failing calls, forwards | 2 handles, 1 index, 1 callback set at a time, every number of arguments |

Why the bounds are enough:

* *dispatcher*: three events and two per frame give frames that spend their
  budget, frames that drain the queue, and events that arrive during a frame;
  the number of sessions is not bounded. Two handles are needed for one client
  destroyed while another's callback runs; the types only select a forward.
* *client*: two connects give a reconnect after a loss, a server's disconnect or
  a request; two requests give one that overtakes, or is answered while, the
  other is queued. Messages, losses and handler changes are not bounded.
* *manager*: two clients at a time are one fewer than there are handles, so both
  limits are met; four identifiers let a client hold several forwards while
  others own the rest. Map changes are not bounded.
* *options*: four objects on two indices make every index be used again.
* *lifecycle*: the queue's limit is above a frame's budget; attaches, detaches
  and map changes are not bounded.
* *module_order*: the properties speak of one client, and two connects are needed
  for two connected events with something between them; the message and the request
  occupy the threads that may overtake. *module_live*: the second client is
  there so that its threads enqueue while the first is destroyed, and one callback
  per frame so that events wait. Map changes are not bounded in either.
* *interface*: nothing is bounded but the versions.
* *natives*: a handle and an index beyond those that exist, -1 and 3 on both sides
  of the qualities of service, and one argument fewer than each parameter are
  included. One callback at a time suffices: callbacks do not see each other.

`CHECK_DEADLOCK FALSE` is set where the system may stop: a destroyed client, and
a module that AMXX refused.

The type invariants of the modules other than `CallbackDispatcher` are proved, not
run.

### Findings

* `client_notice`: a plugin that calls `mqtt_disconnect` while the connection is
  being made gets its disconnected callback although the client is then
  connected: `disconnect()` throws, and before `notifyDisconnect` runs the
  handler (`src/MqttClient.cpp:87`) the connection comes up. A request that
  fails later (`on_failure`, line 107) notifies in the same way.
  `scripting/include/MqttClient.inc:241` says the callback is called "when client
  disconnected", and `tests/MqttClientStateTest.cpp:61` requires that it never
  observes the connected state. (`README.md` of the repository does say that a
  failed request does not mark the client as disconnected, so the flag is
  right and the notice is not.)
* `manager_leak`: setting the connected, connection lost or disconnected
  callback twice overwrites the first forward without unregistering it
  (`src/AmxxMqttClient.cpp:33`, `52`, `60`). It stays registered when the client
  is destroyed. Only `setOnMessageForwardId` releases what it replaces, and
  only that is tested (`tests/MqttNativeApiTest.cpp:184`, `190`);
  `MessageForwardNotLeaked` shows that it does so.

## Fairness

* `CallbackDispatcher!FairSpec`: weak fairness of the steps of a frame and of its
  beginning. The engine runs `SV_Frame` forever, paused or not
  (`src/RehldsFrameHook.cpp:70`); the steps do not block, and a Pawn callback
  returns. Network threads, plugins and AMXX owe nothing.
* `MqttClient!FairSpec`: weak fairness of the steps of a callback and of the
  destructor, which only need the thread to be scheduled; strong fairness where a
  thread competes for `m_handlerMutex` or for Paho's lock, because messages
  may arrive forever and make the mutex be taken again and again; strong
  fairness of the send thread and of the end of a connection attempt (Paho has
  timeouts for it). No connection has to succeed, no message to arrive and no
  plugin to call anything.
* `MqttModule!FairSpec`: weak fairness of each thread of each client, of the
  destructor, of the frame's steps and of the unloading, none of which waits for
  something that a thread it waits for would need; and the end of a connection attempt.
  `PawnReturns` needs strong fairness: a callback may create, destroy and
  reload any number of times, during which the return is not possible, and a
  callback that never comes to an end would stop the server whatever the module
  does. With it `FrameEnds` is not trivial: the callback may destroy clients, and the
  destructors wait for threads that enqueue.

## Proofs

All theorems hold for every value of the constants that satisfies the named
assumption of the module (`DispatcherAssumption`, `ClientAssumption` and so on).

`CallbackDispatcherProofs`: the safety properties are not inductive one by one.
That the event about to be executed is the last one taken (`EventBelongsToSession`)
needs that the log and the cursor cannot change between the critical section
that took it and the callback, which holds because only Pawn can stop the
dispatcher and Pawn does not run there; refinement needs in addition that the
local variable holds an event exactly while one is handled
(`EventHeldWhileHandled`). `Inv` adds this to the invariants. Two lemmas on
sequences say that appending to the queue and to the log, and taking the head
of the queue, keep the queue the untaken rest of the log (`IsRest`). From `Inv`
follow the invariants, the action property `NoCallbackAfterDestroy` and the
refinement: the dispatcher's critical sections map to `Accept`, `Take`, `Open`
and `Close`, the end of a callback to `Finish`, everything else stutters.

`MqttClientProofs`: `Inv` adds three parts to `TypeOK` and `MutexHeldBriefly`.
`Teardown` says where the threads are at each point of the destructor and which
calls the game thread can be in; `Reports` says that callbacks made under Paho's
lock exclude each other and that the connection is meanwhile what they report;
`FlagStored` says that the flag is Paho's view unless some callback is about to
store it. A late callback cannot overwrite a newer state for this reason: both
would have to be in the client at once, which the lock that Paho is assumed to hold excludes. `FlagTracksLink`, `StateBeforeNotice`,
`SilentDuringDestruction` and `MembersOutliveCallbacks` follow.

`AnsweredOnce` is inductive together with `Inv`. What it counts are positions of
Paho's queue and threads that hold an answer; lemmas on `Cardinality` say how
appending and taking an action change the first, entering and leaving a callback
the second, and then each step moves one request from one place to another.
Since Paho's queue is empty and nobody is inside when the members are freed, all is
answered or excused then (`NothingOwedWhenFreed`). `ClientKeepsContract` is the
refinement of `ClientContract`: a client is closed from the moment `m_stopping` is
set, a thread serves what its running handler is called for, and owed are
the requests that are neither answered nor excused. A queued or lost connection, the
flag, the mutex and a handler that is not copied stutter; an answer that finds no
handler maps to `Excuse`, which the contract allows only without a disconnected
handler or on a closed client.

Two theorems are the safe half of `DestroyCompletes`. `NobodyWaitsInACircle`: while
a thread is inside or the destructor runs, one of them can take a step.
`CancellationAdvances`: from `m_pClient.reset()` on, once Paho's threads are gone, each
step lowers `CancelRank`, which counts the queued actions and the steps of the
callback under way. What fairness adds to them is not proved.

`MqttClientMgrProofs`: `Inv` adds that there are no clients while no plugins are
loaded. AMXX forgets its forwards then and hands the identifiers out again: a
client that survived would own forwards of somebody else. With it `SlotOwnsForward`,
`MessageForwardNotLeaked`, `NoHandleSkipped` and `HandleNeverReused` follow, for
any width of a handle.

`ConnectOptionMgrProofs`: the invariants need one another. An object has one owner
because a used index is not given out again and what it holds was allocated at
another time; it is used once because what was used is not live. That lookups
cost no index is a counting argument: if every index were used, there would be as
many live objects as indices, since the owners of live objects are distinct.
The refinement of `OptionTable` maps the two maps and their null entries to the
indices that hold an object; a wrong lookup and a change of options stutter.

`ModuleLifecycleProofs`: an event has a frame because only clients cause events,
clients come from natives and natives are added with the hook, and because the
teardown takes them away in an order that keeps this so. `Inv` says what is gone
after how many of its steps (`TeardownOrdered`, `HookBehindObjects`,
`HookBehindEvents`, `DetachedSoFar`).

`MqttModuleProofs`: `Inv` says where a thread can be in a client in each phase of
its life: Paho's threads are out of it once the wait is over, the game thread before the
members are freed, and a thread that is inside runs a call that has a handler.
`FreedIsSilent` follows, and so does `DispatcherImplemented`: each step is a step of
`CallbackDispatcher` or leaves its variables alone, if the handles are taken to be
gone when the unloading begins. `Seen == INSTANCE CallbackDispatcherProofs` then
transfers every theorem about the dispatcher to the composition (`QueueCorrect`,
`DestroyedClientsStaySilent`) without a second proof: what was proved of a
dispatcher called by anybody holds when Paho's threads and destructors call it.

Four more invariants are inductive on top of these, and each theorem names the one it
rests on:

* `EveryCauseToldOnce`: `CausesOK` adds to `EachCauseToldOnce` that a handle not yet issued has no
  history, and that the queue holds events of issued handles only. The causes of a
  disconnected callback are in Paho's queue, with a thread, in the dispatcher's queue,
  told or missed; the module's steps move one cause from one of these places to the next.
* `ConnectsAreSeparated`: `OrderOK` says that a connection that is open in the log, no later event
  having reported its end, is up at Paho or a Paho thread holds the event that does. That
  thread holds Paho's lock, so that nobody can report a new connection
  before this event is in the queue. The event of a request that failed closes nothing.
* `ClientsKeepContract`: the refinement of `ClientContract` again, for each client by itself. Here
  the client is destroyed in two ways and shares the game thread with the
  others; their steps, frames and map changes stutter. The manager binds all four handlers
  of every client it makes, so that the contract allows `Excuse` only on a closed client.
* `EventsHaveCauses`: `BoundOK` says that the events in the log and those that every client can still
  produce (`Possible`: what is inside, the requests queued, two for each connect queued, two
  or one for a connection that is being made or up) are together no more than what has been
  asked for. The sum over the clients is the cardinality of a set of pairs; `SumMoves`
  says how it changes when one client steps.

`CallsNeverWait` and `DestructionNeverStuck` follow from them: whoever is inside a client has a
step, and so has somebody as long as a client is being destroyed. They are what
`DestroyReturns` rests on besides fairness. They also show that `EventBound`, which
`RunHandler` inherits from the dispatcher's model, never holds a handler back: it excludes no
behaviour. `CallCanStep` and `DestructorCanStep` write out the guards of
those actions, because `ENABLED` cannot be proved about.

`NativesProofs`: a native is a list of checks and an attempt. Lemmas about lists of
one to four checks say that the first failing one is reported; then each
native needs one short proof for `RequestsAsDocumented`, that the checks let through
exactly the calls that `Legal` describes and that the request is `Meant`. The others are
`FailedCallChangesNothing`, `ForwardsFit` and `TypeOK`.

`AmxxInterfaceProofs`: `Inv` adds that an attached module has every required
function: an attach that came to its end has passed them all.

Of the runs' properties that hold, only liveness is model-checked and not proved:
`EveryEventTaken`, `DestroyCompletes`, `EveryDisconnectAnswered`, `DestroyReturns`,
`FrameEnds` and `RequestHeard`. The provers have no rule for it here, as they have none for
`ENABLED`, nor for an induction over data; what had to be counted in a sequence was
therefore stated with the set of its positions. `DisconnectNoticeMeansDown` and
`DestroyReleasesForwards` do not hold. Conversely, the refinement of `ClientContract` and
the theorems of which `PROJECT.json` names no property are proved and not run: their
mappings and invariants are definitions of the proof modules.

## Not modelled

* **The rest of `src/sdk`.** More than four fifths of the source lines under `src/src` are the
  SDK that AMXX modules are compiled with. `moduleconfig.h:45`, `51` define neither `USE_METAMOD`
  nor `MEMORY_TEST`, so the Metamod half (`amxxmodule.cpp:43-2417`, `3003-3142`,
  `moduleconfig.h:95-516`) and the memory tracker (`amxxmodule.cpp:2803-2976`) are not
  compiled; most of `amxxmodule.h` declares types and functions that the module
  requests and never calls, which `AmxxInterface` represents by two. The rest are the
  allocation functions, without state of their own. Actions for code that is not part of the
  program would say nothing about it.
* The tests, which are read as documentation. Build files; the example plugin; the Pawn
  include, whose defaults `Natives` states.
* Paho and its C library are not in the repository: an assumed environment
  (see `MqttClient`). Its persistence, its reconnection and the wire protocol are not
  used by the module or are not visible to it. The module itself stores nothing, so
  that there is no crash and recovery to model.
* Message and reason texts, topics, log lines, the names of engine libraries.
* Memory exhaustion, and exceptions other than those of Paho the code catches.
* The unbounded growth of the queue (`src/CallbackDispatcher.cpp:33`): the code sets no
  limit, so there is nothing to check it against. That an index is given out again at once
  (`src/ConnectOptionMgr.cpp:46`) is by design and breaks no promise;
  null entries are covered by `WrongLookupsCostNoIndex`.
* Shutdown of the process without a detach.
