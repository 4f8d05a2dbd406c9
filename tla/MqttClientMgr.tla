---------------------------- MODULE MqttClientMgr ----------------------------
(***************************************************************************)
(* The handles and the AMXX forwards: MqttClientMgr (src/src/              *)
(* MqttClientMgr.cpp), the forward slots of AmxxMqttClient (src/src/       *)
(* AmxxMqttClient.cpp) and the natives that fill them.  All of it runs on  *)
(* the game thread.                                                        *)
(*                                                                         *)
(* AMXX's registry of single-plugin forwards is external: it hands out     *)
(* some identifier that is not registered (so a released one comes back),  *)
(* other modules use it too, and it forgets every forward once the modules *)
(* have been told that the plugins are unloading.                          *)
(***************************************************************************)
EXTENDS Integers, FiniteSets

CONSTANTS MaxClients,   \* maxClients, 10000 in the code
          MaxHandle,    \* the largest std::int32_t
          ForwardIds,   \* bound: identifiers AMXX can hand out
          NoForward     \* -1, an empty slot

ASSUME MgrAssumption ==
    /\ MaxClients \in Nat
    /\ MaxHandle \in Nat
    /\ NoForward \notin ForwardIds

Kinds == {"connected", "message", "connectionLost", "disconnected"}

VARIABLES
    clients,      \* m_clients: from handles to the four forward slots
    nextHandle,   \* m_nextHandle, 64 bits wide
    owner,        \* who registered each forward: a client's slot, or
    plugins,      \*   Free, or Other; whether plugins are loaded
    issued        \* history: every handle make has returned

vars == <<clients, nextHandle, owner, plugins, issued>>

Free  == <<"free">>
Other == <<"other module">>

Handles == DOMAIN clients
Slot    == [Kinds -> ForwardIds \cup {NoForward}]

\* The conversion of the counter to the int that a plugin holds.
ToInt32(n) == IF n <= MaxHandle THEN n ELSE n - 2 * (MaxHandle + 1)

TypeOK ==
    /\ Handles \subseteq issued
    /\ \A h \in Handles : clients[h] \in Slot
    /\ nextHandle \in Nat
    /\ DOMAIN owner = ForwardIds
    /\ \A id \in ForwardIds : owner[id] \in {Free, Other} \cup (issued \X Kinds)
    /\ plugins \in {"loaded", "unloading", "unloaded"}
    /\ issued \subseteq Int

Init ==
    /\ clients = [h \in {} |-> [k \in Kinds |-> NoForward]]
    /\ nextHandle = 1
    /\ owner = [id \in ForwardIds |-> Free]
    /\ plugins = "unloaded"
    /\ issued = {}

-----------------------------------------------------------------------------
(* Clients.                                                                *)

HandlesLeft == nextHandle <= MaxHandle

\* Mutant: the smallest handle not in use, as ConnectOptionMgr does.
SmallestFreeHandle == CHOOSE n \in 1..(MaxHandle + 1) :
    n \notin Handles /\ \A m \in 1..(n - 1) : m \in Handles

NewHandle == ToInt32(nextHandle)

\* mqtt_create: make succeeds and binds the handlers to the new handle.
Make ==
    /\ plugins = "loaded"
    /\ Cardinality(Handles) < MaxClients
    /\ HandlesLeft
    /\ clients' = [h \in Handles \cup {NewHandle} |->
                      IF h \in Handles THEN clients[h] ELSE [k \in Kinds |-> NoForward]]
    /\ nextHandle' = nextHandle + 1
    /\ issued' = issued \cup {NewHandle}
    /\ UNCHANGED <<owner, plugins>>

\* Mutant: the counter is advanced before the client is constructed.
CountOnFailure == nextHandle' = nextHandle + 1

CountOnSuccessOnly == UNCHANGED nextHandle

\* mqtt_create: the constructor of the Paho client throws.
MakeFails ==
    /\ plugins = "loaded"
    /\ Cardinality(Handles) < MaxClients
    /\ HandlesLeft
    /\ CountOnSuccessOnly
    /\ UNCHANGED <<clients, owner, plugins, issued>>

\* ~AmxxMqttClient: every forward in a slot of a client of H is released.
SlotsOf(H) == {clients[h][k] : h \in H, k \in Kinds} \ {NoForward}

Released(ids) == [id \in ForwardIds |-> IF id \in ids THEN Free ELSE owner[id]]

Remove(H) ==
    /\ clients' = [h \in Handles \ H |-> clients[h]]
    /\ owner' = Released(SlotsOf(H \cap Handles))

\* mqtt_destroy, with whatever number the plugin passes.
Destroy(h) ==
    /\ plugins = "loaded"
    /\ Remove({h})
    /\ UNCHANGED <<nextHandle, plugins, issued>>

-----------------------------------------------------------------------------
(* Callbacks.                                                              *)

Resolves(h) == h \in Handles

\* Mutant: the replaced forward of a message callback is kept.
ReplacesNothing(h, k) == {}

\* Only setOnMessageForwardId releases the forward it replaces.
Replaced(h, k) == IF k = "message" THEN {clients[h][k]} ELSE {}

\* mqtt_set_..._callback: the plugin has the function, so AMXX registers a
\* forward for it, and the setter puts it into the slot.
SetCallback(h, k) ==
    /\ plugins = "loaded"
    /\ Resolves(h)
    /\ \E id \in {i \in ForwardIds : owner[i] = Free} :
           /\ clients' = [clients EXCEPT ![h] = [@ EXCEPT ![k] = id]]
           /\ owner' = [Released(Replaced(h, k)) EXCEPT ![id] = <<h, k>>]
    /\ UNCHANGED <<nextHandle, plugins, issued>>

-----------------------------------------------------------------------------
(* Map changes, and the rest of AMXX.                                      *)

\* AMXX loads the plugins: from now on natives are called.
PluginsLoad ==
    /\ plugins = "unloaded"
    /\ plugins' = "loaded"
    /\ UNCHANGED <<clients, nextHandle, owner, issued>>

\* Mutant: the clients are kept across the map change.
KeepClients == UNCHANGED <<clients, owner>>

Reset == Remove(Handles)

\* The clients are reset while AMXX still owns the forwards.
OnPluginsUnloading ==
    /\ plugins = "loaded"
    /\ plugins' = "unloading"
    /\ Reset
    /\ UNCHANGED <<nextHandle, issued>>

AmxxForgetsForwards ==
    /\ plugins = "unloading"
    /\ plugins' = "unloaded"
    /\ owner' = [id \in ForwardIds |-> Free]
    /\ UNCHANGED <<clients, nextHandle, issued>>

OtherModuleRegisters(id) ==
    /\ owner[id] = Free
    /\ owner' = [owner EXCEPT ![id] = Other]
    /\ UNCHANGED <<clients, nextHandle, plugins, issued>>

OtherModuleReleases(id) ==
    /\ owner[id] = Other
    /\ owner' = [owner EXCEPT ![id] = Free]
    /\ UNCHANGED <<clients, nextHandle, plugins, issued>>

Next ==
    \/ Make
    \/ MakeFails
    \/ \E h \in 1..MaxHandle : Destroy(h) \/ \E k \in Kinds : SetCallback(h, k)
    \/ PluginsLoad
    \/ OnPluginsUnloading
    \/ AmxxForgetsForwards
    \/ \E id \in ForwardIds : OtherModuleRegisters(id) \/ OtherModuleReleases(id)

Spec == Init /\ [][Next]_vars

-----------------------------------------------------------------------------
\* Every forward in a slot is registered, and registered for that slot: the
\* identifier ExecuteCallback runs was not given to somebody else meanwhile,
\* and the destructor releases no forward twice or of another owner.
SlotOwnsForward ==
    \A h \in Handles, k \in Kinds :
        clients[h][k] # NoForward => owner[clients[h][k]] = <<h, k>>

\* Replacing a message callback any number of times, destroying the client
\* or unloading the plugins leaves no message forward behind.
MessageForwardNotLeaked ==
    \A id \in ForwardIds, h \in issued :
        owner[id] = <<h, "message">> =>
            h \in Handles /\ clients[h]["message"] = id

\* A handle identifies one client for the life of the module: neither a
\* destroyed client's handle nor one of an earlier map comes back.
HandleNeverReused ==
    [][\A h \in DOMAIN clients' \ Handles : h \notin issued]_vars

\* The handles are 1, 2, 3, ... up to the largest 32-bit integer and no further,
\* although the counter is wider: a creation that fails uses up none, and none
\* is ever negative.
NoHandleSkipped ==
    /\ issued = 1..(nextHandle - 1)
    /\ nextHandle <= MaxHandle + 1

\* Destroying a client releases the forwards registered for it
\* (tests/MqttNativeApiTest.cpp:190, "Client destruction leaked a forward").
DestroyReleasesForwards ==
    \A id \in ForwardIds, h \in issued, k \in Kinds :
        owner[id] = <<h, k>> => h \in Handles
=============================================================================
