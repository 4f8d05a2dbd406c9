------------------------- MODULE MqttClientMgrProofs -------------------------
(***************************************************************************)
(* Theorems about MqttClientMgr for every limit of clients, every width of *)
(* a handle and every set of identifiers that AMXX hands out.              *)
(*                                                                         *)
(* Inv adds to the invariants that there are no clients while no plugins   *)
(* are loaded.  It is needed because AMXX forgets its forwards then, and   *)
(* hands the identifiers out again: a client that survived would hold      *)
(* forwards of somebody else.                                              *)
(***************************************************************************)
EXTENDS MqttClientMgr, TLAPS

CounterPositive == nextHandle > 0

NoneWhileUnloaded == plugins # "loaded" => Handles = {}

Inv ==
    /\ TypeOK
    /\ CounterPositive
    /\ NoneWhileUnloaded
    /\ NoHandleSkipped
    /\ SlotOwnsForward
    /\ MessageForwardNotLeaked

-----------------------------------------------------------------------------
(* The inductive invariant.                                                *)

LEMMA OwnersDiffer ==
    /\ Free # Other
    /\ \A h, k : <<h, k>> # Free /\ <<h, k>> # Other
  BY DEF Free, Other

LEMMA InitInv == Init => Inv
  <1> SUFFICES ASSUME Init PROVE Inv
    OBVIOUS
  <1>1. Handles = {} /\ nextHandle = 1 /\ issued = {}
    BY DEF Init, Handles
  <1>2. NoHandleSkipped
    BY <1>1, MgrAssumption DEF NoHandleSkipped
  <1>3. TypeOK
    BY <1>1 DEF Init, TypeOK
  <1> QED
    BY <1>1, <1>2, <1>3
    DEF Init, Inv, CounterPositive, NoneWhileUnloaded, SlotOwnsForward, MessageForwardNotLeaked

\* While handles are left the conversion changes nothing, and the handle is new.
LEMMA NewHandleIsNew ==
    ASSUME Inv, HandlesLeft
    PROVE  NewHandle = nextHandle /\ NewHandle \notin issued
  BY DEF Inv, TypeOK, NoHandleSkipped, HandlesLeft, NewHandle, ToInt32

LEMMA MakeInv ==
    ASSUME Inv, Make
    PROVE  Inv'
  <1>1. NewHandle = nextHandle /\ NewHandle \notin issued
    BY NewHandleIsNew DEF Make
  <1>2. /\ Handles' = Handles \cup {NewHandle}
        /\ \A h \in Handles : clients'[h] = clients[h]
        /\ clients'[NewHandle] = [k \in Kinds |-> NoForward]
        /\ UNCHANGED <<owner, plugins>>
        /\ plugins = "loaded"
        /\ issued' = issued \cup {NewHandle}
    BY <1>1 DEF Make, Handles, Inv, TypeOK
  <1>3. TypeOK'
    <2>1. \A h \in Handles' : clients'[h] \in Slot
      BY <1>2 DEF Inv, TypeOK, Slot
    <2>2. \A id \in ForwardIds : owner[id] \in {Free, Other} \cup (issued' \X Kinds)
      BY <1>2 DEF Inv, TypeOK
    <2>3. nextHandle' \in Nat /\ issued' \subseteq Int
      BY <1>1, <1>2 DEF Inv, TypeOK, Make
    <2> QED  BY <1>2, <2>1, <2>2, <2>3 DEF Inv, TypeOK
  <1>4. NoHandleSkipped'
    <2>1. /\ nextHandle \in Nat /\ nextHandle <= MaxHandle /\ nextHandle' = nextHandle + 1
          /\ issued = 1..(nextHandle - 1)
      BY DEF Make, HandlesLeft, Inv, TypeOK, NoHandleSkipped
    <2>2. nextHandle >= 1
      BY DEF Inv, TypeOK, CounterPositive
    <2> QED  BY <1>1, <1>2, <2>1, <2>2, MgrAssumption DEF NoHandleSkipped
  <1>7. CounterPositive'
    BY DEF Make, Inv, TypeOK, CounterPositive
  <1>5. SlotOwnsForward'
    <2>1. \A k \in Kinds : clients'[NewHandle][k] = NoForward
      BY <1>2
    <2>2. \A h \in Handles, k \in Kinds :
              clients'[h][k] # NoForward => owner'[clients'[h][k]] = <<h, k>>
      BY <1>2 DEF Inv, SlotOwnsForward
    <2> QED  BY <1>2, <2>1, <2>2 DEF SlotOwnsForward
  <1>6. MessageForwardNotLeaked'
    <2>1. \A id \in ForwardIds : owner[id] # <<NewHandle, "message">>
      BY <1>1, OwnersDiffer DEF Inv, TypeOK
    <2> QED  BY <1>2, <2>1 DEF Inv, TypeOK, MessageForwardNotLeaked
  <1> QED  BY <1>2, <1>3, <1>4, <1>5, <1>6, <1>7 DEF Inv, NoneWhileUnloaded

\* The registry and the slots are untouched, and the handles as well.
LEMMA MakeFailsInv ==
    ASSUME Inv, MakeFails
    PROVE  Inv'
  BY DEF MakeFails, CountOnSuccessOnly, Inv, TypeOK, CounterPositive, NoneWhileUnloaded, Handles,
         NoHandleSkipped, SlotOwnsForward, MessageForwardNotLeaked

\* SlotOwnsForward, for one slot.
LEMMA SlotIsOwned ==
    ASSUME Inv, NEW h \in Handles, NEW k \in Kinds, clients[h][k] # NoForward
    PROVE  clients[h][k] \in ForwardIds /\ owner[clients[h][k]] = <<h, k>>
  <1>1. clients[h] \in [Kinds -> ForwardIds \cup {NoForward}]
    BY DEF Inv, TypeOK, Slot
  <1>2. clients[h][k] \in ForwardIds
    BY <1>1
  <1> QED  BY <1>2 DEF Inv, SlotOwnsForward

\* Removing clients releases exactly the forwards of their slots.
LEMMA RemoveInv ==
    ASSUME Inv, NEW H, Remove(H), UNCHANGED <<nextHandle, issued>>,
           plugins' \in {"loaded", "unloading"},
           plugins' # "loaded" => Handles \subseteq H
    PROVE  Inv'
  <1> DEFINE ids == SlotsOf(H \cap Handles)
  <1>1. /\ Handles' = Handles \ H
        /\ \A h \in Handles' : h \in Handles /\ clients'[h] = clients[h]
        /\ owner' = [id \in ForwardIds |-> IF id \in ids THEN Free ELSE owner[id]]
    BY DEF Remove, Handles, Released
  <1>2. \A h \in Handles \cap H, k \in Kinds :
            clients[h][k] # NoForward => clients[h][k] \in ids
    BY DEF SlotsOf
  <1>3. \A id \in ids : \E h \in Handles \cap H, k \in Kinds :
            id = clients[h][k] /\ owner[id] = <<h, k>>
    BY DEF SlotsOf, Inv, SlotOwnsForward
  <1> HIDE DEF ids
  <1>4. TypeOK'
    BY <1>1 DEF Inv, TypeOK
  <1>5. SlotOwnsForward'
    <2> SUFFICES ASSUME NEW h \in Handles', NEW k \in Kinds, clients'[h][k] # NoForward
                 PROVE  owner'[clients'[h][k]] = <<h, k>>
      BY DEF SlotOwnsForward
    <2>1. /\ h \in Handles /\ h \notin H /\ clients'[h][k] = clients[h][k]
          /\ owner[clients[h][k]] = <<h, k>> /\ clients[h][k] \in ForwardIds
      <3>1. h \in Handles /\ h \notin H /\ clients'[h] = clients[h]
        BY <1>1
      <3>2. clients[h][k] # NoForward
        BY <3>1
      <3> QED  BY <3>1, <3>2, SlotIsOwned
    <2>2. clients[h][k] \notin ids
      BY <1>3, <2>1
    <2> QED  BY <1>1, <2>1, <2>2
  <1>6. MessageForwardNotLeaked'
    <2> SUFFICES ASSUME NEW id \in ForwardIds, NEW h \in issued, owner'[id] = <<h, "message">>
                 PROVE  h \in Handles' /\ clients'[h]["message"] = id
      BY DEF MessageForwardNotLeaked
    <2>1. id \notin ids /\ owner[id] = <<h, "message">>
      BY <1>1, OwnersDiffer
    <2>2. h \in Handles /\ clients[h]["message"] = id
      BY <2>1 DEF Inv, MessageForwardNotLeaked
    <2>3. h \notin H
      BY <1>2, <2>1, <2>2, MgrAssumption DEF Kinds
    <2> QED  BY <1>1, <2>2, <2>3
  <1> QED
    BY <1>1, <1>4, <1>5, <1>6
    DEF Inv, NoneWhileUnloaded, NoHandleSkipped, CounterPositive

LEMMA SetCallbackInv ==
    ASSUME Inv, NEW h \in Int, NEW k \in Kinds, SetCallback(h, k)
    PROVE  Inv'
  <1>1. PICK id \in ForwardIds :
            /\ owner[id] = Free
            /\ clients' = [clients EXCEPT ![h] = [@ EXCEPT ![k] = id]]
            /\ owner' = [Released(Replaced(h, k)) EXCEPT ![id] = <<h, k>>]
    BY DEF SetCallback
  <1>2. /\ h \in Handles /\ h \in issued /\ Handles' = Handles
        /\ UNCHANGED <<nextHandle, plugins, issued>>
    BY <1>1 DEF SetCallback, Resolves, Handles, Inv, TypeOK
  <1>3. /\ \A g \in Handles : g # h => clients'[g] = clients[g]
        /\ clients[h] \in Slot
        /\ clients'[h] = [clients[h] EXCEPT ![k] = id]
    BY <1>1, <1>2 DEF Handles, Inv, TypeOK
  <1>4. /\ DOMAIN owner' = ForwardIds
        /\ owner'[id] = <<h, k>>
        /\ \A i \in ForwardIds : i # id =>
               owner'[i] = IF i \in Replaced(h, k) THEN Free ELSE owner[i]
    BY <1>1 DEF Released
  <1>5. clients'[h] \in Slot
    BY <1>3 DEF Slot
  <1>6. /\ clients'[h][k] = id
        /\ \A j \in Kinds : j # k => clients'[h][j] = clients[h][j]
    BY <1>3 DEF Slot
  <1>7. TypeOK'
    <2>1. \A i \in ForwardIds : owner'[i] \in {Free, Other} \cup (issued \X Kinds)
      BY <1>2, <1>4 DEF Inv, TypeOK
    <2> QED  BY <1>2, <1>3, <1>4, <1>5, <2>1 DEF Inv, TypeOK
  <1>8. Replaced(h, k) \subseteq {clients[h]["message"]} /\ (Replaced(h, k) # {} => k = "message")
    BY DEF Replaced
  <1>9. \A g \in Handles, j \in Kinds :
            <<g, j>> # <<h, k>> =>
                /\ clients'[g][j] = clients[g][j]
                /\ clients[g][j] # NoForward =>
                       /\ owner[clients[g][j]] = <<g, j>>
                       /\ clients[g][j] \in ForwardIds
                       /\ clients[g][j] # id
    <2> SUFFICES ASSUME NEW g \in Handles, NEW j \in Kinds, <<g, j>> # <<h, k>>
                 PROVE  /\ clients'[g][j] = clients[g][j]
                        /\ clients[g][j] # NoForward =>
                               /\ owner[clients[g][j]] = <<g, j>>
                               /\ clients[g][j] \in ForwardIds
                               /\ clients[g][j] # id
      OBVIOUS
    <2>1. clients'[g][j] = clients[g][j]
      BY <1>3, <1>6
    <2> QED  BY <1>1, <2>1, SlotIsOwned, OwnersDiffer
  <1>10. SlotOwnsForward'
    <2> SUFFICES ASSUME NEW g \in Handles, NEW j \in Kinds, clients'[g][j] # NoForward
                 PROVE  owner'[clients'[g][j]] = <<g, j>>
      BY <1>2 DEF SlotOwnsForward
    <2>1. CASE <<g, j>> = <<h, k>>
      BY <1>4, <1>6, <2>1
    <2>2. CASE <<g, j>> # <<h, k>>
      <3>1. clients[g][j] \notin Replaced(h, k)
        <4> SUFFICES ASSUME clients[g][j] \in Replaced(h, k) PROVE FALSE
          OBVIOUS
        <4>1. k = "message" /\ clients[g][j] = clients[h][k]
          BY <1>8
        <4>2. owner[clients[h][k]] = <<h, k>>
          BY <1>2, <1>9, <2>2, <4>1 DEF Inv, SlotOwnsForward
        <4> QED  BY <1>9, <2>2, <4>1, <4>2
      <3> QED  BY <1>4, <1>9, <2>2, <3>1
    <2> QED  BY <2>1, <2>2
  <1>11. MessageForwardNotLeaked'
    <2> SUFFICES ASSUME NEW i \in ForwardIds, NEW g \in issued, owner'[i] = <<g, "message">>
                 PROVE  g \in Handles /\ clients'[g]["message"] = i
      BY <1>2 DEF MessageForwardNotLeaked
    <2>1. CASE i = id
      BY <1>2, <1>4, <1>6, <2>1
    <2>2. CASE i # id
      <3>1. owner[i] = <<g, "message">> /\ i \notin Replaced(h, k)
        BY <1>4, <2>2, OwnersDiffer
      <3>2. g \in Handles /\ clients[g]["message"] = i
        BY <3>1 DEF Inv, MessageForwardNotLeaked
      <3>3. <<g, "message">> # <<h, k>>
        BY <3>1, <3>2 DEF Replaced
      <3> QED  BY <1>9, <3>2, <3>3 DEF Kinds
    <2> QED  BY <2>1, <2>2
  <1> QED
    BY <1>2, <1>7, <1>10, <1>11
    DEF Inv, NoneWhileUnloaded, NoHandleSkipped, CounterPositive

LEMMA RegistryInv ==
    ASSUME Inv, NEW id \in ForwardIds, OtherModuleRegisters(id) \/ OtherModuleReleases(id)
    PROVE  Inv'
  <1>1. /\ UNCHANGED <<clients, nextHandle, plugins, issued>>
        /\ owner[id] \in {Free, Other}
        /\ owner'[id] \in {Free, Other}
        /\ DOMAIN owner' = ForwardIds
        /\ \A i \in ForwardIds : i # id => owner'[i] = owner[i]
    BY DEF OtherModuleRegisters, OtherModuleReleases, Inv, TypeOK
  <1>2. TypeOK'
    BY <1>1 DEF Inv, TypeOK, Handles
  <1>3. SlotOwnsForward'
    <2> SUFFICES ASSUME NEW h \in Handles, NEW k \in Kinds, clients[h][k] # NoForward
                 PROVE  owner'[clients[h][k]] = <<h, k>>
      BY <1>1 DEF SlotOwnsForward, Handles
    <2>1. clients[h][k] \in ForwardIds /\ owner[clients[h][k]] = <<h, k>>
      BY SlotIsOwned
    <2> QED  BY <1>1, <2>1, OwnersDiffer
  <1>4. MessageForwardNotLeaked'
    <2> SUFFICES ASSUME NEW i \in ForwardIds, NEW h \in issued, owner'[i] = <<h, "message">>
                 PROVE  h \in Handles /\ clients[h]["message"] = i
      BY <1>1 DEF MessageForwardNotLeaked, Handles
    <2>1. owner[i] = <<h, "message">>
      BY <1>1, OwnersDiffer
    <2> QED  BY <2>1 DEF Inv, MessageForwardNotLeaked
  <1> QED
    BY <1>1, <1>2, <1>3, <1>4
    DEF Inv, CounterPositive, NoneWhileUnloaded, NoHandleSkipped, Handles

\* No slot is left when AMXX forgets the forwards.
LEMMA ForgetInv ==
    ASSUME Inv, AmxxForgetsForwards
    PROVE  Inv'
  <1>1. /\ Handles = {} /\ UNCHANGED <<clients, nextHandle, issued>>
        /\ owner' = [id \in ForwardIds |-> Free] /\ plugins' = "unloaded"
    BY DEF AmxxForgetsForwards, Inv, NoneWhileUnloaded
  <1>2. TypeOK'
    BY <1>1 DEF Inv, TypeOK, Handles
  <1>3. MessageForwardNotLeaked'
    BY <1>1, OwnersDiffer DEF MessageForwardNotLeaked
  <1> QED
    BY <1>1, <1>2, <1>3
    DEF Inv, CounterPositive, NoneWhileUnloaded, NoHandleSkipped, SlotOwnsForward, Handles

LEMMA NextInv == Inv /\ [Next]_vars => Inv'
  <1> SUFFICES ASSUME Inv, [Next]_vars PROVE Inv'
    OBVIOUS
  <1>1. ASSUME NEW h \in 1..MaxHandle, Destroy(h) PROVE Inv'
    BY <1>1, RemoveInv DEF Destroy
  <1>2. CASE OnPluginsUnloading
    BY <1>2, RemoveInv DEF OnPluginsUnloading, Reset
  <1>3. CASE PluginsLoad
    BY <1>3
    DEF PluginsLoad, Inv, TypeOK, CounterPositive, NoneWhileUnloaded, NoHandleSkipped,
        SlotOwnsForward, MessageForwardNotLeaked, Handles
  <1>4. CASE UNCHANGED vars
    BY <1>4
    DEF vars, Inv, TypeOK, CounterPositive, NoneWhileUnloaded, NoHandleSkipped,
        SlotOwnsForward, MessageForwardNotLeaked, Handles
  <1>5. ASSUME NEW h \in 1..MaxHandle, NEW k \in Kinds, SetCallback(h, k) PROVE Inv'
    BY <1>5, SetCallbackInv, MgrAssumption
  <1> QED
    BY <1>1, <1>2, <1>3, <1>4, <1>5, MakeInv, MakeFailsInv, ForgetInv, RegistryInv DEF Next

\* Every reachable state satisfies Inv.
THEOREM InvHolds == Spec => []Inv
  <1> QED  BY InitInv, NextInv, PTL DEF Spec

-----------------------------------------------------------------------------
(* The theorems.                                                           *)

\* Every reachable state has the types that TypeOK states.
THEOREM TypeCorrect == Spec => []TypeOK
  <1>1. Inv => TypeOK
    BY DEF Inv
  <1> QED  BY InvHolds, <1>1, PTL

\* The forward that ExecuteCallback runs, or a destructor releases, is its own.
THEOREM SlotsOwnTheirForwards == Spec => []SlotOwnsForward
  <1>1. Inv => SlotOwnsForward
    BY DEF Inv
  <1> QED  BY InvHolds, <1>1, PTL

\* A message forward is registered only while its client's slot holds it.
THEOREM NoMessageForwardLeaks == Spec => []MessageForwardNotLeaked
  <1>1. Inv => MessageForwardNotLeaked
    BY DEF Inv
  <1> QED  BY InvHolds, <1>1, PTL

\* Handles are issued in order, without a gap, up to the largest of int32_t.
THEOREM HandlesInOrder == Spec => []NoHandleSkipped
  <1>1. Inv => NoHandleSkipped
    BY DEF Inv
  <1> QED  BY InvHolds, <1>1, PTL

\* Without a client there is no message forward: none outlives the plugins.
THEOREM NothingAfterUnloading ==
    Spec => [](plugins # "loaded" =>
                   \A id \in ForwardIds, h \in issued : owner[id] # <<h, "message">>)
  <1>1. Inv => (plugins # "loaded" =>
                   \A id \in ForwardIds, h \in issued : owner[id] # <<h, "message">>)
    BY DEF Inv, NoneWhileUnloaded, MessageForwardNotLeaked
  <1> QED  BY InvHolds, <1>1, PTL

\* mqtt_create returns no handle that it returned before.
THEOREM HandlesAreFresh == Spec => HandleNeverReused
  <1>1. ASSUME Inv, [Next]_vars
        PROVE  [\A h \in DOMAIN clients' \ Handles : h \notin issued]_vars
    <2>1. CASE Make
      BY <1>1, <2>1, NewHandleIsNew DEF Make, Handles
    <2>2. CASE ~Make
      <3>1. DOMAIN clients' \subseteq Handles \/ UNCHANGED vars
        BY <1>1, <2>2
        DEF Next, MakeFails, Destroy, SetCallback, PluginsLoad, OnPluginsUnloading, Reset, Remove,
            AmxxForgetsForwards, OtherModuleRegisters, OtherModuleReleases, Handles
      <3> QED  BY <3>1
    <2> QED  BY <2>1, <2>2
  <1> QED  BY InvHolds, <1>1, PTL DEF Spec, HandleNeverReused
=============================================================================
