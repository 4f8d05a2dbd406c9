------------------------- MODULE AmxxInterfaceProofs -------------------------
(***************************************************************************)
(* Theorems about AmxxInterface for every version of the interface and     *)
(* every core, whatever functions it knows.                                *)
(*                                                                         *)
(* Inv adds to the invariants that a module which AMXX attached has every  *)
(* required function: REQFUNC returns at the first one that is missing, so *)
(* that an attach that came to its end has passed them all.                *)
(***************************************************************************)
EXTENDS AmxxInterface, WellFoundedInduction, TLAPS

Attached == status \in {"attached", "running"}

Inv ==
    /\ TypeOK
    /\ AttachedIsComplete
    /\ RefusedLeavesNothing
    /\ NoCallThroughNull

-----------------------------------------------------------------------------
(* REQFUNC.                                                                *)

LEMMA LeastElement ==
    ASSUME NEW S \in SUBSET Nat, S # {}
    PROVE  \E n \in S : \A m \in S : n <= m
  <1> DEFINE R == OpToRel(<, Nat)
  <1>1. PICK n \in S : \A m \in S : ~(<<m, n>> \in R)
    <2>1. IsWellFoundedOn(R, Nat)
      BY NatLessThanWellFounded
    <2> HIDE DEF R
    <2> QED  BY <2>1, WFMin
  <1>2. \A m \in S : <<m, n>> \in R <=> m < n
    BY DEF OpToRel
  <1> HIDE DEF R
  <1>3. \A m \in S : ~(m < n)
    BY <1>1, <1>2
  <1> QED  BY <1>3

LEMMA RequestsShape ==
    /\ Len(Requests) = 11
    /\ DOMAIN Requests = 1..11
  BY DEF Requests

\* An attach that reaches its end has found every required function.
LEMMA CompleteHasAll ==
    ASSUME Complete
    PROVE  Required \subseteq Requested
  <1> DEFINE IsFirst(i) == /\ i \in DOMAIN Requests => Requests[i] \in Required \ offered
                           /\ \A j \in 1..(i - 1) : Requests[j] \notin Required \ offered
             Missing == {j \in 1..11 : Requests[j] \in Required \ offered}
  <1>1. \E i \in 1..12 : IsFirst(i)
    <2>1. CASE Missing = {}
      <3>1. IsFirst(12)
        BY <2>1, RequestsShape
      <3> QED  BY <3>1
    <2>2. CASE Missing # {}
      <3>1. Missing \in SUBSET Nat
        OBVIOUS
      <3>2. PICK n \in Missing : \A m \in Missing : n <= m
        BY <2>2, <3>1, LeastElement
      <3>3. IsFirst(n)
        BY <3>2
      <3> QED  BY <3>2, <3>3
    <2> QED  BY <2>1, <2>2
  <1>2. FirstMissing = CHOOSE i \in 1..12 : IsFirst(i)
    BY RequestsShape DEF FirstMissing
  <1> HIDE DEF Missing
  <1>3. FirstMissing \in 1..12 /\ IsFirst(FirstMissing)
    <2> HIDE DEF IsFirst
    <2> QED  BY <1>1, <1>2
  <1>4. FirstMissing = 12
    BY <1>3, RequestsShape DEF Complete
  <1>5. \A j \in 1..11 : Requests[j] \notin Required \ offered
    BY <1>3, <1>4
  <1>6. Requested = {Requests[i] : i \in {j \in 1..11 : Requests[j] \in offered}}
    BY <1>4, RequestsShape DEF Requested
  <1>7. \A f \in Required : \E i \in 1..11 : f = Requests[i]
    BY RequestsShape DEF Required, Functions
  <1> QED  BY <1>5, <1>6, <1>7

LEMMA RequestedAreFunctions == Requested \subseteq Functions
  BY DEF Requested, Functions

\* What the module calls after it was attached.
LEMMA MayCall ==
    {"BuildPathname", "Log", "LogError", "GetAmxString", "GetAmxAddr", "AddNatives",
     "RegisterSPForwardByName", "UnregisterSPForward", "ExecuteForward"} \subseteq Required
  <1>1. /\ Requests[1] = "BuildPathname" /\ Requests[2] = "Log" /\ Requests[3] = "LogError"
        /\ Requests[5] = "GetAmxString" /\ Requests[6] = "GetAmxAddr"
        /\ Requests[7] = "AddNatives" /\ Requests[8] = "RegisterSPForwardByName"
        /\ Requests[9] = "UnregisterSPForward" /\ Requests[10] = "ExecuteForward"
    BY DEF Requests
  <1> QED  BY <1>1, RequestsShape DEF Required, Functions, OptionalFunctions

-----------------------------------------------------------------------------
(* The inductive invariant.                                                *)

LEMMA InitInv == Init => Inv
  <1> SUFFICES ASSUME Init PROVE Inv
    OBVIOUS
  <1>1. pointers \subseteq Functions /\ called \subseteq Functions /\ called \subseteq pointers
    BY Zenon DEF Init
  <1> QED
    BY <1>1 DEF Init, Inv, TypeOK, Answers, AttachedIsComplete, RefusedLeavesNothing,
                NoCallThroughNull

\* The flags are Booleans, one by one.
LEMMA Flags ==
    TypeOK => /\ hooked \in BOOLEAN /\ natives \in BOOLEAN /\ accepting \in BOOLEAN
              /\ queued \in BOOLEAN /\ client \in BOOLEAN /\ forward \in BOOLEAN
  BY DEF TypeOK

\* A step that calls nothing but required functions, and nothing at all unless
\* AMXX has attached the module.
LEMMA WorkInv ==
    ASSUME Inv, Work
    PROVE  Inv'
  <1>1. Attached
    BY DEF Inv, RefusedLeavesNothing, TypeOK, Attached, Work, NativeFails, CreateClient,
           DestroyClient, SetOptions, SetCallback, Native, NetworkEvent, OnServerFrame
  <1>2. UNCHANGED <<amxxVars, exportVars, pointers>>
    BY DEF Work, NativeFails, CreateClient, DestroyClient, SetOptions, SetCallback, Native,
           NetworkEvent, OnServerFrame
  <1>3. called' \subseteq Required
    BY MayCall
    DEF Work, NativeFails, CreateClient, DestroyClient, SetOptions, SetCallback, Native,
        NetworkEvent, OnServerFrame, Calls, Destroyed
  <1>4. Required \subseteq pointers /\ Required \subseteq Functions
    BY <1>1 DEF Inv, AttachedIsComplete, Attached, Required
  <1>5. /\ hooked' \in BOOLEAN /\ natives' \in BOOLEAN /\ accepting' \in BOOLEAN
        /\ queued' \in BOOLEAN /\ client' \in BOOLEAN /\ forward' \in BOOLEAN
    BY Flags
    DEF Inv, Work, NativeFails, CreateClient, DestroyClient, SetOptions, SetCallback, Native,
        NetworkEvent, OnServerFrame
  <1>6. TypeOK'
    BY <1>2, <1>3, <1>4, <1>5 DEF Inv, TypeOK, amxxVars, exportVars
  <1> QED
    BY <1>1, <1>2, <1>3, <1>4, <1>6
    DEF Inv, Attached, AttachedIsComplete, RefusedLeavesNothing, NoCallThroughNull, exportVars

\* The exports that change what AMXX makes of the module, but the attach.
LEMMA OtherExportsInv ==
    ASSUME Inv, Exports, ~AMXX_Attach
    PROVE  Inv'
  <1> USE DEF Returns, Calls, amxxVars, moduleVars, StopAndReset
  <1>1. CASE QueryWithoutParameters \/ AMXX_Query \/ AMXX_CheckGame \/ AttachWithoutFunction
    <2>1. /\ UNCHANGED <<amxxVars, pointers, moduleVars>> /\ called' = {}
          /\ status \in {"loaded", "queried", "checked", "detached"}
          /\ status' \in {"loaded", "queried", "checked", "refused"}
          /\ answer' \in Answers
      BY <1>1
      DEF QueryWithoutParameters, AMXX_Query, AMXX_CheckGame, CheckGameCalls,
          AttachWithoutFunction, Answers
    <2>2. called' \subseteq Functions /\ called' \subseteq pointers'
      BY <2>1, Zenon
    <2>3. TypeOK'
      BY <2>1, <2>2, Flags DEF Inv, TypeOK
    <2> QED
      BY <2>1, <2>2, <2>3
      DEF Inv, AttachedIsComplete, RefusedLeavesNothing, NoCallThroughNull
  <1>2. CASE AMXX_PluginsLoaded \/ AMXX_PluginsUnloading \/ AMXX_Detach
    <2>1. /\ UNCHANGED <<amxxVars, pointers>> /\ called' \subseteq Required
          /\ status \in {"attached", "running"}
          /\ status' \in {"attached", "running", "detached"}
          /\ answer' \in Answers
      BY <1>2, MayCall
      DEF AMXX_PluginsLoaded, AMXX_PluginsUnloading, AMXX_Detach, Destroyed, Answers, Inv, TypeOK
    <2>2. Required \subseteq pointers /\ Required \subseteq Functions
      BY <2>1 DEF Inv, AttachedIsComplete, Required
    <2>3. /\ hooked' \in BOOLEAN /\ natives' \in BOOLEAN /\ accepting' \in BOOLEAN
          /\ queued' \in BOOLEAN /\ client' \in BOOLEAN /\ forward' \in BOOLEAN
      BY <1>2, Flags DEF Inv, AMXX_PluginsLoaded, AMXX_PluginsUnloading, AMXX_Detach
    <2>4. TypeOK'
      BY <2>1, <2>2, <2>3 DEF Inv, TypeOK
    <2>5. status' = "detached" => ~hooked' /\ ~natives' /\ ~client' /\ ~queued'
      BY <1>2 DEF AMXX_PluginsLoaded, AMXX_PluginsUnloading, AMXX_Detach
    <2> QED
      BY <2>1, <2>2, <2>4, <2>5
      DEF Inv, AttachedIsComplete, RefusedLeavesNothing, NoCallThroughNull
  <1> QED  BY <1>1, <1>2 DEF Exports

\* An attach that fails half way leaves some pointers set and calls nothing.
LEMMA AttachInv ==
    ASSUME Inv, AMXX_Attach
    PROVE  Inv'
  <1> USE DEF AMXX_Attach, AttachIfComplete, Returns, Calls, amxxVars
  <1>1. pointers' = Requested /\ pointers' \subseteq Functions
    BY RequestedAreFunctions
  <1>2. ~hooked /\ ~natives /\ ~client /\ ~queued
    BY DEF Inv, RefusedLeavesNothing
  <1>3. CASE Complete
    <2>1. OnAmxxAttach /\ status' = "attached" /\ answer' = "AMXX_OK"
      BY <1>3
    <2>2. Required \subseteq pointers' /\ Required \subseteq Functions
      BY <1>1, <1>3, CompleteHasAll DEF Required
    <2>3. called' \subseteq Required
      BY <2>1, MayCall DEF OnAmxxAttach
    <2>4. /\ hooked' \in BOOLEAN /\ natives' \in BOOLEAN /\ accepting' \in BOOLEAN
          /\ queued' \in BOOLEAN /\ client' \in BOOLEAN /\ forward' \in BOOLEAN
      BY <2>1, Flags DEF Inv, TypeOK, OnAmxxAttach
    <2>5. TypeOK'
      BY <1>1, <2>1, <2>2, <2>3, <2>4 DEF Inv, TypeOK, Answers
    <2> QED
      BY <2>1, <2>2, <2>3, <2>5
      DEF Inv, AttachedIsComplete, RefusedLeavesNothing, NoCallThroughNull
  <1>4. CASE ~Complete
    <2>1. /\ UNCHANGED moduleVars /\ called' = {} /\ status' = "refused"
          /\ answer' = "AMXX_FUNC_NOT_PRESENT"
      BY <1>4
    <2>2. called' \subseteq Functions /\ called' \subseteq pointers'
      BY <2>1, Zenon
    <2>3. TypeOK'
      BY <1>1, <2>1, <2>2, Flags DEF Inv, TypeOK, Answers, moduleVars
    <2> QED
      BY <1>2, <2>1, <2>2, <2>3
      DEF Inv, AttachedIsComplete, RefusedLeavesNothing, NoCallThroughNull, moduleVars
  <1> QED  BY <1>3, <1>4

LEMMA NextInv == Inv /\ [Next]_vars => Inv'
  <1> SUFFICES ASSUME Inv, [Next]_vars PROVE Inv'
    OBVIOUS
  <1>1. CASE UNCHANGED vars
    BY <1>1, Flags
    DEF vars, amxxVars, exportVars, moduleVars, Inv, TypeOK, AttachedIsComplete,
        RefusedLeavesNothing, NoCallThroughNull, Required
  <1> QED  BY <1>1, WorkInv, OtherExportsInv, AttachInv DEF Next

\* Every reachable state satisfies Inv.
THEOREM InvHolds == Spec => []Inv
  <1> QED  BY InitInv, NextInv, PTL DEF Spec

\* Every reachable state has the types that TypeOK states.
THEOREM TypeCorrect == Spec => []TypeOK
  <1>1. Inv => TypeOK
    BY DEF Inv
  <1> QED  BY InvHolds, <1>1, PTL

\* The module calls AMXX only through pointers that AMXX_Attach has filled.
THEOREM NeverCallsNull == Spec => []NoCallThroughNull
  <1>1. Inv => NoCallThroughNull
    BY DEF Inv
  <1> QED  BY InvHolds, <1>1, PTL

\* What AMXX believes attached may call every function it requires.
THEOREM AttachedHasAll == Spec => []AttachedIsComplete
  <1>1. Inv => AttachedIsComplete
    BY DEF Inv
  <1> QED  BY InvHolds, <1>1, PTL

\* A refused or detached module has no hook, no native and no client.
THEOREM NothingLeft == Spec => []RefusedLeavesNothing
  <1>1. Inv => RefusedLeavesNothing
    BY DEF Inv
  <1> QED  BY InvHolds, <1>1, PTL
=============================================================================
