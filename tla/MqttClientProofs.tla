-------------------------- MODULE MqttClientProofs --------------------------
(***************************************************************************)
(* Proofs of the safety properties of MqttClient, for any numbers of       *)
(* connects and disconnect requests.  Of liveness, which is left to TLC,   *)
(* two safe parts are proved: that somebody can always go on, and that the *)
(* cancellation of actions comes nearer to its end with each step.  Last   *)
(* comes the refinement of ClientContract.                                 *)
(***************************************************************************)
EXTENDS MqttClient, FiniteSetTheorems, TLAPS

PahoThreads == {"recv", "send"}

\* t is in a callback that Paho makes under its lock.
Reporting(t) == pc[t] # "idle" /\ call[t] # "message"

\* What has happened to the threads and to m_stopping at each point of the
\* destructor, and which calls the game thread can be in.
Teardown ==
    /\ stopping <=> dtor \in {"reset", "cancel", "freed"}
    /\ dtor \in {"cancel", "freed"} => \A t \in PahoThreads : pc[t] = "idle"
    /\ dtor \in {"cancel", "freed"} => pc["game"] # "run"
    /\ dtor = "freed" => pc["game"] = "idle"
    /\ call["game"] = "error" => dtor = "alive"
    /\ call["game"] = "failure" => dtor = "cancel"

\* Callbacks about the connection exclude each other, and while one runs the
\* connection is what it reports.
Reports ==
    /\ ~(Reporting("recv") /\ Reporting("send"))
    /\ \A t \in Threads : pc[t] = "flag" => StoresFlag(call[t])
    /\ \A t \in PahoThreads : PahoAlive =>
           /\ call[t] = "connected" => link = "up"
           /\ call[t] \in {"connectionLost", "disconnected", "success"} => link = "down"

\* The flag is Paho's view unless a callback is about to store it.
FlagStored ==
    PahoAlive /\ (\A t \in PahoThreads : pc[t] # "flag") =>
        (isConnected <=> link = "up")

Inv ==
    /\ TypeOK
    /\ MutexHeldBriefly
    /\ Teardown
    /\ Reports
    /\ FlagStored

-----------------------------------------------------------------------------
(* How often an element occurs in a queue.                                 *)

Positions(q, e) == {i \in DOMAIN q : q[i] = e}

LEMMA PositionsFinite ==
    ASSUME NEW S, NEW q \in Seq(S), NEW e
    PROVE  IsFiniteSet(Positions(q, e)) /\ Cardinality(Positions(q, e)) \in Nat
  <1>1. DOMAIN q = 1..Len(q) /\ Len(q) \in Int
    OBVIOUS
  <1>2. IsFiniteSet(1..Len(q))
    BY <1>1, FS_Interval
  <1>3. Positions(q, e) \in SUBSET (1..Len(q))
    BY <1>1 DEF Positions
  <1> QED  BY <1>2, <1>3, FS_Subset, FS_CardinalityType

\* An element appended to a queue is there once more.
LEMMA CountAppend ==
    ASSUME NEW S, NEW q \in Seq(S), NEW x \in S, NEW e
    PROVE  Cardinality(Positions(Append(q, x), e)) =
               Cardinality(Positions(q, e)) + (IF x = e THEN 1 ELSE 0)
  <1>1. /\ Len(q) \in Nat
        /\ DOMAIN q = 1..Len(q)
        /\ DOMAIN Append(q, x) = 1..(Len(q) + 1)
        /\ \A i \in 1..Len(q) : Append(q, x)[i] = q[i]
        /\ Append(q, x)[Len(q) + 1] = x
    OBVIOUS
  <1>2. Len(q) + 1 \notin Positions(q, e)
    BY <1>1 DEF Positions
  <1>3. CASE x = e
    <2>1. Positions(Append(q, x), e) = Positions(q, e) \cup {Len(q) + 1}
      BY <1>1, <1>3 DEF Positions
    <2> QED  BY <1>2, <1>3, <2>1, PositionsFinite, FS_AddElement
  <1>4. CASE x # e
    <2>1. Positions(Append(q, x), e) = Positions(q, e)
      BY <1>1, <1>4 DEF Positions
    <2> QED  BY <1>4, <2>1, PositionsFinite
  <1> QED  BY <1>3, <1>4

\* What is taken from a queue was there once more.
LEMMA CountTail ==
    ASSUME NEW S, NEW q \in Seq(S), q # <<>>, NEW e
    PROVE  Cardinality(Positions(q, e)) =
               Cardinality(Positions(Tail(q), e)) + (IF Head(q) = e THEN 1 ELSE 0)
  <1>1. /\ Len(q) \in Nat \ {0}
        /\ DOMAIN q = 1..Len(q)
        /\ Head(q) = q[1]
        /\ Tail(q) \in Seq(S)
        /\ DOMAIN Tail(q) = 1..(Len(q) - 1)
        /\ \A i \in 1..(Len(q) - 1) : Tail(q)[i] = q[i + 1]
    OBVIOUS
  <1> DEFINE T == Positions(Tail(q), e)
             P == Positions(q, e) \ {1}
             shift == [i \in T |-> i + 1]
  <1>2. shift \in [T -> P]
    BY <1>1 DEF Positions
  <1>3. \A i, j \in T : shift[i] = shift[j] => i = j
    BY <1>1 DEF Positions
  <1>4. \A j \in P : \E i \in T : shift[i] = j
    <2> SUFFICES ASSUME NEW j \in P PROVE \E i \in T : shift[i] = j
      OBVIOUS
    <2>1. j - 1 \in T /\ shift[j - 1] = j
      BY <1>1 DEF Positions
    <2> QED  BY <2>1
  <1>5. ExistsBijection(T, P)
    <2> HIDE DEF T, P, shift
    <2>1. shift \in Injection(T, P)
      BY <1>2, <1>3 DEF Injection, IsInjective
    <2>2. shift \in Surjection(T, P)
      BY <1>2, <1>4 DEF Surjection
    <2> QED  BY <2>1, <2>2 DEF ExistsBijection, Bijection
  <1>6. Cardinality(P) = Cardinality(T)
    BY <1>1, <1>5, PositionsFinite, FS_Bijection
  <1>7. Cardinality(P) = IF 1 \in Positions(q, e) THEN Cardinality(Positions(q, e)) - 1
                                                 ELSE Cardinality(Positions(q, e))
    BY PositionsFinite, FS_RemoveElement
  <1>8. 1 \in Positions(q, e) <=> Head(q) = e
    BY <1>1 DEF Positions
  <1>9. Cardinality(Positions(q, e)) \in Nat
    BY PositionsFinite
  <1> HIDE DEF T, P, shift
  <1>10. Cardinality(T) = Cardinality(Positions(Tail(q), e))
    BY DEF T
  <1>11. CASE Head(q) = e
    <2>1. Cardinality(P) = Cardinality(Positions(q, e)) - 1
      BY <1>7, <1>8, <1>11
    <2> QED  BY <1>6, <1>9, <1>10, <1>11, <2>1
  <1>12. CASE Head(q) # e
    <2>1. Cardinality(P) = Cardinality(Positions(q, e))
      BY <1>7, <1>8, <1>12
    <2> QED  BY <1>6, <1>9, <1>10, <1>12, <2>1
  <1> QED  BY <1>11, <1>12

-----------------------------------------------------------------------------
LEMMA InitInv == ASSUME ClientAssumption, Init PROVE Inv
<1>1. TypeOK
  <2>1. actions \in Seq({"connect", "disconnect"})
    BY DEF Init
  <2>2. connects \in 0..MaxConnects /\ requests \in 0..MaxDisconnects
    BY DEF Init, ClientAssumption
  <2>3. \A t \in Threads : pc[t] = "idle" /\ call[t] = "none"
    BY DEF Init
  <2> QED BY <2>1, <2>2, <2>3 DEF Init, TypeOK, Threads, Nobody, CallKinds
<1>2. MutexHeldBriefly
  BY DEF Init, MutexHeldBriefly, Threads, Nobody
<1>3. Teardown /\ Reports /\ FlagStored
  BY DEF Init, Teardown, Reports, Reporting, FlagStored, Threads, PahoThreads
<1> QED BY <1>1, <1>2, <1>3 DEF Inv

\* The steps of a callback.
LEMMA CallStepInv ==
    ASSUME ClientAssumption, Inv, NEW t \in Threads, CallStep(t)
    PROVE  Inv'
<1> USE DEF Inv, Threads, PahoThreads, Nobody
<1>1. CASE StoreFlag(t)
  <2>1. TypeOK'
    BY <1>1 DEF StoreFlag, TypeOK, paho, counts
  <2>2. MutexHeldBriefly'
    BY <1>1 DEF StoreFlag, TypeOK, MutexHeldBriefly
  <2>3. Teardown'
    BY <1>1 DEF StoreFlag, TypeOK, Teardown
  <2>4. Reports'
    BY <1>1 DEF StoreFlag, TypeOK, Reports, Reporting, PahoAlive, paho
  <2>5. FlagStored'
    BY <1>1 DEF StoreFlag, TypeOK, Reports, Reporting, FlagStored, PahoAlive, paho,
                StoresFlag, CallsOf
  <2> QED BY <2>1, <2>2, <2>3, <2>4, <2>5
<1>2. CASE LockHandlers(t)
  <2>1. TypeOK'
    BY <1>2 DEF LockHandlers, TypeOK, paho, counts
  <2>2. MutexHeldBriefly'
    BY <1>2 DEF LockHandlers, TypeOK, MutexHeldBriefly
  <2>3. Teardown' /\ Reports' /\ FlagStored'
    BY <1>2 DEF LockHandlers, TypeOK, Teardown, Reports, Reporting, FlagStored,
                PahoAlive, paho
  <2> QED BY <2>1, <2>2, <2>3
<1>3. CASE CopyHandler(t)
  <2>1. TypeOK'
    BY <1>3 DEF CopyHandler, TypeOK, paho, counts
  <2>2. MutexHeldBriefly'
    BY <1>3 DEF CopyHandler, TypeOK, MutexHeldBriefly, Teardown, CallsOf
  <2>3. Teardown' /\ Reports' /\ FlagStored'
    BY <1>3 DEF CopyHandler, IsCopied, TypeOK, Teardown, Reports, Reporting,
                FlagStored, PahoAlive, paho
  <2> QED BY <2>1, <2>2, <2>3
<1>4. CASE CopyNothing(t)
  <2>1. TypeOK'
    <3>1. excused' \in Nat
      BY <1>4 DEF CopyNothing, Counted, TypeOK
    <3> QED BY <1>4, <3>1 DEF CopyNothing, Leave, TypeOK, paho
  <2>2. MutexHeldBriefly'
    BY <1>4 DEF CopyNothing, Leave, TypeOK, MutexHeldBriefly, Teardown, CallsOf
  <2>3. Teardown' /\ Reports' /\ FlagStored'
    BY <1>4 DEF CopyNothing, Leave, TypeOK, Teardown, Reports, Reporting,
                FlagStored, PahoAlive, paho
  <2> QED BY <2>1, <2>2, <2>3
<1>5. CASE RunHandler(t)
  <2>1. TypeOK'
    <3>1. answered' \in Nat
      BY <1>5 DEF RunHandler, Counted, TypeOK
    <3> QED BY <1>5, <3>1 DEF RunHandler, Leave, TypeOK, paho, members
  <2>2. MutexHeldBriefly'
    BY <1>5 DEF RunHandler, Leave, TypeOK, MutexHeldBriefly, members
  <2>3. Teardown' /\ Reports' /\ FlagStored'
    BY <1>5 DEF RunHandler, Leave, TypeOK, Teardown, Reports, Reporting,
                FlagStored, PahoAlive, paho, members
  <2> QED BY <2>1, <2>2, <2>3
<1> QED BY <1>1, <1>2, <1>3, <1>4, <1>5 DEF CallStep

\* What the game thread calls while the client lives.
LEMMA GameThreadInv ==
    ASSUME ClientAssumption, Inv, GameThread
    PROVE  Inv'
<1> USE DEF Inv, Threads, PahoThreads, Nobody, GameThreadUses
<1>1. CASE \E k \in HandlerKinds : SetHandler(k)
  <2>1. TypeOK'
    BY <1>1 DEF SetHandler, paho, threads, counts, TypeOK, CallsOf, HandlerKinds, CallKinds, StoresFlag
  <2>2. MutexHeldBriefly'
    BY <1>1 DEF SetHandler, paho, threads, counts, TypeOK, MutexHeldBriefly, Teardown, CallsOf, StoresFlag
  <2>3. Teardown'
    BY <1>1 DEF SetHandler, paho, threads, counts, TypeOK, Teardown, CallsOf, StoresFlag
  <2>4. Reports'
    BY <1>1 DEF SetHandler, paho, threads, counts, TypeOK, Teardown, Reports, Reporting, PahoAlive, CallsOf, StoresFlag
  <2>5. FlagStored'
    BY <1>1 DEF SetHandler, paho, threads, counts, TypeOK, Reports, FlagStored, PahoAlive, CallsOf, StoresFlag
  <2> QED BY <2>1, <2>2, <2>3, <2>4, <2>5
<1>2. CASE Connect
  <2>1. TypeOK'
    BY <1>2 DEF Connect, members, threads, TypeOK, CallsOf, HandlerKinds, CallKinds, StoresFlag, ClientAssumption
  <2>2. MutexHeldBriefly'
    BY <1>2 DEF Connect, members, threads, TypeOK, MutexHeldBriefly, Teardown, CallsOf, StoresFlag
  <2>3. Teardown'
    BY <1>2 DEF Connect, members, threads, TypeOK, Teardown, CallsOf, StoresFlag
  <2>4. Reports'
    BY <1>2 DEF Connect, members, threads, TypeOK, Teardown, Reports, Reporting, PahoAlive, CallsOf, StoresFlag
  <2>5. FlagStored'
    BY <1>2 DEF Connect, members, threads, TypeOK, Reports, FlagStored, PahoAlive, CallsOf, StoresFlag
  <2> QED BY <2>1, <2>2, <2>3, <2>4, <2>5
<1>3. CASE Disconnect
  <2>1. TypeOK'
    BY <1>3 DEF Disconnect, RequestDisconnect, members, threads, TypeOK, CallsOf, HandlerKinds, CallKinds, StoresFlag, ClientAssumption
  <2>2. MutexHeldBriefly'
    BY <1>3 DEF Disconnect, RequestDisconnect, members, threads, TypeOK, MutexHeldBriefly, Teardown, CallsOf, StoresFlag
  <2>3. Teardown'
    BY <1>3 DEF Disconnect, RequestDisconnect, members, threads, TypeOK, Teardown, CallsOf, StoresFlag
  <2>4. Reports'
    BY <1>3 DEF Disconnect, RequestDisconnect, members, threads, TypeOK, Teardown, Reports, Reporting, PahoAlive, CallsOf, StoresFlag
  <2>5. FlagStored'
    BY <1>3 DEF Disconnect, RequestDisconnect, members, threads, TypeOK, Reports, FlagStored, PahoAlive, CallsOf, StoresFlag
  <2> QED BY <2>1, <2>2, <2>3, <2>4, <2>5
<1>4. CASE DisconnectError
  <2>1. TypeOK'
    BY <1>4 DEF DisconnectError, RequestDisconnect, NotifyError, Enter, members, TypeOK, CallsOf, HandlerKinds, CallKinds, StoresFlag, ClientAssumption
  <2>2. MutexHeldBriefly'
    BY <1>4 DEF DisconnectError, RequestDisconnect, NotifyError, Enter, members, TypeOK, MutexHeldBriefly, Teardown, CallsOf, StoresFlag
  <2>3. Teardown'
    BY <1>4 DEF DisconnectError, RequestDisconnect, NotifyError, Enter, members, TypeOK, Teardown, CallsOf, StoresFlag
  <2>4. Reports'
    BY <1>4 DEF DisconnectError, RequestDisconnect, NotifyError, Enter, members, TypeOK, Teardown, Reports, Reporting, PahoAlive, CallsOf, StoresFlag
  <2>5. FlagStored'
    BY <1>4 DEF DisconnectError, RequestDisconnect, NotifyError, Enter, members, TypeOK, Reports, FlagStored, PahoAlive, CallsOf, StoresFlag
  <2> QED BY <2>1, <2>2, <2>3, <2>4, <2>5
<1>5. CASE BeginDestroy
  <2>1. TypeOK'
    BY <1>5 DEF BeginDestroy, members, paho, threads, counts, TypeOK, CallsOf, HandlerKinds, CallKinds, StoresFlag
  <2>2. MutexHeldBriefly'
    BY <1>5 DEF BeginDestroy, members, paho, threads, counts, TypeOK, MutexHeldBriefly, Teardown, CallsOf, StoresFlag
  <2>3. Teardown'
    BY <1>5 DEF BeginDestroy, members, paho, threads, counts, TypeOK, Teardown, CallsOf, StoresFlag
  <2>4. Reports'
    BY <1>5 DEF BeginDestroy, members, paho, threads, counts, TypeOK, Teardown, Reports, Reporting, PahoAlive, CallsOf, StoresFlag
  <2>5. FlagStored'
    BY <1>5 DEF BeginDestroy, members, paho, threads, counts, TypeOK, Reports, FlagStored, PahoAlive, CallsOf, StoresFlag
  <2> QED BY <2>1, <2>2, <2>3, <2>4, <2>5
<1> QED BY <1>1, <1>2, <1>3, <1>4, <1>5 DEF GameThread

LEMMA DestructorInv ==
    ASSUME ClientAssumption, Inv, Destructor
    PROVE  Inv'
<1> USE DEF Inv, Threads, PahoThreads, Nobody
<1>1. CASE LockForStop
  <2>1. TypeOK'
    BY <1>1 DEF LockForStop, paho, threads, counts, TypeOK, CallsOf, HandlerKinds, CallKinds, StoresFlag
  <2>2. MutexHeldBriefly'
    BY <1>1 DEF LockForStop, paho, threads, counts, TypeOK, MutexHeldBriefly, Teardown, CallsOf, StoresFlag
  <2>3. Teardown'
    BY <1>1 DEF LockForStop, paho, threads, counts, TypeOK, Teardown, CallsOf, StoresFlag
  <2>4. Reports'
    BY <1>1 DEF LockForStop, paho, threads, counts, TypeOK, Teardown, Reports, Reporting, PahoAlive, CallsOf, StoresFlag
  <2>5. FlagStored'
    BY <1>1 DEF LockForStop, paho, threads, counts, TypeOK, Reports, FlagStored, PahoAlive, CallsOf, StoresFlag
  <2> QED BY <2>1, <2>2, <2>3, <2>4, <2>5
<1>2. CASE SetStopping
  <2>1. TypeOK'
    BY <1>2 DEF SetStopping, UnlockAndReset, paho, threads, counts, TypeOK, CallsOf, HandlerKinds, CallKinds, StoresFlag
  <2>2. MutexHeldBriefly'
    BY <1>2 DEF SetStopping, UnlockAndReset, paho, threads, counts, TypeOK, MutexHeldBriefly, Teardown, CallsOf, StoresFlag
  <2>3. Teardown'
    BY <1>2 DEF SetStopping, UnlockAndReset, paho, threads, counts, TypeOK, Teardown, CallsOf, StoresFlag
  <2>4. Reports'
    BY <1>2 DEF SetStopping, UnlockAndReset, paho, threads, counts, TypeOK, Teardown, Reports, Reporting, PahoAlive, CallsOf, StoresFlag
  <2>5. FlagStored'
    BY <1>2 DEF SetStopping, UnlockAndReset, paho, threads, counts, TypeOK, Reports, FlagStored, PahoAlive, CallsOf, StoresFlag
  <2> QED BY <2>1, <2>2, <2>3, <2>4, <2>5
<1>3. CASE PahoDestroy
  <2>1. TypeOK'
    BY <1>3 DEF PahoDestroy, members, threads, counts, TypeOK, CallsOf, HandlerKinds, CallKinds, StoresFlag
  <2>2. MutexHeldBriefly'
    BY <1>3 DEF PahoDestroy, members, threads, counts, TypeOK, MutexHeldBriefly, Teardown, CallsOf, StoresFlag
  <2>3. Teardown'
    BY <1>3 DEF PahoDestroy, members, threads, counts, TypeOK, Teardown, CallsOf, StoresFlag
  <2>4. Reports'
    BY <1>3 DEF PahoDestroy, members, threads, counts, TypeOK, Teardown, Reports, Reporting, PahoAlive, CallsOf, StoresFlag
  <2>5. FlagStored'
    BY <1>3 DEF PahoDestroy, members, threads, counts, TypeOK, Reports, FlagStored, PahoAlive, CallsOf, StoresFlag
  <2> QED BY <2>1, <2>2, <2>3, <2>4, <2>5
<1>4. CASE CancelAction
  <2>1. TypeOK'
    BY <1>4 DEF CancelAction, Enter, members, threads, TypeOK, CallsOf, HandlerKinds, CallKinds, StoresFlag
  <2>2. MutexHeldBriefly'
    BY <1>4 DEF CancelAction, Enter, members, threads, TypeOK, MutexHeldBriefly, Teardown, CallsOf, StoresFlag
  <2>3. Teardown'
    BY <1>4 DEF CancelAction, Enter, members, threads, TypeOK, Teardown, CallsOf, StoresFlag
  <2>4. Reports'
    BY <1>4 DEF CancelAction, Enter, members, threads, TypeOK, Teardown, Reports, Reporting, PahoAlive, CallsOf, StoresFlag
  <2>5. FlagStored'
    BY <1>4 DEF CancelAction, Enter, members, threads, TypeOK, Reports, FlagStored, PahoAlive, CallsOf, StoresFlag
  <2> QED BY <2>1, <2>2, <2>3, <2>4, <2>5
<1>5. CASE FreeMembers
  <2>1. TypeOK'
    BY <1>5 DEF FreeMembers, members, paho, threads, counts, TypeOK, CallsOf, HandlerKinds, CallKinds, StoresFlag
  <2>2. MutexHeldBriefly'
    BY <1>5 DEF FreeMembers, members, paho, threads, counts, TypeOK, MutexHeldBriefly, Teardown, CallsOf, StoresFlag
  <2>3. Teardown'
    BY <1>5 DEF FreeMembers, members, paho, threads, counts, TypeOK, Teardown, CallsOf, StoresFlag
  <2>4. Reports'
    BY <1>5 DEF FreeMembers, members, paho, threads, counts, TypeOK, Teardown, Reports, Reporting, PahoAlive, CallsOf, StoresFlag
  <2>5. FlagStored'
    BY <1>5 DEF FreeMembers, members, paho, threads, counts, TypeOK, Reports, FlagStored, PahoAlive, CallsOf, StoresFlag
  <2> QED BY <2>1, <2>2, <2>3, <2>4, <2>5
<1> QED BY <1>1, <1>2, <1>3, <1>4, <1>5 DEF Destructor

LEMMA NetworkInv ==
    ASSUME ClientAssumption, Inv, Network
    PROVE  Inv'
<1> USE DEF Inv, Threads, PahoThreads, Nobody
<1>1. CASE ConnectionUp
  <2>1. TypeOK'
    BY <1>1 DEF ConnectionUp, LinkChanges, PahoAlive, PahoLockFree, Enter, members, counts, TypeOK, CallsOf, HandlerKinds, CallKinds, StoresFlag
  <2>2. MutexHeldBriefly'
    BY <1>1 DEF ConnectionUp, LinkChanges, PahoAlive, PahoLockFree, Enter, members, counts, TypeOK, MutexHeldBriefly, Teardown, CallsOf, StoresFlag
  <2>3. Teardown'
    BY <1>1 DEF ConnectionUp, LinkChanges, PahoAlive, PahoLockFree, Enter, members, counts, TypeOK, Teardown, CallsOf, StoresFlag
  <2>4. Reports'
    BY <1>1 DEF ConnectionUp, LinkChanges, PahoAlive, PahoLockFree, Enter, members, counts, TypeOK, Teardown, Reports, Reporting, PahoAlive, CallsOf, StoresFlag
  <2>5. FlagStored'
    BY <1>1 DEF ConnectionUp, LinkChanges, PahoAlive, PahoLockFree, Enter, members, counts, TypeOK, Reports, FlagStored, PahoAlive, CallsOf, StoresFlag
  <2> QED BY <2>1, <2>2, <2>3, <2>4, <2>5
<1>2. CASE ConnectionLost
  <2>1. TypeOK'
    BY <1>2 DEF ConnectionLost, LinkChanges, PahoAlive, PahoLockFree, Enter, members, counts, TypeOK, CallsOf, HandlerKinds, CallKinds, StoresFlag
  <2>2. MutexHeldBriefly'
    BY <1>2 DEF ConnectionLost, LinkChanges, PahoAlive, PahoLockFree, Enter, members, counts, TypeOK, MutexHeldBriefly, Teardown, CallsOf, StoresFlag
  <2>3. Teardown'
    BY <1>2 DEF ConnectionLost, LinkChanges, PahoAlive, PahoLockFree, Enter, members, counts, TypeOK, Teardown, CallsOf, StoresFlag
  <2>4. Reports'
    BY <1>2 DEF ConnectionLost, LinkChanges, PahoAlive, PahoLockFree, Enter, members, counts, TypeOK, Teardown, Reports, Reporting, PahoAlive, CallsOf, StoresFlag
  <2>5. FlagStored'
    BY <1>2 DEF ConnectionLost, LinkChanges, PahoAlive, PahoLockFree, Enter, members, counts, TypeOK, Reports, FlagStored, PahoAlive, CallsOf, StoresFlag
  <2> QED BY <2>1, <2>2, <2>3, <2>4, <2>5
<1>3. CASE ServerDisconnect
  <2>1. TypeOK'
    BY <1>3 DEF ServerDisconnect, LinkChanges, PahoAlive, PahoLockFree, Enter, members, counts, TypeOK, CallsOf, HandlerKinds, CallKinds, StoresFlag
  <2>2. MutexHeldBriefly'
    BY <1>3 DEF ServerDisconnect, LinkChanges, PahoAlive, PahoLockFree, Enter, members, counts, TypeOK, MutexHeldBriefly, Teardown, CallsOf, StoresFlag
  <2>3. Teardown'
    BY <1>3 DEF ServerDisconnect, LinkChanges, PahoAlive, PahoLockFree, Enter, members, counts, TypeOK, Teardown, CallsOf, StoresFlag
  <2>4. Reports'
    BY <1>3 DEF ServerDisconnect, LinkChanges, PahoAlive, PahoLockFree, Enter, members, counts, TypeOK, Teardown, Reports, Reporting, PahoAlive, CallsOf, StoresFlag
  <2>5. FlagStored'
    BY <1>3 DEF ServerDisconnect, LinkChanges, PahoAlive, PahoLockFree, Enter, members, counts, TypeOK, Reports, FlagStored, PahoAlive, CallsOf, StoresFlag
  <2> QED BY <2>1, <2>2, <2>3, <2>4, <2>5
<1>4. CASE ConnectionRefused
  <2>1. TypeOK'
    BY <1>4 DEF ConnectionRefused, PahoLockFree, members, threads, counts, TypeOK, CallsOf, HandlerKinds, CallKinds, StoresFlag
  <2>2. MutexHeldBriefly'
    BY <1>4 DEF ConnectionRefused, PahoLockFree, members, threads, counts, TypeOK, MutexHeldBriefly, Teardown, CallsOf, StoresFlag
  <2>3. Teardown'
    BY <1>4 DEF ConnectionRefused, PahoLockFree, members, threads, counts, TypeOK, Teardown, CallsOf, StoresFlag
  <2>4. Reports'
    BY <1>4 DEF ConnectionRefused, PahoLockFree, members, threads, counts, TypeOK, Teardown, Reports, Reporting, PahoAlive, CallsOf, StoresFlag
  <2>5. FlagStored'
    BY <1>4 DEF ConnectionRefused, PahoLockFree, members, threads, counts, TypeOK, Reports, FlagStored, PahoAlive, CallsOf, StoresFlag
  <2> QED BY <2>1, <2>2, <2>3, <2>4, <2>5
<1>5. CASE MessageArrived
  <2>1. TypeOK'
    BY <1>5 DEF MessageArrived, PahoAlive, Enter, members, paho, counts, TypeOK, CallsOf, HandlerKinds, CallKinds, StoresFlag
  <2>2. MutexHeldBriefly'
    BY <1>5 DEF MessageArrived, PahoAlive, Enter, members, paho, counts, TypeOK, MutexHeldBriefly, Teardown, CallsOf, StoresFlag
  <2>3. Teardown'
    BY <1>5 DEF MessageArrived, PahoAlive, Enter, members, paho, counts, TypeOK, Teardown, CallsOf, StoresFlag
  <2>4. Reports'
    BY <1>5 DEF MessageArrived, PahoAlive, Enter, members, paho, counts, TypeOK, Teardown, Reports, Reporting, PahoAlive, CallsOf, StoresFlag
  <2>5. FlagStored'
    BY <1>5 DEF MessageArrived, PahoAlive, Enter, members, paho, counts, TypeOK, Reports, FlagStored, PahoAlive, CallsOf, StoresFlag
  <2> QED BY <2>1, <2>2, <2>3, <2>4, <2>5
<1> QED BY <1>1, <1>2, <1>3, <1>4, <1>5 DEF Network

LEMMA SendThreadInv ==
    ASSUME ClientAssumption, Inv, SendThread
    PROVE  Inv'
<1> USE DEF Inv, Threads, PahoThreads, Nobody
<1>1. CASE ProcessConnect
  <2>1. TypeOK'
    BY <1>1 DEF ProcessConnect, TakesAction, PahoLockFree, members, threads, counts, TypeOK, CallsOf, HandlerKinds, CallKinds, StoresFlag
  <2>2. MutexHeldBriefly'
    BY <1>1 DEF ProcessConnect, TakesAction, PahoLockFree, members, threads, counts, TypeOK, MutexHeldBriefly, Teardown, CallsOf, StoresFlag
  <2>3. Teardown'
    BY <1>1 DEF ProcessConnect, TakesAction, PahoLockFree, members, threads, counts, TypeOK, Teardown, CallsOf, StoresFlag
  <2>4. Reports'
    BY <1>1 DEF ProcessConnect, TakesAction, PahoLockFree, members, threads, counts, TypeOK, Teardown, Reports, Reporting, PahoAlive, CallsOf, StoresFlag
  <2>5. FlagStored'
    BY <1>1 DEF ProcessConnect, TakesAction, PahoLockFree, members, threads, counts, TypeOK, Reports, FlagStored, PahoAlive, CallsOf, StoresFlag
  <2> QED BY <2>1, <2>2, <2>3, <2>4, <2>5
<1>2. CASE DisconnectSucceeds
  <2>1. TypeOK'
    BY <1>2 DEF DisconnectSucceeds, TakesAction, PahoLockFree, PahoAlive, Enter, members, counts, TypeOK, CallsOf, HandlerKinds, CallKinds, StoresFlag
  <2>2. MutexHeldBriefly'
    BY <1>2 DEF DisconnectSucceeds, TakesAction, PahoLockFree, PahoAlive, Enter, members, counts, TypeOK, MutexHeldBriefly, Teardown, CallsOf, StoresFlag
  <2>3. Teardown'
    BY <1>2 DEF DisconnectSucceeds, TakesAction, PahoLockFree, PahoAlive, Enter, members, counts, TypeOK, Teardown, CallsOf, StoresFlag
  <2>4. Reports'
    BY <1>2 DEF DisconnectSucceeds, TakesAction, PahoLockFree, PahoAlive, Enter, members, counts, TypeOK, Teardown, Reports, Reporting, PahoAlive, CallsOf, StoresFlag
  <2>5. FlagStored'
    BY <1>2 DEF DisconnectSucceeds, TakesAction, PahoLockFree, PahoAlive, Enter, members, counts, TypeOK, Reports, FlagStored, PahoAlive, CallsOf, StoresFlag
  <2> QED BY <2>1, <2>2, <2>3, <2>4, <2>5
<1>3. CASE DisconnectFails
  <2>1. TypeOK'
    BY <1>3 DEF DisconnectFails, TakesAction, PahoLockFree, PahoAlive, Enter, members, counts, TypeOK, CallsOf, HandlerKinds, CallKinds, StoresFlag
  <2>2. MutexHeldBriefly'
    BY <1>3 DEF DisconnectFails, TakesAction, PahoLockFree, PahoAlive, Enter, members, counts, TypeOK, MutexHeldBriefly, Teardown, CallsOf, StoresFlag
  <2>3. Teardown'
    BY <1>3 DEF DisconnectFails, TakesAction, PahoLockFree, PahoAlive, Enter, members, counts, TypeOK, Teardown, CallsOf, StoresFlag
  <2>4. Reports'
    BY <1>3 DEF DisconnectFails, TakesAction, PahoLockFree, PahoAlive, Enter, members, counts, TypeOK, Teardown, Reports, Reporting, PahoAlive, CallsOf, StoresFlag
  <2>5. FlagStored'
    BY <1>3 DEF DisconnectFails, TakesAction, PahoLockFree, PahoAlive, Enter, members, counts, TypeOK, Reports, FlagStored, PahoAlive, CallsOf, StoresFlag
  <2> QED BY <2>1, <2>2, <2>3, <2>4, <2>5
<1> QED BY <1>1, <1>2, <1>3 DEF SendThread

LEMMA StutterInv == ASSUME Inv, UNCHANGED vars PROVE Inv'
BY DEF Inv, TypeOK, MutexHeldBriefly, Teardown, Reports, Reporting, FlagStored,
       PahoAlive, vars, members, paho, threads, counts

\* The strengthened invariant holds in every behaviour of the client.
THEOREM InvHolds == Spec => []Inv
<1>1. Init => Inv
  BY ClientAssumption, InitInv
<1>2. ASSUME Inv, [Next]_vars PROVE Inv'
  <2>1. CASE \E t \in Threads : CallStep(t)
    BY <1>2, <2>1, ClientAssumption, CallStepInv
  <2>2. CASE GameThread
    BY <1>2, <2>2, ClientAssumption, GameThreadInv
  <2>3. CASE Destructor
    BY <1>2, <2>3, ClientAssumption, DestructorInv
  <2>4. CASE Network
    BY <1>2, <2>4, ClientAssumption, NetworkInv
  <2>5. CASE SendThread
    BY <1>2, <2>5, ClientAssumption, SendThreadInv
  <2>6. CASE UNCHANGED vars
    BY <1>2, <2>6, StutterInv
  <2> QED BY <1>2, <2>1, <2>2, <2>3, <2>4, <2>5, <2>6 DEF Next
<1> QED BY <1>1, <1>2, PTL DEF Spec

-----------------------------------------------------------------------------
\* The variables of the client and of its environment keep their types.
THEOREM TypeCorrect == Spec => []TypeOK
<1>1. Inv => TypeOK
  BY DEF Inv
<1> QED BY <1>1, InvHolds, PTL

\* m_handlerMutex is held only to copy a handler or to set m_stopping, never
\* around a handler or Paho's destruction.
THEOREM MutexIsHeldBriefly == Spec => []MutexHeldBriefly
<1>1. Inv => MutexHeldBriefly
  BY DEF Inv
<1> QED BY <1>1, InvHolds, PTL

\* Between callbacks isConnected() is Paho's own view, however many connects
\* and disconnects there are: no callback about to store the flag is then in
\* progress, because only those under Paho's lock store it.
THEOREM FlagIsPahosView == Spec => []FlagTracksLink
<1>1. Inv => FlagTracksLink
  <2> SUFFICES ASSUME Inv, PahoAlive, PahoLockFree
               PROVE  isConnected <=> link = "up"
    BY DEF FlagTracksLink
  <2>1. \A t \in PahoThreads : pc[t] # "flag"
    BY DEF PahoThreads, Threads, PahoLockFree, Inv, Reports, StoresFlag
  <2> QED BY <2>1 DEF Inv, FlagStored
<1> QED BY <1>1, InvHolds, PTL

\* A handler that reports a change of the connection finds isConnected()
\* already changed.
THEOREM StateIsStoredFirst == Spec => []StateBeforeNotice
<1>1. Inv => StateBeforeNotice
  <2> SUFFICES ASSUME Inv, NEW t \in Threads, pc[t] = "run",
                      call[t] \in {"connected", "success", "connectionLost", "disconnected"}
               PROVE  isConnected <=> call[t] = "connected"
    BY DEF StateBeforeNotice
  <2>1. t \in PahoThreads
    BY DEF Inv, TypeOK, CallsOf, Threads, PahoThreads
  <2>2. PahoAlive
    BY <2>1 DEF Inv, TypeOK, Teardown, PahoAlive
  <2>3. \A u \in PahoThreads : pc[u] # "flag"
    BY <2>1 DEF PahoThreads, Threads, Inv, Reports, Reporting, StoresFlag
  <2>4. call[t] = "connected" <=> link = "up"
    BY <2>1, <2>2 DEF Inv, Reports
  <2> QED BY <2>2, <2>3, <2>4 DEF Inv, FlagStored
<1> QED BY <1>1, InvHolds, PTL

\* Once Paho's destruction has waited for the running callbacks, no handler
\* runs: neither for a late callback nor for a cancelled disconnect.
THEOREM DestructionIsSilent == Spec => []SilentDuringDestruction
<1>1. Inv => SilentDuringDestruction
  BY DEF Inv, Teardown, SilentDuringDestruction, Threads, PahoThreads
<1> QED BY <1>1, InvHolds, PTL

\* No thread is inside the client when its members are destroyed.
THEOREM MembersOutliveTheirUse == Spec => []MembersOutliveCallbacks
<1>1. Inv => MembersOutliveCallbacks
  BY DEF Inv, Teardown, MembersOutliveCallbacks, Threads, PahoThreads
<1> QED BY <1>1, InvHolds, PTL

-----------------------------------------------------------------------------
(* Every disconnect request is counted once: in Paho's queue, in a thread  *)
(* that notifies of it, or as answered or excused.                         *)

\* InQueue counts them.
InQueuePositions == Cardinality(Positions(actions, "disconnect"))

LEMMA InQueueIs == InQueue = InQueuePositions /\ InQueue' = InQueuePositions'
  BY DEF InQueue, InQueuePositions, Positions

LEMMA InQueueType == TypeOK => InQueue \in Nat
  <1> SUFFICES ASSUME actions \in Seq({"connect", "disconnect"}) PROVE InQueuePositions \in Nat
    BY InQueueIs DEF TypeOK
  <1> QED  BY PositionsFinite DEF InQueuePositions

\* Taking an action from Paho's queue.
LEMMA InQueueTail ==
    ASSUME TypeOK, actions # <<>>, actions' = Tail(actions)
    PROVE  InQueue = InQueue' + (IF Head(actions) = "disconnect" THEN 1 ELSE 0)
  <1>1. actions \in Seq({"connect", "disconnect"})
    BY DEF TypeOK
  <1>2. Cardinality(Positions(actions, "disconnect")) =
            Cardinality(Positions(Tail(actions), "disconnect"))
            + (IF Head(actions) = "disconnect" THEN 1 ELSE 0)
    BY <1>1, CountTail
  <1> QED  BY <1>2, InQueueIs DEF InQueuePositions

LEMMA InQueueAppend ==
    ASSUME TypeOK, NEW a \in {"connect", "disconnect"}, actions' = Append(actions, a)
    PROVE  InQueue' = InQueue + (IF a = "disconnect" THEN 1 ELSE 0)
  <1>1. actions \in Seq({"connect", "disconnect"})
    BY DEF TypeOK
  <1>2. Cardinality(Positions(Append(actions, a), "disconnect")) =
            Cardinality(Positions(actions, "disconnect")) + (IF a = "disconnect" THEN 1 ELSE 0)
    BY <1>1, CountAppend
  <1> QED  BY <1>2, InQueueIs DEF InQueuePositions

\* Who notifies after a thread has entered or left the client.
LEMMA EnterNotifies ==
    ASSUME TypeOK, NEW t \in Threads, NEW k \in CallKinds, Enter(t, k)
    PROVE  \A u \in Threads : u \in Notifying' <=> IF u = t THEN k \in Answers ELSE u \in Notifying
  BY DEF TypeOK, Enter, Notifying

LEMMA LeaveNotifies ==
    ASSUME TypeOK, NEW t \in Threads, Leave(t)
    PROVE  \A u \in Threads : u \in Notifying' <=> u # t /\ u \in Notifying
  BY DEF TypeOK, Leave, Notifying

\* The receive thread never answers a request.
LEMMA RecvNotifiesNobody == TypeOK => "recv" \notin Notifying
  BY DEF TypeOK, Notifying, Threads, CallsOf, HandlerKinds, Answers

LEMMA SameCount ==
    ASSUME AnsweredOnce,
           UNCHANGED <<requests, answered, excused, InQueue, Notifying>>
    PROVE  AnsweredOnce'
  BY DEF AnsweredOnce

\* A call moves on: its request stays where it is, or is answered or excused.
LEMMA CallStepCounts ==
    ASSUME Inv, AnsweredOnce, NEW t \in Threads, CallStep(t)
    PROVE  AnsweredOnce'
  <1> USE DEF Inv
  <1>1. ASSUME NEW p \in {"lock", "copy", "run"}, pc[t] # "idle",
               pc' = [pc EXCEPT ![t] = p], UNCHANGED <<call, actions, counts>>
        PROVE  AnsweredOnce'
    <2>1. Notifying' = Notifying
      BY <1>1 DEF TypeOK, Notifying
    <2> QED  BY <1>1, <2>1, SameCount DEF InQueue, counts
  <1>2. CASE StoreFlag(t) \/ LockHandlers(t) \/ CopyHandler(t)
    BY <1>1, <1>2 DEF StoreFlag, LockHandlers, CopyHandler, paho
  <1>3. ASSUME Leave(t), UNCHANGED <<actions, requests>>, pc[t] # "idle",
               \/ answered' = Counted(answered, t) /\ excused' = excused
               \/ excused' = Counted(excused, t) /\ answered' = answered
        PROVE  AnsweredOnce'
    <2>1. /\ "game" \in Notifying' <=> t # "game" /\ "game" \in Notifying
          /\ "send" \in Notifying' <=> t # "send" /\ "send" \in Notifying
      BY <1>3, LeaveNotifies DEF Threads
    <2>2. t \in Notifying <=> call[t] \in Answers
      BY <1>3 DEF Notifying
    <2>3. InQueue' = InQueue /\ InQueue \in Nat
      BY <1>3, InQueueType DEF InQueue
    <2>4. answered \in Nat /\ excused \in Nat /\ requests \in Nat /\ requests' = requests
      BY <1>3 DEF TypeOK
    <2>5. CASE t \notin Notifying
      <3>1. /\ "game" \in Notifying' <=> "game" \in Notifying
            /\ "send" \in Notifying' <=> "send" \in Notifying
        BY <2>1, <2>5
      <3>2. answered' = answered /\ excused' = excused
        BY <1>3, <2>2, <2>5 DEF Counted
      <3> QED  BY <2>3, <2>4, <3>1, <3>2 DEF AnsweredOnce
    <2>6. CASE t \in Notifying
      <3>1. \/ answered' = answered + 1 /\ excused' = excused
            \/ excused' = excused + 1 /\ answered' = answered
        BY <1>3, <2>2, <2>6 DEF Counted
      <3>2. t = "game" \/ t = "send"
        BY <2>6, RecvNotifiesNobody DEF Threads
      <3>3. CASE t = "game"
        <4>1. /\ "game" \in Notifying /\ "game" \notin Notifying'
              /\ "send" \in Notifying' <=> "send" \in Notifying
          BY <2>1, <2>6, <3>3
        <4> QED  BY <2>3, <2>4, <3>1, <4>1 DEF AnsweredOnce
      <3>4. CASE t = "send"
        <4>1. /\ "send" \in Notifying /\ "send" \notin Notifying'
              /\ "game" \in Notifying' <=> "game" \in Notifying
          BY <2>1, <2>6, <3>4
        <4> QED  BY <2>3, <2>4, <3>1, <4>1 DEF AnsweredOnce
      <3> QED  BY <3>2, <3>3, <3>4
    <2> QED  BY <2>5, <2>6
  <1>4. CASE CopyNothing(t)
    BY <1>3, <1>4 DEF CopyNothing, paho
  <1>5. CASE RunHandler(t)
    BY <1>3, <1>5 DEF RunHandler, paho
  <1> QED  BY <1>2, <1>4, <1>5 DEF CallStep

\* A request goes to Paho's queue, or the game thread notifies of it at once.
LEMMA GameThreadCounts ==
    ASSUME Inv, AnsweredOnce, GameThread
    PROVE  AnsweredOnce'
  <1> USE DEF Inv
  <1>1. CASE (\E k \in HandlerKinds : SetHandler(k)) \/ BeginDestroy
    <2>1. UNCHANGED <<actions, pc, call, requests, answered, excused>>
      BY <1>1 DEF SetHandler, BeginDestroy, paho, threads, counts
    <2> QED  BY <2>1, SameCount DEF InQueue, Notifying
  <1>2. CASE Connect
    <2>1. InQueue' = InQueue
      BY <1>2, InQueueAppend, InQueueType DEF Connect
    <2> QED  BY <1>2, <2>1, SameCount DEF Connect, Notifying, threads
  <1>3. CASE Disconnect
    <2>1. InQueue' = InQueue + 1 /\ InQueue \in Nat
      BY <1>3, InQueueAppend, InQueueType DEF Disconnect
    <2>2. /\ Notifying' = Notifying
          /\ requests' = requests + 1 /\ UNCHANGED <<answered, excused>>
      BY <1>3 DEF Disconnect, RequestDisconnect, Notifying, threads
    <2>3. requests \in Nat /\ answered \in Nat /\ excused \in Nat
      BY DEF TypeOK
    <2> QED  BY <2>1, <2>2, <2>3 DEF AnsweredOnce
  <1>4. CASE DisconnectError
    <2>1. /\ Enter("game", "error") /\ pc["game"] = "idle"
          /\ requests' = requests + 1 /\ UNCHANGED <<answered, excused, actions>>
      BY <1>4 DEF DisconnectError, RequestDisconnect, NotifyError, GameThreadUses
    <2>2. /\ "game" \notin Notifying /\ "game" \in Notifying'
          /\ "send" \in Notifying' <=> "send" \in Notifying
      BY <2>1, EnterNotifies DEF Threads, CallKinds, Answers, Notifying
    <2>3. InQueue' = InQueue /\ InQueue \in Nat
      BY <2>1, InQueueType DEF InQueue
    <2>4. requests \in Nat /\ answered \in Nat /\ excused \in Nat
      BY DEF TypeOK
    <2> QED  BY <2>1, <2>2, <2>3, <2>4 DEF AnsweredOnce
  <1> QED  BY <1>1, <1>2, <1>3, <1>4 DEF GameThread

\* A cancelled request is excused, or the destroying thread notifies of it.
LEMMA DestructorCounts ==
    ASSUME Inv, AnsweredOnce, Destructor
    PROVE  AnsweredOnce'
  <1> USE DEF Inv
  <1>1. CASE LockForStop \/ SetStopping \/ PahoDestroy \/ FreeMembers
    <2>1. UNCHANGED <<actions, pc, call, requests, answered, excused>>
      BY <1>1 DEF LockForStop, SetStopping, PahoDestroy, FreeMembers, paho, threads, counts
    <2> QED  BY <2>1, SameCount DEF InQueue, Notifying
  <1>2. CASE CancelAction
    <2>1. /\ actions # <<>> /\ actions' = Tail(actions) /\ pc["game"] = "idle"
          /\ UNCHANGED <<requests, answered>>
      BY <1>2 DEF CancelAction
    <2>2. /\ InQueue = InQueue' + (IF Head(actions) = "disconnect" THEN 1 ELSE 0)
          /\ InQueue' \in Nat
      <3>1. Tail(actions) \in Seq({"connect", "disconnect"})
        BY <2>1 DEF TypeOK
      <3>2. InQueue' \in Nat
        BY <2>1, <3>1, PositionsFinite, InQueueIs DEF InQueuePositions
      <3> QED  BY <2>1, <3>2, InQueueTail
    <2>3. requests \in Nat /\ answered \in Nat /\ excused \in Nat
      BY DEF TypeOK
    <2>4. CASE Head(actions) = "disconnect" /\ Enter("game", "failure") /\ UNCHANGED excused
      <3>1. /\ "game" \notin Notifying /\ "game" \in Notifying'
            /\ "send" \in Notifying' <=> "send" \in Notifying
        BY <2>1, <2>4, EnterNotifies DEF Threads, CallKinds, Answers, Notifying
      <3> QED  BY <2>1, <2>2, <2>3, <2>4, <3>1 DEF AnsweredOnce
    <2>5. CASE /\ excused' = IF Head(actions) = "disconnect" THEN excused + 1 ELSE excused
               /\ UNCHANGED threads
      <3>1. Notifying' = Notifying
        BY <2>5 DEF Notifying, threads
      <3> QED  BY <2>1, <2>2, <2>3, <2>5, <3>1 DEF AnsweredOnce
    <2> QED  BY <1>2, <2>4, <2>5 DEF CancelAction
  <1> QED  BY <1>1, <1>2 DEF Destructor

\* Paho's threads: a request leaves the queue when the send thread notifies of it.
LEMMA PahoCounts ==
    ASSUME Inv, AnsweredOnce, Network \/ SendThread
    PROVE  AnsweredOnce'
  <1> USE DEF Inv
  <1>1. ASSUME NEW k \in HandlerKinds, Enter("recv", k),
               UNCHANGED <<actions, requests, answered, excused>>
        PROVE  AnsweredOnce'
    <2>1. \A u \in Threads : u \in Notifying' <=> u \in Notifying
      BY <1>1, EnterNotifies, RecvNotifiesNobody DEF Threads, CallKinds, HandlerKinds, Answers
    <2>2. Notifying' = Notifying
      BY <2>1 DEF Notifying
    <2> QED  BY <1>1, <2>2, SameCount DEF InQueue
  <1>2. CASE Network
    <2>1. CASE ConnectionRefused
      <3>1. UNCHANGED <<actions, pc, call, requests, answered, excused>>
        BY <2>1 DEF ConnectionRefused, threads, counts
      <3> QED  BY <3>1, SameCount DEF InQueue, Notifying
    <2>2. CASE ~ConnectionRefused
      BY <1>1, <1>2, <2>2
      DEF Network, ConnectionUp, ConnectionLost, ServerDisconnect, LinkChanges,
          MessageArrived, HandlerKinds, counts, paho
    <2> QED  BY <2>1, <2>2
  <1>3. ASSUME NEW a \in {"connect", "disconnect"}, TakesAction(a)
        PROVE  /\ UNCHANGED <<requests, answered, excused>>
               /\ InQueue = InQueue' + (IF a = "disconnect" THEN 1 ELSE 0)
               /\ InQueue' \in Nat
    <2>1. actions # <<>> /\ actions' = Tail(actions) /\ Head(actions) = a
      BY <1>3 DEF TakesAction
    <2>2. Tail(actions) \in Seq({"connect", "disconnect"})
      BY <2>1 DEF TypeOK
    <2>3. InQueue' \in Nat
      BY <2>1, <2>2, PositionsFinite, InQueueIs DEF InQueuePositions
    <2> QED  BY <1>3, <2>1, <2>3, InQueueTail DEF TakesAction, counts
  <1>4. CASE ProcessConnect
    <2>1. InQueue' = InQueue /\ UNCHANGED <<requests, answered, excused>>
      BY <1>3, <1>4 DEF ProcessConnect
    <2> QED  BY <1>4, <2>1, SameCount DEF ProcessConnect, Notifying, threads
  <1>5. ASSUME NEW k \in {"success", "failure"}, TakesAction("disconnect"), Enter("send", k)
        PROVE  AnsweredOnce'
    <2>1. /\ InQueue = InQueue' + 1 /\ InQueue' \in Nat
          /\ UNCHANGED <<requests, answered, excused>>
      BY <1>3, <1>5
    <2>2. pc["send"] = "idle"
      BY <1>5 DEF TakesAction
    <2>3. /\ "send" \notin Notifying /\ "send" \in Notifying'
          /\ "game" \in Notifying' <=> "game" \in Notifying
      BY <1>5, <2>2, EnterNotifies DEF Threads, CallKinds, Answers, Notifying
    <2>4. requests \in Nat /\ answered \in Nat /\ excused \in Nat
      BY DEF TypeOK
    <2> QED  BY <2>1, <2>3, <2>4 DEF AnsweredOnce
  <1>6. CASE DisconnectSucceeds \/ DisconnectFails
    BY <1>5, <1>6 DEF DisconnectSucceeds, DisconnectFails
  <1> QED  BY <1>2, <1>4, <1>6 DEF SendThread

\* Every call of disconnect has one answer at most and, until it has, is in
\* exactly one place: Paho's queue, the thread that notifies, or, silenced with
\* the client, the count of excused ones.
THEOREM EveryRequestAnsweredOnce == Spec => []AnsweredOnce
<1>1. Init => AnsweredOnce
  <2> SUFFICES ASSUME Init PROVE AnsweredOnce
    OBVIOUS
  <2>1. InQueue = 0
    <3>1. {i \in DOMAIN actions : actions[i] = "disconnect"} = {}
      BY DEF Init
    <3> QED  BY <3>1, FS_EmptySet DEF InQueue
  <2> QED  BY <2>1 DEF Init, AnsweredOnce, Notifying, Threads
<1>2. ASSUME Inv, AnsweredOnce, [Next]_vars PROVE AnsweredOnce'
  <2>1. CASE UNCHANGED vars
    BY <1>2, <2>1, SameCount DEF vars, paho, threads, counts, InQueue, Notifying
  <2> QED
    BY <1>2, <2>1, CallStepCounts, GameThreadCounts, DestructorCounts, PahoCounts DEF Next
<1> QED  BY <1>1, <1>2, InvHolds, PTL DEF Spec

\* Nothing is owed when nothing is queued and no thread is in the client.
LEMMA AllSettled ==
    ASSUME Inv, AnsweredOnce, actions = <<>>, \A t \in Threads : pc[t] = "idle"
    PROVE  requests = answered + excused
  <1>1. InQueue = 0
    <2>1. {i \in DOMAIN actions : actions[i] = "disconnect"} = {}
      OBVIOUS
    <2> QED  BY <2>1, FS_EmptySet DEF InQueue
  <1>2. "game" \notin Notifying /\ "send" \notin Notifying
    BY DEF Notifying
  <1>3. requests \in Nat /\ answered \in Nat /\ excused \in Nat
    BY DEF Inv, TypeOK
  <1> QED  BY <1>1, <1>2, <1>3 DEF AnsweredOnce

\* Once the client's members are freed nothing is owed any more: each request
\* was answered by its handler or excused, none is left in a queue or a thread.
THEOREM NothingOwedWhenFreed == Spec => [](dtor = "freed" => requests = answered + excused)
<1> DEFINE Emptied == dtor = "freed" => actions = <<>>
<1>1. Init => Emptied
  BY DEF Init
<1>2. ASSUME Inv, Emptied, [Next]_vars PROVE Emptied'
  <2>1. CASE \E t \in Threads : CallStep(t)
    BY <1>2, <2>1 DEF CallStep, StoreFlag, LockHandlers, CopyHandler, CopyNothing, RunHandler, paho
  <2>2. CASE GameThread
    BY <1>2, <2>2
    DEF GameThread, GameThreadUses, SetHandler, Connect, Disconnect, DisconnectError,
        RequestDisconnect, BeginDestroy, paho
  <2>3. CASE Destructor
    BY <1>2, <2>3
    DEF Destructor, LockForStop, SetStopping, UnlockAndReset, PahoDestroy, CancelAction,
        FreeMembers, paho
  <2>4. CASE Network \/ SendThread
    BY <1>2, <2>4
    DEF Network, ConnectionUp, ConnectionLost, ServerDisconnect, LinkChanges, ConnectionRefused,
        MessageArrived, SendThread, ProcessConnect, DisconnectSucceeds, DisconnectFails,
        TakesAction, PahoAlive
  <2>5. CASE UNCHANGED vars
    BY <1>2, <2>5 DEF vars, paho
  <2> QED  BY <1>2, <2>1, <2>2, <2>3, <2>4, <2>5 DEF Next
<1>3. Inv /\ AnsweredOnce /\ Emptied => (dtor = "freed" => requests = answered + excused)
  BY AllSettled DEF Inv, Teardown, Threads, PahoThreads
<1> QED  BY <1>1, <1>2, <1>3, InvHolds, EveryRequestAnsweredOnce, PTL DEF Spec

-----------------------------------------------------------------------------
(* Nobody waits for ever: what DestroyCompletes rests on besides fairness. *)

\* A thread inside the client has a step to take: it waits at most for the mutex.
ThreadCanStep(t) ==
    \/ pc[t] \in {"flag", "copy", "run"}
    \/ pc[t] = "lock" /\ mutex = Nobody

DestructorCanStep ==
    \/ dtor = "lock" /\ mutex = Nobody
    \/ dtor = "stop"
    \/ dtor = "reset" /\ \A t \in PahoThreads : pc[t] = "idle"
    \/ dtor = "cancel" /\ pc["game"] = "idle"

SomebodyCanStep ==
    dtor \notin {"alive", "freed"} \/ (\E t \in Threads : pc[t] # "idle") =>
        DestructorCanStep \/ \E t \in Threads : ThreadCanStep(t)

\* While anybody is inside the client or destroys it, somebody can take a step:
\* the destructor, which waits for callbacks, and the callbacks, which wait for
\* m_handlerMutex, never wait for one another in a circle.
THEOREM NobodyWaitsInACircle == Spec => []SomebodyCanStep
<1>1. ASSUME Inv, NEW t \in Threads, pc[t] # "idle"
      PROVE  DestructorCanStep \/ \E u \in Threads : ThreadCanStep(u)
  <2>1. CASE mutex = Nobody
    BY <1>1, <2>1 DEF Inv, TypeOK, ThreadCanStep
  <2>2. CASE mutex # Nobody
    <3>1. mutex \in Threads
      BY <1>1, <2>2 DEF Inv, TypeOK
    <3>2. pc[mutex] = "copy" \/ dtor = "stop"
      BY <1>1, <3>1 DEF Inv, MutexHeldBriefly
    <3> QED  BY <3>1, <3>2 DEF ThreadCanStep, DestructorCanStep
  <2> QED  BY <2>1, <2>2
<1>2. ASSUME Inv, dtor \notin {"alive", "freed"}, \A t \in Threads : pc[t] = "idle"
      PROVE  DestructorCanStep
  <2>1. mutex \in Threads => dtor = "stop"
    BY <1>2 DEF Inv, MutexHeldBriefly
  <2> QED  BY <1>2, <2>1 DEF Inv, TypeOK, DestructorCanStep, PahoThreads, Threads, Nobody
<1>3. Inv => SomebodyCanStep
  BY <1>1, <1>2 DEF SomebodyCanStep
<1> QED  BY <1>3, InvHolds, PTL

\* What is left to do in the destructor once Paho's threads are gone.
CancelRank ==
    4 * Len(actions)
    + (IF pc["game"] = "lock" THEN 2 ELSE IF pc["game"] = "copy" THEN 1 ELSE 0)

Advances ==
    dtor = "cancel" =>
        \/ dtor' = "freed"
        \/ /\ dtor' = "cancel"
           /\ CancelRank \in Nat /\ CancelRank' \in Nat
           /\ CancelRank' < CancelRank

\* From then on every step of the client brings the destructor closer to its
\* end: cancelled actions are finitely many and nobody adds to them.
THEOREM CancellationAdvances == Spec => [][Advances]_vars
<1>1. ASSUME Inv, Next, dtor = "cancel", dtor' # "freed"
      PROVE  dtor' = "cancel" /\ CancelRank \in Nat /\ CancelRank' \in Nat /\ CancelRank' < CancelRank
  <2>1. \A t \in PahoThreads : pc[t] = "idle"
    BY <1>1 DEF Inv, Teardown
  <2>2. pc["game"] \in {"idle", "lock", "copy"}
    BY <1>1 DEF Inv, TypeOK, Threads, Teardown, Reports, CallsOf, StoresFlag
  <2>3. CASE \E t \in Threads : CallStep(t)
    <3>1. CallStep("game")
      BY <2>1, <2>3
      DEF CallStep, StoreFlag, LockHandlers, CopyHandler, CopyNothing, RunHandler, Threads,
          PahoThreads
    <3>2. stopping
      BY <1>1 DEF Inv, Teardown
    <3>3. LockHandlers("game") \/ CopyNothing("game")
      BY <2>2, <3>1, <3>2
      DEF CallStep, StoreFlag, CopyHandler, IsCopied, RunHandler
    <3>4. /\ actions' = actions /\ dtor' = dtor
          /\ \/ pc["game"] = "lock" /\ pc'["game"] = "copy"
             \/ pc["game"] = "copy" /\ pc'["game"] = "idle"
      <4>1. pc \in [Threads -> {"idle", "flag", "lock", "copy", "run"}] /\ "game" \in Threads
        BY <1>1 DEF Inv, TypeOK, Threads
      <4> QED  BY <3>3, <4>1 DEF LockHandlers, CopyNothing, Leave, paho
    <3>5. Len(actions) \in Nat
      BY <1>1 DEF Inv, TypeOK
    <3> QED  BY <1>1, <3>4, <3>5 DEF CancelRank
  <2>4. CASE Destructor
    <3>1. CancelAction
      BY <1>1, <2>4 DEF Destructor, LockForStop, SetStopping, PahoDestroy, FreeMembers
    <3>2. /\ Len(actions) \in Nat /\ Len(actions') \in Nat /\ Len(actions') = Len(actions) - 1
      BY <1>1, <3>1 DEF CancelAction, Inv, TypeOK
    <3>3. dtor' = dtor /\ pc["game"] = "idle" /\ pc'["game"] \in {"idle", "lock"}
      <4>1. pc \in [Threads -> {"idle", "flag", "lock", "copy", "run"}] /\ "game" \in Threads
        BY <1>1 DEF Inv, TypeOK, Threads
      <4> QED  BY <3>1, <4>1 DEF CancelAction, Enter, StoresFlag, threads
    <3> QED  BY <1>1, <3>2, <3>3 DEF CancelRank
  <2>5. ~GameThread /\ ~Network /\ ~SendThread
    BY <1>1
    DEF GameThread, GameThreadUses, SetHandler, Connect, Disconnect, DisconnectError,
        RequestDisconnect, BeginDestroy, Network, ConnectionUp, ConnectionLost,
        ServerDisconnect, LinkChanges, ConnectionRefused, MessageArrived, SendThread,
        ProcessConnect, DisconnectSucceeds, DisconnectFails, TakesAction, PahoAlive
  <2> QED  BY <1>1, <2>3, <2>4, <2>5 DEF Next
<1>2. Inv /\ [Next]_vars => [Advances]_vars
  BY <1>1 DEF Advances
<1> QED  BY <1>2, InvHolds, PTL DEF Spec

-----------------------------------------------------------------------------
(* A client keeps ClientContract.                                          *)

Life ==
    IF dtor = "freed" THEN "gone" ELSE IF stopping THEN "closed" ELSE "open"

Purpose(t) ==
    IF pc[t] # "run" THEN "none" ELSE IF call[t] \in Answers THEN "answer" ELSE "event"

Serving == [t \in Threads |-> Purpose(t)]

Owed == requests - (answered + excused)

Contract == INSTANCE ClientContract WITH
    life <- Life, bound <- "disconnected" \in handlers, serving <- Serving, owed <- Owed

\* The steps that the contract does not see.
LEMMA Unseen ==
    ASSUME UNCHANGED <<dtor, stopping, handlers, threads, requests, answered, excused>>
    PROVE  UNCHANGED Contract!vars
  BY DEF Contract!vars, Life, Serving, Purpose, Owed, threads

LEMMA LifeOf ==
    ASSUME Inv
    PROVE  /\ dtor \in {"alive", "lock", "stop"} => Life = "open"
           /\ dtor \in {"reset", "cancel"} => Life = "closed"
           /\ ~stopping => Life = "open"
           /\ Life = "closed" => stopping
  BY DEF Inv, TypeOK, Teardown, Life

\* What the threads serve when one of them moves.
LEMMA ServingIs ==
    ASSUME NEW t \in Threads,
           \A u \in Threads \ {t} : pc'[u] = pc[u] /\ call'[u] = call[u]
    PROVE  /\ Serving[t] = Purpose(t)
           /\ Serving' = [Serving EXCEPT ![t] = Purpose(t)']
  <1>1. \A u \in Threads : u # t => Purpose(u)' = Purpose(u)
    BY DEF Purpose
  <1> QED  BY <1>1 DEF Serving

LEMMA StillServing ==
    ASSUME NEW t \in Threads, pc[t] # "run", pc'[t] # "run",
           \A u \in Threads \ {t} : pc'[u] = pc[u] /\ call'[u] = call[u]
    PROVE  Serving' = Serving
  <1>1. \A u \in Threads : Purpose(u)' = Purpose(u)
    BY DEF Purpose
  <1> QED  BY <1>1 DEF Serving

LEMMA EnterServes ==
    ASSUME TypeOK, NEW t \in Threads, NEW k, Enter(t, k), pc[t] = "idle"
    PROVE  Serving' = Serving
  <1>1. /\ pc'[t] # "run"
        /\ \A u \in Threads \ {t} : pc'[u] = pc[u] /\ call'[u] = call[u]
    BY DEF TypeOK, Enter
  <1> QED  BY <1>1, StillServing

\* Whoever notifies of a request, and every request in the queue, is owed.
LEMMA OwedWhileOpen ==
    ASSUME Inv, AnsweredOnce,
           (\E t \in Threads : t \in Notifying) \/ (actions # <<>> /\ Head(actions) = "disconnect")
    PROVE  Owed \in Nat /\ Owed > 0
  <1>1. InQueue \in Nat
    BY InQueueType DEF Inv
  <1>2. requests \in Nat /\ answered \in Nat /\ excused \in Nat
    BY DEF Inv, TypeOK
  <1>3. CASE \E t \in Threads : t \in Notifying
    <2>1. "game" \in Notifying \/ "send" \in Notifying
      BY <1>3, RecvNotifiesNobody DEF Threads, Inv
    <2> QED  BY <1>1, <1>2, <2>1 DEF AnsweredOnce, Owed
  <1>4. CASE actions # <<>> /\ Head(actions) = "disconnect"
    <2>1. actions \in Seq({"connect", "disconnect"})
      BY DEF Inv, TypeOK
    <2>2. /\ Cardinality(Positions(actions, "disconnect")) =
                 Cardinality(Positions(Tail(actions), "disconnect")) + 1
          /\ Tail(actions) \in Seq({"connect", "disconnect"})
      BY <1>4, <2>1, CountTail
    <2>3. Cardinality(Positions(Tail(actions), "disconnect")) \in Nat
      BY <2>2, PositionsFinite
    <2>4. InQueue > 0
      BY <2>2, <2>3, InQueueIs DEF InQueuePositions
    <2> QED  BY <1>1, <1>2, <2>4 DEF AnsweredOnce, Owed
  <1> QED  BY <1>3, <1>4

\* A call starts a handler, returns from one and settles its request, or has
\* it excused because there is nobody to call or the client is closed.
LEMMA CallStepKeeps ==
    ASSUME Inv, AnsweredOnce, NEW t \in Threads, CallStep(t)
    PROVE  [Contract!Next]_Contract!vars
  <1> USE DEF Inv
  <1>1. requests \in Nat /\ answered \in Nat /\ excused \in Nat
    BY DEF TypeOK
  <1>2. CASE StoreFlag(t) \/ LockHandlers(t)
    <2>1. /\ UNCHANGED <<dtor, stopping, handlers, requests, answered, excused, call>>
          /\ pc[t] # "run" /\ pc'[t] # "run"
          /\ \A u \in Threads \ {t} : pc'[u] = pc[u]
      BY <1>2 DEF StoreFlag, LockHandlers, counts, TypeOK
    <2>2. Serving' = Serving
      BY <2>1, StillServing
    <2> QED  BY <2>1, <2>2 DEF Contract!vars, Life, Owed
  <1>3. CASE CopyHandler(t)
    <2>1. /\ UNCHANGED <<dtor, stopping, handlers, requests, answered, excused, call>>
          /\ pc[t] = "copy" /\ pc'[t] = "run" /\ ~stopping
          /\ \A u \in Threads \ {t} : pc'[u] = pc[u]
      BY <1>3 DEF CopyHandler, IsCopied, counts, TypeOK
    <2>2. Life = "open" /\ UNCHANGED <<Life, Owed>>
      BY <2>1, LifeOf DEF Life, Owed
    <2>3. /\ Serving[t] = Purpose(t)
          /\ Serving' = [Serving EXCEPT ![t] = Purpose(t)']
      BY <2>1, ServingIs
    <2>4. Purpose(t) = "none" /\ Purpose(t)' \in {"event", "answer"}
      BY <2>1 DEF Purpose
    <2>5. Contract!Start(t, Purpose(t)')
      BY <2>1, <2>2, <2>3, <2>4 DEF Contract!Start
    <2> QED  BY <2>4, <2>5 DEF Contract!Next
  <1>4. CASE CopyNothing(t)
    <2>1. /\ UNCHANGED <<dtor, stopping, handlers, requests, answered>>
          /\ pc[t] = "copy" /\ pc'[t] = "idle"
          /\ \A u \in Threads \ {t} : pc'[u] = pc[u] /\ call'[u] = call[u]
          /\ stopping \/ HandlerOf(call[t]) \notin handlers
          /\ excused' = IF call[t] \in Answers THEN excused + 1 ELSE excused
      BY <1>4 DEF CopyNothing, IsCopied, Leave, Counted, TypeOK
    <2>2. Serving' = Serving /\ Life' = Life /\ handlers' = handlers
      BY <2>1, StillServing DEF Life
    <2>3. CASE call[t] \notin Answers
      BY <2>1, <2>2, <2>3 DEF Contract!vars, Owed
    <2>4. CASE call[t] \in Answers
      <3>1. Owed > 0 /\ Owed' = Owed - 1
        BY <1>1, <2>1, <2>4, OwedWhileOpen DEF Notifying, Owed
      <3>2. Life = "closed" \/ "disconnected" \notin handlers
        <4>1. dtor # "freed"
          BY <2>1 DEF Teardown, Threads, PahoThreads
        <4> QED  BY <2>1, <2>4, <4>1 DEF HandlerOf, Life
      <3>3. Contract!Excuse
        BY <2>2, <3>1, <3>2 DEF Contract!Excuse
      <3> QED  BY <3>3 DEF Contract!Next
    <2> QED  BY <2>3, <2>4
  <1>5. CASE RunHandler(t)
    <2>1. /\ UNCHANGED <<dtor, stopping, handlers, requests, excused>>
          /\ pc[t] = "run" /\ pc'[t] = "idle"
          /\ \A u \in Threads \ {t} : pc'[u] = pc[u] /\ call'[u] = call[u]
          /\ answered' = IF call[t] \in Answers THEN answered + 1 ELSE answered
      BY <1>5 DEF RunHandler, Leave, Counted, members, TypeOK
    <2>2. Life' = Life /\ handlers' = handlers
      BY <2>1 DEF Life
    <2>3. /\ Serving[t] = Purpose(t)
          /\ Serving' = [Serving EXCEPT ![t] = "none"]
      BY <2>1, ServingIs DEF Purpose
    <2>4. CASE call[t] \in Answers
      <3>1. Owed > 0 /\ Owed' = Owed - 1
        BY <1>1, <2>1, <2>4, OwedWhileOpen DEF Notifying, Owed
      <3>2. Contract!Settle(t)
        BY <2>1, <2>2, <2>3, <2>4, <3>1 DEF Contract!Settle, Purpose
      <3> QED  BY <3>2 DEF Contract!Next
    <2>5. CASE call[t] \notin Answers
      <3>1. Contract!ReturnFromEvent(t)
        BY <2>1, <2>2, <2>3, <2>5 DEF Contract!ReturnFromEvent, Purpose, Owed
      <3> QED  BY <3>1 DEF Contract!Next
    <2> QED  BY <2>4, <2>5
  <1> QED  BY <1>2, <1>3, <1>4, <1>5 DEF CallStep

\* What the game thread asks of the client while it has it.
LEMMA GameThreadKeeps ==
    ASSUME Inv, AnsweredOnce, GameThread
    PROVE  [Contract!Next]_Contract!vars
  <1> USE DEF Inv
  <1>1. requests \in Nat /\ answered \in Nat /\ excused \in Nat
    BY DEF TypeOK
  <1>2. Life = "open" /\ dtor = "alive" /\ pc["game"] = "idle" /\ ~stopping
    BY LifeOf
    DEF Teardown, GameThread, GameThreadUses, SetHandler, Connect, Disconnect, DisconnectError,
        RequestDisconnect, BeginDestroy
  <1>3. ASSUME NEW k \in HandlerKinds, SetHandler(k) PROVE Contract!Next
    <2>1. UNCHANGED <<Life, Serving, Owed>>
      BY <1>3 DEF SetHandler, Life, Serving, Purpose, Owed, threads, counts
    <2>2. ("disconnected" \in handlers)' \in BOOLEAN
      OBVIOUS
    <2>3. Contract!Bind
      BY <1>2, <2>1, <2>2 DEF Contract!Bind
    <2> QED  BY <2>3 DEF Contract!Next
  <1>4. CASE Connect
    <2>1. UNCHANGED <<dtor, stopping, handlers, threads, requests, answered, excused>>
      BY <1>4 DEF Connect, members
    <2> QED  BY <2>1, Unseen
  <1>5. CASE Disconnect \/ DisconnectError
    <2>1. /\ UNCHANGED <<dtor, stopping, handlers, answered, excused>>
          /\ requests' = requests + 1
      BY <1>5 DEF Disconnect, DisconnectError, RequestDisconnect, members
    <2>2. Owed' = Owed + 1 /\ Life' = Life /\ handlers' = handlers
      BY <1>1, <2>1 DEF Owed, Life
    <2>3. Serving' = Serving
      <3>1. CASE Disconnect
        BY <3>1 DEF Disconnect, threads, Serving, Purpose
      <3>2. CASE DisconnectError
        <4>1. "game" \in Threads /\ Enter("game", "error")
          BY <3>2 DEF DisconnectError, NotifyError, Threads
        <4> QED  BY <1>2, <4>1, EnterServes
      <3> QED  BY <1>5, <3>1, <3>2
    <2>4. Contract!Request
      BY <1>2, <2>2, <2>3 DEF Contract!Request
    <2> QED  BY <2>4 DEF Contract!Next
  <1>6. CASE BeginDestroy
    <2>1. /\ UNCHANGED <<stopping, handlers, threads, requests, answered, excused>>
          /\ dtor' = "lock"
      BY <1>6 DEF BeginDestroy, members, threads, counts
    <2>2. UNCHANGED <<Life, Serving, Owed>> /\ handlers' = handlers
      BY <1>2, <2>1 DEF Life, Serving, Purpose, Owed, threads
    <2> QED  BY <2>2 DEF Contract!vars
  <1> QED  BY <1>3, <1>4, <1>5, <1>6 DEF GameThread

\* The client is closed by setting m_stopping, and is gone with its members.
LEMMA DestructorKeeps ==
    ASSUME Inv, AnsweredOnce, Destructor
    PROVE  [Contract!Next]_Contract!vars
  <1> USE DEF Inv
  <1>1. requests \in Nat /\ answered \in Nat /\ excused \in Nat
    BY DEF TypeOK
  <1>2. CASE LockForStop \/ PahoDestroy
    <2>1. /\ UNCHANGED <<stopping, handlers, threads, requests, answered, excused>>
          /\ dtor # "freed" /\ dtor' # "freed"
      BY <1>2 DEF LockForStop, PahoDestroy, members, threads, counts
    <2>2. UNCHANGED <<Life, Serving, Owed>> /\ handlers' = handlers
      BY <2>1 DEF Life, Serving, Purpose, Owed, threads
    <2> QED  BY <2>2 DEF Contract!vars
  <1>3. CASE SetStopping
    <2>1. /\ UNCHANGED <<handlers, threads, requests, answered, excused>>
          /\ dtor = "stop" /\ dtor' = "reset" /\ stopping'
      BY <1>3 DEF SetStopping, UnlockAndReset, threads, counts
    <2>2. Life = "open" /\ Life' = "closed" /\ UNCHANGED <<Serving, Owed>> /\ handlers' = handlers
      BY <2>1, LifeOf DEF Life, Serving, Purpose, Owed, threads
    <2>3. Contract!Close
      BY <2>2 DEF Contract!Close
    <2> QED  BY <2>3 DEF Contract!Next
  <1>4. CASE CancelAction
    <2>1. /\ UNCHANGED <<dtor, stopping, handlers, requests, answered>>
          /\ dtor = "cancel" /\ pc["game"] = "idle" /\ actions # <<>>
          /\ \/ Head(actions) = "disconnect" /\ Enter("game", "failure") /\ excused' = excused
             \/ /\ excused' = IF Head(actions) = "disconnect" THEN excused + 1 ELSE excused
                /\ UNCHANGED threads
      BY <1>4 DEF CancelAction, members
    <2>2. Life = "closed" /\ Life' = Life /\ handlers' = handlers
      BY <2>1, LifeOf DEF Life
    <2>3. Serving' = Serving
      <3>1. CASE UNCHANGED threads
        BY <3>1 DEF Serving, Purpose, threads
      <3>2. CASE Enter("game", "failure")
        <4>1. "game" \in Threads
          BY DEF Threads
        <4> QED  BY <2>1, <3>2, <4>1, EnterServes
      <3> QED  BY <2>1, <3>1, <3>2
    <2>4. CASE excused' = excused
      BY <2>1, <2>2, <2>3, <2>4 DEF Contract!vars, Owed
    <2>5. CASE excused' # excused
      <3>1. Head(actions) = "disconnect" /\ excused' = excused + 1
        BY <2>1, <2>5
      <3>2. Owed > 0 /\ Owed' = Owed - 1
        BY <1>1, <2>1, <3>1, OwedWhileOpen DEF Owed
      <3>3. Contract!Excuse
        BY <2>2, <2>3, <3>2 DEF Contract!Excuse
      <3> QED  BY <3>3 DEF Contract!Next
    <2> QED  BY <2>4, <2>5
  <1>5. CASE FreeMembers
    <2>1. /\ UNCHANGED <<stopping, handlers, threads, requests, answered, excused>>
          /\ dtor = "cancel" /\ dtor' = "freed" /\ pc["game"] = "idle" /\ actions = <<>>
      BY <1>5 DEF FreeMembers, members, threads, counts
    <2>2. \A t \in Threads : pc[t] = "idle"
      BY <2>1 DEF Teardown, Threads, PahoThreads
    <2>3. Owed = 0 /\ Owed' = Owed /\ Serving' = Serving
          /\ \A t \in Threads : Serving[t] = "none"
      <3>1. requests = answered + excused
        BY <2>1, <2>2, AllSettled
      <3> QED  BY <1>1, <2>1, <2>2, <3>1 DEF Owed, Serving, Purpose, threads
    <2>4. Life = "closed" /\ Life' = "gone" /\ handlers' = handlers
      BY <2>1, LifeOf DEF Life
    <2>5. Contract!Vanish
      BY <2>3, <2>4 DEF Contract!Vanish
    <2> QED  BY <2>5 DEF Contract!Next
  <1> QED  BY <1>2, <1>3, <1>4, <1>5 DEF Destructor

\* Paho's threads come into the client; no handler starts there and then.
LEMMA PahoKeeps ==
    ASSUME Inv, Network \/ SendThread
    PROVE  UNCHANGED Contract!vars
  <1> USE DEF Inv
  <1>1. ASSUME NEW t \in PahoThreads, NEW k, Enter(t, k), pc[t] = "idle",
               UNCHANGED <<dtor, stopping, handlers, requests, answered, excused>>
        PROVE  UNCHANGED Contract!vars
    <2>1. Serving' = Serving
      BY <1>1, EnterServes DEF Threads, PahoThreads
    <2> QED  BY <1>1, <2>1 DEF Contract!vars, Life, Owed
  <1>2. CASE ConnectionRefused \/ ProcessConnect
    <2>1. UNCHANGED <<dtor, stopping, handlers, threads, requests, answered, excused>>
      BY <1>2 DEF ConnectionRefused, ProcessConnect, TakesAction, members, threads, counts
    <2> QED  BY <2>1, Unseen
  <1>3. CASE ConnectionUp \/ ConnectionLost \/ ServerDisconnect \/ MessageArrived
    <2>1. \E k \in HandlerKinds : Enter("recv", k)
      BY <1>3
      DEF ConnectionUp, ConnectionLost, ServerDisconnect, LinkChanges, MessageArrived, HandlerKinds
    <2>2. /\ pc["recv"] = "idle"
          /\ UNCHANGED <<dtor, stopping, handlers, requests, answered, excused>>
      BY <1>3
      DEF ConnectionUp, ConnectionLost, ServerDisconnect, LinkChanges, MessageArrived, members, counts
    <2> QED  BY <1>1, <2>1, <2>2 DEF PahoThreads
  <1>4. CASE DisconnectSucceeds \/ DisconnectFails
    <2>1. \E k \in {"success", "failure"} : Enter("send", k)
      BY <1>4 DEF DisconnectSucceeds, DisconnectFails
    <2>2. /\ pc["send"] = "idle"
          /\ UNCHANGED <<dtor, stopping, handlers, requests, answered, excused>>
      BY <1>4 DEF DisconnectSucceeds, DisconnectFails, TakesAction, members, counts
    <2> QED  BY <1>1, <2>1, <2>2 DEF PahoThreads
  <1> QED  BY <1>2, <1>3, <1>4 DEF Network, SendThread

\* A client implements ClientContract: each request to disconnect is settled
\* once, by the disconnected handler as long as that is bound and m_stopping
\* is not set; from then on no handler starts; and the members go only when no
\* handler runs and no request is open.
THEOREM ClientKeepsContract == Spec => Contract!Spec
<1>1. Init => Contract!Init
  <2> SUFFICES ASSUME Init PROVE Contract!Init
    OBVIOUS
  <2>1. Life = "open" /\ Serving = [t \in Threads |-> "none"] /\ Owed = 0
    BY DEF Init, Life, Serving, Purpose, Owed
  <2> QED  BY <2>1 DEF Contract!Init
<1>2. ASSUME Inv, AnsweredOnce, [Next]_vars PROVE [Contract!Next]_Contract!vars
  <2>1. CASE UNCHANGED vars
    BY <2>1, Unseen DEF vars, members, threads, counts
  <2> QED
    BY <1>2, <2>1, CallStepKeeps, GameThreadKeeps, DestructorKeeps, PahoKeeps DEF Next
<1> QED
  BY <1>1, <1>2, InvHolds, EveryRequestAnsweredOnce, PTL DEF Spec, Contract!Spec
=============================================================================
