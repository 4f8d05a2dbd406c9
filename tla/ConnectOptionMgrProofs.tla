----------------------- MODULE ConnectOptionMgrProofs -----------------------
(***************************************************************************)
(* Theorems about ConnectOptionMgr for every number of indices, values of  *)
(* the expiry and objects.                                                 *)
(*                                                                         *)
(* Inv joins the invariants, which need one another: an object has one     *)
(* owner because used indices are never given out again and hold objects   *)
(* that were allocated at different times, and it is used once because     *)
(* what a connection attempt was made with is not live any more.           *)
(***************************************************************************)
EXTENDS ConnectOptionMgr, FiniteSetTheorems, WellFoundedInduction, TLAPS

\* m_options is a function, which TypeOK does not say.
MapIsFunction == m_options = [i \in DOMAIN m_options |-> m_options[i]]

\* Live options were never used, nor were those that are still to be allocated.
UnusedWhileLive ==
    /\ \A o \in Live : attempts[o] = 0
    /\ \A o \in 1..MaxObjects : o > allocated => attempts[o] = 0

Inv ==
    /\ TypeOK
    /\ MapIsFunction
    /\ UsedMeansResolvable
    /\ OneOwnerPerObject
    /\ OneExpiryProperty
    /\ UnusedWhileLive
    /\ UsedOnce

-----------------------------------------------------------------------------
(* The inductive invariant.                                                *)

LEMMA InitInv == Init => Inv
  <1> SUFFICES ASSUME Init PROVE Inv
    OBVIOUS
  <1> USE DEF Init, Live, Objects
  <1>1. Live = {} /\ DOMAIN m_options = {} /\ DOMAIN applied = {} /\ m_indexUsed = {}
    OBVIOUS
  <1>2. TypeOK
    <2>1. allocated \in 0..MaxObjects /\ attempts \in [1..MaxObjects -> Nat]
      BY OptionsAssumption
    <2>2. properties \in [Live -> Seq(Expiries)] /\ applied \in [Live -> Seq(Expiries)]
      OBVIOUS
    <2> QED  BY <1>1, <2>1, <2>2 DEF TypeOK
  <1>3. MapIsFunction
    BY DEF MapIsFunction
  <1> QED
    BY <1>1, <1>2, <1>3 DEF Inv, UsedMeansResolvable, OneOwnerPerObject, OneExpiryProperty,
                            UnusedWhileLive, UsedOnce

\* A lookup changes nothing but null entries.
LEMMA LookupIsHarmless ==
    ASSUME Inv, NEW i \in Indices
    PROVE  /\ DOMAIN Looked(i) = DOMAIN m_options \cup {i}
           /\ \A j \in DOMAIN m_options : Looked(i)[j] = m_options[j]
           /\ i \notin DOMAIN m_options => Looked(i)[i] = Null
           /\ Looked(i) = [j \in DOMAIN Looked(i) |-> Looked(i)[j]]
           /\ Resolved(i) # Null => i \in m_indexUsed /\ Resolved(i) \in Live
  BY DEF Inv, MapIsFunction, UsedMeansResolvable, OneOwnerPerObject, Looked, Resolved, With

\* The invariants speak of the live entries only.
LEMMA LookedInv ==
    ASSUME Inv, NEW i \in Indices, m_options' = Looked(i),
           UNCHANGED <<m_indexUsed, allocated, attempts>>,
           DOMAIN properties' = Live
    PROVE  /\ DOMAIN m_options' \subseteq Indices
           /\ \A j \in DOMAIN m_options' : m_options'[j] \in Objects' \cup {Null}
           /\ MapIsFunction'
           /\ UsedMeansResolvable'
           /\ OneOwnerPerObject'
           /\ UnusedWhileLive'
           /\ UsedOnce'
  <1>1. /\ DOMAIN Looked(i) = DOMAIN m_options \cup {i}
        /\ \A j \in DOMAIN m_options : Looked(i)[j] = m_options[j]
        /\ i \notin DOMAIN m_options => Looked(i)[i] = Null
        /\ Looked(i) = [j \in DOMAIN Looked(i) |-> Looked(i)[j]]
    BY LookupIsHarmless
  <1>2. /\ DOMAIN m_options' \subseteq Indices
        /\ \A j \in DOMAIN m_options' : m_options'[j] \in Objects' \cup {Null}
    BY <1>1 DEF Inv, TypeOK, Objects
  <1>3. MapIsFunction' /\ UsedMeansResolvable'
    BY <1>1 DEF Inv, MapIsFunction, UsedMeansResolvable
  <1>4. {m_options'[j] : j \in DOMAIN m_options'} \ {Null}
            = {m_options[j] : j \in DOMAIN m_options} \ {Null}
    BY <1>1
  <1>5. OneOwnerPerObject'
    BY <1>1, <1>4 DEF Inv, OneOwnerPerObject, UsedMeansResolvable, Live
  <1> QED
    BY <1>2, <1>3, <1>5 DEF Inv, UnusedWhileLive, UsedOnce, Live

LEMMA SetSessionExpiryInv ==
    ASSUME Inv, NEW i \in Indices, NEW v \in Expiries, SetSessionExpiry(i, v)
    PROVE  Inv'
  <1> USE DEF SetSessionExpiry
  <1>1. Resolved(i) # Null => Resolved(i) \in Live
    BY LookupIsHarmless
  <1>2. /\ properties' \in [Live -> Seq(Expiries)]
        /\ applied' \in [Live -> Seq(Expiries)]
        /\ OneExpiryProperty'
    <2>1. /\ properties \in [Live -> Seq(Expiries)] /\ applied \in [Live -> Seq(Expiries)]
          /\ \A o \in Live : applied[o] = properties[o] /\ Len(applied[o]) <= 1
      BY DEF Inv, TypeOK, OneExpiryProperty
    <2>2. <<v>> \in Seq(Expiries) /\ Len(<<v>>) = 1
      OBVIOUS
    <2>3. CASE Resolved(i) = Null
      BY <2>1, <2>3 DEF OneExpiryProperty, Live
    <2>4. CASE Resolved(i) # Null
      <3> DEFINE o == Resolved(i)
      <3>1. o \in Live
        BY <1>1, <2>4
      <3>2. /\ properties' = [properties EXCEPT ![o] = <<v>>]
            /\ applied' = [applied EXCEPT ![o] = <<v>>]
        BY <2>4 DEF SetExpiry
      <3> HIDE DEF o
      <3>3. /\ properties' \in [Live -> Seq(Expiries)]
            /\ applied' \in [Live -> Seq(Expiries)]
            /\ \A p \in Live : applied'[p] = properties'[p] /\ Len(applied'[p]) <= 1
        BY <2>1, <2>2, <3>1, <3>2
      <3>4. Live' = Live
        BY <3>3 DEF Live
      <3> QED  BY <3>3, <3>4 DEF OneExpiryProperty
    <2> QED  BY <2>3, <2>4
  <1>3. DOMAIN properties' = Live /\ Live' = Live
    BY <1>2 DEF Live
  <1>4. /\ DOMAIN m_options' \subseteq Indices
        /\ \A j \in DOMAIN m_options' : m_options'[j] \in Objects' \cup {Null}
        /\ MapIsFunction' /\ UsedMeansResolvable' /\ OneOwnerPerObject'
        /\ UnusedWhileLive' /\ UsedOnce'
    BY <1>3, LookedInv
  <1>5. TypeOK'
    BY <1>2, <1>3, <1>4 DEF Inv, TypeOK, Objects
  <1> QED  BY <1>2, <1>4, <1>5 DEF Inv

LEMMA LookUpFailsInv ==
    ASSUME Inv, NEW i \in Indices, LookUpFails(i)
    PROVE  Inv'
  <1> USE DEF LookUpFails
  <1>1. DOMAIN properties' = Live /\ Live' = Live
    BY DEF Live
  <1>2. /\ DOMAIN m_options' \subseteq Indices
        /\ \A j \in DOMAIN m_options' : m_options'[j] \in Objects' \cup {Null}
        /\ MapIsFunction' /\ UsedMeansResolvable' /\ OneOwnerPerObject'
        /\ UnusedWhileLive' /\ UsedOnce'
    BY <1>1, LookedInv
  <1>3. TypeOK' /\ OneExpiryProperty'
    BY <1>1, <1>2 DEF Inv, TypeOK, Objects, OneExpiryProperty
  <1> QED  BY <1>2, <1>3 DEF Inv

\* The new object is newer than every other.
LEMMA CreateOptionsInv ==
    ASSUME Inv, CreateOptions
    PROVE  Inv'
  <1> DEFINE new == allocated'
  <1>1. new = allocated + 1 /\ new \in 1..MaxObjects /\ allocated \in Nat /\ new \notin Objects
    BY OptionsAssumption DEF Inv, TypeOK, CreateOptions, Objects
  <1>2. PICK i \in 1..MaxIndex :
            /\ i \notin m_indexUsed
            /\ m_indexUsed' = m_indexUsed \cup {i}
            /\ m_options' = With(m_options, i, new)
    BY DEF CreateOptions, Candidates, IsNewIndex
  <1>3. /\ DOMAIN m_options' = DOMAIN m_options \cup {i}
        /\ m_options'[i] = new
        /\ \A j \in DOMAIN m_options : j # i => m_options'[j] = m_options[j]
    BY <1>2 DEF With
  <1>4. Objects' = Objects \cup {new} /\ new # Null
    BY <1>1 DEF Objects, Null
  <1>5. /\ Live' = Live \cup {new}
        /\ \A o \in Live : properties'[o] = properties[o] \/ o = new
        /\ \A o \in Live : applied'[o] = applied[o] \/ o = new
        /\ properties'[new] = <<>> /\ applied'[new] = <<>>
        /\ DOMAIN applied' = Live'
    BY DEF CreateOptions, Inv, TypeOK, With, Live, Construct
  <1>6. TypeOK'
    <2>1. DOMAIN m_options' \subseteq Indices /\ m_indexUsed' \subseteq 1..MaxIndex
      <3>1. DOMAIN m_options \subseteq Indices /\ m_indexUsed \subseteq 1..MaxIndex
        BY DEF Inv, TypeOK
      <3>2. i \in Indices
        BY OptionsAssumption DEF Indices
      <3> QED  BY <1>2, <1>3, <3>1, <3>2, Zenon
    <2>2. \A j \in DOMAIN m_options' : m_options'[j] \in Objects' \cup {Null}
      BY <1>3, <1>4 DEF Inv, TypeOK
    <2>3. Live' \subseteq Objects'
      BY <1>4, <1>5 DEF Inv, TypeOK
    <2>4. <<>> \in Seq(Expiries)
      OBVIOUS
    <2>5. properties' \in [Live' -> Seq(Expiries)]
      BY <1>5, <2>4 DEF CreateOptions, Inv, TypeOK, With, Live, Construct
    <2>6. applied' \in [Live' -> Seq(Expiries)]
      BY <1>5, <2>4 DEF CreateOptions, Inv, TypeOK, With, Live, Construct
    <2>7. allocated' \in 0..MaxObjects /\ attempts' \in [1..MaxObjects -> Nat]
      BY <1>1 DEF CreateOptions, Inv, TypeOK
    <2> QED  BY <2>1, <2>2, <2>3, <2>5, <2>6, <2>7 DEF TypeOK
  <1>7. MapIsFunction'
    BY <1>2 DEF MapIsFunction, With
  <1>8. UsedMeansResolvable'
    BY <1>2, <1>3, <1>4 DEF Inv, UsedMeansResolvable
  <1>9. OneOwnerPerObject'
    <2>1. {m_options'[j] : j \in DOMAIN m_options'} \ {Null}
              = ({m_options[j] : j \in DOMAIN m_options} \ {Null}) \cup {new}
      BY <1>2, <1>3, <1>4 DEF Inv, UsedMeansResolvable
    <2>2. Live' = {m_options'[j] : j \in DOMAIN m_options'} \ {Null}
      BY <1>5, <2>1 DEF Inv, OneOwnerPerObject
    <2>3. \A j \in m_indexUsed : m_options[j] \in Objects /\ m_options'[j] = m_options[j]
      BY <1>2, <1>3 DEF Inv, TypeOK, UsedMeansResolvable
    <2>4. \A j, k \in m_indexUsed' : m_options'[j] = m_options'[k] => j = k
      BY <1>1, <1>2, <1>3, <2>3 DEF Inv, OneOwnerPerObject
    <2> QED  BY <2>2, <2>4 DEF OneOwnerPerObject
  <1>10. OneExpiryProperty'
    <2>1. Len(<<>>) = 0
      OBVIOUS
    <2> QED  BY <1>5, <2>1 DEF Inv, OneExpiryProperty
  <1>11. UnusedWhileLive' /\ UsedOnce'
    <2>1. UNCHANGED attempts
      BY DEF CreateOptions, Construct
    <2> QED  BY <1>1, <1>5, <2>1 DEF Inv, UnusedWhileLive, UsedOnce
  <1> QED  BY <1>6, <1>7, <1>8, <1>9, <1>10, <1>11 DEF Inv

\* The object goes with its index, its entry and its properties.
LEMMA ConnectInv ==
    ASSUME Inv, NEW i \in Indices, Connect(i)
    PROVE  Inv'
  <1> DEFINE o == m_options[i]
  <1>1. i \in m_indexUsed /\ o \in Live /\ o \in 1..MaxObjects /\ allocated \in Nat
    <2>1. i \in m_indexUsed /\ o \in Live
      BY DEF Connect, Inv, UsedMeansResolvable, OneOwnerPerObject
    <2>2. o \in 1..allocated /\ allocated \in 0..MaxObjects
      BY <2>1 DEF Inv, TypeOK, Objects
    <2> HIDE DEF o
    <2>3. o \in 1..MaxObjects /\ allocated \in Nat
      BY <2>2, OptionsAssumption
    <2> QED  BY <2>1, <2>3
  <1>2. /\ m_options' = Without(m_options, {i})
        /\ m_indexUsed' = m_indexUsed \ {i}
        /\ properties' = Without(properties, {o})
        /\ applied' = Without(applied, {o})
        /\ allocated' = allocated
        /\ attempts' = [attempts EXCEPT ![o] = @ + 1]
    BY DEF Connect, DestroyOptions, DestroyOptionsOnError, ReleasedIndex, Delete
  <1>3. /\ DOMAIN m_options' = DOMAIN m_options \ {i}
        /\ \A j \in DOMAIN m_options' : m_options'[j] = m_options[j]
        /\ MapIsFunction'
    BY <1>2 DEF Without, MapIsFunction
  <1>4. /\ Live' = Live \ {o}
        /\ DOMAIN applied' = Live'
        /\ \A p \in Live' : properties'[p] = properties[p] /\ applied'[p] = applied[p]
    BY <1>2 DEF Inv, TypeOK, Without, Live
  <1>5. /\ attempts' \in [1..MaxObjects -> Nat]
        /\ attempts[o] = 0 /\ attempts'[o] = 1
        /\ \A p \in 1..MaxObjects : p # o => attempts'[p] = attempts[p]
    BY <1>1, <1>2 DEF Inv, TypeOK, UnusedWhileLive
  <1>6. TypeOK'
    <2>1. properties' \in [Live' -> Seq(Expiries)] /\ applied' \in [Live' -> Seq(Expiries)]
      BY <1>2, <1>4 DEF Inv, TypeOK, Without, Live
    <2>2. DOMAIN m_options' \subseteq Indices /\ m_indexUsed' \subseteq 1..MaxIndex
      BY <1>2, <1>3 DEF Inv, TypeOK
    <2>3. \A j \in DOMAIN m_options' : m_options'[j] \in Objects' \cup {Null}
      BY <1>2, <1>3 DEF Inv, TypeOK, Objects
    <2>4. Live' \subseteq Objects' /\ allocated' \in 0..MaxObjects
      BY <1>2, <1>4 DEF Inv, TypeOK, Objects
    <2> QED  BY <1>5, <2>1, <2>2, <2>3, <2>4 DEF TypeOK
  <1>7. UsedMeansResolvable'
    BY <1>2, <1>3 DEF Inv, UsedMeansResolvable
  <1>8. OneOwnerPerObject'
    <2>1. \A j \in DOMAIN m_options' : m_options'[j] # o
      BY <1>1, <1>3 DEF Inv, UsedMeansResolvable, OneOwnerPerObject
    <2>2. {m_options'[j] : j \in DOMAIN m_options'} \ {Null}
              = ({m_options[j] : j \in DOMAIN m_options} \ {Null}) \ {o}
      BY <1>3, <2>1
    <2>3. Live' = {m_options'[j] : j \in DOMAIN m_options'} \ {Null}
      BY <1>4, <2>2 DEF Inv, OneOwnerPerObject
    <2>4. \A j, k \in m_indexUsed' : m_options'[j] = m_options'[k] => j = k
      <3>1. \A j \in m_indexUsed' : j \in m_indexUsed /\ m_options'[j] = m_options[j]
        BY <1>2, <1>3 DEF Inv, UsedMeansResolvable
      <3> QED  BY <3>1 DEF Inv, OneOwnerPerObject
    <2> QED  BY <2>3, <2>4 DEF OneOwnerPerObject
  <1>9. OneExpiryProperty'
    BY <1>4 DEF Inv, OneExpiryProperty
  <1>10. UnusedWhileLive'
    <2>1. \A p \in Live' : p \in 1..MaxObjects /\ p # o
      BY <1>1, <1>4, OptionsAssumption DEF Inv, TypeOK, Objects
    <2>2. o <= allocated
      BY <1>1 DEF Inv, TypeOK, Objects
    <2> QED  BY <1>1, <1>2, <1>4, <1>5, <2>1, <2>2 DEF Inv, UnusedWhileLive
  <1>11. UsedOnce'
    BY <1>5 DEF Inv, UsedOnce
  <1> QED  BY <1>3, <1>6, <1>7, <1>8, <1>9, <1>10, <1>11 DEF Inv

\* Every object goes, since every live one is in the map.
LEMMA ResetInv ==
    ASSUME Inv, Reset
    PROVE  Inv'
  <1>1. DOMAIN m_options' = {} /\ m_indexUsed' = {} /\ MapIsFunction'
    BY DEF Reset, ForgetEntries, ForgetIndices, Without, MapIsFunction
  <1>2. Live' = {} /\ DOMAIN applied' = {}
    BY DEF Reset, Without, Inv, TypeOK, OneOwnerPerObject, Live, Delete
  <1>3. UNCHANGED <<allocated, attempts>>
    BY DEF Reset, Delete
  <1>4. TypeOK'
    <2>1. properties' \in [Live' -> Seq(Expiries)] /\ applied' \in [Live' -> Seq(Expiries)]
      BY <1>2 DEF Reset, Without, Live, Delete
    <2> QED  BY <1>1, <1>2, <1>3, <2>1 DEF Inv, TypeOK
  <1> QED
    BY <1>1, <1>2, <1>3, <1>4
    DEF Inv, UsedMeansResolvable, OneOwnerPerObject, OneExpiryProperty, UnusedWhileLive, UsedOnce

LEMMA NextInv == Inv /\ [Next]_vars => Inv'
  <1> SUFFICES ASSUME Inv, [Next]_vars PROVE Inv'
    OBVIOUS
  <1>1. CASE UNCHANGED vars
    BY <1>1
    DEF vars, Inv, TypeOK, Live, Objects, MapIsFunction, UsedMeansResolvable,
        OneOwnerPerObject, OneExpiryProperty, UnusedWhileLive, UsedOnce
  <1> QED
    BY <1>1, CreateOptionsInv, SetSessionExpiryInv, ConnectInv, LookUpFailsInv, ResetInv DEF Next

\* Every reachable state satisfies Inv.
THEOREM InvHolds == Spec => []Inv
  <1>1. Inv /\ [Next]_vars => Inv'
    BY NextInv
  <1> QED  BY InitInv, <1>1, PTL DEF Spec

\* Every reachable state has the types that TypeOK states.
THEOREM TypeCorrect == Spec => []TypeOK
  <1>1. Inv => TypeOK
    BY DEF Inv
  <1> QED  BY InvHolds, <1>1, PTL

\* makeIndex and getOptions agree on which indices are held, although lookups
\* leave null entries behind.
THEOREM IndicesResolve == Spec => []UsedMeansResolvable
  <1>1. Inv => UsedMeansResolvable
    BY DEF Inv
  <1> QED  BY InvHolds, <1>1, PTL

\* No options object is leaked, shared or deleted twice.
THEOREM EachObjectOwnedOnce == Spec => []OneOwnerPerObject
  <1>1. Inv => OneOwnerPerObject
    BY DEF Inv
  <1> QED  BY InvHolds, <1>1, PTL

\* One expiry is sent, the one that was set last.
THEOREM OneExpirySent == Spec => []OneExpiryProperty
  <1>1. Inv => OneExpiryProperty
    BY DEF Inv
  <1> QED  BY InvHolds, <1>1, PTL

\* mqtt_connect consumes the options, whether Paho accepts them or throws.
THEOREM UsedOnlyOnce == Spec => []UsedOnce
  <1>1. Inv => UsedOnce
    BY DEF Inv
  <1> QED  BY InvHolds, <1>1, PTL

-----------------------------------------------------------------------------
(* Wrong lookups cost no index: the objects are as many as the indices in  *)
(* use, so that while they are fewer than MaxIndex makeIndex finds one.    *)

LEMMA LeastElement ==
    ASSUME NEW S \in SUBSET Nat, S # {}
    PROVE  \E n \in S : \A m \in S : n <= m
  <1> DEFINE R == OpToRel(<, Nat)
  <1>1. PICK n \in S : \A m \in S : ~(<<m, n>> \in R)
    <2>1. IsWellFoundedOn(R, Nat)
      BY NatLessThanWellFounded
    <2> HIDE DEF R
    <2> QED  BY <2>1, WFMin
  <1>2. \A m \in S : <<m, n>> \in R <=> m < n
    BY DEF OpToRel
  <1> HIDE DEF R
  <1>3. \A m \in S : ~(m < n)
    BY <1>1, <1>2
  <1> QED  BY <1>3

LEMMA PartOfInterval ==
    ASSUME NEW n \in Int, NEW S \in SUBSET (1..n)
    PROVE  IsFiniteSet(S) /\ Cardinality(S) \in Nat
  <1>1. IsFiniteSet(1..n)
    BY FS_Interval
  <1>2. IsFiniteSet(S)
    BY <1>1, FS_Subset
  <1> QED  BY <1>2, FS_CardinalityType

LEMMA NoMoreIndicesThanObjects ==
    ASSUME Inv
    PROVE  Cardinality(m_indexUsed) <= Cardinality(Live)
  <1> DEFINE f == [i \in m_indexUsed |-> m_options[i]]
  <1>1. IsFiniteSet(Live)
    <2>1. allocated \in Int /\ Live \in SUBSET (1..allocated)
      BY DEF Inv, TypeOK, Objects
    <2> QED  BY <2>1, PartOfInterval
  <1>2. f \in Injection(m_indexUsed, Live)
    <2>1. f \in [m_indexUsed -> Live]
      BY DEF Inv, UsedMeansResolvable, OneOwnerPerObject
    <2>2. \A i, j \in m_indexUsed : f[i] = f[j] => i = j
      BY DEF Inv, OneOwnerPerObject
    <2> QED  BY <2>1, <2>2 DEF Injection, IsInjective
  <1> HIDE DEF f
  <1> QED  BY <1>1, <1>2, FS_Injection

\* While fewer than MaxIndex options are held, makeIndex does not throw, even if
\* every index was looked up in vain before.
THEOREM WrongLookupsAreFree == Spec => []WrongLookupsCostNoIndex
  <1>1. ASSUME Inv, Cardinality(Live) < MaxIndex
        PROVE  \E i \in Candidates : IsNewIndex(i)
    <2> DEFINE S == Candidates \ m_indexUsed
    <2>1. Cardinality(m_indexUsed) < MaxIndex
      <3>1. m_indexUsed \in SUBSET (1..MaxIndex) /\ MaxIndex \in Int
        BY <1>1, OptionsAssumption DEF Inv, TypeOK
      <3>2. IsFiniteSet(m_indexUsed) /\ Cardinality(m_indexUsed) \in Nat
        BY <3>1, PartOfInterval
      <3>3. IsFiniteSet(Live) /\ Cardinality(Live) \in Nat
        <4>1. allocated \in Int /\ Live \in SUBSET (1..allocated)
          BY <1>1 DEF Inv, TypeOK, Objects
        <4> QED  BY <4>1, PartOfInterval
      <3> QED  BY <1>1, <3>1, <3>2, <3>3, NoMoreIndicesThanObjects
    <2>2. S # {}
      <3> SUFFICES ASSUME S = {} PROVE FALSE
        OBVIOUS
      <3>1. m_indexUsed = 1..MaxIndex
        BY <1>1 DEF Candidates, Inv, TypeOK
      <3>2. Cardinality(1..MaxIndex) = MaxIndex
        BY OptionsAssumption, FS_Interval
      <3> QED  BY <2>1, <3>1, <3>2, OptionsAssumption
    <2>3. S \in SUBSET Nat
      BY DEF Candidates
    <2>4. PICK i \in S : \A j \in S : i <= j
      BY <2>2, <2>3, LeastElement
    <2>5. IsNewIndex(i)
      BY <2>4, OptionsAssumption DEF Candidates, IsNewIndex
    <2> QED  BY <2>4, <2>5
  <1> QED  BY InvHolds, <1>1, PTL DEF WrongLookupsCostNoIndex

-----------------------------------------------------------------------------
(* The refinement: the two maps and the raw pointers are OptionTable.      *)

Held  == [i \in {j \in DOMAIN m_options : m_options[j] # Null} |-> m_options[i]]
Spent == {o \in 1..MaxObjects : attempts[o] > 0}

\* The table holds options under the indices in use, and no others.
LEMMA HeldDomain ==
    ASSUME Inv
    PROVE  DOMAIN Held = m_indexUsed /\ \A i \in m_indexUsed : Held[i] = m_options[i]
  BY DEF Inv, UsedMeansResolvable, Held

LEMMA InitMaps == Init => Table!Init
  <1> SUFFICES ASSUME Init PROVE Table!Init
    OBVIOUS
  <1>1. DOMAIN m_options = {}
    BY DEF Init
  <1>2. [i \in {j \in DOMAIN m_options : m_options[j] # Null} |-> m_options[i]]
            = [i \in {} |-> 0]
    BY <1>1
  <1>3. {o \in 1..MaxObjects : attempts[o] > 0} = {}
    BY DEF Init
  <1> QED  BY <1>2, <1>3 DEF Init, Table!Init

LEMMA CreateMaps ==
    ASSUME Inv, CreateOptions
    PROVE  Table!Create
  <1>1. Inv'
    BY CreateOptionsInv
  <1>2. PICK i \in Candidates :
            /\ i \notin m_indexUsed
            /\ m_indexUsed' = m_indexUsed \cup {i}
            /\ m_options' = With(m_options, i, allocated')
    BY DEF CreateOptions, IsNewIndex
  <1>3. /\ DOMAIN Held = m_indexUsed /\ \A j \in m_indexUsed : Held[j] = m_options[j]
        /\ DOMAIN Held' = m_indexUsed'
        /\ Held' = [j \in DOMAIN Held' |-> m_options'[j]]
    <2>1. DOMAIN Held' = m_indexUsed'
      BY <1>1 DEF Inv, UsedMeansResolvable, Held
    <2>2. Held' = [j \in DOMAIN Held' |-> m_options'[j]]
      BY DEF Held
    <2> QED  BY HeldDomain, <2>1, <2>2
  <1>4. m_indexUsed \subseteq DOMAIN m_options
    BY DEF Inv, UsedMeansResolvable
  <1>5. \A j \in m_indexUsed' :
            m_options'[j] = IF j = i THEN allocated' ELSE Held[j]
    BY <1>2, <1>3, <1>4 DEF With
  <1>6. Held' = [j \in DOMAIN Held \cup {i} |-> IF j = i THEN allocated' ELSE Held[j]]
    BY <1>2, <1>3, <1>5
  <1>7. i \in 1..MaxIndex \ DOMAIN Held
    BY <1>2, <1>3 DEF Candidates
  <1>8. allocated' = allocated + 1 /\ Spent' = Spent
    BY DEF CreateOptions, Spent
  <1> QED  BY <1>6, <1>7, <1>8 DEF Table!Create, Held, Spent

LEMMA ConnectMaps ==
    ASSUME Inv, NEW i \in Indices, Connect(i)
    PROVE  i \in 1..MaxIndex /\ Table!Attempt(i)
  <1> DEFINE o == m_options[i]
  <1>1. Inv' /\ i \in m_indexUsed /\ i \in 1..MaxIndex
    BY ConnectInv DEF Connect, Inv, TypeOK, UsedMeansResolvable
  <1>2. o \in Live /\ o \in 1..MaxObjects /\ attempts[o] = 0
    BY <1>1, OptionsAssumption
    DEF Connect, Inv, TypeOK, Objects, OneOwnerPerObject, UnusedWhileLive
  <1>3. /\ m_options' = [j \in DOMAIN m_options \ {i} |-> m_options[j]]
        /\ m_indexUsed' = m_indexUsed \ {i}
        /\ attempts' = [attempts EXCEPT ![o] = @ + 1]
        /\ allocated' = allocated
    BY DEF Connect, DestroyOptions, DestroyOptionsOnError, ReleasedIndex, Without
  <1>4. Held' = [j \in DOMAIN Held \ {i} |-> Held[j]] /\ i \in DOMAIN Held /\ Held[i] = o
    BY <1>1, <1>3, HeldDomain DEF Held
  <1>5. Spent' = Spent \cup {o}
    BY <1>2, <1>3 DEF Spent, Inv, TypeOK
  <1> QED  BY <1>1, <1>3, <1>4, <1>5 DEF Table!Attempt, Held, Spent

\* What the plugins do not see: a lookup, or a new expiry.
LEMMA LookedMaps ==
    ASSUME Inv, NEW i \in Indices, m_options' = Looked(i), UNCHANGED <<allocated, attempts>>
    PROVE  UNCHANGED Table!vars
  <1>1. /\ DOMAIN Looked(i) = DOMAIN m_options \cup {i}
        /\ \A j \in DOMAIN m_options : Looked(i)[j] = m_options[j]
        /\ i \notin DOMAIN m_options => Looked(i)[i] = Null
    BY LookupIsHarmless
  <1>2. {j \in DOMAIN m_options' : m_options'[j] # Null}
            = {j \in DOMAIN m_options : m_options[j] # Null}
    BY <1>1
  <1>3. Held' = Held
    BY <1>1, <1>2 DEF Held
  <1>4. Spent' = Spent
    BY DEF Spent
  <1> QED  BY <1>3, <1>4 DEF Table!vars, Held, Spent

LEMMA ResetMaps ==
    ASSUME Inv, Reset
    PROVE  Table!Reset
  <1>1. DOMAIN m_options' = {} /\ UNCHANGED <<allocated, attempts>>
    BY DEF Reset, ForgetEntries, Without
  <1>2. Held' = [i \in {} |-> 0]
    BY <1>1 DEF Held
  <1>3. Spent' = Spent
    BY <1>1 DEF Spent
  <1> QED  BY <1>1, <1>2, <1>3 DEF Table!Reset, Held, Spent

\* Every step of the options manager is a step of the table, or none.
LEMMA StepMaps == Inv /\ [Next]_vars => [Table!Next]_(Table!vars)
  <1> SUFFICES ASSUME Inv, [Next]_vars PROVE [Table!Next]_(Table!vars)
    OBVIOUS
  <1>1. CASE CreateOptions
    BY <1>1, CreateMaps DEF Table!Next
  <1>2. ASSUME NEW i \in Indices, Connect(i) PROVE Table!Next
    BY <1>2, ConnectMaps DEF Table!Next
  <1>3. ASSUME NEW i \in Indices,
               LookUpFails(i) \/ \E v \in Expiries : SetSessionExpiry(i, v)
        PROVE  UNCHANGED Table!vars
    <2>1. m_options' = Looked(i) /\ UNCHANGED <<allocated, attempts>>
      BY <1>3 DEF LookUpFails, SetSessionExpiry
    <2> QED  BY <2>1, LookedMaps
  <1>4. CASE Reset
    BY <1>4, ResetMaps DEF Table!Next
  <1>5. CASE UNCHANGED vars
    BY <1>5 DEF vars, Table!vars
  <1> QED  BY <1>1, <1>2, <1>3, <1>4, <1>5 DEF Next

\* The options manager implements the table of options.
THEOREM TableImplemented == Spec => ImplementsTable
  <1> QED  BY InitMaps, StepMaps, InvHolds, PTL DEF Spec, ImplementsTable, Table!Spec
=============================================================================
