-------------------------- MODULE ConnectOptionMgr --------------------------
(***************************************************************************)
(* The connection options (src/src/ConnectOptionMgr.cpp, ConnectOption.cpp *)
(* and the three natives that use them).  An options object is identified  *)
(* by the order of its allocation, so that the life of each one and the    *)
(* reuse of its index can be told apart; of what it holds, the properties  *)
(* are modelled, the one part that is kept twice.                          *)
(*                                                                         *)
(* m_options[index] inserts a null entry for an index that is not there,   *)
(* so that looking an index up changes the map.                            *)
(***************************************************************************)
EXTENDS Integers, Sequences, FiniteSets

CONSTANTS MaxIndex,    \* MAX_INDEX, 10000 in the code
          Expiries,    \* bound: values of the session expiry interval
          MaxObjects   \* bound: options objects ever allocated

ASSUME OptionsAssumption == MaxIndex \in Nat /\ MaxObjects \in Nat

Null == 0

\* Plugins pass any number; two that are never an index stand for the rest.
Indices == 0..(MaxIndex + 1)

VARIABLES
    m_options,     \* index to object, or to Null
    m_indexUsed,
    properties,    \* ConnectOption::m_pProperties, for each live object
    applied,       \* the copy of them inside its connect_options
    allocated,     \* history: objects allocated
    attempts       \* history: connection attempts made with each object

vars == <<m_options, m_indexUsed, properties, applied, allocated, attempts>>

Objects == 1..allocated
Live    == DOMAIN properties

TypeOK ==
    /\ DOMAIN m_options \subseteq Indices
    /\ \A i \in DOMAIN m_options : m_options[i] \in Objects \cup {Null}
    /\ m_indexUsed \subseteq 1..MaxIndex
    /\ Live \subseteq Objects
    /\ properties \in [Live -> Seq(Expiries)]
    /\ applied \in [Live -> Seq(Expiries)]
    /\ allocated \in 0..MaxObjects
    /\ attempts \in [1..MaxObjects -> Nat]

Init ==
    /\ m_options = [i \in {} |-> Null]
    /\ m_indexUsed = {}
    /\ properties = [o \in {} |-> <<>>]
    /\ applied = [o \in {} |-> <<>>]
    /\ allocated = 0
    /\ attempts = [o \in 1..MaxObjects |-> 0]

With(f, x, y) == [z \in DOMAIN f \cup {x} |-> IF z = x THEN y ELSE f[z]]
Without(f, S) == [z \in DOMAIN f \ S |-> f[z]]

-----------------------------------------------------------------------------
\* getOptions: the map after m_options[i], and what it returned.
Looked(i)   == IF i \in DOMAIN m_options THEN m_options ELSE With(m_options, i, Null)
Resolved(i) == Looked(i)[i]

\* Mutant: the smallest index whose entry is missing from m_options.
IndexMissing(i) ==
    i \notin DOMAIN m_options /\ \A j \in 1..(i - 1) : j \in DOMAIN m_options

\* makeIndex: the smallest index that is not used.
IsNewIndex(i) == i \notin m_indexUsed /\ \A j \in 1..(i - 1) : j \in m_indexUsed

Candidates == 1..MaxIndex

\* ConnectOption's constructor, with properties that are still empty.
Construct(o) ==
    /\ properties' = With(properties, o, <<>>)
    /\ applied' = With(applied, o, <<>>)

\* ConnectOption's destructor, for each of them: it deletes both.
Delete(objects) ==
    /\ properties' = Without(properties, objects)
    /\ applied' = Without(applied, objects)

\* mqtt_create_connect_options; when every index is used, makeIndex throws
\* and nothing changes.
CreateOptions ==
    /\ allocated < MaxObjects
    /\ allocated' = allocated + 1
    /\ \E i \in Candidates :
           /\ IsNewIndex(i)
           /\ m_indexUsed' = m_indexUsed \cup {i}
           /\ m_options' = With(m_options, i, allocated')
    /\ Construct(allocated')
    /\ UNCHANGED attempts

\* Mutant: the properties are not cleared first.
AddExpiry(ps, v) == Append(ps, v)

\* clear() and add(), with nobody between them: only the game thread sets options.
SetExpiry(ps, v) == <<v>>

\* mqtt_set_options with MQTT_OPTIONS_SESSION_EXPIRY.
SetSessionExpiry(i, v) ==
    /\ m_options' = Looked(i)
    /\ IF Resolved(i) = Null
       THEN UNCHANGED <<properties, applied>>
       ELSE LET o == Resolved(i) IN
            /\ properties' = [properties EXCEPT ![o] = SetExpiry(@, v)]
            /\ applied' = [applied EXCEPT ![o] = SetExpiry(properties[o], v)]
    /\ UNCHANGED <<m_indexUsed, allocated, attempts>>

ReleasedIndex(i) == m_indexUsed \ {i}

\* ConnectOptionMgr::destroy, for an index that getOptions resolved.
DestroyOptions(i) ==
    /\ m_options' = Without(m_options, {i})
    /\ m_indexUsed' = ReleasedIndex(i)
    /\ Delete({m_options[i]})

\* Mutant: the options survive a connect that throws.
KeepOptions(i) == UNCHANGED <<m_options, m_indexUsed, properties, applied>>

DestroyOptionsOnError(i) == DestroyOptions(i)

\* mqtt_connect of a client that exists, with options that exist.  Paho
\* accepts the connection or throws; the options are consumed either way.
Connect(i) ==
    /\ i \in DOMAIN m_options
    /\ m_options[i] # Null
    /\ attempts' = [attempts EXCEPT ![m_options[i]] = @ + 1]
    /\ DestroyOptions(i) \/ DestroyOptionsOnError(i)
    /\ UNCHANGED allocated

\* Every native that finds no options at the index it was given.
LookUpFails(i) ==
    /\ Resolved(i) = Null
    /\ m_options' = Looked(i)
    /\ UNCHANGED <<m_indexUsed, properties, applied, allocated, attempts>>

ForgetIndices == m_indexUsed' = {}

\* Mutant: the objects are deleted and the entries stay.
ForgetEntriesNever == UNCHANGED m_options

ForgetEntries == m_options' = Without(m_options, DOMAIN m_options)

\* ConnectOptionMgr::reset, when plugins unload or the module is detached.
Reset ==
    /\ ForgetEntries
    /\ ForgetIndices
    /\ Delete({m_options[i] : i \in DOMAIN m_options})
    /\ UNCHANGED <<allocated, attempts>>

Next ==
    \/ CreateOptions
    \/ \E i \in Indices :
           \/ \E v \in Expiries : SetSessionExpiry(i, v)
           \/ Connect(i)
           \/ LookUpFails(i)
    \/ Reset

Spec == Init /\ [][Next]_vars

-----------------------------------------------------------------------------
\* An index is in m_indexUsed exactly while m_options holds an object for it,
\* although lookups of wrong indices leave null entries behind: every index
\* given back can be given out again, and none is given out twice.
UsedMeansResolvable ==
    m_indexUsed = {i \in DOMAIN m_options : m_options[i] # Null}

\* Every object is owned by exactly one index and deleted with it: none is
\* leaked and none can be deleted or used through a second index.
OneOwnerPerObject ==
    /\ Live = {m_options[i] : i \in DOMAIN m_options} \ {Null}
    /\ \A i, j \in m_indexUsed : m_options[i] = m_options[j] => i = j

\* Options are consumed by the first connection attempt made with them,
\* whether Paho accepts it or throws.
UsedOnce == \A o \in 1..MaxObjects : attempts[o] <= 1

\* A wrong index that is looked up leaves a null entry behind, and nothing
\* removes it before the next reset; still makeIndex throws only when options
\* are held under every index.
WrongLookupsCostNoIndex ==
    Cardinality(Live) < MaxIndex => \E i \in Candidates : IsNewIndex(i)

\* However often the expiry is set, one property is sent, and it is the one
\* that the options object holds.
OneExpiryProperty ==
    \A o \in Live : applied[o] = properties[o] /\ Len(applied[o]) <= 1

\* Plugins cannot tell the two maps, the null entries and the raw pointers from
\* a table of options that are held until they are used once.
Table == INSTANCE OptionTable
    WITH held  <- [i \in {j \in DOMAIN m_options : m_options[j] # Null} |-> m_options[i]],
         spent <- {o \in 1..MaxObjects : attempts[o] > 0},
         made  <- allocated

ImplementsTable == Table!Spec
=============================================================================
