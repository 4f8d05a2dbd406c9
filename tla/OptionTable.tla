---------------------------- MODULE OptionTable ----------------------------
(***************************************************************************)
(* What the connection options promise to the plugins: options are held    *)
(* under an index that nobody else has, until they are used for one        *)
(* connection attempt or all plugins unload.  ConnectOptionMgr implements  *)
(* this specification.                                                     *)
(***************************************************************************)
EXTENDS Naturals

CONSTANT MaxIndex   \* the largest index

VARIABLES held,     \* index to options
          spent,    \* options that were used
          made      \* how many options there have been

vars == <<held, spent, made>>

Init ==
    /\ held = [i \in {} |-> 0]
    /\ spent = {}
    /\ made = 0

Create ==
    /\ made' = made + 1
    /\ \E i \in 1..MaxIndex \ DOMAIN held :
           held' = [j \in DOMAIN held \cup {i} |-> IF j = i THEN made' ELSE held[j]]
    /\ UNCHANGED spent

Attempt(i) ==
    /\ i \in DOMAIN held
    /\ held' = [j \in DOMAIN held \ {i} |-> held[j]]
    /\ spent' = spent \cup {held[i]}
    /\ UNCHANGED made

Reset ==
    /\ held' = [i \in {} |-> 0]
    /\ UNCHANGED <<spent, made>>

Next == Create \/ Reset \/ \E i \in 1..MaxIndex : Attempt(i)

Spec == Init /\ [][Next]_vars
=============================================================================
