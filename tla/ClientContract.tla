--------------------------- MODULE ClientContract ---------------------------
(***************************************************************************)
(* What a client promises to those who bind handlers to it, ask it to      *)
(* disconnect and destroy it: a request is settled once, by the            *)
(* disconnected handler unless that one is not bound or the client is      *)
(* closed; once the client is closed no handler starts; and it is gone     *)
(* only when no handler runs and no request is open.  MqttClient           *)
(* implements this specification, and so does every client of MqttModule.  *)
(***************************************************************************)
EXTENDS Naturals

CONSTANT Threads   \* the threads that run handlers

VARIABLES life,      \* "open", "closed" or "gone"
          bound,     \* there is a disconnected handler
          serving,   \* what each thread runs a handler for: "answer" if for a
                     \* request to disconnect, "event" if not, or "none"
          owed       \* requests to disconnect that are not settled

vars == <<life, bound, serving, owed>>

Init ==
    /\ life = "open"
    /\ bound \in BOOLEAN
    /\ serving = [t \in Threads |-> "none"]
    /\ owed = 0

Bind ==
    /\ life = "open"
    /\ bound' \in BOOLEAN
    /\ UNCHANGED <<life, serving, owed>>

Request ==
    /\ life = "open"
    /\ owed' = owed + 1
    /\ UNCHANGED <<life, bound, serving>>

Start(t, purpose) ==
    /\ life = "open"
    /\ serving[t] = "none"
    /\ serving' = [serving EXCEPT ![t] = purpose]
    /\ UNCHANGED <<life, bound, owed>>

ReturnFromEvent(t) ==
    /\ serving[t] = "event"
    /\ serving' = [serving EXCEPT ![t] = "none"]
    /\ UNCHANGED <<life, bound, owed>>

\* The disconnected handler has run for a request.
Settle(t) ==
    /\ serving[t] = "answer"
    /\ serving' = [serving EXCEPT ![t] = "none"]
    /\ owed > 0
    /\ owed' = owed - 1
    /\ UNCHANGED <<life, bound>>

\* There is no handler to run for a request, or none may start any more.
Excuse ==
    /\ life = "closed" \/ ~bound
    /\ owed > 0
    /\ owed' = owed - 1
    /\ UNCHANGED <<life, bound, serving>>

Close ==
    /\ life = "open"
    /\ life' = "closed"
    /\ UNCHANGED <<bound, serving, owed>>

Vanish ==
    /\ life = "closed"
    /\ \A t \in Threads : serving[t] = "none"
    /\ owed = 0
    /\ life' = "gone"
    /\ UNCHANGED <<bound, serving, owed>>

Next ==
    \/ Bind
    \/ Request
    \/ \E t \in Threads :
           \/ \E purpose \in {"event", "answer"} : Start(t, purpose)
           \/ ReturnFromEvent(t)
           \/ Settle(t)
    \/ Excuse
    \/ Close
    \/ Vanish

Spec == Init /\ [][Next]_vars
=============================================================================
