---------------------------- MODULE EventChannel ----------------------------
(***************************************************************************)
(* What the callback dispatcher promises to the plugins: while the channel *)
(* is open, every event the network threads hand over is appended to one   *)
(* log; the game thread handles the events of the log one at a time and in *)
(* order, none twice and none skipped; closing the channel forgets         *)
(* whatever was not handled yet, so that no event crosses into the next    *)
(* session.  CallbackDispatcher implements this specification.             *)
(***************************************************************************)
EXTENDS Naturals, Sequences

CONSTANTS Events,    \* what the network threads may hand over
          NoEvent    \* nothing is being handled; not one of Events

VARIABLES open,      \* a session is open: plugins are loaded
          log,       \* every event accepted in the current session, in order
          cursor,    \* how many events of the log have been taken
          current    \* the event being handled, or NoEvent

vars == <<open, log, cursor, current>>

Init ==
    /\ open = FALSE
    /\ log = <<>>
    /\ cursor = 0
    /\ current = NoEvent

Accept(e) ==
    /\ open
    /\ log' = Append(log, e)
    /\ UNCHANGED <<open, cursor, current>>

Take ==
    /\ open
    /\ current = NoEvent
    /\ cursor < Len(log)
    /\ current' = log[cursor + 1]
    /\ cursor' = cursor + 1
    /\ UNCHANGED <<open, log>>

Finish ==
    /\ current # NoEvent
    /\ current' = NoEvent
    /\ UNCHANGED <<open, log, cursor>>

Open ==
    /\ open' = TRUE
    /\ UNCHANGED <<log, cursor, current>>

\* The event being handled is finished by its handler; only the rest is lost.
Close ==
    /\ open' = FALSE
    /\ log' = <<>>
    /\ cursor' = 0
    /\ UNCHANGED current

Next ==
    \/ \E e \in Events : Accept(e)
    \/ Take
    \/ Finish
    \/ Open
    \/ Close

Spec == Init /\ [][Next]_vars
=============================================================================
