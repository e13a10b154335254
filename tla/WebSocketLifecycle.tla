-------------------------- MODULE WebSocketLifecycle --------------------------
(***************************************************************************)
(* What a WebSocketController promises of its state (the documentation of  *)
(* WebSocketControllerState and of pending$, opened$, ... , closed$): the  *)
(* states of one connection come in order, a connection may end at any     *)
(* time, what is closing becomes nothing but closed, and a new connection  *)
(* starts from closed only, which is passed at once when a subscriber of   *)
(* closed$ starts it.  Where authorization or subscription may come a      *)
(* second time on one connection, a subscribed one is authorized again.    *)
(***************************************************************************)
CONSTANTS
  Reopens,  \* whether a subscriber of closed$ may start the next connection at once
  Late      \* whether an authorization or subscription may come late, to any connection

VARIABLE state

Phases == {"pending", "opened", "authorized", "subscribed", "closing", "closed"}

Up == {"pending", "opened", "authorized", "subscribed"}

\* Which states a connection that is in `from` may come to next; when authorization
\* or subscription is instant, several of them are passed in one step.
After(from) ==
  CASE from = "pending" -> {"opened", "authorized", "subscribed"}
    [] from = "opened" -> {"authorized", "subscribed"}
    [] from = "authorized" -> {"subscribed"}
    [] from = "subscribed" /\ Late -> {"authorized"}
    [] OTHER -> {}

Init == state = "closed"

Connect == state = "closed" /\ state' = "pending"

Progress == state' \in After(state)

StartClosing == state \in Up /\ state' = "closing"

Finish == state \in Up \cup {"closing"} /\ state' = "closed"

\* Closed is passed in one step: its subscriber has opened the next connection.
Reopen == Reopens /\ state \in Up \cup {"closing"} /\ state' = "pending"

Next == Connect \/ Progress \/ StartClosing \/ Finish \/ Reopen

Spec == Init /\ [][Next]_state
===============================================================================
