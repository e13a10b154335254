------------------------ MODULE MCWebSocketController ------------------------
(* Instances of WebSocketController for TLC. *)
EXTENDS WebSocketController

\* A request that has to wait for the subscription, one that goes when authorized, and a
\* message that goes when the socket is open.
MCCalls ==
  [op: {"request"}, withoutAuth: {FALSE}, withoutSubscription: BOOLEAN, noBuffer: {FALSE}]
    \cup {[op |-> "send", withoutAuth |-> TRUE, withoutSubscription |-> FALSE,
           noBuffer |-> TRUE]}
==============================================================================
