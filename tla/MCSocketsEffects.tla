--------------------------- MODULE MCSocketsEffects ---------------------------
(* Instances of SocketsEffects for TLC. *)
EXTENDS SocketsEffects

\* A socket, and another one that needs the responses of the first.
MCLinks == <<<<"first">>, <<"second">>>>

\* A single socket.
MCOneLink == <<<<"first">>>>
===============================================================================
