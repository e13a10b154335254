---------------------------- MODULE MessageBuffer ----------------------------
(***************************************************************************)
(* The three message buffers of packages/rxjs-websocket,                   *)
(* web-socket-message-buffer.ts, as operators: the controller owns one     *)
(* WebSocketMessageBuffer, that is, one function from what a message needs *)
(* of the socket to a sequence of messages.  The newest message is first,  *)
(* as in the code, which adds with unshift() and drops the oldest by pop().*)
(***************************************************************************)
EXTENDS Integers, Sequences

\* enum MessageRequirements: what the socket must be before the message may go.
MessageRequirements == {"any", "auth", "sub"}

\* "unset" stands for a config.buffer that was not given.
OverflowStrategies == {"dropOld", "dropNew", "unset"}

DefaultSize == 2

EmptyBuffers == [need \in MessageRequirements |-> <<>>]

\* `size || default`: JavaScript's || also replaces a size of zero.
EffectiveSize(size) == IF size = 0 THEN DefaultSize ELSE size

\* Mutant of MakeRoom: shift() and pop() exchanged.
MakeRoomSwapped(buffer, size, overflow) ==
  IF Len(buffer) < EffectiveSize(size) THEN buffer
  ELSE IF overflow = "dropNew" THEN SubSeq(buffer, 1, Len(buffer) - 1)
  ELSE Tail(buffer)

\* What is left of a buffer once room was made for one more message.
MakeRoom(buffer, size, overflow) ==
  IF Len(buffer) < EffectiveSize(size) THEN buffer
  ELSE IF overflow = "dropNew" THEN Tail(buffer)
  ELSE SubSeq(buffer, 1, Len(buffer) - 1)

\* add(msg, requirement); addAny, addAuth and addSub are its three instances.
Add(buffers, need, msg, size, overflow) ==
  [buffers EXCEPT ![need] = <<msg>> \o MakeRoom(@, size, overflow)]

\* The state remove(requirement) leaves; what it returns is buffers[need].
Remove(buffers, need) == [buffers EXCEPT ![need] = <<>>]
==============================================================================
