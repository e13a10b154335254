------------------------- MODULE MessageBufferHistory -------------------------
(***************************************************************************)
(* WebSocketMessageBuffer under every sequence of calls, beside a record of*)
(* all that was added since each buffer was last emptied.  The buffer is   *)
(* compared with a reference definition over that record.                  *)
(***************************************************************************)
EXTENDS MessageBuffer

CONSTANTS Sizes,        \* the values of config.buffer.size
          MaxMessages   \* bound: how many messages are added in a behaviour

ASSUME HistoryAssumption == Sizes \subseteq Nat /\ MaxMessages \in Nat

VARIABLES config,   \* [size, overflow], fixed at construction
          buffers,  \* _buffers
          added,    \* history: per requirement, the messages since the last remove
          next      \* the identity of the next message

vars == <<config, buffers, added, next>>

Init ==
  /\ config \in [size: Sizes, overflow: OverflowStrategies]
  /\ buffers = EmptyBuffers
  /\ added = EmptyBuffers
  /\ next = 1

AddMessage(need) ==
  /\ next <= MaxMessages
  /\ buffers' = Add(buffers, need, next, config.size, config.overflow)
  /\ added' = [added EXCEPT ![need] = Append(@, next)]
  /\ next' = next + 1
  /\ UNCHANGED config

RemoveMessages(need) ==
  /\ buffers[need] # <<>>
  /\ buffers' = Remove(buffers, need)
  /\ added' = [added EXCEPT ![need] = <<>>]
  /\ UNCHANGED <<config, next>>

Next == \E need \in MessageRequirements : AddMessage(need) \/ RemoveMessages(need)

Spec == Init /\ [][Next]_vars
-------------------------------------------------------------------------------
NewestFirst(s) == [i \in 1..Len(s) |-> s[Len(s) + 1 - i]]

Capacity == EffectiveSize(config.size)

\* What a buffer holds after the messages of h: all of them while they fit; then,
\* with dropNew, the earliest Capacity-1 and the very last, otherwise the last
\* Capacity of them.
Expected(h) ==
  IF Len(h) <= Capacity THEN NewestFirst(h)
  ELSE IF config.overflow = "dropNew"
  THEN <<h[Len(h)]>> \o NewestFirst(SubSeq(h, 1, Capacity - 1))
  ELSE NewestFirst(SubSeq(h, Len(h) - Capacity + 1, Len(h)))

\* Whatever the order of adds and removes on the three buffers, each one of a configured
\* size holds what its overflow strategy promises for the messages added to it alone: add()
\* and remove() of web-socket-message-buffer.ts never mix, lose or reorder others.
BufferKeepsWhatItPromises ==
  config.size # 0 => \A need \in MessageRequirements : buffers[need] = Expected(added[need])

===============================================================================
