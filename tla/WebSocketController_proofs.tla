---------------------- MODULE WebSocketController_proofs ----------------------
(***************************************************************************)
(* Proofs about WebSocketController, for every configuration and whatever  *)
(* the bounds.  The invariant is stated over a record c, because a handler *)
(* passes the controller's record through several methods: each method has *)
(* a lemma that says it keeps the invariant, and what it keeps besides.    *)
(***************************************************************************)
EXTENDS WebSocketController, SequenceTheorems, TLAPS

IsLive(c, s) == c.ws[s].ready # "CLOSED"

\* The inductive part of the safety properties.  A live socket must be the last one,
\* and be either _socket or already closed manually: otherwise close() could not reach
\* it, and its loss could start a second timer.
Connection(c) ==
  /\ \A s \in DOMAIN c.ws : IsLive(c, s) =>
       s = Len(c.ws) /\ (c.socket = s \/ c.ws[s].closedManually)
  /\ c.state = "closed" =>
       (\A s \in DOMAIN c.ws : ~IsLive(c, s)) /\ c.closedManually = {}
  /\ \A s \in c.closedManually :
       s \in DOMAIN c.ws /\ s = Len(c.ws) /\ c.ws[s].ready = "CLOSING"
  /\ \A s \in DOMAIN c.ws :
       /\ c.ws[s].reopens <= 1
       /\ IsLive(c, s) /\ ~c.ws[s].closedManually => c.ws[s].reopens = 0

Typed(c) ==
  /\ c \in Controllers
  /\ c.socket <= Len(c.ws)
  /\ \A w \in c.waits : w.on <= Len(c.ws)

Good(c) == Typed(c) /\ Connection(c)

\* What a method that neither opens a socket nor starts a timer keeps.
Keeps(c, d) ==
  /\ Len(d.ws) = Len(c.ws)
  /\ DOMAIN d.ws = DOMAIN c.ws
  /\ \A s \in DOMAIN c.ws :
       /\ d.ws[s].timers = c.ws[s].timers /\ d.ws[s].reopens = c.ws[s].reopens
       /\ c.ws[s].closedManually => d.ws[s].closedManually
       /\ IsLive(d, s) => IsLive(c, s)

Kept(c, d) == Good(d) /\ Keeps(c, d)
-------------------------------------------------------------------------------
\* Replacing one socket of the list leaves a list of sockets of the same length.
LEMMA SocketUpdate ==
  ASSUME NEW ws \in Seq(Sockets), NEW s \in DOMAIN ws, NEW x \in Sockets
  PROVE  /\ [ws EXCEPT ![s] = x] \in Seq(Sockets)
         /\ Len([ws EXCEPT ![s] = x]) = Len(ws)
         /\ DOMAIN [ws EXCEPT ![s] = x] = DOMAIN ws
BY ExceptSeq

\* Keeps composes, as the calls of a handler do.
LEMMA KeepsTransitive ==
  ASSUME NEW c, NEW d, NEW e, Keeps(c, d), Keeps(d, e)
  PROVE  Keeps(c, e)
BY DEF Keeps

\* A change that leaves alone _socket, the waiters and what the sockets are, and does
\* not make the state closed, keeps the invariant.
LEMMA QuietChange ==
  ASSUME NEW c, Good(c), NEW d \in Controllers,
         d.socket = c.socket, d.closedManually = c.closedManually,
         d.state = c.state \/ d.state # "closed",
         Len(d.ws) = Len(c.ws), DOMAIN d.ws = DOMAIN c.ws,
         \A s \in DOMAIN c.ws : /\ d.ws[s].ready = c.ws[s].ready
                                /\ d.ws[s].closedManually = c.ws[s].closedManually
                                /\ d.ws[s].timers = c.ws[s].timers
                                /\ d.ws[s].reopens = c.ws[s].reopens,
         \A w \in d.waits : w.on <= Len(c.ws)
  PROVE  Kept(c, d)
<1>1. DOMAIN c.ws = 1..Len(c.ws) /\ Len(c.ws) \in Nat
  BY DEF Good, Typed, Controllers
<1>2. Typed(d) BY DEF Good, Typed
<1>3. Connection(d) BY DEF Good, Connection, IsLive
<1>4. Keeps(c, d) BY DEF Keeps, IsLive
<1>. QED BY <1>2, <1>3, <1>4 DEF Kept, Good

\* A record that differs in other fields than state, socket, ws and closedManually.
LEMMA OtherFields ==
  ASSUME NEW c, Good(c), NEW d \in Controllers,
         d.state = c.state, d.socket = c.socket, d.ws = c.ws,
         d.closedManually = c.closedManually,
         \A w \in d.waits : w.on <= Len(c.ws)
  PROVE  Kept(c, d)
BY QuietChange

\* _setState to anything but closed keeps the invariant.
LEMMA SetStateKeeps ==
  ASSUME NEW c, Good(c), NEW state \in States \ {"closed"}
  PROVE  Kept(c, SetState(c, state))
<1> DEFINE d == [c EXCEPT !.state = state]
<1>1. d \in Controllers BY DEF Good, Typed, Controllers
<1>2. /\ d.socket = c.socket /\ d.ws = c.ws /\ d.closedManually = c.closedManually
      /\ d.waits = c.waits /\ d.state # "closed"
  BY DEF Good, Typed, Controllers
<1>3. Kept(c, d) BY <1>1, <1>2, QuietChange DEF Good, Typed
<1>. QED BY <1>3 DEF SetState

\* Making room in a buffer of web-socket-message-buffer.ts leaves a sequence of messages.
LEMMA MakeRoomType ==
  ASSUME NEW buffer \in Seq(Nat), NEW size \in Nat, NEW overflow
  PROVE  MakeRoom(buffer, size, overflow) \in Seq(Nat)
<1>1. CASE Len(buffer) < EffectiveSize(size) BY <1>1 DEF MakeRoom
<1>2. CASE ~(Len(buffer) < EffectiveSize(size))
  <2>1. Len(buffer) \in Nat /\ Len(buffer) > 0 BY <1>2 DEF EffectiveSize, DefaultSize
  <2>2. Tail(buffer) \in Seq(Nat) BY <2>1
  <2>3. SubSeq(buffer, 1, Len(buffer) - 1) \in Seq(Nat) BY <2>1
  <2>. QED BY <1>2, <2>2, <2>3 DEF MakeRoom
<1>. QED BY <1>1, <1>2

\* Where a write goes: nowhere, or to the socket that _socket is.
LEMMA WritableType ==
  ASSUME NEW c, Typed(c)
  PROVE  Writable(c) \in Nat /\ Writable(c) <= Len(c.ws)
<1>1. c.socket \in Nat /\ c.socket <= Len(c.ws) /\ Len(c.ws) \in Nat
  BY DEF Typed, Controllers
<1>. QED BY <1>1 DEF Writable

\* Writing changes the server's inbox only.
LEMMA SendDirectKeeps ==
  ASSUME NEW c, Good(c), NEW ids \in SUBSET Nat,
         NEW need \in MessageRequirements \cup {"authorize", "subscribe"}
  PROVE  Kept(c, SendDirect(c, ids, need)) /\ SendDirect(c, ids, need).waits = c.waits
<1> DEFINE new == [id: ids \ {0}, need: {need}, on: {Writable(c)}]
           d == [c EXCEPT !.asked = c.asked \cup new]
<1>1. new \in SUBSET Asked BY WritableType DEF Good, Asked
<1>2. d \in Controllers BY <1>1 DEF Good, Typed, Controllers
<1>3. /\ d.state = c.state /\ d.socket = c.socket /\ d.ws = c.ws
      /\ d.closedManually = c.closedManually /\ d.waits = c.waits
  BY DEF Good, Typed, Controllers
<1>4. Kept(c, d) BY <1>2, <1>3, OtherFields DEF Good, Typed
<1>5. Kept(c, c) BY OtherFields DEF Good, Typed
<1>6. SendDirect(c, ids, need) = c \/ SendDirect(c, ids, need) = d BY DEF SendDirect
<1>. QED BY <1>3, <1>4, <1>5, <1>6

\* _sendBuffered changes the buffers and the server's inbox only.
LEMMA SendBufferedKeeps ==
  ASSUME NEW c, Good(c), NEW need \in MessageRequirements
  PROVE  Kept(c, SendBuffered(c, need))
<1> DEFINE ids == {c.buffers[need][i] : i \in DOMAIN c.buffers[need]}
           d == [c EXCEPT !.buffers = Remove(c.buffers, need)]
<1>1. ids \in SUBSET Nat
  <2>1. c.buffers[need] \in Seq(Nat) BY DEF Good, Typed, Controllers
  <2>. QED BY <2>1
<1>2. Remove(c.buffers, need) \in [MessageRequirements -> Seq(Nat)]
  <2>1. <<>> \in Seq(Nat) OBVIOUS
  <2>. QED BY <2>1 DEF Remove, Good, Typed, Controllers
<1>3. d \in Controllers BY <1>2 DEF Good, Typed, Controllers
<1>4. /\ d.state = c.state /\ d.socket = c.socket /\ d.ws = c.ws
      /\ d.closedManually = c.closedManually /\ d.waits = c.waits
  BY DEF Good, Typed, Controllers
<1>5. Kept(c, d) BY <1>3, <1>4, OtherFields DEF Good, Typed
<1>6. Kept(d, SendDirect(d, ids, need)) BY <1>1, <1>5, SendDirectKeeps DEF Kept
<1>7. SendBuffered(c, need) = SendDirect(d, ids, need) BY DEF SendBuffered
<1>. QED BY <1>5, <1>6, <1>7, KeepsTransitive DEF Kept

\* _requestDirect adds requests and their wait, and keeps the rest.
LEMMA RequestDirectKeeps ==
  ASSUME NEW c, Good(c), NEW n \in Nat, NEW need \in {"authorize", "subscribe"}
  PROVE  Kept(c, RequestDirect(c, n, need))
<1>1. CASE n = 0
  <2>1. Kept(c, c) BY OtherFields DEF Good, Typed
  <2>. QED BY <1>1, <2>1 DEF RequestDirect
<1>2. CASE n # 0
  <2> DEFINE ids == c.reqCounter .. (c.reqCounter + n - 1)
             b == [c EXCEPT !.reqCounter = c.reqCounter + n]
             sent == SendDirect(b, ids, need)
             wait == [for |-> need, ids |-> ids, on |-> Writable(c), ok |-> TRUE]
             d == [sent EXCEPT !.waits = sent.waits \cup {wait}]
  <2>1. c.reqCounter + n \in Nat /\ ids \in SUBSET Nat BY DEF Good, Typed, Controllers
  <2>2. b \in Controllers BY <2>1 DEF Good, Typed, Controllers
  <2>3. /\ b.state = c.state /\ b.socket = c.socket /\ b.ws = c.ws
        /\ b.closedManually = c.closedManually /\ b.waits = c.waits
    BY DEF Good, Typed, Controllers
  <2>4. Kept(c, b) BY <2>2, <2>3, OtherFields DEF Good, Typed
  <2>5. Kept(b, sent) /\ sent.waits = c.waits
    BY <2>1, <2>3, <2>4, SendDirectKeeps DEF Kept
  <2>6. wait \in Waits /\ wait.on <= Len(c.ws)
    BY <2>1, WritableType DEF Good, Waits
  <2>7. Len(sent.ws) = Len(c.ws) BY <2>4, <2>5 DEF Kept, Keeps
  <2>8. d \in Controllers BY <2>5, <2>6 DEF Kept, Good, Typed, Controllers
  <2>9. /\ d.state = sent.state /\ d.socket = sent.socket /\ d.ws = sent.ws
        /\ d.closedManually = sent.closedManually /\ d.waits = c.waits \cup {wait}
    BY <2>5 DEF Kept, Good, Typed, Controllers
  <2>10. \A w \in d.waits : w.on <= Len(sent.ws)
    BY <2>6, <2>7, <2>9 DEF Good, Typed
  <2>11. Kept(sent, d) BY <2>5, <2>8, <2>9, <2>10, OtherFields DEF Kept
  <2>12. RequestDirect(c, n, need) = d BY <1>2 DEF RequestDirect
  <2>. QED BY <2>4, <2>5, <2>11, <2>12, KeepsTransitive DEF Kept
<1>. QED BY <1>1, <1>2

\* close() marks the socket before it decides what to do, so the socket it leaves
\* behind cannot be reopened by its own handlers.
LEMMA CloseKeeps ==
  ASSUME NEW c, Good(c)
  PROVE  /\ Kept(c, Close(c))
         /\ \A s \in DOMAIN c.ws : IsLive(Close(c), s) => Close(c).ws[s].closedManually
<1>0. /\ c \in Controllers /\ c.socket \in Nat /\ c.ws \in Seq(Sockets)
      /\ Len(c.ws) \in Nat /\ DOMAIN c.ws = 1..Len(c.ws) /\ c.socket <= Len(c.ws)
  BY DEF Good, Typed, Controllers
<1>1. CASE c.socket = 0
  <2>1. Kept(c, c) BY OtherFields DEF Good, Typed
  <2>2. \A s \in DOMAIN c.ws : IsLive(c, s) => c.ws[s].closedManually
    BY <1>0, <1>1 DEF Good, Connection
  <2>. QED BY <1>1, <2>1, <2>2 DEF Close
<1>2. CASE c.socket # 0
  <2> DEFINE s == c.socket
             x == [c.ws[s] EXCEPT !.closedManually = TRUE, !.ready = "CLOSING"]
             y == [c.ws[s] EXCEPT !.closedManually = TRUE]
             a == [c EXCEPT !.state = "closing", !.ws = [c.ws EXCEPT ![s] = x],
                            !.closedManually = c.closedManually \cup {s}]
             b == [c EXCEPT !.ws = [c.ws EXCEPT ![s] = y], !.socket = 0]
             live == c.ws[s].ready \in {"CONNECTING", "OPEN"}
  <2>1. s \in DOMAIN c.ws /\ c.ws[s] \in Sockets BY <1>0, <1>2
  <2>2. x \in Sockets /\ y \in Sockets BY <2>1 DEF Sockets
  <2>3. /\ x.ready = "CLOSING" /\ x.closedManually /\ x.timers = c.ws[s].timers
        /\ x.reopens = c.ws[s].reopens
        /\ y.ready = c.ws[s].ready /\ y.closedManually /\ y.timers = c.ws[s].timers
        /\ y.reopens = c.ws[s].reopens
    BY <2>1 DEF Sockets
  <2> HIDE DEF x, y
  <2>4. CASE live
    <3>1. s = Len(c.ws) BY <2>1, <2>4 DEF Good, Connection, IsLive
    <3>2. a \in Controllers
      BY <1>0, <2>1, <2>2, SocketUpdate DEF Controllers, States
    <3>3. /\ a.state = "closing" /\ a.socket = c.socket /\ a.waits = c.waits
          /\ a.closedManually = c.closedManually \cup {s}
          /\ a.ws = [c.ws EXCEPT ![s] = x]
      BY <1>0 DEF Controllers
    <3> HIDE DEF a
    <3>4. Len(a.ws) = Len(c.ws) /\ DOMAIN a.ws = DOMAIN c.ws /\ a.ws[s] = x
          /\ \A t \in DOMAIN c.ws : t # s => a.ws[t] = c.ws[t]
      BY <1>0, <2>1, <2>2, <3>3, SocketUpdate
    <3>5. Typed(a) BY <3>2, <3>3, <3>4 DEF Good, Typed
    <3>6. \A t \in DOMAIN a.ws : IsLive(a, t) => t = s /\ IsLive(c, t)
      BY <2>4, <3>1, <3>4 DEF Good, Connection, IsLive
    <3>7. Connection(a)
      BY <2>1, <2>3, <3>1, <3>3, <3>4, <3>6 DEF Good, Connection
    <3>8. Keeps(c, a) BY <2>3, <3>4, <3>6 DEF Keeps
    <3>9. Close(c) = a BY <1>2, <2>4 DEF Close, a, x
    <3>. QED BY <2>3, <3>4, <3>5, <3>6, <3>7, <3>8, <3>9 DEF Kept, Good
  <2>5. CASE ~live
    <3>2. b \in Controllers BY <1>0, <2>1, <2>2, SocketUpdate DEF Controllers
    <3>3. /\ b.state = c.state /\ b.socket = 0 /\ b.waits = c.waits
          /\ b.closedManually = c.closedManually
          /\ b.ws = [c.ws EXCEPT ![s] = y]
      BY <1>0 DEF Controllers
    <3> HIDE DEF b
    <3>4. Len(b.ws) = Len(c.ws) /\ DOMAIN b.ws = DOMAIN c.ws /\ b.ws[s] = y
          /\ \A t \in DOMAIN c.ws : t # s => b.ws[t] = c.ws[t]
      BY <1>0, <2>1, <2>2, <3>3, SocketUpdate
    <3>5. Typed(b) BY <1>0, <3>2, <3>3, <3>4 DEF Good, Typed
    <3>6. \A t \in DOMAIN b.ws :
            /\ IsLive(b, t) => t = Len(b.ws) /\ IsLive(c, t) /\ b.ws[t].closedManually
            /\ b.ws[t].ready = c.ws[t].ready /\ b.ws[t].reopens = c.ws[t].reopens
      BY <2>3, <3>4 DEF Good, Connection, IsLive
    <3>7. Connection(b)
      BY <3>3, <3>4, <3>6 DEF Good, Connection, IsLive
    <3>8. Keeps(c, b) BY <2>3, <3>4, <3>6 DEF Keeps
    <3>9. Close(c) = b BY <1>2, <2>5 DEF Close, b, y
    <3>. QED BY <3>4, <3>5, <3>6, <3>7, <3>8, <3>9 DEF Kept, Good
  <2>. QED BY <2>4, <2>5
<1>. QED BY <1>1, <1>2

\* Marking a socket, or counting down its timer, is no matter of the invariant.
LEMMA SocketMark ==
  ASSUME NEW c, Good(c), NEW s \in DOMAIN c.ws, NEW x \in Sockets,
         x.ready = c.ws[s].ready, x.closedManually = c.ws[s].closedManually,
         x.timers = c.ws[s].timers, x.reopens = c.ws[s].reopens
  PROVE  Kept(c, [c EXCEPT !.ws = [c.ws EXCEPT ![s] = x]])
<1> DEFINE d == [c EXCEPT !.ws = [c.ws EXCEPT ![s] = x]]
<1>1. c \in Controllers /\ c.ws \in Seq(Sockets) BY DEF Good, Typed, Controllers
<1>2. d \in Controllers BY <1>1, SocketUpdate DEF Controllers
<1>3. /\ d.state = c.state /\ d.socket = c.socket /\ d.waits = c.waits
      /\ d.closedManually = c.closedManually /\ d.ws = [c.ws EXCEPT ![s] = x]
  BY <1>1 DEF Controllers
<1> HIDE DEF d
<1>4. /\ Len(d.ws) = Len(c.ws) /\ DOMAIN d.ws = DOMAIN c.ws
      /\ d.ws[s] = x /\ \A t \in DOMAIN c.ws : t # s => d.ws[t] = c.ws[t]
  BY <1>1, <1>3, SocketUpdate
<1>5. Kept(c, d) BY <1>2, <1>3, <1>4, QuietChange DEF Good, Typed
<1>. QED BY <1>5 DEF d

\* _subscribed neither makes nor closes a socket.
LEMMA SubscribedKeeps ==
  ASSUME NEW c, Good(c), NEW on \in Nat, on <= Len(c.ws)
  PROVE  Kept(c, Subscribed(c, on))
<1> DEFINE x == [c.ws[on] EXCEPT !.subscribed = TRUE]
           marked == IF on = 0 THEN c ELSE [c EXCEPT !.ws = [c.ws EXCEPT ![on] = x]]
           set == SetState(marked, "subscribed")
<1>1. Kept(c, marked)
  <2>1. CASE on = 0 BY <2>1, OtherFields DEF Good, Typed
  <2>2. CASE on # 0
    <3>1. on \in DOMAIN c.ws /\ c.ws[on] \in Sockets
      BY <2>2 DEF Good, Typed, Controllers
    <3>2. /\ x \in Sockets /\ x.ready = c.ws[on].ready /\ x.timers = c.ws[on].timers
          /\ x.closedManually = c.ws[on].closedManually /\ x.reopens = c.ws[on].reopens
      BY <3>1 DEF Sockets
    <3>. QED BY <2>2, <3>1, <3>2, SocketMark
  <2>. QED BY <2>1, <2>2
<1>2. Kept(marked, set) BY <1>1, SetStateKeeps DEF Kept, States
<1>3. Kept(set, SendBuffered(set, "sub"))
  BY <1>2, SendBufferedKeeps DEF Kept, MessageRequirements
<1>4. Subscribed(c, on) = SendBuffered(set, "sub") BY DEF Subscribed
<1>. QED BY <1>1, <1>2, <1>3, <1>4, KeepsTransitive DEF Kept

\* The subscriber of createRequests() keeps the invariant, also when it closes.
LEMMA SubMessagesKeeps ==
  ASSUME NEW c, Good(c), NEW made
  PROVE  Kept(c, SubMessages(c, made))
<1>1. Kept(c, RequestDirect(c, SubCount, "subscribe"))
  BY RequestDirectKeeps, ControllerAssumption
<1>2. Kept(c, Subscribed(c, Writable(c))) BY SubscribedKeeps, WritableType DEF Good
<1>3. Kept(c, Close(c)) BY CloseKeeps
<1>4. Kept(c, c) BY OtherFields DEF Good, Typed
<1>. QED BY <1>1, <1>2, <1>3, <1>4 DEF SubMessages

\* _subscribe keeps the invariant, whatever createRequests() does.
LEMMA SubscribeKeeps ==
  ASSUME NEW c, Good(c), NEW makes
  PROVE  Kept(c, Subscribe(c, makes))
<1> DEFINE d == [c EXCEPT !.makingSub = c.makingSub + 1]
<1>0. c.makingSub + 1 \in Nat BY DEF Good, Typed, Controllers
<1>1. d \in Controllers BY <1>0 DEF Good, Typed, Controllers
<1>2. /\ d.state = c.state /\ d.socket = c.socket /\ d.ws = c.ws
      /\ d.closedManually = c.closedManually /\ d.waits = c.waits
  BY DEF Good, Typed, Controllers
<1>3. Kept(c, d) BY <1>1, <1>2, OtherFields DEF Good, Typed
<1>4. Kept(c, Subscribed(c, Writable(c))) BY SubscribedKeeps, WritableType DEF Good
<1>5. Kept(c, SubMessages(c, makes.sub)) BY SubMessagesKeeps
<1>. QED BY <1>3, <1>4, <1>5 DEF Subscribe

\* _authorized, with the _subscribe it calls, keeps the invariant.
LEMMA AuthorizedKeeps ==
  ASSUME NEW c, Good(c), NEW on \in Nat, on <= Len(c.ws), NEW makes
  PROVE  Kept(c, Authorized(c, on, makes))
<1> DEFINE x == [c.ws[on] EXCEPT !.authorized = TRUE]
           marked == IF on = 0 THEN c ELSE [c EXCEPT !.ws = [c.ws EXCEPT ![on] = x]]
           set == SetState(marked, "authorized")
           sent == SendBuffered(set, "auth")
<1>1. Kept(c, marked)
  <2>1. CASE on = 0 BY <2>1, OtherFields DEF Good, Typed
  <2>2. CASE on # 0
    <3>1. on \in DOMAIN c.ws /\ c.ws[on] \in Sockets
      BY <2>2 DEF Good, Typed, Controllers
    <3>2. /\ x \in Sockets /\ x.ready = c.ws[on].ready /\ x.timers = c.ws[on].timers
          /\ x.closedManually = c.ws[on].closedManually /\ x.reopens = c.ws[on].reopens
      BY <3>1 DEF Sockets
    <3>. QED BY <2>2, <3>1, <3>2, SocketMark
  <2>. QED BY <2>1, <2>2
<1>2. Kept(marked, set) BY <1>1, SetStateKeeps DEF Kept, States
<1>3. Kept(set, sent) BY <1>2, SendBufferedKeeps DEF Kept, MessageRequirements
<1>4. Kept(sent, Subscribe(sent, makes)) BY <1>3, SubscribeKeeps DEF Kept
<1>5. Authorized(c, on, makes) = Subscribe(sent, makes) BY DEF Authorized
<1>. QED BY <1>1, <1>2, <1>3, <1>4, <1>5, KeepsTransitive DEF Kept

\* The subscriber of createRequest() keeps the invariant.
LEMMA AuthMessageKeeps ==
  ASSUME NEW c, Good(c), NEW made, NEW makes
  PROVE  Kept(c, AuthMessage(c, made, makes))
<1> DEFINE sent == SendDirect(c, {0}, "authorize")
<1>1. Kept(c, RequestDirect(c, 1, "authorize")) BY RequestDirectKeeps
<1>2. Kept(c, Authorized(sent, Writable(c), makes))
  <2>1. Kept(c, sent) BY SendDirectKeeps
  <2>2. Writable(c) \in Nat /\ Writable(c) <= Len(sent.ws)
    BY <2>1, WritableType DEF Good, Kept, Keeps
  <2>3. Kept(sent, Authorized(sent, Writable(c), makes))
    BY <2>1, <2>2, AuthorizedKeeps DEF Kept
  <2>. QED BY <2>1, <2>3, KeepsTransitive DEF Kept
<1>3. Kept(c, Close(c)) BY CloseKeeps
<1>4. Kept(c, c) BY OtherFields DEF Good, Typed
<1>. QED BY <1>1, <1>2, <1>3, <1>4 DEF AuthMessage

\* _opened, with all that it calls in the same task, keeps the invariant.
LEMMA OpenedKeeps ==
  ASSUME NEW c, Good(c), NEW makes
  PROVE  Kept(c, Opened(c, makes))
<1> DEFINE set == SetState(c, "opened")
           sent == SendBuffered(set, "any")
           later == [sent EXCEPT !.makingAuth = sent.makingAuth + 1]
<1>1. Kept(c, set) BY SetStateKeeps DEF States
<1>2. Kept(set, sent) BY <1>1, SendBufferedKeeps DEF Kept, MessageRequirements
<1>3. Kept(c, sent) BY <1>1, <1>2, KeepsTransitive DEF Kept
<1> HIDE DEF sent
<1>4. Kept(sent, later)
  <2>0. sent.makingAuth + 1 \in Nat BY <1>3 DEF Kept, Good, Typed, Controllers
  <2>1. later \in Controllers BY <1>3, <2>0 DEF Kept, Good, Typed, Controllers
  <2>2. /\ later.state = sent.state /\ later.socket = sent.socket
        /\ later.ws = sent.ws /\ later.closedManually = sent.closedManually
        /\ later.waits = sent.waits
    BY <1>3 DEF Kept, Good, Typed, Controllers
  <2>. QED BY <1>3, <2>1, <2>2, OtherFields DEF Kept, Good, Typed
<1>5. Kept(sent, Authorized(sent, Writable(sent), makes))
  BY <1>3, AuthorizedKeeps, WritableType DEF Kept, Good
<1>6. Kept(sent, AuthMessage(sent, makes.auth, makes))
  BY <1>3, AuthMessageKeeps DEF Kept
<1>7. Kept(sent, Authorize(sent, makes)) BY <1>4, <1>5, <1>6 DEF Authorize
<1>8. Opened(c, makes) = Authorize(sent, makes) BY DEF Opened, sent
<1>. QED BY <1>3, <1>7, <1>8, KeepsTransitive DEF Kept

\* open() makes a socket only when every other one is closed.
LEMMA OpenGood ==
  ASSUME NEW c, Good(c), NEW auto \in BOOLEAN, NEW constructs \in BOOLEAN
  PROVE  /\ Good(Open(c, auto, constructs))
         /\ \A t \in DOMAIN c.ws : /\ t \in DOMAIN Open(c, auto, constructs).ws
                                   /\ Open(c, auto, constructs).ws[t] = c.ws[t]
<1> DEFINE new == [ready |-> "CONNECTING", closedManually |-> FALSE,
                   auto |-> auto, timers |-> 0, authorized |-> FALSE,
                   subscribed |-> FALSE, reopens |-> 0]
           d == [c EXCEPT !.state = "pending", !.socket = Len(c.ws) + 1,
                          !.ws = Append(c.ws, new)]
<1>1. CASE c.state # "closed" BY <1>1 DEF Open
<1>2. CASE c.state = "closed" /\ ~constructs
  <2>1. Kept(c, SetState(c, "pending")) BY SetStateKeeps DEF States
  <2>2. SetState(c, "pending").ws = c.ws BY DEF SetState, Good, Typed, Controllers
  <2>. QED BY <1>2, <2>1, <2>2 DEF Open, Kept
<1>3. CASE c.state = "closed" /\ constructs
  <2>1. new \in Sockets BY DEF Sockets
  <2>2. /\ c.ws \in Seq(Sockets) /\ Len(c.ws) \in Nat /\ DOMAIN c.ws = 1..Len(c.ws)
        /\ Len(c.ws) + 1 \in Nat
    BY DEF Good, Typed, Controllers
  <2>3. new.ready = "CONNECTING" /\ new.reopens = 0 OBVIOUS
  <2> HIDE DEF new
  <2>4. /\ Append(c.ws, new) \in Seq(Sockets)
        /\ Len(Append(c.ws, new)) = Len(c.ws) + 1
        /\ Append(c.ws, new)[Len(c.ws) + 1] = new
        /\ \A t \in DOMAIN c.ws : Append(c.ws, new)[t] = c.ws[t]
    BY <2>1, <2>2
  <2>5. d \in Controllers BY <2>2, <2>4 DEF Good, Typed, Controllers, States
  <2>6. /\ d.state = "pending" /\ d.socket = Len(c.ws) + 1 /\ d.ws = Append(c.ws, new)
        /\ d.closedManually = c.closedManually /\ d.waits = c.waits
    BY DEF Good, Typed, Controllers
  <2> HIDE DEF d
  <2>7. /\ Len(d.ws) = Len(c.ws) + 1 /\ DOMAIN d.ws = 1..(Len(c.ws) + 1)
        /\ d.ws[Len(c.ws) + 1] = new /\ \A t \in DOMAIN c.ws : d.ws[t] = c.ws[t]
    BY <2>4, <2>5, <2>6 DEF Controllers
  <2>8. \A w \in c.waits : w.on \in Nat /\ w.on <= Len(c.ws)
    BY DEF Good, Typed, Controllers, Waits
  <2>9. Typed(d) BY <2>2, <2>5, <2>6, <2>7, <2>8 DEF Typed
  <2>10. Connection(d)
    BY <1>3, <2>2, <2>3, <2>6, <2>7 DEF Good, Connection, IsLive
  <2>11. Open(c, auto, constructs) = d BY <1>3 DEF Open, d, new
  <2>. QED BY <2>2, <2>7, <2>9, <2>10, <2>11 DEF Good
<1>. QED BY <1>1, <1>2, <1>3

\* The record while the browser's close task runs: every socket is closed, but the
\* state and the waiters are not up to date.
AllClosed(c) ==
  /\ Typed(c)
  /\ \A s \in DOMAIN c.ws : ~IsLive(c, s) /\ c.ws[s].reopens <= 1

\* _closed, called with all sockets closed, leads to a good record.
LEMMA ClosedGood ==
  ASSUME NEW c, AllClosed(c), NEW opens \in BOOLEAN
  PROVE  /\ Good(Closed(c, opens))
         /\ \A s \in DOMAIN c.ws : /\ s \in DOMAIN Closed(c, opens).ws
                                   /\ Closed(c, opens).ws[s] = c.ws[s]
         /\ ~opens => Closed(c, opens).ws = c.ws
<1> DEFINE closed == SetState(c, "closed")
           settled == [closed EXCEPT !.closedManually = {}]
           opened == Open(settled, TRUE, TRUE)
<1>1. c \in Controllers /\ c.ws \in Seq(Sockets) BY DEF AllClosed, Typed, Controllers
<1>2. settled \in Controllers BY <1>1 DEF SetState, Controllers, States
<1>3. /\ settled.state = "closed" /\ settled.socket = c.socket /\ settled.ws = c.ws
      /\ settled.closedManually = {} /\ settled.waits = c.waits
  BY <1>1 DEF SetState, Controllers
<1> HIDE DEF settled
<1>4. Good(settled)
  BY <1>2, <1>3 DEF AllClosed, Good, Typed, Connection, IsLive
<1>5. CASE ~opens
  <2>1. Closed(c, opens) = settled BY <1>5 DEF Closed, settled
  <2>. QED BY <1>3, <1>4, <1>5, <2>1
<1>6. CASE opens
  <2>1. /\ Good(opened)
        /\ \A s \in DOMAIN settled.ws : s \in DOMAIN opened.ws /\ opened.ws[s] = settled.ws[s]
    BY <1>4, OpenGood
  <2>2. Closed(c, opens) = opened
    BY <1>1, <1>6 DEF Closed, Open, SetState, settled, Controllers
  <2>3. \A s \in DOMAIN c.ws : s \in DOMAIN opened.ws /\ opened.ws[s] = c.ws[s]
    BY <1>3, <2>1
  <2>. QED BY <1>6, <2>1, <2>2, <2>3
<1>. QED BY <1>5, <1>6

\* Starting a reopen timer for a closed socket that never had one.
LEMMA StartTimerEffect ==
  ASSUME NEW c \in Controllers, NEW s \in DOMAIN c.ws
  PROVE  LET d == StartTimer(c, s)
         IN  /\ d \in Controllers
             /\ d.state = c.state /\ d.socket = c.socket /\ d.waits = c.waits
             /\ d.closedManually = c.closedManually
             /\ Len(d.ws) = Len(c.ws) /\ DOMAIN d.ws = DOMAIN c.ws
             /\ d.ws[s].ready = c.ws[s].ready
             /\ d.ws[s].closedManually = c.ws[s].closedManually
             /\ d.ws[s].reopens = c.ws[s].reopens + 1
             /\ \A t \in DOMAIN c.ws : t # s => d.ws[t] = c.ws[t]
<1> DEFINE x == [c.ws[s] EXCEPT !.timers = c.ws[s].timers + 1,
                                !.reopens = c.ws[s].reopens + 1]
           d == [c EXCEPT !.ws = [c.ws EXCEPT ![s] = x]]
<1>1. c.ws \in Seq(Sockets) /\ c.ws[s] \in Sockets BY DEF Controllers
<1>2. c.ws[s].timers + 1 \in Nat /\ c.ws[s].reopens + 1 \in Nat BY <1>1 DEF Sockets
<1>3. /\ x \in Sockets /\ x.ready = c.ws[s].ready /\ x.reopens = c.ws[s].reopens + 1
      /\ x.closedManually = c.ws[s].closedManually
  BY <1>1, <1>2 DEF Sockets
<1> HIDE DEF x
<1>4. d \in Controllers BY <1>1, <1>3, SocketUpdate DEF Controllers
<1>5. /\ d.state = c.state /\ d.socket = c.socket /\ d.waits = c.waits
      /\ d.closedManually = c.closedManually /\ d.ws = [c.ws EXCEPT ![s] = x]
  BY DEF Controllers
<1> HIDE DEF d
<1>6. /\ Len(d.ws) = Len(c.ws) /\ DOMAIN d.ws = DOMAIN c.ws /\ d.ws[s] = x
      /\ \A t \in DOMAIN c.ws : t # s => d.ws[t] = c.ws[t]
  BY <1>1, <1>3, <1>5, SocketUpdate
<1>8. StartTimer(c, s) = d BY DEF StartTimer, d, x
<1>. QED BY <1>3, <1>4, <1>5, <1>6, <1>8

\* _reopen after _closed, for the socket that was lost.
LEMMA ReopenGood ==
  ASSUME NEW c, Good(c), NEW s \in DOMAIN c.ws, ~IsLive(c, s), c.ws[s].reopens = 0
  PROVE  Good(Reopen(c, s))
<1> DEFINE closed == Close(c)
           d == StartTimer(closed, s)
<1>1. Kept(c, closed) BY CloseKeeps
<1> HIDE DEF closed
<1>2. s \in DOMAIN closed.ws /\ ~IsLive(closed, s) /\ closed.ws[s].reopens = 0
  BY <1>1 DEF Kept, Keeps
<1>3. /\ d \in Controllers
      /\ d.state = closed.state /\ d.socket = closed.socket /\ d.waits = closed.waits
      /\ d.closedManually = closed.closedManually
      /\ Len(d.ws) = Len(closed.ws) /\ DOMAIN d.ws = DOMAIN closed.ws
      /\ d.ws[s].ready = closed.ws[s].ready
      /\ d.ws[s].reopens = 1
      /\ \A t \in DOMAIN closed.ws : t # s => d.ws[t] = closed.ws[t]
  BY <1>1, <1>2, StartTimerEffect DEF Kept, Good, Typed
<1>4. Reopen(c, s) = closed \/ Reopen(c, s) = d BY DEF Reopen, closed
<1> HIDE DEF d
<1>5. Typed(d) BY <1>1, <1>3 DEF Kept, Good, Typed
<1>6. Connection(d) BY <1>1, <1>2, <1>3 DEF Kept, Good, Connection, IsLive
<1>. QED BY <1>1, <1>4, <1>5, <1>6 DEF Kept, Good

\* close() called from onerror, where no socket is live, only marks _socket and drops it.
LEMMA CloseAllClosed ==
  ASSUME NEW c, AllClosed(c)
  PROVE  /\ AllClosed(Close(c))
         /\ DOMAIN Close(c).ws = DOMAIN c.ws
         /\ \A s \in DOMAIN c.ws : /\ Close(c).ws[s].reopens = c.ws[s].reopens
                                   /\ s = c.socket => Close(c).ws[s].closedManually = TRUE
<1> DEFINE s == c.socket
           y == [c.ws[s] EXCEPT !.closedManually = TRUE]
           b == [c EXCEPT !.ws = [c.ws EXCEPT ![s] = y], !.socket = 0]
<1>1. /\ c \in Controllers /\ s \in Nat /\ c.ws \in Seq(Sockets) /\ Len(c.ws) \in Nat
      /\ DOMAIN c.ws = 1..Len(c.ws) /\ s <= Len(c.ws)
  BY DEF AllClosed, Typed, Controllers
<1>2. CASE s = 0
  <2>1. Close(c) = c BY <1>2 DEF Close
  <2>2. \A t \in DOMAIN c.ws : t # s BY <1>1, <1>2
  <2>. QED BY <2>1, <2>2
<1>3. CASE s # 0
  <2>1. s \in DOMAIN c.ws /\ c.ws[s] \in Sockets BY <1>1, <1>3
  <2>2. /\ y \in Sockets /\ y.ready = c.ws[s].ready /\ y.closedManually = TRUE
        /\ y.reopens = c.ws[s].reopens
    BY <2>1 DEF Sockets
  <2>3. c.ws[s].ready = "CLOSED" BY <2>1 DEF AllClosed, IsLive
  <2>4. Close(c) = b BY <1>3, <2>3 DEF Close
  <2> HIDE DEF y
  <2>5. b \in Controllers BY <1>1, <2>1, <2>2, SocketUpdate DEF Controllers
  <2>6. b.socket = 0 /\ b.ws = [c.ws EXCEPT ![s] = y] /\ b.waits = c.waits
    BY <1>1 DEF Controllers
  <2> HIDE DEF b
  <2>7. /\ Len(b.ws) = Len(c.ws) /\ DOMAIN b.ws = DOMAIN c.ws /\ b.ws[s] = y
        /\ \A t \in DOMAIN c.ws : t # s => b.ws[t] = c.ws[t]
    BY <1>1, <2>1, <2>2, <2>6, SocketUpdate
  <2>8. AllClosed(b) BY <1>1, <2>2, <2>5, <2>6, <2>7 DEF AllClosed, Typed, IsLive
  <2>. QED BY <2>2, <2>4, <2>7, <2>8
<1>. QED BY <1>2, <1>3

\* onerror reopens only for a socket that is _socket, and so marks it: onclose, which
\* runs next, does not reopen again.
LEMMA OnErrorAllClosed ==
  ASSUME NEW c, AllClosed(c), NEW s \in DOMAIN c.ws,
         ~c.ws[s].closedManually => c.socket = s /\ c.ws[s].reopens = 0
  PROVE  /\ AllClosed(OnError(c, s))
         /\ s \in DOMAIN OnError(c, s).ws
         /\ OnError(c, s).ws[s].closedManually = TRUE
<1>1. CASE c.ws[s].closedManually
  <2>1. c.ws[s].closedManually = TRUE BY <1>1 DEF AllClosed, Typed, Controllers, Sockets
  <2>. QED BY <1>1, <2>1 DEF OnError
<1>2. CASE ~c.ws[s].closedManually
  <2> DEFINE closed == Close(c)
             d == StartTimer(closed, s)
  <2>0. c.socket = s /\ c.ws[s].reopens = 0 BY <1>2
  <2> HIDE DEF closed
  <2>1. /\ AllClosed(closed) /\ s \in DOMAIN closed.ws
        /\ closed.ws[s].closedManually = TRUE /\ closed.ws[s].reopens = 0
    <3>1. /\ AllClosed(closed) /\ DOMAIN closed.ws = DOMAIN c.ws
          /\ \A t \in DOMAIN c.ws :
               /\ closed.ws[t].reopens = c.ws[t].reopens
               /\ t = c.socket => closed.ws[t].closedManually = TRUE
      BY CloseAllClosed DEF closed
    <3>. QED BY <2>0, <3>1
  <2>2. OnError(c, s) = closed \/ OnError(c, s) = d
    BY <1>2 DEF OnError, Reopen, closed
  <2>3. /\ d \in Controllers
        /\ d.state = closed.state /\ d.socket = closed.socket /\ d.waits = closed.waits
        /\ Len(d.ws) = Len(closed.ws) /\ DOMAIN d.ws = DOMAIN closed.ws
        /\ d.ws[s].ready = closed.ws[s].ready
        /\ d.ws[s].closedManually = closed.ws[s].closedManually
        /\ d.ws[s].reopens = 1
        /\ \A t \in DOMAIN closed.ws : t # s => d.ws[t] = closed.ws[t]
    BY <2>1, StartTimerEffect DEF AllClosed, Typed
  <2> HIDE DEF d
  <2>4. AllClosed(d) BY <2>1, <2>3 DEF AllClosed, Typed, IsLive
  <2>. QED BY <2>1, <2>2, <2>3, <2>4
<1>. QED BY <1>1, <1>2

\* onclose of a lost socket, after onerror or alone, leads to a good record.
LEMMA OnCloseGood ==
  ASSUME NEW c, AllClosed(c), NEW s \in DOMAIN c.ws, NEW opens \in BOOLEAN,
         ~c.ws[s].closedManually => c.ws[s].reopens = 0
  PROVE  Good(OnClose(c, s, opens))
<1> DEFINE closed == Closed(c, opens)
<1>1. Good(closed) /\ s \in DOMAIN closed.ws /\ closed.ws[s] = c.ws[s]
  BY ClosedGood
<1>2. CASE ~c.ws[s].closedManually /\ c.state = "subscribed"
  <2>1. closed.ws[s].reopens = 0 /\ ~IsLive(closed, s)
    BY <1>1, <1>2 DEF AllClosed, IsLive
  <2>2. Good(Reopen(closed, s)) BY <1>1, <2>1, ReopenGood
  <2>. QED BY <1>2, <2>2 DEF OnClose
<1>3. CASE ~(~c.ws[s].closedManually /\ c.state = "subscribed")
  BY <1>1, <1>3 DEF OnClose
<1>. QED BY <1>2, <1>3
-------------------------------------------------------------------------------
\* After a final close() no timer runs, and a live socket can start none.
Final(by, c) ==
  by = "final" => \A s \in DOMAIN c.ws :
                    /\ c.ws[s].timers = 0
                    /\ IsLive(c, s) => c.ws[s].closedManually

\* The inductive invariant.
IInv ==
  /\ Good(ctl)
  /\ Final(closedByUser, ctl)
  /\ closedByUser \in {"no", "final", "withTimer"}
  /\ calls \in Nat

\* What every step keeps.
StepOK ==
  /\ IInv'
  /\ closedByUser = "final" /\ closedByUser' = "final" => Len(ctl'.ws) = Len(ctl.ws)

\* A handler that opens no socket and starts no timer.
LEMMA KeptStep ==
  ASSUME IInv, Kept(ctl, ctl'), closedByUser' = closedByUser, calls' \in Nat
  PROVE  StepOK
<1>1. Final(closedByUser, ctl)' BY DEF IInv, Final, Kept, Keeps
<1>. QED BY <1>1 DEF IInv, StepOK, Kept, Keeps

\* A new controller satisfies the inductive invariant.
LEMMA InitIInv == Init => IInv
<1> SUFFICES ASSUME Init PROVE IInv OBVIOUS
<1>1. ctl \in Controllers
  <2>1. <<>> \in Seq(Sockets) /\ <<>> \in Seq(Nat) OBVIOUS
  <2>2. EmptyBuffers \in [MessageRequirements -> Seq(Nat)] BY <2>1 DEF EmptyBuffers
  <2>. QED BY <2>1, <2>2 DEF Init, Controllers, States
<1>2. ctl.socket = 0 /\ ctl.ws = <<>> /\ ctl.waits = {} /\ ctl.closedManually = {}
  BY DEF Init
<1>3. Len(ctl.ws) = 0 /\ DOMAIN ctl.ws = {} BY <1>2
<1>4. Good(ctl) BY <1>1, <1>2, <1>3 DEF Good, Typed, Connection
<1>. QED BY <1>3, <1>4 DEF Init, IInv, Final

\* open() keeps the inductive invariant.
LEMMA UserOpenStep ==
  ASSUME IInv, NEW auto \in AutoReconnect, NEW constructs \in Constructs, UserOpen(auto, constructs)
  PROVE  StepOK
<1>0. AutoReconnect \subseteq BOOLEAN /\ Constructs \subseteq BOOLEAN BY ControllerAssumption
<1>1. auto \in BOOLEAN /\ constructs \in BOOLEAN BY <1>0, Zenon
<1>2. Good(ctl') BY <1>1, OpenGood DEF IInv, UserOpen
<1>. QED BY <1>2 DEF IInv, UserOpen, StepOK, Final

\* close() by the user keeps the inductive invariant.
LEMMA UserCloseStep ==
  ASSUME IInv, UserClose
  PROVE  StepOK
<1>1. /\ Kept(ctl, ctl')
      /\ \A s \in DOMAIN ctl.ws : IsLive(ctl', s) => ctl'.ws[s].closedManually
  BY CloseKeeps DEF IInv, UserClose
<1>2. Final(closedByUser, ctl)'
  BY <1>1 DEF UserClose, Final, Kept, Keeps
<1>. QED BY <1>1, <1>2 DEF IInv, UserClose, StepOK, Kept, Keeps

\* send() changes the buffers or the server's inbox only.
LEMMA SendKeeps ==
  ASSUME NEW c, Good(c), NEW id \in Nat, NEW call \in Calls
  PROVE  Kept(c, Send(c, id, call)) /\ Send(c, id, call).waits = c.waits
<1>1. Need(call) \in MessageRequirements BY DEF Need, MessageRequirements
<1>2. /\ Kept(c, SendDirect(c, {id}, Need(call)))
      /\ SendDirect(c, {id}, Need(call)).waits = c.waits
  BY <1>1, SendDirectKeeps
<1>3. Kept(c, c) BY OtherFields DEF Good, Typed
<1> DEFINE b == Add(c.buffers, Need(call), id, Size, Overflow)
           d == [c EXCEPT !.buffers = b]
<1>4. b \in [MessageRequirements -> Seq(Nat)]
  <2>1. c.buffers \in [MessageRequirements -> Seq(Nat)] BY DEF Good, Typed, Controllers
  <2>2. MakeRoom(c.buffers[Need(call)], Size, Overflow) \in Seq(Nat)
    BY <1>1, <2>1, MakeRoomType, ControllerAssumption
  <2>3. <<id>> \o MakeRoom(c.buffers[Need(call)], Size, Overflow) \in Seq(Nat)
    BY <2>2
  <2>. QED BY <2>1, <2>3 DEF Add
<1> HIDE DEF b
<1>5. d \in Controllers BY <1>4 DEF Good, Typed, Controllers
<1>6. /\ d.state = c.state /\ d.socket = c.socket /\ d.ws = c.ws
      /\ d.closedManually = c.closedManually /\ d.waits = c.waits
  BY DEF Good, Typed, Controllers
<1>7. Kept(c, d) BY <1>5, <1>6, OtherFields DEF Good, Typed
<1>. QED BY <1>2, <1>3, <1>6, <1>7 DEF Send, b

\* send() and request() keep the inductive invariant.
LEMMA UserCallStep ==
  ASSUME IInv, NEW call \in Calls, UserCall(call)
  PROVE  StepOK
<1>0. closedByUser' = closedByUser /\ calls' \in Nat BY DEF UserCall, IInv
<1>1. CASE call.op = "send"
  <2>1. ctl' = Send(ctl, 0, call) BY <1>1 DEF UserCall
  <2>2. Kept(ctl, ctl') BY <2>1, SendKeeps DEF IInv
  <2>. QED BY <2>2, <1>0, KeptStep
<1>2. CASE call.op # "send"
  <2> DEFINE id == ctl.reqCounter
             wait == [for |-> "user", ids |-> {id}, on |-> 0, ok |-> TRUE]
             b == [ctl EXCEPT !.reqCounter = ctl.reqCounter + 1]
             sent == Send(b, id, call)
             d == [sent EXCEPT !.waits = sent.waits \cup {wait}]
  <2>1. id \in Nat /\ id + 1 \in Nat BY DEF IInv, Good, Typed, Controllers
  <2>2. b \in Controllers BY <2>1 DEF IInv, Good, Typed, Controllers
  <2>3. /\ b.state = ctl.state /\ b.socket = ctl.socket /\ b.ws = ctl.ws
        /\ b.closedManually = ctl.closedManually /\ b.waits = ctl.waits
    BY DEF IInv, Good, Typed, Controllers
  <2>4. Kept(ctl, b) BY <2>2, <2>3, OtherFields DEF IInv, Good, Typed
  <2> HIDE DEF b
  <2>5. Kept(b, sent) /\ sent.waits = ctl.waits BY <2>1, <2>3, <2>4, SendKeeps DEF Kept
  <2> HIDE DEF sent
  <2>6. wait \in Waits BY <2>1 DEF Waits
  <2>7. d \in Controllers BY <2>5, <2>6 DEF Kept, Good, Typed, Controllers
  <2>8. /\ d.state = sent.state /\ d.socket = sent.socket /\ d.ws = sent.ws
        /\ d.closedManually = sent.closedManually /\ d.waits = sent.waits \cup {wait}
    BY <2>5 DEF Kept, Good, Typed, Controllers
  <2>9. Len(sent.ws) \in Nat BY <2>5 DEF Kept, Good, Typed, Controllers
  <2>13. \A w \in d.waits : w.on <= Len(sent.ws)
    BY <2>5, <2>8, <2>9 DEF Kept, Good, Typed
  <2> HIDE DEF d
  <2>10. Kept(sent, d)
    BY <2>5, <2>7, <2>8, <2>13, OtherFields DEF Kept
  <2>11. Kept(ctl, d) BY <2>4, <2>5, <2>10, KeepsTransitive DEF Kept
  <2>12. ctl' = d BY <1>2 DEF UserCall, d, sent, b
  <2>. QED BY <1>0, <2>11, <2>12, KeptStep
<1>. QED BY <1>1, <1>2

\* Changing how ready a live socket is, short of CLOSED, before the handlers run.
LEMMA ReadyKeeps ==
  ASSUME NEW c, Good(c), NEW s \in DOMAIN c.ws, c.ws[s].ready \in {"CONNECTING", "OPEN"},
         NEW ready \in {"OPEN", "CLOSING"}
  PROVE  Kept(c, [c EXCEPT !.ws = [c.ws EXCEPT ![s] = [c.ws[s] EXCEPT !.ready = ready]]])
<1> DEFINE x == [c.ws[s] EXCEPT !.ready = ready]
           d == [c EXCEPT !.ws = [c.ws EXCEPT ![s] = x]]
<1>1. c \in Controllers /\ c.ws \in Seq(Sockets) /\ c.ws[s] \in Sockets
  BY DEF Good, Typed, Controllers
<1>2. /\ x \in Sockets /\ x.ready = ready /\ x.timers = c.ws[s].timers
      /\ x.closedManually = c.ws[s].closedManually /\ x.reopens = c.ws[s].reopens
  BY <1>1 DEF Sockets
<1> HIDE DEF x
<1>3. d \in Controllers BY <1>1, <1>2, SocketUpdate DEF Controllers
<1>4. /\ d.state = c.state /\ d.socket = c.socket /\ d.waits = c.waits
      /\ d.closedManually = c.closedManually /\ d.ws = [c.ws EXCEPT ![s] = x]
  BY <1>1 DEF Controllers
<1> HIDE DEF d
<1>5. /\ Len(d.ws) = Len(c.ws) /\ DOMAIN d.ws = DOMAIN c.ws
      /\ d.ws[s] = x /\ \A t \in DOMAIN c.ws : t # s => d.ws[t] = c.ws[t]
  BY <1>1, <1>2, <1>4, SocketUpdate
<1>6. IsLive(c, s) /\ c.state # "closed" /\ s \notin c.closedManually
  BY DEF Good, Connection, IsLive
<1>7. Typed(d) BY <1>3, <1>4, <1>5 DEF Good, Typed
<1>8. Connection(d) BY <1>2, <1>4, <1>5, <1>6 DEF Good, Connection, IsLive
<1>9. Keeps(c, d) BY <1>2, <1>5, <1>6 DEF Keeps, IsLive
<1>. QED BY <1>7, <1>8, <1>9 DEF Kept, Good, d, x

\* onopen keeps the inductive invariant.
LEMMA BrowserOpensStep ==
  ASSUME IInv, NEW s \in DOMAIN ctl.ws, NEW makes \in MakesOf, BrowserOpens(s, makes)
  PROVE  StepOK
<1> DEFINE open == [ctl EXCEPT !.ws = [ctl.ws EXCEPT ![s] = [ctl.ws[s] EXCEPT !.ready = "OPEN"]]]
           shut == [open EXCEPT !.ws = [open.ws EXCEPT ![s] = [open.ws[s] EXCEPT !.ready = "CLOSING"]]]
<1>1. ctl.ws[s].ready = "CONNECTING" BY DEF BrowserOpens
<1>2. Kept(ctl, open) BY <1>1, ReadyKeeps DEF IInv
<1>3. s \in DOMAIN open.ws /\ open.ws[s].ready = "OPEN"
  BY DEF IInv, Good, Typed, Controllers, Sockets
<1>4. Kept(open, shut) BY <1>2, <1>3, ReadyKeeps DEF Kept
<1>5. Kept(open, Opened(open, makes)) BY <1>2, OpenedKeeps DEF Kept
<1>6. ctl' = shut \/ ctl' = Opened(open, makes) BY DEF BrowserOpens
<1>7. Kept(ctl, ctl')
  BY <1>2, <1>4, <1>5, <1>6, KeepsTransitive DEF Kept
<1>. QED BY <1>7, KeptStep DEF BrowserOpens, IInv

\* A close frame from the server keeps the inductive invariant.
LEMMA ServerStartsClosingStep ==
  ASSUME IInv, NEW s \in DOMAIN ctl.ws, ServerStartsClosing(s)
  PROVE  StepOK
<1>1. Kept(ctl, ctl') BY ReadyKeeps DEF IInv, ServerStartsClosing
<1>. QED BY <1>1, KeptStep DEF ServerStartsClosing, IInv

\* The end of a connection, onerror and onclose, keeps the inductive invariant.
LEMMA BrowserClosesStep ==
  ASSUME IInv, NEW s \in DOMAIN ctl.ws, NEW failed \in BOOLEAN,
         NEW opens \in BOOLEAN, BrowserCloses(s, failed, opens)
  PROVE  StepOK
<1> DEFINE x == [ctl.ws[s] EXCEPT !.ready = "CLOSED"]
           gone == [ctl EXCEPT !.ws = [ctl.ws EXCEPT ![s] = x],
                               !.asked = {r \in ctl.asked : r.on # s}]
           told == IF failed THEN OnError(gone, s) ELSE gone
<1>1. /\ ctl \in Controllers /\ ctl.ws \in Seq(Sockets) /\ ctl.ws[s] \in Sockets
      /\ IsLive(ctl, s)
  BY DEF IInv, Good, Typed, Controllers, BrowserCloses, IsLive
<1>2. /\ x \in Sockets /\ x.ready = "CLOSED" /\ x.timers = ctl.ws[s].timers
      /\ x.closedManually = ctl.ws[s].closedManually /\ x.reopens = ctl.ws[s].reopens
  BY <1>1 DEF Sockets
<1>3. ctl' = OnClose(told, s, opens) BY DEF BrowserCloses
<1> HIDE DEF x
<1>4. gone \in Controllers BY <1>1, <1>2, SocketUpdate DEF Controllers
<1>5. /\ gone.state = ctl.state /\ gone.socket = ctl.socket /\ gone.waits = ctl.waits
      /\ gone.ws = [ctl.ws EXCEPT ![s] = x]
  BY <1>1 DEF Controllers
<1> HIDE DEF gone
<1>6. /\ Len(gone.ws) = Len(ctl.ws) /\ DOMAIN gone.ws = DOMAIN ctl.ws
      /\ gone.ws[s] = x /\ \A t \in DOMAIN ctl.ws : t # s => gone.ws[t] = ctl.ws[t]
  BY <1>1, <1>2, <1>5, SocketUpdate
<1>7. \A t \in DOMAIN ctl.ws : t # s => ~IsLive(ctl, t)
  BY <1>1 DEF IInv, Good, Connection
<1>8. AllClosed(gone)
  BY <1>2, <1>4, <1>5, <1>6, <1>7 DEF AllClosed, IInv, Good, Typed, Connection, IsLive
<1>9. ~gone.ws[s].closedManually => gone.socket = s /\ gone.ws[s].reopens = 0
  BY <1>1, <1>2, <1>5, <1>6 DEF IInv, Good, Connection
<1>10. /\ AllClosed(told) /\ s \in DOMAIN told.ws
       /\ ~told.ws[s].closedManually => told.ws[s].reopens = 0
  <2>1. CASE failed
    BY <1>6, <1>8, <1>9, <2>1, OnErrorAllClosed
  <2>2. CASE ~failed BY <1>6, <1>8, <1>9, <2>2
  <2>. QED BY <2>1, <2>2
<1>11. Good(ctl') BY <1>3, <1>10, OnCloseGood
<1>12. ASSUME closedByUser' = "final"
       PROVE  Final(closedByUser, ctl)' /\ Len(ctl'.ws) = Len(ctl.ws)
  <2>1. ~opens /\ closedByUser = "final" BY <1>12 DEF BrowserCloses
  <2>2. gone.ws[s].closedManually BY <1>1, <1>2, <1>6, <2>1 DEF IInv, Final
  <2>3. told = gone BY <2>2 DEF OnError
  <2>4. ctl' = Closed(gone, opens) BY <1>3, <2>2, <2>3 DEF OnClose
  <2>5. ctl'.ws = gone.ws BY <1>8, <2>1, <2>4, ClosedGood
  <2>6. \A t \in DOMAIN gone.ws : ~IsLive(gone, t) /\ gone.ws[t].timers = 0
    BY <1>2, <1>6, <1>8, <2>1 DEF AllClosed, IInv, Final
  <2>. QED BY <1>6, <2>5, <2>6 DEF Final, IsLive
<1>13. closedByUser' \in {"no", "final", "withTimer"} /\ calls' \in Nat
  BY DEF BrowserCloses, IInv
<1>. QED BY <1>11, <1>12, <1>13 DEF StepOK, IInv, Final

\* Taking one subscription to messages$ away, and recording that a subject errored,
\* changes nothing the invariant is about.
LEMMA WaitDone ==
  ASSUME NEW c, Good(c), NEW d \in Controllers,
         d.state = c.state, d.socket = c.socket, d.ws = c.ws,
         d.closedManually = c.closedManually, d.waits \subseteq c.waits
  PROVE  Kept(c, d)
BY OtherFields DEF Good, Typed

\* The subscriber of the subscription answers keeps the invariant.
LEMMA SubAnsweredKeeps ==
  ASSUME NEW c, Good(c), NEW wait \in c.waits, NEW id, NEW outcome
  PROVE  Kept(c, SubAnswered(c, wait, id, outcome))
<1> DEFINE rest == [wait EXCEPT !.ids = wait.ids \ {id}, !.ok = wait.ok /\ outcome = "ok"]
           without == [c EXCEPT !.waits = c.waits \ {wait}]
           errored == [without EXCEPT !.subscribedErrored = TRUE]
           again == [without EXCEPT !.waits = without.waits \cup {rest}]
<1>1. c \in Controllers /\ wait \in Waits /\ wait.on <= Len(c.ws)
  BY DEF Good, Typed, Controllers
<1>2. rest \in Waits /\ rest.on = wait.on BY <1>1 DEF Waits
<1> HIDE DEF rest
<1>3. /\ without \in Controllers /\ errored \in Controllers /\ again \in Controllers
  BY <1>1, <1>2 DEF Controllers
<1>4. /\ without.state = c.state /\ without.socket = c.socket /\ without.ws = c.ws
      /\ without.closedManually = c.closedManually /\ without.waits = c.waits \ {wait}
      /\ errored.state = c.state /\ errored.socket = c.socket /\ errored.ws = c.ws
      /\ errored.closedManually = c.closedManually /\ errored.waits = c.waits \ {wait}
      /\ again.state = c.state /\ again.socket = c.socket /\ again.ws = c.ws
      /\ again.closedManually = c.closedManually
      /\ again.waits = (c.waits \ {wait}) \cup {rest}
  BY <1>1 DEF Controllers
<1> HIDE DEF without, errored, again
<1>5. Kept(c, without) /\ Kept(c, errored) BY <1>3, <1>4, WaitDone
<1>6. Kept(c, again)
  <2>1. \A w \in again.waits : w.on <= Len(c.ws) BY <1>1, <1>2, <1>4 DEF Good, Typed
  <2>. QED BY <1>3, <1>4, <2>1, OtherFields
<1>7. Kept(c, Close(errored)) BY <1>5, CloseKeeps, KeepsTransitive DEF Kept
<1>8. wait.on \in Nat /\ wait.on <= Len(without.ws) BY <1>1, <1>4 DEF Waits
<1>9. Kept(c, Subscribed(without, wait.on))
  BY <1>5, <1>8, SubscribedKeeps, KeepsTransitive DEF Kept
<1>. QED BY <1>5, <1>6, <1>7, <1>9 DEF SubAnswered, rest, without, errored, again

\* The subscriber of the authorization answer keeps the invariant.
LEMMA AuthAnsweredKeeps ==
  ASSUME NEW c, Good(c), NEW wait \in c.waits, NEW outcome, NEW makes
  PROVE  Kept(c, AuthAnswered(c, wait, outcome, makes))
<1> DEFINE without == [c EXCEPT !.waits = c.waits \ {wait}]
           errored == [without EXCEPT !.authorizedErrored = TRUE]
<1>1. c \in Controllers /\ wait \in Waits /\ wait.on <= Len(c.ws)
  BY DEF Good, Typed, Controllers
<1>2. without \in Controllers /\ errored \in Controllers BY <1>1 DEF Controllers
<1>3. /\ without.state = c.state /\ without.socket = c.socket /\ without.ws = c.ws
      /\ without.closedManually = c.closedManually /\ without.waits = c.waits \ {wait}
      /\ errored.state = c.state /\ errored.socket = c.socket /\ errored.ws = c.ws
      /\ errored.closedManually = c.closedManually /\ errored.waits = c.waits \ {wait}
  BY <1>1 DEF Controllers
<1> HIDE DEF without, errored
<1>4. Kept(c, without) /\ Kept(c, errored) BY <1>2, <1>3, WaitDone
<1>5. Kept(c, Close(errored)) BY <1>4, CloseKeeps, KeepsTransitive DEF Kept
<1>6. wait.on \in Nat /\ wait.on <= Len(without.ws) BY <1>1, <1>3 DEF Waits
<1>7. Kept(c, Authorized(without, wait.on, makes))
  BY <1>4, <1>6, AuthorizedKeeps, KeepsTransitive DEF Kept
<1>. QED BY <1>5, <1>7 DEF AuthAnswered, without, errored

\* onmessage keeps the inductive invariant.
LEMMA ServerAnswersStep ==
  ASSUME IInv, NEW r \in ctl.asked, NEW outcome, NEW makes, ServerAnswers(r, outcome, makes)
  PROVE  StepOK
<1> DEFINE c == [ctl EXCEPT !.asked = ctl.asked \ {r}]
           without(w) == [c EXCEPT !.waits = c.waits \ {w}]
<1>1. c \in Controllers BY DEF IInv, Good, Typed, Controllers
<1>2. /\ c.state = ctl.state /\ c.socket = ctl.socket /\ c.ws = ctl.ws
      /\ c.closedManually = ctl.closedManually /\ c.waits = ctl.waits
  BY DEF IInv, Good, Typed, Controllers
<1>3. \/ ctl' = c
      \/ \E w \in c.waits :
           ctl' = CASE w.for = "user" -> without(w)
                    [] w.for = "authorize" -> AuthAnswered(c, w, outcome, makes)
                    [] w.for = "subscribe" -> SubAnswered(c, w, r.id, outcome)
  BY DEF ServerAnswers
<1> HIDE DEF c
<1>4. Kept(ctl, c) BY <1>1, <1>2, WaitDone DEF IInv
<1>5. ASSUME NEW w \in c.waits,
             ctl' = CASE w.for = "user" -> without(w)
                      [] w.for = "authorize" -> AuthAnswered(c, w, outcome, makes)
                      [] w.for = "subscribe" -> SubAnswered(c, w, r.id, outcome)
      PROVE  Kept(c, ctl')
  <2>1. w.for \in {"user", "authorize", "subscribe"} BY <1>1 DEF Controllers, Waits
  <2>2. Kept(c, AuthAnswered(c, w, outcome, makes)) BY <1>4, AuthAnsweredKeeps DEF Kept
  <2>3. Kept(c, SubAnswered(c, w, r.id, outcome)) BY <1>4, SubAnsweredKeeps DEF Kept
  <2>4. Kept(c, without(w))
    <3>1. without(w) \in Controllers BY <1>1 DEF Controllers
    <3>2. /\ without(w).state = c.state /\ without(w).socket = c.socket
          /\ without(w).ws = c.ws /\ without(w).closedManually = c.closedManually
          /\ without(w).waits \subseteq c.waits
      BY <1>1 DEF Controllers
    <3>. QED BY <1>4, <3>1, <3>2, WaitDone DEF Kept
  <2>. QED BY <1>5, <2>1, <2>2, <2>3, <2>4
<1>6. ASSUME \E w \in c.waits :
               ctl' = CASE w.for = "user" -> without(w)
                        [] w.for = "authorize" -> AuthAnswered(c, w, outcome, makes)
                        [] w.for = "subscribe" -> SubAnswered(c, w, r.id, outcome)
      PROVE  Kept(c, ctl')
  BY <1>5, <1>6
<1>7. Kept(ctl, ctl')
  <2>1. CASE ctl' = c BY <1>4, <2>1
  <2>2. CASE ctl' # c
    <3>1. Kept(c, ctl') BY <1>3, <1>6, <2>2
    <3>. QED BY <1>4, <3>1, KeepsTransitive DEF Kept
  <2>. QED BY <2>1, <2>2
<1>. QED BY <1>7, KeptStep DEF ServerAnswers, IInv

\* A request that times out keeps the inductive invariant.
LEMMA TimesOutStep ==
  ASSUME IInv, NEW w \in ctl.waits, TimesOut(w)
  PROVE  StepOK
<1> DEFINE c == [ctl EXCEPT !.waits = ctl.waits \ {w}]
           a == [c EXCEPT !.authorizedErrored = TRUE]
           b == [c EXCEPT !.subscribedErrored = TRUE]
<1>1. c \in Controllers /\ a \in Controllers /\ b \in Controllers
  BY DEF IInv, Good, Typed, Controllers
<1>2. /\ c.state = ctl.state /\ c.socket = ctl.socket /\ c.ws = ctl.ws
      /\ c.closedManually = ctl.closedManually /\ c.waits \subseteq ctl.waits
      /\ a.state = ctl.state /\ a.socket = ctl.socket /\ a.ws = ctl.ws
      /\ a.closedManually = ctl.closedManually /\ a.waits \subseteq ctl.waits
      /\ b.state = ctl.state /\ b.socket = ctl.socket /\ b.ws = ctl.ws
      /\ b.closedManually = ctl.closedManually /\ b.waits \subseteq ctl.waits
  BY DEF IInv, Good, Typed, Controllers
<1>3. w.for \in {"user", "authorize", "subscribe"}
  BY DEF IInv, Good, Typed, Controllers, Waits
<1>4. ctl' = c \/ ctl' = Close(a) \/ ctl' = Close(b) BY <1>3 DEF TimesOut
<1> HIDE DEF a, b, c
<1>5. Kept(ctl, c) /\ Kept(ctl, a) /\ Kept(ctl, b) BY <1>1, <1>2, WaitDone DEF IInv
<1>6. Kept(ctl, Close(a)) /\ Kept(ctl, Close(b))
  BY <1>5, CloseKeeps, KeepsTransitive DEF Kept
<1>7. Kept(ctl, ctl') BY <1>4, <1>5, <1>6
<1>. QED BY <1>7, KeptStep DEF TimesOut, IInv

\* A late emission of createRequest() or createRequests() keeps the inductive invariant.
LEMMA MessageMadeStep ==
  ASSUME IInv, NEW made, NEW makes, AuthMessageMade(made, makes) \/ SubMessagesMade(made)
  PROVE  StepOK
<1> DEFINE a == [ctl EXCEPT !.makingAuth = ctl.makingAuth - 1]
           b == [ctl EXCEPT !.makingSub = ctl.makingSub - 1]
<1>1. CASE AuthMessageMade(made, makes)
  <2>1. ctl.makingAuth - 1 \in Nat
    BY <1>1 DEF AuthMessageMade, IInv, Good, Typed, Controllers
  <2>2. a \in Controllers BY <2>1 DEF IInv, Good, Typed, Controllers
  <2>3. /\ a.state = ctl.state /\ a.socket = ctl.socket /\ a.ws = ctl.ws
        /\ a.closedManually = ctl.closedManually /\ a.waits = ctl.waits
    BY DEF IInv, Good, Typed, Controllers
  <2>4. ctl' = AuthMessage(a, made, makes) BY <1>1 DEF AuthMessageMade
  <2> HIDE DEF a
  <2>5. Kept(ctl, a) BY <2>2, <2>3, WaitDone DEF IInv
  <2>6. Kept(a, ctl') BY <2>4, <2>5, AuthMessageKeeps DEF Kept
  <2>7. Kept(ctl, ctl') BY <2>5, <2>6, KeepsTransitive DEF Kept
  <2>. QED BY <1>1, <2>7, KeptStep DEF AuthMessageMade, IInv
<1>2. CASE SubMessagesMade(made)
  <2>1. ctl.makingSub - 1 \in Nat
    BY <1>2 DEF SubMessagesMade, IInv, Good, Typed, Controllers
  <2>2. b \in Controllers BY <2>1 DEF IInv, Good, Typed, Controllers
  <2>3. /\ b.state = ctl.state /\ b.socket = ctl.socket /\ b.ws = ctl.ws
        /\ b.closedManually = ctl.closedManually /\ b.waits = ctl.waits
    BY DEF IInv, Good, Typed, Controllers
  <2>4. ctl' = SubMessages(b, made) BY <1>2 DEF SubMessagesMade
  <2> HIDE DEF b
  <2>5. Kept(ctl, b) BY <2>2, <2>3, WaitDone DEF IInv
  <2>6. Kept(b, ctl') BY <2>4, <2>5, SubMessagesKeeps DEF Kept
  <2>7. Kept(ctl, ctl') BY <2>5, <2>6, KeepsTransitive DEF Kept
  <2>. QED BY <1>2, <2>7, KeptStep DEF SubMessagesMade, IInv
<1>. QED BY <1>1, <1>2

\* The callback of a reopen timer keeps the inductive invariant.
LEMMA ReopenTimerFiresStep ==
  ASSUME IInv, NEW s \in DOMAIN ctl.ws, NEW should, NEW constructs \in BOOLEAN,
         ReopenTimerFires(s, should, constructs)
  PROVE  StepOK
<1> DEFINE x == [ctl.ws[s] EXCEPT !.timers = ctl.ws[s].timers - 1]
           c == [ctl EXCEPT !.ws = [ctl.ws EXCEPT ![s] = x]]
<1>1. ctl \in Controllers /\ ctl.ws \in Seq(Sockets) /\ ctl.ws[s] \in Sockets
  BY DEF IInv, Good, Typed, Controllers
<1>2. ctl.ws[s].timers > 0 BY DEF ReopenTimerFires
<1>3. ctl.ws[s].timers - 1 \in Nat BY <1>1, <1>2 DEF Sockets
<1>4. /\ x \in Sockets /\ x.ready = ctl.ws[s].ready /\ x.auto = ctl.ws[s].auto
      /\ x.closedManually = ctl.ws[s].closedManually /\ x.reopens = ctl.ws[s].reopens
  BY <1>1, <1>3 DEF Sockets
<1>5. ctl' = c \/ ctl' = Open(c, c.ws[s].auto, constructs) BY DEF ReopenTimerFires
<1> HIDE DEF x
<1>6. c \in Controllers BY <1>1, <1>4, SocketUpdate DEF Controllers
<1>7. /\ c.state = ctl.state /\ c.socket = ctl.socket /\ c.waits = ctl.waits
      /\ c.closedManually = ctl.closedManually /\ c.ws = [ctl.ws EXCEPT ![s] = x]
  BY <1>1 DEF Controllers
<1> HIDE DEF c
<1>8. /\ Len(c.ws) = Len(ctl.ws) /\ DOMAIN c.ws = DOMAIN ctl.ws
      /\ c.ws[s] = x /\ \A t \in DOMAIN ctl.ws : t # s => c.ws[t] = ctl.ws[t]
  BY <1>1, <1>4, <1>7, SocketUpdate
<1>9. Good(c)
  <2>1. Typed(c) BY <1>6, <1>7, <1>8 DEF IInv, Good, Typed
  <2>2. Connection(c) BY <1>4, <1>7, <1>8 DEF IInv, Good, Connection, IsLive
  <2>. QED BY <2>1, <2>2 DEF Good
<1>10. c.ws[s].auto \in BOOLEAN BY <1>1, <1>4, <1>8 DEF Sockets
<1>11. Good(ctl') BY <1>5, <1>9, <1>10, OpenGood
<1>12. closedByUser # "final" BY <1>2 DEF IInv, Final
<1>13. closedByUser' = closedByUser /\ calls' = calls BY DEF ReopenTimerFires
<1>. QED BY <1>11, <1>12, <1>13 DEF StepOK, IInv, Final

\* Every step keeps the inductive invariant, and does what a step may do.
LEMMA StepIInv == IInv /\ [Next]_vars => StepOK
<1> SUFFICES ASSUME IInv, [Next]_vars PROVE StepOK OBVIOUS
<1>0. Constructs \subseteq BOOLEAN /\ OpensOnClosed \subseteq BOOLEAN
  BY ControllerAssumption
<1>1. CASE \E auto \in AutoReconnect, constructs \in Constructs : UserOpen(auto, constructs)
  BY <1>1, UserOpenStep
<1>2. CASE UserClose BY <1>2, UserCloseStep
<1>3. CASE \E call \in Calls : UserCall(call) BY <1>3, UserCallStep
<1>4. CASE \E s \in DOMAIN ctl.ws, makes \in MakesOf : BrowserOpens(s, makes)
  BY <1>4, BrowserOpensStep
<1>5. CASE \E s \in DOMAIN ctl.ws : ServerStartsClosing(s)
  BY <1>5, ServerStartsClosingStep
<1>6. CASE \E s \in DOMAIN ctl.ws, failed \in BOOLEAN, opens \in OpensOnClosed :
             BrowserCloses(s, failed, opens)
  <2>1. PICK s \in DOMAIN ctl.ws, failed \in BOOLEAN, opens \in OpensOnClosed :
          BrowserCloses(s, failed, opens)
    BY <1>6
  <2>2. opens \in BOOLEAN BY <1>0, Zenon
  <2>. QED BY <2>1, <2>2, BrowserClosesStep
<1>7. CASE \E r \in ctl.asked, outcome \in Outcomes, makes \in MakesOf :
             ServerAnswers(r, outcome, makes)
  BY <1>7, ServerAnswersStep
<1>8. CASE \E w \in ctl.waits : TimesOut(w) BY <1>8, TimesOutStep
<1>9. CASE \E made \in AuthMakes, makes \in MakesOf : AuthMessageMade(made, makes)
  BY <1>9, MessageMadeStep
<1>10. CASE \E made \in SubMakes : SubMessagesMade(made)
  BY <1>10, MessageMadeStep
<1>11. CASE \E s \in DOMAIN ctl.ws, should \in Should, constructs \in Constructs :
              ReopenTimerFires(s, should, constructs)
  <2>1. PICK s \in DOMAIN ctl.ws, should \in Should, constructs \in Constructs :
          ReopenTimerFires(s, should, constructs)
    BY <1>11
  <2>2. constructs \in BOOLEAN BY <1>0, Zenon
  <2>. QED BY <2>1, <2>2, ReopenTimerFiresStep
<1>12. CASE UNCHANGED vars
  <2>1. Kept(ctl, ctl) BY OtherFields DEF IInv, Good, Typed
  <2>. QED BY <1>12, <2>1 DEF vars, StepOK, IInv, Kept, Final
<1>. QED BY <1>1, <1>2, <1>3, <1>4, <1>5, <1>6, <1>7, <1>8, <1>9, <1>10, <1>11, <1>12
  DEF Next

\* The inductive invariant holds in every state of every behaviour.
THEOREM Invariance == Spec => []IInv
<1>1. IInv /\ [Next]_vars => IInv' BY StepIInv DEF StepOK
<1>. QED BY InitIInv, <1>1, PTL DEF Spec

\* Every variable keeps its type, whatever the configuration and the bounds.
THEOREM TypeCorrect == Spec => []TypeOK
<1>1. IInv => TypeOK BY DEF IInv, Good, Typed, TypeOK
<1>. QED BY <1>1, Invariance, PTL

\* Of all the sockets open() ever made only the last one can be other than CLOSED.
THEOREM OneLiveSocketAlways == Spec => []OneLiveSocket
<1>1. IInv => OneLiveSocket
  BY DEF IInv, Good, Connection, IsLive, OneLiveSocket, Live
<1>. QED BY <1>1, Invariance, PTL

\* In the state closed no socket is live and no caller of close() is left waiting.
THEOREM ClosedMeansClosedAlways == Spec => []ClosedMeansClosed
<1>1. IInv => ClosedMeansClosed
  BY DEF IInv, Good, Connection, IsLive, ClosedMeansClosed, Live
<1>. QED BY <1>1, Invariance, PTL

\* Whoever waits for close() waits for a socket the browser is about to close.
THEOREM WaitersHaveASocketAlways == Spec => []WaitersHaveASocket
<1>1. IInv => WaitersHaveASocket BY DEF IInv, Good, Connection, WaitersHaveASocket
<1>. QED BY <1>1, Invariance, PTL

\* No socket's loss starts two reopen timers.
THEOREM OneReopenPerSocketAlways == Spec => []OneReopenPerSocket
<1>1. IInv => OneReopenPerSocket BY DEF IInv, Good, Connection, OneReopenPerSocket
<1>. QED BY <1>1, Invariance, PTL

\* A close() made while no reopen timer runs is final until the next open().
THEOREM CloseWithoutTimerIsFinalAlways == Spec => CloseWithoutTimerIsFinal
<1> DEFINE Step == closedByUser = "final" /\ closedByUser' = "final"
                     => /\ Len(ctl'.ws) = Len(ctl.ws)
                        /\ \A s \in DOMAIN ctl.ws : ctl'.ws[s].timers = 0
<1>1. IInv /\ [Next]_vars => Step
  <2> SUFFICES ASSUME IInv, [Next]_vars, closedByUser = "final", closedByUser' = "final"
               PROVE  /\ Len(ctl'.ws) = Len(ctl.ws)
                      /\ \A s \in DOMAIN ctl.ws : ctl'.ws[s].timers = 0
    OBVIOUS
  <2>1. StepOK BY StepIInv
  <2>2. Len(ctl'.ws) = Len(ctl.ws) BY <2>1 DEF StepOK
  <2>3. DOMAIN ctl.ws = 1..Len(ctl.ws) /\ DOMAIN ctl'.ws = 1..Len(ctl'.ws)
    BY <2>1 DEF StepOK, IInv, Good, Typed, Controllers
  <2>. QED BY <2>1, <2>2, <2>3 DEF StepOK, IInv, Final
<1>. QED BY <1>1, Invariance, PTL DEF Spec, CloseWithoutTimerIsFinal
===============================================================================
