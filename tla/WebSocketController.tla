------------------------- MODULE WebSocketController -------------------------
(***************************************************************************)
(* The class WebSocketController of packages/rxjs-websocket, with the      *)
(* browser's WebSocket objects and the server it talks to.                 *)
(*                                                                         *)
(* JavaScript runs each event handler to its end, so one action is one     *)
(* task of the event loop.  A handler calls methods which call methods     *)
(* (onopen -> _opened -> _authorize -> _authorized -> _subscribe -> ...),  *)
(* hence the state is one record, ctl, and each method is an operator from *)
(* the record before its call to the record after it; an action applies    *)
(* the operator of its handler.                                            *)
(*                                                                         *)
(* Sockets are numbered in the order in which open() makes them.  A message*)
(* is its request id, 0 for a message sent without one.                    *)
(***************************************************************************)
EXTENDS Integers, Sequences, MessageBuffer

CONSTANTS
  AuthMode,     \* config.authorize: "none" (absent), "send" (no isResponseSuccessful), "request"
  SubMode,      \* config.subscribe: "none" (absent), "plain" (no isResponseSuccessful), "request"
  SubCount,     \* how many requests createRequests() makes
  AuthMakes,    \* what authorize.createRequest() may do, see Makes
  SubMakes,     \* what subscribe.createRequests() may do
  Outcomes,     \* what the server's answers may be: "ok", "unsuccessful", "error"
  AutoReconnect, \* values of options.autoReconnect given to open(): set or not
  Constructs,   \* whether new WebSocketCtor(url) may succeed, may throw
  Should,       \* what shouldReconnect() may return
  OpensOnClosed,\* whether a subscriber of closed$ may call open() in its handler
  Calls,        \* the user's calls: send or request, and its WebSocketSendOptions
  Size, Overflow,  \* config.buffer
  MaxSockets,   \* bound: sockets made
  MaxCalls      \* bound: send() and request() calls of the user

\* An observable given by the configuration emits a message or undefined while it is
\* subscribed to, emits later, or errors (or completes) without a value.
Makes == {"message", "undefined", "later", "fails"}

ASSUME ControllerAssumption ==
  /\ AuthMode \in {"none", "send", "request"}
  /\ SubMode \in {"none", "plain", "request"}
  /\ AuthMakes \subseteq Makes /\ SubMakes \subseteq Makes
  /\ Outcomes \subseteq {"ok", "unsuccessful", "error"}
  /\ AutoReconnect \subseteq BOOLEAN /\ Should \subseteq BOOLEAN
  /\ Constructs \subseteq BOOLEAN /\ OpensOnClosed \subseteq BOOLEAN
  /\ Calls \subseteq [op: {"send", "request"}, withoutAuth: BOOLEAN,
                       withoutSubscription: BOOLEAN, noBuffer: BOOLEAN]
  /\ Overflow \in OverflowStrategies
  /\ SubCount \in Nat /\ Size \in Nat /\ MaxSockets \in Nat /\ MaxCalls \in Nat

VARIABLES
  ctl,          \* the controller, its sockets, its pending callbacks, the server's inbox
  closedByUser, \* history: "no"; "final", "withTimer": close() since the last open()
  calls         \* how many send() and request() calls were made

vars == <<ctl, closedByUser, calls>>

States == {"pending", "opened", "authorized", "subscribed", "closing", "closed"}

\* WrappedSocket, the options captured by its handlers, and three marks for the
\* properties: whether this connection was authorized and subscribed, and how many
\* reopen timers its loss has started.
Sockets == [ready: {"CONNECTING", "OPEN", "CLOSING", "CLOSED"}, closedManually: BOOLEAN,
            auto: BOOLEAN, timers: Nat, authorized: BOOLEAN, subscribed: BOOLEAN,
            reopens: Nat]

\* A subscription to messages$ made by _pipeForResponse, waiting for the ids.  A user's
\* request waits for one, forkJoin for several; on is the socket the requests went to.
Waits == [for: {"user", "authorize", "subscribe"}, ids: SUBSET Nat, on: Nat, ok: BOOLEAN]

\* A request the server received on a connection and has not answered.
Asked == [id: Nat, need: MessageRequirements \cup {"authorize", "subscribe"}, on: Nat]

Controllers ==
  [state: States, socket: Nat, ws: Seq(Sockets), buffers: [MessageRequirements -> Seq(Nat)],
   closedManually: SUBSET Nat, authorizedErrored: BOOLEAN, subscribedErrored: BOOLEAN,
   reqCounter: Nat, waits: SUBSET Waits, asked: SUBSET Asked,
   makingAuth: Nat, makingSub: Nat]

Init ==
  /\ ctl = [state |-> "closed", socket |-> 0, ws |-> <<>>, buffers |-> EmptyBuffers,
            closedManually |-> {}, authorizedErrored |-> FALSE, subscribedErrored |-> FALSE,
            reqCounter |-> 1, waits |-> {}, asked |-> {}, makingAuth |-> 0, makingSub |-> 0]
  /\ closedByUser = "no"
  /\ calls = 0
------------------------------------------------------------------------------
SetState(c, state) == [c EXCEPT !.state = state]

\* The socket a write reaches: _socket, when it is open; 0 when the write is lost
\* (no _socket, or send() throws while CONNECTING, or is ignored later).
Writable(c) == IF c.socket # 0 /\ c.ws[c.socket].ready = "OPEN" THEN c.socket ELSE 0

\* _sendDirect for all the messages of ids; the server remembers those with an id.
SendDirect(c, ids, need) ==
  IF Writable(c) = 0 THEN c
  ELSE [c EXCEPT !.asked = @ \cup [id: ids \ {0}, need: {need}, on: {Writable(c)}]]

SendBuffered(c, need) ==
  LET ids == {c.buffers[need][i] : i \in DOMAIN c.buffers[need]}
  IN  SendDirect([c EXCEPT !.buffers = Remove(@, need)], ids, need)

\* Mutant of Close: the readyState is not looked at.
CloseWhateverReady(c) ==
  IF c.socket = 0 THEN c
  ELSE [c EXCEPT !.state = "closing",
                 !.ws[c.socket] = [@ EXCEPT !.closedManually = TRUE,
                                            !.ready = IF @ = "CLOSED" THEN @ ELSE "CLOSING"],
                 !.closedManually = @ \cup {c.socket}]

\* close(): a socket that is neither connecting nor open is let go at once.
Close(c) ==
  LET s == c.socket
      live == s # 0 /\ c.ws[s].ready \in {"CONNECTING", "OPEN"}
  IN  IF live
      THEN [c EXCEPT !.state = "closing",
                     !.ws[s] = [@ EXCEPT !.closedManually = TRUE, !.ready = "CLOSING"],
                     !.closedManually = @ \cup {s}]
      ELSE IF s # 0
      THEN [c EXCEPT !.ws[s] = [@ EXCEPT !.closedManually = TRUE], !.socket = 0]
      ELSE c

\* _requestDirect for n messages and the subscription to their answers.
RequestDirect(c, n, need) ==
  LET ids == c.reqCounter .. (c.reqCounter + n - 1)
      sent == SendDirect([c EXCEPT !.reqCounter = @ + n], ids, need)
      wait == [for |-> need, ids |-> ids, on |-> Writable(c), ok |-> TRUE]
  IN  IF n = 0 THEN c ELSE [sent EXCEPT !.waits = @ \cup {wait}]

Subscribed(c, on) ==
  LET marked == IF on = 0 THEN c ELSE [c EXCEPT !.ws[on] = [@ EXCEPT !.subscribed = TRUE]]
  IN  SendBuffered(SetState(marked, "subscribed"), "sub")

\* The subscriber of createRequests().
SubMessages(c, made) ==
  CASE made = "message" /\ SubMode = "request" -> RequestDirect(c, SubCount, "subscribe")
    [] made = "message" /\ SubMode # "request" -> Subscribed(c, Writable(c))
    [] made = "undefined" -> Close(c)
    [] OTHER -> c

Subscribe(c, makes) ==
  IF SubMode = "none" THEN Subscribed(c, Writable(c))
  ELSE IF makes.sub = "later" THEN [c EXCEPT !.makingSub = @ + 1]
  ELSE SubMessages(c, makes.sub)

Authorized(c, on, makes) ==
  LET marked == IF on = 0 THEN c ELSE [c EXCEPT !.ws[on] = [@ EXCEPT !.authorized = TRUE]]
  IN  Subscribe(SendBuffered(SetState(marked, "authorized"), "auth"), makes)

\* The subscriber of createRequest().
AuthMessage(c, made, makes) ==
  CASE made = "message" /\ AuthMode = "request" -> RequestDirect(c, 1, "authorize")
    [] made = "message" /\ AuthMode # "request" ->
         Authorized(SendDirect(c, {0}, "authorize"), Writable(c), makes)
    [] made = "undefined" -> Close(c)
    [] OTHER -> c

Authorize(c, makes) ==
  IF AuthMode = "none" THEN Authorized(c, Writable(c), makes)
  ELSE IF makes.auth = "later" THEN [c EXCEPT !.makingAuth = @ + 1]
  ELSE AuthMessage(c, makes.auth, makes)

\* Mutant of Opened: the wrong buffer is flushed.
OpenedFlushesAuth(c, makes) ==
  Authorize(SendBuffered(SetState(c, "opened"), "auth"), makes)

Opened(c, makes) ==
  Authorize(SendBuffered(SetState(c, "opened"), "any"), makes)

\* Mutant of Open: no guard on the state.
OpenUnguarded(c, auto, constructs) ==
  IF ~constructs THEN SetState(c, "pending")
  ELSE [c EXCEPT !.state = "pending",
                 !.socket = Len(c.ws) + 1,
                 !.ws = Append(@, [ready |-> "CONNECTING", closedManually |-> FALSE,
                                   auto |-> auto, timers |-> 0, authorized |-> FALSE,
                                   subscribed |-> FALSE, reopens |-> 0])]

\* Mutant of Open: _socket is assigned before the constructor is called.
OpenAssignsFirst(c, auto, constructs) ==
  IF c.state # "closed" THEN c
  ELSE IF ~constructs THEN [c EXCEPT !.state = "pending", !.socket = Len(c.ws) + 1]
  ELSE [c EXCEPT !.state = "pending",
                 !.socket = Len(c.ws) + 1,
                 !.ws = Append(@, [ready |-> "CONNECTING", closedManually |-> FALSE,
                                   auto |-> auto, timers |-> 0, authorized |-> FALSE,
                                   subscribed |-> FALSE, reopens |-> 0])]

\* open(): refused, by a throw or silently, unless the state is closed.  When the
\* constructor throws, the state stays pending and _socket what it was.
Open(c, auto, constructs) ==
  IF c.state # "closed" THEN c
  ELSE IF ~constructs THEN SetState(c, "pending")
  ELSE [c EXCEPT !.state = "pending",
                 !.socket = Len(c.ws) + 1,
                 !.ws = Append(@, [ready |-> "CONNECTING", closedManually |-> FALSE,
                                   auto |-> auto, timers |-> 0, authorized |-> FALSE,
                                   subscribed |-> FALSE, reopens |-> 0])]

\* The setTimeout of _reopen; nothing keeps its handle, so nothing can cancel it.
StartTimer(c, s) ==
  LET x == c.ws[s]
  IN  [c EXCEPT !.ws[s] = [x EXCEPT !.timers = x.timers + 1, !.reopens = x.reopens + 1]]

\* _reopen with the options captured by the handlers of socket s.
Reopen(c, s) ==
  IF c.ws[s].auto THEN StartTimer(Close(c), s) ELSE Close(c)

\* Mutant of Closed: `this._closedManually$ = []` is missing.
ClosedKeepsWaiters(c, opens) ==
  LET closed == SetState(c, "closed")
  IN  IF opens THEN Open(closed, TRUE, TRUE) ELSE closed

\* _closed: a subscriber of closed$ may open() before the waiters of close() are told.
Closed(c, opens) ==
  LET closed == SetState(c, "closed")
      after == IF opens THEN Open(closed, TRUE, TRUE) ELSE closed
  IN  [after EXCEPT !.closedManually = {}]

\* Mutant of OnError: closedManually is not looked at.
OnErrorAlwaysReopens(c, s) == Reopen(c, s)

OnError(c, s) == IF c.ws[s].closedManually THEN c ELSE Reopen(c, s)

\* Mutant of OnClose: closedManually is not looked at, and the state is read too late.
OnCloseAlwaysReopens(c, s, opens) == Reopen(Closed(c, opens), s)

OnClose(c, s, opens) ==
  IF ~c.ws[s].closedManually /\ c.state = "subscribed"
  THEN Reopen(Closed(c, opens), s)
  ELSE Closed(c, opens)

\* Which buffer a message that cannot go now is put into.
Need(call) ==
  IF call.withoutAuth THEN "any" ELSE IF call.withoutSubscription THEN "auth" ELSE "sub"

\* send(): written when the state allows it, otherwise put into the buffer it needs.
Send(c, id, call) ==
  IF \/ c.state = "subscribed"
     \/ call.withoutSubscription /\ c.state = "authorized"
     \/ call.withoutAuth /\ c.state = "opened"
  THEN SendDirect(c, {id}, Need(call))
  ELSE IF call.noBuffer THEN c
  ELSE [c EXCEPT !.buffers = Add(@, Need(call), id, Size, Overflow)]
------------------------------------------------------------------------------
\* What createRequest() and createRequests() do if the task comes to call them.
MakesOf == [auth: AuthMakes, sub: SubMakes]

UserOpen(auto, constructs) ==
  /\ ctl.state = "closed" => Len(ctl.ws) < MaxSockets
  /\ ctl' = Open(ctl, auto, constructs)
  /\ closedByUser' = "no"
  /\ UNCHANGED calls

UserClose ==
  /\ ctl' = Close(ctl)
  /\ closedByUser' = IF \A s \in DOMAIN ctl.ws : ctl.ws[s].timers = 0
                     THEN "final" ELSE "withTimer"
  /\ UNCHANGED calls

\* send() carries no id; request() takes one and subscribes to the answer.
UserCall(call) ==
  /\ calls < MaxCalls
  /\ calls' = calls + 1
  /\ ctl' = IF call.op = "send" THEN Send(ctl, 0, call)
            ELSE LET id == ctl.reqCounter
                     wait == [for |-> "user", ids |-> {id}, on |-> 0, ok |-> TRUE]
                 IN  [Send([ctl EXCEPT !.reqCounter = @ + 1], id, call)
                        EXCEPT !.waits = @ \cup {wait}]
  /\ UNCHANGED closedByUser

\* The connection is established: the browser sets OPEN and calls onopen.
BrowserOpens(s, makes) ==
  /\ ctl.ws[s].ready = "CONNECTING"
  /\ LET open == [ctl EXCEPT !.ws[s] = [@ EXCEPT !.ready = "OPEN"]]
     IN  ctl' = IF open.socket = 0 THEN [open EXCEPT !.ws[s] = [@ EXCEPT !.ready = "CLOSING"]]
                ELSE Opened(open, makes)
  /\ UNCHANGED <<closedByUser, calls>>

\* The server's close frame arrives: CLOSING, and no handler is called.
ServerStartsClosing(s) ==
  /\ ctl.ws[s].ready = "OPEN"
  /\ ctl' = [ctl EXCEPT !.ws[s] = [@ EXCEPT !.ready = "CLOSING"]]
  /\ UNCHANGED <<closedByUser, calls>>

\* The connection is gone: one task sets CLOSED, calls onerror if it failed, and calls
\* onclose.  A connection that was never established has failed.
BrowserCloses(s, failed, opens) ==
  /\ ctl.ws[s].ready # "CLOSED"
  /\ ctl.ws[s].ready = "CONNECTING" => failed
  /\ opens => Len(ctl.ws) < MaxSockets
  /\ LET gone == [ctl EXCEPT !.ws[s] = [@ EXCEPT !.ready = "CLOSED"],
                               !.asked = {r \in @ : r.on # s}]
         told == IF failed THEN OnError(gone, s) ELSE gone
     IN  ctl' = OnClose(told, s, opens)
  /\ closedByUser' = IF opens THEN "no" ELSE closedByUser
  /\ UNCHANGED calls

\* The subscriber of the answers to subscription requests: forkJoin emits when all of
\* them came, and filter() lets the list through only if every one was successful.
SubAnswered(c, wait, id, outcome) ==
  LET rest == [wait EXCEPT !.ids = @ \ {id}, !.ok = @ /\ outcome = "ok"]
      without == [c EXCEPT !.waits = @ \ {wait}]
  IN  IF outcome = "error"
      THEN Close([without EXCEPT !.subscribedErrored = TRUE])
      ELSE IF rest.ids # {}
      THEN [without EXCEPT !.waits = @ \cup {rest}]
      ELSE IF rest.ok THEN Subscribed(without, wait.on)
      ELSE without

\* The subscriber of the answer to the authorization request.
AuthAnswered(c, wait, outcome, makes) ==
  LET without == [c EXCEPT !.waits = @ \ {wait}]
  IN  IF outcome = "ok" THEN Authorized(without, wait.on, makes)
      ELSE Close([without EXCEPT !.authorizedErrored = TRUE])

\* onmessage: an answer arrives on its connection, and goes through messages$ to the
\* subscription that waits for its id, if one still does.
ServerAnswers(r, outcome, makes) ==
  /\ ctl.ws[r.on].ready = "OPEN"
  /\ LET c == [ctl EXCEPT !.asked = @ \ {r}]
         waiting == {w \in c.waits : r.id \in w.ids}
     IN  \/ waiting = {} /\ ctl' = c
         \/ \E w \in waiting :
              ctl' = CASE w.for = "user" -> [c EXCEPT !.waits = @ \ {w}]
                       [] w.for = "authorize" -> AuthAnswered(c, w, outcome, makes)
                       [] w.for = "subscribe" -> SubAnswered(c, w, r.id, outcome)
  /\ UNCHANGED <<closedByUser, calls>>

\* Mutant of TimesOut: the error handlers of the two internal requests do not close().
TimesOutQuietly(w) ==
  /\ ctl' = [ctl EXCEPT !.waits = @ \ {w},
                        !.authorizedErrored = @ \/ w.for = "authorize",
                        !.subscribedErrored = @ \/ w.for = "subscribe"]
  /\ UNCHANGED <<closedByUser, calls>>

\* timeout({first}) of _pipeForResponse: the wait outlives the socket it began on.
TimesOut(w) ==
  /\ LET c == [ctl EXCEPT !.waits = @ \ {w}]
     IN  ctl' = CASE w.for = "user" -> c
                  [] w.for = "authorize" -> Close([c EXCEPT !.authorizedErrored = TRUE])
                  [] w.for = "subscribe" -> Close([c EXCEPT !.subscribedErrored = TRUE])
  /\ UNCHANGED <<closedByUser, calls>>

\* createRequest() emits after the task that called it: nothing ties it to its socket.
AuthMessageMade(made, makes) ==
  /\ ctl.makingAuth > 0 /\ made # "later"
  /\ ctl' = AuthMessage([ctl EXCEPT !.makingAuth = @ - 1], made, makes)
  /\ UNCHANGED <<closedByUser, calls>>

SubMessagesMade(made) ==
  /\ ctl.makingSub > 0 /\ made # "later"
  /\ ctl' = SubMessages([ctl EXCEPT !.makingSub = @ - 1], made)
  /\ UNCHANGED <<closedByUser, calls>>

\* The callback of _reopen's setTimeout; open() may throw in it.
ReopenTimerFires(s, should, constructs) ==
  /\ ctl.ws[s].timers > 0
  /\ should /\ ctl.state = "closed" => Len(ctl.ws) < MaxSockets
  /\ LET x == ctl.ws[s]
         c == [ctl EXCEPT !.ws[s] = [x EXCEPT !.timers = x.timers - 1]]
     IN  ctl' = IF should THEN Open(c, c.ws[s].auto, constructs) ELSE c
  /\ UNCHANGED <<closedByUser, calls>>

Next ==
  \/ \E auto \in AutoReconnect, constructs \in Constructs : UserOpen(auto, constructs)
  \/ UserClose
  \/ \E call \in Calls : UserCall(call)
  \/ \E s \in DOMAIN ctl.ws, makes \in MakesOf : BrowserOpens(s, makes)
  \/ \E s \in DOMAIN ctl.ws : ServerStartsClosing(s)
  \/ \E s \in DOMAIN ctl.ws, failed \in BOOLEAN, opens \in OpensOnClosed :
       BrowserCloses(s, failed, opens)
  \/ \E r \in ctl.asked, outcome \in Outcomes, makes \in MakesOf :
       ServerAnswers(r, outcome, makes)
  \/ \E w \in ctl.waits : TimesOut(w)
  \/ \E made \in AuthMakes, makes \in MakesOf : AuthMessageMade(made, makes)
  \/ \E made \in SubMakes : SubMessagesMade(made)
  \/ \E s \in DOMAIN ctl.ws, should \in Should, constructs \in Constructs :
       ReopenTimerFires(s, should, constructs)

Spec == Init /\ [][Next]_vars

\* What the event loop and the browser owe: a timer that is due is run, and a socket
\* that is closing is closed at last (the closing handshake has a time limit).
Fairness ==
  /\ \A n \in 1..MaxSockets :
       /\ WF_vars(/\ n \in DOMAIN ctl.ws /\ ctl.ws[n].ready = "CLOSING"
                  /\ \E failed \in BOOLEAN : BrowserCloses(n, failed, FALSE))
       /\ WF_vars(/\ n \in DOMAIN ctl.ws
                  /\ \E should \in Should, constructs \in Constructs :
                       ReopenTimerFires(n, should, constructs))
  /\ WF_vars(\E w \in ctl.waits : w.for # "user" /\ TimesOut(w))

FairSpec == Spec /\ Fairness
------------------------------------------------------------------------------
TypeOK ==
  /\ ctl \in Controllers
  /\ ctl.socket <= Len(ctl.ws)
  /\ closedByUser \in {"no", "final", "withTimer"}
  /\ calls \in Nat

Live(s) == ctl.ws[s].ready # "CLOSED"

\* Only the last socket that open() made can be anything but CLOSED: the handlers of
\* an older one never run again, though nothing but the state guards open() (the
\* comment of open(): "to prevent occasional duplicates").
OneLiveSocket == \A s \in DOMAIN ctl.ws : Live(s) => s = Len(ctl.ws)

\* When the state is closed every socket is closed, and every observable that close()
\* returned has completed: nobody waits for an event that cannot come.
ClosedMeansClosed ==
  ctl.state = "closed" =>
    (\A s \in DOMAIN ctl.ws : ~Live(s)) /\ ctl.closedManually = {}

\* Whoever waits for close() waits for the socket that is still to be closed.
WaitersHaveASocket ==
  \A s \in ctl.closedManually :
    s \in DOMAIN ctl.ws /\ s = Len(ctl.ws) /\ ctl.ws[s].ready = "CLOSING"

\* The loss of one socket starts one reopen timer at most, although onerror and onclose
\* both call _reopen and both run when a connection fails.
OneReopenPerSocket == \A s \in DOMAIN ctl.ws : ctl.ws[s].reopens <= 1

\* After a close() by the user with no reopen timer running, no socket is made and no
\* timer started until the user calls open(), whatever happens to the old socket.
CloseWithoutTimerIsFinal ==
  [][closedByUser = "final" /\ closedByUser' = "final"
       => /\ Len(ctl'.ws) = Len(ctl.ws)
          /\ \A s \in DOMAIN ctl.ws : ctl'.ws[s].timers = 0]_vars

\* A user's request that waits for the subscription reaches the server only on a connection
\* which was subscribed itself, and one that waits for authorization only on a connection
\* which was authorized: no buffer is flushed into a younger socket.  A createRequests()
\* that emits late may subscribe a connection which is not authorized yet; then being
\* subscribed is all that can be asked.
OnlyFitSockets ==
  \A r \in ctl.asked :
    LET x == ctl.ws[r.on]
    IN  /\ r.need = "sub" => x.subscribed
        /\ r.need \in {"auth", "sub"} =>
             \/ x.authorized
             \/ "later" \in SubMakes /\ x.subscribed

\* The states come in the documented order, whatever a connection, an answer, a timer, a
\* timeout or a late createRequest() of an earlier connection does to a later one.
Lifecycle == INSTANCE WebSocketLifecycle
               WITH state <- ctl.state, Reopens <- TRUE \in OpensOnClosed,
                    Late <- "later" \in AuthMakes \cup SubMakes
LifecycleSpec == Lifecycle!Spec

\* Documented by close(): "Closes the socket, cancels the reconnection".
CloseCancelsReconnection ==
  [][closedByUser # "no" /\ closedByUser' # "no" => Len(ctl'.ws) = Len(ctl.ws)]_vars

\* A socket lost with automatic reconnection on is replaced, if shouldReconnect() agrees,
\* unless the user calls close(): when the timer fires no stale event has left a state in
\* which open() refuses.
LostSocketIsReplaced ==
  \A n \in 1..(MaxSockets - 1) :
    (n \in DOMAIN ctl.ws /\ ctl.ws[n].reopens > 0 /\ closedByUser = "no")
      ~> (Len(ctl.ws) > n \/ closedByUser # "no")

\* Opened and closing end: an opened socket gets authorized or is closed, since it waits at
\* most requestTimeout, and from closing the controller comes, by LifecycleSpec, to closed
\* (or to what a subscriber of closed$ opens then), so that who waits for close() is told.
OpenedAndClosingEnd ==
  \A st \in {"opened", "closing"} : (ctl.state = st) ~> (ctl.state # st)

\* subscribed$ is documented to error, and its code to close the socket, when a
\* subscription response was not successful: authorized is always left.
AuthorizedSettles == (ctl.state = "authorized") ~> (ctl.state # "authorized")
==============================================================================
