---------------------------- MODULE SocketsEffects ----------------------------
(***************************************************************************)
(* The pattern package: SocketsEffects and WebSocketsOwnerService, which   *)
(* open the sockets of a chain after a login and close them after a logout *)
(* or a loginAs().  The JWT actions come from JwtEffects, of which only    *)
(* the outcomes are modelled here, and the sockets are WebSocketController *)
(* objects, of which only what their owner can observe is modelled.        *)
(*                                                                         *)
(* NgRx dispatches actions one after the other, in the task that caused    *)
(* the first of them: while queue is not empty nothing else happens.       *)
(*                                                                         *)
(* Controllers are numbered in the order in which they are made.           *)
(***************************************************************************)
EXTENDS Integers, Sequences, FiniteSets

CONSTANTS
  Links,         \* the chain: a sequence of links, each a sequence of socket ids
  AutoReconnect, \* whether commonOpenOptions has autoReconnect
  Ops,           \* the JWT actions that the application dispatches
  MaxCalls,      \* bound: actions dispatched by the application
  MaxSockets,    \* bound: controllers made
  MaxChains      \* bound: authorizations of one controller that have not ended

ASSUME SocketsAssumption ==
  /\ Links \in Seq(Seq(STRING))
  /\ Len(Links) > 0 /\ \A k \in DOMAIN Links : Len(Links[k]) > 0
  /\ AutoReconnect \in BOOLEAN
  /\ Ops \subseteq {"login", "loginAgain", "loginAs", "logout"}
  /\ MaxCalls \in Nat /\ MaxSockets \in Nat /\ MaxChains \in Nat

VARIABLES
  users,      \* who is logged in, who called his loginAs() under him
  asked,      \* the JWT requests in flight
  queue,      \* the actions dispatched and not yet handled by the effects
  owner,      \* the WebSocketsOwnerService, its sockets, its init() and closeAll() calls
  inProcess,  \* the flags of the store that are set
  reopeners,  \* how many subscriptions to closeSocketsFinished reOpenOnLoginAs$ holds
  loggedOut,  \* history: "no", "yes", or "quietly": with nothing left that opens sockets
  raced,      \* history: two JWT requests were in flight at once
  calls       \* how many actions were dispatched by the application

vars == <<users, asked, queue, owner, inProcess, reopeners, loggedOut, raced, calls>>

Ids == UNION {{Links[k][j] : j \in DOMAIN Links[k]} : k \in DOMAIN Links}

\* Whose user info an authorization carries; "stray" when its request was made for an
\* earlier connection than the one it is sent on.
By == {"nobody", "master", "target", "stray"}

\* What onopen starts, and nothing stops: createRequest() waits for fresh tokens ("tokens"),
\* has the user and waits for the application ("making"), the request is on its way ("sent"),
\* and then the same for the subscription; a "lost" request was not written, or its
\* connection is gone, and its timeout is all that can come.
Chains == [stage: {"none", "tokens", "making", "sent", "subMaking", "subSent", "lost"}, user: By]

\* A WebSocketController.  broken: authorized$ or subscribed$ has errored, and errors for
\* whoever subscribes later.  by: whose user info the authorization carried.
Sockets == [state: {"closed", "pending", "opened", "authorized", "subscribed", "closing"},
            timers: Nat, broken: BOOLEAN, by: By, chains: [1..MaxChains -> Chains]]

\* A call of init() in progress: it waits for authorized$ and subscribed$ of controllers of
\* a link, zipped, and with none left for the tokens and for socketsReady().  id tells apart
\* those in progress, heard says that initSockets$ listens.
Inits == [id: Nat, link: DOMAIN Links, auths: SUBSET Nat, subs: SUBSET Nat, heard: BOOLEAN]

Awaits(i) == i.auths \cup i.subs

\* closes: the calls of closeAll() in progress, as the controllers each waits for.
Owners == [dict: [Ids -> Nat], ctls: Seq(Sockets), inits: SUBSET Inits,
           closes: SUBSET ((SUBSET Nat) \ {{}})]

At(stage) == [stage |-> stage, user |-> "nobody"]

NewSocket(state) == [state |-> state, timers |-> 0, broken |-> FALSE, by |-> "nobody",
                     chains |-> [k \in 1..MaxChains |-> At("none")]]

\* A chain when its connection ends.
Outlives(chain) ==
  CASE chain.stage = "making" -> [chain EXCEPT !.user = "stray"]
    [] chain.stage \in {"sent", "subSent"} -> At("lost")
    [] chain.stage \notin {"making", "sent", "subSent"} -> chain

Dropped(socket, state) ==
  [socket EXCEPT !.state = state, !.by = "nobody",
                 !.chains = [k \in 1..MaxChains |-> Outlives(@[k])]]

\* _initFirstChainLink: the sockets of the first link are made at once, and never again.
Init ==
  /\ users = <<>> /\ asked = {} /\ queue = <<>>
  /\ owner = [dict |-> [id \in Ids |->
                          IF \E j \in DOMAIN Links[1] : Links[1][j] = id
                          THEN CHOOSE j \in DOMAIN Links[1] : Links[1][j] = id ELSE 0],
              ctls |-> [j \in DOMAIN Links[1] |-> NewSocket("closed")],
              inits |-> {}, closes |-> {}]
  /\ inProcess = {} /\ reopeners = 0 /\ loggedOut = "no" /\ raced = FALSE
  /\ calls = 0

User == IF users = <<>> THEN "nobody" ELSE users[Len(users)]

Owned(c) == \E id \in Ids : owner.dict[id] = c

\* Not closed for the controller, which close() closes, and open for writing.
Up == {"pending", "opened", "authorized", "subscribed"}

Open == {"opened", "authorized", "subscribed"}

\* close() of a controller.
Close(socket) == IF socket.state \in Up THEN Dropped(socket, "closing") ELSE socket

\* Actions of the store, as pairs.
Actions ==
  {"login", "loginAgain", "loginAs", "logout", "initSockets", "closeSockets"}
    \X {"start", "succeed", "errored", "finished"}

InitSockets == <<"initSockets", "start">>
InitSocketsSucceed == <<"initSockets", "succeed">>
InitSocketsErrored == <<"initSockets", "errored">>
CloseSockets == <<"closeSockets", "start">>
CloseSocketsFinished == <<"closeSockets", "finished">>
-------------------------------------------------------------------------------
\* What nothing but the application or the backend changes.
Session == <<users, asked, calls, loggedOut, raced>>

\* The application dispatches a JWT action; exhaustMap drops it while one is in flight.
\* Only those who are not logged in log in, and only the master logs in as somebody.
Dispatch(op) ==
  /\ queue = <<>> /\ calls < MaxCalls
  /\ op \in {"login", "loginAgain"} => users = <<>>
  /\ op = "loginAs" => User = "master"
  /\ asked' = asked \cup {op}
  /\ raced' = (raced \/ asked' \notin {{}, {op}})
  /\ calls' = calls + 1
  /\ UNCHANGED <<users, queue, owner, inProcess, reopeners, loggedOut>>

\* Whether nothing is left that could open a socket: no subscription of reOpenOnLoginAs$, no
\* init() half done, no reopen timer, no live controller that the owner has lost.
Quiet ==
  /\ reopeners = 0 /\ owner.inits = {}
  /\ \A c \in DOMAIN owner.ctls :
       owner.ctls[c].timers = 0 /\ (Owned(c) \/ owner.ctls[c].state \in {"closing", "closed"})

Under == IF users = <<>> THEN <<>> ELSE SubSeq(users, 1, Len(users) - 1)

\* JwtEffects: the request is answered, and its outcome dispatched.
Answered(op, ok) ==
  /\ queue = <<>>
  /\ asked' = asked \ {op}
  /\ queue' = <<<<op, IF ok THEN "succeed" ELSE "errored">>>>
  /\ users' = CASE ~ok -> users
                [] ok /\ op \in {"login", "loginAgain"} -> Append(Under, "master")
                [] ok /\ op = "loginAs" -> Append(users, "target")
                [] ok /\ op = "logout" -> Under
  /\ loggedOut' = CASE ~ok -> loggedOut
                    [] ok /\ (op # "logout" \/ Len(users) > 1) -> "no"
                    [] ok /\ op = "logout" /\ Len(users) <= 1 ->
                         IF Quiet /\ loggedOut # "yes" THEN "quietly" ELSE "yes"
  /\ UNCHANGED <<owner, inProcess, reopeners, raced, calls>>

\* openOnLogin$.
OpenOnLogin ==
  /\ queue # <<>> /\ Head(queue) \in {<<"login", "succeed">>, <<"loginAgain", "succeed">>}
  /\ queue' = Append(Tail(queue), InitSockets)
  /\ UNCHANGED <<Session, owner, inProcess, reopeners>>

\* closeOnLogout$.
CloseOnLogout ==
  /\ queue # <<>> /\ Head(queue) = <<"logout", "succeed">>
  /\ queue' = Append(Tail(queue), CloseSockets)
  /\ UNCHANGED <<Session, owner, inProcess, reopeners>>

\* Mutant of CloseOnLoginAs: closeOnLoginAs$ hears only loginAsErrored.
CloseOnLoginAsErrored ==
  /\ queue # <<>> /\ Head(queue)[1] = "loginAs"
  /\ queue' = IF Head(queue)[2] = "errored" THEN Append(Tail(queue), CloseSockets) ELSE Tail(queue)
  /\ reopeners' = reopeners + IF Head(queue)[2] = "succeed" THEN 1 ELSE 0
  /\ UNCHANGED <<Session, owner, inProcess>>

\* closeOnLoginAs$ and reOpenOnLoginAs$, which subscribes once more to the actions at each
\* loginAsSucceed, and never unsubscribes.
CloseOnLoginAs ==
  /\ queue # <<>> /\ Head(queue)[1] = "loginAs"
  /\ queue' = Append(Tail(queue), CloseSockets)
  /\ reopeners' = reopeners + IF Head(queue)[2] = "succeed" THEN 1 ELSE 0
  /\ UNCHANGED <<Session, owner, inProcess>>

\* No effect but the reports to the application hears it.
Unheard ==
  /\ queue # <<>>
  /\ \/ Head(queue) \in {<<"login", "errored">>, <<"loginAgain", "errored">>,
                         <<"logout", "errored">>} /\ UNCHANGED inProcess
     \/ /\ Head(queue) \in {InitSocketsSucceed, InitSocketsErrored}
        /\ inProcess' = inProcess \ {"init"}
  /\ queue' = Tail(queue)
  /\ UNCHANGED <<Session, owner, reopeners>>

\* init() up to its first wait.  open() throws at the first socket of the link that is not
\* closed: the effect initSockets$ is subscribed anew, and what earlier calls of init()
\* emit is not heard any more.
CallInit ==
  /\ queue # <<>> /\ Head(queue) = InitSockets
  /\ inProcess' = inProcess \cup {"init"}
  /\ LET link == Links[1]
         at(j) == owner.dict[link[j]]
         opened == {j \in DOMAIN link : \A m \in 1..j : owner.ctls[at(m)].state = "closed"}
         ctls == [c \in DOMAIN owner.ctls |->
                    IF \E j \in opened : at(j) = c
                    THEN [owner.ctls[c] EXCEPT !.state = "pending"]
                    ELSE owner.ctls[c]]
         awaits == {at(j) : j \in DOMAIN link}
         free == CHOOSE n \in 0..Cardinality(owner.inits) : \A i \in owner.inits : i.id # n
         call == [id |-> free, link |-> 1, auths |-> awaits, subs |-> awaits, heard |-> TRUE]
     IN  CASE opened # DOMAIN link ->
                /\ owner' = [owner EXCEPT !.ctls = ctls,
                                          !.inits = {[i EXCEPT !.heard = FALSE] : i \in @}]
                /\ queue' = Tail(queue)
           [] opened = DOMAIN link /\ \E c \in awaits : owner.ctls[c].broken ->
                /\ owner' = [owner EXCEPT !.ctls = ctls]
                /\ queue' = Append(Tail(queue), InitSocketsErrored)
           [] opened = DOMAIN link /\ \A c \in awaits : ~owner.ctls[c].broken ->
                /\ owner' = [owner EXCEPT !.ctls = ctls, !.inits = @ \cup {call}]
                /\ queue' = Tail(queue)
  /\ UNCHANGED <<Session, reopeners>>

\* Mutant of CallCloseAll: only the sockets that are open already are closed.
CallCloseOpen ==
  /\ queue # <<>> /\ Head(queue) = CloseSockets
  /\ LET up == {c \in DOMAIN owner.ctls : Owned(c) /\ owner.ctls[c].state \in Up \ {"pending"}}
     IN  /\ owner' = [owner EXCEPT
                !.ctls = [c \in DOMAIN @ |-> IF c \in up THEN Dropped(@[c], "closing") ELSE @[c]],
                !.closes = IF up = {} THEN @ ELSE @ \cup {up}]
         /\ queue' = IF up = {} THEN Append(Tail(queue), CloseSocketsFinished) ELSE Tail(queue)
         /\ inProcess' = inProcess \cup {"close"}
  /\ UNCHANGED <<Session, reopeners>>

\* Mutant of CallCloseAll: close() of a socket that is not up answers once it is closed.
CallCloseWaits ==
  /\ queue # <<>> /\ Head(queue) = CloseSockets
  /\ LET up == {c \in DOMAIN owner.ctls : Owned(c) /\ owner.ctls[c].state \in Up}
     IN  owner' = [owner EXCEPT
           !.ctls = [c \in DOMAIN @ |-> IF c \in up THEN Dropped(@[c], "closing") ELSE @[c]],
           !.closes = @ \cup {up}]
  /\ queue' = Tail(queue)
  /\ inProcess' = inProcess \cup {"close"}
  /\ UNCHANGED <<Session, reopeners>>

\* closeAll(): close() of a socket that is not up answers at once.
CallCloseAll ==
  /\ queue # <<>> /\ Head(queue) = CloseSockets
  /\ LET up == {c \in DOMAIN owner.ctls : Owned(c) /\ owner.ctls[c].state \in Up}
     IN  /\ owner' = [owner EXCEPT
                !.ctls = [c \in DOMAIN @ |-> IF c \in up THEN Dropped(@[c], "closing") ELSE @[c]],
                !.closes = IF up = {} THEN @ ELSE @ \cup {up}]
         /\ queue' = IF up = {} THEN Append(Tail(queue), CloseSocketsFinished) ELSE Tail(queue)
         /\ inProcess' = inProcess \cup {"close"}
  /\ UNCHANGED <<Session, reopeners>>

\* Each subscription of reOpenOnLoginAs$ makes an initSockets.
ReOpenOnLoginAs ==
  /\ queue # <<>> /\ Head(queue) = CloseSocketsFinished
  /\ queue' = Tail(queue) \o [n \in 1..reopeners |-> InitSockets]
  /\ inProcess' = inProcess \ {"close"}
  /\ UNCHANGED <<Session, owner, reopeners>>
-------------------------------------------------------------------------------
\* The observables of init() and closeAll(), when controller c changes.

\* Who waits for the responses of c gets an error, or none when closedForever$ was first:
\* either way the call has failed.
Failed(o, c) == [o EXCEPT !.inits = {i \in @ : c \notin Awaits(i)}]

\* Mutant of FailedHeard: initSockets$ has no catchError.
FailedUnheard(c) == <<>>

\* The outcome of the calls of init() that have failed, if initSockets$ still listens.
FailedHeard(c) ==
  IF \E i \in owner.inits : c \in Awaits(i) /\ i.heard THEN <<InitSocketsErrored>> ELSE <<>>

Changed(o, c, socket) == [o EXCEPT !.ctls = [@ EXCEPT ![c] = socket]]

\* What a task of the browser leaves alone, besides the queue of its own actions.
Apart == <<Session, inProcess, reopeners>>

\* A controller has changed, and nothing is dispatched.
Becomes(c, socket) ==
  /\ owner' = Changed(owner, c, socket)
  /\ UNCHANGED <<Apart, queue>>

\* A controller has changed so that calls of init() that wait for it fail.
BecomesFailed(c, socket) ==
  /\ owner' = Failed(Changed(owner, c, socket), c)
  /\ queue' = FailedHeard(c)
  /\ UNCHANGED Apart

\* One chain of a controller goes on.
Goes(socket, k, chain) == [socket EXCEPT !.chains = [@ EXCEPT ![k] = chain]]

\* onopen: a chain starts with the request for fresh tokens.
Opens(c, k) ==
  /\ queue = <<>> /\ owner.ctls[c].state = "pending"
  /\ owner.ctls[c].chains[k].stage = "none"
  /\ Becomes(c, Goes([owner.ctls[c] EXCEPT !.state = "opened"], k, At("tokens")))

\* The tokens come, and with them the user that the store has now; the application is
\* asked for the request.
TokensCome(c, k) ==
  /\ queue = <<>> /\ owner.ctls[c].chains[k].stage = "tokens"
  /\ LET user == IF owner.ctls[c].state \in Up THEN User ELSE "stray"
     IN  Becomes(c, Goes(owner.ctls[c], k, [stage |-> "making", user |-> user]))

\* createRequest() emits the message, and it is written to the socket that is there, of
\* this connection or a later one.
Makes(c, k) ==
  /\ queue = <<>>
  /\ LET socket == owner.ctls[c]
         chain == socket.chains[k]
     IN  \/ /\ chain.stage \in {"making", "subMaking"} /\ socket.state \notin Open
            /\ Becomes(c, Goes(socket, k, At("lost")))
         \/ /\ chain.stage = "making" /\ socket.state \in Open
            /\ Becomes(c, Goes(socket, k, [chain EXCEPT !.stage = "sent"]))
         \/ /\ chain.stage = "subMaking" /\ socket.state \in Open
            /\ Becomes(c, Goes(socket, k, At("subSent")))

\* The application gives undefined for a request: the controller closes what is up.
MakesNone(c, k) ==
  /\ queue = <<>> /\ owner.ctls[c].chains[k].stage \in {"making", "subMaking"}
  /\ Becomes(c, Close(Goes(owner.ctls[c], k, At("none"))))

\* The application's observable errors or is empty, which nobody handles, or filter() drops
\* an unsuccessful answer to a subscription: the connection stays as it is.
Ends(c, k) ==
  /\ queue = <<>> /\ owner.ctls[c].chains[k].stage \in {"making", "subMaking", "subSent"}
  /\ Becomes(c, Goes(owner.ctls[c], k, At("none")))

\* The authorization is answered, whatever the state by now: authorized$ emits, and the
\* subscription is to be made.
Authorizes(c, k) ==
  /\ queue = <<>> /\ owner.ctls[c].chains[k].stage = "sent"
  /\ LET socket == [owner.ctls[c] EXCEPT !.state = "authorized",
                                          !.by = owner.ctls[c].chains[k].user]
     IN  owner' = [Changed(owner, c, Goes(socket, k, At("subMaking")))
                     EXCEPT !.inits = {[i EXCEPT !.auths = @ \ {c}] : i \in @}]
  /\ UNCHANGED <<Apart, queue>>

\* The subscription is answered: subscribed$ emits, and the chain is done.
Subscribes(c, k) ==
  /\ queue = <<>> /\ owner.ctls[c].chains[k].stage = "subSent"
  /\ owner' = [Changed(owner, c, Goes([owner.ctls[c] EXCEPT !.state = "subscribed"],
                                      k, At("none")))
                 EXCEPT !.inits = {[i EXCEPT !.subs = @ \ {c}] : i \in @}]
  /\ UNCHANGED <<Apart, queue>>

\* A request times out or has an error for an answer: authorized$ or subscribed$ errors, and
\* the controller closes what is up, a later connection and a subscribed one as well.
Fails(c, k) ==
  /\ queue = <<>> /\ owner.ctls[c].chains[k].stage \in {"sent", "subSent", "lost"}
  /\ BecomesFailed(c, Close(Goes([owner.ctls[c] EXCEPT !.broken = TRUE], k, At("none"))))

\* The connection is lost.  A reopen timer is started by an error or after a subscription;
\* closedForever$ emits unless the connection was subscribed and has not errored: onerror
\* calls close(), and onclose takes it for a close by hand.
Lost(c, errored) ==
  /\ queue = <<>> /\ owner.ctls[c].state \in Up
  /\ LET socket == owner.ctls[c]
         again == AutoReconnect /\ (errored \/ socket.state = "subscribed")
         gone == [Dropped(socket, "closed") EXCEPT !.timers = @ + IF again THEN 1 ELSE 0]
     IN  IF socket.state = "subscribed" /\ ~errored
         THEN Becomes(c, gone) ELSE BecomesFailed(c, gone)

\* A reopen timer fires; shouldReconnect() may say no, and open() throws unless closed.
TimerFires(c, should) ==
  /\ queue = <<>> /\ owner.ctls[c].timers > 0
  /\ LET socket == owner.ctls[c]
         reopened == IF should /\ socket.state = "closed"
                     THEN [socket EXCEPT !.state = "pending"] ELSE socket
     IN  owner' = Changed(owner, c, [reopened EXCEPT !.timers = @ - 1])
  /\ UNCHANGED <<Apart, queue>>

\* A socket that was closing is closed: closeAll() has one less to wait for.
Closes(c) ==
  /\ queue = <<>> /\ owner.ctls[c].state = "closing"
  /\ LET o == Failed(Changed(owner, c, [owner.ctls[c] EXCEPT !.state = "closed"]), c)
         left == {w \ {c} : w \in owner.closes}
     IN  /\ owner' = [o EXCEPT !.closes = left \ {{}}]
         /\ queue' = FailedHeard(c) \o IF {} \in left THEN <<CloseSocketsFinished>> ELSE <<>>
  /\ UNCHANGED Apart

\* Mutant of CloseTimesOut: closeSockets$ has no catchError.
CloseTimesOutUnheard(w) ==
  /\ queue = <<>>
  /\ owner' = [owner EXCEPT !.closes = @ \ {w}]
  /\ UNCHANGED <<Apart, queue>>

\* timeout(closeTimeout) of closeAll(): it errors, and closeSockets$ finishes all the same.
CloseTimesOut(w) ==
  /\ queue = <<>>
  /\ owner' = [owner EXCEPT !.closes = @ \ {w}]
  /\ queue' = <<CloseSocketsFinished>>
  /\ UNCHANGED Apart

\* init() has the responses of a link, and then the tokens: socketsReady() gives the next
\* link, whose controllers are made anew, or errors; after the last link init() succeeds.
LinkReady(i, ok) ==
  /\ queue = <<>> /\ Awaits(i) = {}
  /\ LET rest == [owner EXCEPT !.inits = @ \ {i}]
         last == i.link = Len(Links)
         tell(action) == IF i.heard THEN <<action>> ELSE <<>>
     IN  \/ /\ ok /\ last
            /\ owner' = rest /\ queue' = tell(InitSocketsSucceed)
         \/ /\ ~ok /\ ~last
            /\ owner' = rest /\ queue' = tell(InitSocketsErrored)
         \/ /\ ok /\ ~last
            /\ LET link == Links[i.link + 1]
                   n == Len(owner.ctls)
                   dict == [id \in Ids |->
                              IF \E j \in DOMAIN link : link[j] = id
                              THEN n + CHOOSE j \in DOMAIN link : link[j] = id
                              ELSE owner.dict[id]]
                   made == {n + j : j \in DOMAIN link}
                   next == [i EXCEPT !.link = @ + 1, !.auths = made, !.subs = made]
               IN  /\ n + Len(link) <= MaxSockets
                   /\ owner' = [rest EXCEPT !.dict = dict, !.inits = @ \cup {next},
                                  !.ctls = @ \o [j \in DOMAIN link |-> NewSocket("pending")]]
            /\ queue' = <<>>
  /\ UNCHANGED Apart

Effects ==
  \/ OpenOnLogin \/ CloseOnLogout \/ CloseOnLoginAs \/ Unheard
  \/ CallInit \/ CallCloseAll \/ ReOpenOnLoginAs

\* What happens to a chain of a controller.
OfChain(c, k) ==
  \/ Opens(c, k) \/ TokensCome(c, k) \/ Makes(c, k) \/ MakesNone(c, k) \/ Ends(c, k)
  \/ Authorizes(c, k) \/ Subscribes(c, k) \/ Fails(c, k)

Next ==
  \/ Effects
  \/ \E op \in Ops : Dispatch(op)
  \/ \E op \in asked, ok \in BOOLEAN : Answered(op, ok)
  \/ \E c \in DOMAIN owner.ctls, k \in 1..MaxChains : OfChain(c, k)
  \/ \E c \in DOMAIN owner.ctls :
       \/ Closes(c)
       \/ \E errored \in BOOLEAN : Lost(c, errored)
       \/ \E should \in BOOLEAN : TimerFires(c, should)
  \/ \E w \in owner.closes : CloseTimesOut(w)
  \/ \E i \in owner.inits, ok \in BOOLEAN : LinkReady(i, ok)

Spec == Init /\ [][Next]_vars

\* The queue of actions is worked off, and a timeout that is due fires.
FairSpec ==
  Spec /\ WF_vars(Effects) /\ WF_vars(\E w \in owner.closes : CloseTimesOut(w))
-------------------------------------------------------------------------------
TypeOK ==
  /\ users \in Seq({"master", "target"}) /\ asked \subseteq Ops /\ queue \in Seq(Actions)
  /\ owner \in Owners
  /\ \A id \in Ids : owner.dict[id] <= Len(owner.ctls)
  /\ inProcess \subseteq {"init", "close"}
  /\ reopeners \in Nat /\ raced \in BOOLEAN /\ loggedOut \in {"no", "yes", "quietly"}
  /\ calls \in Nat

Down(c) == owner.ctls[c].state \in {"closing", "closed"}

\* Root README.md: "After logout all the sockets are closed."
AfterLogoutClosed ==
  loggedOut # "no" /\ queue = <<>> => \A c \in DOMAIN owner.ctls : Down(c)

\* After a logout that found no subscription of reOpenOnLoginAs$, no init() half done, no
\* reopen timer and no socket the owner has lost, all the sockets of all the links stay
\* closed until somebody logs in, whatever happens to them and to the requests in flight.
QuietLogoutIsFinal ==
  loggedOut = "quietly" /\ queue = <<>> =>
    \A c \in DOMAIN owner.ctls : Down(c) /\ owner.ctls[c].timers = 0

\* A socket that the owner holds never goes on, once the actions of a task are handled,
\* with the authorization of a user who is not logged in any more or who has become
\* somebody else: however late the tokens, the application's request and the answer come,
\* through reconnections, timeouts and init() calls that overlap, unless JWT requests raced.
\* The code does not promise it for a stray authorization, whose request createRequest()
\* was asked for before the connection opened.
SocketsFollowUser ==
  ~raced /\ queue = <<>> =>
    \A id \in Ids :
      LET c == owner.dict[id]
      IN  c # 0 /\ owner.ctls[c].state \in {"authorized", "subscribed"}
            => owner.ctls[c].by \in {"nobody", "stray", User}

\* closeSocketsFinished follows closeSockets, even when a socket never gets closed.
ClosingFinishes == ("close" \in inProcess) ~> ("close" \notin inProcess)
===============================================================================
