# A verification project for ngx-customapp-sdk

The SDK is a set of TypeScript packages for Angular applications that talk to
one backend: a WebSocket controller that reconnects, a JWT service with its
NgRx store, guard and interceptor, a pattern package that opens sockets after a
login, and helpers for HTTP requests and errors. This directory models the parts
that keep state and run several things at once. TLC checks the models on small
instances and TLAPS proves the most important properties for every instance.

## The system

| Part | State | Operations | Talks to |
|---|---|---|---|
| `WebSocketController` (packages/rxjs-websocket) | state, current socket, buffers, waits for answers, observables of `close()` | `open`, `close`, `send`, `request`; handlers of the socket; timers | the browser's `WebSocket`, the server, observables of its configuration |
| `WebSocketMessageBuffer` | three lists of messages | `add`, `remove` | owned by the controller |
| `JwtService` (ngx-customapp-jwt) | tokens, stash of tokens, refresh in flight, callbacks waiting, localStorage | `login`, `loginAs`, `logout`, `withFreshJwt`, page load | the backend by `JwtApi` |
| JWT effects and reducers | user, stash of users, in-process flags | one effect per request, three for the users | calls the service, dispatches actions |
| `JwtInterceptor`, `VersionInterceptor` | none; a request that waits for tokens | `intercept` | the service, requests |
| `JwtGuard` | none; what a navigation in progress is subscribed to | `canActivate` | the service, the store, `loginAgain`, `NoFreshJwtListener` |
| `RequestService` (ngx-customapp-proto-http) | none | `request`, `requestFile`, response handlers | the interceptors, `ErrorsService` |
| `ErrorsService`, `ErrorsHandler` (ngx-customapp-errors) | none | `sendError`, `reportError`, `toUserError`, `handleError` | the reporter of the application |
| `SocketsEffects`, `WebSocketsOwnerService` (ngx-customapp-pattern-auth-before-socket) | dictionary of controllers, calls of `init()` and `closeAll()` in progress, subscriptions of the effects | open on login, close on logout and `loginAs`, reopen after `loginAs`, report the outcome | JWT actions, controllers, tokens |
| forms, build | none | stubs, scripts | not modelled |

JavaScript is single-threaded, so a handler is never interrupted. What is hard
is the order of the handlers and what they find: a timer that outlives what it
was started for, an answer to a question nobody asks any more, an observable
that emits after its socket was replaced, a request that overlaps another one
of a different type, a page load in the middle of anything. Handlers also call
user code (`closed$` subscribers, callbacks) that calls back.

What makes each part correct:

- **Controller**: one live socket; each loss reconnects once, and a manual
  close not at all; messages go only to sockets fit for them; `close()` and
  requests end; states come in order.
- **Buffer**: each list holds what its overflow strategy promises.
- **JWT service**: one refresh at a time; every caller told once, with fresh
  tokens, of the right user; only the tokens of a master user are stored; a
  logout restores the tokens of who called `loginAs()`.
- **Store**: the user shown is the owner of the tokens; the `*InProcess` flags
  tell what is in progress.
- **Guard**: every navigation gets an answer; who passes is logged in; that
  somebody is denied is told exactly if the option asks for it.
- **Requests**: none waits for ever, the one that refreshes the tokens included;
  each leaves with a token exactly if there is a fresh one; a failure is never
  taken for a value, comes as a text, and is reported.
- **Sockets**: all closed after a logout; none goes on as a user who is gone;
  closing finishes; no login whose outcome is owed to the application is lost.

## Modules

| Module | What it is |
|---|---|
| `MessageBuffer` | the buffer as operators; the newest message is first, as in the code |
| `MessageBufferHistory` | the buffer as a machine, beside a record of what was added |
| `MessageBufferHistory_proofs` | the buffer keeps its promise, for every size and history |
| `WebSocketController` | the controller with its sockets, the browser and the server |
| `WebSocketLifecycle` | abstract: which state may follow which; `WebSocketController` is checked and proved to implement it (`state <- ctl.state`) |
| `MCWebSocketController` | the values of `Calls` for TLC |
| `WebSocketController_proofs` | theorems about the controller |
| `WebSocketRequests_proofs` | requests reach only connections that are fit for them; the states come in order |
| `FreshTokens` | abstract: what `withFreshJwt()` promises its callers, those in the package included; `JwtService` is proved, and `JwtStore` checked and proved, to implement it |
| `JwtService` | the service, localStorage, backend and clock |
| `JwtService_proofs` | types and the refresh; `JwtService` implements `FreshTokens`; whose tokens are stored, stashed and handed out |
| `JwtStore` | composes `JwtService` with the effects and reducers of the users |
| `JwtStore_proofs` | `JwtStore` implements `JwtService`; users and tokens stay in step |
| `JwtGuard` | the guard, with the effects and reducers action by action |
| `JwtGuard_proofs` | theorems about the guard and the flags |
| `HttpRequests` | requests through the interceptors, their responses and errors |
| `MCHttpRequests` | the options, replies and configuration for TLC |
| `HttpRequests_proofs` | theorems about requests |
| `SocketsEffects` | the pattern package, over abstract JWT outcomes and abstract controllers |
| `MCSocketsEffects` | chains of links for TLC |
| `LoginReports` | `SocketsEffects` with the reports to the application |
| `MCLoginReports` | the same chains for it |
| `SocketsEffects_proofs` | theorems about both: logouts, users and reports; `LoginReports` implements `SocketsEffects` |

### How code becomes actions

One action is one task of the event loop: a call from outside, a handler of the
browser, a timer, or an answer. Methods call methods (`onopen`, `_opened`,
`_authorize`, `_authorized`, `_subscribe`, `_subscribed` may all run in one
task), so the object is one record and each method an operator from the record
before to the record after; the names are those of the code. Observables given
by the configuration emit at once, emit nothing useful, emit later, or fail
(`Makes`): each is a choice of the environment at the moment the code
subscribes. What emits later may do so when the connection it was asked for is
gone: nothing in the code ends the subscription. The controllers of the pattern
package are like that, for their `createRequest` goes through `freshJwt()`
(`utils/socket.ts:25-32`) and waits for a refresh when the access token is stale.

`WebSocketController`: `ctl.ws[s]` is a `WebSocket` with what its handlers
captured. `BrowserOpens`, `BrowserCloses` and `ServerAnswers` run `onopen`,
`onerror` then `onclose`, and `onmessage`. A failure runs both handlers in one
task, as browsers do. A server may start the closing handshake first
(`ServerStartsClosing`): then the socket is CLOSING and no handler has run.
`waits` are the subscriptions of `_pipeForResponse`; they do not belong to a
socket, in the model as in the code. `ReconnectState` is left out, for it is only
passed to the application's callbacks, which may answer anything here.

`JwtService`: a pair of tokens is an index into the list of those issued, with
its user, how it was obtained and its age: fresh, stale (access token expired)
or dead. `callers` and `raced` are history variables: what each call of
`withFreshJwt()` was told, and whether two requests were ever in flight at once
or tokens expired during one. The code makes no promise for racing requests
that would hold, so the properties about who owns what start from `~raced`;
everything about the refresh itself holds with races.

`JwtStore`: NgRx handles an action, and those the effects make of it, within the
task that dispatched it, so each action of `JwtService` is conjoined with what it
does to the store.

`FreshTokens` sees of a call only whether it waits, or how it was settled. The
mapping is in `JwtService`: each caller by `StateOf`, in the order they called, and
beside them (`Others`) who of `loginAs()`, `logout()` and the guard waits.

`JwtGuard`: here the order within a task matters, so `queue` holds the actions
dispatched and not yet handled, as in `SocketsEffects`, and one action of the model
handles one of them: reducers, then effects, then the guard if it listens. Of the
tokens only the age is left, and which users there are is left to `JwtStore`.
`nav` is one navigation: a new one cancels the old one, but not what that has
started. The application may give the guard actions of its own (`config`), and then
answers a `loginAgain` once, when it likes (`owes`); or the guard is not configured
("off") and lets everybody pass. `JwtApi` answers in later tasks. `tells` is
`callWhen.guardNotFoundJwt`: without it the guard is called back without tokens all the
same (`jwt.service.ts:251-252`), and only the listener is not. A guard that is
unsubscribed from, because its navigation was granted or replaced, leaves its call in
`_waitingForRefresh`: it waits on as `"gone"`, and when the refresh fails the listener is
called for it (`Leave`, `CalledBack`).

`HttpRequests`: a request is a record with the options it was made with, from the call
until it ends. The request of a refresh is one of the same kind, made with what
`JwtApi` passes to `RequestService`; `HttpAssumption` says that it bypasses
`JwtInterceptor`, as the example in the public API of ngx-customapp-jwt does. The
response handlers, `reportError` and `toUserError` are operators from a reply to an
outcome. What a URL or a text looks like is left out: a URL is excluded or not, a
text is there or not, and a reply is one of the shapes that the handlers tell apart.
The session changes under the requests as the rest of the application likes.

`SocketsEffects`: `queue` holds the actions dispatched and not yet handled;
nothing else happens while it is not empty. Calls of `init()` are records that
wait for controllers. An effect that throws (a second `init()` while sockets are
open) is resubscribed by NgRx, and earlier calls are not heard any more: `heard`.
The controllers show what their owner can see; `broken` stands for the errored
subjects of `authorized$` and `subscribed$`. Each opening of a controller starts a
*chain* that nothing stops: it waits for fresh tokens, then has the user and waits for
the application's request, then for the answer, and the same for the subscription
(`OfChain`). A chain goes on when its connection is gone, so several chains of one
controller run beside each other, and its late request or answer acts on the connection
that is there by then. The user info that the request carries is fixed when the tokens
come (`TokensCome`), and `by` is that of the authorization which the state speaks of; a
request asked for before the connection opened is marked `"stray"`. A reopen timer, a
timeout and a loss do here what they do in `WebSocketController`, an errored loss of a
subscribed connection included (it emits on `closedForever$`). Authorization and
subscription are taken to be configured with `isResponseSuccessful`; a closing handshake
that the server starts shows in the owner's view only when the socket gets closed.

`LoginReports` conjoins each action of `SocketsEffects` with what
`resultLoginAndInitSockets$` does: a login that is dispatched starts to listen and never
stops, so the state is the set of the kinds of login dispatched so far. Reports are
only made, nobody in the repository hears them.

## Runs

| Run | Shows | Bounds |
|---|---|---|
| `ControllerSync` | liveness: opened and closing end, a lost socket is replaced unless the user closes by hand | messages made at once, 2 sockets, 1 user call of 3 kinds, `closed$` subscribers that reopen or not |
| `ControllerAsync` | one live socket, one reopening per loss, nobody waits for ever, `close()` is final, messages reach only sockets fit for them, the states follow `WebSocketLifecycle`: when messages are made at once, late (on a later connection, too), not at all or fail, constructors throw, `closed$` subscribers reopen | 2 sockets, 1 user call of 3 kinds |
| `MessageBufferHistory` | the buffer against its reference definition | sizes 0 to 3, 5 messages |
| `JwtStore` | service and store together; all who wait are settled together, in the same way | 1 master, 1 target, 3 pairs of tokens, 2 recorded callers that meet, 2 requests or waiting callbacks beside the refresh |
| `JwtGuard` | flags, navigations and their answers | the three configurations, with and without `guardNotFoundJwt`, 2 calls of `loginAs()` within one another |
| `HttpRequests` | requests, refreshes and errors, from the call to the report | 3 requests in flight with that of a refresh, 4 ways of calling, 6 replies, a production configuration |
| `LateRequests` | no socket goes on as a former user; after a quiet logout no socket is opened | 1 socket that reconnects, 2 of its chains at once, 4 actions of the application |
| `LoginReports` | the pattern package with its reports | 2 links of 1 socket without reconnection, 3 actions of the application, 3 controllers, 1 chain of each |

Two sockets are the least with which an old handler, timer or late message can
meet a new socket; for more of them the safety properties are proved. Two
chains of one controller are the least with which an authorization of an earlier
connection meets that of the present one, and four actions are two logins with a
`loginAs()` or a logout after each. In the buffer five messages overflow every size
checked. Three pairs of tokens are a login, a `loginAs()` and a refresh of either; a
reload, a logout or a second login then finds tokens it did not issue. In `LoginReports`
three actions of the application are a login, a `loginAs()` and a logout, or a login
twice and a logout; the third controller is the second link made anew by a second
`init()`. That quiet logouts are final over several links is not in a run, but proved.

In `JwtStore` two callbacks may wait at the same time: two callers, one of either kind, or a
caller and one of `loginAs`, `logout` and the guard. `FreshTokens` sees them all, so that
one forgotten or told otherwise shows. `CallersMeet` bounds what is recorded: a second
caller only while the first, of the other kind, waits.

In `JwtGuard` depth two is the least at which a logout uncovers a user who was
himself logged in as; navigations, logins and expiries are not bounded. In
`HttpRequests` three requests are a refresh with two that wait for it, or one that
waits beside one that bypasses the interceptor. The four ways of calling take every
branch of the interceptors but that of an excluded URL, which does what `disableAuth`
does, and the six replies, of the 24 shapes there are, every branch of the handlers
but that of a file without a type. The safety properties are proved for all ways of
calling, replies and configurations.

### Findings

Four runs each check one sentence of the documentation or of a comment, and TLC
shows that the code does something else. Details are in `PROJECT.json`.

| Run | Sentence | What happens |
|---|---|---|
| `CloseCancelsReconnection` | `close()`: "cancels the reconnection" | the timer is not cleared and opens a socket |
| `AuthorizedSettles` | `subscribed$` tells of an unsuccessful response | the response is filtered out, the controller stays authorized |
| `OnlyMastersAreStored` | "JWT is saved only for master user" | not when a login errors during a `loginAs()` |
| `AfterLogoutClosed` | "After logout all the sockets are closed." | after a `loginAs()` each logout opens them again |

Other places where the code and its documentation differ were met while modelling.
The models follow the code, no property states the sentence, and no run is spent on them:

- `web-socket-message-buffer.ts:33`: `config.size || defaultWebSocketMessageBufferSize`
  turns a configured size of zero into the default of two, and messages are kept.
  `websocket-controller-config.ts:165-166` says "Zero means no buffer, the message will be
  dropped immediately, if it could not be sent." `BufferKeepsWhatItPromises` excludes zero.
- `web-socket-controller.ts:347`: the observable of `createRequest()` is not ended with
  its connection. A late request of an earlier one is answered on a later one, and a
  subscribed controller is authorized again; line 131 says of `authorized$`: "Fires
  whenever the transition opened->authorized happens." Late subscription requests (392)
  are answered in the same way on a connection that is not authorized; line 146 says of
  `subscribed$`: "Fires whenever the transition authorized->subscribed happens."
- `sockets.effects.ts:61` and `80` compare with the type of `loginAgainSucceed`, which no
  action has there: a `loginAgain` is reported as a `loginAs`, and
  `loginAgainAndInitSocketsSucceed` is never dispatched. `sockets.actions.ts:41-44` says of
  it: "Is dispatched when BOTH the loginAgain action and the initSockets action succeed."
- `errors-handler.ts:20`: an error that nobody handles is reported without asking
  `doNotSend`; `errors-config.ts:21` says: "The errors to be explicitly ignored and not
  reported."
- `web-socket-controller.ts:475`: `withoutAuth` does not send in state authorized;
  `websocket-send-options.ts:5` says it is sent even if not authorized and not
  subscribed.
- `web-socket-controller.ts:347`: without `isResponseSuccessful` a late message
  authorizes even a closed controller; `websocket-controller-state.ts:3` gives an order
  of states. `WebSocketLifecycle` states the transitions there are with it.
- `jwt.service.ts:194-205`: the listener is called for guards that are gone, too.
- `jwt.guard.ts:43-48`: the guard also lets pass as soon as there is a user;
  `jwt-config.ts:79-86` calls `actionAppReady` "The action on which navigation will be
  continued."
- `jwt-config.ts:67`: `actionToWaitUntilAuth` is read nowhere.
- `errors.service.ts:25-32`: nobody subscribes to what `reporter.report()` returns; the
  type in `errors-reporter.ts:5` is an `Observable`, so a reporter made of
  `HttpClient` reports nothing.
- `response-handlers.ts:91-101`: a failed response with the protobuf header is decoded
  and becomes a value, unless `isErrorResponse` knows it.
- `internal.ts:39`: without the locale in `errorsText` the lookup of a text throws.
- `request.service.ts`: `requestFile()` does not decode failed protobuf responses.

### Fairness

- Controller: a running reopen timer fires, the timeout of an authorization or
  subscription request fires, and a CLOSING socket gets closed (the browser
  bounds the closing handshake). Nothing is assumed of the server, of users, or
  of observables that may emit late.
- JWT: a refresh ends, at worst with an error, as an HTTP request does.
- Guard: the queue of actions is worked off (weak fairness). The router asks the
  guard it has scheduled, a `loginAgain` and a refresh get some answer, and the
  application with its own actions says whether it is ready; since other tasks come
  in between, this is strong fairness: a task that is due runs at last. Nothing
  is assumed of logins, of the user or of the clock.
- Requests: the browser ends each request, with a response or without.
- Sockets: actions in the queue are handled, and the timeout of `closeAll()`
  fires. No socket is assumed ever to close.

Deadlock is not checked where a bound on calls, tokens or sockets lets a
behaviour end, which is every run.

## Proofs

TLAPS proves the following for every value of the constants: any number of
sockets and users, every configuration.

`WebSocketController_proofs`: `TypeOK`, `OneLiveSocket`, `ClosedMeansClosed`,
`WaitersHaveASocket`, `OneReopenPerSocket` and `CloseWithoutTimerIsFinal`.
None of them is inductive alone. The inductive invariant `IInv` adds what the
handlers rely on: a socket that is not CLOSED is the youngest, and is either
`_socket`, so that `close()` can reach it, or already marked as closed manually;
a socket that is not CLOSED and not so marked has started no timer yet; a wait
names a socket that was made; and after a final `close()` no timer runs and
every socket that is not CLOSED is marked, so that its loss starts none.
The invariant is stated of a record, and each method has a lemma that says it
keeps the invariant and leaves sockets, marks and timers alone (`Kept`); the proof of
a handler composes the lemmas of the methods it calls, and `StepIInv` has one
step per action. `CloseWithoutTimerIsFinal` is an action property: it follows
from `StepIInv` for each step.

`WebSocketRequests_proofs`: `OnlyFitSockets`, for observables of the configuration
(`createRequest`, `createRequests`) that emit at once, late or never. The inductive
invariant has two parts. `Ready`: the state speaks of the connection that a write goes
to, so a write in state subscribed goes to a socket that was subscribed itself, and
authorized too (`Admitted`) unless subscription requests may be late, when a connection
may be subscribed without having been authorized. `Requests`: an authorization or a subscription waits for an
answer on the connection that its request went to, which for a late request is not the
one that it was made for; since ids are not used twice, not even by a message that waits
in a buffer, what an answer marks is the connection that earned it. A lemma per method
says either that it keeps both (`Fit`) or that it asks nobody (`Follows`).

The same module proves `LifecycleSpec`: whatever happens to the old connections of a
controller, its state moves as `WebSocketLifecycle` says. On top of the two parts
above stands `Phased`: the only connection that can still be used is `_socket`, and the
state is one of its. When nothing emits late it also says that nothing is asked on it
before it is established, and after that one thing at a time, which tells the state, so
that the state never goes back. With late requests that is lost, and `WebSocketLifecycle`
has what is true then: an established connection may be authorized or subscribed in any
order, and again (`Late`). The hypothesis `AnsweredWhenLate` says that a late message is a
request, with `isResponseSuccessful` beside it, as the configuration of the pattern
package may have it; without, a late message authorizes a controller that is closed. Each
action has a lemma for its step (`Passes`).

`JwtService_proofs`: `TypeOK`, `OneRefresh`, `WaitersHaveARefresh` and
`CalledOnce`. The inductive invariant adds that a caller that waits has not been
called or dropped yet, so that a flush may call it: a caller called once has left
the list of those waiting for good.

The same module shows that `JwtService` implements `FreshTokens`. The converse of the
above is needed too (`NoneLost`): a call that is not settled has its callback in the
list, so that a flush leaves none out. So are the callbacks of `loginAs()`, `logout()`
and the guard, which the refinement mapping shows as `others`. Each step is then shown to wait, to settle
everybody in one way, or to stutter.

Its last part proves `StoredIsMasters`, `GivenToOwner` and `CallerIsRestored`,
without races, and `FreshWhenHandedOut`, with them. `CallerIsRestored` is exact: a
`loginAs()` pushes the tokens that it was asked with, a logout brings back those on top,
a page load those at the bottom, and nothing else changes the stash. `Session` is what makes them
inductive: there is one request in flight, and if it counts on tokens these are
the ones the service holds and not dead, because nothing can delete them before
the answer without being a race itself; and the bottom of the stash, or else the
tokens in use, is what the localStorage has.

`JwtStore_proofs`: `JwtStore` implements `JwtService`, since each of its actions is
one of the service with more conjuncts, so the theorems above hold of the
composition, `FreshTokens` included; and `UserOwnsTokens`, whose invariant relates the
two stacks: the users stashed own the tokens stashed, position by position from the
top.

`JwtGuard_proofs`: `TypeOK`, `FlagsFollowRequests`, `GuardHearsAnAnswer`,
`DeniedIsTold` and `GrantedMeansLoggedIn`. Between tasks the queue is empty; to be
inductive the invariant looks into it. It holds one of a few short sequences
(`Shapes`), a flag is set while the request or the action that ends it is there, and
a guard that listens has its answer in the queue at the latest. `DeniedIsTold` is part
of it as it stands; it covers both values of `guardNotFoundJwt`.

`HttpRequests_proofs`: `TypeOK`, `WaitingHasRefresh`, `ValueMeansSuccess`,
`ErrorsAreTexts`, `FailuresAreReported` and `SentFresh`, for all options, replies and
configurations. The inductive invariant adds that the request of a refresh never
waits, since it bypasses the interceptor, and that a request that waits has no
token yet.

`MessageBufferHistory_proofs`: `BufferKeepsWhatItPromises`, for every size but zero and
every history, and that no buffer outgrows its capacity (the default of two for a size of
zero, where the documentation promises none). What is promised is defined over
the whole history of a buffer, what `add()` does over the buffer alone;
`ExpectedAppend` shows that the promise for one message more is what `add()` makes of
the promise so far, for either strategy, and with it the invariant is inductive.

`SocketsEffects_proofs`: `TypeOK`, `QuietLogoutIsFinal` and `SocketsFollowUser`, for
every chain of links and any number of controllers, and `NoLoginIsForgotten` of
`LoginReports`, which implements `SocketsEffects`. The properties speak of the time
between tasks; the invariants have to say what is on its way in the queue.

- `QuietInv`: after a quiet logout nothing that opens sockets is queued, waits or is
  timed, and the sockets are down already or the closing that puts them down is queued.
- `AllLeft`: a controller without a connection is of nobody (`Stray`): no request of it is
  on its way, and those still to be made are marked as asked for earlier. So what a later
  connection is authorized with was asked for on that connection, or is marked.
- `FollowInv`: without races there are requests of one kind in flight, and what was true
  of the user when they were sent still is, so that their answer cannot bring back
  somebody who is gone. Each socket that the owner holds is `Mine`, its authorization and
  every request on its way to one carry the present user or a mark; or else the closing
  of all sockets is on its way before the queue is empty, which leaves them without a
  connection, and `AllLeft` makes them `Mine` again.
- `LoginInv`: a login that is owed a report has, at each moment, one of the things that
  end in a report: its request, an action in the queue that leads to an `init()` or to
  its outcome, an `init()` that is heard, or a `closeAll()` with a reopening after it.

Assumptions are the `ASSUME`s of the modules: types of the constants, that users
are not 0, the number that stands for nobody, that a chain of sockets is a sequence
of links, none of them empty, and that the request of a refresh bypasses the
interceptor.

Every invariant and every refinement that a passing run checks is proved, `LifecycleSpec`
under `AnsweredWhenLate`. Only model-checked are
the liveness properties, that closing ends among them: TLAPS 1.4.5 does not reason about
`ENABLED`.

## Not modelled

- forms: generated stubs. `version.mjs`, build files, generated documentation.
- Controller: serializers, ids chosen by `setRequestId` that clash, the counters
  given to reconnection callbacks, `forkJoin` of an empty list of requests.
- JWT: `setJwt()`/`deleteJwt()` called by the application, pairs with one token
  missing, a backend that answers within the call, callbacks that call the
  service again, several tabs: what the backend does to the tokens of another tab
  is not in the repository.
- Guard: several guards on one route.
- Requests: how a URL matches `excludeUrls`, serializers that throw, the wording
  of texts, the appendix and the context of reports.
- Sockets: `initSockets` and `closeSockets` dispatched by the application, empty
  links, `doNotThrowWhenOpened`, the limit on resubscriptions of an effect, authorization
  or subscription without `isResponseSuccessful`, the tokens (not the user info) that a
  request carries.

### What the properties leave out

- `GrantedMeansLoggedIn` excepts a guard that is not configured, and custom actions: an
  answer that the application owes for the `loginAgain` of an earlier navigation is heard
  by the next one, which passes without a user.
- `DeniedIsTold` says when a denied navigation is told of. It does not say that nobody
  else is: the listener is also called for guards that are gone.
- `NoLoginIsForgotten` excepts an `init()` that throws, of which the application is never
  told. It is an invariant: what would end in a report is there. An `init()` may wait for
  ever, for nothing bounds how long a socket takes to open, and then no report is made.
- `SocketsFollowUser` excepts stray authorizations. The code lets a request that was asked
  for before the connection opened authorize it, as the user who was logged in then: after
  a `loginAs()`, the former one. No document speaks of it; it is listed among the hazards.
- `QuietLogoutIsFinal` is about logouts that find no `init()` half done, no reopen timer,
  no subscription of `reOpenOnLoginAs$` and no socket that the owner has lost. In the
  other cases sockets may be opened after the logout, as `AfterLogoutClosed` shows for one.
- The properties about who owns tokens (`StoredIsMasters`, `GivenToOwner`,
  `CallerIsRestored`, `UserOwnsTokens`) except requests that raced, which the code does
  not order.
- `LostSocketIsReplaced` excepts sockets that the user closes by hand meanwhile: `close()`
  is documented to cancel the reconnection.
- Nothing says that a timeout of an earlier connection must not close a later one, or
  that a state pending is left when the constructor of the `WebSocket` has thrown: the code
  does both, and no document speaks of either.

## Plan

Done: every component but forms and the build. What would add most, in this
order:

1. `SocketsEffects` over the real `WebSocketController`: the abstract controller as a
   refinement of it.
2. Callbacks that call `withFreshJwt()` again, a refresh that answers within the call,
   and a second tab.

## Running

    tlc -config ControllerAsync.cfg MCWebSocketController.tla
    tlapm WebSocketController_proofs.tla

`PROJECT.json` lists every run with its module, the source lines each definition
stands for, the hazards of the code and the properties aimed at them, and for each
property a change of the code's model that breaks it. Those changed definitions
stand next to the originals, marked "Mutant of".
