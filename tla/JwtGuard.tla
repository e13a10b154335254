------------------------------- MODULE JwtGuard -------------------------------
(***************************************************************************)
(* JwtGuard.canActivate() together with what it depends on: JwtEffects,    *)
(* the reducers of the JWT store with their *InProcess flags, and the      *)
(* tokens, of which only the age is told apart.  The tokens themselves,    *)
(* and whose they are, are the subject of JwtService and JwtStore.         *)
(*                                                                         *)
(* NgRx handles actions one after the other in the task that dispatched    *)
(* the first: for each, the reducers run, then store.select() emits, then  *)
(* actions$.  While queue is not empty nothing else happens.  The router   *)
(* starts a navigation in a task of its own, and JwtApi answers later than *)
(* it is called.                                                           *)
(***************************************************************************)
EXTENDS Integers, Sequences

CONSTANTS
  Configs,    \* configurations of the guard: "off", with "default" or "custom" ready actions
  Tells,      \* settings of callWhen.guardNotFoundJwt
  MaxDepth    \* bound: calls of loginAs() within one another

ASSUME GuardAssumption ==
  Configs \subseteq {"off", "default", "custom"} /\ Tells \subseteq BOOLEAN /\ MaxDepth \in Nat

VARIABLES
  config,      \* the configuration
  tells,       \* whether NoFreshJwtListener is called for the guard: guardNotFoundJwt
  session,     \* the tokens: no usable refresh token, an expired access token, or fresh
  under,       \* how many pairs of tokens JwtService has stashed
  refreshing,  \* whether a refresh of the tokens is in flight
  waiting,     \* who waits for it; "gone": a guard whose navigation is over or replaced
  busy,        \* the exhaustMaps of JwtEffects that have an inner observable
  queue,       \* the actions dispatched and not yet handled
  flags,       \* the *InProcess flags that are set in the store
  user,        \* whether there is a user in the store
  stash,       \* how many users are stashed in the store
  owes,        \* the custom ready actions that the application will choose from
  nav          \* the last navigation

vars == <<config, tells, session, under, refreshing, waiting, busy, queue, flags, user, stash, owes, nav>>

Ops == {"login", "loginAgain", "loginAs", "logout"}

\* What is in the queue: actions of JwtActions and of the application.
Actions ==
  Ops \X {"start", "succeed", "errored"}
    \cup {"setUser"} \X {"user", "nobody"} \cup {<<"stash", "user">>, <<"unstash", "user">>}
    \cup {"app"} \X {"ready", "notReady"}

\* phase: the guard is not asked yet, waits for tokens, listens to actions$, or has answered.
\* told: NoFreshJwtListener was called for a guard since it was scheduled.  even: tells a navigation from the one before.
Navigations == [phase: {"idle", "scheduled", "waiting", "listening", "granted", "denied"},
                told: BOOLEAN, even: BOOLEAN]

Pending == nav.phase \in {"waiting", "listening"}

Init ==
  /\ config \in Configs /\ tells \in Tells
  /\ session \in {"none", "stale", "fresh"} /\ under = 0
  /\ refreshing = FALSE /\ waiting = {} /\ busy = {}
  /\ queue = <<>> /\ flags = {} /\ user = FALSE /\ stash = 0 /\ owes = {}
  /\ nav = [phase |-> "idle", told |-> FALSE, even |-> FALSE]

\* JwtConfig.jwtGuard: the actions on which the navigation goes on or is cancelled.
ActionAppReady == IF config = "custom" THEN <<"app", "ready">> ELSE <<"loginAgain", "succeed">>

ActionAppNotReady == IF config = "custom" THEN <<"app", "notReady">> ELSE <<"loginAgain", "errored">>
-------------------------------------------------------------------------------
\* Tokens.

\* _logoutSucceed: the tokens of who called loginAs(), whatever has become of them.
Popped == IF under = 0 THEN {"none"} ELSE {"none", "stale", "fresh"}

\* What a task does not touch, besides the tokens and the queue.
Store == <<config, tells, flags, user, stash>>

\* withFreshJwt() calls back everybody who waits.  With tokens the effects make their
\* request and the guard dispatches loginAgain before it listens; without, loginAs() errors,
\* logout() succeeds, and the guard says no.  The call of a guard that is gone is still in
\* _waitingForRefresh: nobody listens to its callback, but NoFreshJwtListener is called.
CalledBack(who, fresh, rest, running) ==
  /\ waiting' = {}
  /\ busy' = IF fresh THEN running ELSE running \ who
  /\ queue' = rest \o
       IF fresh THEN (IF "guard" \in who THEN <<<<"loginAgain", "start">>>> ELSE <<>>)
       ELSE (IF "loginAs" \in who THEN <<<<"loginAs", "errored">>>> ELSE <<>>)
              \o (IF "logout" \in who THEN <<<<"logout", "succeed">>>> ELSE <<>>)
  /\ nav' = [nav EXCEPT
       !.phase = IF "guard" \notin who THEN @ ELSE IF fresh THEN "listening" ELSE "denied",
       !.told = @ \/ (tells /\ ~fresh /\ who \cap {"guard", "gone"} # {})]
  /\ IF ~fresh /\ "logout" \in who
     THEN session' \in Popped /\ under' = IF under = 0 THEN 0 ELSE under - 1
     ELSE session' = (IF fresh THEN "fresh" ELSE "none") /\ UNCHANGED under

\* Mutant of WithFreshJwt: who comes while a refresh is in flight is forgotten.
WithFreshJwtForgets(who, others, rest, running) ==
  \/ /\ session = "stale"
     /\ refreshing' = TRUE /\ waiting' = (IF refreshing THEN others ELSE others \cup {who})
     /\ busy' = running /\ queue' = rest
     /\ nav' = IF who = "guard" THEN [nav EXCEPT !.phase = "waiting"] ELSE nav
     /\ UNCHANGED <<session, under>>
  \/ /\ session # "stale" /\ CalledBack(others \cup {who}, session = "fresh", rest, running)
     /\ UNCHANGED refreshing

\* withFreshJwt(): whoever waits already is called back with the caller.
WithFreshJwt(who, others, rest, running) ==
  \/ /\ session = "stale"
     /\ refreshing' = TRUE /\ waiting' = others \cup {who}
     /\ busy' = running /\ queue' = rest
     /\ nav' = IF who = "guard" THEN [nav EXCEPT !.phase = "waiting"] ELSE nav
     /\ UNCHANGED <<session, under>>
  \/ /\ session # "stale" /\ CalledBack(others \cup {who}, session = "fresh", rest, running)
     /\ UNCHANGED refreshing
-------------------------------------------------------------------------------
\* The action at the head of the queue is handled.

At(action) == queue # <<>> /\ Head(queue) = action

\* Mutant of Heard: a failed authorization is not told to NoFreshJwtListener.
HeardQuietly(action) ==
  CASE nav.phase # "listening" \/ action \notin {ActionAppReady, ActionAppNotReady} -> nav
    [] nav.phase = "listening" /\ action = ActionAppReady -> [nav EXCEPT !.phase = "granted"]
    [] nav.phase = "listening" /\ action = ActionAppNotReady -> [nav EXCEPT !.phase = "denied"]

\* Mutant of Heard: the guard listens for actionAppReady only.
HeardReady(action) ==
  IF nav.phase = "listening" /\ action = ActionAppReady THEN [nav EXCEPT !.phase = "granted"] ELSE nav

\* The guard listens to actions$ for the two actions of its configuration.
Heard(action) ==
  CASE nav.phase # "listening" \/ action \notin {ActionAppReady, ActionAppNotReady} -> nav
    [] nav.phase = "listening" /\ action = ActionAppReady -> [nav EXCEPT !.phase = "granted"]
    [] nav.phase = "listening" /\ action = ActionAppNotReady ->
         [nav EXCEPT !.phase = "denied", !.told = tells]

\* login$ and loginAgain$ make a request at once, unless exhaustMap drops the action.
StartLogin(op) ==
  /\ op \in {"login", "loginAgain"} /\ At(<<op, "start">>)
  /\ flags' = flags \cup {op} /\ busy' = busy \cup {op}
  /\ queue' = Tail(queue)
  /\ UNCHANGED <<config, tells, session, under, refreshing, waiting, user, stash, owes, nav>>

\* loginAs$ and logout$ ask for fresh tokens first.
StartWithTokens(op) ==
  /\ op \in {"loginAs", "logout"} /\ At(<<op, "start">>)
  /\ flags' = flags \cup {op}
  /\ \/ /\ op \in busy /\ queue' = Tail(queue)
        /\ UNCHANGED <<session, under, refreshing, waiting, busy, nav>>
     \/ /\ op \notin busy /\ WithFreshJwt(op, waiting, Tail(queue), busy \cup {op})
  /\ UNCHANGED <<config, tells, user, stash, owes>>

SetUser(u) == <<"setUser", IF u THEN "user" ELSE "nobody">>

\* Mutant of Follow: loginSetUser$ does not hear loginAgainSucceed.
FollowLoginOnly(action) ==
  CASE action = <<"login", "succeed">> -> <<SetUser(TRUE)>>
    [] action = <<"loginAs", "succeed">> /\ user -> <<<<"stash", "user">>, SetUser(TRUE)>>
    [] action = <<"logout", "succeed">> -> <<SetUser(stash > 0), <<"unstash", "user">>>>
    [] OTHER -> <<>>

\* loginSetUser$, stashUser$, which throws without a user, and unstashUser$.
Follow(action) ==
  CASE action \in {<<"login", "succeed">>, <<"loginAgain", "succeed">>} -> <<SetUser(TRUE)>>
    [] action = <<"loginAs", "succeed">> /\ user -> <<<<"stash", "user">>, SetUser(TRUE)>>
    [] action = <<"logout", "succeed">> -> <<SetUser(stash > 0), <<"unstash", "user">>>>
    [] OTHER -> <<>>

\* Mutant of ReduceOutcome: logoutInProcess is not reset by logoutErrored.
ReduceSuccess(op, how) == IF op = "logout" /\ how = "errored" THEN flags ELSE flags \ {op}

\* The reducers of the *InProcess flags.
ReduceOutcome(op, how) == flags \ {op}

\* The outcome of a request.  With custom actions the application will say whether it is
\* ready after loginAgainSucceed, and that it is not after loginAgainErrored.
Outcome(op, how) ==
  /\ At(<<op, how>>)
  /\ flags' = ReduceOutcome(op, how)
  /\ nav' = Heard(<<op, how>>)
  /\ queue' = Tail(queue) \o Follow(<<op, how>>)
  /\ owes' = CASE config # "custom" \/ op # "loginAgain" -> owes
               [] config = "custom" /\ op = "loginAgain" ->
                    IF how = "succeed" THEN {"ready", "notReady"} ELSE {"notReady"}
  /\ UNCHANGED <<config, tells, session, under, refreshing, waiting, busy, user, stash>>

\* A guard is unsubscribed from.  Its call stays in _waitingForRefresh.
Leave == IF "guard" \in waiting THEN (waiting \ {"guard"}) \cup {"gone"} ELSE waiting

\* The reducer of the user, and the guard, which still listens to selectJwtUser and goes on
\* as soon as there is a user.
ReduceUser(u) ==
  /\ At(SetUser(u))
  /\ user' = u
  /\ nav' = IF u /\ Pending THEN [nav EXCEPT !.phase = "granted"] ELSE nav
  /\ waiting' = IF u THEN Leave ELSE waiting
  /\ queue' = Tail(queue)
  /\ UNCHANGED <<config, tells, session, under, refreshing, busy, flags, stash, owes>>

\* Mutant of ReduceStash: an empty stash is not told apart.
ReduceStashUnchecked ==
  /\ \/ At(<<"stash", "user">>) /\ stash' = stash + 1
     \/ At(<<"unstash", "user">>) /\ stash' = stash - 1
  /\ queue' = Tail(queue)
  /\ UNCHANGED <<config, tells, session, under, refreshing, waiting, busy, flags, user, owes, nav>>

\* The reducer of the stash.
ReduceStash ==
  /\ \/ At(<<"stash", "user">>) /\ stash' = stash + 1
     \/ At(<<"unstash", "user">>) /\ stash' = IF stash = 0 THEN 0 ELSE stash - 1
  /\ queue' = Tail(queue)
  /\ UNCHANGED <<config, tells, session, under, refreshing, waiting, busy, flags, user, owes, nav>>

\* A custom action of the application reaches the guard.
HearApp(answer) ==
  /\ At(<<"app", answer>>)
  /\ nav' = Heard(<<"app", answer>>)
  /\ queue' = Tail(queue)
  /\ UNCHANGED <<config, tells, session, under, refreshing, waiting, busy, flags, user, stash, owes>>

Handle ==
  \/ \E op \in Ops : StartLogin(op) \/ StartWithTokens(op)
  \/ \E op \in Ops, how \in {"succeed", "errored"} : Outcome(op, how)
  \/ \E u \in BOOLEAN : ReduceUser(u)
  \/ ReduceStash
  \/ \E answer \in {"ready", "notReady"} : HearApp(answer)
-------------------------------------------------------------------------------
\* Tasks of the browser.

\* The application dispatches; loginAgain is dispatched by the guard only.
Dispatch(op) ==
  /\ queue = <<>>
  /\ op = "login" => ~user
  /\ op = "loginAs" => user /\ stash < MaxDepth /\ under < MaxDepth
  /\ queue' = <<<<op, "start">>>>
  /\ UNCHANGED <<Store, session, under, refreshing, waiting, busy, owes, nav>>

\* The router schedules a navigation, which cancels the one before: what its guard has
\* subscribed to is gone, but a refresh or a loginAgain that it has started goes on, and its
\* call of withFreshJwt() still waits.
Navigate ==
  /\ queue = <<>>
  /\ nav' = [phase |-> "scheduled", told |-> FALSE, even |-> ~nav.even]
  /\ waiting' = Leave
  /\ UNCHANGED <<Store, session, under, refreshing, busy, queue, owes>>

\* canActivate() with a user in the store, or when the guard is not configured.
CanActivateUser ==
  /\ queue = <<>> /\ nav.phase = "scheduled" /\ (user \/ config = "off")
  /\ nav' = [nav EXCEPT !.phase = "granted"]
  /\ UNCHANGED <<Store, session, under, refreshing, waiting, busy, queue, owes>>

\* canActivate() without a user asks for fresh tokens.
CanActivateTokens ==
  /\ queue = <<>> /\ nav.phase = "scheduled" /\ ~user /\ config # "off"
  /\ WithFreshJwt("guard", waiting, <<>>, busy)
  /\ UNCHANGED <<Store, owes>>

\* JwtApi answers: the outcome is dispatched, and exhaustMap is free again.
Answered(op, ok) ==
  /\ queue = <<>> /\ op \in busy \ waiting
  /\ busy' = busy \ {op}
  /\ queue' = <<<<op, IF ok THEN "succeed" ELSE "errored">>>>
  /\ UNCHANGED <<Store, refreshing, waiting, owes, nav>>

\* login(): the answer to an authorization by token may have no tokens; an error deletes
\* those there are.
LoginAnswered(op, ok) ==
  /\ op \in {"login", "loginAgain"} /\ Answered(op, ok)
  /\ session' \in IF ok THEN {session, "fresh"} ELSE {"none"}
  /\ UNCHANGED under

\* loginAs(): the tokens there are, if any, are stashed.
LoginAsAnswered(ok) ==
  /\ Answered("loginAs", ok)
  /\ session' = IF ok THEN "fresh" ELSE session
  /\ under' = under + IF ok /\ session # "none" THEN 1 ELSE 0

\* logout(): the tokens stashed last come back.
LogoutAnswered(ok) ==
  /\ Answered("logout", ok)
  /\ session' \in IF ok THEN Popped ELSE {session}
  /\ under' = IF ok /\ under > 0 THEN under - 1 ELSE under

\* The refresh is answered.
RefreshAnswered(ok) ==
  /\ queue = <<>> /\ refreshing
  /\ refreshing' = FALSE
  /\ CalledBack(waiting, ok, <<>>, busy)
  /\ UNCHANGED <<Store, owes>>

\* The application says, once, whether it is ready.
AppDecides(answer) ==
  /\ queue = <<>> /\ answer \in owes
  /\ owes' = {} /\ queue' = <<<<"app", answer>>>>
  /\ UNCHANGED <<Store, session, under, refreshing, waiting, busy, nav>>

\* A token expires.
Expires ==
  /\ queue = <<>>
  /\ \/ session = "fresh" /\ session' = "stale"
     \/ session # "none" /\ session' = "none"
  /\ UNCHANGED <<Store, under, refreshing, waiting, busy, queue, owes, nav>>

Replies(op) ==
  \E ok \in BOOLEAN :
    \/ LoginAnswered(op, ok)
    \/ op = "loginAs" /\ LoginAsAnswered(ok)
    \/ op = "logout" /\ LogoutAnswered(ok)

CanActivate == CanActivateUser \/ CanActivateTokens

Next ==
  \/ Handle
  \/ \E op \in {"login", "loginAs", "logout"} : Dispatch(op)
  \/ Navigate \/ CanActivate
  \/ \E op \in Ops : Replies(op)
  \/ \E ok \in BOOLEAN : RefreshAnswered(ok)
  \/ \E answer \in {"ready", "notReady"} : AppDecides(answer)
  \/ Expires

Spec == Init /\ [][Next]_vars

\* The queue is worked off, and a task that is due runs at last, although others come in
\* between: the guard is asked, requests are answered, and the application says whether it
\* is ready.
FairSpec ==
  /\ Spec
  /\ WF_vars(Handle) /\ SF_vars(CanActivate)
  /\ SF_vars(Replies("loginAgain")) /\ SF_vars(\E ok \in BOOLEAN : RefreshAnswered(ok))
  /\ SF_vars(\E answer \in {"ready", "notReady"} : AppDecides(answer))
-------------------------------------------------------------------------------
TypeOK ==
  /\ config \in Configs /\ tells \in Tells
  /\ session \in {"none", "stale", "fresh"} /\ under \in 0..MaxDepth
  /\ refreshing \in BOOLEAN /\ waiting \subseteq {"guard", "gone", "loginAs", "logout"}
  /\ busy \subseteq Ops /\ queue \in Seq(Actions) /\ flags \subseteq Ops
  /\ user \in BOOLEAN /\ stash \in 0..MaxDepth
  /\ owes \subseteq {"ready", "notReady"} /\ nav \in Navigations

\* Once the actions of a task are handled, an *InProcess flag is set exactly while its
\* request, or its wait for tokens, is in progress: whatever exhaustMap drops, and however
\* the request ends.
FlagsFollowRequests == queue = <<>> => flags = busy

\* A guard that listens to actions$ has something to hear: a loginAgain in progress, be it
\* that of an earlier guard, or an answer that the application owes; and a guard that waits
\* for tokens has a refresh.  No navigation waits for an action that has passed already.
GuardHearsAnAnswer ==
  queue = <<>> =>
    /\ nav.phase = "listening" => "loginAgain" \in busy \/ owes # {}
    /\ nav.phase = "waiting" => refreshing /\ "guard" \in waiting

\* A configured guard lets nobody pass who is not logged in: at that moment there is a user in the
\* store, or the action that sets one follows at once.  With custom actions an answer that
\* the application owes for an earlier loginAgain lets the next navigation pass without.
GrantedMeansLoggedIn ==
  [][nav'.phase = "granted" /\ nav.phase # "granted" /\ config # "off"
       => \/ user' \/ \E i \in DOMAIN queue' : queue'[i] = SetUser(TRUE)
          \/ At(ActionAppReady) /\ config = "custom"]_vars

\* NoFreshJwtListener is called for every navigation that is denied, whether the tokens, the
\* refresh or the loginAgain has failed, when guardNotFoundJwt is set; and for none when it
\* is not, not even for guards that are gone ("If all fields are false, NoFreshJwtListener
\* is never called").
DeniedIsTold == IF tells THEN nav.phase = "denied" => nav.told ELSE ~nav.told

\* The guard answers every navigation that is not cancelled by the next one.
GuardAnswers ==
  \A even \in BOOLEAN :
    (nav.even = even /\ nav.phase \in {"scheduled", "waiting", "listening"})
      ~> (nav.even # even \/ nav.phase \in {"granted", "denied"})
===============================================================================
