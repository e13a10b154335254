------------------------------ MODULE JwtService ------------------------------
(***************************************************************************)
(* JwtService of ngx-customapp-jwt, jwt.service.ts, with the backend that  *)
(* JwtApi talks to, the localStorage and the clock that expires tokens.    *)
(*                                                                         *)
(* As in the controller's module the service is one record, each method is *)
(* an operator from the record before the call to the one after it, and an *)
(* action is one task: a call from outside, or an answer of the backend.   *)
(* login(), loginAs() and logout() are called by the effects, which have   *)
(* one call of each action type in progress at most (exhaustMap); the      *)
(* JwtGuard asks for fresh tokens and dispatches loginAgain with them.     *)
(*                                                                         *)
(* A pair of tokens (JwtGroup) is its index in the list of all that were   *)
(* issued; 0 is "no tokens".  Answers of the backend come in later tasks,  *)
(* and its own requests are not intercepted by the JwtInterceptor.         *)
(***************************************************************************)
EXTENDS Integers, Sequences

CONSTANTS
  Masters,    \* who can log in with credentials
  Targets,    \* who can be logged in as
  MaxTokens,  \* bound: pairs of tokens the backend issues
  MaxCallers  \* bound: calls of withFreshJwt() and freshJwt()

ASSUME JwtAssumption ==
  /\ Masters \subseteq Nat \ {0} /\ Targets \subseteq Nat \ {0}
  /\ MaxTokens \in Nat /\ MaxCallers \in Nat

VARIABLES
  svc,        \* the service, the localStorage and the requests in flight
  tokens,     \* the pairs issued so far
  callers,    \* history: the calls of withFreshJwt() and what each was told
  raced       \* history: two requests were in flight at once, or tokens expired meanwhile

vars == <<svc, tokens, callers, raced>>

Users == Masters \cup Targets

\* Both tokens of a pair good; the access token expired (by isJwtExpired); both expired.
Ages == {"fresh", "stale", "dead"}

Tokens == [user: Users, via: {"login", "loginAs"}, age: Ages]

\* JwtRefreshCall.  loginAs(), logout() and the JwtGuard wait too: freshJwt() is
\* bindCallback of withFreshJwt(); their callbacks go on with a request.  id is a
\* caller's number.
Waits == [for: {"caller", "loginAs", "logout", "guard"}, id: Nat, user: Users \cup {0},
          callWithFreshOnly: BOOLEAN]

\* A request of JwtApi in flight: with which tokens, and for which user.
Asked == [op: {"login", "loginAgain", "loginAs", "logout", "refresh"}, with: Nat,
          user: Users \cup {0}]

\* What became of a call of withFreshJwt(): how often its callback was called, the tokens
\* it was given last, whether it was dropped uncalled.  owner: who was logged in before.
Callers == [owner: Users \cup {0}, called: Nat, given: Nat, dropped: BOOLEAN]

Services == [jwt: Nat, stash: Seq(Nat), storage: Nat, refresh: BOOLEAN,
             waiting: SUBSET Waits, asked: SUBSET Asked]

\* The service after a page load: _loadJwt.
Loaded(storage) == [jwt |-> storage, stash |-> <<>>, storage |-> storage, refresh |-> FALSE,
                    waiting |-> {}, asked |-> {}]

Init == svc = Loaded(0) /\ tokens = <<>> /\ callers = <<>> /\ raced = FALSE
-------------------------------------------------------------------------------
UserOf(t) == IF t = 0 THEN 0 ELSE tokens[t].user

IsMasterUser(s) == s.stash = <<>>

\* Mutant of SetJwt: also the tokens of a loginAs() are saved.
SetJwtAlwaysSaves(s, t) == [s EXCEPT !.jwt = t, !.storage = t]

SetJwt(s, t) == [s EXCEPT !.jwt = t, !.storage = IF IsMasterUser(s) THEN t ELSE @]

DeleteJwt(s) == [s EXCEPT !.jwt = 0, !.storage = IF IsMasterUser(s) THEN 0 ELSE @]

StashJwt(s, t) ==
  [s EXCEPT !.stash = IF s.jwt # 0 THEN Append(@, s.jwt) ELSE @, !.jwt = t]

UnstashJwt(s) ==
  IF IsMasterUser(s) THEN [s EXCEPT !.jwt = 0]
  ELSE [s EXCEPT !.jwt = s.stash[Len(s.stash)], !.stash = SubSeq(@, 1, Len(@) - 1)]

\* Mutant of LogoutSucceed: the stash is popped before the tokens are deleted.
LogoutSucceedSwapped(s) == DeleteJwt(UnstashJwt(s))

LogoutSucceed(s) == UnstashJwt(DeleteJwt(s))

Waiting(s, what) == {w \in s.waiting : w.for = what}

\* The requests that the waiting callbacks go on with, given the tokens t of owner.  The
\* guard dispatches loginAgain, which exhaustMap drops while one is in flight.
Continued(s, t, owner) ==
  {[op |-> w.for, with |-> t, user |-> w.user] :
     w \in Waiting(s, "loginAs") \cup Waiting(s, "logout")}
  \cup {[op |-> "loginAgain", with |-> t, user |-> owner] :
          w \in {g \in Waiting(s, "guard") : \A r \in s.asked : r.op # "loginAgain"}}

\* Mutant of FlushFresh: `this._waitingForRefresh = []` is missing.
FlushFreshKeepsWaiting(s, t, owner) == [s EXCEPT !.asked = @ \cup Continued(s, t, owner)]

\* freshJwt of withFreshJwt: every waiting callback gets the tokens t.  The callbacks do
\* not depend on each other, so their order is left out.
FlushFresh(s, t, owner) ==
  [s EXCEPT !.waiting = {}, !.asked = @ \cup Continued(s, t, owner)]

\* Mutant of FlushNone: `this._waitingForRefresh = []` is missing.
FlushNoneKeepsWaiting(s) ==
  IF Waiting(s, "logout") = {} THEN DeleteJwt(s) ELSE LogoutSucceed(DeleteJwt(s))

\* noFreshJwt of withFreshJwt: loginAs() errors, logout() succeeds without a request.
FlushNone(s) ==
  LET deleted == [DeleteJwt(s) EXCEPT !.waiting = {}]
  IN  IF Waiting(s, "logout") = {} THEN deleted ELSE LogoutSucceed(deleted)

\* The call that the waiting callbacks ws were made by, once they are flushed with the
\* tokens t: called, or dropped when there are none and it wants fresh ones only.
Settled(call, ws, t) ==
  IF ws = {} THEN call
  ELSE IF t = 0 /\ \A w \in ws : w.callWithFreshOnly THEN [call EXCEPT !.dropped = TRUE]
  ELSE [call EXCEPT !.called = call.called + 1, !.given = t]

Tell(before, waiting, t) ==
  [i \in DOMAIN before |->
     Settled(before[i], {w \in waiting : w.for = "caller" /\ w.id = i}, t)]

\* Mutant of WithFreshJwt: a refresh is started for every call.
WithFreshJwtAlwaysRefreshes(w, before) ==
  LET s == [svc EXCEPT !.waiting = @ \cup {w}]
      age == IF s.jwt = 0 THEN "dead" ELSE tokens[s.jwt].age
  IN  CASE age = "dead" -> svc' = FlushNone(s) /\ callers' = Tell(before, s.waiting, 0)
        [] age = "stale" ->
             /\ svc' = [s EXCEPT !.refresh = TRUE,
                           !.asked = @ \cup {[op |-> "refresh", with |-> s.jwt, user |-> 0]}]
             /\ callers' = before
        [] age = "fresh" -> svc' = FlushFresh(s, s.jwt, UserOf(s.jwt)) /\ callers' = Tell(before, s.waiting, s.jwt)

\* Mutant of WithFreshJwt: the tokens in the localStorage are refreshed, if any, not _jwt.
WithFreshJwtRefreshesStored(w, before) ==
  LET s == [svc EXCEPT !.waiting = @ \cup {w}]
      age == IF s.jwt = 0 THEN "dead" ELSE tokens[s.jwt].age
  IN  CASE age = "dead" -> svc' = FlushNone(s) /\ callers' = Tell(before, s.waiting, 0)
        [] age = "stale" ->
             /\ svc' = IF s.refresh THEN s
                       ELSE [s EXCEPT !.refresh = TRUE,
                               !.asked = @ \cup {[op |-> "refresh", user |-> 0,
                                                    with |-> IF s.storage = 0 THEN s.jwt ELSE s.storage]}]
             /\ callers' = before
        [] age = "fresh" -> svc' = FlushFresh(s, s.jwt, UserOf(s.jwt)) /\ callers' = Tell(before, s.waiting, s.jwt)

\* Mutant of WithFreshJwt: only the refresh token is looked at.
WithFreshJwtTrustsAccess(w, before) ==
  LET s == [svc EXCEPT !.waiting = @ \cup {w}]
  IN  IF s.jwt = 0 \/ tokens[s.jwt].age = "dead"
      THEN svc' = FlushNone(s) /\ callers' = Tell(before, s.waiting, 0)
      ELSE svc' = FlushFresh(s, s.jwt, UserOf(s.jwt)) /\ callers' = Tell(before, s.waiting, s.jwt)

\* withFreshJwt(): w is the callback, before the callers including the one of w.
WithFreshJwt(w, before) ==
  LET s == [svc EXCEPT !.waiting = @ \cup {w}]
      age == IF s.jwt = 0 THEN "dead" ELSE tokens[s.jwt].age
  IN  CASE age = "dead" -> svc' = FlushNone(s) /\ callers' = Tell(before, s.waiting, 0)
        [] age = "stale" ->
             /\ svc' = IF s.refresh THEN s
                       ELSE [s EXCEPT !.refresh = TRUE,
                               !.asked = @ \cup {[op |-> "refresh", with |-> s.jwt, user |-> 0]}]
             /\ callers' = before
        [] age = "fresh" -> svc' = FlushFresh(s, s.jwt, UserOf(s.jwt)) /\ callers' = Tell(before, s.waiting, s.jwt)

\* exhaustMap of the effects: a call in progress swallows the next one of its type.
InProgress(op) == Waiting(svc, op) # {} \/ \E r \in svc.asked : r.op = op

NoteRaces == raced' = (raced \/ \E r1, r2 \in svc'.asked : r1 # r2)

Issue(user, via) == tokens' = Append(tokens, [user |-> user, via |-> via, age |-> "fresh"])
-------------------------------------------------------------------------------
\* The JwtInterceptor, the JwtGuard, a socket or the application wants fresh tokens.
CallWithFreshJwt(freshOnly) ==
  /\ Len(callers) < MaxCallers
  /\ LET id == Len(callers) + 1
     IN  WithFreshJwt([for |-> "caller", id |-> id, user |-> 0, callWithFreshOnly |-> freshOnly],
                      Append(callers, [owner |-> UserOf(svc.jwt), called |-> 0, given |-> 0,
                                       dropped |-> FALSE]))
  /\ NoteRaces
  /\ UNCHANGED tokens

Login(user) ==
  /\ ~InProgress("login")
  /\ svc' = [svc EXCEPT !.asked = @ \cup {[op |-> "login", with |-> 0, user |-> user]}]
  /\ NoteRaces
  /\ UNCHANGED <<tokens, callers>>

LoginAs(user) ==
  /\ ~InProgress("loginAs")
  /\ WithFreshJwt([for |-> "loginAs", id |-> 0, user |-> user, callWithFreshOnly |-> FALSE], callers)
  /\ NoteRaces
  /\ UNCHANGED tokens

Logout ==
  /\ ~InProgress("logout")
  /\ WithFreshJwt([for |-> "logout", id |-> 0, user |-> 0, callWithFreshOnly |-> FALSE], callers)
  /\ NoteRaces
  /\ UNCHANGED tokens

\* JwtGuard.canActivate with no user in the store: the credentials are the tokens.
LoginAgain ==
  /\ WithFreshJwt([for |-> "guard", id |-> 0, user |-> 0, callWithFreshOnly |-> FALSE], callers)
  /\ NoteRaces
  /\ UNCHANGED tokens

Without(r) == [svc EXCEPT !.asked = @ \ {r}]

\* Mutant of LoginAnswered: jwtNotNull is not asked.
LoginAnsweredUnchecked(r, outcome) ==
  /\ r.op \in {"login", "loginAgain"}
  /\ CASE outcome = "ok" ->
            /\ Len(tokens) < MaxTokens
            /\ Issue(r.user, "login")
            /\ svc' = SetJwt(Without(r), Len(tokens) + 1)
       [] outcome = "noTokens" ->
            /\ r.op = "loginAgain"
            /\ svc' = SetJwt(Without(r), Len(tokens) + 1)
            /\ UNCHANGED tokens
       [] outcome = "error" -> svc' = DeleteJwt(Without(r)) /\ UNCHANGED tokens
  /\ UNCHANGED <<callers, raced>>

\* login(): a response may have no tokens, when the credentials were a token.
LoginAnswered(r, outcome) ==
  /\ r.op \in {"login", "loginAgain"}
  /\ CASE outcome = "ok" ->
            /\ Len(tokens) < MaxTokens
            /\ Issue(r.user, "login")
            /\ svc' = SetJwt(Without(r), Len(tokens) + 1)
       [] outcome = "noTokens" ->
            /\ r.op = "loginAgain"
            /\ svc' = Without(r)
            /\ UNCHANGED tokens
       [] outcome = "error" -> svc' = DeleteJwt(Without(r)) /\ UNCHANGED tokens
  /\ UNCHANGED <<callers, raced>>

\* loginAs(): a response without tokens is an error.
LoginAsAnswered(r, outcome) ==
  /\ r.op = "loginAs"
  /\ IF outcome = "ok"
     THEN /\ Len(tokens) < MaxTokens
          /\ Issue(r.user, "loginAs")
          /\ svc' = StashJwt(Without(r), Len(tokens) + 1)
     ELSE svc' = Without(r) /\ UNCHANGED tokens
  /\ UNCHANGED <<callers, raced>>

LogoutAnswered(r, outcome) ==
  /\ r.op = "logout"
  /\ svc' = IF outcome = "ok" THEN LogoutSucceed(Without(r)) ELSE Without(r)
  /\ UNCHANGED <<tokens, callers, raced>>

\* Mutant of RefreshAnswered: the waiting callbacks are left alone when it errored.
RefreshAnsweredForgets(r, outcome) ==
  /\ r.op = "refresh"
  /\ LET s == [Without(r) EXCEPT !.refresh = FALSE]
         new == Len(tokens) + 1
     IN  IF outcome = "ok"
         THEN /\ new <= MaxTokens
              /\ Issue(tokens[r.with].user, tokens[r.with].via)
              /\ svc' = FlushFresh(SetJwt(s, new), new, tokens[r.with].user)
              /\ callers' = Tell(callers, s.waiting, new)
         ELSE svc' = DeleteJwt(s) /\ UNCHANGED <<tokens, callers>>
  /\ NoteRaces

\* The subscriber of refresh().
RefreshAnswered(r, outcome) ==
  /\ r.op = "refresh"
  /\ LET s == [Without(r) EXCEPT !.refresh = FALSE]
         new == Len(tokens) + 1
     IN  IF outcome = "ok"
         THEN /\ new <= MaxTokens
              /\ Issue(tokens[r.with].user, tokens[r.with].via)
              /\ svc' = FlushFresh(SetJwt(s, new), new, tokens[r.with].user)
              /\ callers' = Tell(callers, s.waiting, new)
         ELSE /\ svc' = FlushNone(s)
              /\ callers' = Tell(callers, s.waiting, 0)
              /\ UNCHANGED tokens
  /\ NoteRaces

\* The clock.  Only tokens that somebody still holds are aged.
Expires(t) ==
  /\ t = svc.jwt \/ \E i \in DOMAIN svc.stash : t = svc.stash[i]
  /\ t # 0 /\ tokens[t].age # "dead"
  /\ LET older == IF tokens[t].age = "fresh" THEN "stale" ELSE "dead"
     IN  tokens' = [tokens EXCEPT ![t] = [user |-> @.user, via |-> @.via, age |-> older]]
  /\ raced' = (raced \/ svc.asked # {})
  /\ UNCHANGED <<svc, callers>>

\* The page is loaded again: only the localStorage survives.
Reload ==
  /\ svc' = Loaded(svc.storage)
  /\ callers' = [i \in DOMAIN callers |->
                   IF callers[i].called = 0 THEN [callers[i] EXCEPT !.dropped = TRUE]
                   ELSE callers[i]]
  /\ UNCHANGED <<tokens, raced>>

Next ==
  \/ \E freshOnly \in BOOLEAN : CallWithFreshJwt(freshOnly)
  \/ \E user \in Masters : Login(user)
  \/ \E user \in Targets : LoginAs(user)
  \/ Logout
  \/ LoginAgain
  \/ \E r \in svc.asked, outcome \in {"ok", "noTokens", "error"} : LoginAnswered(r, outcome)
  \/ \E r \in svc.asked, outcome \in {"ok", "error"} :
       LoginAsAnswered(r, outcome) \/ LogoutAnswered(r, outcome) \/ RefreshAnswered(r, outcome)
  \/ \E t \in DOMAIN tokens : Expires(t)
  \/ Reload

Spec == Init /\ [][Next]_vars

\* A refresh request ends: it is answered, or fails.
FairSpec == Spec /\ WF_vars(\E r \in svc.asked : RefreshAnswered(r, "error"))
-------------------------------------------------------------------------------
TypeOK ==
  /\ svc \in Services
  /\ tokens \in Seq(Tokens)
  /\ callers \in Seq(Callers)
  /\ raced \in BOOLEAN
  /\ {svc.jwt, svc.storage} \subseteq 0..Len(tokens)
  /\ \A i \in DOMAIN svc.stash : svc.stash[i] \in DOMAIN tokens
  /\ \A r \in svc.asked : r.with \in 0..Len(tokens)

Refreshes == {r \in svc.asked : r.op = "refresh"}

\* development.md: "Prohibit concurrent refreshes" -- whatever is called and answered in
\* between, and _refresh tells whether there is one.
OneRefresh ==
  /\ \A r1, r2 \in Refreshes : r1 = r2
  /\ svc.refresh = (Refreshes # {})

\* No callback is left in _waitingForRefresh unless a refresh is on its way to flush it:
\* nobody waits for ever, although the list is flushed and refilled by other calls too.
WaitersHaveARefresh == svc.waiting # {} => Refreshes # {}

\* A callback is called at most once, and not after it was dropped, however the calls, the
\* refresh and the logins mix ("should not call old callbacks twice", jwt.service.spec.ts).
CalledOnce ==
  \A i \in DOMAIN callers : callers[i].called <= 1 /\ ~(callers[i].called = 1 /\ callers[i].dropped)

\* What has become of a call of withFreshJwt().
StateOf(call) ==
  CASE call.called = 0 -> IF call.dropped THEN "dropped" ELSE "waiting"
    [] call.called = 1 /\ ~call.dropped -> IF call.given = 0 THEN "no tokens" ELSE "tokens"
    [] OTHER -> "called again"

\* Who else waits: the callbacks of loginAs(), of logout() and of the guard.
Others(ws) == {w.for : w \in {v \in ws : v.for # "caller"}}

Promise == INSTANCE FreshTokens WITH calls <- [i \in DOMAIN callers |-> StateOf(callers[i])],
                                     others <- Others(svc.waiting)

\* withFreshJwt() keeps what FreshTokens promises: a flush settles everybody who waits in
\* the same way, the callers and those who go on with a request, whichever call or answer
\* has caused it, and nothing settles them again.
FreshTokensSpec == Promise!Spec

\* Tokens are fresh when they are handed to a callback or put into a request: also for
\* a callback that has waited, and is flushed by somebody else's call.
FreshWhenHandedOut ==
  [][/\ \A i \in DOMAIN callers' :
          callers'[i].given # 0 /\ (i \in DOMAIN callers => callers[i] # callers'[i])
            => tokens'[callers'[i].given].age = "fresh"
     /\ \A r \in svc'.asked \ svc.asked :
          r.op \in {"loginAs", "logout", "loginAgain"} => tokens'[r.with].age = "fresh"]_vars

\* The tokens of loginAs() are never saved: after a reload the user is one who logged in
\* by himself (the comments of setJwt and of the stash functions).
OnlyMastersAreStored == svc.storage # 0 => tokens[svc.storage].via = "login"

\* Unless requests raced, the same; and the localStorage holds the tokens that the bottom
\* of the stash holds, through any nesting of loginAs(), refreshes, expiries and reloads.
StoredIsMasters ==
  ~raced => /\ OnlyMastersAreStored
            /\ svc.storage = IF IsMasterUser(svc) THEN svc.jwt ELSE svc.stash[1]

\* logout(): "will restore the JWT of the user, that called loginAs".  Unless requests raced,
\* a successful loginAs() puts the tokens it was asked with on the stash, a logout takes
\* back those on top, through any nesting, a page load those at the bottom, and nothing
\* else, a refresh or another login in between, touches the stash.
CallerIsRestored ==
  [][LET n == Len(svc.stash)
         m == Len(svc'.stash)
         LoggedInAs == {r \in svc.asked \ svc'.asked : r.op = "loginAs"}
     IN  ~raced' =>
           /\ Reload => svc'.jwt = (IF n = 0 THEN svc.jwt ELSE svc.stash[1]) /\ m = 0
           /\ ~Reload => \/ m = n /\ svc'.stash = svc.stash
                         \/ m = n + 1 /\ \E r \in LoggedInAs : svc'.stash = Append(svc.stash, r.with)
                         \/ m = n - 1 /\ svc'.jwt = svc.stash[n] /\ svc'.stash = SubSeq(svc.stash, 1, m)
           /\ LoggedInAs # {} /\ tokens' # tokens => m = n + 1]_vars

\* Unless requests raced, a callback gets tokens of the user it was called for, however
\* long it has waited.
GivenToOwner ==
  \A i \in DOMAIN callers :
    ~raced /\ callers[i].given # 0 => tokens[callers[i].given].user = callers[i].owner

\* Every call of withFreshJwt() is settled: again and again there is none that waits.
EveryCallIsSettled ==
  []<>(\A i \in DOMAIN callers : StateOf(callers[i]) # "waiting")
===============================================================================
