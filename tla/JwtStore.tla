------------------------------- MODULE JwtStore -------------------------------
(***************************************************************************)
(* The NgRx side of ngx-customapp-jwt, jwt.effects.ts and the reducers of  *)
(* the user and of the stash of users, composed with JwtService.           *)
(*                                                                         *)
(* An answer of the backend, the action an effect makes of it, and the     *)
(* actions that other effects make of that one are dispatched in one task, *)
(* so each action here is an action of JwtService and what it does to the  *)
(* store.  The *InProcess flags are the subject of JwtGuard.               *)
(***************************************************************************)
EXTENDS JwtService, FiniteSets

CONSTANTS MaxInFlight,  \* bound: requests, and callbacks waiting for a refresh, at a time
          CallersMeet   \* bound: only calls that meet are recorded, see Recorded

ASSUME StoreAssumption == MaxInFlight \in Nat /\ CallersMeet \in BOOLEAN

VARIABLE store   \* the user shown, 0 when undefined, and the users who called loginAs

allVars == <<vars, store>>

Stores == [user: Users \cup {0}, stash: Seq(Users)]

EmptyStore == [user |-> 0, stash |-> <<>>]

StoreInit == Init /\ store = EmptyStore

\* loginSetUser$ at loginSucceed and loginAgainSucceed.
LoginSetUser(user) == [store EXCEPT !.user = user]

\* stashUser$ at loginAsSucceed: with no user to stash the effect fails, and the user
\* who was logged in as is never shown.
StashUser(user) ==
  IF store.user = 0 THEN store
  ELSE [user |-> user, stash |-> Append(store.stash, store.user)]

\* unstashUser$ at logoutSucceed.
UnstashUser ==
  LET n == Len(store.stash)
  IN  IF n = 0 THEN EmptyStore
      ELSE [user |-> store.stash[n], stash |-> SubSeq(store.stash, 1, n - 1)]

\* withFreshJwt() is about to find no fresh tokens: a logout() that waits then succeeds.
NoFreshJwt == svc.jwt = 0 \/ tokens[svc.jwt].age = "dead"

LogoutWaits == Waiting(svc, "logout") # {}

\* Mutant of Flushed: a waiting logout that is flushed is not seen by the store.
FlushedUnseen(none) == UNCHANGED store

Flushed(none) == store' = IF none /\ LogoutWaits THEN UnstashUser ELSE store
-------------------------------------------------------------------------------
StoreCall(freshOnly) == CallWithFreshJwt(freshOnly) /\ Flushed(NoFreshJwt)

StoreLogin(user) == Login(user) /\ UNCHANGED store

\* The guard asks for tokens only while the store has no user.
StoreLoginAgain == store.user = 0 /\ LoginAgain /\ Flushed(NoFreshJwt)

StoreLoginAs(user) == LoginAs(user) /\ Flushed(NoFreshJwt)

StoreLogout == Logout /\ store' = IF NoFreshJwt THEN UnstashUser ELSE store

StoreLoginAnswered(r, outcome) ==
  /\ LoginAnswered(r, outcome)
  /\ store' = IF outcome = "error" THEN store ELSE LoginSetUser(r.user)

StoreLoginAsAnswered(r, outcome) ==
  /\ LoginAsAnswered(r, outcome)
  /\ store' = IF outcome = "ok" THEN StashUser(r.user) ELSE store

StoreLogoutAnswered(r, outcome) ==
  /\ LogoutAnswered(r, outcome)
  /\ store' = IF outcome = "ok" THEN UnstashUser ELSE store

StoreRefreshAnswered(r, outcome) == RefreshAnswered(r, outcome) /\ Flushed(outcome = "error")

StoreExpires(t) == Expires(t) /\ UNCHANGED store

StoreReload == Reload /\ store' = EmptyStore

\* Bound: if CallersMeet, a call beside the first is recorded only if that is of the other
\* kind and waits.
Recorded(freshOnly) ==
  \/ ~CallersMeet
  \/ callers = <<>>
  \/ freshOnly /\ \E w \in svc.waiting : w.for = "caller" /\ ~w.callWithFreshOnly

StoreNext ==
  \/ /\ Cardinality(svc.asked \ Refreshes) + Cardinality(svc.waiting) < MaxInFlight
     /\ \/ \E freshOnly \in BOOLEAN : Recorded(freshOnly) /\ StoreCall(freshOnly)
        \/ \E user \in Masters : StoreLogin(user)
        \/ \E user \in Targets : StoreLoginAs(user)
        \/ StoreLogout
        \/ StoreLoginAgain
  \/ \E r \in svc.asked, outcome \in {"ok", "noTokens", "error"} : StoreLoginAnswered(r, outcome)
  \/ \E r \in svc.asked, outcome \in {"ok", "error"} :
       \/ StoreLoginAsAnswered(r, outcome)
       \/ StoreLogoutAnswered(r, outcome)
       \/ StoreRefreshAnswered(r, outcome)
  \/ \E t \in DOMAIN tokens : StoreExpires(t)
  \/ StoreReload

StoreSpec == StoreInit /\ [][StoreNext]_allVars

FairStoreSpec == StoreSpec /\ WF_allVars(\E r \in svc.asked : StoreRefreshAnswered(r, "error"))
-------------------------------------------------------------------------------
StoreTypeOK == TypeOK /\ store \in Stores

\* Unless requests raced, the user shown by the store is the owner of the tokens the
\* service sends, and the users stashed are the owners of the tokens stashed, counted from
\* the top: two stacks, pushed and popped by different code, stay in step.
UserOwnsTokens ==
  LET n == Len(store.stash)
      m == Len(svc.stash)
  IN  ~raced =>
        /\ store.user # 0 /\ svc.jwt # 0 => store.user = UserOf(svc.jwt)
        /\ n <= m
        /\ \A i \in 1..n : store.stash[i] = UserOf(svc.stash[m - n + i])
===============================================================================
