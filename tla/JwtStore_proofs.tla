---------------------------- MODULE JwtStore_proofs ----------------------------
(***************************************************************************)
(* The proof that JwtStore composes: with the store beside it JwtService   *)
(* does what it does alone, so that what is proved of JwtService and of    *)
(* FreshTokens holds of the composition that is model-checked; and the     *)
(* proof that the two stacks, of tokens in JwtService and of users in the  *)
(* store, stay in step unless requests race.                               *)
(***************************************************************************)
EXTENDS JwtStore, JwtService_proofs

LEMMA StoreInitIsInit == StoreInit => Init
BY DEF StoreInit

LEMMA StoreNextIsNext ==
  ASSUME StoreNext
  PROVE  Next
<1>1. ASSUME NEW freshOnly \in BOOLEAN, StoreCall(freshOnly) PROVE Next BY <1>1 DEF StoreCall, Next
<1>2. ASSUME NEW user \in Masters, StoreLogin(user) PROVE Next BY <1>2 DEF StoreLogin, Next
<1>3. ASSUME NEW user \in Targets, StoreLoginAs(user) PROVE Next BY <1>3 DEF StoreLoginAs, Next
<1>4. CASE StoreLogout BY <1>4 DEF StoreLogout, Next
<1>5. CASE StoreLoginAgain BY <1>5 DEF StoreLoginAgain, Next
<1>6. ASSUME NEW r \in svc.asked, NEW outcome \in {"ok", "noTokens", "error"},
             StoreLoginAnswered(r, outcome)
      PROVE  Next
    BY <1>6 DEF StoreLoginAnswered, Next
<1>7. ASSUME NEW r \in svc.asked, NEW outcome \in {"ok", "error"},
             \/ StoreLoginAsAnswered(r, outcome) \/ StoreLogoutAnswered(r, outcome)
             \/ StoreRefreshAnswered(r, outcome)
      PROVE  Next
    BY <1>7 DEF StoreLoginAsAnswered, StoreLogoutAnswered, StoreRefreshAnswered, Next
<1>8. ASSUME NEW t \in DOMAIN tokens, StoreExpires(t) PROVE Next BY <1>8 DEF StoreExpires, Next
<1>9. CASE StoreReload BY <1>9 DEF StoreReload, Next
<1>. QED BY <1>1, <1>2, <1>3, <1>4, <1>5, <1>6, <1>7, <1>8, <1>9 DEF StoreNext

LEMMA StoreStepIsStep == [StoreNext]_allVars => [Next]_vars
BY StoreNextIsNext DEF allVars

\* The effects and the reducers do nothing to JwtService that it does not do by itself.
THEOREM StoreImplementsService == StoreSpec => Spec
BY StoreInitIsInit, StoreStepIsStep, PTL DEF StoreSpec, Spec

\* withFreshJwt() keeps what FreshTokens promises beside the store, too.
THEOREM StoreKeepsFreshTokens == StoreSpec => FreshTokensSpec
BY StoreImplementsService, KeepsFreshTokens, PTL
-------------------------------------------------------------------------------
\* The users the store shows and stashes are the owners of the tokens of service s.
InStep(toks, s, st) ==
  /\ st.user # 0 /\ s.jwt # 0 => st.user = toks[s.jwt].user
  /\ Len(st.stash) <= Len(s.stash)
  /\ \A i \in 1..Len(st.stash) :
       st.stash[i] = toks[s.stash[Len(s.stash) - Len(st.stash) + i]].user

\* Without a user nobody is stashed.
Shown(st) == st \in Stores /\ (st.user = 0 => st.stash = <<>>)

UInv == Shown(store) /\ (~raced => InStep(tokens, svc, store))

LEMMA UsersAreNumbers == Users \subseteq Nat \ {0}
BY JwtAssumption DEF Users

\* Other tokens in the list, of the same users, change nothing.
LEMMA InStepGrows ==
  ASSUME NEW n \in Nat, NEW s, Typed(s, n), NEW st, Shown(st), NEW toks, NEW more,
         \A t \in 1..n : more[t].user = toks[t].user, InStep(toks, s, st)
  PROVE  InStep(more, s, st)
<1>1. s.stash \in Seq(1..n) /\ st.stash \in Seq(Users) /\ s.jwt \in 0..n
  BY DEF Typed, Shown, Stores
<1>2. ASSUME NEW i \in 1..Len(st.stash)
      PROVE  st.stash[i] = more[s.stash[Len(s.stash) - Len(st.stash) + i]].user
  <2> DEFINE m == Len(s.stash)
             k == Len(st.stash)
             j == m - k + i
  <2>1. m \in Nat /\ k \in Nat /\ k <= m BY <1>1, LenProperties DEF InStep
  <2>2. j \in 1..m
    <3>1. i \in 1..k OBVIOUS
    <3> HIDE DEF m, k
    <3>. QED BY <2>1, <3>1
  <2>3. st.stash[i] = toks[s.stash[j]].user BY DEF InStep
  <2> HIDE DEF j
  <2>4. s.stash[j] \in 1..n BY <1>1, <2>2
  <2>5. st.stash[i] = more[s.stash[j]].user BY <2>3, <2>4
  <2>. QED BY <2>5 DEF j
<1>3. st.user # 0 /\ s.jwt # 0 => st.user = more[s.jwt].user BY <1>1 DEF InStep
<1>. QED BY <1>2, <1>3 DEF InStep

\* Tokens deleted: the user stays.
LEMMA DeletedInStep ==
  ASSUME NEW s, NEW d, NEW toks, NEW st, InStep(toks, s, st), Deleted(s, d)
  PROVE  InStep(toks, d, st)
BY DEF Deleted, InStep

\* A successful logout pops both stacks; the store's may be empty before the other is.
LEMMA PoppedInStep ==
  ASSUME NEW n \in Nat, NEW s, Typed(s, n), NEW toks, Shown(store), InStep(toks, s, store),
         NEW d, Popped(s, d)
  PROVE  InStep(toks, d, UnstashUser)
<1> DEFINE k == Len(store.stash)
           m == Len(s.stash)
           new == UnstashUser
           rest == SubSeq(store.stash, 1, k - 1)
<1>1. /\ s.stash \in Seq(1..n) /\ m \in Nat /\ store.stash \in Seq(Users) /\ k \in Nat
      /\ k <= m
  BY LenProperties DEF Typed, Shown, Stores, InStep
<1>2. CASE k = 0
  <2>1. new.user = 0 /\ new.stash = <<>> BY <1>2 DEF UnstashUser, EmptyStore
  <2>2. Len(new.stash) = 0 BY <2>1
  <2>3. Len(d.stash) \in Nat
    <3>1. CASE s.stash = <<>> BY <3>1 DEF Popped
    <3>2. CASE s.stash # <<>>
      <4>1. m - 1 \in 0..m BY <1>1, <3>2
      <4> DEFINE bound == 1..n
      <4>0. s.stash \in Seq(bound) /\ m = Len(s.stash) BY <1>1
      <4> HIDE DEF bound, m, k
      <4>2. SubSeq(s.stash, 1, m - 1) \in Seq(bound) BY <4>0, <4>1, SubSeqProperties
      <4>. QED BY <3>2, <4>2, LenProperties DEF Popped, m
    <3>. QED BY <3>1, <3>2
  <2> HIDE DEF new
  <2>. QED BY <2>1, <2>2, <2>3 DEF InStep, new
<1>3. CASE k # 0
  <2>1. s.stash # <<>> /\ m \in Nat \ {0} /\ k \in Nat \ {0} BY <1>1, <1>3
  <2>2. d.jwt = s.stash[m] /\ d.stash = SubSeq(s.stash, 1, m - 1) BY <2>1 DEF Popped
  <2>3. new.user = store.stash[k] /\ new.stash = rest BY <1>3 DEF UnstashUser
  <2>4. Len(d.stash) = m - 1 /\ \A i \in 1..(m - 1) : d.stash[i] = s.stash[i]
    <3>1. m - 1 \in 0..m BY <2>1
    <3>. QED BY <1>1, <2>1, <2>2, <3>1, SubSeqProperties
  <2>5. Len(rest) = k - 1 /\ \A i \in 1..(k - 1) : rest[i] = store.stash[i]
    <3>1. k - 1 \in 0..k BY <2>1
    <3>. QED BY <1>1, <2>1, <3>1, SubSeqProperties
  <2>6. \A i \in 1..k : store.stash[i] = toks[s.stash[m - k + i]].user BY DEF InStep
  <2> HIDE DEF new, rest, k, m
  <2>7. store.stash[k] = toks[s.stash[m]].user
    <3>1. k \in 1..k /\ m - k + k = m BY <2>1
    <3>. QED BY <2>6, <3>1
  <2>8. ASSUME NEW i \in 1..(k - 1)
        PROVE  rest[i] = toks[d.stash[(m - 1) - (k - 1) + i]].user
    <3>1. /\ (m - 1) - (k - 1) + i = m - k + i /\ m - k + i \in 1..(m - 1) /\ i \in 1..k
      BY <1>1, <2>1
    <3>. QED BY <2>4, <2>5, <2>6, <3>1
  <2>9. k - 1 <= m - 1 BY <1>1
  <2>10. Len(new.stash) = k - 1 BY <2>3, <2>5
  <2>. QED BY <2>2, <2>3, <2>4, <2>7, <2>8, <2>9, <2>10 DEF InStep, new
<1>. QED BY <1>2, <1>3

LEMMA UnstashShown ==
  ASSUME Shown(store)
  PROVE  Shown(UnstashUser)
<1> DEFINE k == Len(store.stash)
           rest == SubSeq(store.stash, 1, k - 1)
<1>1. store.stash \in Seq(Users) /\ k \in Nat BY LenProperties DEF Shown, Stores
<1>2. CASE k = 0 BY <1>2 DEF UnstashUser, EmptyStore, Shown, Stores
<1>3. CASE k # 0
  <2>1. k - 1 \in 0..k /\ k \in 1..k BY <1>1, <1>3
  <2>2. rest \in Seq(Users) /\ store.stash[k] \in Users
    BY <1>1, <2>1, SubSeqProperties
  <2>3. UnstashUser = [user |-> store.stash[k], stash |-> rest] BY <1>3 DEF UnstashUser
  <2> HIDE DEF rest, k
  <2>. QED BY <2>2, <2>3, UsersAreNumbers DEF Shown, Stores
<1>. QED BY <1>2, <1>3

\* withFreshJwt() keeps the stacks in step: it pops both of them, or none.
LEMMA WithFreshJwtInStep ==
  ASSUME IInv, UInv, ~raced, NEW w \in Waits, NEW before, WithFreshJwt(w, before),
         w.for = "loginAs" => w.user \in Users
  PROVE  InStep(tokens, svc',
                IF NoFreshJwt /\ (LogoutWaits \/ w.for = "logout") THEN UnstashUser ELSE store)
<1> DEFINE s == [svc EXCEPT !.waiting = svc.waiting \cup {w}]
           n == Len(tokens)
           age == IF s.jwt = 0 THEN "dead" ELSE tokens[s.jwt].age
<1>1. n \in Nat BY LenProperties DEF IInv
<1>2. /\ s \in Services /\ s.waiting = svc.waiting \cup {w} /\ s.jwt = svc.jwt
      /\ s.storage = svc.storage /\ s.stash = svc.stash /\ s.asked = svc.asked
  BY DEF IInv, Typed, Services
<1>3. Typed(s, n)
  <2>1. Typed(svc, n) BY DEF IInv
  <2> HIDE DEF s
  <2>. QED BY <1>2, <2>1 DEF Typed
<1>4. /\ age = "dead" => svc' = FlushNone(s)
      /\ age = "stale" => \/ svc' = s
                          \/ svc' = [s EXCEPT !.refresh = TRUE,
                               !.asked = s.asked \cup {[op |-> "refresh", with |-> s.jwt, user |-> 0]}]
      /\ age = "fresh" => svc' = FlushFresh(s, s.jwt, UserOf(s.jwt))
  BY DEF WithFreshJwt
<1>5. age \in Ages /\ (NoFreshJwt <=> age = "dead")
  <2>1. s.jwt # 0 => s.jwt \in 1..n BY <1>1, <1>3 DEF Typed
  <2>2. s.jwt # 0 => tokens[s.jwt] \in Tokens BY <2>1 DEF IInv
  <2>. QED BY <1>2, <2>2 DEF Tokens, Ages, NoFreshJwt
<1>6. Waiting(s, "logout") # {} <=> LogoutWaits \/ w.for = "logout"
  BY <1>2 DEF Waiting, LogoutWaits
<1> HIDE DEF s, age
<1>7. Shown(store) /\ InStep(tokens, s, store) BY <1>2 DEF UInv, InStep
<1>8. CASE age = "dead"
  <2>1. IF Waiting(s, "logout") = {} THEN Deleted(s, svc') ELSE Popped(s, svc')
    BY <1>2, <1>4, <1>8, FlushNoneShape
  <2>2. CASE Waiting(s, "logout") = {} BY <1>5, <1>6, <1>7, <1>8, <2>1, <2>2, DeletedInStep
  <2>3. CASE Waiting(s, "logout") # {}
    BY <1>1, <1>3, <1>5, <1>6, <1>7, <1>8, <2>1, <2>3, PoppedInStep
  <2>. QED BY <2>2, <2>3
<1>9. CASE age # "dead"
  <2>1. svc'.jwt = s.jwt /\ svc'.stash = s.stash
    <3>1. CASE age = "fresh" BY <1>2, <1>4, <3>1, FlushFreshShape
    <3>2. CASE age = "stale" BY <1>2, <1>4, <3>2 DEF Services
    <3>. QED BY <1>5, <1>9, <3>1, <3>2 DEF Ages
  <2>2. ~NoFreshJwt BY <1>5, <1>9
  <2>. QED BY <1>7, <2>1, <2>2 DEF InStep
<1>. QED BY <1>8, <1>9

\* The answers to the requests keep the stacks in step: what was asked for with the tokens
\* of the service is answered while it still holds them.
LEMMA LoginAnsweredInStep ==
  ASSUME IInv, SInv, UInv, ~raced, NEW r \in svc.asked,
         NEW outcome \in {"ok", "noTokens", "error"}, StoreLoginAnswered(r, outcome)
  PROVE  Shown(store') /\ InStep(tokens', svc', store')
<1> DEFINE s == Without(r)
           n == Len(tokens)
<1>1. /\ Session(svc, tokens) /\ Shown(store) /\ InStep(tokens, svc, store)
      /\ r.op \in {"login", "loginAgain"}
  BY DEF SInv, UInv, StoreLoginAnswered, LoginAnswered
<1>2. /\ Typed(s, n) /\ s \in Services /\ n \in Nat /\ s.jwt = svc.jwt /\ s.stash = svc.stash
  BY <1>1, AnsweredAlone
<1>3. r.user \in Users /\ r.user # 0 BY <1>1, UsersAreNumbers DEF IInv, Typed
<1>4. /\ outcome = "ok" => Issue(r.user, "login") /\ svc' = SetJwt(s, n + 1)
      /\ outcome = "noTokens" => r.op = "loginAgain" /\ svc' = s /\ UNCHANGED tokens
      /\ outcome = "error" => svc' = DeleteJwt(s) /\ UNCHANGED tokens
      /\ store' = IF outcome = "error" THEN store ELSE LoginSetUser(r.user)
  BY DEF StoreLoginAnswered, LoginAnswered
<1>5. InStep(tokens, s, store) BY <1>1, <1>2 DEF InStep
<1>6. /\ LoginSetUser(r.user) \in Stores /\ LoginSetUser(r.user).user = r.user
      /\ LoginSetUser(r.user).stash = store.stash
  BY <1>1, <1>3 DEF LoginSetUser, Shown, Stores
<1> HIDE DEF s
<1>7. CASE outcome = "ok"
  <2>1. /\ \A t \in 1..n : tokens'[t].user = tokens[t].user
        /\ tokens'[n + 1].user = r.user
    BY <1>4, <1>7, Issued
  <2>2. svc'.jwt = n + 1 /\ svc'.stash = s.stash BY <1>2, <1>4, <1>7, SetJwtShape
  <2>3. InStep(tokens', s, store) BY <1>1, <1>2, <1>5, <2>1, InStepGrows
  <2>4. store'.user = r.user /\ store'.stash = store.stash /\ store' \in Stores
    BY <1>4, <1>6, <1>7
  <2>5. store'.user = tokens'[svc'.jwt].user BY <2>1, <2>2, <2>4
  <2>6. InStep(tokens', svc', store') BY <2>2, <2>3, <2>4, <2>5 DEF InStep
  <2>. QED BY <1>3, <2>4, <2>6 DEF Shown
<1>8. CASE outcome = "noTokens"
  <2>1. svc.jwt # 0 /\ r.user = tokens[svc.jwt].user
    BY <1>1, <1>4, <1>8 DEF Session, Held
  <2>. QED BY <1>2, <1>3, <1>4, <1>5, <1>6, <1>8, <2>1 DEF InStep, Shown
<1>9. CASE outcome = "error"
  <2>1. Deleted(s, svc') BY <1>2, <1>4, <1>9, DeleteShape
  <2>. QED BY <1>1, <1>4, <1>5, <1>9, <2>1, DeletedInStep
<1>. QED BY <1>7, <1>8, <1>9

\* The tokens and the user go on the two stacks; without a user, the tokens only.
LEMMA LoginAsAnsweredInStep ==
  ASSUME IInv, SInv, UInv, ~raced, NEW r \in svc.asked, NEW outcome,
         StoreLoginAsAnswered(r, outcome)
  PROVE  Shown(store') /\ InStep(tokens', svc', store')
<1> DEFINE s == Without(r)
           n == Len(tokens)
<1>1. /\ Session(svc, tokens) /\ Shown(store) /\ InStep(tokens, svc, store) /\ r.op = "loginAs"
  BY DEF SInv, UInv, StoreLoginAsAnswered, LoginAsAnswered
<1>2. /\ Typed(s, n) /\ s \in Services /\ n \in Nat /\ s.jwt = svc.jwt /\ s.stash = svc.stash
  BY <1>1, AnsweredAlone
<1>3. r.user \in Users /\ r.user # 0 BY <1>1, UsersAreNumbers DEF IInv, Typed
<1>4. s.jwt # 0 BY <1>1, <1>2 DEF Session, Held
<1>5. IF outcome = "ok"
      THEN Issue(r.user, "loginAs") /\ svc' = StashJwt(s, n + 1) /\ store' = StashUser(r.user)
      ELSE svc' = s /\ UNCHANGED tokens /\ store' = store
  BY DEF StoreLoginAsAnswered, LoginAsAnswered
<1>6. InStep(tokens, s, store) BY <1>1, <1>2 DEF InStep
<1> HIDE DEF s
<1>7. CASE outcome = "ok"
  <2> DEFINE c == Append(s.stash, s.jwt)
             d == [s EXCEPT !.stash = c, !.jwt = n + 1]
             m == Len(s.stash)
             k == Len(store.stash)
             v == Append(store.stash, store.user)
  <2>1. /\ \A t \in 1..n : tokens'[t].user = tokens[t].user
        /\ tokens'[n + 1].user = r.user
    BY <1>5, <1>7, Issued
  <2>2. InStep(tokens', s, store) BY <1>1, <1>2, <1>6, <2>1, InStepGrows
  <2>3. /\ s.stash \in Seq(1..n) /\ m \in Nat /\ s.jwt \in 1..n
        /\ store.stash \in Seq(Users) /\ k \in Nat /\ k <= m
    BY <1>1, <1>2, <1>4, <1>6, LenProperties DEF Typed, Shown, Stores, InStep
  <2>4. svc' = d BY <1>2, <1>4, <1>5, <1>7 DEF StashJwt, Services
  <2>5. Len(c) = m + 1 /\ c[m + 1] = s.jwt /\ \A i \in 1..m : c[i] = s.stash[i]
    BY <2>3, AppendProperties
  <2> HIDE DEF c
  <2>6. svc'.stash = c /\ svc'.jwt = n + 1 BY <1>2, <2>4 DEF Services
  <2>7. CASE store.user = 0
    <3>1. store' = store BY <1>5, <1>7, <2>7 DEF StashUser
    <3>2. store.stash = <<>> /\ k = 0 BY <1>1, <2>7 DEF Shown
    <3>. QED BY <1>1, <2>3, <2>5, <2>6, <2>7, <3>1, <3>2 DEF InStep
  <2>8. CASE store.user # 0
    <3>1. store'.user = r.user /\ store'.stash = v /\ store' = [user |-> r.user, stash |-> v]
      BY <1>5, <1>7, <2>8 DEF StashUser
    <3>2. store.user \in Users BY <1>1, <2>8 DEF Shown, Stores
    <3>3. /\ v \in Seq(Users) /\ Len(v) = k + 1 /\ v[k + 1] = store.user
          /\ \A i \in 1..k : v[i] = store.stash[i]
      BY <2>3, <3>2, AppendProperties
    <3>4. store.user = tokens'[s.jwt].user BY <1>4, <2>2, <2>8 DEF InStep
    <3>5. \A i \in 1..k : store.stash[i] = tokens'[s.stash[m - k + i]].user BY <2>2 DEF InStep
    <3> HIDE DEF v, m, k
    <3>6. ASSUME NEW i \in 1..(k + 1)
          PROVE  v[i] = tokens'[c[(m + 1) - (k + 1) + i]].user
      <4>1. CASE i = k + 1
        <5>1. (m + 1) - (k + 1) + i = m + 1 BY <2>3, <4>1
        <5>. QED BY <2>5, <3>3, <3>4, <4>1, <5>1
      <4>2. CASE i # k + 1
        <5>1. i \in 1..k /\ (m + 1) - (k + 1) + i = m - k + i /\ m - k + i \in 1..m
          BY <2>3, <4>2
        <5>. QED BY <2>5, <3>3, <3>5, <5>1
      <4>. QED BY <4>1, <4>2
    <3>7. Shown(store') BY <1>3, <3>1, <3>3 DEF Shown, Stores
    <3>8. k + 1 <= m + 1 BY <2>3
    <3>9. store'.user = tokens'[svc'.jwt].user BY <2>1, <2>6, <3>1
    <3>10. Len(store'.stash) = k + 1 /\ Len(svc'.stash) = m + 1 BY <2>5, <2>6, <3>1, <3>3
    <3>11. \A i \in 1..Len(store'.stash) :
             store'.stash[i] = tokens'[svc'.stash[Len(svc'.stash) - Len(store'.stash) + i]].user
      BY <2>6, <3>1, <3>6, <3>10
    <3>. QED BY <3>7, <3>8, <3>9, <3>10, <3>11 DEF InStep
  <2>. QED BY <2>7, <2>8
<1>8. CASE outcome # "ok" BY <1>1, <1>5, <1>6, <1>8
<1>. QED BY <1>7, <1>8

\* Both stacks are popped.
LEMMA LogoutAnsweredInStep ==
  ASSUME IInv, SInv, UInv, ~raced, NEW r \in svc.asked, NEW outcome,
         StoreLogoutAnswered(r, outcome)
  PROVE  Shown(store') /\ InStep(tokens', svc', store')
<1> DEFINE s == Without(r)
           n == Len(tokens)
<1>1. Session(svc, tokens) /\ Shown(store) /\ InStep(tokens, svc, store) BY DEF SInv, UInv
<1>2. /\ Typed(s, n) /\ s \in Services /\ n \in Nat /\ s.jwt = svc.jwt /\ s.stash = svc.stash
  BY <1>1, AnsweredAlone
<1>3. /\ UNCHANGED tokens
      /\ IF outcome = "ok" THEN svc' = LogoutSucceed(s) /\ store' = UnstashUser
         ELSE svc' = s /\ store' = store
  BY DEF StoreLogoutAnswered, LogoutAnswered
<1>4. InStep(tokens, s, store) BY <1>1, <1>2 DEF InStep
<1> HIDE DEF s
<1>5. outcome = "ok" => Popped(s, svc') BY <1>2, <1>3, LogoutShape
<1>. QED BY <1>1, <1>2, <1>3, <1>4, <1>5, PoppedInStep, UnstashShown

\* New tokens of the same user, or none.
LEMMA RefreshAnsweredInStep ==
  ASSUME IInv, SInv, UInv, ~raced, NEW r \in svc.asked, NEW outcome \in {"ok", "error"},
         StoreRefreshAnswered(r, outcome)
  PROVE  Shown(store') /\ InStep(tokens', svc', store')
<1> DEFINE before == Without(r)
           s == [before EXCEPT !.refresh = FALSE]
           n == Len(tokens)
           new == n + 1
<1>1. /\ Session(svc, tokens) /\ Shown(store) /\ InStep(tokens, svc, store) /\ r.op = "refresh"
  BY DEF SInv, UInv, StoreRefreshAnswered, RefreshAnswered
<1>2. /\ Typed(before, n) /\ before \in Services /\ n \in Nat /\ before.jwt = svc.jwt
      /\ before.stash = svc.stash /\ before.waiting = svc.waiting
  BY <1>1, AnsweredAlone
<1> HIDE DEF before
<1>3. Typed(s, n) /\ s \in Services /\ s.jwt = svc.jwt /\ s.stash = svc.stash
      /\ s.waiting = svc.waiting
  BY <1>2 DEF Typed, Services
<1>4. /\ outcome = "ok" => /\ Issue(tokens[r.with].user, tokens[r.with].via)
                           /\ svc' = FlushFresh(SetJwt(s, new), new, tokens[r.with].user)
                           /\ store' = store
      /\ outcome = "error" => /\ svc' = FlushNone(s) /\ UNCHANGED tokens
                              /\ store' = IF LogoutWaits THEN UnstashUser ELSE store
  BY DEF StoreRefreshAnswered, RefreshAnswered, Flushed, before
<1>5. InStep(tokens, s, store) BY <1>1, <1>3 DEF InStep
<1>6. r.with = svc.jwt /\ svc.jwt # 0 BY <1>1 DEF Session, Held
<1>7. Waiting(s, "logout") # {} <=> LogoutWaits BY <1>3 DEF Waiting, LogoutWaits
<1> HIDE DEF s
<1>8. CASE outcome = "ok"
  <2> DEFINE d == SetJwt(s, new)
  <2>1. /\ \A t \in 1..n : tokens'[t].user = tokens[t].user
        /\ tokens'[new].user = tokens[svc.jwt].user
    BY <1>4, <1>6, <1>8, Issued
  <2>2. InStep(tokens', s, store) BY <1>1, <1>2, <1>3, <1>5, <2>1, InStepGrows
  <2>3. d \in Services /\ d.jwt = new /\ d.stash = s.stash
    <3>1. new \in Nat BY <1>2
    <3> HIDE DEF new
    <3>. QED BY <1>3, <3>1, SetJwtShape
  <2>4. svc' = FlushFresh(d, new, tokens[r.with].user) /\ store' = store BY <1>4, <1>8
  <2> HIDE DEF d
  <2>5. svc'.jwt = new /\ svc'.stash = s.stash BY <2>3, <2>4, FlushFreshShape
  <2>6. store.user # 0 => store.user = tokens[svc.jwt].user BY <1>1, <1>6 DEF InStep
  <2>. QED BY <1>1, <2>1, <2>2, <2>4, <2>5, <2>6 DEF InStep
<1>9. CASE outcome = "error"
  <2>1. IF Waiting(s, "logout") = {} THEN Deleted(s, svc') ELSE Popped(s, svc')
    BY <1>3, <1>4, <1>9, FlushNoneShape
  <2>2. CASE LogoutWaits
    BY <1>1, <1>2, <1>3, <1>4, <1>5, <1>7, <1>9, <2>1, <2>2, PoppedInStep, UnstashShown
  <2>3. CASE ~LogoutWaits
    BY <1>1, <1>4, <1>5, <1>7, <1>9, <2>1, <2>3, DeletedInStep
  <2>. QED BY <2>2, <2>3
<1>. QED BY <1>8, <1>9

\* The clock makes tokens older, but nobody else's.
LEMMA ExpiresInStep ==
  ASSUME IInv, UInv, ~raced, NEW t \in DOMAIN tokens, StoreExpires(t)
  PROVE  Shown(store') /\ InStep(tokens', svc', store')
<1> DEFINE n == Len(tokens)
           older == IF tokens[t].age = "fresh" THEN "stale" ELSE "dead"
           new == [user |-> tokens[t].user, via |-> tokens[t].via, age |-> older]
<1>1. tokens' = [tokens EXCEPT ![t] = new] /\ UNCHANGED <<svc, store>>
  BY DEF StoreExpires, Expires
<1>2. new.user = tokens[t].user OBVIOUS
<1> HIDE DEF new
<1>3. tokens \in Seq(Tokens) /\ n \in Nat /\ DOMAIN tokens = 1..n /\ Typed(svc, n)
  BY LenProperties DEF IInv
<1>4. \A k \in 1..n : tokens'[k].user = tokens[k].user BY <1>1, <1>2, <1>3
<1>. QED BY <1>1, <1>3, <1>4, InStepGrows DEF UInv

\* A page load: the store forgets the user and those stashed.
LEMMA ReloadInStep ==
  ASSUME IInv, StoreReload
  PROVE  Shown(store') /\ InStep(tokens', svc', store')
<1>1. store'.user = 0 /\ store'.stash = <<>> /\ store' = [user |-> 0, stash |-> <<>>]
  BY DEF StoreReload, EmptyStore
<1>2. svc'.stash = <<>> BY DEF StoreReload, Reload, Loaded
<1>. QED BY <1>1, <1>2 DEF Shown, Stores, InStep

\* Every step keeps the two stacks in step, unless requests race.
LEMMA StoreNextUInv ==
  ASSUME IInv, SInv, UInv, StoreNext
  PROVE  UInv'
<1>1. Next /\ StepOK
  <2>1. Next BY StoreNextIsNext
  <2>. QED BY <2>1, NextSession
<1>2. Shown(store')
  <2>1. store' \in {store, UnstashUser, EmptyStore} => Shown(store')
    <3>1. Shown(EmptyStore) BY DEF EmptyStore, Shown, Stores
    <3>. QED BY <3>1, UnstashShown DEF UInv
  <2>2. ASSUME NEW user \in Users PROVE Shown(LoginSetUser(user))
    BY UsersAreNumbers DEF UInv, LoginSetUser, Shown, Stores
  <2>3. ASSUME NEW user \in Users PROVE Shown(StashUser(user))
    <3> DEFINE v == Append(store.stash, store.user)
    <3>1. CASE store.user = 0 BY <3>1 DEF UInv, StashUser
    <3>2. CASE store.user # 0
      <4>1. v \in Seq(Users) BY <3>2, AppendProperties DEF UInv, Shown, Stores
      <4>2. StashUser(user) = [user |-> user, stash |-> v] BY <3>2 DEF StashUser
      <4> HIDE DEF v
      <4>. QED BY <4>1, <4>2, UsersAreNumbers DEF Shown, Stores
    <3>. QED BY <3>1, <3>2
  <2>4. ASSUME NEW r \in svc.asked, NEW outcome \in {"ok", "noTokens", "error"},
               StoreLoginAnswered(r, outcome)
        PROVE  Shown(store')
    <3>1. r.user \in Users BY <2>4 DEF StoreLoginAnswered, LoginAnswered, IInv, Typed
    <3>. QED BY <2>1, <2>2, <2>4, <3>1 DEF StoreLoginAnswered
  <2>5. ASSUME NEW r \in svc.asked, NEW outcome, StoreLoginAsAnswered(r, outcome)
        PROVE  Shown(store')
    <3>1. r.user \in Users BY <2>5 DEF StoreLoginAsAnswered, LoginAsAnswered, IInv, Typed
    <3>. QED BY <2>1, <2>3, <2>5, <3>1 DEF StoreLoginAsAnswered
  <2>. QED BY <2>1, <2>4, <2>5 DEF StoreNext, StoreCall, StoreLogin, StoreLoginAs, StoreLogout,
         StoreLoginAgain, StoreLogoutAnswered, StoreRefreshAnswered, StoreExpires, StoreReload, Flushed
<1>3. ASSUME ~raced' PROVE InStep(tokens', svc', store')
  <2> DEFINE Goal == InStep(tokens', svc', store')
  <2>1. ~raced /\ InStep(tokens, svc, store) BY <1>1, <1>3 DEF StepOK, UInv
  <2>2. ASSUME NEW freshOnly \in BOOLEAN, StoreCall(freshOnly) PROVE Goal
    <3> DEFINE w == [for |-> "caller", id |-> Len(callers) + 1, user |-> 0,
                     callWithFreshOnly |-> freshOnly]
    <3>1. w \in Waits /\ w.for = "caller"
      <4>1. Len(callers) + 1 \in Nat BY LenProperties DEF IInv, Heard
      <4>. QED BY <4>1 DEF Waits
    <3>2. \E before : WithFreshJwt(w, before) BY <2>2 DEF StoreCall, CallWithFreshJwt
    <3>3. UNCHANGED tokens /\ store' = IF NoFreshJwt /\ LogoutWaits THEN UnstashUser ELSE store
      BY <2>2 DEF StoreCall, CallWithFreshJwt, Flushed
    <3> HIDE DEF w
    <3>. QED BY <2>1, <3>1, <3>2, <3>3, WithFreshJwtInStep
  <2>3. ASSUME NEW user \in Masters, StoreLogin(user) PROVE Goal
    <3>1. svc'.jwt = svc.jwt /\ svc'.stash = svc.stash /\ UNCHANGED <<tokens, store>>
      BY <2>3 DEF StoreLogin, Login, IInv, Typed, Services
    <3>. QED BY <2>1, <3>1 DEF InStep
  <2>4. ASSUME NEW user \in Targets, StoreLoginAs(user) PROVE Goal
    <3> DEFINE w == [for |-> "loginAs", id |-> 0, user |-> user, callWithFreshOnly |-> FALSE]
    <3>1. w \in Waits /\ w.for = "loginAs" /\ w.user \in Users BY DEF Waits, Users
    <3>2. WithFreshJwt(w, callers) BY <2>4 DEF StoreLoginAs, LoginAs
    <3>3. UNCHANGED tokens /\ store' = IF NoFreshJwt /\ LogoutWaits THEN UnstashUser ELSE store
      BY <2>4 DEF StoreLoginAs, LoginAs, Flushed
    <3> HIDE DEF w
    <3>. QED BY <2>1, <3>1, <3>2, <3>3, WithFreshJwtInStep
  <2>5. ASSUME StoreLogout PROVE Goal
    <3> DEFINE w == [for |-> "logout", id |-> 0, user |-> 0, callWithFreshOnly |-> FALSE]
    <3>1. w \in Waits /\ w.for = "logout" BY DEF Waits
    <3>2. WithFreshJwt(w, callers) BY <2>5 DEF StoreLogout, Logout
    <3>3. UNCHANGED tokens /\ store' = IF NoFreshJwt THEN UnstashUser ELSE store
      BY <2>5 DEF StoreLogout, Logout
    <3> HIDE DEF w
    <3>. QED BY <2>1, <3>1, <3>2, <3>3, WithFreshJwtInStep
  <2>6. ASSUME StoreLoginAgain PROVE Goal
    <3> DEFINE w == [for |-> "guard", id |-> 0, user |-> 0, callWithFreshOnly |-> FALSE]
    <3>1. w \in Waits /\ w.for = "guard" BY DEF Waits
    <3>2. WithFreshJwt(w, callers) BY <2>6 DEF StoreLoginAgain, LoginAgain
    <3>3. UNCHANGED tokens /\ store' = IF NoFreshJwt /\ LogoutWaits THEN UnstashUser ELSE store
      BY <2>6 DEF StoreLoginAgain, LoginAgain, Flushed
    <3> HIDE DEF w
    <3>. QED BY <2>1, <3>1, <3>2, <3>3, WithFreshJwtInStep
  <2>7. ASSUME NEW r \in svc.asked, NEW outcome \in {"ok", "noTokens", "error"},
               StoreLoginAnswered(r, outcome)
        PROVE  Goal
    BY <2>1, <2>7, LoginAnsweredInStep
  <2>8. ASSUME NEW r \in svc.asked, NEW outcome \in {"ok", "error"},
               \/ StoreLoginAsAnswered(r, outcome) \/ StoreLogoutAnswered(r, outcome)
               \/ StoreRefreshAnswered(r, outcome)
        PROVE  Goal
    BY <2>1, <2>8, LoginAsAnsweredInStep, LogoutAnsweredInStep, RefreshAnsweredInStep
  <2>9. ASSUME NEW t \in DOMAIN tokens, StoreExpires(t) PROVE Goal
    BY <2>1, <2>9, ExpiresInStep
  <2>10. ASSUME StoreReload PROVE Goal BY <2>10, ReloadInStep
  <2> HIDE DEF Goal
  <2>11. Goal BY <2>2, <2>3, <2>4, <2>5, <2>6, <2>7, <2>8, <2>9, <2>10 DEF StoreNext
  <2>. QED BY <2>11 DEF Goal
<1>. QED BY <1>2, <1>3 DEF UInv

\* The store's invariant, beside those of the service.
THEOREM StoreInvariance == StoreSpec => [](IInv /\ SInv /\ UInv)
<1>1. StoreInit => UInv
  BY DEF StoreInit, Init, EmptyStore, Loaded, UInv, Shown, Stores, InStep
<1>2. IInv /\ SInv /\ UInv /\ [StoreNext]_allVars => UInv'
  <2>1. ASSUME UInv, UNCHANGED allVars PROVE UInv'
    BY <2>1 DEF allVars, vars, UInv, InStep, Shown
  <2>. QED BY <2>1, StoreNextUInv
<1>. QED BY <1>1, <1>2, StoreImplementsService, Invariance, SessionInvariance, PTL DEF StoreSpec

\* The types of the composition.
THEOREM StoreTypeCorrect == StoreSpec => []StoreTypeOK
<1>1. UInv => store \in Stores BY DEF UInv, Shown
<1>. QED BY <1>1, StoreInvariance, StoreImplementsService, TypeCorrect, PTL DEF StoreTypeOK

\* stashUser$ and unstashUser$ against _stashJwt and _unstashJwt: the user shown owns the
\* tokens, and so does everybody who is stashed, unless requests raced.
THEOREM UserOwnsTokensAlways == StoreSpec => []UserOwnsTokens
<1>1. ASSUME IInv, UInv PROVE UserOwnsTokens
  <2> DEFINE n == Len(store.stash)
             m == Len(svc.stash)
  <2>1. SUFFICES ASSUME ~raced
                 PROVE  /\ store.user # 0 /\ svc.jwt # 0 => store.user = UserOf(svc.jwt)
                        /\ n <= m
                        /\ \A i \in 1..n : store.stash[i] = UserOf(svc.stash[m - n + i])
    BY DEF UserOwnsTokens
  <2>2. InStep(tokens, svc, store) BY <1>1, <2>1 DEF UInv
  <2>3. svc.stash \in Seq(1..Len(tokens)) /\ m \in Nat /\ n \in Nat /\ n <= m
    BY <1>1, <2>2, LenProperties DEF IInv, Typed, UInv, Shown, Stores, InStep
  <2>4. ASSUME NEW i \in 1..n PROVE store.stash[i] = UserOf(svc.stash[m - n + i])
    <3> DEFINE j == m - n + i
    <3>1. j \in 1..m
      <4>1. i \in 1..n OBVIOUS
      <4> HIDE DEF m, n
      <4>. QED BY <2>3, <4>1
    <3>2. store.stash[i] = tokens[svc.stash[j]].user BY <2>2 DEF InStep
    <3> HIDE DEF j
    <3>3. svc.stash[j] \in 1..Len(tokens) BY <2>3, <3>1
    <3>4. svc.stash[j] # 0 BY <3>3
    <3>5. store.stash[i] = UserOf(svc.stash[j]) BY <3>2, <3>4 DEF UserOf
    <3>. QED BY <3>5 DEF j
  <2>. QED BY <2>2, <2>3, <2>4 DEF InStep, UserOf
<1>. QED BY <1>1, StoreInvariance, PTL
===============================================================================
