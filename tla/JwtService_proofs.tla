--------------------------- MODULE JwtService_proofs ---------------------------
(***************************************************************************)
(* Proofs about JwtService, for any set of users and any bounds, in three  *)
(* parts.                                                                  *)
(*                                                                         *)
(* Types, at most one refresh in flight, nobody left waiting without a     *)
(* refresh, and no callback called twice.  The inductive invariant IInv    *)
(* is, besides the types: the flag _refresh is set exactly while one       *)
(* refresh request is in flight (One); who waits, waits for it (Awaited);  *)
(* and a waiting callback was neither called nor dropped yet (Heard).  The *)
(* last is what a flush needs to call it once.                             *)
(*                                                                         *)
(* JwtService implements FreshTokens.  This needs the converse of Heard: a *)
(* call that is not settled has its callback in _waitingForRefresh         *)
(* (NoneLost), so that a flush leaves none of them out.                    *)
(*                                                                         *)
(* The sessions: whose tokens the localStorage and the stash hold, that    *)
(* the caller of loginAs() is restored, that callbacks get tokens of the   *)
(* right user, and that tokens are fresh when they are handed out.  But    *)
(* for the last this holds as long as requests do not race.  What makes it *)
(* inductive (Session) is that the one request in flight, if it is one     *)
(* that counts on the tokens, counts on those the service holds, which are *)
(* not dead (Held): nothing deletes them before the answer.                *)
(***************************************************************************)
EXTENDS JwtService, SequenceTheorems, TLAPS

Typed(s, n) ==
  /\ s \in Services
  /\ s.jwt \in 0..n /\ s.storage \in 0..n
  /\ s.stash \in Seq(1..n)
  /\ \A r \in s.asked : r.with \in 0..n /\ (r.op = "refresh" => r.with \in 1..n)
  /\ \A r \in s.asked : r.op \notin {"refresh", "logout"} => r.user \in Users
  /\ \A w \in s.waiting : w.for = "loginAs" => w.user \in Users

One(s) ==
  /\ \A r1, r2 \in s.asked : r1.op = "refresh" /\ r2.op = "refresh" => r1 = r2
  /\ s.refresh => \E r \in s.asked : r.op = "refresh"
  /\ (\E r \in s.asked : r.op = "refresh") => s.refresh

Awaited(s) == s.waiting # {} => s.refresh

Once(call) == call.called <= 1 /\ ~(call.called = 1 /\ call.dropped)

Heard(s, cs) ==
  /\ cs \in Seq(Callers)
  /\ \A i \in DOMAIN cs : Once(cs[i])
  /\ \A w \in s.waiting : w.for = "caller" =>
       w.id \in DOMAIN cs /\ cs[w.id].called = 0 /\ ~cs[w.id].dropped

IInv ==
  /\ Typed(svc, Len(tokens)) /\ One(svc) /\ Awaited(svc) /\ Heard(svc, callers)
  /\ tokens \in Seq(Tokens) /\ raced \in BOOLEAN
-------------------------------------------------------------------------------
\* A method that changes only the tokens the service holds.
SameRest(s, d) == d.refresh = s.refresh /\ d.waiting = s.waiting /\ d.asked = s.asked

\* Giving the service other tokens to hold, and nothing else, keeps the types.
LEMMA HeldTokens ==
  ASSUME NEW n \in Nat, NEW s, Typed(s, n),
         NEW a \in 0..n, NEW b \in 0..n, NEW c \in Seq(1..n),
         NEW d, d = [s EXCEPT !.jwt = a, !.storage = b, !.stash = c]
  PROVE  Typed(d, n) /\ SameRest(s, d)
<1>1. s \in Services BY DEF Typed
<1>2. c \in Seq(Nat)
  <2>1. Len(c) \in Nat /\ c \in [1..Len(c) -> 1..n] BY LenProperties
  <2>2. c \in [1..Len(c) -> Nat] BY <2>1
  <2>. QED BY <2>1, <2>2, SeqDef
<1>3. d \in Services
  <2>1. a \in Nat /\ b \in Nat OBVIOUS
  <2>. QED BY <1>1, <1>2, <2>1 DEF Services
<1>4. d.jwt = a /\ d.storage = b /\ d.stash = c BY <1>1 DEF Services
<1>5. SameRest(s, d) BY <1>1 DEF Services, SameRest
<1>. QED BY <1>3, <1>4, <1>5 DEF Typed, SameRest

\* setJwt keeps the types, and changes the held tokens only.
LEMMA SetJwtKeeps ==
  ASSUME NEW n \in Nat, NEW s, Typed(s, n), NEW t \in 0..n
  PROVE  Typed(SetJwt(s, t), n) /\ SameRest(s, SetJwt(s, t))
<1> DEFINE b == IF IsMasterUser(s) THEN t ELSE s.storage
<1>1. b \in 0..n BY DEF Typed
<1>2. SetJwt(s, t) = [s EXCEPT !.jwt = t, !.storage = b, !.stash = s.stash]
  BY DEF SetJwt, Typed, Services
<1> HIDE DEF b
<1>. QED BY <1>1, <1>2, HeldTokens DEF Typed

\* deleteJwt keeps the types, and changes the held tokens only.
LEMMA DeleteJwtKeeps ==
  ASSUME NEW n \in Nat, NEW s, Typed(s, n)
  PROVE  Typed(DeleteJwt(s), n) /\ SameRest(s, DeleteJwt(s))
<1> DEFINE b == IF IsMasterUser(s) THEN 0 ELSE s.storage
<1>1. b \in 0..n /\ 0 \in 0..n BY DEF Typed
<1>2. DeleteJwt(s) = [s EXCEPT !.jwt = 0, !.storage = b, !.stash = s.stash]
  BY DEF DeleteJwt, Typed, Services
<1> HIDE DEF b
<1>. QED BY <1>1, <1>2, HeldTokens DEF Typed

\* _stashJwt keeps the types, and changes the held tokens only.
LEMMA StashJwtKeeps ==
  ASSUME NEW n \in Nat, NEW s, Typed(s, n), NEW t \in 0..n
  PROVE  Typed(StashJwt(s, t), n) /\ SameRest(s, StashJwt(s, t))
<1> DEFINE c == IF s.jwt # 0 THEN Append(s.stash, s.jwt) ELSE s.stash
<1>1. c \in Seq(1..n)
  <2>1. s.jwt # 0 => s.jwt \in 1..n BY DEF Typed
  <2>2. s.stash \in Seq(1..n) BY DEF Typed
  <2>3. s.jwt # 0 => Append(s.stash, s.jwt) \in Seq(1..n) BY <2>1, <2>2, AppendProperties
  <2>. QED BY <2>2, <2>3
<1>2. StashJwt(s, t) = [s EXCEPT !.jwt = t, !.storage = s.storage, !.stash = c]
  BY DEF StashJwt, Typed, Services
<1> HIDE DEF c
<1>. QED BY <1>1, <1>2, HeldTokens DEF Typed

\* _unstashJwt keeps the types, and changes the held tokens only.
LEMMA UnstashJwtKeeps ==
  ASSUME NEW n \in Nat, NEW s, Typed(s, n)
  PROVE  Typed(UnstashJwt(s), n) /\ SameRest(s, UnstashJwt(s))
<1> DEFINE top == IF s.stash = <<>> THEN 0 ELSE s.stash[Len(s.stash)]
           rest == IF s.stash = <<>> THEN s.stash
                   ELSE SubSeq(s.stash, 1, Len(s.stash) - 1)
<1>1. top \in 0..n BY DEF Typed
<1>2. rest \in Seq(1..n)
  <2>1. s.stash \in Seq(1..n) BY DEF Typed
  <2>2. CASE s.stash # <<>>
    <3>1. Len(s.stash) \in Nat /\ Len(s.stash) > 0 BY <2>1, <2>2
    <3>2. SubSeq(s.stash, 1, Len(s.stash) - 1) \in Seq(1..n)
      BY <2>1, <3>1, SubSeqProperties
    <3>. QED BY <3>2, <2>2
  <2>. QED BY <2>1, <2>2
<1>3. UnstashJwt(s) = [s EXCEPT !.jwt = top, !.storage = s.storage, !.stash = rest]
  <2>1. CASE s.stash = <<>>
    BY <2>1 DEF UnstashJwt, IsMasterUser, Typed, Services
  <2>2. CASE s.stash # <<>>
    BY <2>2 DEF UnstashJwt, IsMasterUser, Typed, Services
  <2>. QED BY <2>1, <2>2
<1> HIDE DEF top, rest
<1>. QED BY <1>1, <1>2, <1>3, HeldTokens DEF Typed

\* _logoutSucceed keeps the types, and changes the held tokens only.
LEMMA LogoutSucceedKeeps ==
  ASSUME NEW n \in Nat, NEW s, Typed(s, n)
  PROVE  Typed(LogoutSucceed(s), n) /\ SameRest(s, LogoutSucceed(s))
BY DeleteJwtKeeps, UnstashJwtKeeps DEF LogoutSucceed, SameRest

\* Answered requests are taken out of the ones in flight.
LEMMA WithoutKeeps ==
  ASSUME NEW n \in Nat, Typed(svc, n), NEW r \in svc.asked
  PROVE  /\ Typed(Without(r), n)
         /\ Without(r).refresh = svc.refresh /\ Without(r).waiting = svc.waiting
         /\ Without(r).asked = svc.asked \ {r}
BY DEF Typed, Without, Services

\* One does not look at requests other than refreshes.
LEMMA OneOfOthers ==
  ASSUME NEW s, NEW d, One(s), d.refresh = s.refresh,
         \A r : r.op = "refresh" => (r \in s.asked <=> r \in d.asked)
  PROVE  One(d)
BY DEF One

\* freshJwt of withFreshJwt leaves nobody waiting; the requests it makes are no refreshes.
LEMMA FlushFreshKeeps ==
  ASSUME NEW n \in Nat, NEW s, Typed(s, n), NEW t \in 1..n, NEW owner \in Users
  PROVE  /\ Typed(FlushFresh(s, t, owner), n)
         /\ FlushFresh(s, t, owner).refresh = s.refresh /\ FlushFresh(s, t, owner).waiting = {}
         /\ \A r : r.op = "refresh" => (r \in s.asked <=> r \in FlushFresh(s, t, owner).asked)
<1> DEFINE new == Continued(s, t, owner)
           d == [s EXCEPT !.waiting = {}, !.asked = s.asked \cup new]
<1>1. \A r \in new : /\ r \in Asked /\ r.with = t /\ r.op # "refresh"
                     /\ (r.op # "logout" => r.user \in Users)
  <2> TAKE r \in new
  <2>1. CASE \E w \in Waiting(s, "loginAs") \cup Waiting(s, "logout") :
               r = [op |-> w.for, with |-> t, user |-> w.user]
    <3>1. PICK w \in Waiting(s, "loginAs") \cup Waiting(s, "logout") :
                 r = [op |-> w.for, with |-> t, user |-> w.user]
      BY <2>1
    <3>2. /\ w.for \in {"loginAs", "logout"} /\ w.user \in Users \cup {0}
          /\ (w.for # "logout" => w.user \in Users)
      BY DEF Typed, Services, Waits, Waiting
    <3>. QED BY <3>1, <3>2 DEF Asked
  <2>2. CASE r = [op |-> "loginAgain", with |-> t, user |-> owner]
    BY <2>2 DEF Asked
  <2>. QED BY <2>1, <2>2 DEF Continued
<1>2. FlushFresh(s, t, owner) = d BY DEF FlushFresh
<1> HIDE DEF new
<1>3. d.asked = s.asked \cup new /\ d.waiting = {} /\ d.refresh = s.refresh
      /\ d.jwt = s.jwt /\ d.storage = s.storage /\ d.stash = s.stash
  BY DEF Typed, Services
<1>4. d \in Services BY <1>1 DEF Typed, Services
<1>5. Typed(d, n) BY <1>1, <1>3, <1>4 DEF Typed
<1>. QED BY <1>1, <1>2, <1>3, <1>5

\* noFreshJwt of withFreshJwt leaves nobody waiting and makes no request.
LEMMA FlushNoneKeeps ==
  ASSUME NEW n \in Nat, NEW s, Typed(s, n)
  PROVE  /\ Typed(FlushNone(s), n)
         /\ FlushNone(s).refresh = s.refresh /\ FlushNone(s).waiting = {}
         /\ FlushNone(s).asked = s.asked
<1> DEFINE d == [DeleteJwt(s) EXCEPT !.waiting = {}]
<1>1. /\ Typed(d, n) /\ d.refresh = s.refresh /\ d.waiting = {} /\ d.asked = s.asked
  BY DeleteJwtKeeps DEF Typed, Services, SameRest
<1> HIDE DEF d
<1>2. Typed(LogoutSucceed(d), n) /\ SameRest(d, LogoutSucceed(d))
  BY <1>1, LogoutSucceedKeeps
<1>3. FlushNone(s) = d \/ FlushNone(s) = LogoutSucceed(d) BY DEF FlushNone, d
<1>. QED BY <1>1, <1>2, <1>3 DEF SameRest

\* Flushing a call that waits, or leaving one alone that does not, calls it once at most.
LEMMA SettledOnce ==
  ASSUME NEW call \in Callers, Once(call), NEW ws, NEW t \in Nat,
         ws # {} => call.called = 0 /\ ~call.dropped
  PROVE  Settled(call, ws, t) \in Callers /\ Once(Settled(call, ws, t))
<1>1. CASE ws = {} BY <1>1 DEF Settled
<1>2. CASE ws # {}
  <2> DEFINE a == [call EXCEPT !.dropped = TRUE]
             b == [call EXCEPT !.called = 1, !.given = t]
  <2>1. call.called + 1 = 1 BY <1>2
  <2>2. a \in Callers /\ a.called = 0 BY <1>2 DEF Callers
  <2>3. b \in Callers /\ b.called = 1 /\ ~b.dropped BY <1>2 DEF Callers
  <2>4. Settled(call, ws, t) = a \/ Settled(call, ws, t) = b BY <1>2, <2>1 DEF Settled
  <2> HIDE DEF a, b
  <2>. QED BY <2>2, <2>3, <2>4 DEF Once
<1>. QED BY <1>1, <1>2

\* After a flush every waiting callback has been called or dropped, and none twice.
LEMMA TellHeard ==
  ASSUME NEW s, NEW cs, Heard(s, cs), NEW t \in Nat, NEW d, d.waiting = {}
  PROVE  Heard(d, Tell(cs, s.waiting, t))
<1> DEFINE of(i) == {w \in s.waiting : w.for = "caller" /\ w.id = i}
           told == Tell(cs, s.waiting, t)
<1>1. cs \in Seq(Callers) BY DEF Heard
<1>2. \A i \in DOMAIN cs : told[i] \in Callers /\ Once(told[i])
  <2> TAKE i \in DOMAIN cs
  <2>1. told[i] = Settled(cs[i], of(i), t) BY DEF Tell
  <2>2. cs[i] \in Callers /\ Once(cs[i]) BY <1>1 DEF Heard
  <2>3. of(i) # {} => cs[i].called = 0 /\ ~cs[i].dropped BY DEF Heard
  <2> HIDE DEF of
  <2>. QED BY <2>1, <2>2, <2>3, SettledOnce
<1>3. told \in Seq(Callers) /\ DOMAIN told = DOMAIN cs
  <2>1. Len(cs) \in Nat /\ DOMAIN cs = 1..Len(cs) BY <1>1, LenProperties
  <2>2. DOMAIN told = 1..Len(cs) /\ told = [i \in 1..Len(cs) |-> told[i]] BY <2>1 DEF Tell
  <2> HIDE DEF told
  <2>3. told \in [1..Len(cs) -> Callers] BY <1>2, <2>1, <2>2
  <2>. QED BY <2>1, <2>2, <2>3, SeqDef
<1>. QED BY <1>2, <1>3 DEF Heard
-------------------------------------------------------------------------------
\* The conjuncts of IInv about the service, for a service and callers of one's choice.
Good(s, cs, n) == Typed(s, n) /\ One(s) /\ Awaited(s) /\ Heard(s, cs)

\* More tokens in the list do not disturb the types.
LEMMA TypedGrows ==
  ASSUME NEW n \in Nat, NEW s, Typed(s, n)
  PROVE  Typed(s, n + 1)
<1>1. s.stash \in Seq(1..(n + 1))
  <2>1. s.stash \in Seq(1..n) BY DEF Typed
  <2>2. Len(s.stash) \in Nat /\ s.stash \in [1..Len(s.stash) -> 1..n] BY <2>1, LenProperties
  <2>3. s.stash \in [1..Len(s.stash) -> 1..(n + 1)] BY <2>2
  <2>. QED BY <2>2, <2>3, SeqDef
<1>. QED BY <1>1 DEF Typed

\* A flush with fresh tokens settles everybody.
LEMMA FlushFreshGood ==
  ASSUME NEW n \in Nat, NEW s, Typed(s, n), One(s), NEW cs, Heard(s, cs), NEW t \in 1..n,
         NEW owner \in Users
  PROVE  Good(FlushFresh(s, t, owner), Tell(cs, s.waiting, t), n)
<1> DEFINE d == FlushFresh(s, t, owner)
<1>1. /\ Typed(d, n) /\ d.refresh = s.refresh /\ d.waiting = {}
      /\ \A r : r.op = "refresh" => (r \in s.asked <=> r \in d.asked)
  BY FlushFreshKeeps
<1> HIDE DEF d
<1>2. One(d) BY <1>1, OneOfOthers
<1>3. Heard(d, Tell(cs, s.waiting, t)) BY <1>1, TellHeard
<1>. QED BY <1>1, <1>2, <1>3 DEF Good, Awaited, d

\* A flush without tokens settles everybody.
LEMMA FlushNoneGood ==
  ASSUME NEW n \in Nat, NEW s, Typed(s, n), One(s), NEW cs, Heard(s, cs)
  PROVE  Good(FlushNone(s), Tell(cs, s.waiting, 0), n)
<1> DEFINE d == FlushNone(s)
<1>1. Typed(d, n) /\ d.refresh = s.refresh /\ d.waiting = {} /\ d.asked = s.asked
  BY FlushNoneKeeps
<1> HIDE DEF d
<1>2. One(d) BY <1>1 DEF One
<1>3. Heard(d, Tell(cs, s.waiting, 0)) BY <1>1, TellHeard
<1>. QED BY <1>1, <1>2, <1>3 DEF Good, Awaited, d

\* withFreshJwt, of whichever callback, keeps the invariant: it flushes, or starts the
\* refresh that will flush.
LEMMA WithFreshJwtGood ==
  ASSUME IInv, NEW w \in Waits, NEW before, WithFreshJwt(w, before),
         w.for = "loginAs" => w.user \in Users,
         Heard([svc EXCEPT !.waiting = svc.waiting \cup {w}], before)
  PROVE  Good(svc', callers', Len(tokens))
<1> DEFINE s == [svc EXCEPT !.waiting = svc.waiting \cup {w}]
           n == Len(tokens)
           age == IF s.jwt = 0 THEN "dead" ELSE tokens[s.jwt].age
<1>1. n \in Nat BY LenProperties DEF IInv
<1>2. /\ Typed(s, n) /\ One(s) /\ s.waiting = svc.waiting \cup {w}
      /\ s.jwt = svc.jwt /\ s.refresh = svc.refresh /\ s.asked = svc.asked
  BY DEF IInv, Typed, One, Services
<1>3. Heard(s, before) OBVIOUS
<1>4. /\ age = "dead" => svc' = FlushNone(s) /\ callers' = Tell(before, s.waiting, 0)
      /\ age = "stale" =>
           /\ svc' = IF s.refresh THEN s
                     ELSE [s EXCEPT !.refresh = TRUE,
                       !.asked = s.asked \cup {[op |-> "refresh", with |-> s.jwt, user |-> 0]}]
           /\ callers' = before
      /\ age = "fresh" => /\ svc' = FlushFresh(s, s.jwt, UserOf(s.jwt))
                          /\ callers' = Tell(before, s.waiting, s.jwt)
  BY DEF WithFreshJwt
<1>5. /\ age \in Ages /\ (s.jwt = 0 => age = "dead")
      /\ s.jwt # 0 => UserOf(s.jwt) \in Users
  <2>1. s.jwt # 0 => s.jwt \in 1..Len(tokens) BY <1>1, <1>2 DEF Typed
  <2>2. s.jwt # 0 => tokens[s.jwt] \in Tokens BY <2>1 DEF IInv
  <2>. QED BY <2>2 DEF Tokens, Ages, UserOf
<1> HIDE DEF s, age
<1>6. CASE age = "dead"
  <2>1. Good(FlushNone(s), Tell(before, s.waiting, 0), n)
    BY <1>1, <1>2, <1>3, FlushNoneGood
  <2>. QED BY <1>4, <1>6, <2>1
<1>7. CASE age = "fresh"
  <2>1. s.jwt \in 1..n /\ UserOf(s.jwt) \in Users BY <1>1, <1>2, <1>5, <1>7 DEF Typed
  <2>2. Good(FlushFresh(s, s.jwt, UserOf(s.jwt)), Tell(before, s.waiting, s.jwt), n)
    BY <1>1, <1>2, <1>3, <2>1, FlushFreshGood
  <2>. QED BY <1>4, <1>7, <2>2
<1>8. CASE age = "stale" /\ s.refresh
  BY <1>2, <1>3, <1>4, <1>8 DEF Good, Awaited
<1>9. CASE age = "stale" /\ ~s.refresh
  <2> DEFINE r == [op |-> "refresh", with |-> s.jwt, user |-> 0]
             d == [s EXCEPT !.refresh = TRUE, !.asked = s.asked \cup {r}]
  <2>1. svc' = d /\ callers' = before BY <1>4, <1>9
  <2>2. s.jwt \in 1..n BY <1>1, <1>2, <1>5, <1>9 DEF Typed
  <2>3. r \in Asked /\ r.op = "refresh" /\ r.with = s.jwt BY <2>2 DEF Asked
  <2> HIDE DEF r
  <2>4. /\ d \in Services /\ d.refresh = TRUE /\ d.asked = s.asked \cup {r}
        /\ d.jwt = s.jwt /\ d.storage = s.storage /\ d.stash = s.stash
        /\ d.waiting = s.waiting
    BY <1>2, <2>3 DEF Typed, Services
  <2> HIDE DEF d
  <2>5. Typed(d, n) BY <1>1, <1>2, <2>2, <2>3, <2>4 DEF Typed
  <2>6. One(d) BY <1>2, <1>9, <2>3, <2>4 DEF One
  <2>7. Heard(d, before) BY <1>3, <2>4 DEF Heard
  <2>. QED BY <2>1, <2>4, <2>5, <2>6, <2>7 DEF Good, Awaited
<1>. QED BY <1>5, <1>6, <1>7, <1>8, <1>9 DEF Ages

\* A new service satisfies the inductive invariant.
LEMMA InitIInv == Init => IInv
<1> SUFFICES ASSUME Init PROVE IInv
  OBVIOUS
<1>1. svc = Loaded(0) /\ tokens = <<>> /\ callers = <<>> /\ raced = FALSE BY DEF Init
<1>2. Len(tokens) = 0 BY <1>1
<1>3. Typed(svc, 0) BY <1>1 DEF Typed, Loaded, Services
<1>4. One(svc) /\ Awaited(svc) BY <1>1 DEF One, Awaited, Loaded
<1>5. Heard(svc, callers) BY <1>1 DEF Heard, Loaded
<1>6. tokens \in Seq(Tokens) BY <1>1
<1>. QED BY <1>1, <1>2, <1>3, <1>4, <1>5, <1>6 DEF IInv

\* withFreshJwt() called from outside keeps the inductive invariant.
LEMMA CallStep ==
  ASSUME IInv, NEW freshOnly \in BOOLEAN, CallWithFreshJwt(freshOnly)
  PROVE  IInv'
<1> DEFINE id == Len(callers) + 1
           w == [for |-> "caller", id |-> id, user |-> 0, callWithFreshOnly |-> freshOnly]
           call == [owner |-> UserOf(svc.jwt), called |-> 0, given |-> 0, dropped |-> FALSE]
           before == Append(callers, call)
           s == [svc EXCEPT !.waiting = svc.waiting \cup {w}]
<1>1. callers \in Seq(Callers) /\ Len(callers) \in Nat BY DEF IInv, Heard
<1>2. call \in Callers
  <2>1. tokens \in Seq(Tokens) /\ svc.jwt \in 0..Len(tokens) BY DEF IInv, Typed
  <2>2. svc.jwt # 0 => tokens[svc.jwt] \in Tokens BY <2>1
  <2>3. UserOf(svc.jwt) \in Users \cup {0} BY <2>2 DEF UserOf, Tokens
  <2>. QED BY <2>3 DEF Callers
<1>3. w \in Waits BY <1>1 DEF Waits
<1>4. s.waiting = svc.waiting \cup {w} BY DEF IInv, Typed, Services
<1>5. w.for = "caller" /\ w.id = id OBVIOUS
<1>6. call.called = 0 /\ ~call.dropped OBVIOUS
<1>7. WithFreshJwt(w, before) BY DEF CallWithFreshJwt
<1> HIDE DEF w, call, s
<1>8. /\ before \in Seq(Callers) /\ DOMAIN before = 1..id
      /\ \A i \in DOMAIN callers : i \in DOMAIN before /\ before[i] = callers[i]
      /\ before[id] = call /\ DOMAIN before = DOMAIN callers \cup {id}
  BY <1>1, <1>2, AppendProperties
<1> HIDE DEF before
<1>9. Heard(s, before)
  <2>1. Heard(svc, callers) BY DEF IInv
  <2>2. \A i \in DOMAIN before : Once(before[i])
    BY <1>6, <1>8, <2>1 DEF Heard, Once
  <2>3. ASSUME NEW v \in s.waiting, v.for = "caller"
        PROVE  v.id \in DOMAIN before /\ before[v.id].called = 0 /\ ~before[v.id].dropped
    <3>1. CASE v = w BY <1>5, <1>6, <1>8, <3>1
    <3>2. CASE v \in svc.waiting BY <1>8, <2>1, <2>3, <3>2 DEF Heard
    <3>. QED BY <1>4, <3>1, <3>2
  <2>. QED BY <1>8, <2>2, <2>3 DEF Heard
<1>10. Good(svc', callers', Len(tokens)) BY <1>3, <1>5, <1>7, <1>9, WithFreshJwtGood DEF s
<1>. QED BY <1>10 DEF IInv, Good, CallWithFreshJwt, NoteRaces

\* loginAs(), logout() and the guard, up to the request, keep the inductive invariant.
LEMMA SessionCallStep ==
  ASSUME IInv, NEW w \in Waits, w.for # "caller", w.for = "loginAs" => w.user \in Users,
         WithFreshJwt(w, callers), NoteRaces, UNCHANGED tokens
  PROVE  IInv'
<1> DEFINE s == [svc EXCEPT !.waiting = svc.waiting \cup {w}]
<1>1. s.waiting = svc.waiting \cup {w} BY DEF IInv, Typed, Services
<1>2. Heard(s, callers) BY <1>1 DEF IInv, Heard
<1>3. Good(svc', callers', Len(tokens)) BY <1>2, WithFreshJwtGood
<1>. QED BY <1>3 DEF IInv, Good, NoteRaces

\* login(), up to the request, keeps the inductive invariant.
LEMMA LoginStep ==
  ASSUME IInv, NEW user \in Masters, Login(user)
  PROVE  IInv'
<1> DEFINE r == [op |-> "login", with |-> 0, user |-> user]
<1>1. user \in Users /\ r \in Asked BY DEF Asked, Users
<1>2. svc' = [svc EXCEPT !.asked = svc.asked \cup {r}] BY DEF Login
<1>3. r.op # "refresh" /\ r.with = 0 /\ r.user \in Users BY <1>1
<1> HIDE DEF r
<1>4. /\ svc' \in Services /\ svc'.asked = svc.asked \cup {r} /\ svc'.refresh = svc.refresh
      /\ svc'.waiting = svc.waiting /\ svc'.jwt = svc.jwt /\ svc'.storage = svc.storage
      /\ svc'.stash = svc.stash
  BY <1>1, <1>2 DEF IInv, Typed, Services
<1>5. Len(tokens) \in Nat BY LenProperties DEF IInv
<1>6. Typed(svc', Len(tokens)) BY <1>3, <1>4, <1>5 DEF IInv, Typed
<1>7. One(svc') BY <1>3, <1>4 DEF IInv, One
<1>8. Awaited(svc') /\ Heard(svc', callers) BY <1>4 DEF IInv, Awaited, Heard
<1>. QED BY <1>6, <1>7, <1>8 DEF IInv, Login, NoteRaces

\* A service that holds other tokens, and has one request less in flight that was no
\* refresh, is as good as before.
LEMMA AnsweredGood ==
  ASSUME IInv, NEW r \in svc.asked, r.op # "refresh", NEW n \in Nat,
         NEW d, Typed(d, n), SameRest(Without(r), d)
  PROVE  Good(d, callers, n)
<1>1. Len(tokens) \in Nat BY LenProperties DEF IInv
<1>2. /\ d.refresh = svc.refresh /\ d.waiting = svc.waiting
      /\ d.asked = svc.asked \ {r}
  BY <1>1, WithoutKeeps DEF IInv, SameRest
<1>3. One(d) BY <1>2 DEF IInv, One
<1>. QED BY <1>2, <1>3 DEF IInv, Good, Awaited, Heard

\* One more pair of tokens in the list.
LEMMA IssueGrows ==
  ASSUME IInv, NEW user \in Users, NEW via \in {"login", "loginAs"}, Issue(user, via)
  PROVE  /\ tokens' \in Seq(Tokens) /\ Len(tokens') = Len(tokens) + 1
         /\ Len(tokens) \in Nat
<1> DEFINE new == [user |-> user, via |-> via, age |-> "fresh"]
<1>1. new \in Tokens BY DEF Tokens, Ages
<1>2. tokens' = Append(tokens, new) BY DEF Issue
<1> HIDE DEF new
<1>. QED BY <1>1, <1>2, AppendProperties, LenProperties DEF IInv

\* The answer to login() keeps the inductive invariant.
LEMMA LoginAnsweredStep ==
  ASSUME IInv, NEW r \in svc.asked, NEW outcome \in {"ok", "noTokens", "error"},
         LoginAnswered(r, outcome)
  PROVE  IInv'
<1> DEFINE n == Len(tokens)
<1>1. n \in Nat /\ Typed(Without(r), n) BY LenProperties, WithoutKeeps DEF IInv
<1>2. /\ r.op # "refresh" /\ r.user \in Users /\ UNCHANGED <<callers, raced>>
  BY DEF LoginAnswered, IInv, Typed
<1>3. SameRest(Without(r), Without(r)) BY DEF SameRest
<1>4. CASE outcome = "ok"
  <2>1. Issue(r.user, "login") /\ svc' = SetJwt(Without(r), n + 1)
    BY <1>4 DEF LoginAnswered
  <2>2. tokens' \in Seq(Tokens) /\ Len(tokens') = n + 1 BY <1>2, <2>1, IssueGrows
  <2>3. Typed(Without(r), n + 1) BY <1>1, TypedGrows
  <2>4. Typed(svc', n + 1) /\ SameRest(Without(r), svc')
    BY <1>1, <2>1, <2>3, SetJwtKeeps
  <2>5. Good(svc', callers, n + 1) BY <1>1, <1>2, <2>4, AnsweredGood
  <2>. QED BY <1>2, <2>2, <2>5 DEF IInv, Good
<1>5. CASE outcome = "noTokens"
  <2>1. svc' = Without(r) /\ UNCHANGED tokens BY <1>5 DEF LoginAnswered
  <2>2. Good(svc', callers, n) BY <1>1, <1>2, <1>3, <2>1, AnsweredGood
  <2>. QED BY <1>2, <2>1, <2>2 DEF IInv, Good
<1>6. CASE outcome = "error"
  <2>1. svc' = DeleteJwt(Without(r)) /\ UNCHANGED tokens BY <1>6 DEF LoginAnswered
  <2>2. Typed(svc', n) /\ SameRest(Without(r), svc') BY <1>1, <2>1, DeleteJwtKeeps
  <2>3. Good(svc', callers, n) BY <1>1, <1>2, <2>2, AnsweredGood
  <2>. QED BY <1>2, <2>1, <2>3 DEF IInv, Good
<1>. QED BY <1>4, <1>5, <1>6

\* The answer to loginAs() keeps the inductive invariant.
LEMMA LoginAsAnsweredStep ==
  ASSUME IInv, NEW r \in svc.asked, NEW outcome, LoginAsAnswered(r, outcome)
  PROVE  IInv'
<1> DEFINE n == Len(tokens)
<1>1. n \in Nat /\ Typed(Without(r), n) BY LenProperties, WithoutKeeps DEF IInv
<1>2. /\ r.op # "refresh" /\ r.user \in Users /\ UNCHANGED <<callers, raced>>
  BY DEF LoginAsAnswered, IInv, Typed
<1>3. SameRest(Without(r), Without(r)) BY DEF SameRest
<1>4. CASE outcome = "ok"
  <2>1. Issue(r.user, "loginAs") /\ svc' = StashJwt(Without(r), n + 1)
    BY <1>4 DEF LoginAsAnswered
  <2>2. tokens' \in Seq(Tokens) /\ Len(tokens') = n + 1 BY <1>2, <2>1, IssueGrows
  <2>3. Typed(Without(r), n + 1) BY <1>1, TypedGrows
  <2>4. Typed(svc', n + 1) /\ SameRest(Without(r), svc')
    BY <1>1, <2>1, <2>3, StashJwtKeeps
  <2>5. Good(svc', callers, n + 1) BY <1>1, <1>2, <2>4, AnsweredGood
  <2>. QED BY <1>2, <2>2, <2>5 DEF IInv, Good
<1>5. CASE outcome # "ok"
  <2>1. svc' = Without(r) /\ UNCHANGED tokens BY <1>5 DEF LoginAsAnswered
  <2>2. Good(svc', callers, n) BY <1>1, <1>2, <1>3, <2>1, AnsweredGood
  <2>. QED BY <1>2, <2>1, <2>2 DEF IInv, Good
<1>. QED BY <1>4, <1>5

\* The answer to logout() keeps the inductive invariant.
LEMMA LogoutAnsweredStep ==
  ASSUME IInv, NEW r \in svc.asked, NEW outcome, LogoutAnswered(r, outcome)
  PROVE  IInv'
<1> DEFINE n == Len(tokens)
<1>1. n \in Nat /\ Typed(Without(r), n) BY LenProperties, WithoutKeeps DEF IInv
<1>2. r.op # "refresh" /\ UNCHANGED <<tokens, callers, raced>> BY DEF LogoutAnswered
<1>3. SameRest(Without(r), Without(r)) BY DEF SameRest
<1>4. Typed(svc', n) /\ SameRest(Without(r), svc')
  BY <1>1, <1>3, LogoutSucceedKeeps DEF LogoutAnswered
<1>5. Good(svc', callers, n) BY <1>1, <1>2, <1>4, AnsweredGood
<1>. QED BY <1>2, <1>5 DEF IInv, Good

\* The subscriber of refresh() keeps the inductive invariant: it frees _refresh and
\* flushes everybody, so nobody waits and nothing is in flight.
LEMMA RefreshAnsweredStep ==
  ASSUME IInv, NEW r \in svc.asked, NEW outcome, RefreshAnswered(r, outcome)
  PROVE  IInv'
<1> DEFINE n == Len(tokens)
           s == [Without(r) EXCEPT !.refresh = FALSE]
           new == n + 1
<1>1. n \in Nat /\ Typed(Without(r), n) BY LenProperties, WithoutKeeps DEF IInv
<1>2. r.op = "refresh" /\ NoteRaces BY DEF RefreshAnswered
<1>3. /\ Typed(s, n) /\ s.refresh = FALSE /\ s.waiting = svc.waiting
      /\ s.asked = svc.asked \ {r}
  BY <1>1, WithoutKeeps DEF IInv, Typed, Services
<1>4. /\ outcome = "ok" =>
           /\ Issue(tokens[r.with].user, tokens[r.with].via)
           /\ svc' = FlushFresh(SetJwt(s, new), new, tokens[r.with].user)
           /\ callers' = Tell(callers, s.waiting, new)
      /\ outcome # "ok" =>
           svc' = FlushNone(s) /\ callers' = Tell(callers, s.waiting, 0) /\ UNCHANGED tokens
  BY DEF RefreshAnswered
<1> HIDE DEF s
<1>5. One(s) BY <1>2, <1>3 DEF IInv, One
<1>6. Heard(s, callers) BY <1>3 DEF IInv, Heard
<1>7. raced' \in BOOLEAN BY <1>2 DEF NoteRaces, IInv
<1>8. CASE outcome = "ok"
  <2>1. tokens[r.with] \in Tokens BY <1>2 DEF IInv, Typed
  <2>2. tokens' \in Seq(Tokens) /\ Len(tokens') = new
    BY <1>4, <1>8, <2>1, IssueGrows DEF Tokens
  <2>3. Typed(s, new) /\ new \in Nat /\ new \in 1..new BY <1>1, <1>3, TypedGrows
  <2> DEFINE d == SetJwt(s, new)
  <2>4. Typed(d, new) /\ SameRest(s, d) BY <2>3, SetJwtKeeps
  <2>5. /\ svc' = FlushFresh(d, new, tokens[r.with].user)
        /\ callers' = Tell(callers, d.waiting, new)
    BY <1>4, <1>8, <2>4 DEF SameRest
  <2> HIDE DEF d, new
  <2>6. One(d) /\ Heard(d, callers) BY <1>5, <1>6, <2>4 DEF SameRest, One, Heard
  <2>7. tokens[r.with].user \in Users BY <2>1 DEF Tokens
  <2>8. Good(svc', callers', new) BY <2>3, <2>4, <2>5, <2>6, <2>7, FlushFreshGood
  <2>. QED BY <1>7, <2>2, <2>8 DEF IInv, Good
<1>9. CASE outcome # "ok"
  <2>1. Good(FlushNone(s), Tell(callers, s.waiting, 0), n)
    BY <1>1, <1>3, <1>5, <1>6, FlushNoneGood
  <2>. QED BY <1>4, <1>7, <1>9, <2>1 DEF IInv, Good
<1>. QED BY <1>8, <1>9

\* The clock keeps the inductive invariant.
LEMMA ExpiresStep ==
  ASSUME IInv, NEW t \in DOMAIN tokens, Expires(t)
  PROVE  IInv'
<1> DEFINE older == IF tokens[t].age = "fresh" THEN "stale" ELSE "dead"
           new == [user |-> tokens[t].user, via |-> tokens[t].via, age |-> older]
<1>1. tokens \in Seq(Tokens) /\ t \in 1..Len(tokens) BY DEF IInv
<1>2. tokens[t] \in Tokens BY <1>1
<1>3. new \in Tokens BY <1>2 DEF Tokens, Ages
<1>4. tokens' = [tokens EXCEPT ![t] = new] BY DEF Expires
<1> HIDE DEF new
<1>5. tokens' \in Seq(Tokens) /\ Len(tokens') = Len(tokens)
  BY <1>1, <1>3, <1>4, ExceptSeq
<1>. QED BY <1>5 DEF IInv, Expires

\* A page load keeps the inductive invariant.
LEMMA ReloadStep ==
  ASSUME IInv, Reload
  PROVE  IInv'
<1> DEFINE n == Len(tokens)
           after(i) == IF callers[i].called = 0 THEN [callers[i] EXCEPT !.dropped = TRUE]
                       ELSE callers[i]
<1>1. n \in Nat BY LenProperties DEF IInv
<1>2. svc' = Loaded(svc.storage) /\ UNCHANGED <<tokens, raced>> BY DEF Reload
<1>3. svc.storage \in 0..n /\ svc.storage \in Nat BY <1>1 DEF IInv, Typed
<1>4. svc' \in Services /\ svc'.asked = {} /\ svc'.waiting = {} /\ svc'.refresh = FALSE
      /\ svc'.jwt = svc.storage /\ svc'.storage = svc.storage /\ svc'.stash = <<>>
  BY <1>2, <1>3 DEF Loaded, Services
<1>5. Typed(svc', n) BY <1>3, <1>4 DEF Typed
<1>6. One(svc') /\ Awaited(svc') BY <1>4 DEF One, Awaited
<1>7. callers \in Seq(Callers) /\ Len(callers) \in Nat /\ DOMAIN callers = 1..Len(callers)
  BY LenProperties DEF IInv, Heard
<1>8. callers' = [i \in 1..Len(callers) |-> after(i)] BY <1>7 DEF Reload
<1>9. \A i \in 1..Len(callers) : after(i) \in Callers /\ Once(after(i))
  <2> TAKE i \in 1..Len(callers)
  <2>1. callers[i] \in Callers /\ Once(callers[i]) BY <1>7 DEF IInv, Heard
  <2> DEFINE a == [callers[i] EXCEPT !.dropped = TRUE]
  <2>2. a \in Callers /\ a.called = callers[i].called BY <2>1 DEF Callers
  <2> HIDE DEF a
  <2>3. after(i) = IF callers[i].called = 0 THEN a ELSE callers[i] BY DEF a
  <2>. QED BY <2>1, <2>2, <2>3 DEF Once
<1> HIDE DEF after
<1>10. callers' \in Seq(Callers) /\ DOMAIN callers' = 1..Len(callers)
  <2>1. callers' \in [1..Len(callers) -> Callers] BY <1>8, <1>9
  <2>. QED BY <1>7, <2>1, SeqDef
<1>11. Heard(svc', callers') BY <1>4, <1>8, <1>9, <1>10 DEF Heard
<1>. QED BY <1>2, <1>5, <1>6, <1>11 DEF IInv

\* Every step keeps the inductive invariant.
LEMMA NextIInv ==
  ASSUME IInv, [Next]_vars
  PROVE  IInv'
<1>1. ASSUME NEW freshOnly \in BOOLEAN, CallWithFreshJwt(freshOnly) PROVE IInv'
  BY <1>1, CallStep
<1>2. ASSUME NEW user \in Masters, Login(user) PROVE IInv'
  BY <1>2, LoginStep
<1>3. ASSUME NEW user \in Targets, LoginAs(user) PROVE IInv'
  <2> DEFINE w == [for |-> "loginAs", id |-> 0, user |-> user, callWithFreshOnly |-> FALSE]
  <2>1. w \in Waits /\ w.for = "loginAs" /\ w.user \in Users BY DEF Waits, Users
  <2>2. WithFreshJwt(w, callers) /\ NoteRaces /\ UNCHANGED tokens BY <1>3 DEF LoginAs
  <2> HIDE DEF w
  <2>. QED BY <2>1, <2>2, SessionCallStep
<1>4. CASE Logout
  <2> DEFINE w == [for |-> "logout", id |-> 0, user |-> 0, callWithFreshOnly |-> FALSE]
  <2>1. w \in Waits /\ w.for = "logout" BY DEF Waits
  <2>2. WithFreshJwt(w, callers) /\ NoteRaces /\ UNCHANGED tokens BY <1>4 DEF Logout
  <2> HIDE DEF w
  <2>. QED BY <2>1, <2>2, SessionCallStep
<1>10. CASE LoginAgain
  <2> DEFINE w == [for |-> "guard", id |-> 0, user |-> 0, callWithFreshOnly |-> FALSE]
  <2>1. w \in Waits /\ w.for = "guard" BY DEF Waits
  <2>2. WithFreshJwt(w, callers) /\ NoteRaces /\ UNCHANGED tokens BY <1>10 DEF LoginAgain
  <2> HIDE DEF w
  <2>. QED BY <2>1, <2>2, SessionCallStep
<1>5. ASSUME NEW r \in svc.asked, NEW outcome \in {"ok", "noTokens", "error"},
             LoginAnswered(r, outcome)
      PROVE  IInv'
  BY <1>5, LoginAnsweredStep
<1>6. ASSUME NEW r \in svc.asked, NEW outcome \in {"ok", "error"},
             LoginAsAnswered(r, outcome) \/ LogoutAnswered(r, outcome) \/ RefreshAnswered(r, outcome)
      PROVE  IInv'
  BY <1>6, LoginAsAnsweredStep, LogoutAnsweredStep, RefreshAnsweredStep
<1>7. ASSUME NEW t \in DOMAIN tokens, Expires(t) PROVE IInv'
  BY <1>7, ExpiresStep
<1>8. CASE Reload BY <1>8, ReloadStep
<1>9. CASE UNCHANGED vars BY <1>9 DEF vars, IInv
<1>. QED BY <1>1, <1>2, <1>3, <1>4, <1>5, <1>6, <1>7, <1>8, <1>9, <1>10
     DEF Next

\* The inductive invariant holds in every state of every behaviour.
THEOREM Invariance == Spec => []IInv
<1>1. IInv /\ [Next]_vars => IInv' BY NextIInv
<1>. QED BY InitIInv, <1>1, PTL DEF Spec

\* Every variable keeps its type; tokens that are held, saved or sent were issued.
THEOREM TypeCorrect == Spec => []TypeOK
<1>1. IInv => TypeOK
  <2> SUFFICES ASSUME IInv PROVE TypeOK
    OBVIOUS
  <2>1. Len(tokens) \in Nat /\ DOMAIN tokens = 1..Len(tokens) BY LenProperties DEF IInv
  <2>2. \A i \in DOMAIN svc.stash : svc.stash[i] \in DOMAIN tokens
    BY <2>1 DEF IInv, Typed
  <2>. QED BY <2>1, <2>2 DEF IInv, Typed, Heard, TypeOK
<1>. QED BY <1>1, Invariance, PTL

\* At most one refresh is in flight, and _refresh tells so, in whatever order calls are
\* made and answered (development.md: "Prohibit concurrent refreshes").
THEOREM OneRefreshAlways == Spec => []OneRefresh
<1>1. IInv => OneRefresh
  <2> SUFFICES ASSUME IInv PROVE OneRefresh
    OBVIOUS
  <2>1. svc.refresh \in BOOLEAN BY DEF IInv, Typed, Services
  <2>2. svc.refresh <=> Refreshes # {} BY DEF IInv, One, Refreshes
  <2>3. svc.refresh = (Refreshes # {}) BY <2>1, <2>2
  <2>4. \A r1, r2 \in Refreshes : r1 = r2 BY DEF IInv, One, Refreshes
  <2>. QED BY <2>3, <2>4 DEF OneRefresh
<1>. QED BY <1>1, Invariance, PTL

\* Nobody is left in _waitingForRefresh without a refresh in flight.
THEOREM WaitersHaveARefreshAlways == Spec => []WaitersHaveARefresh
<1>1. IInv => WaitersHaveARefresh
  BY DEF IInv, One, Awaited, WaitersHaveARefresh, Refreshes
<1>. QED BY <1>1, Invariance, PTL

\* No callback is called twice, or after it was dropped.
THEOREM CalledOnceAlways == Spec => []CalledOnce
<1>1. IInv => CalledOnce BY DEF IInv, Heard, Once, CalledOnce
<1>. QED BY <1>1, Invariance, PTL
-------------------------------------------------------------------------------
\* JwtService implements FreshTokens.

Unsettled(call) == call.called = 0 /\ ~call.dropped

NoneLost(s, cs) ==
  \A i \in DOMAIN cs :
    Unsettled(cs[i]) => \E w \in s.waiting : w.for = "caller" /\ w.id = i

PInv == IInv /\ NoneLost(svc, callers)

\* The calls as FreshTokens sees them.
Seen(cs) == [i \in DOMAIN cs |-> StateOf(cs[i])]

\* cs becomes ds by a flush that settles in one of the ways of how.
Settles(cs, ds, how) ==
  /\ DOMAIN ds = DOMAIN cs
  /\ \A i \in DOMAIN cs :
       IF Unsettled(cs[i]) THEN StateOf(ds[i]) \in how ELSE ds[i] = cs[i]

\* How a flush settles.
Hows(t) == IF t = 0 THEN {"no tokens", "dropped"} ELSE {"tokens"}

\* What waits in the eyes of FreshTokens is what is not settled.
LEMMA WaitingIsUnsettled ==
  ASSUME NEW call \in Callers
  PROVE  StateOf(call) = "waiting" <=> Unsettled(call)
BY DEF StateOf, Unsettled, Callers

\* A callback that waits is settled by the flush, in the way of the tokens there are.
LEMMA SettledHow ==
  ASSUME NEW call \in Callers, Unsettled(call), NEW ws, ws # {}, NEW t \in Nat
  PROVE  StateOf(Settled(call, ws, t)) \in Hows(t)
<1> DEFINE a == [call EXCEPT !.dropped = TRUE]
           b == [call EXCEPT !.called = 1, !.given = t]
<1>1. call.called = 0 /\ call.called + 1 = 1 BY DEF Unsettled
<1>2. Settled(call, ws, t) = IF t = 0 /\ \A w \in ws : w.callWithFreshOnly THEN a ELSE b
  BY <1>1 DEF Settled
<1>3. StateOf(a) = "dropped" BY <1>1 DEF StateOf, Callers
<1>4. b.called = 1 /\ ~b.dropped /\ b.given = t BY DEF Callers, Unsettled
<1>5. StateOf(b) = IF t = 0 THEN "no tokens" ELSE "tokens" BY <1>4 DEF StateOf
<1> HIDE DEF a, b
<1>. QED BY <1>2, <1>3, <1>5 DEF Hows

\* A flush settles everybody who is not settled, and nobody else.
LEMMA TellSettles ==
  ASSUME NEW s, NEW cs, Heard(s, cs), NoneLost(s, cs), NEW t \in Nat
  PROVE  Settles(cs, Tell(cs, s.waiting, t), Hows(t))
<1> DEFINE of(i) == {w \in s.waiting : w.for = "caller" /\ w.id = i}
           told == Tell(cs, s.waiting, t)
<1>1. DOMAIN told = DOMAIN cs BY DEF Tell
<1>2. ASSUME NEW i \in DOMAIN cs
      PROVE  IF Unsettled(cs[i]) THEN StateOf(told[i]) \in Hows(t) ELSE told[i] = cs[i]
  <2>1. told[i] = Settled(cs[i], of(i), t) BY DEF Tell
  <2>2. cs[i] \in Callers BY DEF Heard
  <2>3. of(i) # {} <=> Unsettled(cs[i]) BY DEF Heard, NoneLost, Unsettled
  <2> HIDE DEF of
  <2>4. CASE Unsettled(cs[i]) BY <2>1, <2>2, <2>3, <2>4, SettledHow
  <2>5. CASE ~Unsettled(cs[i]) BY <2>1, <2>3, <2>5 DEF Settled
  <2>. QED BY <2>4, <2>5
<1>. QED BY <1>1, <1>2 DEF Settles

\* After a flush there is nobody left to lose.
LEMMA SettledNotLost ==
  ASSUME NEW cs, NEW ds, NEW t \in Nat, Settles(cs, ds, Hows(t)), NEW s
  PROVE  NoneLost(s, ds)
<1>1. ASSUME NEW i \in DOMAIN ds PROVE ~Unsettled(ds[i])
  <2>1. CASE Unsettled(cs[i])
    <3>1. StateOf(ds[i]) # "waiting" BY <2>1 DEF Settles, Hows
    <3>. QED BY <3>1 DEF StateOf, Unsettled
  <2>2. CASE ~Unsettled(cs[i]) BY <2>2 DEF Settles
  <2>. QED BY <2>1, <2>2
<1>. QED BY <1>1 DEF NoneLost
-------------------------------------------------------------------------------
\* withFreshJwt() either lets the callback wait with the others or flushes them all.
LEMMA WithFreshJwtTells ==
  ASSUME IInv, NEW w \in Waits, NEW before, WithFreshJwt(w, before)
  PROVE  LET all == svc.waiting \cup {w}
         IN  \/ callers' = before /\ svc'.waiting = all
             \/ \E t \in Nat : callers' = Tell(before, all, t) /\ svc'.waiting = {}
<1> DEFINE s == [svc EXCEPT !.waiting = svc.waiting \cup {w}]
           age == IF s.jwt = 0 THEN "dead" ELSE tokens[s.jwt].age
<1>1. svc \in Services BY DEF IInv, Typed
<1>2. s.waiting = svc.waiting \cup {w} /\ s.jwt \in Nat /\ s.jwt = svc.jwt
  BY <1>1 DEF Services
<1>3. age \in Ages
  <2>1. Len(tokens) \in Nat /\ svc.jwt \in 0..Len(tokens) BY LenProperties DEF IInv, Typed
  <2>2. s.jwt # 0 => s.jwt \in 1..Len(tokens) BY <1>2, <2>1
  <2>3. s.jwt # 0 => tokens[s.jwt] \in Tokens BY <2>2 DEF IInv
  <2>. QED BY <2>3 DEF Tokens, Ages
<1>4. CASE age = "dead"
  <2>1. callers' = Tell(before, s.waiting, 0) /\ svc' = FlushNone(s) BY <1>4 DEF WithFreshJwt
  <2>2. s \in Services BY <1>1 DEF Services
  <2> HIDE DEF s
  <2>3. FlushNone(s).waiting = {}
    BY <2>2 DEF FlushNone, LogoutSucceed, UnstashJwt, DeleteJwt, Services
  <2>. QED BY <1>2, <2>1, <2>3 DEF s
<1>5. CASE age = "fresh"
  <2>1. callers' = Tell(before, s.waiting, s.jwt) /\ svc' = FlushFresh(s, s.jwt, UserOf(s.jwt))
    BY <1>5 DEF WithFreshJwt
  <2>2. svc'.waiting = {} BY <1>1, <2>1 DEF FlushFresh, Services
  <2>. QED BY <1>2, <2>1, <2>2
<1>6. CASE age = "stale"
  <2> DEFINE d == [s EXCEPT !.refresh = TRUE,
                     !.asked = s.asked \cup {[op |-> "refresh", with |-> s.jwt, user |-> 0]}]
  <2>1. callers' = before /\ (svc' = s \/ svc' = d) BY <1>6 DEF WithFreshJwt
  <2>2. d.waiting = s.waiting BY <1>1 DEF Services
  <2>. QED BY <1>2, <2>1, <2>2
<1>. QED BY <1>3, <1>4, <1>5, <1>6 DEF Ages

\* A step in the eyes of FreshTokens: nothing, somebody else who waits, a flush, or a call
\* and perhaps a flush.
Step ==
  \/ /\ callers' = callers /\ NoneLost(svc', callers)
     /\ \/ svc'.waiting = svc.waiting
        \/ \E w \in Waits : w.for # "caller" /\ svc'.waiting = svc.waiting \cup {w}
  \/ \E before : \E t \in Nat :
       /\ before = callers \/ \E call \in Callers : Unsettled(call) /\ before = Append(callers, call)
       /\ \/ /\ callers' = before /\ NoneLost(svc', callers') /\ before # callers
             /\ \E w \in Waits : w.for = "caller" /\ svc'.waiting = svc.waiting \cup {w}
          \/ Settles(before, callers', Hows(t)) /\ svc'.waiting = {}

\* Whatever is settled, and nothing else, keeps PInv and is a step of FreshTokens.
LEMMA StepKeeps ==
  ASSUME PInv, Step
  PROVE  NoneLost(svc', callers')
BY SettledNotLost DEF Step

\* The caller of withFreshJwt().
LEMMA CallIsStep ==
  ASSUME PInv, NEW freshOnly \in BOOLEAN, CallWithFreshJwt(freshOnly)
  PROVE  Step
<1> DEFINE id == Len(callers) + 1
           w == [for |-> "caller", id |-> id, user |-> 0, callWithFreshOnly |-> freshOnly]
           call == [owner |-> UserOf(svc.jwt), called |-> 0, given |-> 0, dropped |-> FALSE]
           before == Append(callers, call)
           s == [svc EXCEPT !.waiting = svc.waiting \cup {w}]
<1>1. callers \in Seq(Callers) /\ Len(callers) \in Nat BY LenProperties DEF PInv, IInv, Heard
<1>2. id \in Nat BY <1>1
<1>3. w \in Waits /\ w.for = "caller" /\ w.id = id BY <1>2 DEF Waits
<1>4. WithFreshJwt(w, before) BY DEF CallWithFreshJwt
<1>5. UserOf(svc.jwt) \in Users \cup {0}
  <2>1. svc.jwt \in 0..Len(tokens) /\ Len(tokens) \in Nat BY LenProperties DEF PInv, IInv, Typed
  <2>2. svc.jwt # 0 => svc.jwt \in 1..Len(tokens) BY <2>1
  <2>3. svc.jwt # 0 => tokens[svc.jwt] \in Tokens BY <2>2 DEF PInv, IInv
  <2>. QED BY <2>3 DEF UserOf, Tokens
<1>6. call \in Callers /\ Unsettled(call) BY <1>5 DEF Callers, Unsettled
<1>7. s.waiting = svc.waiting \cup {w} BY DEF PInv, IInv, Typed, Services
<1> HIDE DEF w, call, s
<1>8. /\ before \in Seq(Callers) /\ DOMAIN before = DOMAIN callers \cup {id} /\ before[id] = call
      /\ \A i \in DOMAIN callers : before[i] = callers[i]
      /\ id \notin DOMAIN callers
      /\ before # callers
  BY <1>1, <1>6, AppendProperties, LenProperties
<1>9. NoneLost(s, before)
  <2> SUFFICES ASSUME NEW i \in DOMAIN before, Unsettled(before[i])
               PROVE  \E v \in s.waiting : v.for = "caller" /\ v.id = i
    BY DEF NoneLost
  <2>1. CASE i = id BY <1>3, <1>7, <2>1
  <2>2. CASE i # id BY <1>7, <1>8, <2>2 DEF PInv, NoneLost
  <2>. QED BY <2>1, <2>2
<1> HIDE DEF before
<1>10. Heard(s, before)
  <2>1. Heard(svc, callers) BY DEF PInv, IInv
  <2>2. \A i \in DOMAIN before : Once(before[i]) BY <1>6, <1>8, <2>1 DEF Heard, Once, Unsettled
  <2>3. ASSUME NEW v \in s.waiting, v.for = "caller"
        PROVE  v.id \in DOMAIN before /\ before[v.id].called = 0 /\ ~before[v.id].dropped
    <3>1. CASE v = w BY <1>3, <1>6, <1>8, <3>1 DEF Unsettled
    <3>2. CASE v \in svc.waiting BY <1>8, <2>1, <2>3, <3>2 DEF Heard
    <3>. QED BY <1>7, <3>1, <3>2
  <2>. QED BY <1>8, <2>2, <2>3 DEF Heard
<1>11. \/ callers' = before /\ svc'.waiting = s.waiting
       \/ \E t \in Nat : callers' = Tell(before, s.waiting, t) /\ svc'.waiting = {}
  BY <1>3, <1>4, <1>7, WithFreshJwtTells DEF PInv
<1>12. CASE callers' = before /\ svc'.waiting = s.waiting
  <2>1. NoneLost(svc', before) BY <1>9, <1>12 DEF NoneLost
  <2>. QED BY <1>3, <1>6, <1>7, <1>8, <1>12, <2>1 DEF Step, before
<1>13. ASSUME NEW t \in Nat, callers' = Tell(before, s.waiting, t), svc'.waiting = {} PROVE Step
  <2>1. Settles(before, callers', Hows(t)) BY <1>9, <1>10, <1>13, TellSettles
  <2>. QED BY <1>6, <1>13, <2>1 DEF Step, before
<1>. QED BY <1>11, <1>12, <1>13

\* The callers of withFreshJwt() who are none of FreshTokens: the effects and the guard.
LEMMA SessionCallIsStep ==
  ASSUME PInv, NEW w \in Waits, w.for # "caller", WithFreshJwt(w, callers)
  PROVE  Step
<1> DEFINE s == [svc EXCEPT !.waiting = svc.waiting \cup {w}]
<1>1. s.waiting = svc.waiting \cup {w} BY DEF PInv, IInv, Typed, Services
<1> HIDE DEF s
<1>2. Heard(s, callers) /\ NoneLost(s, callers) BY <1>1 DEF PInv, IInv, Heard, NoneLost
<1>3. \/ callers' = callers /\ svc'.waiting = s.waiting
      \/ \E t \in Nat : callers' = Tell(callers, s.waiting, t) /\ svc'.waiting = {}
  BY <1>1, WithFreshJwtTells DEF PInv
<1>4. CASE callers' = callers /\ svc'.waiting = s.waiting
  BY <1>1, <1>2, <1>4 DEF Step, NoneLost
<1>5. ASSUME NEW t \in Nat, callers' = Tell(callers, s.waiting, t), svc'.waiting = {} PROVE Step
  <2>1. Settles(callers, callers', Hows(t)) BY <1>2, <1>5, TellSettles
  <2>. QED BY <1>5, <2>1 DEF Step
<1>. QED BY <1>3, <1>4, <1>5

\* The answers that leave the callers alone.
LEMMA AnsweredIsStep ==
  ASSUME PInv, NEW r \in svc.asked, UNCHANGED callers,
         NEW n \in Nat, NEW s, Typed(s, n), s.waiting = svc.waiting, SameRest(s, svc')
  PROVE  Step
BY DEF Step, NoneLost, PInv, SameRest

\* The answer to login().
LEMMA LoginAnsweredIsStep ==
  ASSUME PInv, NEW r \in svc.asked, NEW outcome \in {"ok", "noTokens", "error"},
         LoginAnswered(r, outcome)
  PROVE  Step
<1> DEFINE n == Len(tokens)
<1>1. n \in Nat /\ Typed(Without(r), n) /\ Without(r).waiting = svc.waiting
  BY LenProperties, WithoutKeeps DEF PInv, IInv
<1>2. UNCHANGED callers BY DEF LoginAnswered
<1>3. CASE outcome = "ok"
  <2>1. svc' = SetJwt(Without(r), n + 1) BY <1>3 DEF LoginAnswered
  <2>2. Typed(Without(r), n + 1) BY <1>1, TypedGrows
  <2>3. SameRest(Without(r), svc') BY <1>1, <2>1, <2>2, SetJwtKeeps
  <2>. QED BY <1>1, <1>2, <2>3, AnsweredIsStep
<1>4. CASE outcome = "noTokens"
  <2>1. SameRest(Without(r), svc') BY <1>4 DEF LoginAnswered, SameRest
  <2>. QED BY <1>1, <1>2, <2>1, AnsweredIsStep
<1>5. CASE outcome = "error"
  <2>1. SameRest(Without(r), svc') BY <1>1, <1>5, DeleteJwtKeeps DEF LoginAnswered
  <2>. QED BY <1>1, <1>2, <2>1, AnsweredIsStep
<1>. QED BY <1>3, <1>4, <1>5

\* The answers to loginAs() and logout().
LEMMA LoginAsAnsweredIsStep ==
  ASSUME PInv, NEW r \in svc.asked, NEW outcome,
         LoginAsAnswered(r, outcome) \/ LogoutAnswered(r, outcome)
  PROVE  Step
<1> DEFINE n == Len(tokens)
<1>1. n \in Nat /\ Typed(Without(r), n) /\ Without(r).waiting = svc.waiting
  BY LenProperties, WithoutKeeps DEF PInv, IInv
<1>2. UNCHANGED callers BY DEF LoginAsAnswered, LogoutAnswered
<1>3. CASE svc' = StashJwt(Without(r), n + 1)
  <2>1. Typed(Without(r), n + 1) BY <1>1, TypedGrows
  <2>2. SameRest(Without(r), svc') BY <1>1, <1>3, <2>1, StashJwtKeeps
  <2>. QED BY <1>1, <1>2, <2>2, AnsweredIsStep
<1>4. CASE svc' = Without(r)
  <2>1. SameRest(Without(r), svc') BY <1>4 DEF SameRest
  <2>. QED BY <1>1, <1>2, <2>1, AnsweredIsStep
<1>5. CASE svc' = LogoutSucceed(Without(r))
  <2>1. SameRest(Without(r), svc') BY <1>1, <1>5, LogoutSucceedKeeps
  <2>. QED BY <1>1, <1>2, <2>1, AnsweredIsStep
<1>. QED BY <1>3, <1>4, <1>5 DEF LoginAsAnswered, LogoutAnswered

\* The subscriber of refresh() flushes everybody.
LEMMA RefreshAnsweredIsStep ==
  ASSUME PInv, NEW r \in svc.asked, NEW outcome, RefreshAnswered(r, outcome)
  PROVE  Step
<1> DEFINE s == [Without(r) EXCEPT !.refresh = FALSE]
<1>1. s.waiting = svc.waiting
  <2>1. Len(tokens) \in Nat BY LenProperties DEF PInv, IInv
  <2>. QED BY <2>1, WithoutKeeps DEF PInv, IInv, Typed, Services
<1>2. /\ callers' = Tell(callers, s.waiting, Len(tokens) + 1) \/ callers' = Tell(callers, s.waiting, 0)
      /\ Len(tokens) + 1 \in Nat
  BY LenProperties DEF RefreshAnswered, PInv, IInv
<1>5. svc'.waiting = {}
  <2> DEFINE new == Len(tokens) + 1
             u == tokens[r.with].user
  <2>1. svc' = FlushFresh(SetJwt(s, new), new, u) \/ svc' = FlushNone(s) BY DEF RefreshAnswered
  <2>2. /\ Len(tokens) \in Nat /\ new \in Nat /\ new \in 0..new
        /\ Typed(s, Len(tokens)) /\ Typed(s, new)
    <3>1. Len(tokens) \in Nat BY LenProperties DEF PInv, IInv
    <3>2. Typed(Without(r), Len(tokens)) BY <3>1, WithoutKeeps DEF PInv, IInv
    <3>3. Typed(s, Len(tokens)) BY <3>2 DEF Typed, Services
    <3>4. Typed(s, new) BY <3>1, <3>3, TypedGrows
    <3>. QED BY <3>1, <3>3, <3>4
  <2> HIDE DEF s, new, u
  <2>3. SetJwt(s, new) \in Services BY <2>2, SetJwtKeeps DEF Typed
  <2>4. FlushFresh(SetJwt(s, new), new, u).waiting = {} BY <2>3 DEF FlushFresh, Services
  <2>5. FlushNone(s).waiting = {} BY <2>2, FlushNoneKeeps
  <2>. QED BY <2>1, <2>4, <2>5
<1>3. PICK t \in Nat : callers' = Tell(callers, svc.waiting, t) BY <1>1, <1>2
<1>4. Settles(callers, callers', Hows(t)) BY <1>3, TellSettles DEF PInv, IInv
<1>. QED BY <1>4, <1>5 DEF Step

\* A page load drops everybody who waits.
LEMMA ReloadIsStep ==
  ASSUME PInv, Reload
  PROVE  Step
<1>1. /\ DOMAIN callers' = DOMAIN callers
      /\ \A i \in DOMAIN callers :
           callers'[i] = IF callers[i].called = 0 THEN [callers[i] EXCEPT !.dropped = TRUE]
                         ELSE callers[i]
  BY DEF Reload
<1>2. ASSUME NEW i \in DOMAIN callers
      PROVE  IF Unsettled(callers[i]) THEN StateOf(callers'[i]) \in Hows(0)
             ELSE callers'[i] = callers[i]
  <2> DEFINE a == [callers[i] EXCEPT !.dropped = TRUE]
  <2>1. callers[i] \in Callers BY DEF PInv, IInv, Heard
  <2>2. callers[i].called = 0 => StateOf(a) = "dropped" BY <2>1 DEF StateOf, Callers
  <2>3. callers[i].dropped => a = callers[i] BY <2>1 DEF Callers
  <2> HIDE DEF a
  <2>4. callers'[i] = IF callers[i].called = 0 THEN a ELSE callers[i] BY <1>1 DEF a
  <2>. QED BY <2>2, <2>3, <2>4 DEF Unsettled, Hows
<1>3. Settles(callers, callers', Hows(0)) BY <1>1, <1>2 DEF Settles
<1>4. 0 \in Nat /\ svc'.waiting = {} BY DEF Reload, Loaded
<1>. QED BY <1>3, <1>4 DEF Step

\* Every step of the service is one in the eyes of FreshTokens.
LEMMA NextIsStep ==
  ASSUME PInv, [Next]_vars
  PROVE  Step
<1>1. ASSUME NEW freshOnly \in BOOLEAN, CallWithFreshJwt(freshOnly) PROVE Step
  BY <1>1, CallIsStep
<1>2. ASSUME NEW user \in Masters, Login(user) PROVE Step
  <2>1. svc'.waiting = svc.waiting /\ UNCHANGED callers
    BY <1>2 DEF Login, PInv, IInv, Typed, Services
  <2>. QED BY <2>1 DEF Step, PInv, NoneLost
<1>3. ASSUME NEW user \in Targets, LoginAs(user) PROVE Step
  <2> DEFINE w == [for |-> "loginAs", id |-> 0, user |-> user, callWithFreshOnly |-> FALSE]
  <2>1. w \in Waits /\ w.for # "caller" BY DEF Waits, Users
  <2>2. WithFreshJwt(w, callers) BY <1>3 DEF LoginAs
  <2> HIDE DEF w
  <2>. QED BY <2>1, <2>2, SessionCallIsStep
<1>4. CASE Logout
  <2> DEFINE w == [for |-> "logout", id |-> 0, user |-> 0, callWithFreshOnly |-> FALSE]
  <2>1. w \in Waits /\ w.for # "caller" BY DEF Waits
  <2>2. WithFreshJwt(w, callers) BY <1>4 DEF Logout
  <2> HIDE DEF w
  <2>. QED BY <2>1, <2>2, SessionCallIsStep
<1>5. CASE LoginAgain
  <2> DEFINE w == [for |-> "guard", id |-> 0, user |-> 0, callWithFreshOnly |-> FALSE]
  <2>1. w \in Waits /\ w.for # "caller" BY DEF Waits
  <2>2. WithFreshJwt(w, callers) BY <1>5 DEF LoginAgain
  <2> HIDE DEF w
  <2>. QED BY <2>1, <2>2, SessionCallIsStep
<1>6. ASSUME NEW r \in svc.asked, NEW outcome \in {"ok", "noTokens", "error"},
             LoginAnswered(r, outcome)
      PROVE  Step
  BY <1>6, LoginAnsweredIsStep
<1>7. ASSUME NEW r \in svc.asked, NEW outcome \in {"ok", "error"},
             LoginAsAnswered(r, outcome) \/ LogoutAnswered(r, outcome) \/ RefreshAnswered(r, outcome)
      PROVE  Step
  BY <1>7, LoginAsAnsweredIsStep, RefreshAnsweredIsStep
<1>8. ASSUME NEW t \in DOMAIN tokens, Expires(t) PROVE Step
  BY <1>8 DEF Expires, Step, PInv, NoneLost
<1>9. CASE Reload BY <1>9, ReloadIsStep
<1>10. CASE UNCHANGED vars BY <1>10 DEF vars, Step, PInv, NoneLost
<1>. QED BY <1>1, <1>2, <1>3, <1>4, <1>5, <1>6, <1>7, <1>8, <1>9, <1>10 DEF Next

\* No call that waits is ever lost by _waitingForRefresh.
LEMMA PInvariance == Spec => []PInv
<1>1. Init => PInv
  <2>1. Init => NoneLost(svc, callers) BY DEF Init, NoneLost
  <2>. QED BY <2>1, InitIInv DEF PInv
<1>2. PInv /\ [Next]_vars => PInv' BY NextIInv, NextIsStep, StepKeeps DEF PInv
<1>. QED BY <1>1, <1>2, PTL DEF Spec
-------------------------------------------------------------------------------
\* What FreshTokens sees of a flush.
LEMMA SeenSettle ==
  ASSUME NEW cs \in Seq(Callers), NEW ds, NEW t \in Nat, Settles(cs, ds, Hows(t))
  PROVE  /\ DOMAIN Seen(ds) = DOMAIN Seen(cs)
         /\ \A i \in DOMAIN Seen(cs) :
              IF Seen(cs)[i] = "waiting" THEN Seen(ds)[i] \in Hows(t)
              ELSE Seen(ds)[i] = Seen(cs)[i]
<1>1. ASSUME NEW i \in DOMAIN cs
      PROVE  IF StateOf(cs[i]) = "waiting" THEN StateOf(ds[i]) \in Hows(t)
             ELSE StateOf(ds[i]) = StateOf(cs[i])
  <2>1. StateOf(cs[i]) = "waiting" <=> Unsettled(cs[i]) BY WaitingIsUnsettled
  <2>. QED BY <2>1 DEF Settles
<1>. QED BY <1>1 DEF Seen, Settles

Sights == {"waiting", "tokens", "no tokens", "dropped", "called again"}

\* A function on 1..n is a sequence of length n.
LEMMA FunctionIsSeq ==
  ASSUME NEW S, NEW n \in Nat, NEW f \in [1..n -> S]
  PROVE  f \in Seq(S) /\ Len(f) = n /\ DOMAIN f = 1..n
<1>1. f \in Seq(S) BY SeqDef
<1>. QED BY <1>1, LenProperties

\* What FreshTokens sees of the calls is a sequence of the same length.
LEMMA SeenIsSeq ==
  ASSUME NEW cs \in Seq(Callers)
  PROVE  /\ Seen(cs) \in Seq(Sights) /\ Len(Seen(cs)) = Len(cs)
         /\ \A i \in 1..Len(cs) : Seen(cs)[i] = StateOf(cs[i])
<1>1. Len(cs) \in Nat /\ DOMAIN cs = 1..Len(cs) BY LenProperties
<1>2. Seen(cs) = [i \in 1..Len(cs) |-> StateOf(cs[i])] BY <1>1 DEF Seen
<1>3. \A i \in 1..Len(cs) : StateOf(cs[i]) \in Sights BY DEF StateOf, Sights
<1>4. Seen(cs) \in [1..Len(cs) -> Sights] BY <1>2, <1>3
<1>5. Seen(cs) \in Seq(Sights) /\ Len(Seen(cs)) = Len(cs) BY <1>1, <1>4, FunctionIsSeq
<1>. QED BY <1>2, <1>5

\* Sequences of the same length and elements are equal.
LEMMA SameElements ==
  ASSUME NEW S, NEW a \in Seq(S), NEW b \in Seq(S), Len(a) = Len(b),
         \A i \in 1..Len(a) : a[i] = b[i]
  PROVE  a = b
<1>1. a \in [1..Len(a) -> S] /\ b \in [1..Len(a) -> S] BY LenProperties
<1>. QED BY <1>1

\* What FreshTokens sees of one more call.
LEMMA SeenAppend ==
  ASSUME NEW cs \in Seq(Callers), NEW call \in Callers, Unsettled(call)
  PROVE  Seen(Append(cs, call)) = Append(Seen(cs), "waiting")
<1> DEFINE n == Len(cs)
           before == Append(cs, call)
           a == Seen(before)
           b == Seen(cs)
           after == Append(b, "waiting")
<1>1. /\ n \in Nat /\ before \in Seq(Callers) /\ Len(before) = n + 1
      /\ before[n + 1] = call /\ \A i \in 1..n : before[i] = cs[i]
  BY AppendProperties, LenProperties
<1>2. b \in Seq(Sights) /\ Len(b) = n /\ \A i \in 1..n : b[i] = StateOf(cs[i]) BY SeenIsSeq
<1>3. a \in Seq(Sights) /\ Len(a) = n + 1 /\ \A i \in 1..(n + 1) : a[i] = StateOf(before[i])
  BY <1>1, SeenIsSeq
<1>4. StateOf(call) = "waiting" /\ "waiting" \in Sights BY WaitingIsUnsettled DEF Sights
<1> HIDE DEF a, b, before, n
<1>5. /\ after \in Seq(Sights) /\ Len(after) = n + 1
      /\ after[n + 1] = "waiting" /\ \A i \in 1..n : after[i] = b[i]
  BY <1>2, <1>4, AppendProperties
<1> HIDE DEF after
<1>6. \A i \in 1..(n + 1) : a[i] = after[i]
  <2> TAKE i \in 1..(n + 1)
  <2>1. CASE i \in 1..n BY <1>1, <1>2, <1>3, <1>5, <2>1
  <2>2. CASE i = n + 1 BY <1>1, <1>3, <1>4, <1>5, <2>2
  <2>. QED BY <1>1, <2>1, <2>2
<1>7. a = after BY <1>3, <1>5, <1>6, SameElements
<1>. QED BY <1>7 DEF before, after, a, b

\* JwtService implements FreshTokens: whoever calls withFreshJwt() waits or is settled,
\* together with all who wait, in the same way, and once, whatever else the service does.
THEOREM KeepsFreshTokens == Spec => FreshTokensSpec
<1>1. Init => Promise!Init
  <2> SUFFICES ASSUME Init PROVE Promise!Init
    OBVIOUS
  <2>1. DOMAIN callers = {} BY DEF Init
  <2>2. [i \in DOMAIN callers |-> StateOf(callers[i])] = <<>> BY <2>1
  <2>3. Others(svc.waiting) = {} BY DEF Init, Loaded, Others
  <2>. QED BY <2>2, <2>3 DEF Promise!Init
<1>2. PInv /\ Step => [Promise!Next]_<<Seen(callers), Others(svc.waiting)>>
  <2> SUFFICES ASSUME PInv, Step PROVE [Promise!Next]_<<Seen(callers), Others(svc.waiting)>>
    OBVIOUS
  <2>1. callers \in Seq(Callers) BY DEF PInv, IInv, Heard
  <2>2. ASSUME UNCHANGED callers, NEW w \in Waits, w.for # "caller",
               svc'.waiting = svc.waiting \cup {w}
        PROVE  Promise!Next
    <3>1. w.for \in Promise!Whose BY <2>2 DEF Waits, Promise!Whose
    <3>2. Others(svc.waiting)' = Others(svc.waiting) \cup {w.for} BY <2>2 DEF Others
    <3>. QED BY <2>2, <3>1, <3>2 DEF Promise!Next, Promise!OtherWaits
  <2>3. ASSUME NEW before, before \in Seq(Callers), Seen(before) \in Promise!Calls, NEW t \in Nat,
               Settles(before, callers', Hows(t)), svc'.waiting = {}
        PROVE  Promise!Next
    <3>1. /\ DOMAIN Seen(callers') = DOMAIN Seen(before)
          /\ \A i \in DOMAIN Seen(before) :
               IF Seen(before)[i] = "waiting" THEN Seen(callers')[i] \in Hows(t)
               ELSE Seen(callers')[i] = Seen(before)[i]
      BY <2>3, SeenSettle
    <3>2. Promise!Settle(Seen(before), Hows(t))
      <4>1. Others(svc.waiting)' = {} BY <2>3 DEF Others
      <4>. QED BY <3>1, <4>1 DEF Promise!Settle, Promise!Waiting, Seen
    <3>. QED BY <2>3, <3>2 DEF Hows, Promise!Next, Promise!Succeed, Promise!Fail
  <2>4. ASSUME NEW call \in Callers, Unsettled(call)
        PROVE  /\ Append(callers, call) \in Seq(Callers)
               /\ Seen(Append(callers, call)) = Append(Seen(callers), "waiting")
    BY <2>1, <2>4, SeenAppend, AppendProperties
  <2>5. Seen(callers) \in Promise!Calls
        /\ Append(Seen(callers), "waiting") \in Promise!Calls
    BY DEF Promise!Calls, Seen
  <2>6. ASSUME NEW call \in Callers, Unsettled(call), callers' = Append(callers, call),
               NEW w \in Waits, w.for = "caller", svc'.waiting = svc.waiting \cup {w}
        PROVE  Promise!Next
    <3>1. Others(svc.waiting)' = Others(svc.waiting) BY <2>6 DEF Others
    <3>. QED BY <2>4, <2>6, <3>1 DEF Promise!Next, Promise!Wait, Seen
  <2>7. ASSUME UNCHANGED callers, svc'.waiting = svc.waiting
        PROVE  UNCHANGED <<Seen(callers), Others(svc.waiting)>>
    BY <2>7 DEF Seen, Others
  <2>. QED BY <2>1, <2>2, <2>3, <2>4, <2>5, <2>6, <2>7 DEF Step
<1>3. PInv /\ [Next]_vars => [Promise!Next]_<<Seen(callers), Others(svc.waiting)>> BY <1>2, NextIsStep
<1>. QED BY <1>1, <1>3, PInvariance, PTL DEF Spec, FreshTokensSpec, Promise!Spec, Seen
-------------------------------------------------------------------------------
\* The sessions.

\* Whose tokens t are.
Whose(toks, t) == IF t = 0 THEN 0 ELSE toks[t].user

\* The localStorage has the tokens of the one at the bottom of the stash.
Bottom(s) == s.storage = IF s.stash = <<>> THEN s.jwt ELSE s.stash[1]

Saved(s, toks) == s.storage # 0 => toks[s.storage].via = "login"

Alone(s) == \A r1, r2 \in s.asked : r1 = r2

Held(s, toks) ==
  \A r \in s.asked : r.op \in {"refresh", "loginAs", "loginAgain"} =>
    /\ s.jwt # 0 /\ r.with = s.jwt /\ toks[s.jwt].age # "dead"
    /\ r.op = "loginAgain" => r.user = toks[s.jwt].user

Session(s, toks) == Bottom(s) /\ Saved(s, toks) /\ Alone(s) /\ Held(s, toks)

\* Who waits, waits for tokens of the one who is logged in.
Owned(ws, cs, u) == \A w \in ws : w.for = "caller" => cs[w.id].owner = u

Given(toks, cs) ==
  \A i \in DOMAIN cs : cs[i].given # 0 =>
    cs[i].given \in 1..Len(toks) /\ toks[cs[i].given].user = cs[i].owner

SInv ==
  ~raced => /\ Session(svc, tokens)
            /\ Owned(svc.waiting, callers, Whose(tokens, svc.jwt)) /\ Given(tokens, callers)

\* The stash is as it was, or the tokens on top of it are restored.
Restored(s, d) ==
  \/ d.stash = s.stash
  \/ LET n == Len(s.stash)
     IN  s.stash # <<>> /\ d.jwt = s.stash[n] /\ d.stash = SubSeq(s.stash, 1, n - 1)

\* The tokens that a loginAs() was asked with are put on the stash.
Pushed ==
  \E r \in svc.asked \ svc'.asked : r.op = "loginAs" /\ svc'.stash = Append(svc.stash, r.with)

Moves == Restored(svc, svc') \/ Pushed \/ Reload

StepOK == (~raced' => ~raced /\ Moves) /\ SInv'
-------------------------------------------------------------------------------
\* What deleting the tokens, and popping the stash, make of a service.
Deleted(s, d) ==
  d.jwt = 0 /\ d.stash = s.stash /\ d.storage = IF s.stash = <<>> THEN 0 ELSE s.storage

Popped(s, d) ==
  IF s.stash = <<>> THEN d.jwt = 0 /\ d.stash = <<>> /\ d.storage = 0
  ELSE /\ d.jwt = s.stash[Len(s.stash)] /\ d.stash = SubSeq(s.stash, 1, Len(s.stash) - 1)
       /\ d.storage = s.storage

LEMMA DeleteShape ==
  ASSUME NEW s \in Services
  PROVE  DeleteJwt(s) \in Services /\ Deleted(s, DeleteJwt(s))
<1> DEFINE b == IF IsMasterUser(s) THEN 0 ELSE s.storage
<1>1. b \in Nat BY DEF Services
<1>2. DeleteJwt(s) = [s EXCEPT !.jwt = 0, !.storage = b] BY DEF DeleteJwt, Services
<1>3. b = IF s.stash = <<>> THEN 0 ELSE s.storage BY DEF IsMasterUser
<1> HIDE DEF b
<1> DEFINE d == [s EXCEPT !.jwt = 0, !.storage = b]
<1>4. d \in Services /\ d.jwt = 0 /\ d.storage = b /\ d.stash = s.stash BY <1>1 DEF Services
<1>. QED BY <1>2, <1>3, <1>4 DEF Deleted

LEMMA LogoutShape ==
  ASSUME NEW s \in Services
  PROVE  Popped(s, LogoutSucceed(s))
<1> DEFINE d == DeleteJwt(s)
<1>1. d \in Services /\ Deleted(s, d) BY DeleteShape
<1>2. LogoutSucceed(s) = UnstashJwt(d) BY DEF LogoutSucceed
<1> HIDE DEF d
<1>3. CASE s.stash = <<>>
  <2>1. UnstashJwt(d) = [d EXCEPT !.jwt = 0] BY <1>1, <1>3 DEF UnstashJwt, IsMasterUser, Deleted
  <2>. QED BY <1>1, <1>2, <1>3, <2>1 DEF Popped, Deleted, Services
<1>4. CASE s.stash # <<>>
  <2> DEFINE top == s.stash[Len(s.stash)]
             rest == SubSeq(s.stash, 1, Len(s.stash) - 1)
  <2>1. UnstashJwt(d) = [d EXCEPT !.jwt = top, !.stash = rest]
    BY <1>1, <1>4 DEF UnstashJwt, IsMasterUser, Deleted, Services
  <2> HIDE DEF top, rest
  <2>2. UnstashJwt(d).jwt = top /\ UnstashJwt(d).stash = rest /\ UnstashJwt(d).storage = s.storage
    BY <1>1, <1>4, <2>1 DEF Deleted, Services
  <2>. QED BY <1>2, <1>4, <2>2 DEF Popped, top, rest
<1>. QED BY <1>3, <1>4

LEMMA FlushNoneShape ==
  ASSUME NEW s \in Services
  PROVE  IF Waiting(s, "logout") = {} THEN Deleted(s, FlushNone(s)) ELSE Popped(s, FlushNone(s))
<1> DEFINE d == [DeleteJwt(s) EXCEPT !.waiting = {}]
<1>1. d \in Services /\ Deleted(s, d) BY DeleteShape DEF Deleted, Services
<1>2. FlushNone(s) = IF Waiting(s, "logout") = {} THEN d ELSE LogoutSucceed(d) BY DEF FlushNone
<1> HIDE DEF d
<1>3. Popped(d, LogoutSucceed(d)) BY <1>1, LogoutShape
<1>4. Popped(s, LogoutSucceed(d)) BY <1>1, <1>3 DEF Popped, Deleted
<1>. QED BY <1>1, <1>2, <1>4

LEMMA FlushFreshShape ==
  ASSUME NEW s \in Services, NEW t, NEW owner
  PROVE  LET d == FlushFresh(s, t, owner)
         IN  /\ d.jwt = s.jwt /\ d.storage = s.storage /\ d.stash = s.stash
             /\ \A r \in d.asked :
                  \/ r \in s.asked
                  \/ r.with = t /\ r.op # "refresh" /\ (r.op = "loginAgain" => r.user = owner)
<1> DEFINE new == Continued(s, t, owner)
           d == [s EXCEPT !.waiting = {}, !.asked = s.asked \cup new]
<1>1. \A r \in new : r.with = t /\ r.op # "refresh" /\ (r.op = "loginAgain" => r.user = owner)
  BY DEF Continued, Waiting
<1>2. FlushFresh(s, t, owner) = d BY DEF FlushFresh
<1> HIDE DEF new
<1>3. /\ d.asked = s.asked \cup new
      /\ d.jwt = s.jwt /\ d.storage = s.storage /\ d.stash = s.stash
  BY DEF Services
<1>. QED BY <1>1, <1>2, <1>3

\* Deleting and popping keep the bottom, and restore the one below.
LEMMA ShapeKeeps ==
  ASSUME NEW n \in Nat, NEW s, Typed(s, n), NEW toks, Bottom(s), Saved(s, toks),
         NEW d, Deleted(s, d) \/ Popped(s, d)
  PROVE  Bottom(d) /\ Saved(d, toks) /\ Restored(s, d)
<1>1. s.stash \in Seq(1..n) BY DEF Typed
<1>2. CASE Deleted(s, d)
  <2>1. Bottom(d) /\ Saved(d, toks) BY <1>2 DEF Deleted, Bottom, Saved
  <2>2. Restored(s, d) BY <1>1, <1>2 DEF Deleted, Restored
  <2>. QED BY <2>1, <2>2
<1>3. CASE Popped(s, d) /\ s.stash = <<>> BY <1>3 DEF Popped, Bottom, Saved, Restored
<1>4. CASE Popped(s, d) /\ s.stash # <<>>
  <2> DEFINE m == Len(s.stash)
             rest == SubSeq(s.stash, 1, m - 1)
  <2>1. m \in Nat \ {0} /\ m \in DOMAIN s.stash BY <1>1, <1>4
  <2>2. d.jwt = s.stash[m] /\ d.stash = rest /\ d.storage = s.storage BY <1>4 DEF Popped
  <2>3. s.storage = s.stash[1] BY <1>4 DEF Bottom
  <2>4. Len(rest) = m - 1 /\ \A i \in 1..(m - 1) : rest[i] = s.stash[i]
    BY <1>1, <2>1, SubSeqProperties
  <2>5. rest = <<>> <=> m = 1
    <3>1. rest \in Seq(1..n) BY <1>1, <2>1, SubSeqProperties
    <3> HIDE DEF rest
    <3>2. rest = <<>> <=> Len(rest) = 0 BY <3>1, EmptySeq
    <3> HIDE DEF m
    <3>. QED BY <2>1, <2>4, <3>2
  <2>6. Bottom(d)
    <3>1. CASE m = 1 BY <2>2, <2>3, <2>5, <3>1 DEF Bottom
    <3>2. CASE m # 1
      <4>1. 1 \in 1..(m - 1)
        <5> HIDE DEF m
        <5>. QED BY <2>1, <3>2
      <4>. QED BY <2>2, <2>3, <2>4, <2>5, <3>2, <4>1 DEF Bottom
    <3>. QED BY <3>1, <3>2
  <2>7. Saved(d, toks) BY <2>2 DEF Saved
  <2>8. Restored(s, d) BY <2>1, <2>2 DEF Restored
  <2>. QED BY <2>6, <2>7, <2>8
<1>. QED BY <1>2, <1>3, <1>4

\* A flush gives tokens to those only whose they are.
LEMMA TellGiven ==
  ASSUME NEW cs \in Seq(Callers), NEW toks, Given(toks, cs), NEW ws, NEW u, Owned(ws, cs, u),
         NEW t \in Nat, t # 0 => t \in 1..Len(toks) /\ toks[t].user = u
  PROVE  Given(toks, Tell(cs, ws, t))
<1> DEFINE of(i) == {w \in ws : w.for = "caller" /\ w.id = i}
           told == Tell(cs, ws, t)
<1>1. DOMAIN told = DOMAIN cs BY DEF Tell
<1>2. ASSUME NEW i \in DOMAIN cs, told[i].given # 0
      PROVE  told[i].given \in 1..Len(toks) /\ toks[told[i].given].user = told[i].owner
  <2> DEFINE a == [cs[i] EXCEPT !.dropped = TRUE]
             b == [cs[i] EXCEPT !.called = cs[i].called + 1, !.given = t]
  <2>1. cs[i] \in Callers OBVIOUS
  <2>2. told[i] = IF of(i) = {} THEN cs[i]
                  ELSE IF t = 0 /\ \A w \in of(i) : w.callWithFreshOnly THEN a ELSE b
    BY DEF Tell, Settled
  <2>3. a.given = cs[i].given /\ a.owner = cs[i].owner BY <2>1 DEF Callers
  <2>4. b.given = t /\ b.owner = cs[i].owner BY <2>1 DEF Callers
  <2>5. of(i) # {} => cs[i].owner = u BY DEF Owned
  <2> HIDE DEF a, b, of, told
  <2>6. CASE told[i].given = cs[i].given /\ told[i].owner = cs[i].owner
    BY <1>2, <2>6 DEF Given
  <2>7. CASE of(i) # {} /\ told[i] = b BY <1>2, <2>4, <2>5, <2>7
  <2>. QED BY <2>2, <2>3, <2>6, <2>7
<1> HIDE DEF told
<1>3. Given(toks, told) BY <1>1, <1>2 DEF Given
<1>. QED BY <1>3 DEF told
-------------------------------------------------------------------------------
\* One more pair of tokens, and what is said of the others.
LEMMA Issued ==
  ASSUME IInv, NEW user, NEW via, Issue(user, via)
  PROVE  /\ Len(tokens) \in Nat /\ Len(tokens') = Len(tokens) + 1
         /\ \A t \in 1..Len(tokens) : tokens'[t] = tokens[t]
         /\ tokens'[Len(tokens) + 1].user = user /\ tokens'[Len(tokens) + 1].via = via
         /\ tokens'[Len(tokens) + 1].age = "fresh"
<1> DEFINE new == [user |-> user, via |-> via, age |-> "fresh"]
<1>1. tokens' = Append(tokens, new) BY DEF Issue
<1>2. new.user = user /\ new.via = via /\ new.age = "fresh" OBVIOUS
<1> HIDE DEF new
<1>3. tokens \in Seq(Tokens \cup {new}) /\ new \in Tokens \cup {new}
  <2>1. Len(tokens) \in Nat /\ tokens \in [1..Len(tokens) -> Tokens] BY LenProperties DEF IInv
  <2>2. tokens \in [1..Len(tokens) -> Tokens \cup {new}] BY <2>1
  <2>. QED BY <2>1, <2>2, SeqDef
<1>. QED BY <1>1, <1>2, <1>3, AppendProperties, LenProperties

\* What was given before is as good with more tokens in the list.
LEMMA GivenGrows ==
  ASSUME NEW toks, NEW more, NEW cs, Given(toks, cs), Len(toks) \in Nat, Len(more) = Len(toks) + 1,
         \A t \in 1..Len(toks) : more[t] = toks[t]
  PROVE  Given(more, cs)
<1>1. \A t \in 1..Len(toks) : t \in 1..Len(more) OBVIOUS
<1>. QED BY <1>1 DEF Given

\* withFreshJwt() keeps the session, whoever calls it.
LEMMA WithFreshJwtSession ==
  ASSUME IInv, NEW w \in Waits, NEW before \in Seq(Callers), WithFreshJwt(w, before),
         w.for = "loginAs" => w.user \in Users,
         Session(svc, tokens), Alone(svc'), Given(tokens, before),
         Owned(svc.waiting \cup {w}, before, Whose(tokens, svc.jwt))
  PROVE  /\ Session(svc', tokens) /\ Given(tokens, callers')
         /\ Owned(svc'.waiting, callers', Whose(tokens, svc'.jwt))
         /\ Restored(svc, svc')
<1> DEFINE s == [svc EXCEPT !.waiting = svc.waiting \cup {w}]
           n == Len(tokens)
           u == Whose(tokens, svc.jwt)
           age == IF s.jwt = 0 THEN "dead" ELSE tokens[s.jwt].age
<1>1. n \in Nat BY LenProperties DEF IInv
<1>2. /\ Typed(s, n) /\ s \in Services /\ s.waiting = svc.waiting \cup {w}
      /\ s.jwt = svc.jwt /\ s.refresh = svc.refresh /\ s.asked = svc.asked
      /\ s.storage = svc.storage /\ s.stash = svc.stash
  BY DEF IInv, Typed, Services
<1>3. Bottom(s) /\ Saved(s, tokens) /\ Held(s, tokens) /\ Owned(s.waiting, before, u)
  BY <1>2 DEF Session, Bottom, Saved, Held
<1>4. /\ age = "dead" => svc' = FlushNone(s) /\ callers' = Tell(before, s.waiting, 0)
      /\ age = "stale" =>
           /\ svc' = IF s.refresh THEN s
                     ELSE [s EXCEPT !.refresh = TRUE,
                       !.asked = s.asked \cup {[op |-> "refresh", with |-> s.jwt, user |-> 0]}]
           /\ callers' = before
      /\ age = "fresh" => /\ svc' = FlushFresh(s, s.jwt, UserOf(s.jwt))
                          /\ callers' = Tell(before, s.waiting, s.jwt)
  BY DEF WithFreshJwt
<1>5. /\ age \in Ages /\ (s.jwt = 0 => age = "dead") /\ (s.jwt # 0 => age = tokens[s.jwt].age)
      /\ UserOf(s.jwt) = u /\ (s.jwt # 0 => s.jwt \in 1..n /\ tokens[s.jwt].user = u)
  <2>1. s.jwt # 0 => s.jwt \in 1..n BY <1>1, <1>2 DEF Typed
  <2>2. s.jwt # 0 => tokens[s.jwt] \in Tokens BY <2>1 DEF IInv
  <2>. QED BY <1>2, <2>1, <2>2 DEF Tokens, Ages, UserOf, Whose
<1>6. Restored(s, svc') => Restored(svc, svc') BY <1>2 DEF Restored
<1> HIDE DEF s, age, u
<1>7. CASE age = "dead"
  <2>1. svc' = FlushNone(s) /\ svc'.waiting = {} /\ svc'.asked = s.asked
    BY <1>1, <1>2, <1>4, <1>7, FlushNoneKeeps
  <2>2. Deleted(s, svc') \/ Popped(s, svc') BY <1>2, <2>1, FlushNoneShape
  <2>3. Bottom(svc') /\ Saved(svc', tokens) /\ Restored(s, svc')
    BY <1>1, <1>2, <1>3, <2>2, ShapeKeeps
  <2>4. Held(svc', tokens) BY <1>3, <1>5, <1>7, <2>1 DEF Held
  <2>5. Given(tokens, callers') BY <1>3, <1>4, <1>7, TellGiven
  <2>6. Owned(svc'.waiting, callers', Whose(tokens, svc'.jwt)) BY <2>1 DEF Owned
  <2>. QED BY <1>6, <2>3, <2>4, <2>5, <2>6 DEF Session
<1>8. CASE age = "fresh"
  <2>1. s.jwt # 0 /\ s.jwt \in 1..n /\ s.jwt \in Nat BY <1>1, <1>5, <1>8
  <2>2. svc' = FlushFresh(s, s.jwt, u) /\ callers' = Tell(before, s.waiting, s.jwt)
    BY <1>4, <1>5, <1>8
  <2>3. /\ svc'.jwt = s.jwt /\ svc'.storage = s.storage /\ svc'.stash = s.stash
        /\ \A r \in svc'.asked :
             \/ r \in s.asked
             \/ r.with = s.jwt /\ r.op # "refresh" /\ (r.op = "loginAgain" => r.user = u)
    BY <1>2, <2>2, FlushFreshShape
  <2>4. svc'.waiting = {} BY <2>2 DEF FlushFresh, Services
  <2>5. Bottom(svc') /\ Saved(svc', tokens) /\ Restored(s, svc')
    BY <1>3, <2>3 DEF Bottom, Saved, Restored
  <2>6. Held(svc', tokens) BY <1>3, <1>5, <1>8, <2>1, <2>3 DEF Held
  <2>7. Given(tokens, callers') BY <1>3, <1>5, <2>1, <2>2, TellGiven
  <2>8. Owned(svc'.waiting, callers', Whose(tokens, svc'.jwt)) BY <2>4 DEF Owned
  <2>. QED BY <1>6, <2>5, <2>6, <2>7, <2>8 DEF Session
<1>9. CASE age = "stale"
  <2> DEFINE r == [op |-> "refresh", with |-> s.jwt, user |-> 0]
             d == [s EXCEPT !.refresh = TRUE, !.asked = s.asked \cup {r}]
  <2>1. s.jwt # 0 /\ callers' = before /\ (svc' = s \/ svc' = d) BY <1>4, <1>5, <1>9
  <2>2. r.op = "refresh" /\ r.with = s.jwt OBVIOUS
  <2> HIDE DEF r
  <2>3. /\ d.jwt = s.jwt /\ d.storage = s.storage /\ d.stash = s.stash /\ d.waiting = s.waiting
        /\ d.asked = s.asked \cup {r}
    BY <1>2 DEF Services
  <2> HIDE DEF d
  <2>4. /\ svc'.jwt = s.jwt /\ svc'.storage = s.storage /\ svc'.stash = s.stash
        /\ svc'.waiting = s.waiting /\ svc'.asked \subseteq s.asked \cup {r}
    BY <2>1, <2>3
  <2>5. Bottom(svc') /\ Saved(svc', tokens) /\ Restored(s, svc')
    BY <1>3, <2>4 DEF Bottom, Saved, Restored
  <2>6. Held(svc', tokens) BY <1>3, <1>5, <1>9, <2>1, <2>2, <2>4 DEF Held
  <2>7. Owned(svc'.waiting, callers', Whose(tokens, svc'.jwt)) BY <1>2, <1>3, <2>1, <2>4 DEF u
  <2>. QED BY <1>6, <2>1, <2>5, <2>6, <2>7 DEF Session
<1>. QED BY <1>5, <1>7, <1>8, <1>9 DEF Ages

\* A call to withFreshJwt() from outside.
LEMMA CallSession ==
  ASSUME IInv, SInv, NEW freshOnly \in BOOLEAN, CallWithFreshJwt(freshOnly)
  PROVE  StepOK
<1> DEFINE id == Len(callers) + 1
           w == [for |-> "caller", id |-> id, user |-> 0, callWithFreshOnly |-> freshOnly]
           u == UserOf(svc.jwt)
           call == [owner |-> u, called |-> 0, given |-> 0, dropped |-> FALSE]
           before == Append(callers, call)
<1>1. callers \in Seq(Callers) /\ Len(callers) \in Nat BY DEF IInv, Heard
<1>2. call \in Callers
  <2>1. tokens \in Seq(Tokens) /\ svc.jwt \in 0..Len(tokens) BY DEF IInv, Typed
  <2>2. svc.jwt # 0 => tokens[svc.jwt] \in Tokens BY <2>1
  <2>3. u \in Users \cup {0} BY <2>2 DEF UserOf, Tokens
  <2>. QED BY <2>3 DEF Callers
<1>3. w \in Waits BY <1>1 DEF Waits
<1>4. w.for = "caller" /\ w.id = id /\ call.owner = u /\ call.given = 0 OBVIOUS
<1>5. WithFreshJwt(w, before) /\ NoteRaces /\ UNCHANGED tokens BY DEF CallWithFreshJwt
<1>6. u = Whose(tokens, svc.jwt) BY DEF Whose, UserOf
<1> HIDE DEF w, call, u
<1>7. /\ before \in Seq(Callers) /\ DOMAIN before = DOMAIN callers \cup {id}
      /\ \A i \in DOMAIN callers : before[i] = callers[i]
      /\ before[id] = call
  BY <1>1, <1>2, AppendProperties
<1> HIDE DEF before
<1>8. ~raced' => ~raced /\ Alone(svc') BY <1>5 DEF NoteRaces, Alone
<1>9. ASSUME ~raced' PROVE StepOK
  <2>1. /\ Session(svc, tokens) /\ Given(tokens, callers) /\ Alone(svc')
        /\ Owned(svc.waiting, callers, u)
    BY <1>6, <1>8, <1>9 DEF SInv
  <2>2. Given(tokens, before) BY <1>4, <1>7, <2>1 DEF Given
  <2>3. Owned(svc.waiting \cup {w}, before, u)
    <3>1. \A v \in svc.waiting : v.for = "caller" => v.id \in DOMAIN callers BY DEF IInv, Heard
    <3>. QED BY <1>4, <1>7, <2>1, <3>1 DEF Owned
  <2>4. /\ Session(svc', tokens) /\ Given(tokens, callers')
        /\ Owned(svc'.waiting, callers', Whose(tokens, svc'.jwt)) /\ Restored(svc, svc')
    BY <1>3, <1>4, <1>5, <1>6, <1>7, <2>1, <2>2, <2>3, WithFreshJwtSession
  <2>. QED BY <1>5, <1>8, <1>9, <2>4 DEF StepOK, Moves, SInv
<1>. QED BY <1>9 DEF StepOK, SInv

\* A call by loginAs(), logout() or the guard.
LEMMA SessionCallSession ==
  ASSUME IInv, SInv, NEW w \in Waits, w.for # "caller", w.for = "loginAs" => w.user \in Users,
         WithFreshJwt(w, callers), NoteRaces, UNCHANGED tokens
  PROVE  StepOK
<1>1. ~raced' => ~raced /\ Alone(svc') BY DEF NoteRaces, Alone
<1>2. callers \in Seq(Callers) BY DEF IInv, Heard
<1>3. ASSUME ~raced' PROVE StepOK
  <2>1. /\ Session(svc, tokens) /\ Given(tokens, callers) /\ Alone(svc')
        /\ Owned(svc.waiting, callers, Whose(tokens, svc.jwt))
    BY <1>1, <1>3 DEF SInv
  <2>2. Owned(svc.waiting \cup {w}, callers, Whose(tokens, svc.jwt)) BY <2>1 DEF Owned
  <2>3. /\ Session(svc', tokens) /\ Given(tokens, callers')
        /\ Owned(svc'.waiting, callers', Whose(tokens, svc'.jwt)) /\ Restored(svc, svc')
    BY <1>2, <2>1, <2>2, WithFreshJwtSession
  <2>. QED BY <1>1, <1>3, <2>3 DEF StepOK, Moves, SInv
<1>. QED BY <1>3 DEF StepOK, SInv

\* login(), up to the request.
LEMMA LoginSession ==
  ASSUME IInv, SInv, NEW user \in Masters, Login(user)
  PROVE  StepOK
<1> DEFINE r == [op |-> "login", with |-> 0, user |-> user]
<1>1. svc' = [svc EXCEPT !.asked = svc.asked \cup {r}] /\ NoteRaces /\ UNCHANGED <<tokens, callers>>
  BY DEF Login
<1>2. r.op = "login" OBVIOUS
<1> HIDE DEF r
<1>3. /\ svc'.asked = svc.asked \cup {r} /\ svc'.waiting = svc.waiting /\ svc'.jwt = svc.jwt
      /\ svc'.storage = svc.storage /\ svc'.stash = svc.stash
  BY <1>1 DEF IInv, Typed, Services
<1>4. ~raced' => ~raced /\ Alone(svc') BY <1>1 DEF NoteRaces, Alone
<1>5. ASSUME ~raced' PROVE StepOK
  <2>1. /\ Session(svc, tokens) /\ Given(tokens, callers)
        /\ Owned(svc.waiting, callers, Whose(tokens, svc.jwt))
    BY <1>4, <1>5 DEF SInv
  <2>2. Bottom(svc') /\ Saved(svc', tokens) /\ Held(svc', tokens) /\ Restored(svc, svc')
    BY <1>2, <1>3, <2>1 DEF Session, Bottom, Saved, Held, Restored
  <2>. QED BY <1>1, <1>3, <1>4, <1>5, <2>1, <2>2 DEF StepOK, Moves, SInv, Session
<1>. QED BY <1>5 DEF StepOK, SInv
-------------------------------------------------------------------------------
\* A request that is alone is answered: what it leaves behind.
LEMMA AnsweredAlone ==
  ASSUME IInv, Session(svc, tokens), NEW r \in svc.asked
  PROVE  LET s == Without(r)
         IN  /\ Typed(s, Len(tokens)) /\ s \in Services /\ Len(tokens) \in Nat
             /\ s.asked = {} /\ s.waiting = svc.waiting
             /\ r.op # "refresh" => s.waiting = {}
             /\ s.jwt = svc.jwt /\ s.storage = svc.storage /\ s.stash = svc.stash
             /\ Bottom(s) /\ Saved(s, tokens)
             /\ (Restored(s, svc') => Restored(svc, svc'))
<1> DEFINE s == Without(r)
<1>1. Len(tokens) \in Nat BY LenProperties DEF IInv
<1>2. Typed(s, Len(tokens)) /\ s.waiting = svc.waiting /\ s.asked = svc.asked \ {r}
  BY <1>1, WithoutKeeps DEF IInv
<1>3. s.jwt = svc.jwt /\ s.storage = svc.storage /\ s.stash = svc.stash
  BY DEF Without, IInv, Typed, Services
<1> HIDE DEF s
<1>4. s.asked = {} BY <1>2 DEF Session, Alone
<1>5. r.op # "refresh" => s.waiting = {} BY <1>2 DEF Session, Alone, IInv, One, Awaited
<1>6. Bottom(s) /\ Saved(s, tokens) BY <1>3 DEF Session, Bottom, Saved
<1>7. Restored(s, svc') => Restored(svc, svc') BY <1>3 DEF Restored
<1>. QED BY <1>1, <1>2, <1>3, <1>4, <1>5, <1>6, <1>7 DEF Typed, s

\* A service without requests and without anybody waiting has little to keep.
LEMMA Quiet ==
  ASSUME ~raced' => /\ ~raced /\ svc'.asked = {} /\ svc'.waiting = {} /\ Given(tokens, callers)'
                    /\ Bottom(svc') /\ Saved(svc', tokens') /\ Moves
  PROVE  StepOK
BY DEF StepOK, SInv, Session, Alone, Held, Owned

\* setJwt, in detail.
LEMMA SetJwtShape ==
  ASSUME NEW s \in Services, NEW t \in Nat
  PROVE  LET d == SetJwt(s, t)
         IN  /\ d \in Services /\ d.jwt = t /\ d.stash = s.stash
             /\ d.storage = IF s.stash = <<>> THEN t ELSE s.storage
             /\ SameRest(s, d)
<1> DEFINE b == IF s.stash = <<>> THEN t ELSE s.storage
           d == [s EXCEPT !.jwt = t, !.storage = b]
<1>1. b \in Nat BY DEF Services
<1>2. SetJwt(s, t) = d BY DEF SetJwt, IsMasterUser, Services
<1> HIDE DEF b
<1>3. d \in Services /\ d.jwt = t /\ d.stash = s.stash /\ d.storage = b /\ SameRest(s, d)
  BY <1>1 DEF Services, SameRest
<1>. QED BY <1>2, <1>3 DEF b

\* The answer to login().
LEMMA LoginAnsweredSession ==
  ASSUME IInv, SInv, NEW r \in svc.asked, NEW outcome \in {"ok", "noTokens", "error"},
         LoginAnswered(r, outcome)
  PROVE  StepOK
<1> DEFINE s == Without(r)
           n == Len(tokens)
<1>1. r.op # "refresh" /\ UNCHANGED <<callers, raced>> BY DEF LoginAnswered
<1>2. SUFFICES ASSUME ~raced
               PROVE  /\ svc'.asked = {} /\ svc'.waiting = {} /\ Given(tokens, callers)'
                      /\ Bottom(svc') /\ Saved(svc', tokens') /\ Restored(svc, svc')
  BY <1>1, Quiet DEF Moves
<1>3. Session(svc, tokens) /\ Given(tokens, callers) BY <1>2 DEF SInv
<1>4. /\ Typed(s, n) /\ s \in Services /\ n \in Nat /\ s.asked = {} /\ s.waiting = {}
      /\ Bottom(s) /\ Saved(s, tokens) /\ (Restored(s, svc') => Restored(svc, svc'))
  BY <1>1, <1>3, AnsweredAlone
<1>5. s.storage \in 0..n BY <1>4 DEF Typed
<1>6. /\ outcome = "ok" => Issue(r.user, "login") /\ svc' = SetJwt(s, n + 1)
      /\ outcome = "noTokens" => svc' = s /\ UNCHANGED tokens
      /\ outcome = "error" => svc' = DeleteJwt(s) /\ UNCHANGED tokens
  BY DEF LoginAnswered
<1> HIDE DEF s
<1>7. CASE outcome = "ok"
  <2>1. /\ Len(tokens') = n + 1 /\ \A t \in 1..n : tokens'[t] = tokens[t]
        /\ tokens'[n + 1].via = "login"
    BY <1>6, <1>7, Issued
  <2>2. /\ svc'.jwt = n + 1 /\ svc'.stash = s.stash
        /\ svc'.storage = (IF s.stash = <<>> THEN n + 1 ELSE s.storage) /\ SameRest(s, svc')
    BY <1>4, <1>6, <1>7, SetJwtShape
  <2>3. Given(tokens, callers)' BY <1>1, <1>3, <1>4, <2>1, GivenGrows
  <2>4. Bottom(svc') BY <1>4, <2>2 DEF Bottom
  <2>5. Saved(svc', tokens')
    <3>1. svc'.storage # 0 => svc'.storage = n + 1 \/ (svc'.storage = s.storage /\ s.storage \in 1..n)
      BY <1>4, <1>5, <2>2
    <3>. QED BY <1>4, <2>1, <3>1 DEF Saved
  <2>6. Restored(s, svc')
    <3>1. s.stash \in Seq(1..n) BY <1>4 DEF Typed
    <3>. QED BY <2>2, <3>1 DEF Restored
  <2>. QED BY <1>4, <2>2, <2>3, <2>4, <2>5, <2>6 DEF SameRest
<1>8. CASE outcome = "noTokens"
  <2>1. s.stash \in Seq(1..n) BY <1>4 DEF Typed
  <2>2. Restored(s, svc') BY <1>6, <1>8, <2>1 DEF Restored
  <2>. QED BY <1>1, <1>3, <1>4, <1>6, <1>8, <2>2
<1>9. CASE outcome = "error"
  <2>1. svc' = DeleteJwt(s) /\ UNCHANGED tokens BY <1>6, <1>9
  <2>2. Deleted(s, svc') /\ SameRest(s, svc') BY <1>4, <2>1, DeleteShape, DeleteJwtKeeps
  <2>3. Bottom(svc') /\ Saved(svc', tokens) /\ Restored(s, svc') BY <1>4, <2>2, ShapeKeeps
  <2>. QED BY <1>1, <1>3, <1>4, <2>1, <2>2, <2>3 DEF SameRest
<1>. QED BY <1>7, <1>8, <1>9

\* A successful loginAs() pushes the tokens that it was asked with: they are those held.
LEMMA LoginAsPushes ==
  ASSUME IInv, SInv, ~raced, NEW r \in svc.asked, LoginAsAnswered(r, "ok")
  PROVE  Pushed
<1> DEFINE s == Without(r)
           n == Len(tokens)
<1>1. r.op = "loginAs" /\ svc' = StashJwt(s, n + 1) BY DEF LoginAsAnswered
<1>2. Session(svc, tokens) BY DEF SInv
<1>3. /\ s \in Services /\ s.asked = svc.asked \ {r}
      /\ s.jwt = svc.jwt /\ s.stash = svc.stash
  BY DEF Without, IInv, Typed, Services
<1>4. s.jwt # 0 /\ r.with = s.jwt BY <1>1, <1>2, <1>3 DEF Session, Held
<1>5. n \in Nat BY LenProperties DEF IInv
<1> HIDE DEF s, n
<1>6. svc'.stash = Append(svc.stash, r.with) /\ svc'.asked = svc.asked \ {r}
  BY <1>1, <1>3, <1>4, <1>5 DEF StashJwt, Services
<1>. QED BY <1>1, <1>6 DEF Pushed

\* The answer to loginAs(): the tokens of the caller go on the stash.
LEMMA LoginAsAnsweredSession ==
  ASSUME IInv, SInv, NEW r \in svc.asked, NEW outcome, LoginAsAnswered(r, outcome)
  PROVE  StepOK
<1> DEFINE s == Without(r)
           n == Len(tokens)
<1>1. r.op = "loginAs" /\ UNCHANGED <<callers, raced>> BY DEF LoginAsAnswered
<1>2. SUFFICES ASSUME ~raced
               PROVE  /\ svc'.asked = {} /\ svc'.waiting = {} /\ Given(tokens, callers)'
                      /\ Bottom(svc') /\ Saved(svc', tokens') /\ Moves
  BY <1>1, Quiet
<1>3. Session(svc, tokens) /\ Given(tokens, callers) BY <1>2 DEF SInv
<1>4. /\ Typed(s, n) /\ s \in Services /\ n \in Nat /\ s.asked = {} /\ s.waiting = {}
      /\ Bottom(s) /\ Saved(s, tokens) /\ (Restored(s, svc') => Restored(svc, svc'))
      /\ s.jwt = svc.jwt
  BY <1>1, <1>3, AnsweredAlone
<1>5. s.storage \in 0..n /\ s.stash \in Seq(1..n) /\ s.jwt \in 0..n BY <1>4 DEF Typed
<1>6. s.jwt # 0 BY <1>1, <1>3, <1>4 DEF Session, Held
<1>7. IF outcome = "ok" THEN Issue(r.user, "loginAs") /\ svc' = StashJwt(s, n + 1)
      ELSE svc' = s /\ UNCHANGED tokens
  BY DEF LoginAsAnswered
<1> HIDE DEF s
<1>8. CASE outcome = "ok"
  <2> DEFINE c == Append(s.stash, s.jwt)
             d == [s EXCEPT !.stash = c, !.jwt = n + 1]
  <2>1. /\ Len(tokens') = n + 1 /\ \A t \in 1..n : tokens'[t] = tokens[t]
    BY <1>7, <1>8, Issued
  <2>2. svc' = d BY <1>4, <1>6, <1>7, <1>8 DEF StashJwt, Services
  <2>3. /\ Len(c) = Len(s.stash) + 1 /\ Len(s.stash) \in Nat /\ c # <<>>
        /\ c[1] = IF s.stash = <<>> THEN s.jwt ELSE s.stash[1]
    BY <1>5, <1>6
  <2> HIDE DEF c
  <2>4. d.stash = c /\ d.storage = s.storage /\ d.asked = s.asked /\ d.waiting = s.waiting
    BY <1>4 DEF Services
  <2> HIDE DEF d
  <2>5. Given(tokens, callers)' BY <1>1, <1>3, <1>4, <2>1, GivenGrows
  <2>6. Bottom(svc') BY <1>4, <2>2, <2>3, <2>4 DEF Bottom
  <2>7. Saved(svc', tokens')
    <3>1. s.storage # 0 => s.storage \in 1..n BY <1>4, <1>5
    <3>. QED BY <1>4, <2>1, <2>2, <2>4, <3>1 DEF Saved
  <2>8. Moves BY <1>2, <1>8, LoginAsPushes DEF Moves
  <2>. QED BY <1>4, <2>2, <2>4, <2>5, <2>6, <2>7, <2>8
<1>9. CASE outcome # "ok"
  <2>1. Restored(s, svc') BY <1>7, <1>9 DEF Restored
  <2>. QED BY <1>1, <1>3, <1>4, <1>7, <1>9, <2>1 DEF Moves
<1>. QED BY <1>8, <1>9

\* The answer to logout(): the tokens stashed last are restored.
LEMMA LogoutAnsweredSession ==
  ASSUME IInv, SInv, NEW r \in svc.asked, NEW outcome, LogoutAnswered(r, outcome)
  PROVE  StepOK
<1> DEFINE s == Without(r)
           n == Len(tokens)
<1>1. r.op # "refresh" /\ UNCHANGED <<tokens, callers, raced>> BY DEF LogoutAnswered
<1>2. SUFFICES ASSUME ~raced
               PROVE  /\ svc'.asked = {} /\ svc'.waiting = {} /\ Given(tokens, callers)'
                      /\ Bottom(svc') /\ Saved(svc', tokens') /\ Restored(svc, svc')
  BY <1>1, Quiet DEF Moves
<1>3. Session(svc, tokens) /\ Given(tokens, callers) BY <1>2 DEF SInv
<1>4. /\ Typed(s, n) /\ s \in Services /\ n \in Nat /\ s.asked = {} /\ s.waiting = {}
      /\ Bottom(s) /\ Saved(s, tokens) /\ (Restored(s, svc') => Restored(svc, svc'))
  BY <1>1, <1>3, AnsweredAlone
<1>5. svc' = IF outcome = "ok" THEN LogoutSucceed(s) ELSE s BY DEF LogoutAnswered
<1> HIDE DEF s
<1>6. CASE outcome = "ok"
  <2>1. Popped(s, svc') /\ SameRest(s, svc') BY <1>4, <1>5, <1>6, LogoutShape, LogoutSucceedKeeps
  <2>2. Bottom(svc') /\ Saved(svc', tokens) /\ Restored(s, svc') BY <1>4, <2>1, ShapeKeeps
  <2>. QED BY <1>1, <1>3, <1>4, <2>1, <2>2 DEF SameRest
<1>7. CASE outcome # "ok"
  <2>1. s.stash \in Seq(1..n) BY <1>4 DEF Typed
  <2>2. Restored(s, svc') BY <1>5, <1>7, <2>1 DEF Restored
  <2>. QED BY <1>1, <1>3, <1>4, <1>5, <1>7, <2>2
<1>. QED BY <1>6, <1>7

\* The subscriber of refresh(): tokens of the same user, or none.
LEMMA RefreshAnsweredSession ==
  ASSUME IInv, SInv, NEW r \in svc.asked, NEW outcome, RefreshAnswered(r, outcome)
  PROVE  StepOK
<1> DEFINE n == Len(tokens)
           before == Without(r)
           s == [before EXCEPT !.refresh = FALSE]
           new == n + 1
           user == tokens[r.with].user
<1>1. r.op = "refresh" /\ NoteRaces BY DEF RefreshAnswered
<1>2. ~raced' => ~raced /\ Alone(svc') BY <1>1 DEF NoteRaces, Alone
<1>3. SUFFICES ASSUME ~raced'
               PROVE  /\ Restored(svc, svc') /\ Bottom(svc') /\ Saved(svc', tokens')
                      /\ Held(svc', tokens') /\ svc'.waiting = {} /\ Given(tokens', callers')
  BY <1>2 DEF StepOK, Moves, SInv, Session, Owned
<1>4. /\ Session(svc, tokens) /\ Given(tokens, callers)
      /\ Owned(svc.waiting, callers, Whose(tokens, svc.jwt))
  BY <1>2, <1>3 DEF SInv
<1>5. /\ Typed(before, n) /\ before \in Services /\ n \in Nat /\ before.asked = {}
      /\ before.waiting = svc.waiting /\ before.jwt = svc.jwt /\ Bottom(before)
      /\ Saved(before, tokens) /\ (Restored(before, svc') => Restored(svc, svc'))
  BY <1>4, AnsweredAlone
<1>6. svc.jwt # 0 /\ r.with = svc.jwt BY <1>1, <1>4 DEF Session, Held
<1>7. /\ outcome = "ok" =>
           /\ Issue(tokens[r.with].user, tokens[r.with].via)
           /\ svc' = FlushFresh(SetJwt(s, new), new, user)
           /\ callers' = Tell(callers, s.waiting, new)
      /\ outcome # "ok" =>
           svc' = FlushNone(s) /\ callers' = Tell(callers, s.waiting, 0) /\ UNCHANGED tokens
  BY DEF RefreshAnswered
<1> HIDE DEF before
<1>8. /\ s.asked = {} /\ s.waiting = svc.waiting /\ s.jwt = svc.jwt /\ s.storage = before.storage
      /\ s.stash = before.stash /\ s \in Services /\ Typed(s, n)
  BY <1>5 DEF Services, Typed
<1> HIDE DEF s
<1>9. Bottom(s) /\ Saved(s, tokens) /\ (Restored(s, svc') => Restored(svc, svc'))
  BY <1>5, <1>8 DEF Bottom, Saved, Restored
<1>10. s.storage \in 0..n /\ s.stash \in Seq(1..n) /\ s.jwt \in 1..n BY <1>5, <1>6, <1>8 DEF Typed
<1>11. callers \in Seq(Callers) BY DEF IInv, Heard
<1>12. Owned(s.waiting, callers, user) BY <1>4, <1>6, <1>8 DEF Whose
<1>13. CASE outcome = "ok"
  <2> DEFINE d == SetJwt(s, new)
  <2>1. /\ Len(tokens') = new /\ \A t \in 1..n : tokens'[t] = tokens[t]
        /\ tokens'[new].user = user /\ tokens'[new].via = tokens[r.with].via
        /\ tokens'[new].age = "fresh"
    BY <1>7, <1>13, Issued
  <2>2. new \in Nat \ {0} /\ new \in 1..new BY <1>5
  <2>3. /\ d \in Services /\ d.jwt = new /\ d.stash = s.stash /\ SameRest(s, d)
        /\ d.storage = IF s.stash = <<>> THEN new ELSE s.storage
    BY <1>8, <2>2, SetJwtShape
  <2>4. svc' = FlushFresh(d, new, user) /\ callers' = Tell(callers, s.waiting, new)
    BY <1>7, <1>13
  <2> HIDE DEF d, new, user
  <2>5. /\ svc'.jwt = d.jwt /\ svc'.storage = d.storage /\ svc'.stash = d.stash
        /\ \A q \in svc'.asked :
             q.with = new /\ q.op # "refresh" /\ (q.op = "loginAgain" => q.user = user)
    BY <1>8, <2>3, <2>4, FlushFreshShape DEF SameRest
  <2>6. svc'.waiting = {} BY <2>3, <2>4 DEF FlushFresh, Services
  <2>7. Bottom(svc') /\ Restored(s, svc')
    BY <1>9, <1>10, <2>3, <2>5 DEF Bottom, Restored
  <2>8. Saved(svc', tokens')
    <3>1. CASE s.stash = <<>>
      <4>1. s.storage = s.jwt /\ tokens[r.with].via = "login"
        BY <1>6, <1>8, <1>9, <1>10, <3>1 DEF Bottom, Saved
      <4>. QED BY <2>1, <2>3, <2>5, <3>1, <4>1 DEF Saved
    <3>2. CASE s.stash # <<>>
      <4>1. svc'.storage = s.storage /\ (s.storage # 0 => s.storage \in 1..n)
        BY <1>5, <1>10, <2>3, <2>5, <3>2
      <4>. QED BY <1>9, <2>1, <4>1 DEF Saved
    <3>. QED BY <3>1, <3>2
  <2>9. Held(svc', tokens') BY <2>1, <2>2, <2>3, <2>5 DEF Held
  <2>10. Given(tokens', callers)
    <3>1. Len(tokens') = Len(tokens) + 1 BY <2>1 DEF new
    <3>. QED BY <1>4, <1>5, <2>1, <3>1, GivenGrows
  <2>11. Given(tokens', callers') BY <1>11, <1>12, <2>1, <2>2, <2>4, <2>10, TellGiven
  <2>. QED BY <1>9, <2>6, <2>7, <2>8, <2>9, <2>11
<1>14. CASE outcome # "ok"
  <2>1. svc' = FlushNone(s) /\ callers' = Tell(callers, s.waiting, 0) /\ tokens' = tokens
    BY <1>7, <1>14
  <2>2. svc'.waiting = {} /\ svc'.asked = {} BY <1>5, <1>8, <2>1, FlushNoneKeeps
  <2>3. Deleted(s, svc') \/ Popped(s, svc') BY <1>8, <2>1, FlushNoneShape
  <2>4. Bottom(svc') /\ Saved(svc', tokens) /\ Restored(s, svc')
    BY <1>5, <1>8, <1>9, <2>3, ShapeKeeps
  <2>5. Given(tokens, callers') BY <1>4, <1>11, <1>12, <2>1, TellGiven
  <2>. QED BY <1>9, <2>1, <2>2, <2>4, <2>5 DEF Held
<1>. QED BY <1>13, <1>14

\* The clock: unless requests race it strikes between them.
LEMMA ExpiresSession ==
  ASSUME IInv, SInv, NEW t \in DOMAIN tokens, Expires(t)
  PROVE  StepOK
<1> DEFINE older == IF tokens[t].age = "fresh" THEN "stale" ELSE "dead"
           new == [user |-> tokens[t].user, via |-> tokens[t].via, age |-> older]
<1>1. /\ tokens' = [tokens EXCEPT ![t] = new] /\ raced' = (raced \/ svc.asked # {})
      /\ UNCHANGED <<svc, callers>>
  BY DEF Expires
<1>2. new.user = tokens[t].user /\ new.via = tokens[t].via OBVIOUS
<1> HIDE DEF new
<1>3. tokens \in Seq(Tokens) /\ Len(tokens) \in Nat BY LenProperties DEF IInv
<1>4. /\ Len(tokens') = Len(tokens)
      /\ \A k \in 1..Len(tokens) : tokens'[k].user = tokens[k].user /\ tokens'[k].via = tokens[k].via
  <2>1. tokens \in Seq(Tokens \cup {new}) /\ new \in Tokens \cup {new}
    <3>1. tokens \in [1..Len(tokens) -> Tokens] BY <1>3, LenProperties
    <3>2. tokens \in [1..Len(tokens) -> Tokens \cup {new}] BY <3>1
    <3>. QED BY <1>3, <3>2, SeqDef
  <2>2. Len(tokens') = Len(tokens) BY <1>1, <2>1, ExceptSeq
  <2>3. DOMAIN tokens = 1..Len(tokens) BY <1>3, LenProperties
  <2>. QED BY <1>1, <1>2, <2>2, <2>3
<1>5. SUFFICES ASSUME ~raced' PROVE StepOK BY DEF StepOK, SInv
<1>6. ~raced /\ svc.asked = {} BY <1>1, <1>5
<1>7. Bottom(svc) /\ Saved(svc, tokens) /\ Given(tokens, callers) BY <1>6 DEF SInv, Session
<1>8. svc.waiting = {} BY <1>6 DEF IInv, Awaited, One
<1>9. svc.storage \in 0..Len(tokens) /\ svc.stash \in Seq(1..Len(tokens)) BY DEF IInv, Typed
<1>10. Saved(svc, tokens')
  <2>1. svc.storage # 0 => svc.storage \in 1..Len(tokens) BY <1>3, <1>9
  <2>. QED BY <1>4, <1>7, <2>1 DEF Saved
<1>11. Given(tokens', callers) BY <1>4, <1>7 DEF Given
<1>12. Moves BY <1>1 DEF Moves, Restored
<1>. QED BY <1>1, <1>6, <1>7, <1>8, <1>10, <1>11, <1>12, Quiet

\* A page load: the one at the bottom of the stash is restored.
LEMMA ReloadSession ==
  ASSUME IInv, SInv, Reload
  PROVE  StepOK
<1>1. /\ svc' = Loaded(svc.storage) /\ UNCHANGED <<tokens, raced>>
      /\ callers' = [i \in DOMAIN callers |->
                       IF callers[i].called = 0 THEN [callers[i] EXCEPT !.dropped = TRUE]
                       ELSE callers[i]]
  BY DEF Reload
<1>2. SUFFICES ASSUME ~raced PROVE StepOK BY <1>1 DEF StepOK, SInv
<1>3. Bottom(svc) /\ Saved(svc, tokens) /\ Given(tokens, callers) BY <1>2 DEF SInv, Session
<1>4. /\ svc'.asked = {} /\ svc'.waiting = {} /\ svc'.jwt = svc.storage
      /\ svc'.storage = svc.storage /\ svc'.stash = <<>>
  BY <1>1 DEF Loaded
<1>5. Bottom(svc') /\ Saved(svc', tokens') BY <1>1, <1>3, <1>4 DEF Bottom, Saved
<1>6. Given(tokens', callers')
  <2>1. callers \in Seq(Callers) BY DEF IInv, Heard
  <2>2. ASSUME NEW i \in DOMAIN callers
        PROVE  callers'[i].given = callers[i].given /\ callers'[i].owner = callers[i].owner
    <3>1. callers[i] \in Callers BY <2>1
    <3>. QED BY <1>1, <3>1 DEF Callers
  <2>3. DOMAIN callers' = DOMAIN callers BY <1>1
  <2>. QED BY <1>1, <1>3, <2>2, <2>3 DEF Given
<1>7. Moves BY DEF Moves
<1>. QED BY <1>1, <1>2, <1>4, <1>5, <1>6, <1>7, Quiet

LEMMA NextSession ==
  ASSUME IInv, SInv, Next
  PROVE  StepOK
<1>1. ASSUME NEW freshOnly \in BOOLEAN, CallWithFreshJwt(freshOnly) PROVE StepOK
  BY <1>1, CallSession
<1>2. ASSUME NEW user \in Masters, Login(user) PROVE StepOK BY <1>2, LoginSession
<1>3. ASSUME NEW user \in Targets, LoginAs(user) PROVE StepOK
  <2> DEFINE w == [for |-> "loginAs", id |-> 0, user |-> user, callWithFreshOnly |-> FALSE]
  <2>1. w \in Waits /\ w.for = "loginAs" /\ w.user \in Users BY DEF Waits, Users
  <2>2. WithFreshJwt(w, callers) /\ NoteRaces /\ UNCHANGED tokens BY <1>3 DEF LoginAs
  <2> HIDE DEF w
  <2>. QED BY <2>1, <2>2, SessionCallSession
<1>4. CASE Logout
  <2> DEFINE w == [for |-> "logout", id |-> 0, user |-> 0, callWithFreshOnly |-> FALSE]
  <2>1. w \in Waits /\ w.for = "logout" BY DEF Waits
  <2>2. WithFreshJwt(w, callers) /\ NoteRaces /\ UNCHANGED tokens BY <1>4 DEF Logout
  <2> HIDE DEF w
  <2>. QED BY <2>1, <2>2, SessionCallSession
<1>5. CASE LoginAgain
  <2> DEFINE w == [for |-> "guard", id |-> 0, user |-> 0, callWithFreshOnly |-> FALSE]
  <2>1. w \in Waits /\ w.for = "guard" BY DEF Waits
  <2>2. WithFreshJwt(w, callers) /\ NoteRaces /\ UNCHANGED tokens BY <1>5 DEF LoginAgain
  <2> HIDE DEF w
  <2>. QED BY <2>1, <2>2, SessionCallSession
<1>6. ASSUME NEW r \in svc.asked, NEW outcome \in {"ok", "noTokens", "error"},
             LoginAnswered(r, outcome)
      PROVE  StepOK
  BY <1>6, LoginAnsweredSession
<1>7. ASSUME NEW r \in svc.asked, NEW outcome \in {"ok", "error"},
             LoginAsAnswered(r, outcome) \/ LogoutAnswered(r, outcome) \/ RefreshAnswered(r, outcome)
      PROVE  StepOK
  BY <1>7, LoginAsAnsweredSession, LogoutAnsweredSession, RefreshAnsweredSession
<1>8. ASSUME NEW t \in DOMAIN tokens, Expires(t) PROVE StepOK BY <1>8, ExpiresSession
<1>9. CASE Reload BY <1>9, ReloadSession
<1>. QED BY <1>1, <1>2, <1>3, <1>4, <1>5, <1>6, <1>7, <1>8, <1>9 DEF Next

LEMMA InitSession == Init => SInv
BY DEF Init, SInv, Loaded, Session, Bottom, Saved, Alone, Held, Owned, Given

\* The sessions are sound in every state, unless requests raced.
THEOREM SessionInvariance == Spec => []SInv
<1>1. IInv /\ SInv /\ [Next]_vars => SInv'
  <2>1. ASSUME IInv, SInv, UNCHANGED vars PROVE SInv' BY <2>1 DEF vars, SInv
  <2>. QED BY <2>1, NextSession DEF StepOK
<1>. QED BY <1>1, InitSession, Invariance, PTL DEF Spec

\* setJwt and the stash: the localStorage holds the tokens of one who logged in by himself,
\* those at the bottom of the stash, unless requests raced.
THEOREM StoredIsMastersAlways == Spec => []StoredIsMasters
<1>1. SInv => StoredIsMasters
  BY DEF SInv, Session, Bottom, Saved, StoredIsMasters, OnlyMastersAreStored, IsMasterUser
<1>. QED BY <1>1, SessionInvariance, PTL

\* withFreshJwt(): a callback gets tokens of the user it was called for, unless requests raced.
THEOREM GivenToOwnerAlways == Spec => []GivenToOwner
<1>1. SInv => GivenToOwner BY DEF SInv, Given, GivenToOwner
<1>. QED BY <1>1, SessionInvariance, PTL

\* Only the answer to a loginAs() can end it and bring tokens at once.
LEMMA LoggedInAsPushes ==
  ASSUME IInv, SInv, ~raced, Next,
         NEW r \in svc.asked \ svc'.asked, r.op = "loginAs", tokens' # tokens
  PROVE  Pushed
<1>1. Alone(svc) BY DEF SInv, Session
<1>2. ASSUME NEW q \in svc.asked, NEW outcome, LoginAsAnswered(q, outcome) PROVE Pushed
  <2>1. outcome = "ok" BY <1>2 DEF LoginAsAnswered
  <2>. QED BY <1>2, <2>1, LoginAsPushes
<1>3. \A q \in svc.asked : q.op = "loginAs" BY <1>1 DEF Alone
<1>4. \A q \in svc.asked, outcome \in {"ok", "noTokens", "error"} : ~LoginAnswered(q, outcome)
  BY <1>3 DEF LoginAnswered
<1>5. \A q \in svc.asked, outcome \in {"ok", "error"} :
        ~LogoutAnswered(q, outcome) /\ ~RefreshAnswered(q, outcome)
  BY <1>3 DEF LogoutAnswered, RefreshAnswered
<1>6. \A t \in DOMAIN tokens : ~Expires(t) BY DEF Expires
<1>7. ~Reload /\ ~Logout /\ ~LoginAgain BY DEF Reload, Logout, LoginAgain
<1>8. /\ \A freshOnly \in BOOLEAN : ~CallWithFreshJwt(freshOnly)
      /\ \A user \in Masters : ~Login(user)
      /\ \A user \in Targets : ~LoginAs(user)
  BY DEF CallWithFreshJwt, Login, LoginAs
<1>. QED BY <1>2, <1>4, <1>5, <1>6, <1>7, <1>8 DEF Next

\* What a step does to the stash.
LEMMA StashMoves ==
  ASSUME IInv, SInv, Next, ~raced'
  PROVE  LET n == Len(svc.stash)
             m == Len(svc'.stash)
             LoggedInAs == {r \in svc.asked \ svc'.asked : r.op = "loginAs"}
         IN  /\ Reload => svc'.jwt = (IF n = 0 THEN svc.jwt ELSE svc.stash[1]) /\ m = 0
             /\ ~Reload =>
                  \/ m = n /\ svc'.stash = svc.stash
                  \/ m = n + 1 /\ \E r \in LoggedInAs : svc'.stash = Append(svc.stash, r.with)
                  \/ m = n - 1 /\ svc'.jwt = svc.stash[n] /\ svc'.stash = SubSeq(svc.stash, 1, m)
             /\ LoggedInAs # {} /\ tokens' # tokens => m = n + 1
<1> DEFINE n == Len(svc.stash)
           m == Len(svc'.stash)
           LoggedInAs == {r \in svc.asked \ svc'.asked : r.op = "loginAs"}
<1>1. ~raced /\ Moves BY NextSession DEF StepOK
<1>2. svc.stash \in Seq(1..Len(tokens)) /\ n \in Nat /\ Bottom(svc)
      /\ \A r \in svc.asked : r.with \in Nat
  BY <1>1, LenProperties DEF IInv, Typed, SInv, Session
<1>3. n = 0 <=> svc.stash = <<>> BY <1>2, EmptySeq
<1>4. Pushed => m = n + 1 /\ \E r \in LoggedInAs : svc'.stash = Append(svc.stash, r.with)
  BY <1>2 DEF Pushed
<1>5. svc.stash # <<>> => Len(SubSeq(svc.stash, 1, n - 1)) = n - 1
  <2>1. svc.stash # <<>> => n - 1 \in 0..n BY <1>2, <1>3
  <2>. QED BY <1>2, <2>1, SubSeqProperties
<1>6. Reload => svc'.jwt = (IF n = 0 THEN svc.jwt ELSE svc.stash[1]) /\ m = 0
  <2>1. Reload => svc'.jwt = svc.storage /\ svc'.stash = <<>> BY DEF Reload, Loaded
  <2>. QED BY <1>2, <1>3, <2>1 DEF Bottom
<1>7. CASE Restored(svc, svc') /\ svc'.stash = svc.stash BY <1>1, <1>4, <1>6, <1>7, LoggedInAsPushes
<1>8. CASE Restored(svc, svc') /\ svc'.stash # svc.stash
  <2>1. /\ svc.stash # <<>> /\ svc'.jwt = svc.stash[n] /\ m = n - 1
        /\ svc'.stash = SubSeq(svc.stash, 1, m)
    BY <1>5, <1>8 DEF Restored
  <2>. QED BY <1>1, <1>4, <1>6, <2>1, LoggedInAsPushes
<1>9. CASE Pushed BY <1>4, <1>6, <1>9
<1>10. CASE Reload
  <2>1. tokens' = tokens BY <1>10 DEF Reload
  <2>. QED BY <1>6, <1>10, <2>1
<1>. QED BY <1>1, <1>7, <1>8, <1>9, <1>10 DEF Moves

\* Unless requests raced the stash is a stack of sessions: a successful loginAs() pushes the
\* tokens it was asked with, logout() restores those on top of the stash and no others, a
\* page load those at its bottom.
THEOREM CallerIsRestoredAlways == Spec => CallerIsRestored
<1> DEFINE P == LET n == Len(svc.stash)
                    m == Len(svc'.stash)
                    LoggedInAs == {r \in svc.asked \ svc'.asked : r.op = "loginAs"}
                IN  ~raced' =>
                      /\ Reload => svc'.jwt = (IF n = 0 THEN svc.jwt ELSE svc.stash[1]) /\ m = 0
                      /\ ~Reload =>
                           \/ m = n /\ svc'.stash = svc.stash
                           \/ m = n + 1 /\ \E r \in LoggedInAs : svc'.stash = Append(svc.stash, r.with)
                           \/ m = n - 1 /\ svc'.jwt = svc.stash[n] /\ svc'.stash = SubSeq(svc.stash, 1, m)
                      /\ LoggedInAs # {} /\ tokens' # tokens => m = n + 1
<1>1. IInv /\ SInv /\ [Next]_vars => [P]_vars
  <2>1. SUFFICES ASSUME IInv, SInv, Next PROVE P OBVIOUS
  <2>. QED BY <2>1, StashMoves
<1>. QED BY <1>1, Invariance, SessionInvariance, PTL DEF Spec, CallerIsRestored
-------------------------------------------------------------------------------
\* Who was not called was not given tokens.
Blank(cs) == \A i \in DOMAIN cs : cs[i].called = 0 => cs[i].given = 0

\* A step that hands out fresh tokens only, to the callbacks of before and to requests.
HandsFresh(before) ==
  /\ Blank(callers') /\ DOMAIN callers' = DOMAIN before
  /\ \A i \in DOMAIN before :
       callers'[i] # before[i] /\ callers'[i].given # 0 => tokens'[callers'[i].given].age = "fresh"
  /\ \A r \in svc'.asked \ svc.asked :
       r.op \in {"loginAs", "logout", "loginAgain"} => tokens'[r.with].age = "fresh"

\* A flush hands out the tokens it is made with.
LEMMA TellHands ==
  ASSUME NEW cs \in Seq(Callers), Blank(cs), NEW ws, NEW t \in Nat,
         \A w \in ws : w.for = "caller" => w.id \in DOMAIN cs /\ cs[w.id].called = 0
  PROVE  LET told == Tell(cs, ws, t)
         IN  /\ Blank(told) /\ DOMAIN told = DOMAIN cs
             /\ \A i \in DOMAIN cs : told[i] # cs[i] => told[i].given \in {0, t}
<1> DEFINE of(i) == {w \in ws : w.for = "caller" /\ w.id = i}
           told == Tell(cs, ws, t)
<1>1. DOMAIN told = DOMAIN cs BY DEF Tell
<1>2. ASSUME NEW i \in DOMAIN cs
      PROVE  /\ told[i].called = 0 => told[i].given = 0
             /\ told[i] # cs[i] => told[i].given \in {0, t}
  <2> DEFINE a == [cs[i] EXCEPT !.dropped = TRUE]
             b == [cs[i] EXCEPT !.called = 1, !.given = t]
  <2>1. cs[i] \in Callers OBVIOUS
  <2>2. of(i) # {} => cs[i].called = 0 /\ cs[i].called + 1 = 1 /\ cs[i].given = 0 BY DEF Blank
  <2>3. told[i] = IF of(i) = {} THEN cs[i]
                  ELSE IF t = 0 /\ \A w \in of(i) : w.callWithFreshOnly THEN a ELSE b
    BY <2>2 DEF Tell, Settled
  <2>4. a.given = cs[i].given /\ b.given = t /\ b.called = 1 BY <2>1 DEF Callers
  <2> HIDE DEF a, b, of, told
  <2>. QED BY <2>2, <2>3, <2>4 DEF Blank
<1> HIDE DEF told
<1>3. Blank(told) /\ \A i \in DOMAIN cs : told[i] # cs[i] => told[i].given \in {0, t}
  BY <1>1, <1>2 DEF Blank
<1>. QED BY <1>1, <1>3 DEF told

\* withFreshJwt() hands out the tokens of the service, and only if they are fresh.
LEMMA WithFreshJwtHands ==
  ASSUME IInv, NEW w \in Waits, NEW before \in Seq(Callers), WithFreshJwt(w, before), Blank(before),
         UNCHANGED tokens, w.for = "loginAs" => w.user \in Users,
         Heard([svc EXCEPT !.waiting = svc.waiting \cup {w}], before)
  PROVE  HandsFresh(before)
<1> DEFINE s == [svc EXCEPT !.waiting = svc.waiting \cup {w}]
           n == Len(tokens)
           age == IF s.jwt = 0 THEN "dead" ELSE tokens[s.jwt].age
<1>1. n \in Nat BY LenProperties DEF IInv
<1>2. s \in Services /\ s.asked = svc.asked /\ s.jwt \in Nat /\ Typed(s, n)
  <2>1. Typed(svc, n) /\ svc \in Services BY DEF IInv, Typed
  <2>2. /\ s \in Services /\ s.asked = svc.asked /\ s.waiting = svc.waiting \cup {w}
        /\ s.jwt = svc.jwt /\ s.storage = svc.storage /\ s.stash = svc.stash
    BY <2>1 DEF Services
  <2> HIDE DEF s
  <2>3. Typed(s, n) BY <2>1, <2>2 DEF Typed
  <2>. QED BY <2>1, <2>2, <2>3 DEF Services
<1>3. \A v \in s.waiting : v.for = "caller" => v.id \in DOMAIN before /\ before[v.id].called = 0
  BY DEF Heard
<1>4. /\ age = "dead" => svc' = FlushNone(s) /\ callers' = Tell(before, s.waiting, 0)
      /\ age = "stale" =>
           /\ svc' = IF s.refresh THEN s
                     ELSE [s EXCEPT !.refresh = TRUE,
                       !.asked = s.asked \cup {[op |-> "refresh", with |-> s.jwt, user |-> 0]}]
           /\ callers' = before
      /\ age = "fresh" => /\ svc' = FlushFresh(s, s.jwt, UserOf(s.jwt))
                          /\ callers' = Tell(before, s.waiting, s.jwt)
  BY DEF WithFreshJwt
<1>5. age \in Ages /\ (age = "fresh" => tokens[s.jwt].age = "fresh")
  <2>1. s.jwt # 0 => s.jwt \in 1..n BY <1>1, <1>2 DEF Typed
  <2>2. s.jwt # 0 => tokens[s.jwt] \in Tokens BY <2>1 DEF IInv
  <2>. QED BY <2>2 DEF Tokens, Ages
<1> HIDE DEF s, age
<1>6. CASE age = "dead"
  <2>1. svc'.asked = svc.asked BY <1>1, <1>2, <1>4, <1>6, FlushNoneKeeps
  <2>. QED BY <1>3, <1>4, <1>6, <2>1, TellHands DEF HandsFresh
<1>7. CASE age = "fresh"
  <2>1. \A r \in svc'.asked : r \in svc.asked \/ r.with = s.jwt
    BY <1>2, <1>4, <1>7, FlushFreshShape
  <2>2. /\ Blank(callers') /\ DOMAIN callers' = DOMAIN before
        /\ \A i \in DOMAIN before : callers'[i] # before[i] => callers'[i].given \in {0, s.jwt}
    BY <1>2, <1>3, <1>4, <1>7, TellHands
  <2>. QED BY <1>5, <1>7, <2>1, <2>2 DEF HandsFresh
<1>8. CASE age = "stale"
  <2> DEFINE r == [op |-> "refresh", with |-> s.jwt, user |-> 0]
             d == [s EXCEPT !.refresh = TRUE, !.asked = s.asked \cup {r}]
  <2>1. callers' = before /\ (svc' = s \/ svc' = d) BY <1>4, <1>8
  <2>2. r.op = "refresh" OBVIOUS
  <2> HIDE DEF r
  <2>3. d.asked = s.asked \cup {r} BY <1>2 DEF Services
  <2> HIDE DEF d
  <2>4. \A q \in svc'.asked : q \in svc.asked \/ q = r BY <1>2, <2>1, <2>3
  <2>. QED BY <2>1, <2>2, <2>4 DEF HandsFresh
<1>. QED BY <1>5, <1>6, <1>7, <1>8 DEF Ages

\* A step in which no callback is called and no request is sent that needs tokens.
LEMMA HandsNothing ==
  ASSUME Blank(callers), callers' = callers,
         \A r \in svc'.asked \ svc.asked : r.op \notin {"loginAs", "logout", "loginAgain"}
  PROVE  HandsFresh(callers)
BY DEF HandsFresh

\* A call to withFreshJwt() from outside: the callbacks it is made with are the old ones,
\* and a new one that has no tokens yet.
LEMMA CallHands ==
  ASSUME IInv, Blank(callers), NEW freshOnly \in BOOLEAN, CallWithFreshJwt(freshOnly)
  PROVE  \E before : /\ HandsFresh(before)
                     /\ \A i \in DOMAIN before :
                          IF i \in DOMAIN callers THEN before[i] = callers[i] ELSE before[i].given = 0
<1> DEFINE id == Len(callers) + 1
           w == [for |-> "caller", id |-> id, user |-> 0, callWithFreshOnly |-> freshOnly]
           u == UserOf(svc.jwt)
           call == [owner |-> u, called |-> 0, given |-> 0, dropped |-> FALSE]
           before == Append(callers, call)
           s == [svc EXCEPT !.waiting = svc.waiting \cup {w}]
<1>1. /\ callers \in Seq(Callers) /\ Len(callers) \in Nat /\ DOMAIN callers = 1..Len(callers)
      /\ \A i \in DOMAIN callers : Once(callers[i])
  BY LenProperties DEF IInv, Heard
<1>2. call \in Callers
  <2>1. tokens \in Seq(Tokens) /\ svc.jwt \in 0..Len(tokens) BY DEF IInv, Typed
  <2>2. svc.jwt # 0 => tokens[svc.jwt] \in Tokens BY <2>1
  <2>3. u \in Users \cup {0} BY <2>2 DEF UserOf, Tokens
  <2>. QED BY <2>3 DEF Callers
<1>3. w \in Waits /\ w.for = "caller" /\ w.id = id BY <1>1 DEF Waits
<1>4. call.called = 0 /\ call.given = 0 /\ ~call.dropped OBVIOUS
<1>5. s.waiting = svc.waiting \cup {w} BY DEF IInv, Typed, Services
<1>6. WithFreshJwt(w, before) /\ UNCHANGED tokens BY DEF CallWithFreshJwt
<1> HIDE DEF w, call, u, s
<1>7. /\ before \in Seq(Callers) /\ DOMAIN before = DOMAIN callers \cup {id}
      /\ \A i \in DOMAIN callers : before[i] = callers[i]
      /\ before[id] = call /\ id \notin DOMAIN callers
  BY <1>1, <1>2, AppendProperties
<1> HIDE DEF before, id
<1>8. Blank(before) BY <1>4, <1>7 DEF Blank
<1>9. Heard(s, before)
  <2>1. \A i \in DOMAIN before : Once(before[i]) BY <1>1, <1>4, <1>7 DEF Once
  <2>2. \A v \in s.waiting : v.for = "caller" =>
          v.id \in DOMAIN before /\ before[v.id].called = 0 /\ ~before[v.id].dropped
    BY <1>3, <1>4, <1>5, <1>7 DEF IInv, Heard
  <2>. QED BY <1>7, <2>1, <2>2 DEF Heard
<1>10. HandsFresh(before) BY <1>3, <1>6, <1>7, <1>8, <1>9, WithFreshJwtHands DEF s
<1>. QED BY <1>4, <1>7, <1>10

\* A call by loginAs(), logout() or the guard.
LEMMA SessionCallHands ==
  ASSUME IInv, Blank(callers), NEW w \in Waits, w.for # "caller", WithFreshJwt(w, callers),
         UNCHANGED tokens, w.for = "loginAs" => w.user \in Users
  PROVE  HandsFresh(callers)
<1> DEFINE s == [svc EXCEPT !.waiting = svc.waiting \cup {w}]
<1>1. s.waiting = svc.waiting \cup {w} BY DEF IInv, Typed, Services
<1>2. Heard(s, callers) BY <1>1 DEF IInv, Heard
<1>3. callers \in Seq(Callers) BY DEF IInv, Heard
<1>. QED BY <1>2, <1>3, WithFreshJwtHands

\* The answers to the other requests hand out nothing.
LEMMA AnswersHand ==
  ASSUME IInv, Blank(callers), NEW r \in svc.asked, NEW outcome \in {"ok", "noTokens", "error"},
         LoginAnswered(r, outcome) \/ LoginAsAnswered(r, outcome) \/ LogoutAnswered(r, outcome)
  PROVE  HandsFresh(callers)
<1> DEFINE n == Len(tokens)
<1>1. n \in Nat /\ Typed(Without(r), n) /\ Without(r).asked = svc.asked \ {r}
  BY LenProperties, WithoutKeeps DEF IInv
<1>2. Typed(Without(r), n + 1) BY <1>1, TypedGrows
<1>3. n + 1 \in Nat /\ n + 1 \in 1..(n + 1) BY <1>1
<1> DEFINE s == Without(r)
           new == n + 1
<1>4. SetJwt(s, new).asked = svc.asked \ {r}
  <2>1. Typed(s, new) /\ new \in Nat /\ new \in 0..new /\ new \in 1..new BY <1>2, <1>3
  <2>2. s.asked = svc.asked \ {r} BY <1>1
  <2> HIDE DEF s, new
  <2>. QED BY <2>1, <2>2, SetJwtKeeps DEF SameRest
<1>5. StashJwt(s, new).asked = svc.asked \ {r}
  <2>1. Typed(s, new) /\ new \in Nat /\ new \in 0..new /\ new \in 1..new BY <1>2, <1>3
  <2>2. s.asked = svc.asked \ {r} BY <1>1
  <2> HIDE DEF s, new
  <2>. QED BY <2>1, <2>2, StashJwtKeeps DEF SameRest
<1>6. DeleteJwt(s).asked = svc.asked \ {r} BY <1>1, DeleteJwtKeeps DEF SameRest
<1>7. LogoutSucceed(s).asked = svc.asked \ {r} BY <1>1, LogoutSucceedKeeps DEF SameRest
<1>8. callers' = callers BY DEF LoginAnswered, LoginAsAnswered, LogoutAnswered
<1>9. /\ LoginAnswered(r, outcome) => svc' \in {SetJwt(s, new), s, DeleteJwt(s)}
      /\ LoginAsAnswered(r, outcome) => svc' \in {StashJwt(s, new), s}
      /\ LogoutAnswered(r, outcome) => svc' \in {LogoutSucceed(s), s}
  BY DEF LoginAnswered, LoginAsAnswered, LogoutAnswered
<1>10. s.asked = svc.asked \ {r} BY <1>1
<1> HIDE DEF s, new
<1>11. svc'.asked = svc.asked \ {r} BY <1>4, <1>5, <1>6, <1>7, <1>9, <1>10
<1>. QED BY <1>8, <1>11, HandsNothing

\* The subscriber of refresh() hands out the pair it got, which is new.
LEMMA RefreshHands ==
  ASSUME IInv, Blank(callers), NEW r \in svc.asked, NEW outcome, RefreshAnswered(r, outcome)
  PROVE  HandsFresh(callers)
<1> DEFINE n == Len(tokens)
           s == [Without(r) EXCEPT !.refresh = FALSE]
           new == n + 1
<1>1. n \in Nat /\ Typed(Without(r), n) BY LenProperties, WithoutKeeps DEF IInv
<1>2. Typed(s, n) /\ s \in Services /\ s.waiting = svc.waiting /\ s.asked = svc.asked \ {r}
  BY <1>1, WithoutKeeps DEF IInv, Typed, Services
<1>3. /\ outcome = "ok" =>
           /\ Issue(tokens[r.with].user, tokens[r.with].via)
           /\ svc' = FlushFresh(SetJwt(s, new), new, tokens[r.with].user)
           /\ callers' = Tell(callers, s.waiting, new)
      /\ outcome # "ok" => svc' = FlushNone(s) /\ callers' = Tell(callers, s.waiting, 0)
  BY DEF RefreshAnswered
<1>4. \A v \in s.waiting : v.for = "caller" => v.id \in DOMAIN callers /\ callers[v.id].called = 0
  BY <1>2 DEF IInv, Heard
<1>5. callers \in Seq(Callers) BY DEF IInv, Heard
<1> HIDE DEF s
<1>6. CASE outcome = "ok"
  <2>1. tokens'[new].age = "fresh" BY <1>3, <1>6, Issued
  <2>2. new \in Nat BY <1>1
  <2>3. /\ Blank(callers') /\ DOMAIN callers' = DOMAIN callers
        /\ \A i \in DOMAIN callers : callers'[i] # callers[i] => callers'[i].given \in {0, new}
    BY <1>3, <1>4, <1>5, <1>6, <2>2, TellHands
  <2> DEFINE d == SetJwt(s, new)
  <2>4. d \in Services /\ d.asked = s.asked BY <1>2, <2>2, SetJwtShape DEF SameRest
  <2>5. svc' = FlushFresh(d, new, tokens[r.with].user) BY <1>3, <1>6
  <2> HIDE DEF d
  <2>6. \A q \in svc'.asked : q \in svc.asked \/ q.with = new
    BY <1>2, <2>4, <2>5, FlushFreshShape
  <2>. QED BY <2>1, <2>3, <2>6 DEF HandsFresh
<1>7. CASE outcome # "ok"
  <2>1. svc'.asked = s.asked BY <1>1, <1>2, <1>3, <1>7, FlushNoneKeeps
  <2>2. /\ Blank(callers') /\ DOMAIN callers' = DOMAIN callers
        /\ \A i \in DOMAIN callers : callers'[i] # callers[i] => callers'[i].given \in {0}
    BY <1>3, <1>4, <1>5, <1>7, TellHands
  <2>. QED BY <1>2, <2>1, <2>2 DEF HandsFresh
<1>. QED BY <1>6, <1>7

\* Every step hands out fresh tokens only, but for the page load, which hands out nothing.
LEMMA NextHands ==
  ASSUME IInv, Blank(callers), Next
  PROVE  \/ \E before : /\ HandsFresh(before)
                        /\ \A i \in DOMAIN before :
                             IF i \in DOMAIN callers THEN before[i] = callers[i]
                             ELSE before[i].given = 0
         \/ Reload
<1> DEFINE Goal == \E before : /\ HandsFresh(before)
                               /\ \A i \in DOMAIN before :
                                    IF i \in DOMAIN callers THEN before[i] = callers[i]
                                    ELSE before[i].given = 0
<1>1. HandsFresh(callers) => Goal OBVIOUS
<1>2. ASSUME NEW freshOnly \in BOOLEAN, CallWithFreshJwt(freshOnly) PROVE Goal
  BY <1>2, CallHands
<1>3. ASSUME NEW user \in Masters, Login(user) PROVE HandsFresh(callers)
  <2> DEFINE r == [op |-> "login", with |-> 0, user |-> user]
  <2>1. svc' = [svc EXCEPT !.asked = svc.asked \cup {r}] /\ callers' = callers
    BY <1>3 DEF Login
  <2>2. r.op = "login" OBVIOUS
  <2> HIDE DEF r
  <2>3. svc'.asked = svc.asked \cup {r} BY <2>1 DEF IInv, Typed, Services
  <2>. QED BY <2>1, <2>2, <2>3, HandsNothing
<1>4. ASSUME NEW user \in Targets, LoginAs(user) PROVE HandsFresh(callers)
  <2> DEFINE w == [for |-> "loginAs", id |-> 0, user |-> user, callWithFreshOnly |-> FALSE]
  <2>1. w \in Waits /\ w.for = "loginAs" /\ w.user \in Users BY DEF Waits, Users
  <2>2. WithFreshJwt(w, callers) /\ UNCHANGED tokens BY <1>4 DEF LoginAs
  <2> HIDE DEF w
  <2>. QED BY <2>1, <2>2, SessionCallHands
<1>5. ASSUME Logout PROVE HandsFresh(callers)
  <2> DEFINE w == [for |-> "logout", id |-> 0, user |-> 0, callWithFreshOnly |-> FALSE]
  <2>1. w \in Waits /\ w.for = "logout" BY DEF Waits
  <2>2. WithFreshJwt(w, callers) /\ UNCHANGED tokens BY <1>5 DEF Logout
  <2> HIDE DEF w
  <2>. QED BY <2>1, <2>2, SessionCallHands
<1>6. ASSUME LoginAgain PROVE HandsFresh(callers)
  <2> DEFINE w == [for |-> "guard", id |-> 0, user |-> 0, callWithFreshOnly |-> FALSE]
  <2>1. w \in Waits /\ w.for = "guard" BY DEF Waits
  <2>2. WithFreshJwt(w, callers) /\ UNCHANGED tokens BY <1>6 DEF LoginAgain
  <2> HIDE DEF w
  <2>. QED BY <2>1, <2>2, SessionCallHands
<1>7. ASSUME NEW r \in svc.asked, NEW outcome \in {"ok", "noTokens", "error"},
             LoginAnswered(r, outcome) \/ LoginAsAnswered(r, outcome) \/ LogoutAnswered(r, outcome)
      PROVE  HandsFresh(callers)
  BY <1>7, AnswersHand
<1>8. ASSUME NEW r \in svc.asked, NEW outcome, RefreshAnswered(r, outcome)
      PROVE  HandsFresh(callers)
  BY <1>8, RefreshHands
<1>9. ASSUME NEW t \in DOMAIN tokens, Expires(t) PROVE HandsFresh(callers)
  BY <1>9, HandsNothing DEF Expires
<1> HIDE DEF Goal
<1>10. HandsFresh(callers) \/ Goal \/ Reload
  BY <1>2, <1>3, <1>4, <1>5, <1>6, <1>7, <1>8, <1>9 DEF Next
<1>. QED BY <1>1, <1>10 DEF Goal

\* A page load gives nothing to those it drops, and asks for nothing.
LEMMA ReloadHands ==
  ASSUME IInv, Blank(callers), Reload
  PROVE  /\ Blank(callers') /\ DOMAIN callers' = DOMAIN callers /\ svc'.asked = {}
         /\ \A i \in DOMAIN callers : callers'[i] # callers[i] => callers'[i].given = 0
<1>1. svc'.asked = {} BY DEF Reload, Loaded
<1>2. DOMAIN callers' = DOMAIN callers BY DEF Reload
<1>3. ASSUME NEW i \in DOMAIN callers
      PROVE  /\ callers'[i].called = 0 => callers'[i].given = 0
             /\ callers'[i] # callers[i] => callers'[i].given = 0
  <2> DEFINE a == [callers[i] EXCEPT !.dropped = TRUE]
  <2>1. callers[i] \in Callers BY DEF IInv, Heard
  <2>2. a.given = callers[i].given BY <2>1 DEF Callers
  <2>3. callers'[i] = IF callers[i].called = 0 THEN a ELSE callers[i] BY DEF Reload
  <2> HIDE DEF a
  <2>. QED BY <2>2, <2>3 DEF Blank
<1>. QED BY <1>1, <1>2, <1>3 DEF Blank

\* withFreshJwt(): tokens are fresh when a callback or a request gets them, whoever flushes.
THEOREM FreshWhenHandedOutAlways == Spec => FreshWhenHandedOut
<1> DEFINE P == /\ \A i \in DOMAIN callers' :
                     callers'[i].given # 0 /\ (i \in DOMAIN callers => callers[i] # callers'[i])
                       => tokens'[callers'[i].given].age = "fresh"
                /\ \A r \in svc'.asked \ svc.asked :
                     r.op \in {"loginAs", "logout", "loginAgain"} => tokens'[r.with].age = "fresh"
<1>1. Init => Blank(callers) BY DEF Init, Blank
<1>2. ASSUME IInv, Blank(callers), Next PROVE P /\ Blank(callers')
  <2>1. CASE Reload BY <1>2, <2>1, ReloadHands
  <2>2. ASSUME NEW before, HandsFresh(before),
               \A i \in DOMAIN before :
                 IF i \in DOMAIN callers THEN before[i] = callers[i] ELSE before[i].given = 0
        PROVE  P /\ Blank(callers')
    <3>1. ASSUME NEW i \in DOMAIN callers', callers'[i].given # 0,
                 i \in DOMAIN callers => callers[i] # callers'[i]
          PROVE  tokens'[callers'[i].given].age = "fresh"
      <4>1. i \in DOMAIN before BY <2>2 DEF HandsFresh
      <4>2. callers'[i] # before[i] BY <2>2, <3>1, <4>1
      <4>. QED BY <2>2, <3>1, <4>1, <4>2 DEF HandsFresh
    <3>. QED BY <2>2, <3>1 DEF HandsFresh
  <2> HIDE DEF P
  <2>. QED BY <1>2, <2>1, <2>2, NextHands
<1>3. IInv /\ Blank(callers) /\ [Next]_vars => Blank(callers)' /\ [P]_vars
  <2>1. ASSUME Blank(callers), UNCHANGED vars PROVE Blank(callers') BY <2>1 DEF vars, Blank
  <2> HIDE DEF P
  <2>. QED BY <1>2, <2>1
<1>. QED BY <1>1, <1>3, Invariance, PTL DEF Spec, FreshWhenHandedOut
================================================================================
