-------------------------- MODULE HttpRequests_proofs --------------------------
(***************************************************************************)
(* Proofs about HttpRequests, for all options, answers and configurations: *)
(* types, that a request which waits has a refresh to wait for, with what  *)
(* the interceptor lets requests go, and what callers and the reporter get *)
(* of failures.                                                            *)
(*                                                                         *)
(* The inductive invariant IInv adds that the requests of refreshes do not *)
(* wait, since they bypass JwtInterceptor, and that no waiting request has *)
(* a token yet.                                                            *)
(***************************************************************************)
EXTENDS HttpRequests, TLAPS

Typed ==
  /\ session \in {"none", "stale", "fresh"}
  /\ reqs = [n \in DOMAIN reqs |-> reqs[n]] /\ DOMAIN reqs \subseteq Numbers
  /\ \A n \in DOMAIN reqs : reqs[n] \in Requests

\* What holds of every request in flight.
Fair(q) ==
  /\ q.api = "refresh" => ~Waits(q)
  /\ Waits(q) => q.auth # "token"

\* A table of requests that may be in flight.
Sound(rs) ==
  /\ rs = [n \in DOMAIN rs |-> rs[n]] /\ DOMAIN rs \subseteq Numbers
  /\ \A n \in DOMAIN rs : rs[n] \in Requests /\ Fair(rs[n])

Awaited(rs) ==
  (\E n \in DOMAIN rs : Waits(rs[n])) =>
    \E n \in DOMAIN rs : rs[n].api = "refresh" /\ rs[n].phase = "sent"

\* What is true of the request that ended last.
Told(o) ==
  /\ o \in Outcomes
  /\ Config.http.detectsErrors
       /\ ~(\E reply \in Replies : ~reply.ok /\ reply.type = "protobuf" /\ reply.body = "message")
     => (o.given = "value" => o.good)
  /\ Config.errors.texts = {"locale", "no connection"} /\ o.api # "http"
       => o.given \in {"value", "text"}
  /\ o.given = "value" => o.reports = 0
  /\ Config.errors.production /\ o.api # "http" /\ o.given # "value"
       /\ o.thrown \notin Config.errors.doNotSend
     => o.reports > 0

IInv ==
  /\ session \in {"none", "stale", "fresh"}
  /\ Sound(reqs) /\ Awaited(reqs) /\ Told(outcome)
-------------------------------------------------------------------------------
\* RequestService and VersionInterceptor: a request leaves as the one it is.
LEMMA LeaveKeeps ==
  ASSUME NEW q \in Requests
  PROVE  /\ Leave(q) \in Requests
         /\ Leave(q).phase = "sent" /\ Leave(q).auth = q.auth
         /\ Leave(q).api = q.api /\ Leave(q).with = q.with
<1> DEFINE v == IF "disableVersion" \in q.with \/ ~Config.http.versioned \/ q.version = "own"
                THEN q.version ELSE "set"
<1>1. Leave(q) = [q EXCEPT !.phase = "sent", !.version = v] BY DEF Leave
<1>2. v \in {"none", "own", "set"} BY DEF Requests
<1> HIDE DEF v
<1>. QED BY <1>1, <1>2 DEF Requests

\* addAccessToken changes the header only.
LEMMA AddAccessTokenKeeps ==
  ASSUME NEW q \in Requests
  PROVE  /\ AddAccessToken(q) \in Requests /\ AddAccessToken(q).auth = "token"
         /\ AddAccessToken(q).api = q.api /\ AddAccessToken(q).with = q.with
BY DEF AddAccessToken, Requests

\* A new request.
LEMMA NewRequestType ==
  ASSUME NEW api \in Apis, NEW with \in SUBSET (Flags \cup {"reportProgress"})
  PROVE  /\ NewRequest(api, with) \in Requests /\ Waits(NewRequest(api, with))
         /\ NewRequest(api, with).auth # "token"
         /\ NewRequest(api, with).api = api /\ NewRequest(api, with).with = with
BY DEF NewRequest, Requests, Waits

\* What a flush makes of one request.
LEMMA FlushOne ==
  ASSUME NEW rs, Sound(rs), NEW fresh \in BOOLEAN, NEW n \in DOMAIN rs,
         NEW q, q = Flush(rs, fresh)[n]
  PROVE  /\ q \in Requests /\ ~Waits(q)
         /\ q.api = rs[n].api /\ q.with = rs[n].with
         /\ Waits(rs[n]) => (q.auth = "token" <=> fresh)
         /\ ~Waits(rs[n]) => q = rs[n]
<1>1. rs[n] \in Requests /\ Fair(rs[n]) BY DEF Sound
<1>2. q = IF ~Waits(rs[n]) THEN rs[n]
          ELSE Leave(IF fresh THEN AddAccessToken(rs[n]) ELSE rs[n])
  BY DEF Flush
<1>3. CASE ~Waits(rs[n]) BY <1>1, <1>2, <1>3
<1>4. CASE Waits(rs[n]) /\ fresh
  <2>1. q = Leave(AddAccessToken(rs[n])) BY <1>2, <1>4
  <2>2. /\ AddAccessToken(rs[n]) \in Requests /\ AddAccessToken(rs[n]).auth = "token"
        /\ AddAccessToken(rs[n]).api = rs[n].api /\ AddAccessToken(rs[n]).with = rs[n].with
    BY <1>1, AddAccessTokenKeeps
  <2>3. /\ q \in Requests /\ q.phase = "sent" /\ q.auth = "token"
        /\ q.api = rs[n].api /\ q.with = rs[n].with
    BY <2>1, <2>2, LeaveKeeps
  <2>. QED BY <1>4, <2>3 DEF Waits
<1>5. CASE Waits(rs[n]) /\ ~fresh
  <2>1. q = Leave(rs[n]) BY <1>2, <1>5
  <2>. QED BY <1>1, <1>5, <2>1, LeaveKeeps DEF Waits, Fair
<1>. QED BY <1>3, <1>4, <1>5

\* A flush leaves nobody waiting.
LEMMA FlushSound ==
  ASSUME NEW rs, Sound(rs), NEW fresh \in BOOLEAN
  PROVE  Sound(Flush(rs, fresh)) /\ Awaited(Flush(rs, fresh))
<1> DEFINE fs == Flush(rs, fresh)
<1>1. DOMAIN fs = DOMAIN rs /\ fs = [n \in DOMAIN fs |-> fs[n]] BY DEF Flush
<1>2. \A n \in DOMAIN rs : fs[n] \in Requests /\ ~Waits(fs[n]) BY FlushOne
<1> HIDE DEF fs
<1>3. Sound(fs) /\ Awaited(fs) BY <1>1, <1>2 DEF Sound, Awaited, Fair
<1>. QED BY <1>3 DEF fs

\* One request more.
LEMMA AddedSound ==
  ASSUME NEW rs, Sound(rs), NEW n \in Numbers, NEW q \in Requests, Fair(q)
  PROVE  /\ Sound(Added(rs, n, q)) /\ DOMAIN Added(rs, n, q) = DOMAIN rs \cup {n}
         /\ Added(rs, n, q)[n] = q
         /\ \A m \in DOMAIN rs : m # n => Added(rs, n, q)[m] = rs[m]
<1> DEFINE as == Added(rs, n, q)
<1>1. DOMAIN as = DOMAIN rs \cup {n} /\ as = [m \in DOMAIN as |-> as[m]] BY DEF Added
<1>2. as[n] = q /\ \A m \in DOMAIN rs : m # n => as[m] = rs[m] BY DEF Added
<1> HIDE DEF as
<1>3. Sound(as) BY <1>1, <1>2 DEF Sound
<1>. QED BY <1>1, <1>2, <1>3 DEF as

\* One request less.
LEMMA RemovedSound ==
  ASSUME NEW rs, Sound(rs), NEW n
  PROVE  /\ Sound(Removed(rs, n)) /\ DOMAIN Removed(rs, n) = DOMAIN rs \ {n}
         /\ \A m \in DOMAIN rs \ {n} : Removed(rs, n)[m] = rs[m]
<1> DEFINE as == Removed(rs, n)
<1>1. DOMAIN as = DOMAIN rs \ {n} /\ as = [m \in DOMAIN as |-> as[m]] BY DEF Removed
<1>2. \A m \in DOMAIN rs \ {n} : as[m] = rs[m] BY DEF Removed
<1> HIDE DEF as
<1>3. Sound(as) BY <1>1, <1>2 DEF Sound
<1>. QED BY <1>1, <1>2, <1>3 DEF as

\* The request of a refresh does not pass by JwtInterceptor.
LEMMA RefreshEntered ==
  LET q == Entered(NewRequest("refresh", RefreshWith))
  IN  /\ q \in Requests /\ Fair(q)
      /\ q.api = "refresh" /\ q.with = RefreshWith /\ q.phase = "sent"
<1>1. "refresh" \in Apis /\ RefreshWith \in SUBSET (Flags \cup {"reportProgress"})
  BY HttpAssumption DEF Apis
<1>2. Bypasses(RefreshWith) BY HttpAssumption DEF Bypasses
<1>3. Entered(NewRequest("refresh", RefreshWith)) = Leave(NewRequest("refresh", RefreshWith))
  BY <1>1, <1>2, NewRequestType DEF Entered
<1>. QED BY <1>1, <1>3, NewRequestType, LeaveKeeps DEF Fair, Waits

\* The options of a call.
LEMMA OptionsType ==
  ASSUME NEW o \in Options
  PROVE  /\ o.api \in {"request", "requestFile", "http"} /\ o.api \in Apis
         /\ o.with \in SUBSET (Flags \cup {"reportProgress"})
BY HttpAssumption DEF AllOptions, Apis

\* What the end of the pipe makes of an error, whatever it is.
LEMMA EndedTellsAll ==
  ASSUME NEW api \in Apis, NEW good \in BOOLEAN, NEW error \in Errors \cup {"nothing"},
         NEW handled \in BOOLEAN,
         Config.http.detectsErrors
           /\ ~(\E reply \in Replies : ~reply.ok /\ reply.type = "protobuf" /\ reply.body = "message")
         => (error = "nothing" => good)
  PROVE  Told(Ended(api, good, error, handled))
<1> DEFINE given == IF error = "nothing" THEN "value"
                    ELSE IF api = "http" THEN "raw" ELSE ToUserError(error)
           reports == IF error = "nothing" THEN 0
                      ELSE (IF api = "http" THEN 0 ELSE ReportError(error))
                             + (IF handled THEN 0 ELSE SendError)
           o == Ended(api, good, error, handled)
<1>1. o = [api |-> api, good |-> good, thrown |-> error, given |-> given, reports |-> reports]
  BY DEF Ended
<1>2. /\ ToUserError(error) \in {"text", "TypeError", "undefined"}
      /\ Config.errors.texts = {"locale", "no connection"} => ToUserError(error) = "text"
  BY DEF ToUserError
<1>3. /\ SendError \in {0, 1} /\ (Config.errors.production => SendError = 1)
      /\ ReportError(error) \in {0, SendError}
      /\ error \notin Config.errors.doNotSend => ReportError(error) = SendError
  BY DEF SendError, ReportError
<1>4. given \in {"value", "text", "TypeError", "undefined", "raw"} BY <1>2
<1>5. reports \in 0..2 BY <1>3
<1>6. given = "value" <=> error = "nothing" BY <1>2
<1>7. given = "value" => reports = 0 BY <1>6
<1>8. Config.errors.texts = {"locale", "no connection"} /\ api # "http" => given \in {"value", "text"}
  BY <1>2
<1>9. Config.errors.production /\ api # "http" /\ given # "value"
        /\ error \notin Config.errors.doNotSend => reports > 0
  BY <1>3, <1>6
<1> HIDE DEF given, reports, o
<1>10. /\ o.api = api /\ o.good = good /\ o.thrown = error /\ o.given = given
       /\ o.reports = reports /\ o \in Outcomes
  BY <1>1, <1>4, <1>5 DEF Outcomes
<1>11. Told(o) BY <1>6, <1>7, <1>8, <1>9, <1>10 DEF Told
<1>. QED BY <1>11 DEF o

\* The error texts, and the calls of the reporter.
LEMMA EndedTold ==
  ASSUME NEW api \in Apis, NEW reply \in Replies, NEW handled \in BOOLEAN
  PROVE  Told(Ended(api, Good(api, reply), Handle(api, reply), handled))
<1> DEFINE error == Handle(api, reply)
           good == Good(api, reply)
           o == Ended(api, good, error, handled)
<1>1. reply \in AllReplies BY HttpAssumption
<1>2. error \in Errors \cup {"nothing"} /\ good \in BOOLEAN
  <2>1. good \in BOOLEAN BY <1>1 DEF Good, AllReplies, Apis
  <2>2. reply.body # "null" => HandleBody(reply.body) \in Errors \cup {"nothing"}
    BY <1>1 DEF HandleBody, AllReplies, Errors
  <2>3. HandleResponse(reply) \in Errors \cup {"nothing"}
    BY <2>2 DEF HandleResponse, ResponseHandler, Errors
  <2>4. HandleFile(reply) \in Errors \cup {"nothing"} BY <1>1 DEF HandleFile, AllReplies, Errors
  <2>5. error \in Errors \cup {"nothing"} BY <2>3, <2>4 DEF Handle, Apis, Errors
  <2>. QED BY <2>1, <2>5
<1>3. Config.http.detectsErrors
        /\ ~(\E bad \in Replies : ~bad.ok /\ bad.type = "protobuf" /\ bad.body = "message")
      => (error = "nothing" => good)
  <2>1. SUFFICES ASSUME Config.http.detectsErrors, error = "nothing",
                        ~reply.ok /\ reply.type = "protobuf" => reply.body # "message"
                 PROVE  good
    OBVIOUS
  <2>2. CASE api \in {"request", "refresh"}
    <3>1. HandleResponse(reply) = "nothing" BY <2>1, <2>2 DEF Handle
    <3>2. ResponseHandler(reply) = "nothing" /\ (reply.ok \/ reply.type = "protobuf")
      BY <3>1 DEF HandleResponse
    <3>3. reply.type = "protobuf" /\ HandleBody(reply.body) = "nothing"
      BY <3>2 DEF ResponseHandler
    <3>4. reply.body = "message" BY <1>1, <2>1, <3>3 DEF HandleBody, AllReplies
    <3>. QED BY <2>1, <2>2, <3>2, <3>3, <3>4 DEF Good
  <2>3. CASE api = "requestFile"
    <3>1. HandleFile(reply) = "nothing" BY <2>1, <2>3 DEF Handle
    <3>2. reply.ok /\ reply.body # "null" /\ reply.type = "other"
      BY <1>1, <3>1 DEF HandleFile, AllReplies
    <3>. QED BY <2>3, <3>2 DEF Good
  <2>4. CASE api = "http"
    <3>1. reply.ok BY <2>1, <2>4 DEF Handle
    <3>. QED BY <2>4, <3>1 DEF Good
  <2>. QED BY <2>2, <2>3, <2>4 DEF Apis
<1> HIDE DEF error, good
<1>4. Told(o) BY <1>2, <1>3, EndedTellsAll
<1>. QED BY <1>4 DEF error, good
-------------------------------------------------------------------------------
LEMMA InitIInv ==
  ASSUME Init
  PROVE  IInv
<1>1. DOMAIN reqs = {} /\ reqs = [n \in DOMAIN reqs |-> reqs[n]] BY DEF Init
<1>2. Sound(reqs) /\ Awaited(reqs) BY <1>1 DEF Sound, Awaited
<1>3. outcome = NoOutcome BY DEF Init
<1>4. Told(outcome) BY <1>3 DEF Told, NoOutcome, Outcomes, Apis, Errors
<1>. QED BY <1>2, <1>4 DEF IInv, Init

\* A step keeps the inductive invariant and lets requests go as SentFresh says.
Goes ==
  \A n \in DOMAIN reqs' :
    ~Bypasses(reqs'[n].with) /\ reqs'[n].phase = "sent" /\ (n \in DOMAIN reqs => Waits(reqs[n]))
      => (reqs'[n].auth = "token" <=> session' = "fresh")

StepOK == IInv' /\ Goes

\* The waiting requests and the session stay as they are.
LEMMA SameRequests ==
  ASSUME IInv, UNCHANGED reqs, session' \in {"none", "stale", "fresh"}, Told(outcome')
  PROVE  StepOK
<1>1. IInv' BY DEF IInv
<1>2. Goes BY DEF Goes, IInv, Sound, Waits
<1>. QED BY <1>1, <1>2 DEF StepOK

\* A request that bypasses the interceptor does not wait.
LEMMA CallBypassingStep ==
  ASSUME IInv, NEW o \in Options, NEW n \in Free, CallBypassing(o, n)
  PROVE  StepOK
<1> DEFINE new == NewRequest(o.api, o.with)
           q == Entered(new)
<1>1. /\ n \in Numbers /\ n \notin DOMAIN reqs /\ Sound(reqs) /\ Awaited(reqs) BY DEF Free, IInv
<1>2. new \in Requests /\ new.api = o.api /\ new.with = o.with /\ o.api # "refresh"
  BY OptionsType, NewRequestType
<1>3. q = Leave(new) BY <1>2 DEF CallBypassing, Entered
<1>4. reqs' = Added(reqs, n, q) /\ UNCHANGED <<session, outcome>> BY DEF CallBypassing
<1> HIDE DEF new, q
<1>5. q \in Requests /\ q.with = o.with /\ q.phase = "sent" BY <1>2, <1>3, LeaveKeeps
<1>6. Fair(q) BY <1>5 DEF Fair, Waits
<1>7. /\ Sound(reqs') /\ DOMAIN reqs' = DOMAIN reqs \cup {n} /\ reqs'[n] = q
      /\ \A m \in DOMAIN reqs : m # n => reqs'[m] = reqs[m]
  BY <1>1, <1>4, <1>5, <1>6, AddedSound
<1>8. \A m \in DOMAIN reqs : m \in DOMAIN reqs' /\ reqs'[m] = reqs[m] BY <1>1, <1>7
<1>9. Awaited(reqs')
  <2>1. ~Waits(reqs'[n]) BY <1>5, <1>7 DEF Waits
  <2>. QED BY <1>1, <1>7, <1>8, <2>1 DEF Awaited
<1>10. IInv' BY <1>4, <1>7, <1>9 DEF IInv
<1>11. Goes
  <2>1. Bypasses(reqs'[n].with) BY <1>5, <1>7 DEF CallBypassing
  <2>. QED BY <1>7, <1>8, <2>1 DEF Goes, Waits
<1>. QED BY <1>10, <1>11 DEF StepOK

\* A flush of all, the new ones included, lets them go as SentFresh says.
LEMMA FlushStep ==
  ASSUME IInv, NEW rs, Sound(rs), reqs' = Flush(rs, session' = "fresh"),
         session' \in {"none", "stale", "fresh"}, Told(outcome'),
         \A n \in DOMAIN rs : (n \in DOMAIN reqs /\ rs[n] = reqs[n]) \/ Waits(rs[n])
  PROVE  StepOK
<1> DEFINE fresh == (session' = "fresh")
<1>1. fresh \in BOOLEAN /\ reqs' = Flush(rs, fresh) OBVIOUS
<1> HIDE DEF fresh
<1>2. Sound(reqs') /\ Awaited(reqs') BY <1>1, FlushSound
<1>3. IInv' BY <1>2 DEF IInv
<1>4. DOMAIN reqs' = DOMAIN rs BY <1>1 DEF Flush
<1>5. ASSUME NEW n \in DOMAIN reqs', reqs'[n].phase = "sent", n \in DOMAIN reqs => Waits(reqs[n])
      PROVE  reqs'[n].auth = "token" <=> session' = "fresh"
  <2>1. Waits(rs[n]) BY <1>4, <1>5
  <2>2. reqs'[n].auth = "token" <=> fresh BY <1>1, <1>4, <2>1, FlushOne
  <2>. QED BY <2>2 DEF fresh
<1>6. Goes BY <1>5 DEF Goes
<1>. QED BY <1>3, <1>6 DEF StepOK

\* JwtInterceptor flushes everybody, or makes the request wait for a refresh.
LEMMA CallInterceptedStep ==
  ASSUME IInv, NEW o \in Options, NEW n \in Free, NEW r \in Free, CallIntercepted(o, n, r)
  PROVE  StepOK
<1> DEFINE new == NewRequest(o.api, o.with)
           all == Added(reqs, n, new)
           refresh == Entered(NewRequest("refresh", RefreshWith))
<1>1. /\ n \in Numbers /\ n \notin DOMAIN reqs /\ r \in Numbers /\ r \notin DOMAIN reqs
      /\ Sound(reqs) /\ Awaited(reqs) /\ session \in {"none", "stale", "fresh"} /\ Told(outcome)
  BY DEF Free, IInv
<1>2. new \in Requests /\ Waits(new) /\ new.auth # "token" /\ new.api # "refresh"
  BY OptionsType, NewRequestType
<1>3. /\ n # r \/ session # "stale" \/ Refreshing(reqs)
      /\ session # "stale" => reqs' = Flush(all, session = "fresh")
      /\ session = "stale" => reqs' = IF Refreshing(all) THEN all ELSE Added(all, r, refresh)
      /\ UNCHANGED <<session, outcome>>
  BY DEF CallIntercepted
<1>4. refresh \in Requests /\ Fair(refresh) /\ refresh.api = "refresh" /\ refresh.phase = "sent"
      /\ Bypasses(refresh.with)
  BY RefreshEntered, HttpAssumption DEF Bypasses
<1>11. all = Added(reqs, n, new) OBVIOUS
<1> HIDE DEF new, refresh, all
<1>5. Fair(new) BY <1>2 DEF Fair
<1>6. /\ Sound(all) /\ DOMAIN all = DOMAIN reqs \cup {n} /\ all[n] = new
      /\ \A m \in DOMAIN reqs : m # n => all[m] = reqs[m]
  <2>1. n \in Numbers /\ Sound(reqs) /\ new \in Requests /\ Fair(new) BY <1>1, <1>2, <1>5
  <2>2. /\ Sound(Added(reqs, n, new)) /\ DOMAIN Added(reqs, n, new) = DOMAIN reqs \cup {n}
        /\ Added(reqs, n, new)[n] = new
        /\ \A m \in DOMAIN reqs : m # n => Added(reqs, n, new)[m] = reqs[m]
    BY <2>1, AddedSound
  <2>. QED BY <1>11, <2>2
<1>7. \A m \in DOMAIN all : (m \in DOMAIN reqs /\ all[m] = reqs[m]) \/ Waits(all[m])
  BY <1>1, <1>2, <1>6
<1>8. CASE session # "stale"
  <2>1. reqs' = Flush(all, session' = "fresh") /\ session' \in {"none", "stale", "fresh"}
        /\ Told(outcome')
    BY <1>1, <1>3, <1>8
  <2>. QED BY <1>6, <1>7, <2>1, FlushStep
<1>9. CASE session = "stale" /\ Refreshing(all)
  <2>1. reqs' = all BY <1>3, <1>9
  <2>2. Awaited(all)
    <3>1. PICK m \in DOMAIN all : all[m].api = "refresh" BY <1>9 DEF Refreshing
    <3>2. all[m] \in Requests /\ ~Waits(all[m]) BY <1>6, <3>1 DEF Sound, Fair
    <3>3. all[m].phase = "sent" BY <3>2 DEF Requests, Waits
    <3>. QED BY <3>1, <3>3 DEF Awaited
  <2>3. IInv' BY <1>1, <1>3, <1>6, <2>1, <2>2 DEF IInv
  <2>4. Goes BY <1>7, <2>1 DEF Goes, Waits
  <2>. QED BY <2>3, <2>4 DEF StepOK
<1>10. CASE session = "stale" /\ ~Refreshing(all)
  <2>1. reqs' = Added(all, r, refresh) BY <1>3, <1>10
  <2>2. r # n
    <3>1. ~Refreshing(reqs) BY <1>1, <1>6, <1>10 DEF Refreshing
    <3>. QED BY <1>3, <1>10, <3>1
  <2>3. /\ Sound(reqs') /\ DOMAIN reqs' = DOMAIN all \cup {r} /\ reqs'[r] = refresh
        /\ \A m \in DOMAIN all : m # r => reqs'[m] = all[m]
    BY <1>1, <1>4, <1>6, <2>1, AddedSound
  <2>4. Awaited(reqs') BY <1>4, <2>3 DEF Awaited
  <2>5. IInv' BY <1>1, <1>3, <2>3, <2>4 DEF IInv
  <2>6. Goes
    <3>1. \A m \in DOMAIN reqs' : m = r \/ (m \in DOMAIN all /\ reqs'[m] = all[m]) BY <2>3
    <3>. QED BY <1>4, <1>7, <2>3, <3>1 DEF Goes, Waits
  <2>. QED BY <2>5, <2>6 DEF StepOK
<1>. QED BY <1>8, <1>9, <1>10

\* JwtInterceptor throws.
LEMMA CallWithProgressStep ==
  ASSUME IInv, NEW o \in Options, NEW handled \in BOOLEAN, CallWithProgress(o, handled)
  PROVE  StepOK
<1>1. UNCHANGED <<session, reqs>> /\ outcome' = Ended(o.api, FALSE, "DropsReportProgress", handled)
  BY DEF CallWithProgress
<1>2. Told(outcome') BY <1>1, OptionsType, EndedTellsAll DEF Errors
<1>. QED BY <1>1, <1>2, SameRequests DEF IInv

\* A request of the application ends: it is not the refresh that others wait for.
LEMMA AnsweredStep ==
  ASSUME IInv, NEW n \in DOMAIN reqs, Answered(n)
  PROVE  StepOK
<1>1. Sound(reqs) /\ Awaited(reqs) /\ reqs[n] \in Requests BY DEF IInv, Sound
<1>2. reqs[n].api # "refresh" /\ reqs' = Removed(reqs, n) /\ UNCHANGED session BY DEF Answered
<1>3. PICK reply \in Replies, handled \in BOOLEAN :
        outcome' = Ended(reqs[n].api, Good(reqs[n].api, reply), Handle(reqs[n].api, reply), handled)
  BY DEF Answered
<1>4. reqs[n].api \in Apis BY <1>1 DEF Requests
<1>5. Told(outcome') BY <1>3, <1>4, EndedTold
<1>6. /\ Sound(reqs') /\ DOMAIN reqs' = DOMAIN reqs \ {n}
      /\ \A m \in DOMAIN reqs \ {n} : reqs'[m] = reqs[m]
  BY <1>1, <1>2, RemovedSound
<1>7. Awaited(reqs')
  <2>1. SUFFICES ASSUME NEW m \in DOMAIN reqs', Waits(reqs'[m])
                 PROVE  \E k \in DOMAIN reqs' : reqs'[k].api = "refresh" /\ reqs'[k].phase = "sent"
    BY DEF Awaited
  <2>2. PICK k \in DOMAIN reqs : reqs[k].api = "refresh" /\ reqs[k].phase = "sent"
    BY <1>1, <1>6, <2>1 DEF Awaited
  <2>3. k \in DOMAIN reqs' /\ reqs'[k] = reqs[k] BY <1>2, <1>6, <2>2
  <2>. QED BY <2>2, <2>3
<1>8. IInv' BY <1>2, <1>5, <1>6, <1>7 DEF IInv
<1>9. Goes BY <1>6 DEF Goes, Waits
<1>. QED BY <1>8, <1>9 DEF StepOK

\* A refresh ends: everybody who waits goes, with the tokens it has brought or without.
LEMMA RefreshAnsweredStep ==
  ASSUME IInv, NEW n \in DOMAIN reqs, RefreshAnswered(n)
  PROVE  StepOK
<1>1. PICK reply \in Replies :
        /\ session' = IF BringsTokens(reply) THEN "fresh" ELSE "none"
        /\ outcome' = Ended("refresh", Good("refresh", reply), Handle("refresh", reply), TRUE)
        /\ reqs' = Flush(Removed(reqs, n), BringsTokens(reply))
  BY DEF RefreshAnswered
<1>2. Told(outcome') BY <1>1, EndedTold DEF Apis
<1>3. /\ Sound(Removed(reqs, n))
      /\ \A m \in DOMAIN Removed(reqs, n) : m \in DOMAIN reqs /\ Removed(reqs, n)[m] = reqs[m]
  BY RemovedSound DEF IInv
<1>4. BringsTokens(reply) \in BOOLEAN BY DEF BringsTokens
<1>5. BringsTokens(reply) = (session' = "fresh") /\ session' \in {"none", "stale", "fresh"}
  BY <1>1, <1>4
<1>6. reqs' = Flush(Removed(reqs, n), session' = "fresh") BY <1>1, <1>5
<1>. QED BY <1>2, <1>3, <1>5, <1>6, FlushStep

LEMMA NextStep ==
  ASSUME IInv, [Next]_vars
  PROVE  StepOK
<1>1. ASSUME NEW o \in Options, Call(o) PROVE StepOK
  <2>1. PICK n \in Free, r \in Free :
          \/ CallBypassing(o, n) \/ CallIntercepted(o, n, r)
          \/ \E handled \in BOOLEAN : CallWithProgress(o, handled)
    BY <1>1 DEF Call
  <2>. QED BY <2>1, CallBypassingStep, CallInterceptedStep, CallWithProgressStep
<1>2. ASSUME NEW n \in Numbers, Ends(n) PROVE StepOK
  BY <1>2, AnsweredStep, RefreshAnsweredStep DEF Ends
<1>3. CASE SessionChanges
  <2>1. session' \in {"none", "stale", "fresh"} /\ UNCHANGED <<reqs, outcome>>
    BY <1>3 DEF SessionChanges
  <2>. QED BY <2>1, SameRequests DEF IInv
<1>4. CASE UNCHANGED vars BY <1>4, SameRequests DEF vars, IInv
<1>. QED BY <1>1, <1>2, <1>3, <1>4 DEF Next

\* The inductive invariant.
THEOREM Invariance == Spec => []IInv
<1>1. IInv /\ [Next]_vars => IInv' BY NextStep DEF StepOK
<1>. QED BY <1>1, InitIInv, PTL DEF Spec

\* The state has the types that HttpRequests says it has.
THEOREM TypeCorrect == Spec => []TypeOK
<1>1. IInv => TypeOK
  <2>1. SUFFICES ASSUME IInv PROVE TypeOK OBVIOUS
  <2>2. reqs \in [DOMAIN reqs -> Requests] BY <2>1 DEF IInv, Sound
  <2>. QED BY <2>1, <2>2 DEF IInv, Sound, Told, TypeOK
<1>. QED BY <1>1, Invariance, PTL

\* withFreshJwt() seen by the requests: who waits has a refresh on the wire.
THEOREM WaitingHasRefreshAlways == Spec => []WaitingHasRefresh
<1>1. IInv => WaitingHasRefresh BY DEF IInv, Awaited, WaitingHasRefresh
<1>. QED BY <1>1, Invariance, PTL

\* Response handlers: a value stands for a success.
THEOREM ValueMeansSuccessAlways == Spec => []ValueMeansSuccess
<1>1. IInv => ValueMeansSuccess BY DEF IInv, Told, ValueMeansSuccess
<1>. QED BY <1>1, Invariance, PTL

\* ErrorsService.toUserError: the request functions throw texts.
THEOREM ErrorsAreTextsAlways == Spec => []ErrorsAreTexts
<1>1. IInv => ErrorsAreTexts BY DEF IInv, Told, ErrorsAreTexts
<1>. QED BY <1>1, Invariance, PTL

\* ErrorsService.reportError and ErrorsHandler: the reporter is called for failures only, and
\* for all of them that are not to be ignored.
THEOREM FailuresAreReportedAlways == Spec => []FailuresAreReported
<1>1. IInv => FailuresAreReported BY DEF IInv, Told, FailuresAreReported
<1>. QED BY <1>1, Invariance, PTL

\* JwtInterceptor: requests go with the tokens that are fresh, or without any.
THEOREM SentFreshAlways == Spec => SentFresh
<1>1. IInv /\ [Next]_vars => [Goes]_vars BY NextStep DEF StepOK
<1>. QED BY <1>1, Invariance, PTL DEF Spec, SentFresh, Goes
===============================================================================
