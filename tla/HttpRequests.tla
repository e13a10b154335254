----------------------------- MODULE HttpRequests -----------------------------
(***************************************************************************)
(* HTTP requests from the call to the outcome: RequestService, or a plain  *)
(* HttpClient, above JwtInterceptor and VersionInterceptor, and the        *)
(* refresh of the tokens, which JwtApi makes as a request of the same      *)
(* kind; then the response handlers, ErrorsService and ErrorsHandler.      *)
(*                                                                         *)
(* The session is what JwtService holds, seen from here: no usable refresh *)
(* token, an access token that is missing or expired, or a fresh pair.     *)
(***************************************************************************)
EXTENDS Integers, Sequences, FiniteSets

CONSTANTS
  Options,       \* the ways in which the application makes requests
  RefreshWith,   \* the options with which JwtApi.refresh() makes its request
  Replies,       \* what the backend and the network answer
  Config,        \* ProtoHttpConfig and ErrorsConfig, as one record
  MaxRequests    \* bound: requests in flight, those of refreshes included

Flags == {"disableAuth", "disableVersion", "authHeader", "versionHeader", "excludedUrl"}

\* HttpClient may be asked for progress events, RequestService never asks.
AllOptions ==
  [api: {"request", "requestFile"}, with: SUBSET Flags]
    \cup [api: {"http"}, with: SUBSET (Flags \cup {"reportProgress"})]

\* What a response carries: of "error" and "blank", messages that say what went wrong, the
\* second has no text.  A request that gets no response ends as a failed one without body.
AllReplies ==
  [ok: BOOLEAN, type: {"protobuf", "other", "none"}, body: {"null", "message", "error", "blank"}]

\* What is thrown on the way of a response, as ErrorsService tells it apart.
Errors ==
  {"message", "error", "blank", "Error", "HttpErrorResponse", "string", "DropsReportProgress"}

ProtoHttpConfigs == [detectsErrors: BOOLEAN, versioned: BOOLEAN]

\* texts: whether errorsText has the locale of the application, and "no connection" in it.
ErrorsConfigs ==
  [production: BOOLEAN, doNotSend: SUBSET Errors, texts: SUBSET {"locale", "no connection"}]

\* The request of a refresh must bypass JwtInterceptor, which else would call itself.
ASSUME HttpAssumption ==
  /\ Options \subseteq AllOptions /\ Replies \subseteq AllReplies
  /\ RefreshWith \subseteq Flags
  /\ RefreshWith \cap {"disableAuth", "excludedUrl", "authHeader"} # {}
  /\ Config.http \in ProtoHttpConfigs /\ Config.errors \in ErrorsConfigs
  /\ MaxRequests \in Nat

VARIABLES
  session,   \* "none", "stale" or "fresh"
  reqs,      \* the requests in flight, by number
  outcome    \* history: what became of the request that ended last

vars == <<session, reqs, outcome>>

Numbers == 1..MaxRequests

Apis == {"request", "requestFile", "http", "refresh"}

Requests == [api: Apis, with: SUBSET (Flags \cup {"reportProgress"}),
             phase: {"waiting", "sent"},
             auth: {"none", "own", "token"}, version: {"none", "own", "set"}]

\* good: the backend has answered with what was asked for.  given: what the caller got.
\* reports: how often the reporter was called for it.
Outcomes == [api: Apis, good: BOOLEAN, thrown: Errors \cup {"nothing"},
             given: {"value", "text", "TypeError", "undefined", "raw"}, reports: 0..2]

NoOutcome == [api |-> "http", good |-> TRUE, thrown |-> "nothing", given |-> "value", reports |-> 0]

Init ==
  session \in {"none", "stale", "fresh"} /\ reqs = [n \in {} |-> NoOutcome] /\ outcome = NoOutcome
-------------------------------------------------------------------------------
\* RequestService, down to HttpClient.
NewRequest(api, with) ==
  [api |-> api, with |-> with, phase |-> "waiting",
   auth |-> IF "authHeader" \in with THEN "own" ELSE "none",
   version |-> IF "versionHeader" \in with THEN "own" ELSE "none"]

\* Mutant of Bypasses: only excluded URLs pass by the interceptor.
BypassesByUrl(with) == "excludedUrl" \in with

\* JwtInterceptor lets the request pass as it is: disableAuth, an excluded URL, or a header.
Bypasses(with) == with \cap {"disableAuth", "excludedUrl", "authHeader"} # {}

\* VersionInterceptor, and the request leaves the browser.
Leave(q) ==
  [q EXCEPT !.phase = "sent",
            !.version = IF "disableVersion" \in q.with \/ ~Config.http.versioned \/ @ = "own"
                        THEN @ ELSE "set"]

\* addAccessToken.
AddAccessToken(q) == [q EXCEPT !.auth = "token"]

Waits(q) == q.phase = "waiting"

\* withFreshJwt() calls back everybody who waits, with the tokens or without.
Flush(rs, fresh) ==
  [n \in DOMAIN rs |-> IF ~Waits(rs[n]) THEN rs[n]
                       ELSE Leave(IF fresh THEN AddAccessToken(rs[n]) ELSE rs[n])]

Refreshing(rs) == \E n \in DOMAIN rs : rs[n].api = "refresh"

\* A request enters at the top of the stack; that of a refresh bypasses JwtInterceptor.
Entered(q) == IF Bypasses(q.with) THEN Leave(q) ELSE q
-------------------------------------------------------------------------------
\* The response handlers: what comes out is a value, or the error that is thrown.

\* handleArrayBufferBody, and handleBlobBody.
HandleBody(body) == IF Config.http.detectsErrors /\ body # "message" THEN body ELSE "nothing"

ResponseHandler(reply) ==
  IF reply.type = "protobuf" /\ reply.body # "null" THEN HandleBody(reply.body) ELSE "Error"

\* Mutant of HandleResponse: every failed response goes to the caller decoded as a message.
HandleAnyResponse(reply) ==
  IF reply.ok \/ reply.body # "null" THEN HandleBody(reply.body) ELSE "HttpErrorResponse"

\* createResponseHandlerPipe: a failed response with the protobuf header is decoded like one
\* that succeeded, and is a value when the configuration cannot tell errors.
HandleResponse(reply) ==
  IF reply.ok \/ reply.type = "protobuf" THEN ResponseHandler(reply) ELSE "HttpErrorResponse"

\* requestFile(): a protobuf response is an error, whatever it says.
HandleFile(reply) ==
  CASE ~reply.ok -> "HttpErrorResponse"
    [] reply.ok /\ (reply.body = "null" \/ reply.type = "none") -> "string"
    [] reply.ok /\ reply.body # "null" /\ reply.type = "protobuf" -> reply.body
    [] reply.ok /\ reply.body # "null" /\ reply.type = "other" -> "nothing"

Handle(api, reply) ==
  CASE api \in {"request", "refresh"} -> HandleResponse(reply)
    [] api = "requestFile" -> HandleFile(reply)
    [] api = "http" -> IF reply.ok THEN "nothing" ELSE "HttpErrorResponse"

\* sendError: the calls of the reporter.
SendError == IF Config.errors.production THEN 1 ELSE 0

\* Mutant of ReportError: what is not to be sent is all that is sent.
ReportIgnored(error) == IF error \in Config.errors.doNotSend THEN SendError ELSE 0

\* Mutant of ReportError: an error of the backend is also handled as an unknown one.
ReportTwice(error) ==
  IF error \in Config.errors.doNotSend THEN 0
  ELSE SendError + IF error \in {"error", "blank"} THEN SendError ELSE 0

\* reportError.
ReportError(error) == IF error \in Config.errors.doNotSend THEN 0 ELSE SendError

\* toUserError: the text of the locale, or else of the error, but an error without text is
\* always looked up, and nothing can be looked up without the locale.
ToUserError(error) ==
  CASE "locale" \notin Config.errors.texts -> "TypeError"
    [] "locale" \in Config.errors.texts ->
         IF error = "blank" /\ "no connection" \notin Config.errors.texts
         THEN "undefined" ELSE "text"

\* Mutant of Ended: requestFile() has no toUserError.
EndedRaw(api, good, error, handled) ==
  [api |-> api, good |-> good, thrown |-> error,
   given |-> IF error = "nothing" THEN "value"
             ELSE IF api \in {"http", "requestFile"} THEN "raw" ELSE ToUserError(error),
   reports |-> IF error = "nothing" THEN 0
               ELSE (IF api = "http" THEN 0 ELSE ReportError(error))
                      + (IF handled THEN 0 ELSE SendError)]

\* The end of the pipe of request() and requestFile(): reportError, then toUserError.  An
\* error that the caller does not handle reaches ErrorsHandler, which ignores none.
Ended(api, good, error, handled) ==
  [api |-> api, good |-> good, thrown |-> error,
   given |-> IF error = "nothing" THEN "value"
             ELSE IF api = "http" THEN "raw" ELSE ToUserError(error),
   reports |-> IF error = "nothing" THEN 0
               ELSE (IF api = "http" THEN 0 ELSE ReportError(error))
                      + (IF handled THEN 0 ELSE SendError)]

\* Whether the backend has answered with what the caller asked for.
Good(api, reply) ==
  reply.ok /\ CASE api \in {"request", "refresh"} -> reply.type = "protobuf" /\ reply.body = "message"
                [] api = "requestFile" -> reply.type = "other" /\ reply.body # "null"
                [] api = "http" -> TRUE
-------------------------------------------------------------------------------
Added(rs, n, q) == [m \in DOMAIN rs \cup {n} |-> IF m = n THEN q ELSE rs[m]]

Removed(rs, n) == [m \in DOMAIN rs \ {n} |-> rs[m]]

Free == Numbers \ DOMAIN reqs

\* The application makes a request that bypasses the interceptor.
CallBypassing(o, n) ==
  /\ Bypasses(o.with)
  /\ reqs' = Added(reqs, n, Entered(NewRequest(o.api, o.with)))
  /\ UNCHANGED <<session, outcome>>

\* JwtInterceptor throws for a request with progress events.
CallWithProgress(o, handled) ==
  /\ ~Bypasses(o.with) /\ "reportProgress" \in o.with
  /\ outcome' = Ended(o.api, FALSE, "DropsReportProgress", handled)
  /\ UNCHANGED <<session, reqs>>

\* JwtInterceptor asks freshJwt(): everybody who waits is called back at once, or a refresh
\* is requested unless one is in flight.
CallIntercepted(o, n, r) ==
  /\ ~Bypasses(o.with) /\ "reportProgress" \notin o.with
  /\ n # r \/ session # "stale" \/ Refreshing(reqs)
  /\ LET all == Added(reqs, n, NewRequest(o.api, o.with))
         refresh == Entered(NewRequest("refresh", RefreshWith))
     IN  reqs' = CASE session # "stale" -> Flush(all, session = "fresh")
                   [] session = "stale" ->
                        IF Refreshing(all) THEN all ELSE Added(all, r, refresh)
  /\ UNCHANGED <<session, outcome>>

\* The least number that is free is for the request, the greatest for a refresh.
Call(o) ==
  \E n, r \in Free :
    /\ \A m \in Free : n <= m /\ m <= r
    /\ \/ CallBypassing(o, n) \/ CallIntercepted(o, n, r)
       \/ \E handled \in BOOLEAN : CallWithProgress(o, handled)

\* A request of the application ends.
Answered(n) ==
  /\ reqs[n].phase = "sent" /\ reqs[n].api # "refresh"
  /\ reqs' = Removed(reqs, n)
  /\ UNCHANGED session
  /\ \E reply \in Replies, handled \in BOOLEAN :
       outcome' = LET api == reqs[n].api
                  IN  Ended(api, Good(api, reply), Handle(api, reply), handled)

\* Whether the refresh has brought tokens: a decoded value without them is stored and handed
\* out like any other, but nobody finds a token in it, and the next call no refresh token.
BringsTokens(reply) == Handle("refresh", reply) = "nothing" /\ reply.body = "message"

\* Mutant of RefreshAnswered: the error branch of the refresh flushes nobody.
RefreshAnsweredQuietly(n) ==
  /\ reqs[n].phase = "sent" /\ reqs[n].api = "refresh"
  /\ \E reply \in Replies :
       LET tokens == BringsTokens(reply)
       IN  /\ session' = IF tokens THEN "fresh" ELSE "none"
           /\ outcome' = Ended("refresh", Good("refresh", reply), Handle("refresh", reply), TRUE)
           /\ reqs' = IF tokens THEN Flush(Removed(reqs, n), TRUE) ELSE Removed(reqs, n)

\* Mutant of RefreshAnswered: the flush comes before the tokens are stored or deleted.
RefreshAnsweredEarly(n) ==
  /\ reqs[n].phase = "sent" /\ reqs[n].api = "refresh"
  /\ \E reply \in Replies :
       LET tokens == BringsTokens(reply)
       IN  /\ session' = IF tokens THEN "fresh" ELSE "none"
           /\ outcome' = Ended("refresh", Good("refresh", reply), Handle("refresh", reply), TRUE)
           /\ reqs' = Flush(Removed(reqs, n), session = "fresh")

\* The refresh ends: what it has brought is stored, or the tokens there are deleted, and
\* everybody who waits is called back.
RefreshAnswered(n) ==
  /\ reqs[n].phase = "sent" /\ reqs[n].api = "refresh"
  /\ \E reply \in Replies :
       LET tokens == BringsTokens(reply)
       IN  /\ session' = IF tokens THEN "fresh" ELSE "none"
           /\ outcome' = Ended("refresh", Good("refresh", reply), Handle("refresh", reply), TRUE)
           /\ reqs' = Flush(Removed(reqs, n), tokens)

\* Time, and what the rest of the application does to the tokens.
SessionChanges ==
  /\ \/ session = "fresh" /\ session' = "stale"
     \/ session' = "fresh"
     \/ session' = "none"
  /\ UNCHANGED <<reqs, outcome>>

\* The browser ends request n, with a response or without.
Ends(n) == n \in DOMAIN reqs /\ (Answered(n) \/ RefreshAnswered(n))

Next ==
  \/ \E o \in Options : Call(o)
  \/ \E n \in Numbers : Ends(n)
  \/ SessionChanges

Spec == Init /\ [][Next]_vars

\* The browser ends every request.
FairSpec == Spec /\ \A n \in Numbers : WF_vars(Ends(n))
-------------------------------------------------------------------------------
TypeOK ==
  /\ session \in {"none", "stale", "fresh"}
  /\ DOMAIN reqs \subseteq Numbers /\ reqs \in [DOMAIN reqs -> Requests]
  /\ outcome \in Outcomes

\* Requests that wait for tokens have a refresh to wait for, whose request is on the wire and
\* does not wait for tokens itself, through flushes, logins and logouts.
WaitingHasRefresh ==
  (\E n \in DOMAIN reqs : Waits(reqs[n])) =>
    \E n \in DOMAIN reqs : reqs[n].api = "refresh" /\ reqs[n].phase = "sent"

\* A request that the interceptor lets go leaves with the token exactly if the tokens are
\* fresh after the step, whoever has caused it to leave: never bare with fresh tokens at
\* hand, and never with a token that was refused, deleted or expired.
SentFresh ==
  [][\A n \in DOMAIN reqs' :
       ~Bypasses(reqs'[n].with) /\ reqs'[n].phase = "sent"
           /\ (n \in DOMAIN reqs => Waits(reqs[n]))
         => (reqs'[n].auth = "token" <=> session' = "fresh")]_vars

\* A caller gets a value only for a response that succeeded and carries what was asked for,
\* if the configuration tells errors and the backend sends no other message with a failure.
ValueMeansSuccess ==
  Config.http.detectsErrors
    /\ ~(\E reply \in Replies : ~reply.ok /\ reply.type = "protobuf" /\ reply.body = "message")
  => (outcome.given = "value" => outcome.good)

\* ngx-customapp-errors/src/public-api.ts: errors of the request functions "have a string
\* type and are a human-readable messages", for interceptor, network and backend errors
\* alike, provided that the texts for the locale are there.
ErrorsAreTexts ==
  Config.errors.texts = {"locale", "no connection"} /\ outcome.api # "http"
    => outcome.given \in {"value", "text"}

\* In production an error of a request function is reported, by itself or at the latest by
\* ErrorsHandler, unless it is to be ignored, and a success never is.
FailuresAreReported ==
  /\ outcome.given = "value" => outcome.reports = 0
  /\ Config.errors.production /\ outcome.api # "http" /\ outcome.given # "value"
       /\ outcome.thrown \notin Config.errors.doNotSend
     => outcome.reports > 0

\* Every request ends, those that wait for a refresh included, even when the refresh fails.
EveryRequestEnds == \A n \in Numbers : (n \in DOMAIN reqs) ~> (n \notin DOMAIN reqs)
===============================================================================
