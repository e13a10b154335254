----------------------------- MODULE LoginReports -----------------------------
(***************************************************************************)
(* SocketsEffects with resultLoginAndInitSockets$, which tells the         *)
(* application how a login and the opening of the sockets have ended, as   *)
(* if both were one.  For each login, loginAgain and loginAs that is       *)
(* dispatched, one that exhaustMap drops included, it starts to listen to  *)
(* what ends any of them, and it never stops: each such action makes a     *)
(* report for every login so far.  No effect hears the reports.            *)
(***************************************************************************)
EXTENDS SocketsEffects

VARIABLES
  listening,   \* the kinds of login dispatched so far, whose reports listen for ever
  unreported,  \* history: those of which none has been reported since it was dispatched
  lost,        \* history: an init() has thrown since the last report
  made         \* the reports made in the last step

reportVars == <<listening, unreported, lost, made>>

allVars == <<vars, reportVars>>

Logins == {"login", "loginAgain", "loginAs"}

ReportsInit == Init /\ listening = {} /\ unreported = {} /\ lost = FALSE /\ made = {}

\* What the reports listen for.
Outcomes == {<<op, "errored">> : op \in Logins} \cup {InitSocketsSucceed, InitSocketsErrored}

Heard == queue # <<>> /\ Head(queue) \in Outcomes

\* loginAndInitSockets..., loginAsAndInitSockets..., loginAgainAndInitSockets...: a loginAgain
\* is compared with the type of loginAgainSucceed, and counts as a loginAs.
ReportOf(op) == IF op = "login" THEN "login" ELSE "loginAs"

Reports(ops, how) == {<<ReportOf(op), how>> : op \in ops}

\* A login is dispatched, and its report starts to listen.
ReportsListen(op) ==
  /\ Dispatch(op)
  /\ IF op \in Logins
     THEN listening' = listening \cup {op} /\ unreported' = unreported \cup {op}
     ELSE UNCHANGED <<listening, unreported>>
  /\ made' = {} /\ UNCHANGED lost

\* An outcome makes the reports of all the logins so far.
ReportsMade ==
  /\ Heard /\ (Unheard \/ CloseOnLoginAs)
  /\ made' = Reports(listening, IF Head(queue) = InitSocketsSucceed THEN "succeed" ELSE "errored")
  /\ unreported' = {} /\ lost' = FALSE
  /\ UNCHANGED listening

\* init() throws, and makes no initSocketsErrored.
Throws == \E j \in DOMAIN Links[1] : owner.ctls[owner.dict[Links[1][j]]].state # "closed"

\* An init() that throws is lost for the reports.
ReportsInitCalled ==
  /\ CallInit
  /\ lost' = (lost \/ Throws) /\ made' = {}
  /\ UNCHANGED <<listening, unreported>>

\* The other steps make no report.
Apart2 == made' = {} /\ UNCHANGED <<listening, unreported, lost>>

ReportsEffects ==
  \/ ReportsMade \/ ReportsInitCalled
  \/ /\ ~Heard /\ Apart2
     /\ OpenOnLogin \/ CloseOnLogout \/ CloseOnLoginAs \/ Unheard \/ CallCloseAll \/ ReOpenOnLoginAs

ReportsCloseTimesOut == Apart2 /\ \E w \in owner.closes : CloseTimesOut(w)

ReportsNext ==
  \/ ReportsEffects \/ ReportsCloseTimesOut
  \/ \E op \in Ops : ReportsListen(op)
  \/ /\ Apart2
     /\ \/ \E op \in asked, ok \in BOOLEAN : Answered(op, ok)
        \/ \E c \in DOMAIN owner.ctls, k \in 1..MaxChains : OfChain(c, k)
        \/ \E c \in DOMAIN owner.ctls :
             \/ Closes(c)
             \/ \E errored \in BOOLEAN : Lost(c, errored)
             \/ \E should \in BOOLEAN : TimerFires(c, should)
        \/ \E i \in owner.inits, ok \in BOOLEAN : LinkReady(i, ok)

ReportsSpec == ReportsInit /\ [][ReportsNext]_allVars

\* As FairSpec of SocketsEffects.
FairReportsSpec ==
  ReportsSpec /\ WF_allVars(ReportsEffects) /\ WF_allVars(ReportsCloseTimesOut)
-------------------------------------------------------------------------------
ReportsTypeOK ==
  /\ TypeOK
  /\ unreported \subseteq listening /\ listening \subseteq Logins
  /\ lost \in BOOLEAN /\ made \subseteq Logins \X {"succeed", "errored"}

\* No login is forgotten: one that has had no report yet has its request in flight, or there
\* is what can dispatch an outcome for it, an init() that is heard or a closing of the
\* sockets after which they are opened again; or an init() has thrown meanwhile, of which
\* the application is never told.  Such an init() may wait for ever: that a report comes in
\* the end is not claimed.
NoLoginIsForgotten ==
  queue = <<>> /\ unreported # {} /\ ~lost =>
    \/ unreported \cap asked # {}
    \/ \E i \in owner.inits : i.heard
    \/ owner.closes # {} /\ reopeners > 0

===============================================================================
