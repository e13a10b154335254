----------------------------- MODULE JwtGuard_proofs -----------------------------
(***************************************************************************)
(* Proofs about JwtGuard, for every configuration and any depth of          *)
(* loginAs(): types, the *InProcess flags, and that the guard always has   *)
(* something to hear.                                                      *)
(*                                                                         *)
(* The inductive invariant IInv also looks into the queue: it holds one of *)
(* a few sequences of actions (Shapes), a flag is set while the request or *)
(* the action that ends it is there (Flagged), and a guard that listens    *)
(* has its answer in the queue at the latest (Answerable).                 *)
(***************************************************************************)
EXTENDS JwtGuard, SequenceTheorems, TLAPS

\* The actions in a queue.
In(q) == {q[i] : i \in DOMAIN q}

Done(q, op) == <<op, "succeed">> \in In(q) \/ <<op, "errored">> \in In(q)

Ended(q) == {op \in Ops : Done(q, op)}

AppSays(q) == <<"app", "ready">> \in In(q) \/ <<"app", "notReady">> \in In(q)

Singles ==
  Ops \X {"start", "succeed", "errored"} \cup {"setUser"} \X {"user", "nobody"}
    \cup {"app"} \X {"ready", "notReady"} \cup {<<"unstash", "user">>}

Doubles ==
  {<<<<"loginAs", "errored">>, <<"logout", "succeed">>>>, <<<<"stash", "user">>, SetUser(TRUE)>>,
   <<SetUser(TRUE), <<"unstash", "user">>>>, <<SetUser(FALSE), <<"unstash", "user">>>>}

Shapes == {<<>>} \cup {<<a>> : a \in Singles} \cup Doubles

Guards == {"guard", "gone"}

Waiters == Guards \cup {"loginAs", "logout"}

Typed ==
  /\ config \in Configs /\ tells \in Tells
  /\ session \in {"none", "stale", "fresh"} /\ under \in 0..MaxDepth
  /\ refreshing \in BOOLEAN /\ waiting \subseteq Waiters
  /\ busy \subseteq Ops /\ flags \subseteq Ops
  /\ user \in BOOLEAN /\ stash \in 0..MaxDepth
  /\ owes \subseteq {"ready", "notReady"} /\ nav \in Navigations

Flagged == flags = busy \cup Ended(queue) /\ busy \cap Ended(queue) = {}

Awaited ==
  /\ waiting \ Guards \subseteq busy
  /\ waiting # {} => refreshing
  /\ "guard" \in waiting <=> nav.phase = "waiting"

Answerable ==
  nav.phase = "listening" =>
    \/ "loginAgain" \in busy \/ owes # {}
    \/ <<"loginAgain", "start">> \in In(queue)
    \/ Done(queue, "loginAgain") \/ AppSays(queue)

Custom == config # "custom" => owes = {} /\ ~AppSays(queue)

\* There is room for one loginAs() more while one is on its way.
Room ==
  /\ "loginAs" \in busy \/ <<"loginAs", "start">> \in In(queue) =>
       under < MaxDepth /\ stash < MaxDepth
  /\ <<"loginAs", "succeed">> \in In(queue) \/ <<"stash", "user">> \in In(queue) =>
       stash < MaxDepth /\ "loginAs" \notin busy

IInv ==
  /\ Typed /\ queue \in Shapes
  /\ Flagged /\ Awaited /\ Answerable /\ Custom /\ Room /\ DeniedIsTold

\* DeniedIsTold of a navigation.
Told(n) == IF tells THEN n.phase = "denied" => n.told ELSE ~n.told
-------------------------------------------------------------------------------
\* The actions of short queues.
LEMMA Short ==
  ASSUME NEW a, NEW b
  PROVE  /\ In(<<>>) = {} /\ In(<<a>>) = {a} /\ In(<<a, b>>) = {a, b}
         /\ Head(<<a>>) = a /\ Head(<<a, b>>) = a
         /\ Tail(<<a>>) = <<>> /\ Tail(<<a, b>>) = <<b>>
BY DEF In

\* Queues of short queues.
LEMMA Joined ==
  ASSUME NEW a, NEW b
  PROVE  /\ <<>> \o <<>> = <<>> /\ <<>> \o <<a>> = <<a>> /\ <<a>> \o <<>> = <<a>>
         /\ <<a>> \o <<b>> = <<a, b>>
<1>1. <<a>> \in Seq({a, b}) /\ <<b>> \in Seq({a, b}) OBVIOUS
<1>2. <<>> \o <<>> = <<>> BY ConcatEmptySeq
<1>3. <<>> \o <<a>> = <<a>> /\ <<a>> \o <<>> = <<a>> BY <1>1, ConcatEmptySeq
<1>4. <<a>> \o <<b>> = <<a, b>>
  <2> DEFINE c == <<a>> \o <<b>>
             d == <<a, b>>
  <2>1. Len(<<a>>) = 1 /\ Len(<<b>>) = 1 OBVIOUS
  <2>2. c \in Seq({a, b}) /\ Len(c) = 2 /\ c[1] = a /\ c[2] = b
    BY <1>1, <2>1, ConcatProperties
  <2>3. d \in Seq({a, b}) /\ Len(d) = 2 /\ d[1] = a /\ d[2] = b OBVIOUS
  <2> HIDE DEF c, d
  <2>4. c \in [1..2 -> {a, b}] /\ d \in [1..2 -> {a, b}] BY <2>2, <2>3, LenProperties
  <2>5. c = d BY <2>2, <2>3, <2>4
  <2>. QED BY <2>5 DEF c, d
<1>. QED BY <1>2, <1>3, <1>4

\* An action at the head is alone, or the first of a pair.
LEMMA AtShape ==
  ASSUME NEW a, queue \in Shapes, At(a)
  PROVE  \/ queue = <<a>> /\ a \in Singles /\ Tail(queue) = <<>> /\ In(queue) = {a}
         \/ \E b \in Singles :
              /\ queue = <<a, b>> /\ queue \in Doubles /\ Tail(queue) = <<b>>
              /\ In(queue) = {a, b}
<1>1. queue # <<>> /\ Head(queue) = a BY DEF At
<1>2. CASE \E c \in Singles : queue = <<c>>
  <2>1. PICK c \in Singles : queue = <<c>> BY <1>2
  <2>2. c = a BY <1>1, <2>1, Short
  <2>. QED BY <2>1, <2>2, Short
<1>3. CASE queue \in Doubles
  <2>1. PICK c, b : queue = <<c, b>> /\ b \in Singles BY <1>3 DEF Doubles, Singles, Ops, SetUser
  <2>2. c = a BY <1>1, <2>1, Short
  <2>. QED BY <1>3, <2>1, <2>2, Short
<1>. QED BY <1>1, <1>2, <1>3 DEF Shapes

\* A queue that starts a request holds nothing else.
LEMMA AtStart ==
  ASSUME NEW op \in Ops, queue \in Shapes, At(<<op, "start">>)
  PROVE  Tail(queue) = <<>> /\ In(queue) = {<<op, "start">>}
BY AtShape DEF Doubles, Ops, SetUser

\* Behind an outcome there is the outcome of a logout() at most.
LEMMA AtOutcome ==
  ASSUME NEW op \in Ops, NEW how \in {"succeed", "errored"}, queue \in Shapes, At(<<op, how>>)
  PROVE  \/ Tail(queue) = <<>> /\ In(queue) = {<<op, how>>}
         \/ /\ op = "loginAs" /\ how = "errored" /\ Tail(queue) = <<<<"logout", "succeed">>>>
            /\ In(queue) = {<<op, how>>, <<"logout", "succeed">>}
BY AtShape DEF Doubles, Ops, SetUser

\* Behind setUser there is unstashUser at most.
LEMMA AtSetUser ==
  ASSUME NEW u \in BOOLEAN, queue \in Shapes, At(SetUser(u))
  PROVE  \/ Tail(queue) = <<>> /\ In(queue) = {SetUser(u)}
         \/ Tail(queue) = <<<<"unstash", "user">>>> /\ In(queue) = {SetUser(u), <<"unstash", "user">>}
BY AtShape DEF Doubles, SetUser

\* Behind stashUser there is setUser, behind unstashUser nothing.
LEMMA AtStash ==
  ASSUME queue \in Shapes
  PROVE  /\ At(<<"stash", "user">>) =>
              Tail(queue) = <<SetUser(TRUE)>> /\ In(queue) = {<<"stash", "user">>, SetUser(TRUE)}
         /\ At(<<"unstash", "user">>) => Tail(queue) = <<>> /\ In(queue) = {<<"unstash", "user">>}
<1>1. ASSUME At(<<"stash", "user">>)
      PROVE  Tail(queue) = <<SetUser(TRUE)>> /\ In(queue) = {<<"stash", "user">>, SetUser(TRUE)}
  BY <1>1, AtShape DEF Doubles, Singles, Ops, SetUser
<1>2. ASSUME At(<<"unstash", "user">>)
      PROVE  Tail(queue) = <<>> /\ In(queue) = {<<"unstash", "user">>}
  BY <1>2, AtShape DEF Doubles, SetUser
<1>. QED BY <1>1, <1>2

\* Behind an action of the application there is nothing.
LEMMA AtApp ==
  ASSUME NEW answer, queue \in Shapes, At(<<"app", answer>>)
  PROVE  Tail(queue) = <<>> /\ In(queue) = {<<"app", answer>>}
BY AtShape DEF Doubles, SetUser
-------------------------------------------------------------------------------
\* What is in the queue after withFreshJwt() has called everybody back.
LEMMA CalledBackQueue ==
  ASSUME NEW who, NEW fresh \in BOOLEAN, NEW running, CalledBack(who, fresh, <<>>, running)
  PROVE  /\ queue' \in Shapes
         /\ In(queue') =
              IF fresh THEN (IF "guard" \in who THEN {<<"loginAgain", "start">>} ELSE {})
              ELSE (IF "loginAs" \in who THEN {<<"loginAs", "errored">>} ELSE {})
                     \cup (IF "logout" \in who THEN {<<"logout", "succeed">>} ELSE {})
<1> DEFINE start == <<"loginAgain", "start">>
           a == <<"loginAs", "errored">>
           b == <<"logout", "succeed">>
           q1 == IF "loginAs" \in who THEN <<a>> ELSE <<>>
           q2 == IF "logout" \in who THEN <<b>> ELSE <<>>
<1>1. queue' = <<>> \o (IF fresh THEN (IF "guard" \in who THEN <<start>> ELSE <<>>) ELSE q1 \o q2)
  BY DEF CalledBack
<1>2. start \in Singles /\ a \in Singles /\ b \in Singles /\ <<a, b>> \in Doubles
  BY DEF Singles, Doubles, Ops
<1>3. /\ <<>> \in Shapes /\ <<start>> \in Shapes /\ <<a>> \in Shapes /\ <<b>> \in Shapes
      /\ <<a, b>> \in Shapes
  BY <1>2 DEF Shapes
<1> HIDE DEF start, a, b
<1>4. CASE fresh
  <2>1. queue' = IF "guard" \in who THEN <<start>> ELSE <<>> BY <1>1, <1>4, Joined
  <2>. QED BY <1>3, <1>4, <2>1, Short DEF start
<1>5. CASE ~fresh
  <2>1. q1 \o q2 = IF "loginAs" \in who THEN (IF "logout" \in who THEN <<a, b>> ELSE <<a>>)
                   ELSE IF "logout" \in who THEN <<b>> ELSE <<>>
    BY Joined
  <2>2. queue' = <<>> \o (q1 \o q2) BY <1>1, <1>5
  <2> HIDE DEF q1, q2
  <2>3. CASE "loginAs" \in who /\ "logout" \in who
    <3>1. queue' = <<a, b>> BY <2>1, <2>2, <2>3, ConcatEmptySeq
    <3>. QED BY <1>3, <1>5, <2>3, <3>1, Short DEF a, b
  <2>4. CASE "loginAs" \in who /\ "logout" \notin who
    <3>1. queue' = <<a>> BY <2>1, <2>2, <2>4, Joined
    <3>. QED BY <1>3, <1>5, <2>4, <3>1, Short DEF a, b
  <2>5. CASE "loginAs" \notin who /\ "logout" \in who
    <3>1. queue' = <<b>> BY <2>1, <2>2, <2>5, Joined
    <3>. QED BY <1>3, <1>5, <2>5, <3>1, Short DEF a, b
  <2>6. CASE "loginAs" \notin who /\ "logout" \notin who
    <3>1. queue' = <<>> BY <2>1, <2>2, <2>6, Joined
    <3>. QED BY <1>3, <1>5, <2>6, <3>1, Short DEF a, b
  <2>. QED BY <2>3, <2>4, <2>5, <2>6
<1>. QED BY <1>4, <1>5

\* Where nothing but the caller of withFreshJwt() is going on: what the flags of the requests
\* that are running are, and that there is room for their outcomes.
Calm(running) ==
  /\ Typed /\ DeniedIsTold /\ running \subseteq Ops
  /\ nav.phase = "listening" => "loginAgain" \in running \/ owes # {}
  /\ config # "custom" => owes = {}
  /\ "loginAs" \in running => under < MaxDepth /\ stash < MaxDepth

\* Everybody is called back.
LEMMA CalledBackGood ==
  ASSUME NEW who \in SUBSET Waiters, NEW fresh \in BOOLEAN, NEW running,
         Calm(running), who \ Guards \subseteq running,
         IF "guard" \in who THEN nav.phase \in {"waiting", "scheduled"} ELSE nav.phase # "waiting",
         CalledBack(who, fresh, <<>>, running),
         flags' = running, refreshing' \in BOOLEAN, UNCHANGED <<config, tells, user, stash, owes>>
  PROVE  IInv'
<1>1. /\ queue' \in Shapes
      /\ In(queue') =
           IF fresh THEN (IF "guard" \in who THEN {<<"loginAgain", "start">>} ELSE {})
           ELSE (IF "loginAs" \in who THEN {<<"loginAs", "errored">>} ELSE {})
                  \cup (IF "logout" \in who THEN {<<"logout", "succeed">>} ELSE {})
  BY CalledBackQueue
<1>2. /\ waiting' = {} /\ busy' = IF fresh THEN running ELSE running \ who
      /\ session' \in {"none", "stale", "fresh"} /\ under' \in 0..MaxDepth /\ under' <= under
  BY GuardAssumption DEF CalledBack, Popped, Calm, Typed
<1>3. /\ nav' \in Navigations /\ Told(nav')
      /\ nav'.phase # "waiting"
      /\ nav'.phase = "listening" => (fresh /\ "guard" \in who) \/ nav.phase = "listening"
      /\ nav'.phase = "listening" /\ "guard" \in who => fresh
  BY DEF CalledBack, Calm, Typed, Navigations, DeniedIsTold, Told
<1>4. Typed'
  <2>1. config' \in Configs /\ tells' \in Tells /\ user' \in BOOLEAN /\ stash' \in 0..MaxDepth
        /\ owes' \subseteq {"ready", "notReady"}
    BY DEF Calm, Typed
  <2>2. busy' \subseteq Ops /\ flags' \subseteq Ops /\ waiting' \subseteq Waiters
    BY <1>2 DEF Calm
  <2>. QED BY <1>2, <1>3, <2>1, <2>2 DEF Typed
<1>5. Flagged'
  <2>1. \A op \in Ops : Done(queue', op) <=> ~fresh /\ op \in who
    BY <1>1 DEF Done, Ops, Waiters, Guards
  <2>2. Ended(queue') = {op \in Ops : ~fresh /\ op \in who} BY <2>1 DEF Ended
  <2>3. CASE fresh BY <1>2, <2>2, <2>3 DEF Flagged
  <2>4. CASE ~fresh
    <3>1. who \ Guards = Ended(queue') /\ Guards \cap running = {}
      BY <2>2, <2>4 DEF Ops, Calm, Waiters, Guards
    <3>. QED BY <1>2, <2>4, <3>1 DEF Flagged
  <2>. QED BY <2>3, <2>4
<1>6. Awaited' BY <1>2, <1>3 DEF Awaited
<1>7. Answerable'
  <2>1. ASSUME nav'.phase = "listening", "guard" \notin who
        PROVE  "loginAgain" \in busy' \/ owes' # {}
    BY <1>2, <1>3, <2>1 DEF Calm, Waiters, Guards
  <2>2. ASSUME nav'.phase = "listening", "guard" \in who
        PROVE  <<"loginAgain", "start">> \in In(queue')
    BY <1>1, <1>3, <2>2
  <2>. QED BY <2>1, <2>2 DEF Answerable
<1>8. Custom' BY <1>1 DEF Custom, Calm, AppSays
<1>9. Room'
  <2>1. "loginAs" \in busy' => under' < MaxDepth /\ stash' < MaxDepth
    BY <1>2, GuardAssumption DEF Calm, Typed
  <2>2. /\ <<"loginAs", "start">> \notin In(queue') /\ <<"loginAs", "succeed">> \notin In(queue')
        /\ <<"stash", "user">> \notin In(queue')
    BY <1>1
  <2>. QED BY <2>1, <2>2 DEF Room
<1>10. DeniedIsTold' BY <1>3 DEF DeniedIsTold, Told
<1>. QED BY <1>1, <1>4, <1>5, <1>6, <1>7, <1>8, <1>9, <1>10 DEF IInv

\* withFreshJwt(), by whoever calls it.
LEMMA WithFreshJwtGood ==
  ASSUME NEW who \in {"guard", "loginAs", "logout"}, NEW running, Calm(running),
         waiting \subseteq Waiters,
         (waiting \cup {who}) \ Guards \subseteq running,
         "guard" \in waiting <=> nav.phase = "waiting",
         who = "guard" => nav.phase = "scheduled",
         WithFreshJwt(who, waiting, <<>>, running),
         flags' = running, UNCHANGED <<config, tells, user, stash, owes>>
  PROVE  IInv'
<1>1. CASE session # "stale"
  <2>1. CalledBack(waiting \cup {who}, session = "fresh", <<>>, running) /\ UNCHANGED refreshing
    BY <1>1 DEF WithFreshJwt
  <2>2. refreshing' \in BOOLEAN /\ (session = "fresh") \in BOOLEAN BY <2>1 DEF Calm, Typed
  <2>3. /\ waiting \cup {who} \in SUBSET Waiters
        /\ IF "guard" \in waiting \cup {who} THEN nav.phase \in {"waiting", "scheduled"}
           ELSE nav.phase # "waiting"
    BY DEF Waiters, Guards
  <2>. QED BY <2>1, <2>2, <2>3, CalledBackGood
<1>2. CASE session = "stale"
  <2>1. /\ refreshing' = TRUE /\ waiting' = waiting \cup {who} /\ busy' = running /\ queue' = <<>>
        /\ nav' = IF who = "guard" THEN [nav EXCEPT !.phase = "waiting"] ELSE nav
        /\ UNCHANGED <<session, under>>
    BY <1>2 DEF WithFreshJwt
  <2>2. In(queue') = {} BY <2>1, Short
  <2>3. /\ nav' \in Navigations /\ Told(nav')
        /\ nav'.phase = "waiting" <=> "guard" \in waiting'
        /\ nav'.phase = "listening" => nav.phase = "listening"
    BY <2>1 DEF Calm, Typed, Navigations, DeniedIsTold, Told
  <2>4. Typed'
    <3>1. /\ config' \in Configs /\ tells' \in Tells /\ user' \in BOOLEAN /\ stash' \in 0..MaxDepth
          /\ owes' \subseteq {"ready", "notReady"}
          /\ session' \in {"none", "stale", "fresh"} /\ under' \in 0..MaxDepth
      BY <2>1 DEF Calm, Typed
    <3>2. busy' \subseteq Ops /\ flags' \subseteq Ops /\ waiting' \subseteq Waiters
      BY <2>1 DEF Calm, Waiters, Guards
    <3>. QED BY <2>1, <2>3, <3>1, <3>2 DEF Typed
  <2>5. Flagged' BY <2>1, <2>2 DEF Flagged, Ended, Done
  <2>6. Awaited' BY <2>1, <2>3 DEF Awaited
  <2>7. Answerable' BY <2>1, <2>3 DEF Answerable, Calm
  <2>8. Custom' /\ Room' BY <2>1, <2>2 DEF Custom, Room, Calm, AppSays
  <2>9. queue' \in Shapes BY <2>1 DEF Shapes
  <2>10. DeniedIsTold' BY <2>3 DEF DeniedIsTold, Told
  <2>. QED BY <2>4, <2>5, <2>6, <2>7, <2>8, <2>9, <2>10 DEF IInv
<1>. QED BY <1>1, <1>2
-------------------------------------------------------------------------------
\* A queue without outcomes: the flags are those of the requests that are in progress.
LEMMA NothingEnded ==
  ASSUME IInv, \A op \in Ops : ~Done(queue, op)
  PROVE  flags = busy
BY DEF IInv, Flagged, Ended

\* Between the tasks all is calm.
LEMMA CalmWhenEmpty ==
  ASSUME IInv, queue = <<>>
  PROVE  flags = busy /\ Calm(busy)
<1>1. In(queue) = {} BY Short
<1>2. \A op : ~Done(queue, op) BY <1>1 DEF Done
<1>3. flags = busy BY <1>2, NothingEnded
<1>4. nav.phase = "listening" => "loginAgain" \in busy \/ owes # {}
  BY <1>1, <1>2 DEF IInv, Answerable, AppSays
<1>. QED BY <1>3, <1>4 DEF IInv, Calm, Custom, Room, Typed

\* login$ and loginAgain$ keep the inductive invariant.
LEMMA StartLoginStep ==
  ASSUME IInv, NEW op \in Ops, StartLogin(op)
  PROVE  IInv'
<1>1. /\ op \in {"login", "loginAgain"} /\ At(<<op, "start">>)
      /\ flags' = flags \cup {op} /\ busy' = busy \cup {op} /\ queue' = Tail(queue)
      /\ UNCHANGED <<config, tells, session, under, refreshing, waiting, user, stash, owes, nav>>
  BY DEF StartLogin
<1>2. queue' = <<>> /\ In(queue) = {<<op, "start">>} BY <1>1, AtStart DEF IInv
<1>3. In(queue') = {} /\ queue' \in Shapes BY <1>2, Short DEF Shapes
<1>4. \A o \in Ops : ~Done(queue, o) /\ ~Done(queue', o) BY <1>2, <1>3 DEF Done
<1>5. Typed' BY <1>1 DEF Typed, IInv
<1>6. Flagged' BY <1>1, <1>4, NothingEnded DEF Flagged, Ended
<1>7. Awaited' BY <1>1 DEF Awaited, IInv
<1>8. Answerable'
  <2>1. ~AppSays(queue) BY <1>2 DEF AppSays
  <2>2. "loginAgain" \in Ops BY DEF Ops
  <2>. QED BY <1>1, <1>2, <1>4, <2>1, <2>2 DEF Answerable, IInv
<1>9. Custom' /\ Room' BY <1>1, <1>3 DEF Custom, Room, AppSays, IInv
<1>10. DeniedIsTold' BY <1>1 DEF DeniedIsTold, Told, IInv
<1>. QED BY <1>3, <1>5, <1>6, <1>7, <1>8, <1>9, <1>10 DEF IInv

\* loginAs$ and logout$ keep the inductive invariant.
LEMMA StartWithTokensStep ==
  ASSUME IInv, NEW op \in Ops, StartWithTokens(op)
  PROVE  IInv'
<1>1. /\ op \in {"loginAs", "logout"} /\ At(<<op, "start">>) /\ flags' = flags \cup {op}
      /\ UNCHANGED <<config, tells, user, stash, owes>>
  BY DEF StartWithTokens
<1>2. Tail(queue) = <<>> /\ In(queue) = {<<op, "start">>} BY <1>1, AtStart DEF IInv
<1>3. \A o \in Ops : ~Done(queue, o) BY <1>2 DEF Done
<1>4. flags = busy BY <1>3, NothingEnded
<1>5. nav.phase = "listening" => "loginAgain" \in busy \/ owes # {}
  <2>1. "loginAgain" \in Ops /\ ~AppSays(queue) BY <1>2 DEF Ops, AppSays
  <2>. QED BY <1>1, <1>2, <1>3, <2>1 DEF IInv, Answerable
<1>6. CASE op \in busy
  <2>1. queue' = <<>> /\ UNCHANGED <<session, under, refreshing, waiting, busy, nav>>
    BY <1>2, <1>6 DEF StartWithTokens
  <2>2. In(queue') = {} /\ queue' \in Shapes BY <2>1, Short DEF Shapes
  <2>3. flags' = busy' BY <1>1, <1>4, <1>6, <2>1
  <2>4. Typed' BY <1>1, <2>1 DEF Typed, IInv
  <2>5. Flagged' BY <2>2, <2>3 DEF Flagged, Ended, Done
  <2>6. Awaited' BY <2>1 DEF Awaited, IInv
  <2>7. Answerable' BY <1>1, <1>5, <2>1 DEF Answerable
  <2>8. Custom' /\ Room' BY <1>1, <2>1, <2>2 DEF Custom, Room, AppSays, IInv
  <2>9. DeniedIsTold' BY <1>1, <2>1 DEF DeniedIsTold, Told, IInv
  <2>. QED BY <2>2, <2>4, <2>5, <2>6, <2>7, <2>8, <2>9 DEF IInv
<1>7. CASE op \notin busy
  <2> DEFINE running == busy \cup {op}
  <2>1. WithFreshJwt(op, waiting, <<>>, running) BY <1>2, <1>7 DEF StartWithTokens
  <2>2. "loginAs" \in running => under < MaxDepth /\ stash < MaxDepth
    BY <1>1, <1>2 DEF IInv, Room
  <2>3. Calm(running) BY <1>5, <2>2 DEF Calm, IInv, Typed, Custom
  <2>4. /\ waiting \subseteq Waiters /\ op \in {"guard", "loginAs", "logout"}
        /\ (waiting \cup {op}) \ Guards \subseteq running /\ op # "guard"
        /\ ("guard" \in waiting <=> nav.phase = "waiting")
    BY <1>1 DEF IInv, Typed, Awaited
  <2>5. flags' = running BY <1>1, <1>4
  <2> HIDE DEF running
  <2>. QED BY <1>1, <2>1, <2>3, <2>4, <2>5, WithFreshJwtGood
<1>. QED BY <1>6, <1>7

\* The guard hears an action, or does not.
LEMMA HeardKeeps ==
  ASSUME NEW a, nav \in Navigations, tells \in Tells, DeniedIsTold
  PROVE  /\ Heard(a) \in Navigations
         /\ Told(Heard(a))
         /\ Heard(a).phase = "waiting" <=> nav.phase = "waiting"
         /\ Heard(a).phase = "listening" =>
              nav.phase = "listening" /\ a \notin {ActionAppReady, ActionAppNotReady}
<1>1. CASE nav.phase # "listening" \/ a \notin {ActionAppReady, ActionAppNotReady}
  <2>1. Heard(a) = nav BY <1>1 DEF Heard
  <2>. QED BY <1>1, <2>1 DEF DeniedIsTold, Told
<1>2. CASE nav.phase = "listening" /\ a = ActionAppReady
  <2>1. Heard(a) = [nav EXCEPT !.phase = "granted"]
    BY <1>2 DEF Heard, ActionAppReady, ActionAppNotReady
  <2>. QED BY <1>2, <2>1 DEF Navigations, DeniedIsTold, Told
<1>3. CASE nav.phase = "listening" /\ a # ActionAppReady /\ a = ActionAppNotReady
  <2>1. Heard(a) = [nav EXCEPT !.phase = "denied", !.told = tells] BY <1>3 DEF Heard
  <2>2. tells \in BOOLEAN BY GuardAssumption
  <2>. QED BY <1>3, <2>1, <2>2 DEF Navigations, DeniedIsTold, Told
<1>. QED BY <1>1, <1>2, <1>3

\* What follows an outcome.
LEMMA FollowShape ==
  ASSUME NEW op \in Ops, NEW how \in {"succeed", "errored"}
  PROVE  LET f == Follow(<<op, how>>)
         IN  /\ f \in Shapes /\ <<>> \o f = f
             /\ op = "loginAs" /\ how = "errored" => f = <<>>
             /\ \A o \in Ops : ~Done(f, o) /\ <<o, "start">> \notin In(f)
             /\ ~AppSays(f)
             /\ <<"stash", "user">> \in In(f) => op = "loginAs" /\ how = "succeed"
<1> DEFINE f == Follow(<<op, how>>)
           u == SetUser(TRUE)
           n == SetUser(FALSE)
           s == <<"stash", "user">>
           r == <<"unstash", "user">>
<1>1. u \in Singles /\ <<s, u>> \in Doubles /\ <<u, r>> \in Doubles /\ <<n, r>> \in Doubles
  BY DEF Singles, Doubles, SetUser
<1>2. \/ f = <<>>
      \/ f = <<u>> /\ op # "loginAs"
      \/ f = <<s, u>> /\ op = "loginAs" /\ how = "succeed"
      \/ op = "logout" /\ (f = <<u, r>> \/ f = <<n, r>>)
  <2>1. SetUser(stash > 0) = u \/ SetUser(stash > 0) = n BY DEF SetUser
  <2> HIDE DEF u, n, s, r
  <2>. QED BY <2>1 DEF Follow, Ops, u, s, r
<1>3. op = "loginAs" /\ how = "errored" => f = <<>> BY DEF Follow
<1> HIDE DEF f
<1>4. f \in Shapes BY <1>1, <1>2 DEF Shapes
<1>5. <<>> \o f = f
  <2> HIDE DEF u, n, s, r
  <2>1. \A a, b \in {u, n, s, r} :
          <<>> \in Seq({u, n, s, r}) /\ <<a>> \in Seq({u, n, s, r}) /\ <<a, b>> \in Seq({u, n, s, r})
    OBVIOUS
  <2>2. f \in Seq({u, n, s, r}) BY <1>2, <2>1
  <2>. QED BY <2>2, ConcatEmptySeq
<1>6. In(f) \subseteq {u, n, s, r} /\ (s \in In(f) => op = "loginAs" /\ how = "succeed")
  <2>1. s # u /\ s # n /\ s # r BY DEF SetUser
  <2> HIDE DEF u, n, s, r
  <2>2. /\ In(<<>>) = {} /\ In(<<u>>) = {u} /\ In(<<s, u>>) = {s, u}
        /\ In(<<u, r>>) = {u, r} /\ In(<<n, r>>) = {n, r}
    BY Short
  <2>. QED BY <1>2, <2>1, <2>2
<1>7. \A o \in Ops : ~Done(f, o) /\ <<o, "start">> \notin In(f) BY <1>6 DEF Done, Ops, SetUser
<1>8. ~AppSays(f) BY <1>6 DEF AppSays, SetUser
<1>. QED BY <1>3, <1>4, <1>5, <1>6, <1>7, <1>8 DEF f

\* The outcome of a request keeps the inductive invariant.
LEMMA OutcomeStep ==
  ASSUME IInv, NEW op \in Ops, NEW how \in {"succeed", "errored"}, Outcome(op, how)
  PROVE  IInv'
<1> DEFINE a == <<op, how>>
           f == Follow(a)
           later == <<"logout", "succeed">>
<1>1. /\ At(a) /\ flags' = flags \ {op} /\ nav' = Heard(a) /\ queue' = Tail(queue) \o f
      /\ UNCHANGED <<config, tells, session, under, refreshing, waiting, busy, user, stash>>
  BY DEF Outcome, ReduceOutcome
<1>2. /\ owes' \subseteq {"ready", "notReady"}
      /\ config # "custom" \/ op # "loginAgain" => owes' = owes
      /\ config = "custom" /\ op = "loginAgain" => owes' # {}
  BY DEF Outcome, IInv, Typed
<1>3. /\ nav' \in Navigations
      /\ Told(nav')
      /\ nav'.phase = "waiting" <=> nav.phase = "waiting"
      /\ nav'.phase = "listening" =>
           nav.phase = "listening" /\ a \notin {ActionAppReady, ActionAppNotReady}
  BY <1>1, HeardKeeps DEF IInv, Typed
<1>4. /\ f \in Shapes /\ <<>> \o f = f
      /\ op = "loginAs" /\ how = "errored" => f = <<>>
      /\ \A o \in Ops : ~Done(f, o) /\ <<o, "start">> \notin In(f)
      /\ ~AppSays(f)
      /\ <<"stash", "user">> \in In(f) => op = "loginAs" /\ how = "succeed"
  BY FollowShape
<1>5. \/ In(queue) = {a} /\ queue' = f
      \/ /\ op = "loginAs" /\ how = "errored"
         /\ In(queue) = {a, later} /\ queue' = <<later>>
  BY <1>1, <1>4, AtOutcome, Joined DEF IInv
<1> HIDE DEF f
<1>6. Done(queue, op) /\ op \notin busy
  <2>1. Done(queue, op) BY <1>5 DEF Done
  <2>. QED BY <2>1 DEF IInv, Flagged, Ended
<1>7. queue' \in Shapes BY <1>4, <1>5 DEF Shapes, Singles, Ops
<1>8. /\ \A o \in Ops : Done(queue, o) <=> o = op \/ Done(queue', o)
      /\ ~Done(queue', op)
  <2>1. CASE In(queue) = {a} /\ queue' = f BY <1>4, <2>1 DEF Done
  <2>2. CASE /\ op = "loginAs" /\ how = "errored"
             /\ In(queue) = {a, later} /\ queue' = <<later>>
    <3>1. In(queue') = {later} BY <2>2, Short
    <3>. QED BY <2>2, <3>1 DEF Done
  <2>. QED BY <1>5, <2>1, <2>2
<1>9. Flagged' BY <1>1, <1>6, <1>8 DEF IInv, Flagged, Ended
<1>10. Typed' BY <1>1, <1>2, <1>3 DEF IInv, Typed
<1>11. Awaited' BY <1>1, <1>3 DEF IInv, Awaited
<1>12. ~AppSays(queue) /\ ~AppSays(queue') /\ <<"loginAgain", "start">> \notin In(queue)
  <2>1. CASE In(queue) = {a} /\ queue' = f BY <1>4, <2>1 DEF AppSays, Ops
  <2>2. CASE /\ op = "loginAs" /\ how = "errored"
             /\ In(queue) = {a, later} /\ queue' = <<later>>
    <3>1. In(queue') = {later} BY <2>2, Short
    <3>. QED BY <2>2, <3>1 DEF AppSays
  <2>. QED BY <1>5, <2>1, <2>2
<1>13. Answerable'
  <2>1. SUFFICES ASSUME nav'.phase = "listening"
                 PROVE  "loginAgain" \in busy' \/ owes' # {} \/ Done(queue', "loginAgain")
    BY DEF Answerable
  <2>2. nav.phase = "listening" /\ a \notin {ActionAppReady, ActionAppNotReady} BY <1>3, <2>1
  <2>3. config # "custom" => op # "loginAgain"
    BY <2>2 DEF ActionAppReady, ActionAppNotReady
  <2>4. "loginAgain" \in busy \/ owes # {} \/ Done(queue, "loginAgain")
    BY <1>12, <2>2 DEF IInv, Answerable
  <2>5. Done(queue, "loginAgain") <=> op = "loginAgain" \/ Done(queue', "loginAgain")
    BY <1>8 DEF Ops
  <2>. QED BY <1>1, <1>2, <2>3, <2>4, <2>5
<1>14. Custom' BY <1>1, <1>2, <1>12 DEF IInv, Custom
<1>15. Room'
  <2>1. <<"loginAs", "start">> \notin In(queue') /\ <<"loginAs", "succeed">> \notin In(queue')
    <3>1. CASE queue' = f BY <1>4, <3>1 DEF Done, Ops
    <3>2. CASE queue' = <<later>>
      <4>1. In(queue') = {later} BY <3>2, Short
      <4>. QED BY <4>1
    <3>. QED BY <1>5, <3>1, <3>2
  <2>2. <<"stash", "user">> \in In(queue') => <<"loginAs", "succeed">> \in In(queue)
    <3>1. CASE In(queue) = {a} /\ queue' = f BY <1>4, <3>1
    <3>2. CASE queue' = <<later>>
      <4>1. In(queue') = {later} BY <3>2, Short
      <4>. QED BY <4>1
    <3>. QED BY <1>5, <3>1, <3>2
  <2>. QED BY <1>1, <2>1, <2>2 DEF IInv, Room
<1>16. DeniedIsTold' BY <1>1, <1>3 DEF DeniedIsTold, Told
<1>. QED BY <1>7, <1>9, <1>10, <1>11, <1>13, <1>14, <1>15, <1>16 DEF IInv

\* A guard that is unsubscribed from waits no more, but its call does.
LEMMA LeaveKeeps ==
  ASSUME waiting \subseteq Waiters
  PROVE  /\ Leave \subseteq Waiters /\ "guard" \notin Leave
         /\ Leave \ Guards = waiting \ Guards /\ (Leave # {} => waiting # {})
BY DEF Leave, Waiters, Guards

\* The reducer of the user, and the guard that sees one, keep the inductive invariant.
LEMMA ReduceUserStep ==
  ASSUME IInv, NEW u \in BOOLEAN, ReduceUser(u)
  PROVE  IInv'
<1> DEFINE later == <<"unstash", "user">>
<1>1. /\ At(SetUser(u)) /\ user' = u /\ queue' = Tail(queue)
      /\ nav' = IF u /\ Pending THEN [nav EXCEPT !.phase = "granted"] ELSE nav
      /\ waiting' = IF u THEN Leave ELSE waiting
      /\ UNCHANGED <<config, tells, session, under, refreshing, busy, flags, stash, owes>>
  BY DEF ReduceUser
<1>2. \/ In(queue) = {SetUser(u)} /\ queue' = <<>>
      \/ In(queue) = {SetUser(u), later} /\ queue' = <<later>>
  BY <1>1, AtSetUser DEF IInv
<1>3. queue' \in Shapes /\ In(queue') \subseteq {later}
  <2>1. later \in Singles BY DEF Singles
  <2> HIDE DEF later
  <2>. QED BY <1>2, <2>1, Short DEF Shapes
<1>4. \A o \in Ops : ~Done(queue, o) /\ ~Done(queue', o) BY <1>2, <1>3 DEF Done, SetUser, Ops
<1>5. /\ nav' \in Navigations
      /\ Told(nav')
      /\ nav'.phase = "waiting" <=> nav.phase = "waiting" /\ ~u
      /\ nav'.phase = "listening" => nav.phase = "listening" /\ ~u
  <2>1. nav \in Navigations /\ Told(nav)
    BY DEF IInv, Typed, DeniedIsTold, Told
  <2>2. CASE u /\ Pending
    <3>1. nav' = [nav EXCEPT !.phase = "granted"] BY <1>1, <2>2
    <3>. QED BY <2>1, <2>2, <3>1 DEF Navigations, Pending, Told
  <2>3. CASE ~(u /\ Pending)
    <3>1. nav' = nav BY <1>1, <2>3
    <3>. QED BY <2>1, <2>3, <3>1 DEF Pending
  <2>. QED BY <2>2, <2>3
<1>6. Typed' BY <1>1, <1>5, LeaveKeeps DEF IInv, Typed
<1>7. Flagged' BY <1>1, <1>4, NothingEnded DEF Flagged, Ended
<1>8. Awaited' BY <1>1, <1>5, LeaveKeeps DEF IInv, Awaited, Typed
<1>9. Answerable'
  <2>1. <<"loginAgain", "start">> \notin In(queue) /\ ~AppSays(queue) /\ "loginAgain" \in Ops
    BY <1>2 DEF AppSays, SetUser, Ops
  <2>. QED BY <1>1, <1>4, <1>5, <2>1 DEF IInv, Answerable
<1>10. Custom' BY <1>1, <1>3 DEF IInv, Custom, AppSays
<1>11. Room' BY <1>1, <1>3 DEF IInv, Room
<1>12. DeniedIsTold' BY <1>1, <1>5 DEF DeniedIsTold, Told
<1>. QED BY <1>3, <1>6, <1>7, <1>8, <1>9, <1>10, <1>11, <1>12 DEF IInv

\* The reducer of the stash keeps the inductive invariant.
LEMMA ReduceStashStep ==
  ASSUME IInv, ReduceStash
  PROVE  IInv'
<1> DEFINE s == <<"stash", "user">>
           r == <<"unstash", "user">>
           u == SetUser(TRUE)
<1>1. /\ queue' = Tail(queue)
      /\ UNCHANGED <<config, tells, session, under, refreshing, waiting, busy, flags, user, owes, nav>>
  BY DEF ReduceStash
<1>2. \/ In(queue) = {s, u} /\ queue' = <<u>> /\ stash' = stash + 1
      \/ In(queue) = {r} /\ queue' = <<>> /\ stash' = IF stash = 0 THEN 0 ELSE stash - 1
  BY <1>1, AtStash DEF IInv, ReduceStash
<1>3. queue' \in Shapes /\ In(queue') \subseteq {u}
  <2>1. u \in Singles BY DEF Singles, SetUser
  <2> HIDE DEF u
  <2>. QED BY <1>2, <2>1, Short DEF Shapes
<1>4. \A o \in Ops : /\ ~Done(queue, o) /\ ~Done(queue', o)
                     /\ <<o, "start">> \notin In(queue) /\ <<o, "start">> \notin In(queue')
  BY <1>2, <1>3 DEF Done, SetUser, Ops
<1>5. ~AppSays(queue) /\ ~AppSays(queue') BY <1>2, <1>3 DEF AppSays, SetUser
<1>6. stash' \in 0..MaxDepth /\ ("loginAs" \in busy => stash' < MaxDepth)
  <2>1. stash \in 0..MaxDepth /\ ("loginAs" \in busy => stash < MaxDepth)
    BY DEF IInv, Typed, Room
  <2>2. CASE s \in In(queue) /\ stash' = stash + 1
    <3>1. stash < MaxDepth /\ "loginAs" \notin busy BY <2>2 DEF IInv, Room
    <3>. QED BY <2>1, <2>2, <3>1, GuardAssumption
  <2>3. CASE stash' = IF stash = 0 THEN 0 ELSE stash - 1
    BY <2>1, <2>3, GuardAssumption
  <2>. QED BY <1>2, <2>2, <2>3
<1>7. Typed' BY <1>1, <1>6 DEF IInv, Typed
<1>8. Flagged' BY <1>1, <1>4, NothingEnded DEF Flagged, Ended
<1>9. Awaited' /\ DeniedIsTold' BY <1>1 DEF IInv, Awaited, DeniedIsTold
<1>10. Answerable'
  <2>1. "loginAgain" \in Ops BY DEF Ops
  <2>. QED BY <1>1, <1>4, <1>5, <2>1 DEF IInv, Answerable
<1>11. Custom' BY <1>1, <1>5 DEF IInv, Custom
<1>12. Room'
  <2>1. /\ <<"loginAs", "start">> \notin In(queue') /\ <<"loginAs", "succeed">> \notin In(queue')
        /\ s \notin In(queue')
    BY <1>3 DEF SetUser
  <2>. QED BY <1>1, <1>6, <2>1 DEF IInv, Room
<1>. QED BY <1>3, <1>7, <1>8, <1>9, <1>10, <1>11, <1>12 DEF IInv

\* A custom action of the application keeps the inductive invariant.
LEMMA HearAppStep ==
  ASSUME IInv, NEW answer \in {"ready", "notReady"}, HearApp(answer)
  PROVE  IInv'
<1> DEFINE a == <<"app", answer>>
<1>1. /\ At(a) /\ nav' = Heard(a) /\ queue' = Tail(queue)
      /\ UNCHANGED <<config, tells, session, under, refreshing, waiting, busy, flags, user, stash, owes>>
  BY DEF HearApp
<1>2. In(queue) = {a} /\ queue' = <<>> BY <1>1, AtApp DEF IInv
<1>3. In(queue') = {} /\ queue' \in Shapes BY <1>2, Short DEF Shapes
<1>4. \A o \in Ops : ~Done(queue, o) /\ ~Done(queue', o) BY <1>2, <1>3 DEF Done, Ops
<1>5. /\ nav' \in Navigations
      /\ Told(nav')
      /\ nav'.phase = "waiting" <=> nav.phase = "waiting"
      /\ nav'.phase = "listening" => a \notin {ActionAppReady, ActionAppNotReady}
  BY <1>1, HeardKeeps DEF IInv, Typed
<1>6. config = "custom"
  <2>1. AppSays(queue) BY <1>2 DEF AppSays
  <2>. QED BY <2>1 DEF IInv, Custom
<1>7. nav'.phase # "listening" BY <1>5, <1>6 DEF ActionAppReady, ActionAppNotReady
<1>8. Typed' BY <1>1, <1>5 DEF IInv, Typed
<1>9. Flagged' BY <1>1, <1>4, NothingEnded DEF Flagged, Ended
<1>10. Awaited' BY <1>1, <1>5 DEF IInv, Awaited
<1>11. Answerable' BY <1>7 DEF Answerable
<1>12. Custom' BY <1>1, <1>6 DEF Custom
<1>13. Room' BY <1>1, <1>3 DEF IInv, Room
<1>14. DeniedIsTold' BY <1>1, <1>5 DEF DeniedIsTold, Told
<1>. QED BY <1>3, <1>8, <1>9, <1>10, <1>11, <1>12, <1>13, <1>14 DEF IInv
-------------------------------------------------------------------------------
\* The application dispatches: the inductive invariant is kept.
LEMMA DispatchStep ==
  ASSUME IInv, NEW op \in {"login", "loginAs", "logout"}, Dispatch(op)
  PROVE  IInv'
<1> DEFINE a == <<op, "start">>
<1>1. /\ queue = <<>> /\ queue' = <<a>>
      /\ op = "loginAs" => stash < MaxDepth /\ under < MaxDepth
      /\ UNCHANGED <<config, tells, flags, user, stash, session, under, refreshing, waiting, busy, owes, nav>>
  BY DEF Dispatch, Store
<1>2. a \in Singles BY DEF Singles, Ops
<1> HIDE DEF a
<1>3. In(queue) = {} /\ In(queue') = {a} /\ queue' \in Shapes BY <1>1, <1>2, Short DEF Shapes
<1>4. \A o : ~Done(queue, o) /\ ~Done(queue', o) BY <1>3 DEF Done, a
<1>5. ~AppSays(queue) /\ ~AppSays(queue') BY <1>3 DEF AppSays, a
<1>6. Typed' /\ Awaited' /\ DeniedIsTold' BY <1>1 DEF IInv, Typed, Awaited, DeniedIsTold
<1>7. Flagged' BY <1>1, <1>4, NothingEnded DEF Flagged, Ended
<1>8. Answerable' BY <1>1, <1>3, <1>4, <1>5 DEF IInv, Answerable
<1>9. Custom' BY <1>1, <1>5 DEF IInv, Custom
<1>10. Room' BY <1>1, <1>3 DEF IInv, Room, a
<1>. QED BY <1>3, <1>6, <1>7, <1>8, <1>9, <1>10 DEF IInv

\* Steps of which the queue stays empty, and after which the store and the requests are as
\* before and the guard listens only if it did.
LEMMA NavigationStep ==
  ASSUME IInv, queue = <<>>, nav' \in Navigations, Told(nav'),
         nav'.phase = "listening" => nav.phase = "listening",
         waiting' \subseteq Waiters, waiting' \ Guards \subseteq waiting, waiting' # {} => waiting # {},
         ("guard" \in waiting' <=> nav'.phase = "waiting"),
         session' \in {"none", "stale", "fresh"},
         UNCHANGED <<config, tells, flags, user, stash, under, refreshing, busy, queue, owes>>
  PROVE  IInv'
<1>1. Typed' BY DEF IInv, Typed
<1>2. Flagged' /\ Custom' /\ Room' BY DEF IInv, Flagged, Custom, Room
<1>3. Awaited' BY DEF IInv, Awaited
<1>4. Answerable' BY DEF IInv, Answerable
<1>5. DeniedIsTold' BY DEF DeniedIsTold, Told
<1>. QED BY <1>1, <1>2, <1>3, <1>4, <1>5 DEF IInv

\* A navigation begins or passes, or a token expires.
LEMMA NavigateStep ==
  ASSUME IInv, Navigate \/ CanActivateUser \/ Expires
  PROVE  IInv'
<1>1. nav \in Navigations /\ Told(nav)
      /\ ("guard" \in waiting <=> nav.phase = "waiting")
      /\ session \in {"none", "stale", "fresh"} /\ waiting \subseteq Waiters
  BY DEF IInv, Typed, DeniedIsTold, Awaited, Told
<1>2. CASE Navigate
  <2>1. nav' = [phase |-> "scheduled", told |-> FALSE, even |-> ~nav.even]
        /\ waiting' = Leave /\ queue = <<>>
        /\ UNCHANGED <<config, tells, flags, user, stash, session, under, refreshing, busy, queue, owes>>
    BY <1>2 DEF Navigate, Store
  <2>2. nav' \in Navigations /\ Told(nav') /\ nav'.phase = "scheduled"
    BY <1>1, <2>1 DEF Navigations, Told
  <2>. QED BY <1>1, <2>1, <2>2, LeaveKeeps, NavigationStep
<1>3. CASE CanActivateUser
  <2>1. nav' = [nav EXCEPT !.phase = "granted"] /\ nav.phase = "scheduled" /\ queue = <<>>
        /\ UNCHANGED <<config, tells, flags, user, stash, session, under, refreshing, waiting, busy, queue, owes>>
    BY <1>3 DEF CanActivateUser, Store
  <2>2. nav' \in Navigations /\ Told(nav') /\ nav'.phase = "granted"
    BY <1>1, <2>1 DEF Navigations, Told
  <2>. QED BY <1>1, <2>1, <2>2, NavigationStep
<1>4. CASE Expires
  <2>1. queue = <<>> /\ session' \in {"none", "stale", "fresh"}
        /\ UNCHANGED <<config, tells, flags, user, stash, under, refreshing, waiting, busy, queue, owes, nav>>
    BY <1>4 DEF Expires, Store
  <2>. QED BY <1>1, <2>1, NavigationStep
<1>. QED BY <1>2, <1>3, <1>4

\* canActivate() that asks for tokens keeps the inductive invariant.
LEMMA CanActivateTokensStep ==
  ASSUME IInv, CanActivateTokens
  PROVE  IInv'
<1>1. /\ queue = <<>> /\ nav.phase = "scheduled" /\ WithFreshJwt("guard", waiting, <<>>, busy)
      /\ UNCHANGED <<config, tells, flags, user, stash, owes>>
  BY DEF CanActivateTokens, Store
<1>2. flags' = busy /\ Calm(busy) BY <1>1, CalmWhenEmpty
<1>3. /\ waiting \subseteq Waiters
      /\ (waiting \cup {"guard"}) \ Guards \subseteq busy
      /\ ("guard" \in waiting <=> nav.phase = "waiting")
  BY DEF IInv, Typed, Awaited, Guards
<1>4. "guard" \in {"guard", "loginAs", "logout"} OBVIOUS
<1>. QED BY <1>1, <1>2, <1>3, <1>4, WithFreshJwtGood

\* The subscriber of refresh() keeps the inductive invariant.
LEMMA RefreshAnsweredStep ==
  ASSUME IInv, NEW ok \in BOOLEAN, RefreshAnswered(ok)
  PROVE  IInv'
<1>1. /\ queue = <<>> /\ refreshing' = FALSE /\ CalledBack(waiting, ok, <<>>, busy)
      /\ UNCHANGED <<config, tells, flags, user, stash, owes>>
  BY DEF RefreshAnswered, Store
<1>2. flags' = busy /\ Calm(busy) BY <1>1, CalmWhenEmpty
<1>3. /\ waiting \in SUBSET Waiters /\ waiting \ Guards \subseteq busy
      /\ IF "guard" \in waiting THEN nav.phase \in {"waiting", "scheduled"} ELSE nav.phase # "waiting"
  BY DEF IInv, Typed, Awaited
<1>. QED BY <1>1, <1>2, <1>3, CalledBackGood

\* The answers of JwtApi keep the inductive invariant.
LEMMA AnsweredStep ==
  ASSUME IInv, NEW op \in Ops, Replies(op)
  PROVE  IInv'
<1> DEFINE a(ok) == <<op, IF ok THEN "succeed" ELSE "errored">>
<1>1. PICK ok \in BOOLEAN :
        /\ Answered(op, ok)
        /\ session' \in {"none", "stale", "fresh"}
        /\ under' \in 0..MaxDepth
        /\ op # "loginAs" => under' <= under
  <2>1. session \in {"none", "stale", "fresh"} /\ under \in 0..MaxDepth BY DEF IInv, Typed
  <2>2. ASSUME NEW ok \in BOOLEAN, LoginAnswered(op, ok)
        PROVE  /\ Answered(op, ok) /\ session' \in {"none", "stale", "fresh"}
               /\ under' \in 0..MaxDepth /\ (op # "loginAs" => under' <= under)
    BY <2>1, <2>2, GuardAssumption DEF LoginAnswered
  <2>3. ASSUME NEW ok \in BOOLEAN, op = "loginAs", LoginAsAnswered(ok)
        PROVE  /\ Answered(op, ok) /\ session' \in {"none", "stale", "fresh"}
               /\ under' \in 0..MaxDepth
    <3>1. "loginAs" \in busy BY <2>3 DEF LoginAsAnswered, Answered
    <3>2. under < MaxDepth BY <3>1 DEF IInv, Room
    <3>. QED BY <2>1, <2>3, <3>2, GuardAssumption DEF LoginAsAnswered
  <2>4. ASSUME NEW ok \in BOOLEAN, op = "logout", LogoutAnswered(ok)
        PROVE  /\ Answered(op, ok) /\ session' \in {"none", "stale", "fresh"}
               /\ under' \in 0..MaxDepth /\ (op # "loginAs" => under' <= under)
    BY <2>1, <2>4, GuardAssumption DEF LogoutAnswered, Popped
  <2>. QED BY <2>2, <2>3, <2>4 DEF Replies
<1>2. /\ queue = <<>> /\ op \in busy \ waiting /\ busy' = busy \ {op} /\ queue' = <<a(ok)>>
      /\ UNCHANGED <<config, tells, flags, user, stash, refreshing, waiting, owes, nav>>
  BY <1>1 DEF Answered, Store
<1>3. a(ok) \in Singles /\ (a(ok) = <<op, "succeed">> \/ a(ok) = <<op, "errored">>)
  BY DEF Singles
<1>4. flags = busy /\ Calm(busy) BY <1>2, CalmWhenEmpty
<1> HIDE DEF a
<1>5. In(queue) = {} /\ In(queue') = {a(ok)} /\ queue' \in Shapes
  BY <1>2, <1>3, Short DEF Shapes
<1>6. \A o \in Ops : Done(queue', o) <=> o = op BY <1>3, <1>5 DEF Done
<1>7. ~AppSays(queue') BY <1>3, <1>5 DEF AppSays, Ops
<1>8. Typed' BY <1>1, <1>2 DEF IInv, Typed
<1>9. Flagged' BY <1>2, <1>4, <1>6 DEF Flagged, Ended, Calm
<1>10. Awaited' /\ DeniedIsTold' BY <1>2 DEF IInv, Awaited, DeniedIsTold
<1>11. Answerable' BY <1>2, <1>4, <1>6 DEF Answerable, Calm, Ops
<1>12. Custom' BY <1>2, <1>7 DEF IInv, Custom
<1>13. Room'
  <2>1. /\ <<"loginAs", "start">> \notin In(queue') /\ <<"stash", "user">> \notin In(queue')
        /\ <<"loginAs", "succeed">> \in In(queue') => op = "loginAs"
    BY <1>3, <1>5 DEF Ops
  <2>2. "loginAs" \in busy => under < MaxDepth /\ stash < MaxDepth BY <1>4 DEF Calm
  <2>3. CASE op = "loginAs" BY <1>2, <2>1, <2>2, <2>3 DEF Room
  <2>4. CASE op # "loginAs"
    <3>1. under \in 0..MaxDepth BY DEF IInv, Typed
    <3>. QED BY <1>1, <1>2, <2>1, <2>2, <2>4, <3>1, GuardAssumption DEF Room
  <2>. QED BY <2>3, <2>4
<1>. QED BY <1>5, <1>8, <1>9, <1>10, <1>11, <1>12, <1>13 DEF IInv

\* The application says whether it is ready: the inductive invariant is kept.
LEMMA AppDecidesStep ==
  ASSUME IInv, NEW answer \in {"ready", "notReady"}, AppDecides(answer)
  PROVE  IInv'
<1> DEFINE a == <<"app", answer>>
<1>1. /\ queue = <<>> /\ answer \in owes /\ owes' = {} /\ queue' = <<a>>
      /\ UNCHANGED <<config, tells, flags, user, stash, session, under, refreshing, waiting, busy, nav>>
  BY DEF AppDecides, Store
<1>2. a \in Singles BY DEF Singles
<1>3. config = "custom" BY <1>1 DEF IInv, Custom
<1>4. flags = busy /\ Calm(busy) BY <1>1, CalmWhenEmpty
<1> HIDE DEF a
<1>5. In(queue') = {a} /\ queue' \in Shapes BY <1>1, <1>2, Short DEF Shapes
<1>6. \A o \in Ops : ~Done(queue', o) BY <1>5 DEF Done, Ops, a
<1>7. AppSays(queue') BY <1>5 DEF AppSays, a
<1>8. Typed' /\ Awaited' /\ DeniedIsTold' BY <1>1 DEF IInv, Typed, Awaited, DeniedIsTold
<1>9. Flagged' BY <1>1, <1>4, <1>6 DEF Flagged, Ended
<1>10. Answerable' /\ Custom' BY <1>1, <1>3, <1>7 DEF Answerable, Custom
<1>11. Room' BY <1>1, <1>4, <1>5 DEF Room, Calm, a
<1>. QED BY <1>5, <1>8, <1>9, <1>10, <1>11 DEF IInv
-------------------------------------------------------------------------------
LEMMA InitIInv ==
  ASSUME Init
  PROVE  IInv
<1>1. Typed
  <2>1. nav \in Navigations BY DEF Init, Navigations
  <2>2. under \in 0..MaxDepth /\ stash \in 0..MaxDepth BY GuardAssumption DEF Init
  <2>. QED BY <2>1, <2>2 DEF Init, Typed
<1>2. In(queue) = {} /\ queue \in Shapes BY Short DEF Init, Shapes
<1>3. Flagged /\ Custom /\ Room BY <1>2 DEF Init, Flagged, Ended, Done, Custom, AppSays, Room
<1>4. Awaited /\ Answerable /\ DeniedIsTold BY DEF Init, Awaited, Answerable, DeniedIsTold
<1>. QED BY <1>1, <1>2, <1>3, <1>4 DEF IInv

LEMMA NextIInv ==
  ASSUME IInv, [Next]_vars
  PROVE  IInv'
<1>1. CASE Handle
  <2>1. ASSUME NEW op \in Ops, StartLogin(op) PROVE IInv' BY <2>1, StartLoginStep
  <2>2. ASSUME NEW op \in Ops, StartWithTokens(op) PROVE IInv' BY <2>2, StartWithTokensStep
  <2>3. ASSUME NEW op \in Ops, NEW how \in {"succeed", "errored"}, Outcome(op, how) PROVE IInv'
    BY <2>3, OutcomeStep
  <2>4. ASSUME NEW u \in BOOLEAN, ReduceUser(u) PROVE IInv' BY <2>4, ReduceUserStep
  <2>5. ASSUME ReduceStash PROVE IInv' BY <2>5, ReduceStashStep
  <2>6. ASSUME NEW answer \in {"ready", "notReady"}, HearApp(answer) PROVE IInv'
    BY <2>6, HearAppStep
  <2>. QED BY <1>1, <2>1, <2>2, <2>3, <2>4, <2>5, <2>6 DEF Handle
<1>2. ASSUME NEW op \in {"login", "loginAs", "logout"}, Dispatch(op) PROVE IInv'
  BY <1>2, DispatchStep
<1>3. CASE Navigate BY <1>3, NavigateStep
<1>4. CASE CanActivate BY <1>4, NavigateStep, CanActivateTokensStep DEF CanActivate
<1>5. ASSUME NEW op \in Ops, Replies(op) PROVE IInv' BY <1>5, AnsweredStep
<1>6. ASSUME NEW ok \in BOOLEAN, RefreshAnswered(ok) PROVE IInv' BY <1>6, RefreshAnsweredStep
<1>7. ASSUME NEW answer \in {"ready", "notReady"}, AppDecides(answer) PROVE IInv'
  BY <1>7, AppDecidesStep
<1>8. CASE Expires BY <1>8, NavigateStep
<1>9. CASE UNCHANGED vars
  BY <1>9 DEF vars, IInv, Typed, Flagged, Awaited, Answerable, Custom, Room, DeniedIsTold
<1>. QED BY <1>1, <1>2, <1>3, <1>4, <1>5, <1>6, <1>7, <1>8, <1>9 DEF Next

\* The inductive invariant.
THEOREM Invariance == Spec => []IInv
BY InitIInv, NextIInv, PTL DEF Spec

\* The state has the types that JwtGuard says it has.
THEOREM TypeCorrect == Spec => []TypeOK
<1>1. IInv => TypeOK
  <2>1. Singles \subseteq Actions BY DEF Singles, Actions, Ops
  <2>2. \A a \in Singles : <<a>> \in Seq(Actions) BY <2>1
  <2>3. \A q \in Doubles : q \in Seq(Actions)
    <3>1. /\ <<"loginAs", "errored">> \in Actions /\ <<"logout", "succeed">> \in Actions
          /\ <<"stash", "user">> \in Actions /\ <<"unstash", "user">> \in Actions
          /\ SetUser(TRUE) \in Actions /\ SetUser(FALSE) \in Actions
      BY DEF Actions, Ops, SetUser
    <3>2. \A a, b \in Actions : <<a, b>> \in Seq(Actions) OBVIOUS
    <3>. QED BY <3>1, <3>2 DEF Doubles
  <2>4. <<>> \in Seq(Actions) OBVIOUS
  <2>5. Shapes \subseteq Seq(Actions) BY <2>2, <2>3, <2>4 DEF Shapes
  <2>. QED BY <2>5 DEF IInv, Typed, TypeOK, Waiters, Guards
<1>. QED BY <1>1, Invariance, PTL

\* JwtEffects and the reducers: between the tasks the *InProcess flags tell which requests
\* are in progress.
THEOREM FlagsFollowRequestsAlways == Spec => []FlagsFollowRequests
<1>1. IInv => FlagsFollowRequests
  <2>1. SUFFICES ASSUME IInv, queue = <<>> PROVE flags = busy BY DEF FlagsFollowRequests
  <2>. QED BY <2>1, CalmWhenEmpty
<1>. QED BY <1>1, Invariance, PTL

\* canActivate(): a guard that listens to actions$ has something to hear, and one that waits
\* for tokens has a refresh.
THEOREM GuardHearsAnAnswerAlways == Spec => []GuardHearsAnAnswer
<1>1. IInv => GuardHearsAnAnswer
  <2>1. SUFFICES ASSUME IInv, queue = <<>>
                 PROVE  /\ nav.phase = "listening" => "loginAgain" \in busy \/ owes # {}
                        /\ nav.phase = "waiting" => refreshing /\ "guard" \in waiting
    BY DEF GuardHearsAnAnswer
  <2>2. nav.phase = "listening" => "loginAgain" \in busy \/ owes # {}
    BY <2>1, CalmWhenEmpty DEF Calm
  <2>3. nav.phase = "waiting" => refreshing /\ "guard" \in waiting BY <2>1 DEF IInv, Awaited
  <2>. QED BY <2>2, <2>3
<1>. QED BY <1>1, Invariance, PTL

\* canActivate(): with guardNotFoundJwt NoFreshJwtListener is told of every navigation that
\* is denied, and without it of none, be their guards gone or not.
THEOREM DeniedIsToldAlways == Spec => []DeniedIsTold
<1>1. IInv => DeniedIsTold BY DEF IInv
<1>. QED BY <1>1, Invariance, PTL

\* The guard goes on at actionAppReady.
LEMMA GrantedByReady ==
  ASSUME NEW a, nav \in Navigations, nav.phase # "granted", Heard(a).phase = "granted"
  PROVE  a = ActionAppReady
<1>1. CASE nav.phase # "listening" \/ a \notin {ActionAppReady, ActionAppNotReady} BY <1>1 DEF Heard
<1>2. CASE nav.phase = "listening" /\ a # ActionAppReady /\ a = ActionAppNotReady
  <2>1. Heard(a) = [nav EXCEPT !.phase = "denied", !.told = tells] BY <1>2 DEF Heard
  <2>. QED BY <2>1 DEF Navigations
<1>. QED BY <1>1, <1>2

\* Who is called back by withFreshJwt(), or waits for it, is not let pass by that.
LEMMA NotGranted ==
  ASSUME NEW who, NEW rest, NEW running, nav \in Navigations, nav.phase # "granted"
  PROVE  /\ \A fresh : CalledBack(who, fresh, rest, running) => nav'.phase # "granted"
         /\ \A others : WithFreshJwt(who, others, rest, running) => nav'.phase # "granted"
<1>1. ASSUME NEW all, NEW fresh, CalledBack(all, fresh, rest, running)
      PROVE  nav'.phase # "granted"
  <2>1. nav'.phase = IF "guard" \notin all THEN nav.phase ELSE IF fresh THEN "listening" ELSE "denied"
    BY <1>1 DEF CalledBack, Navigations
  <2>. QED BY <2>1
<1>2. ASSUME NEW others, WithFreshJwt(who, others, rest, running)
      PROVE  nav'.phase # "granted"
  <2>1. CASE session # "stale" BY <1>1, <1>2, <2>1 DEF WithFreshJwt
  <2>2. CASE session = "stale" BY <1>2, <2>2 DEF WithFreshJwt, Navigations
  <2>. QED BY <2>1, <2>2
<1>. QED BY <1>1, <1>2

\* A step of Handle that lets the navigation pass.
LEMMA GrantedByHandle ==
  ASSUME IInv, Handle, nav'.phase = "granted", nav.phase # "granted"
  PROVE  \/ user' \/ \E i \in DOMAIN queue' : queue'[i] = SetUser(TRUE)
         \/ At(ActionAppReady) /\ config = "custom"
<1>1. CASE \E op \in Ops : StartLogin(op) BY <1>1 DEF StartLogin
<1>2. ASSUME NEW op \in Ops, StartWithTokens(op)
      PROVE  FALSE
  <2>1. nav \in Navigations BY DEF IInv, Typed
  <2>2. nav' = nav \/ \E who, others, running : WithFreshJwt(who, others, Tail(queue), running)
    BY <1>2 DEF StartWithTokens
  <2>. QED BY <2>1, <2>2, NotGranted
<1>3. ASSUME NEW op \in Ops, NEW how \in {"succeed", "errored"}, Outcome(op, how)
      PROVE  \E i \in DOMAIN queue' : queue'[i] = SetUser(TRUE)
  <2> DEFINE a == <<op, how>>
             u == SetUser(TRUE)
  <2>1. At(a) /\ nav' = Heard(a) /\ queue' = Tail(queue) \o Follow(a) BY <1>3 DEF Outcome
  <2>2. a = ActionAppReady BY <2>1, GrantedByReady DEF IInv, Typed
  <2>3. op = "loginAgain" /\ how = "succeed" BY <2>2 DEF ActionAppReady, Ops
  <2>4. Tail(queue) = <<>> BY <2>1, <2>3, AtOutcome DEF IInv
  <2>5. Follow(a) = <<u>> BY <2>3 DEF Follow
  <2> HIDE DEF u, a
  <2>6. queue' = <<u>> BY <2>1, <2>4, <2>5, Joined
  <2>7. 1 \in DOMAIN queue' /\ queue'[1] = u BY <2>6
  <2>. QED BY <2>7 DEF u
<1>4. ASSUME NEW u \in BOOLEAN, ReduceUser(u) PROVE user'
  <2>1. u BY <1>4 DEF ReduceUser
  <2>. QED BY <1>4, <2>1 DEF ReduceUser
<1>5. CASE ReduceStash BY <1>5 DEF ReduceStash
<1>6. ASSUME NEW answer \in {"ready", "notReady"}, HearApp(answer)
      PROVE  At(ActionAppReady) /\ config = "custom"
  <2>1. At(<<"app", answer>>) /\ nav' = Heard(<<"app", answer>>) BY <1>6 DEF HearApp
  <2>2. <<"app", answer>> = ActionAppReady BY <2>1, GrantedByReady DEF IInv, Typed
  <2>3. config = "custom" BY <2>2 DEF ActionAppReady
  <2>. QED BY <2>1, <2>2, <2>3
<1>. QED BY <1>1, <1>2, <1>3, <1>4, <1>5, <1>6 DEF Handle

\* canActivate(): when the guard is configured nobody passes who is not logged in.
THEOREM GrantedMeansLoggedInAlways == Spec => GrantedMeansLoggedIn
<1> DEFINE P == nav'.phase = "granted" /\ nav.phase # "granted" /\ config # "off"
                  => \/ user' \/ \E i \in DOMAIN queue' : queue'[i] = SetUser(TRUE)
                     \/ At(ActionAppReady) /\ config = "custom"
<1>1. ASSUME IInv, Next, nav'.phase = "granted", nav.phase # "granted", config # "off"
      PROVE  Handle \/ user'
  <2>1. nav \in Navigations BY <1>1 DEF IInv, Typed
  <2>2. CASE CanActivateTokens \/ \E ok \in BOOLEAN : RefreshAnswered(ok)
    <3>1. CASE CanActivateTokens BY <1>1, <2>1, <3>1, NotGranted DEF CanActivateTokens
    <3>2. CASE \E ok \in BOOLEAN : RefreshAnswered(ok)
      BY <1>1, <2>1, <3>2, NotGranted DEF RefreshAnswered
    <3>. QED BY <2>2, <3>1, <3>2
  <2>3. CASE CanActivateUser BY <1>1, <2>3 DEF CanActivateUser, Store
  <2>4. CASE Navigate BY <1>1, <2>4 DEF Navigate
  <2>5. ASSUME NEW op \in Ops, Replies(op) PROVE nav' = nav
    BY <2>5 DEF Replies, LoginAnswered, LoginAsAnswered, LogoutAnswered, Answered
  <2>6. ASSUME NEW op, Dispatch(op) PROVE nav' = nav BY <2>6 DEF Dispatch
  <2>7. ASSUME NEW answer, AppDecides(answer) PROVE nav' = nav BY <2>7 DEF AppDecides
  <2>8. CASE Expires BY <1>1, <2>8 DEF Expires
  <2>. QED BY <1>1, <2>2, <2>3, <2>4, <2>5, <2>6, <2>7, <2>8 DEF Next, CanActivate
<1>2. IInv /\ [Next]_vars => [P]_vars
  <2>1. SUFFICES ASSUME IInv, Next PROVE P OBVIOUS
  <2>. QED BY <1>1, <2>1, GrantedByHandle
<1>. QED BY <1>2, Invariance, PTL DEF Spec, GrantedMeansLoggedIn
===============================================================================
