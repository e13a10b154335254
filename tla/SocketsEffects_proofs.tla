------------------------- MODULE SocketsEffects_proofs -------------------------
(***************************************************************************)
(* Proofs about SocketsEffects and LoginReports, for every chain of links  *)
(* and whatever the bounds.  An invariant that is promised between tasks   *)
(* has to say, to be inductive, what is on its way in the queue of actions *)
(* meanwhile; of the queue only the set of its elements matters.           *)
(***************************************************************************)
EXTENDS LoginReports, SequenceTheorems, FiniteSetTheorems, TLAPS

\* The actions that wait in q.
Queued(q) == {q[k] : k \in DOMAIN q}

TypedOwner(o) ==
  /\ o \in Owners /\ IsFiniteSet(o.inits)
  /\ \A id \in Ids : o.dict[id] <= Len(o.ctls)

\* The types, and that init() calls are finitely many, so that a new one gets an id.
Typed == TypeOK /\ IsFiniteSet(owner.inits)
-------------------------------------------------------------------------------
\* Sequences of actions.

\* Nothing waits in an empty queue.
LEMMA QueuedNone == Queued(<<>>) = {}
BY DEF Queued

\* Of one action, that one.
LEMMA QueuedOne == ASSUME NEW a PROVE Queued(<<a>>) = {a}
<1>1. DOMAIN <<a>> = {1} /\ <<a>>[1] = a OBVIOUS
<1>. QED BY <1>1 DEF Queued

\* The first action is handled, and the others stay.
LEMMA QueuedTail ==
  ASSUME NEW q \in Seq(Actions), q # <<>>
  PROVE  /\ Head(q) \in Actions /\ Tail(q) \in Seq(Actions)
         /\ Queued(q) = {Head(q)} \cup Queued(Tail(q))
<1>1. /\ Head(q) \in Actions /\ Tail(q) \in Seq(Actions) /\ Len(q) \in Nat \ {0}
      /\ Len(Tail(q)) = Len(q) - 1 /\ Head(q) = q[1]
      /\ \A i \in 1..(Len(q) - 1) : Tail(q)[i] = q[i + 1]
  BY HeadTailProperties, EmptySeq
<1>2. DOMAIN q = 1..Len(q) /\ DOMAIN Tail(q) = 1..(Len(q) - 1) BY <1>1
<1>3. ASSUME NEW k \in DOMAIN q PROVE q[k] \in {Head(q)} \cup Queued(Tail(q))
  <2>1. CASE k = 1 BY <1>1, <2>1
  <2>2. CASE k # 1
    <3>1. k - 1 \in DOMAIN Tail(q) /\ Tail(q)[k - 1] = q[k] BY <1>1, <1>2, <2>2
    <3>. QED BY <3>1 DEF Queued
  <2>. QED BY <2>1, <2>2
<1>4. ASSUME NEW k \in DOMAIN Tail(q) PROVE Tail(q)[k] \in Queued(q)
  <2>1. k + 1 \in DOMAIN q /\ Tail(q)[k] = q[k + 1] BY <1>1, <1>2
  <2>. QED BY <2>1 DEF Queued
<1>5. Head(q) \in Queued(q) BY <1>1, <1>2 DEF Queued
<1>. QED BY <1>1, <1>3, <1>4, <1>5 DEF Queued

\* Two queues after each other hold what both hold.
LEMMA QueuedConcat ==
  ASSUME NEW q \in Seq(Actions), NEW r \in Seq(Actions)
  PROVE  q \o r \in Seq(Actions) /\ Queued(q \o r) = Queued(q) \cup Queued(r)
<1>1. /\ q \o r \in Seq(Actions) /\ Len(q \o r) = Len(q) + Len(r)
      /\ Len(q) \in Nat /\ Len(r) \in Nat
      /\ \A i \in 1..(Len(q) + Len(r)) :
           (q \o r)[i] = IF i <= Len(q) THEN q[i] ELSE r[i - Len(q)]
  BY ConcatProperties
<1>2. /\ DOMAIN q = 1..Len(q) /\ DOMAIN r = 1..Len(r)
      /\ DOMAIN (q \o r) = 1..(Len(q) + Len(r))
  BY <1>1
<1>3. ASSUME NEW k \in DOMAIN (q \o r) PROVE (q \o r)[k] \in Queued(q) \cup Queued(r)
  <2>1. CASE k <= Len(q) BY <1>1, <1>2, <2>1 DEF Queued
  <2>2. CASE ~(k <= Len(q))
    <3>1. k - Len(q) \in DOMAIN r /\ (q \o r)[k] = r[k - Len(q)] BY <1>1, <1>2, <2>2
    <3>. QED BY <3>1 DEF Queued
  <2>. QED BY <2>1, <2>2
<1>4. ASSUME NEW k \in DOMAIN q PROVE q[k] \in Queued(q \o r)
  <2>1. k \in DOMAIN (q \o r) /\ (q \o r)[k] = q[k] BY <1>1, <1>2
  <2>. QED BY <2>1 DEF Queued
<1>5. ASSUME NEW k \in DOMAIN r PROVE r[k] \in Queued(q \o r)
  <2>1. k + Len(q) \in DOMAIN (q \o r) /\ (q \o r)[k + Len(q)] = r[k] BY <1>1, <1>2
  <2>. QED BY <2>1 DEF Queued
<1>. QED BY <1>1, <1>3, <1>4, <1>5 DEF Queued

\* An action is added.
LEMMA QueuedAppend ==
  ASSUME NEW q \in Seq(Actions), NEW a \in Actions
  PROVE  Append(q, a) \in Seq(Actions) /\ Queued(Append(q, a)) = Queued(q) \cup {a}
<1>1. <<a>> \in Seq(Actions) /\ Append(q, a) = q \o <<a>> BY AppendIsConcat
<1>. QED BY <1>1, QueuedConcat, QueuedOne

\* The same action n times.
LEMMA QueuedRepeat ==
  ASSUME NEW a \in Actions, NEW n \in Nat
  PROVE  LET r == [k \in 1..n |-> a]
         IN  r \in Seq(Actions) /\ Queued(r) = IF n = 0 THEN {} ELSE {a}
<1> DEFINE r == [k \in 1..n |-> a]
<1>1. r \in Seq(Actions) OBVIOUS
<1>2. n # 0 => 1 \in 1..n OBVIOUS
<1>3. n = 0 => 1..n = {} OBVIOUS
<1>. QED BY <1>1, <1>2, <1>3 DEF Queued

\* What the actions are called.
LEMMA ActionsOfSockets ==
  /\ InitSockets \in Actions /\ InitSocketsSucceed \in Actions
  /\ InitSocketsErrored \in Actions /\ CloseSockets \in Actions
  /\ CloseSocketsFinished \in Actions
BY DEF Actions, InitSockets, InitSocketsSucceed, InitSocketsErrored, CloseSockets,
       CloseSocketsFinished
-------------------------------------------------------------------------------
\* Sets and sequences that the handlers make.

\* The image of a finite set is finite, and no larger.
LEMMA ImageFinite ==
  ASSUME NEW S, IsFiniteSet(S), NEW f, DOMAIN f = S
  PROVE  LET T == {f[x] : x \in S} IN IsFiniteSet(T) /\ Cardinality(T) <= Cardinality(S)
<1> DEFINE T == {f[x] : x \in S}
           g == [x \in S |-> f[x]]
<1>1. g \in Surjection(S, T) BY DEF Surjection
<1>. QED BY <1>1, FS_Surjection

\* A function on 1..n is a sequence of length n.
LEMMA FunctionIsSeq ==
  ASSUME NEW S, NEW n \in Nat, NEW f \in [1..n -> S]
  PROVE  f \in Seq(S) /\ Len(f) = n /\ DOMAIN f = 1..n
<1>1. f = [i \in 1..n |-> f[i]] OBVIOUS
<1>2. \A i \in 1..n : f[i] \in S OBVIOUS
<1>3. f \in Seq(S) BY <1>2, SeqDef
<1>4. DOMAIN f = 1..n OBVIOUS
<1>. QED BY <1>3, <1>4, LenProperties

\* A new init() finds an id that no other has.
LEMMA FreeId ==
  ASSUME NEW inits \in SUBSET Inits, IsFiniteSet(inits)
  PROVE  LET free == CHOOSE n \in 0..Cardinality(inits) : \A i \in inits : i.id # n
         IN  free \in Nat
<1> DEFINE n == Cardinality(inits)
           ids == {[i \in inits |-> i.id][h] : h \in inits}
<1>1. n \in Nat BY FS_CardinalityType
<1>2. IsFiniteSet(ids) /\ Cardinality(ids) <= n
  <2> DEFINE f == [i \in inits |-> i.id]
  <2>1. DOMAIN f = inits OBVIOUS
  <2> HIDE DEF f
  <2>2. LET T == {f[x] : x \in inits} IN IsFiniteSet(T) /\ Cardinality(T) <= n
    BY <2>1, ImageFinite
  <2>. QED BY <2>2 DEF f
<1>3. IsFiniteSet(0..n) /\ Cardinality(0..n) = n + 1 BY <1>1, FS_Interval
<1>4. ~((0..n) \subseteq ids)
  <2>1. ASSUME (0..n) \subseteq ids PROVE FALSE
    <3>1. Cardinality(0..n) <= Cardinality(ids) BY <1>2, <2>1, FS_Subset
    <3>2. Cardinality(ids) \in Nat BY <1>2, FS_CardinalityType
    <3>. QED BY <1>1, <1>2, <1>3, <3>1, <3>2
  <2>. QED BY <2>1
<1>5. \E m \in 0..n : \A i \in inits : i.id # m BY <1>4
<1>. QED BY <1>1, <1>5

\* The chain: each link is a sequence of ids.
LEMMA LinkType ==
  ASSUME NEW k \in DOMAIN Links
  PROVE  /\ Links[k] \in Seq(STRING) /\ Len(Links[k]) \in Nat
         /\ DOMAIN Links[k] = 1..Len(Links[k])
         /\ \A j \in DOMAIN Links[k] : Links[k][j] \in Ids
<1>1. Links[k] \in Seq(STRING) BY SocketsAssumption
<1>. QED BY <1>1 DEF Ids

\* There is a first link.
LEMMA FirstLink == 1 \in DOMAIN Links /\ DOMAIN Links = 1..Len(Links) /\ Len(Links) \in Nat
BY SocketsAssumption
-------------------------------------------------------------------------------
\* The owner and its controllers.

\* The controllers change, and stay as many.
LEMMA CtlsTyped ==
  ASSUME NEW o, TypedOwner(o), NEW ctls \in Seq(Sockets), Len(ctls) = Len(o.ctls)
  PROVE  /\ TypedOwner([o EXCEPT !.ctls = ctls])
         /\ [o EXCEPT !.ctls = ctls].ctls = ctls
         /\ [o EXCEPT !.ctls = ctls].dict = o.dict
         /\ [o EXCEPT !.ctls = ctls].inits = o.inits
         /\ [o EXCEPT !.ctls = ctls].closes = o.closes
         /\ DOMAIN ctls = DOMAIN o.ctls
<1>1. DOMAIN ctls = DOMAIN o.ctls BY DEF TypedOwner, Owners
<1>. QED BY <1>1 DEF TypedOwner, Owners

\* One controller becomes another.
LEMMA ChangedTyped ==
  ASSUME NEW o, TypedOwner(o), NEW c \in DOMAIN o.ctls, NEW x \in Sockets
  PROVE  /\ TypedOwner(Changed(o, c, x))
         /\ DOMAIN Changed(o, c, x).ctls = DOMAIN o.ctls
         /\ Changed(o, c, x).ctls[c] = x
         /\ \A b \in DOMAIN o.ctls : b # c => Changed(o, c, x).ctls[b] = o.ctls[b]
         /\ Changed(o, c, x).dict = o.dict /\ Changed(o, c, x).inits = o.inits
         /\ Changed(o, c, x).closes = o.closes
<1> DEFINE d == Changed(o, c, x)
           ctls == [o.ctls EXCEPT ![c] = x]
<1>1. o \in Owners /\ o.ctls \in Seq(Sockets) /\ c \in 1..Len(o.ctls)
  BY DEF TypedOwner, Owners
<1>2. /\ ctls \in Seq(Sockets) /\ Len(ctls) = Len(o.ctls) /\ ctls[c] = x
      /\ \A b \in DOMAIN o.ctls : b # c => ctls[b] = o.ctls[b]
  BY <1>1, ExceptSeq
<1>3. d = [o EXCEPT !.ctls = ctls] BY <1>1 DEF Changed, Owners
<1> HIDE DEF d, ctls
<1>4. /\ TypedOwner(d) /\ d.ctls = ctls /\ DOMAIN ctls = DOMAIN o.ctls
      /\ d.dict = o.dict /\ d.inits = o.inits /\ d.closes = o.closes
  BY <1>2, <1>3, CtlsTyped
<1>. QED BY <1>2, <1>4 DEF d

\* The calls of init() become others, or fewer.
LEMMA InitsTyped ==
  ASSUME NEW o, TypedOwner(o), NEW inits \in SUBSET Inits, IsFiniteSet(inits)
  PROVE  /\ TypedOwner([o EXCEPT !.inits = inits])
         /\ [o EXCEPT !.inits = inits].inits = inits
         /\ [o EXCEPT !.inits = inits].ctls = o.ctls
         /\ [o EXCEPT !.inits = inits].dict = o.dict
         /\ [o EXCEPT !.inits = inits].closes = o.closes
BY DEF TypedOwner, Owners

\* The calls of closeAll() become others, or fewer.
LEMMA ClosesTyped ==
  ASSUME NEW o, TypedOwner(o), NEW closes \in SUBSET ((SUBSET Nat) \ {{}})
  PROVE  /\ TypedOwner([o EXCEPT !.closes = closes])
         /\ [o EXCEPT !.closes = closes].closes = closes
         /\ [o EXCEPT !.closes = closes].ctls = o.ctls
         /\ [o EXCEPT !.closes = closes].dict = o.dict
         /\ [o EXCEPT !.closes = closes].inits = o.inits
BY DEF TypedOwner, Owners

\* Calls of init() fail, those that wait for c.
LEMMA FailedTyped ==
  ASSUME NEW o, TypedOwner(o), NEW c
  PROVE  /\ TypedOwner(Failed(o, c))
         /\ Failed(o, c).inits = {i \in o.inits : c \notin Awaits(i)}
         /\ Failed(o, c).ctls = o.ctls /\ Failed(o, c).dict = o.dict
         /\ Failed(o, c).closes = o.closes
<1> DEFINE inits == {i \in o.inits : c \notin Awaits(i)}
<1>1. inits \in SUBSET Inits /\ IsFiniteSet(inits)
  BY FS_Subset DEF TypedOwner, Owners
<1>2. Failed(o, c) = [o EXCEPT !.inits = inits] BY DEF Failed, TypedOwner, Owners
<1> HIDE DEF inits
<1>3. /\ TypedOwner(Failed(o, c)) /\ Failed(o, c).inits = inits
      /\ Failed(o, c).ctls = o.ctls /\ Failed(o, c).dict = o.dict
      /\ Failed(o, c).closes = o.closes
  BY <1>1, <1>2, InitsTyped
<1>. QED BY <1>3 DEF inits

\* At most initSocketsErrored is dispatched when calls of init() fail.
LEMMA FailedHeardType ==
  ASSUME NEW c
  PROVE  FailedHeard(c) \in Seq(Actions) /\ Queued(FailedHeard(c)) \subseteq {InitSocketsErrored}
<1>1. CASE FailedHeard(c) = <<InitSocketsErrored>>
  BY <1>1, ActionsOfSockets, QueuedOne
<1>2. CASE FailedHeard(c) = <<>> BY <1>2, QueuedNone
<1>. QED BY <1>1, <1>2 DEF FailedHeard

\* A controller of the list.
LEMMA SocketType ==
  ASSUME NEW o, TypedOwner(o), NEW c \in DOMAIN o.ctls
  PROVE  /\ o.ctls[c] \in Sockets /\ c \in 1..Len(o.ctls) /\ c \in Nat
         /\ Len(o.ctls) \in Nat /\ DOMAIN o.ctls = 1..Len(o.ctls)
BY DEF TypedOwner, Owners

\* A controller without a connection: it is of nobody, and no request is on its way.
Stray(socket) ==
  /\ socket.by = "nobody"
  /\ \A k \in 1..MaxChains :
       /\ socket.chains[k].stage \notin {"sent", "subSent"}
       /\ socket.chains[k].stage = "making" => socket.chains[k].user = "stray"

\* So it is in the states that mean it.
Left(socket) == socket.state \notin Up => Stray(socket)

\* Who may be the user of a connection that goes on.
Trusted == {"nobody", "stray", User}

\* A connection with the present user: it is authorized for him, and what asks for that will
\* be for him.
Mine(socket) ==
  socket.state \in Up =>
    /\ socket.by \in Trusted
    /\ \A k \in 1..MaxChains :
         socket.chains[k].stage \in {"making", "sent"} => socket.chains[k].user \in Trusted

\* A chain that carries no user.
LEMMA AtType ==
  ASSUME NEW stage \in {"none", "tokens", "subMaking", "subSent", "lost"}
  PROVE  At(stage) \in Chains /\ At(stage).stage = stage
BY DEF At, Chains, By

\* A chain of a connection that has ended.
LEMMA OutlivesType ==
  ASSUME NEW chain \in Chains
  PROVE  /\ Outlives(chain) \in Chains
         /\ Outlives(chain).stage \notin {"sent", "subSent"}
         /\ Outlives(chain).stage = "making" => Outlives(chain).user = "stray"
<1>1. CASE chain.stage = "making"
  <2>1. Outlives(chain) = [chain EXCEPT !.user = "stray"] BY <1>1 DEF Outlives
  <2>2. [chain EXCEPT !.user = "stray"] \in Chains BY DEF Chains, By
  <2>3. /\ [chain EXCEPT !.user = "stray"].stage = "making"
        /\ [chain EXCEPT !.user = "stray"].user = "stray"
    BY <1>1 DEF Chains
  <2>. QED BY <2>1, <2>2, <2>3
<1>2. CASE chain.stage \in {"sent", "subSent"}
  <2>1. Outlives(chain) = At("lost") BY <1>2 DEF Outlives
  <2>. QED BY <2>1, AtType
<1>3. CASE chain.stage \notin {"making", "sent", "subSent"}
  <2>1. Outlives(chain) = chain BY <1>3 DEF Outlives
  <2>. QED BY <1>3, <2>1
<1>. QED BY <1>1, <1>2, <1>3

\* A connection that is gone.
LEMMA DroppedType ==
  ASSUME NEW x \in Sockets, NEW state \in {"closed", "closing"}
  PROVE  /\ Dropped(x, state) \in Sockets /\ Dropped(x, state).state = state
         /\ Dropped(x, state).timers = x.timers /\ Stray(Dropped(x, state))
<1> DEFINE chains == [k \in 1..MaxChains |-> Outlives(x.chains[k])]
<1>1. \A k \in 1..MaxChains : x.chains[k] \in Chains BY DEF Sockets
<1>2. /\ chains \in [1..MaxChains -> Chains]
      /\ \A k \in 1..MaxChains :
           /\ chains[k].stage \notin {"sent", "subSent"}
           /\ chains[k].stage = "making" => chains[k].user = "stray"
  BY <1>1, OutlivesType
<1>3. Dropped(x, state) = [x EXCEPT !.state = state, !.by = "nobody", !.chains = chains]
  BY DEF Dropped, Sockets
<1> HIDE DEF chains
<1>4. /\ Dropped(x, state) \in Sockets /\ Dropped(x, state).state = state
      /\ Dropped(x, state).timers = x.timers /\ Dropped(x, state).chains = chains
      /\ Dropped(x, state).by = "nobody"
  BY <1>2, <1>3 DEF Sockets, By
<1>. QED BY <1>2, <1>4 DEF Stray

\* close() ends a connection that is up, and leaves a controller alone otherwise.
LEMMA CloseType ==
  ASSUME NEW x \in Sockets
  PROVE  /\ Close(x) \in Sockets /\ Close(x).timers = x.timers
         /\ Close(x).state \notin Up /\ (Left(x) => Stray(Close(x)))
<1>1. CASE x.state \in Up
  <2>1. Close(x) = Dropped(x, "closing") BY <1>1 DEF Close
  <2>. QED BY <2>1, DroppedType DEF Up
<1>2. CASE x.state \notin Up BY <1>2 DEF Close, Left
<1>. QED BY <1>1, <1>2

\* A controller that is made has no timer and no chain.
LEMMA NewSocketType ==
  ASSUME NEW state \in {"closed", "pending"}
  PROVE  /\ NewSocket(state) \in Sockets /\ NewSocket(state).state = state
         /\ NewSocket(state).timers = 0 /\ Stray(NewSocket(state))
<1> DEFINE chains == [k \in 1..MaxChains |-> At("none")]
<1>1. /\ chains \in [1..MaxChains -> Chains]
      /\ \A k \in 1..MaxChains : chains[k].stage = "none"
  BY AtType
<1>2. NewSocket(state) = [state |-> state, timers |-> 0, broken |-> FALSE, by |-> "nobody",
                          chains |-> chains]
  BY DEF NewSocket
<1> HIDE DEF chains
<1>. QED BY <1>1, <1>2 DEF Sockets, By, Stray

\* One chain of a controller becomes another.
LEMMA GoesType ==
  ASSUME NEW x \in Sockets, NEW k \in 1..MaxChains, NEW chain \in Chains
  PROVE  /\ Goes(x, k, chain) \in Sockets /\ Goes(x, k, chain).state = x.state
         /\ Goes(x, k, chain).timers = x.timers /\ Goes(x, k, chain).by = x.by
         /\ Goes(x, k, chain).chains[k] = chain
         /\ \A n \in 1..MaxChains : n # k => Goes(x, k, chain).chains[n] = x.chains[n]
<1> DEFINE chains == [x.chains EXCEPT ![k] = chain]
<1>1. /\ chains \in [1..MaxChains -> Chains] /\ chains[k] = chain
      /\ \A n \in 1..MaxChains : n # k => chains[n] = x.chains[n]
  BY DEF Sockets
<1>2. Goes(x, k, chain) = [x EXCEPT !.chains = chains] BY DEF Goes, Sockets
<1> HIDE DEF chains
<1>. QED BY <1>1, <1>2 DEF Sockets

-------------------------------------------------------------------------------
\* The steps, one by one: what each leaves of the types, and what it does.

\* A step of an effect keeps the types if it keeps those of the owner and of the queue.
LEMMA EffectTyped ==
  ASSUME Typed, UNCHANGED Session, TypedOwner(owner'), queue' \in Seq(Actions),
         inProcess' \subseteq {"init", "close"}, reopeners' \in Nat
  PROVE  Typed'
BY DEF Typed, TypeOK, TypedOwner, Session

\* The same for a task of the browser.
LEMMA TaskTyped ==
  ASSUME Typed, UNCHANGED Apart, TypedOwner(owner'), queue' \in Seq(Actions)
  PROVE  Typed'
<1>1. UNCHANGED Session /\ inProcess' = inProcess /\ reopeners' = reopeners BY DEF Apart
<1>. QED BY <1>1, EffectTyped DEF Typed, TypeOK

\* What the typed state says of the owner, the queue and the subscriptions.
LEMMA TypedParts ==
  ASSUME Typed
  PROVE  TypedOwner(owner) /\ queue \in Seq(Actions) /\ reopeners \in Nat
BY DEF Typed, TypeOK, TypedOwner

\* The first state, with the controllers of the first link, is typed.
LEMMA InitTyped == Init => Typed
<1> SUFFICES ASSUME Init PROVE Typed OBVIOUS
<1> DEFINE link == Links[1]
           ctls == [j \in DOMAIN link |-> NewSocket("closed")]
<1>1. /\ link \in Seq(STRING) /\ Len(link) \in Nat /\ DOMAIN link = 1..Len(link)
  BY FirstLink, LinkType
<1>2. ctls \in Seq(Sockets) /\ Len(ctls) = Len(link)
  <2>1. ctls \in [1..Len(link) -> Sockets] BY <1>1, NewSocketType
  <2>. QED BY <1>1, <2>1, FunctionIsSeq
<1>3. owner.ctls = ctls /\ owner.inits = {} /\ owner.closes = {} BY DEF Init
<1>4. /\ owner.dict \in [Ids -> Nat]
      /\ \A id \in Ids : owner.dict[id] <= Len(link)
  <2>1. owner.dict = [id \in Ids |-> IF \E j \in DOMAIN link : link[j] = id
                                     THEN CHOOSE j \in DOMAIN link : link[j] = id ELSE 0]
    BY DEF Init
  <2>2. ASSUME NEW id \in Ids PROVE owner.dict[id] \in 0..Len(link)
    <3>1. CASE \E j \in DOMAIN link : link[j] = id
      <4>1. owner.dict[id] \in DOMAIN link BY <2>1, <3>1
      <4>. QED BY <1>1, <4>1
    <3>2. CASE ~\E j \in DOMAIN link : link[j] = id
      <4>1. owner.dict[id] = 0 BY <2>1, <3>2
      <4>. QED BY <1>1, <4>1
    <3>. QED BY <3>1, <3>2
  <2>. QED BY <1>1, <2>1, <2>2
<1>5. owner = [dict |-> owner.dict, ctls |-> ctls, inits |-> {}, closes |-> {}]
  BY DEF Init
<1> HIDE DEF ctls
<1>6. TypedOwner(owner)
  <2>1. owner \in Owners BY <1>2, <1>4, <1>5 DEF Owners
  <2>. QED BY <1>2, <1>3, <1>4, <2>1, FS_EmptySet DEF TypedOwner
<1>7. queue \in Seq(Actions) /\ users \in Seq({"master", "target"}) BY DEF Init
<1>. QED BY <1>6, <1>7 DEF Init, Typed, TypeOK, TypedOwner

\* The application dispatches an action.
LEMMA DispatchTyped ==
  ASSUME Typed, NEW op \in Ops, Dispatch(op)
  PROVE  Typed'
<1>1. raced' \in BOOLEAN /\ asked' \subseteq Ops /\ calls' \in Nat
  BY DEF Dispatch, Typed, TypeOK
<1>. QED BY <1>1 DEF Dispatch, Typed, TypeOK

\* The outcome of a request is the only action in the queue.
LEMMA AnsweredTyped ==
  ASSUME Typed, NEW op \in asked, NEW ok \in BOOLEAN, Answered(op, ok)
  PROVE  /\ Typed' /\ op \in {"login", "loginAgain", "loginAs", "logout"}
         /\ queue = <<>> /\ queue' = <<<<op, IF ok THEN "succeed" ELSE "errored">>>>
         /\ Queued(queue') = {<<op, IF ok THEN "succeed" ELSE "errored">>}
<1> DEFINE how == IF ok THEN "succeed" ELSE "errored"
           a == <<op, how>>
<1>1. op \in {"login", "loginAgain", "loginAs", "logout"}
  BY SocketsAssumption DEF Typed, TypeOK
<1>2. queue' = <<a>> /\ queue = <<>> BY DEF Answered
<1>3. a \in Actions /\ how \in {"succeed", "errored"} BY <1>1 DEF Actions
<1> HIDE DEF a
<1>4. queue' \in Seq(Actions) /\ Queued(queue') = {a} BY <1>2, <1>3, QueuedOne
<1>5. users \in Seq({"master", "target"}) BY DEF Typed, TypeOK
<1>6. Under \in Seq({"master", "target"})
  <2>1. CASE users = <<>> BY <1>5, <2>1 DEF Under
  <2>2. CASE users # <<>>
    <3>1. Len(users) \in Nat \ {0} BY <1>5, <2>2, EmptySeq
    <3>2. \A i \in 1..(Len(users) - 1) : users[i] \in {"master", "target"}
      BY <1>5, <3>1, ElementOfSeq
    <3>. QED BY <2>2, <3>1, <3>2, SubSeqProperties DEF Under
  <2>. QED BY <2>1, <2>2
<1>7. users' \in Seq({"master", "target"})
  <2>1. users' \in {users, Append(Under, "master"), Append(users, "target"), Under}
    BY <1>1 DEF Answered
  <2>2. /\ Append(Under, "master") \in Seq({"master", "target"})
        /\ Append(users, "target") \in Seq({"master", "target"})
    BY <1>5, <1>6, AppendProperties
  <2>. QED BY <1>5, <1>6, <2>1, <2>2
<1>8. loggedOut' \in {"no", "yes", "quietly"}
  <2>1. Len(users) \in Nat BY <1>5
  <2>2. CASE ~ok BY <2>2 DEF Answered, Typed, TypeOK
  <2>3. CASE ok /\ (op # "logout" \/ Len(users) > 1) BY <2>3 DEF Answered
  <2>4. CASE ok /\ op = "logout" /\ ~(Len(users) > 1)
    <3>1. Len(users) <= 1 BY <2>1, <2>4
    <3>2. loggedOut' = IF Quiet /\ loggedOut # "yes" THEN "quietly" ELSE "yes"
      BY <2>4, <3>1 DEF Answered
    <3>. QED BY <3>2
  <2>. QED BY <2>2, <2>3, <2>4
<1>9. Typed'
  <2>1. UNCHANGED <<owner, inProcess, reopeners, raced, calls>> /\ asked' \subseteq Ops
    BY DEF Answered, Typed, TypeOK
  <2>. QED BY <1>4, <1>7, <1>8, <2>1 DEF Typed, TypeOK
<1>. QED BY <1>1, <1>2, <1>4, <1>9 DEF a
-------------------------------------------------------------------------------
\* The queue after its first action is handled, and nothing or b is added.
LEMMA Handled ==
  ASSUME Typed, queue # <<>>, NEW b \in Actions
  PROVE  /\ Tail(queue) \in Seq(Actions) /\ Append(Tail(queue), b) \in Seq(Actions)
         /\ Queued(queue) = {Head(queue)} \cup Queued(Tail(queue))
         /\ Queued(Append(Tail(queue), b)) = Queued(Tail(queue)) \cup {b}
BY TypedParts, QueuedTail, QueuedAppend

\* openOnLogin$ turns a login that succeeds into initSockets.
LEMMA OpenOnLoginTyped ==
  ASSUME Typed, OpenOnLogin
  PROVE  /\ Typed' /\ Head(queue) \in {<<"login", "succeed">>, <<"loginAgain", "succeed">>}
         /\ Queued(queue) = {Head(queue)} \cup Queued(Tail(queue))
         /\ Queued(queue') = Queued(Tail(queue)) \cup {InitSockets}
<1>1. /\ queue # <<>> /\ queue' = Append(Tail(queue), InitSockets)
      /\ UNCHANGED <<Session, owner, inProcess, reopeners>>
      /\ Head(queue) \in {<<"login", "succeed">>, <<"loginAgain", "succeed">>}
  BY DEF OpenOnLogin
<1>2. Typed' BY <1>1, Handled, ActionsOfSockets, EffectTyped, TypedParts DEF Typed, TypeOK
<1>. QED BY <1>1, <1>2, Handled, ActionsOfSockets

\* closeOnLogout$ turns a logout that succeeds into closeSockets.
LEMMA CloseOnLogoutTyped ==
  ASSUME Typed, CloseOnLogout
  PROVE  /\ Typed' /\ Head(queue) = <<"logout", "succeed">>
         /\ Queued(queue) = {Head(queue)} \cup Queued(Tail(queue))
         /\ Queued(queue') = Queued(Tail(queue)) \cup {CloseSockets}
<1>1. /\ queue # <<>> /\ queue' = Append(Tail(queue), CloseSockets)
      /\ UNCHANGED <<Session, owner, inProcess, reopeners>>
      /\ Head(queue) = <<"logout", "succeed">>
  BY DEF CloseOnLogout
<1>2. Typed' BY <1>1, Handled, ActionsOfSockets, EffectTyped, TypedParts DEF Typed, TypeOK
<1>. QED BY <1>1, <1>2, Handled, ActionsOfSockets

\* closeOnLoginAs$ makes closeSockets of any loginAs, and one that succeeds a subscription.
LEMMA CloseOnLoginAsTyped ==
  ASSUME Typed, CloseOnLoginAs
  PROVE  /\ Typed' /\ Head(queue)[1] = "loginAs"
         /\ reopeners' = reopeners + IF Head(queue)[2] = "succeed" THEN 1 ELSE 0
         /\ Queued(queue) = {Head(queue)} \cup Queued(Tail(queue))
         /\ Queued(queue') = Queued(Tail(queue)) \cup {CloseSockets}
<1>1. /\ queue # <<>> /\ queue' = Append(Tail(queue), CloseSockets)
      /\ UNCHANGED <<Session, owner, inProcess>> /\ Head(queue)[1] = "loginAs"
      /\ reopeners' = reopeners + IF Head(queue)[2] = "succeed" THEN 1 ELSE 0
  BY DEF CloseOnLoginAs
<1>2. reopeners' \in Nat BY <1>1, TypedParts
<1>3. Typed'
  BY <1>1, <1>2, Handled, ActionsOfSockets, EffectTyped, TypedParts DEF Typed, TypeOK
<1>. QED BY <1>1, <1>3, Handled, ActionsOfSockets

\* What no effect hears leaves the queue.
LEMMA UnheardTyped ==
  ASSUME Typed, Unheard
  PROVE  /\ Typed' /\ queue' = Tail(queue)
         /\ Head(queue) \in {<<"login", "errored">>, <<"loginAgain", "errored">>,
                             <<"logout", "errored">>, InitSocketsSucceed, InitSocketsErrored}
         /\ Queued(queue) = {Head(queue)} \cup Queued(queue')
<1>1. /\ queue # <<>> /\ queue' = Tail(queue) /\ UNCHANGED <<Session, owner, reopeners>>
      /\ Head(queue) \in {<<"login", "errored">>, <<"loginAgain", "errored">>,
                          <<"logout", "errored">>, InitSocketsSucceed, InitSocketsErrored}
      /\ inProcess' \subseteq inProcess
  BY DEF Unheard
<1>2. inProcess' \subseteq {"init", "close"} BY <1>1 DEF Typed, TypeOK
<1>3. Typed'
  BY <1>1, <1>2, Handled, ActionsOfSockets, EffectTyped, TypedParts
<1>. QED BY <1>1, <1>3, Handled, ActionsOfSockets

\* Each subscription of reOpenOnLoginAs$ adds an initSockets.
LEMMA ReOpenOnLoginAsTyped ==
  ASSUME Typed, ReOpenOnLoginAs
  PROVE  /\ Typed' /\ Head(queue) = CloseSocketsFinished
         /\ Queued(queue) = {Head(queue)} \cup Queued(Tail(queue))
         /\ Queued(queue') = Queued(Tail(queue)) \cup IF reopeners = 0 THEN {} ELSE {InitSockets}
<1> DEFINE again == [n \in 1..reopeners |-> InitSockets]
<1>1. /\ queue # <<>> /\ queue' = Tail(queue) \o again /\ UNCHANGED <<Session, owner, reopeners>>
      /\ Head(queue) = CloseSocketsFinished /\ inProcess' \subseteq inProcess
  BY DEF ReOpenOnLoginAs
<1>2. /\ again \in Seq(Actions) /\ Queued(again) = IF reopeners = 0 THEN {} ELSE {InitSockets}
  BY ActionsOfSockets, TypedParts, QueuedRepeat
<1> HIDE DEF again
<1>3. /\ Tail(queue) \in Seq(Actions) /\ Queued(queue) = {Head(queue)} \cup Queued(Tail(queue))
  BY <1>1, Handled, ActionsOfSockets
<1>4. queue' \in Seq(Actions) /\ Queued(queue') = Queued(Tail(queue)) \cup Queued(again)
  BY <1>1, <1>2, <1>3, QueuedConcat
<1>5. inProcess' \subseteq {"init", "close"} BY <1>1 DEF Typed, TypeOK
<1>6. Typed' BY <1>1, <1>4, <1>5, EffectTyped, TypedParts
<1>. QED BY <1>1, <1>2, <1>3, <1>4, <1>6

\* closeAll() takes the sockets that the owner holds and that are up.
LEMMA CallCloseAllTyped ==
  ASSUME Typed, CallCloseAll
  PROVE  LET up == {c \in DOMAIN owner.ctls : Owned(c) /\ owner.ctls[c].state \in Up}
         IN  /\ Typed' /\ Head(queue) = CloseSockets
             /\ Queued(queue) = {Head(queue)} \cup Queued(Tail(queue))
             /\ IF up = {} THEN Queued(queue') = Queued(Tail(queue)) \cup {CloseSocketsFinished}
                           ELSE Queued(queue') = Queued(Tail(queue)) /\ owner'.closes # {}
             /\ owner.closes \subseteq owner'.closes
             /\ owner'.dict = owner.dict /\ owner'.inits = owner.inits
             /\ DOMAIN owner'.ctls = DOMAIN owner.ctls
             /\ \A c \in DOMAIN owner.ctls :
                  IF c \in up
                  THEN /\ owner'.ctls[c].state = "closing" /\ Stray(owner'.ctls[c])
                       /\ owner'.ctls[c].timers = owner.ctls[c].timers
                  ELSE owner'.ctls[c] = owner.ctls[c]
<1> DEFINE up == {c \in DOMAIN owner.ctls : Owned(c) /\ owner.ctls[c].state \in Up}
           ctls == [c \in DOMAIN owner.ctls |->
                      IF c \in up THEN Dropped(owner.ctls[c], "closing") ELSE owner.ctls[c]]
           closes == IF up = {} THEN owner.closes ELSE owner.closes \cup {up}
           o == [owner EXCEPT !.ctls = ctls]
<1>1. /\ TypedOwner(owner) /\ owner.ctls \in Seq(Sockets) /\ Len(owner.ctls) \in Nat
      /\ DOMAIN owner.ctls = 1..Len(owner.ctls) /\ owner.closes \in SUBSET ((SUBSET Nat) \ {{}})
  BY TypedParts DEF TypedOwner, Owners
<1>2. /\ queue # <<>> /\ Head(queue) = CloseSockets /\ UNCHANGED <<Session, reopeners>>
      /\ queue' = IF up = {} THEN Append(Tail(queue), CloseSocketsFinished) ELSE Tail(queue)
      /\ inProcess' = inProcess \cup {"close"}
      /\ owner' = [owner EXCEPT
             !.ctls = [c \in DOMAIN @ |-> IF c \in up THEN Dropped(@[c], "closing") ELSE @[c]],
             !.closes = IF up = {} THEN @ ELSE @ \cup {up}]
  BY DEF CallCloseAll
<1>3. owner' = [o EXCEPT !.closes = closes] BY <1>1, <1>2 DEF TypedOwner, Owners
<1>4. \A c \in DOMAIN owner.ctls :
        IF c \in up
        THEN /\ ctls[c].state = "closing" /\ Stray(ctls[c]) /\ ctls[c] \in Sockets
             /\ ctls[c].timers = owner.ctls[c].timers
        ELSE ctls[c] = owner.ctls[c] /\ ctls[c] \in Sockets
  BY <1>1, SocketType, DroppedType
<1>5. up \subseteq Nat BY <1>1
<1>6. closes \in SUBSET ((SUBSET Nat) \ {{}}) /\ owner.closes \subseteq closes
      /\ (up # {} => closes # {})
  BY <1>1, <1>5
<1>7. ctls \in [1..Len(owner.ctls) -> Sockets] BY <1>1, <1>4
<1>8. ctls \in Seq(Sockets) /\ Len(ctls) = Len(owner.ctls) BY <1>1, <1>7, FunctionIsSeq
<1> HIDE DEF ctls, closes
<1>9. /\ TypedOwner(o) /\ o.ctls = ctls /\ DOMAIN ctls = DOMAIN owner.ctls
      /\ o.dict = owner.dict /\ o.inits = owner.inits
  BY <1>1, <1>8, CtlsTyped
<1> HIDE DEF o
<1>10. /\ TypedOwner(owner') /\ owner'.ctls = ctls /\ owner'.closes = closes
       /\ owner'.dict = owner.dict /\ owner'.inits = owner.inits
  BY <1>3, <1>6, <1>9, ClosesTyped
<1> HIDE DEF up
<1>11. /\ Queued(queue) = {Head(queue)} \cup Queued(Tail(queue)) /\ queue' \in Seq(Actions)
       /\ Queued(queue') = Queued(Tail(queue))
                             \cup IF up = {} THEN {CloseSocketsFinished} ELSE {}
  BY <1>2, Handled, ActionsOfSockets
<1>12. inProcess' \subseteq {"init", "close"} /\ reopeners' \in Nat
  BY <1>2 DEF Typed, TypeOK
<1>13. Typed' BY <1>2, <1>10, <1>11, <1>12, EffectTyped
<1>14. /\ Typed' /\ Head(queue) = CloseSockets
       /\ Queued(queue) = {Head(queue)} \cup Queued(Tail(queue))
       /\ IF up = {} THEN Queued(queue') = Queued(Tail(queue)) \cup {CloseSocketsFinished}
                     ELSE Queued(queue') = Queued(Tail(queue)) /\ owner'.closes # {}
       /\ owner.closes \subseteq owner'.closes
       /\ owner'.dict = owner.dict /\ owner'.inits = owner.inits
       /\ DOMAIN owner'.ctls = DOMAIN owner.ctls
  BY <1>2, <1>6, <1>9, <1>10, <1>11, <1>13
<1>. QED BY <1>4, <1>10, <1>14 DEF up
-------------------------------------------------------------------------------
\* Calls of init() that become others stay finitely many.
LEMMA MappedInits ==
  ASSUME NEW inits \in SUBSET Inits, IsFiniteSet(inits), NEW f \in [inits -> Inits]
  PROVE  {f[i] : i \in inits} \in SUBSET Inits /\ IsFiniteSet({f[i] : i \in inits})
<1>1. DOMAIN f = inits OBVIOUS
<1>2. LET T == {f[x] : x \in inits} IN IsFiniteSet(T) /\ Cardinality(T) <= Cardinality(inits)
  BY <1>1, ImageFinite
<1>. QED BY <1>2

\* What a call of init() does to the controllers: some that were closed are pending.
OnlyOpens(o, d) ==
  /\ d.dict = o.dict /\ d.closes = o.closes /\ DOMAIN d.ctls = DOMAIN o.ctls
  /\ \A c \in DOMAIN o.ctls :
       \/ d.ctls[c] = o.ctls[c]
       \/ o.ctls[c].state = "closed" /\ d.ctls[c] = [o.ctls[c] EXCEPT !.state = "pending"]

\* init() opens the first link, and throws, fails at once, or begins to wait.
LEMMA CallInitTyped ==
  ASSUME Typed, CallInit
  PROVE  /\ Typed' /\ Head(queue) = InitSockets /\ OnlyOpens(owner, owner')
         /\ Queued(queue) = {Head(queue)} \cup Queued(Tail(queue))
         /\ Queued(Tail(queue)) \subseteq Queued(queue')
         /\ Queued(queue') \subseteq Queued(Tail(queue)) \cup {InitSocketsErrored}
         /\ \/ Throws
            \/ InitSocketsErrored \in Queued(queue')
            \/ \E i \in owner'.inits : i.heard
<1> DEFINE link == Links[1]
           at(j) == owner.dict[link[j]]
           opened == {j \in DOMAIN link : \A m \in 1..j : owner.ctls[at(m)].state = "closed"}
           ctls == [c \in DOMAIN owner.ctls |->
                      IF \E j \in opened : at(j) = c
                      THEN [owner.ctls[c] EXCEPT !.state = "pending"]
                      ELSE owner.ctls[c]]
           awaits == {at(j) : j \in DOMAIN link}
           free == CHOOSE n \in 0..Cardinality(owner.inits) : \A i \in owner.inits : i.id # n
           call == [id |-> free, link |-> 1, auths |-> awaits, subs |-> awaits, heard |-> TRUE]
           deaf == {[i EXCEPT !.heard = FALSE] : i \in owner.inits}
           o == [owner EXCEPT !.ctls = ctls]
<1>1. /\ TypedOwner(owner) /\ owner.ctls \in Seq(Sockets) /\ Len(owner.ctls) \in Nat
      /\ DOMAIN owner.ctls = 1..Len(owner.ctls)
      /\ owner.inits \in SUBSET Inits /\ IsFiniteSet(owner.inits)
      /\ owner.dict \in [Ids -> Nat]
  BY TypedParts DEF TypedOwner, Owners
<1>2. /\ queue # <<>> /\ Head(queue) = InitSockets /\ inProcess' = inProcess \cup {"init"}
      /\ UNCHANGED <<Session, reopeners>>
  BY DEF CallInit
<1>3. \/ /\ opened # DOMAIN link
         /\ owner' = [owner EXCEPT !.ctls = ctls,
                                   !.inits = {[i EXCEPT !.heard = FALSE] : i \in @}]
         /\ queue' = Tail(queue)
      \/ /\ owner' = [owner EXCEPT !.ctls = ctls]
         /\ queue' = Append(Tail(queue), InitSocketsErrored)
      \/ /\ owner' = [owner EXCEPT !.ctls = ctls, !.inits = @ \cup {call}]
         /\ queue' = Tail(queue)
  <2>1. CASE opened # DOMAIN link BY <2>1 DEF CallInit
  <2>2. CASE opened = DOMAIN link /\ \E c \in awaits : owner.ctls[c].broken
    BY <2>2 DEF CallInit
  <2>3. CASE opened = DOMAIN link /\ \A c \in awaits : ~owner.ctls[c].broken
    BY <2>3 DEF CallInit
  <2>. QED
    <3>1. \/ \E c \in awaits : owner.ctls[c].broken
          \/ \A c \in awaits : ~owner.ctls[c].broken
      OBVIOUS
    <3>. QED BY <2>1, <2>2, <2>3, <3>1
<1>4. opened # DOMAIN link => Throws
  <2>1. link \in Seq(STRING) /\ DOMAIN link = 1..Len(link) BY FirstLink, LinkType
  <2>2. ASSUME opened # DOMAIN link PROVE Throws
    <3>1. PICK j \in DOMAIN link : j \notin opened BY <2>2
    <3>2. PICK m \in 1..j : owner.ctls[at(m)].state # "closed" BY <3>1
    <3>3. m \in DOMAIN link
      <4>1. j \in 1..Len(link) /\ m \in 1..j BY <2>1, <3>1, <3>2
      <4>2. Len(link) \in Nat BY <2>1, LenProperties
      <4> HIDE DEF link, at, opened
      <4>3. m \in 1..Len(link) BY <4>1, <4>2
      <4>. QED BY <2>1, <4>3
    <3>. QED BY <3>2, <3>3 DEF Throws
  <2>. QED BY <2>2
<1>5. awaits \in SUBSET Nat
  <2>1. \A j \in DOMAIN link : link[j] \in Ids BY FirstLink, LinkType
  <2>. QED BY <1>1, <2>1
<1>6. free \in Nat /\ \A j \in opened : owner.ctls[at(j)].state = "closed"
  <2>1. DOMAIN link = 1..Len(link) BY FirstLink, LinkType
  <2>2. ASSUME NEW j \in opened PROVE owner.ctls[at(j)].state = "closed"
    <3>1. j \in 1..j BY <2>1
    <3>. QED BY <3>1
  <2>. QED BY <1>1, <2>2, FreeId
<1> HIDE DEF opened, awaits, free
<1>7. call \in Inits /\ call.heard BY <1>5, <1>6, FirstLink DEF Inits
<1>8. ASSUME NEW c \in DOMAIN owner.ctls
      PROVE  /\ ctls[c] \in Sockets
             /\ \/ ctls[c] = owner.ctls[c]
                \/ /\ owner.ctls[c].state = "closed"
                   /\ ctls[c] = [owner.ctls[c] EXCEPT !.state = "pending"]
  <2>1. owner.ctls[c] \in Sockets BY <1>1, SocketType
  <2>2. CASE \E j \in opened : at(j) = c
    <3>1. owner.ctls[c].state = "closed" BY <1>6, <2>2
    <3>2. ctls[c] = [owner.ctls[c] EXCEPT !.state = "pending"] BY <2>2
    <3>3. [owner.ctls[c] EXCEPT !.state = "pending"] \in Sockets BY <2>1 DEF Sockets
    <3> HIDE DEF ctls
    <3>. QED BY <3>1, <3>2, <3>3
  <2>3. CASE ~\E j \in opened : at(j) = c
    <3>1. ctls[c] = owner.ctls[c] BY <2>3
    <3> HIDE DEF ctls
    <3>. QED BY <2>1, <3>1
  <2>. QED BY <2>2, <2>3
<1>9. ctls \in Seq(Sockets) /\ Len(ctls) = Len(owner.ctls)
  <2>1. ctls \in [1..Len(owner.ctls) -> Sockets] BY <1>1, <1>8
  <2>. QED BY <1>1, <2>1, FunctionIsSeq
<1>10. deaf \in SUBSET Inits /\ IsFiniteSet(deaf)
  <2> DEFINE f == [i \in owner.inits |-> [i EXCEPT !.heard = FALSE]]
  <2>1. f \in [owner.inits -> Inits] BY <1>1 DEF Inits
  <2>2. deaf = {f[i] : i \in owner.inits} OBVIOUS
  <2> HIDE DEF f, deaf
  <2>. QED BY <1>1, <2>1, <2>2, MappedInits
<1>11. owner.inits \cup {call} \in SUBSET Inits /\ IsFiniteSet(owner.inits \cup {call})
  BY <1>1, <1>7, FS_AddElement
<1> HIDE DEF ctls, call, deaf
<1>12. /\ TypedOwner(o) /\ o.ctls = ctls /\ DOMAIN ctls = DOMAIN owner.ctls
       /\ o.dict = owner.dict /\ o.inits = owner.inits /\ o.closes = owner.closes
  BY <1>1, <1>9, CtlsTyped
<1>13. \/ opened # DOMAIN link /\ owner' = [o EXCEPT !.inits = deaf] /\ queue' = Tail(queue)
       \/ owner' = o /\ queue' = Append(Tail(queue), InitSocketsErrored)
       \/ owner' = [o EXCEPT !.inits = owner.inits \cup {call}] /\ queue' = Tail(queue)
  BY <1>1, <1>3 DEF TypedOwner, Owners, deaf
<1> HIDE DEF o
<1>14. /\ TypedOwner(owner') /\ owner'.ctls = ctls
       /\ owner'.dict = owner.dict /\ owner'.closes = owner.closes
       /\ \/ opened # DOMAIN link /\ queue' = Tail(queue)
          \/ queue' = Append(Tail(queue), InitSocketsErrored)
          \/ owner'.inits = owner.inits \cup {call} /\ queue' = Tail(queue)
  <2>1. CASE opened # DOMAIN link /\ owner' = [o EXCEPT !.inits = deaf] /\ queue' = Tail(queue)
    BY <1>10, <1>12, <2>1, InitsTyped
  <2>2. CASE owner' = o /\ queue' = Append(Tail(queue), InitSocketsErrored) BY <1>12, <2>2
  <2>3. CASE /\ owner' = [o EXCEPT !.inits = owner.inits \cup {call}]
             /\ queue' = Tail(queue)
    <3> DEFINE inits == owner.inits \cup {call}
    <3>1. inits \in SUBSET Inits /\ IsFiniteSet(inits) BY <1>11
    <3> HIDE DEF inits
    <3>2. LET p == [o EXCEPT !.inits = inits]
          IN  /\ TypedOwner(p) /\ p.inits = inits /\ p.ctls = o.ctls /\ p.dict = o.dict
              /\ p.closes = o.closes
      BY <1>12, <3>1, InitsTyped
    <3>. QED BY <1>12, <2>3, <3>2 DEF inits
  <2>. QED BY <1>13, <2>1, <2>2, <2>3
<1>15. /\ Queued(queue) = {Head(queue)} \cup Queued(Tail(queue)) /\ queue' \in Seq(Actions)
       /\ Queued(queue') = Queued(Tail(queue))
            \/ Queued(queue') = Queued(Tail(queue)) \cup {InitSocketsErrored}
       /\ queue' # Tail(queue) => InitSocketsErrored \in Queued(queue')
  BY <1>2, <1>14, Handled, ActionsOfSockets
<1>16. inProcess' \subseteq {"init", "close"} /\ reopeners' \in Nat
  BY <1>2 DEF Typed, TypeOK
<1>17. Typed' BY <1>2, <1>14, <1>15, <1>16, EffectTyped
<1>18. OnlyOpens(owner, owner') BY <1>8, <1>12, <1>14 DEF OnlyOpens
<1>19. Throws \/ InitSocketsErrored \in Queued(queue') \/ \E i \in owner'.inits : i.heard
  <2>1. call \in owner.inits \cup {call} OBVIOUS
  <2>2. queue' = Append(Tail(queue), InitSocketsErrored)
          => InitSocketsErrored \in Queued(queue')
    BY <1>2, Handled, ActionsOfSockets
  <2>. QED BY <1>4, <1>7, <1>14, <2>1, <2>2
<1>. QED BY <1>2, <1>15, <1>17, <1>18, <1>19
-------------------------------------------------------------------------------
\* The tasks of the browser.

\* One controller changes, and calls of init() may fail because of that.
OnlyOne(o, d, c) ==
  /\ d.dict = o.dict /\ DOMAIN d.ctls = DOMAIN o.ctls /\ c \in DOMAIN o.ctls
  /\ \A b \in DOMAIN o.ctls : b # c => d.ctls[b] = o.ctls[b]

\* If a call of init() that is heard has failed, that is in the queue.
FailuresHeard ==
  (\E i \in owner.inits : i.heard)
    => (\E i \in owner'.inits : i.heard) \/ InitSocketsErrored \in Queued(queue')

\* When those fail that wait for c, FailedHeard(c) tells.
LEMMA FailureIsHeard ==
  ASSUME NEW c, owner'.inits = {i \in owner.inits : c \notin Awaits(i)},
         InitSocketsErrored \in Queued(queue') \/ queue' = FailedHeard(c)
  PROVE  FailuresHeard
<1>1. CASE \E i \in owner.inits : c \in Awaits(i) /\ i.heard
  <2>1. FailedHeard(c) = <<InitSocketsErrored>> BY <1>1 DEF FailedHeard
  <2>. QED BY <2>1, QueuedOne DEF FailuresHeard
<1>2. CASE ~\E i \in owner.inits : c \in Awaits(i) /\ i.heard BY <1>2 DEF FailuresHeard
<1>. QED BY <1>1, <1>2

\* What a task does to the owner when it changes controller c.
Touches(c) ==
  /\ OnlyOne(owner, owner', c) /\ queue = <<>>
  /\ owner.inits = {} => owner'.inits = {}
  /\ owner'.closes = owner.closes
  /\ Queued(queue') \subseteq {InitSocketsErrored} /\ FailuresHeard

\* A controller becomes x, and calls of init() may fail.
LEMMA BecomesTyped ==
  ASSUME Typed, NEW c \in DOMAIN owner.ctls, NEW x \in Sockets, queue = <<>>,
         Becomes(c, x) \/ BecomesFailed(c, x)
  PROVE  Typed' /\ Touches(c) /\ owner'.ctls[c] = x
<1> DEFINE o == Changed(owner, c, x)
<1>1. /\ TypedOwner(o) /\ o.ctls[c] = x /\ OnlyOne(owner, o, c)
      /\ o.inits = owner.inits /\ o.closes = owner.closes
  BY TypedParts, ChangedTyped DEF OnlyOne
<1> HIDE DEF o
<1>2. CASE BecomesFailed(c, x)
  <2>1. owner' = Failed(o, c) /\ queue' = FailedHeard(c) /\ UNCHANGED Apart
    BY <1>2 DEF BecomesFailed, o
  <2>2. /\ TypedOwner(owner') /\ owner'.inits = {i \in owner.inits : c \notin Awaits(i)}
        /\ owner'.ctls = o.ctls /\ owner'.dict = o.dict /\ owner'.closes = o.closes
    BY <1>1, <2>1, FailedTyped
  <2>3. Typed' BY <2>1, <2>2, TaskTyped, FailedHeardType
  <2>4. FailuresHeard BY <2>1, <2>2, FailureIsHeard
  <2>. QED BY <1>1, <2>1, <2>2, <2>3, <2>4, FailedHeardType DEF Touches, OnlyOne
<1>3. CASE Becomes(c, x)
  <2>1. owner' = o /\ queue' = <<>> /\ UNCHANGED Apart BY <1>3 DEF Becomes, o
  <2>2. Typed' BY <1>1, <2>1, TaskTyped, EmptySeq
  <2>. QED BY <1>1, <2>1, <2>2, QueuedNone DEF Touches, OnlyOne, FailuresHeard
<1>. QED BY <1>2, <1>3

\* A controller becomes x, and the calls of init() wait on, for less.
LEMMA EmitsTyped ==
  ASSUME Typed, NEW c \in DOMAIN owner.ctls, NEW x \in Sockets, queue = <<>>, queue' = <<>>,
         UNCHANGED Apart, NEW f \in [owner.inits -> Inits],
         \A i \in owner.inits : f[i].heard = i.heard,
         owner' = [Changed(owner, c, x) EXCEPT !.inits = {f[i] : i \in owner.inits}]
  PROVE  Typed' /\ Touches(c) /\ owner'.ctls[c] = x
<1> DEFINE o == Changed(owner, c, x)
           inits == {f[i] : i \in owner.inits}
<1>1. TypedOwner(owner) /\ owner.inits \in SUBSET Inits /\ IsFiniteSet(owner.inits)
  BY TypedParts DEF TypedOwner, Owners
<1>2. /\ TypedOwner(o) /\ o.ctls[c] = x /\ OnlyOne(owner, o, c)
      /\ o.closes = owner.closes
  BY <1>1, ChangedTyped DEF OnlyOne
<1>3. inits \in SUBSET Inits /\ IsFiniteSet(inits) BY <1>1, MappedInits
<1>4. /\ (\E i \in owner.inits : i.heard) => (\E i \in inits : i.heard)
      /\ owner.inits = {} => inits = {}
  OBVIOUS
<1>5. owner' = [o EXCEPT !.inits = inits] OBVIOUS
<1> HIDE DEF o, inits
<1>6. /\ TypedOwner(owner') /\ owner'.inits = inits /\ owner'.ctls = o.ctls
      /\ owner'.dict = o.dict /\ owner'.closes = o.closes
  <2>1. LET p == [o EXCEPT !.inits = inits]
        IN  /\ TypedOwner(p) /\ p.inits = inits /\ p.ctls = o.ctls /\ p.dict = o.dict
            /\ p.closes = o.closes
    BY <1>2, <1>3, InitsTyped
  <2>. QED BY <1>5, <2>1
<1>7. Typed' BY <1>6, TaskTyped, EmptySeq
<1>. QED BY <1>2, <1>4, <1>6, <1>7, QueuedNone DEF Touches, OnlyOne, FailuresHeard

\* Controller x becomes y by a step of a chain: no connection comes up by that, and it has
\* no other users than x and the present one.
Follows(x, y) ==
  /\ y.timers = x.timers /\ (x.state \notin Up => y.state \notin Up)
  /\ Left(x) => Left(y) /\ (Mine(x) => Mine(y))

\* The chain k of a controller goes on as one that carries no user, or the present one.
LEMMA GoesFollows ==
  ASSUME NEW x \in Sockets, NEW k \in 1..MaxChains, NEW chain \in Chains, NEW y,
         y = Goes(x, k, chain),
         chain.stage \in {"sent", "subSent"} => x.state \in Up,
         chain.stage \in {"making", "sent"}
           => \/ chain.user = IF x.state \in Up THEN User ELSE "stray"
              \/ x.chains[k].stage = "making" /\ chain.user = x.chains[k].user
  PROVE  y \in Sockets /\ Follows(x, y) /\ y.chains[k] = chain
BY GoesType DEF Follows, Left, Mine, Stray, Trusted

\* The present user is one that an authorization can carry.
LEMMA UserType == ASSUME Typed PROVE User \in By
<1>1. users \in Seq({"master", "target"}) BY DEF Typed, TypeOK
<1>2. users # <<>> => users[Len(users)] \in {"master", "target"}
  BY <1>1, EmptySeq, ElementOfSeq
<1>. QED BY <1>2 DEF User, By

\* One step per action of a chain: what it makes of the types and of its controller.
LEMMA ChainTyped ==
  ASSUME Typed, NEW c \in DOMAIN owner.ctls, NEW k \in 1..MaxChains, OfChain(c, k)
  PROVE  /\ Typed' /\ Touches(c) /\ UNCHANGED Apart
         /\ Left(owner.ctls[c]) => Follows(owner.ctls[c], owner'.ctls[c])
<1> DEFINE x == owner.ctls[c]
           Good == /\ Typed' /\ Touches(c) /\ UNCHANGED Apart
                   /\ Left(x) => Follows(x, owner'.ctls[c])
<1>1. /\ x \in Sockets /\ x.chains[k] \in Chains
      /\ TypedOwner(owner) /\ owner.inits \in SUBSET Inits
  <2>1. x \in Sockets /\ TypedOwner(owner) BY TypedParts, SocketType
  <2>2. owner.inits \in SUBSET Inits BY <2>1 DEF TypedOwner, Owners
  <2> HIDE DEF x
  <2>3. x.chains[k] \in Chains BY <2>1 DEF Sockets
  <2>. QED BY <2>1, <2>2, <2>3
<1> SUFFICES Good OBVIOUS
<1> HIDE DEF x
<1> HIDE DEF Good
<1>2. CASE Opens(c, k)
  <2> DEFINE y == [x EXCEPT !.state = "opened"]
             z == Goes(y, k, At("tokens"))
  <2>1. /\ queue = <<>> /\ x.state = "pending" /\ Becomes(c, z) /\ UNCHANGED Apart
    BY <1>2 DEF Opens, Becomes, x
  <2>2. y \in Sockets /\ Follows(x, y)
    <3>1. /\ y \in Sockets /\ y.state = "opened" /\ y.timers = x.timers
          /\ y.chains = x.chains /\ y.by = x.by
      BY <1>1 DEF Sockets
    <3> HIDE DEF y
    <3>2. x.state \in Up /\ y.state \in Up BY <2>1, <3>1 DEF Up
    <3>. QED BY <3>1, <3>2 DEF Follows, Left, Mine
  <2> HIDE DEF y
  <2>3. z \in Sockets /\ Follows(y, z) BY <2>2, AtType, GoesFollows
  <2> HIDE DEF z
  <2>4. Typed' /\ Touches(c) /\ owner'.ctls[c] = z BY <2>1, <2>3, BecomesTyped
  <2>. QED BY <2>1, <2>2, <2>3, <2>4 DEF Follows, Good
<1>3. CASE TokensCome(c, k)
  <2> DEFINE chain == [stage |-> "making", user |-> IF x.state \in Up THEN User ELSE "stray"]
             z == Goes(x, k, chain)
  <2>1. queue = <<>> /\ Becomes(c, z) /\ UNCHANGED Apart BY <1>3 DEF TokensCome, Becomes, x
  <2>2. chain \in Chains BY UserType DEF Chains, By
  <2>3. z \in Sockets /\ Follows(x, z) BY <1>1, <2>2, GoesFollows
  <2> HIDE DEF z
  <2>4. Typed' /\ Touches(c) /\ owner'.ctls[c] = z BY <2>1, <2>3, BecomesTyped
  <2>. QED BY <2>1, <2>3, <2>4 DEF Good
<1>4. ASSUME NEW chain \in Chains, queue = <<>>, Becomes(c, Goes(x, k, chain)),
             chain.stage \in {"sent", "subSent"} => x.state \in Up,
             chain.stage \in {"making", "sent"}
               => x.chains[k].stage = "making" /\ chain.user = x.chains[k].user
      PROVE  Good
  <2> DEFINE z == Goes(x, k, chain)
  <2>1. z \in Sockets /\ Follows(x, z) BY <1>1, <1>4, GoesFollows
  <2>2. Becomes(c, z) /\ UNCHANGED Apart BY <1>4 DEF Becomes
  <2> HIDE DEF z
  <2>3. Typed' /\ Touches(c) /\ owner'.ctls[c] = z BY <1>4, <2>1, <2>2, BecomesTyped
  <2>. QED BY <2>1, <2>2, <2>3 DEF Good
<1>5. CASE Makes(c, k)
  <2>1. queue = <<>> BY <1>5 DEF Makes
  <2>2. CASE Becomes(c, Goes(x, k, At("lost"))) BY <1>4, <2>1, <2>2, AtType
  <2>3. CASE /\ x.chains[k].stage = "making" /\ x.state \in Open
             /\ Becomes(c, Goes(x, k, [x.chains[k] EXCEPT !.stage = "sent"]))
    <3> DEFINE chain == [x.chains[k] EXCEPT !.stage = "sent"]
    <3>1. chain \in Chains /\ chain.user = x.chains[k].user BY <1>1 DEF Chains
    <3>2. x.state \in Up BY <2>3 DEF Open, Up
    <3>. QED BY <1>4, <2>1, <2>3, <3>1, <3>2
  <2>4. CASE x.state \in Open /\ Becomes(c, Goes(x, k, At("subSent")))
    <3>1. x.state \in Up BY <2>4 DEF Open, Up
    <3>. QED BY <1>4, <2>1, <2>4, <3>1, AtType
  <2>. QED BY <1>5, <2>2, <2>3, <2>4 DEF Makes, x
<1>6. CASE Ends(c, k)
  <2>1. queue = <<>> /\ Becomes(c, Goes(x, k, At("none"))) BY <1>6 DEF Ends, x
  <2>. QED BY <1>4, <2>1, AtType
<1>7. ASSUME NEW y \in Sockets, queue = <<>>, Follows(x, y),
             LET z == Close(Goes(y, k, At("none")))
             IN  Becomes(c, z) \/ BecomesFailed(c, z)
      PROVE  Good
  <2> DEFINE w == Goes(y, k, At("none"))
             z == Close(w)
  <2>1. w \in Sockets /\ Follows(y, w) BY <1>7, AtType, GoesFollows
  <2>2. Left(x) => Left(w) BY <1>7, <2>1 DEF Follows
  <2> HIDE DEF w
  <2>3. z \in Sockets /\ z.timers = w.timers /\ z.state \notin Up /\ (Left(w) => Stray(z))
    BY <2>1, CloseType
  <2>4. Becomes(c, z) \/ BecomesFailed(c, z) BY <1>7 DEF w
  <2> HIDE DEF z
  <2>5. Typed' /\ Touches(c) /\ owner'.ctls[c] = z BY <1>7, <2>3, <2>4, BecomesTyped
  <2>6. UNCHANGED Apart BY <2>4 DEF Becomes, BecomesFailed
  <2>. QED BY <1>7, <2>1, <2>2, <2>3, <2>5, <2>6 DEF Follows, Left, Mine, Good
<1>8. CASE MakesNone(c, k)
  <2>1. queue = <<>> /\ Becomes(c, Close(Goes(x, k, At("none")))) BY <1>8 DEF MakesNone, x
  <2>2. Follows(x, x) BY DEF Follows
  <2>. QED BY <1>1, <1>7, <2>1, <2>2
<1>9. CASE Fails(c, k)
  <2> DEFINE y == [x EXCEPT !.broken = TRUE]
  <2>1. queue = <<>> /\ BecomesFailed(c, Close(Goes(y, k, At("none"))))
    BY <1>9 DEF Fails, x
  <2>2. y \in Sockets /\ Follows(x, y)
    <3>1. /\ y \in Sockets /\ y.state = x.state /\ y.timers = x.timers
          /\ y.chains = x.chains /\ y.by = x.by
      BY <1>1 DEF Sockets
    <3> HIDE DEF y
    <3>. QED BY <3>1 DEF Follows, Left, Mine, Stray
  <2> HIDE DEF y
  <2>. QED BY <1>7, <2>1, <2>2
<1>10. CASE Authorizes(c, k)
  <2> DEFINE y == [x EXCEPT !.state = "authorized", !.by = x.chains[k].user]
             z == Goes(y, k, At("subMaking"))
             f == [i \in owner.inits |-> [i EXCEPT !.auths = @ \ {c}]]
  <2>1. /\ queue = <<>> /\ queue' = <<>> /\ UNCHANGED Apart /\ x.chains[k].stage = "sent"
    BY <1>10 DEF Authorizes, x
  <2>2. y \in Sockets /\ (Left(x) => Follows(x, y))
    <3>1. /\ y \in Sockets /\ y.state = "authorized" /\ y.timers = x.timers
          /\ y.chains = x.chains /\ y.by = x.chains[k].user
      BY <1>1 DEF Sockets, Chains
    <3> HIDE DEF y
    <3>. QED BY <2>1, <3>1 DEF Follows, Left, Mine, Stray, Up, Trusted
  <2> HIDE DEF y
  <2>3. z \in Sockets /\ Follows(y, z) BY <2>2, AtType, GoesFollows
  <2> HIDE DEF z
  <2>4. f \in [owner.inits -> Inits] /\ \A i \in owner.inits : f[i].heard = i.heard
    BY <1>1 DEF Inits
  <2>5. owner' = [Changed(owner, c, z) EXCEPT !.inits = {f[i] : i \in owner.inits}]
    <3> DEFINE o == Changed(owner, c, z)
    <3>1. o \in Owners /\ o.inits = owner.inits
      BY <1>1, <2>3, ChangedTyped DEF TypedOwner
    <3> HIDE DEF o
    <3>2. owner' = [o EXCEPT !.inits = {[i EXCEPT !.auths = @ \ {c}] : i \in o.inits}]
      BY <1>10, <3>1 DEF Authorizes, Owners, o, x, y, z
    <3>. QED BY <3>1, <3>2 DEF o
  <2> HIDE DEF f
  <2>6. Typed' /\ Touches(c) /\ owner'.ctls[c] = z
    BY <2>1, <2>3, <2>4, <2>5, EmitsTyped
  <2>. QED BY <2>1, <2>2, <2>3, <2>6 DEF Follows, Good
<1>11. CASE Subscribes(c, k)
  <2> DEFINE y == [x EXCEPT !.state = "subscribed"]
             z == Goes(y, k, At("none"))
             f == [i \in owner.inits |-> [i EXCEPT !.subs = @ \ {c}]]
  <2>1. /\ queue = <<>> /\ queue' = <<>> /\ UNCHANGED Apart /\ x.chains[k].stage = "subSent"
    BY <1>11 DEF Subscribes, x
  <2>2. y \in Sockets /\ (Left(x) => Follows(x, y))
    <3>1. /\ y \in Sockets /\ y.state = "subscribed" /\ y.timers = x.timers
          /\ y.chains = x.chains /\ y.by = x.by
      BY <1>1 DEF Sockets, Chains
    <3> HIDE DEF y
    <3>. QED BY <2>1, <3>1 DEF Follows, Left, Mine, Stray, Up, Trusted
  <2> HIDE DEF y
  <2>3. z \in Sockets /\ Follows(y, z) BY <2>2, AtType, GoesFollows
  <2> HIDE DEF z
  <2>4. f \in [owner.inits -> Inits] /\ \A i \in owner.inits : f[i].heard = i.heard
    BY <1>1 DEF Inits
  <2>5. owner' = [Changed(owner, c, z) EXCEPT !.inits = {f[i] : i \in owner.inits}]
    <3> DEFINE o == Changed(owner, c, z)
    <3>1. o \in Owners /\ o.inits = owner.inits
      BY <1>1, <2>3, ChangedTyped DEF TypedOwner
    <3> HIDE DEF o
    <3>2. owner' = [o EXCEPT !.inits = {[i EXCEPT !.subs = @ \ {c}] : i \in o.inits}]
      BY <1>11, <3>1 DEF Subscribes, Owners, o, x, y, z
    <3>. QED BY <3>1, <3>2 DEF o
  <2> HIDE DEF f
  <2>6. Typed' /\ Touches(c) /\ owner'.ctls[c] = z
    BY <2>1, <2>3, <2>4, <2>5, EmitsTyped
  <2>. QED BY <2>1, <2>2, <2>3, <2>6 DEF Follows, Good
<1>. QED BY <1>2, <1>3, <1>5, <1>6, <1>8, <1>9, <1>10, <1>11 DEF OfChain, x

\* A connection that is up is lost, and a timer may be started.
LEMMA LostTyped ==
  ASSUME Typed, NEW c \in DOMAIN owner.ctls, NEW errored \in BOOLEAN, Lost(c, errored)
  PROVE  /\ Typed' /\ Touches(c) /\ UNCHANGED Apart /\ owner.ctls[c].state \in Up
         /\ owner'.ctls[c].state = "closed" /\ Stray(owner'.ctls[c])
<1> DEFINE again == AutoReconnect /\ (errored \/ owner.ctls[c].state = "subscribed")
           gone == Dropped(owner.ctls[c], "closed")
           x == [gone EXCEPT !.timers = @ + IF again THEN 1 ELSE 0]
<1>1. owner.ctls[c] \in Sockets BY TypedParts, SocketType
<1>2. gone \in Sockets /\ gone.state = "closed" /\ Stray(gone) BY <1>1, DroppedType
<1>3. /\ queue = <<>> /\ owner.ctls[c].state \in Up
      /\ Becomes(c, x) \/ BecomesFailed(c, x)
  BY DEF Lost
<1> HIDE DEF gone
<1>4. x \in Sockets /\ x.state = "closed" /\ Stray(x)
  <2>1. gone.timers + (IF again THEN 1 ELSE 0) \in Nat BY <1>2 DEF Sockets
  <2> HIDE DEF again
  <2>2. /\ x \in Sockets /\ x.state = gone.state /\ x.by = gone.by
        /\ x.chains = gone.chains
    BY <1>2, <2>1 DEF Sockets
  <2> HIDE DEF x
  <2>. QED BY <1>2, <2>2 DEF Stray
<1> HIDE DEF x
<1>5. UNCHANGED Apart BY <1>3 DEF Becomes, BecomesFailed
<1>. QED BY <1>3, <1>4, <1>5, BecomesTyped

\* A timer opens a closed controller again, or is over.
LEMMA TimerFiresTyped ==
  ASSUME Typed, NEW c \in DOMAIN owner.ctls, NEW should \in BOOLEAN, TimerFires(c, should)
  PROVE  /\ Typed' /\ OnlyOne(owner, owner', c) /\ queue = <<>> /\ queue' = <<>>
         /\ owner.ctls[c].timers > 0 /\ owner'.ctls[c].by = owner.ctls[c].by
         /\ owner'.ctls[c].chains = owner.ctls[c].chains
         /\ \/ owner'.ctls[c].state = owner.ctls[c].state
            \/ owner.ctls[c].state = "closed" /\ owner'.ctls[c].state = "pending"
         /\ owner'.inits = owner.inits /\ owner'.closes = owner.closes
<1> DEFINE socket == owner.ctls[c]
           reopened == IF should /\ socket.state = "closed"
                       THEN [socket EXCEPT !.state = "pending"] ELSE socket
           x == [reopened EXCEPT !.timers = @ - 1]
<1>1. TypedOwner(owner) /\ socket \in Sockets BY TypedParts, SocketType
<1>2. /\ queue = <<>> /\ queue' = <<>> /\ socket.timers > 0 /\ UNCHANGED Apart
      /\ owner' = Changed(owner, c, x)
  BY DEF TimerFires
<1>3. /\ reopened \in Sockets /\ reopened.by = socket.by /\ reopened.timers = socket.timers
      /\ reopened.chains = socket.chains
      /\ \/ reopened.state = socket.state
         \/ socket.state = "closed" /\ reopened.state = "pending"
  BY <1>1 DEF Sockets
<1> HIDE DEF reopened
<1>4. socket.timers \in Nat /\ socket.timers - 1 \in Nat BY <1>1, <1>2 DEF Sockets
<1>5. /\ x \in Sockets /\ x.by = socket.by /\ x.chains = socket.chains
      /\ x.state = reopened.state
  BY <1>3, <1>4 DEF Sockets
<1> HIDE DEF x
<1>6. /\ TypedOwner(owner') /\ owner'.ctls[c] = x /\ OnlyOne(owner, owner', c)
      /\ owner'.inits = owner.inits /\ owner'.closes = owner.closes
  BY <1>1, <1>2, <1>5, ChangedTyped DEF OnlyOne
<1>. QED BY <1>2, <1>3, <1>5, <1>6, TaskTyped, EmptySeq

\* A controller that was closing is closed, and closeAll() may be finished by that.
LEMMA ClosesType ==
  ASSUME Typed, NEW c \in DOMAIN owner.ctls, Closes(c)
  PROVE  /\ Typed' /\ OnlyOne(owner, owner', c) /\ queue = <<>>
         /\ owner'.ctls[c].state = "closed" /\ owner.ctls[c].state = "closing"
         /\ owner'.ctls[c].timers = owner.ctls[c].timers
         /\ owner'.ctls[c].by = owner.ctls[c].by /\ owner'.ctls[c].chains = owner.ctls[c].chains
         /\ owner'.inits \subseteq owner.inits /\ FailuresHeard
         /\ Queued(queue') \subseteq {InitSocketsErrored, CloseSocketsFinished}
         /\ owner.closes # {} => owner'.closes # {} \/ CloseSocketsFinished \in Queued(queue')
<1> DEFINE x == [owner.ctls[c] EXCEPT !.state = "closed"]
           b == Changed(owner, c, x)
           o == Failed(b, c)
           left == {w \ {c} : w \in owner.closes}
           told == IF {} \in left THEN <<CloseSocketsFinished>> ELSE <<>>
<1>1. /\ TypedOwner(owner) /\ owner.ctls[c] \in Sockets
      /\ owner.closes \in SUBSET ((SUBSET Nat) \ {{}})
  BY TypedParts, SocketType DEF TypedOwner, Owners
<1>2. /\ x \in Sockets /\ x.state = "closed" /\ x.timers = owner.ctls[c].timers
      /\ x.by = owner.ctls[c].by /\ x.chains = owner.ctls[c].chains
  BY <1>1 DEF Sockets
<1>3. /\ queue = <<>> /\ owner.ctls[c].state = "closing" /\ UNCHANGED Apart
      /\ owner' = [o EXCEPT !.closes = left \ {{}}] /\ queue' = FailedHeard(c) \o told
  BY DEF Closes
<1> HIDE DEF x
<1>4. /\ TypedOwner(b) /\ b.ctls[c] = x /\ OnlyOne(owner, b, c) /\ b.inits = owner.inits
  BY <1>1, <1>2, ChangedTyped DEF OnlyOne
<1> HIDE DEF b
<1>5. /\ TypedOwner(o) /\ o.ctls = b.ctls /\ o.dict = b.dict
      /\ o.inits = {i \in owner.inits : c \notin Awaits(i)}
  BY <1>4, FailedTyped
<1> HIDE DEF o
<1>6. left \ {{}} \in SUBSET ((SUBSET Nat) \ {{}}) BY <1>1
<1>7. ASSUME owner.closes # {} PROVE left \ {{}} # {} \/ {} \in left
  <2>1. PICK w \in owner.closes : TRUE BY <1>7
  <2>2. w \ {c} \in left OBVIOUS
  <2> HIDE DEF left
  <2>. QED BY <2>2
<1> HIDE DEF left
<1>8. /\ TypedOwner(owner') /\ owner'.ctls = b.ctls /\ owner'.dict = b.dict
      /\ owner'.inits = o.inits /\ owner'.closes = left \ {{}}
  <2> DEFINE closes == left \ {{}}
  <2>1. closes \in SUBSET ((SUBSET Nat) \ {{}}) BY <1>6
  <2> HIDE DEF closes
  <2>2. LET p == [o EXCEPT !.closes = closes]
        IN  /\ TypedOwner(p) /\ p.closes = closes /\ p.ctls = o.ctls /\ p.dict = o.dict
            /\ p.inits = o.inits
    BY <1>5, <2>1, ClosesTyped
  <2>. QED BY <1>3, <1>5, <2>2 DEF closes
<1>9. /\ told \in Seq(Actions) /\ Queued(told) \subseteq {CloseSocketsFinished}
      /\ {} \in left => CloseSocketsFinished \in Queued(told)
  <2>1. CASE {} \in left BY <2>1, QueuedOne, ActionsOfSockets
  <2>2. CASE {} \notin left BY <2>2, QueuedNone, EmptySeq
  <2>. QED BY <2>1, <2>2
<1> HIDE DEF told
<1>10. queue' \in Seq(Actions) /\ Queued(queue') = Queued(FailedHeard(c)) \cup Queued(told)
  BY <1>3, <1>9, FailedHeardType, QueuedConcat
<1>11. FailuresHeard
  <2>1. CASE \E i \in owner.inits : c \in Awaits(i) /\ i.heard
    <3>1. FailedHeard(c) = <<InitSocketsErrored>> BY <2>1 DEF FailedHeard
    <3>. QED BY <1>10, <3>1, QueuedOne DEF FailuresHeard
  <2>2. CASE ~\E i \in owner.inits : c \in Awaits(i) /\ i.heard
    BY <1>5, <1>8, <2>2 DEF FailuresHeard
  <2>. QED BY <2>1, <2>2
<1>12. Typed' BY <1>3, <1>8, <1>10, TaskTyped
<1>13. OnlyOne(owner, owner', c) BY <1>4, <1>8 DEF OnlyOne
<1>14. Queued(queue') \subseteq {InitSocketsErrored, CloseSocketsFinished}
  BY <1>9, <1>10, FailedHeardType
<1>15. owner.closes # {} => owner'.closes # {} \/ CloseSocketsFinished \in Queued(queue')
  BY <1>7, <1>8, <1>9, <1>10
<1>16. owner'.ctls[c] = x /\ owner'.inits \subseteq owner.inits BY <1>4, <1>5, <1>8
<1>. QED BY <1>2, <1>3, <1>11, <1>12, <1>13, <1>14, <1>15, <1>16

\* A timeout of closeAll() dispatches closeSocketsFinished.
LEMMA CloseTimesOutTyped ==
  ASSUME Typed, NEW w \in owner.closes, CloseTimesOut(w)
  PROVE  /\ Typed' /\ queue = <<>> /\ Queued(queue') = {CloseSocketsFinished}
         /\ owner'.ctls = owner.ctls /\ owner'.dict = owner.dict /\ owner'.inits = owner.inits
<1>1. /\ TypedOwner(owner) /\ owner.closes \in SUBSET ((SUBSET Nat) \ {{}})
  BY TypedParts DEF TypedOwner, Owners
<1>2. /\ queue = <<>> /\ queue' = <<CloseSocketsFinished>> /\ UNCHANGED Apart
      /\ owner' = [owner EXCEPT !.closes = @ \ {w}]
  BY DEF CloseTimesOut
<1>3. owner' = [owner EXCEPT !.closes = owner.closes \ {w}] BY <1>1, <1>2 DEF TypedOwner, Owners
<1>4. owner.closes \ {w} \in SUBSET ((SUBSET Nat) \ {{}}) BY <1>1
<1>5. /\ TypedOwner(owner') /\ owner'.ctls = owner.ctls /\ owner'.dict = owner.dict
      /\ owner'.inits = owner.inits
  BY <1>1, <1>3, <1>4, ClosesTyped
<1>6. queue' \in Seq(Actions) /\ Queued(queue') = {CloseSocketsFinished}
  BY <1>2, QueuedOne, ActionsOfSockets
<1>. QED BY <1>2, <1>5, <1>6, TaskTyped

\* The controllers of the next link are made: an id has the controller it had, or a new one.
Grows(o, d) ==
  /\ Len(d.ctls) >= Len(o.ctls)
  /\ \A c \in DOMAIN o.ctls : c \in DOMAIN d.ctls /\ d.ctls[c] = o.ctls[c]
  /\ \A c \in DOMAIN d.ctls :
       c \notin DOMAIN o.ctls => d.ctls[c].state = "pending" /\ Stray(d.ctls[c])
  /\ \A id \in Ids : d.dict[id] = o.dict[id]
                     \/ d.dict[id] \in DOMAIN d.ctls \ DOMAIN o.ctls

\* The ids of a link of m sockets get the new controllers, the others keep theirs.
LEMMA DictOfLink ==
  ASSUME NEW old \in [Ids -> Nat], NEW n \in Nat, NEW m \in Nat, NEW link, DOMAIN link = 1..m,
         \A id \in Ids : old[id] <= n,
         NEW dict, dict = [id \in Ids |-> IF \E j \in DOMAIN link : link[j] = id
                                          THEN n + CHOOSE j \in DOMAIN link : link[j] = id
                                          ELSE old[id]]
  PROVE  /\ dict \in [Ids -> Nat]
         /\ \A id \in Ids : /\ dict[id] <= n + m
                            /\ dict[id] = old[id] \/ dict[id] \in (n + 1)..(n + m)
<1>1. ASSUME NEW id \in Ids
      PROVE  dict[id] \in Nat /\ dict[id] <= n + m
             /\ (dict[id] = old[id] \/ dict[id] \in (n + 1)..(n + m))
  <2>1. CASE \E j \in DOMAIN link : link[j] = id
    <3>1. PICK j \in 1..m : dict[id] = n + j BY <2>1
    <3>. QED BY <3>1
  <2>2. CASE ~\E j \in DOMAIN link : link[j] = id
    <3>1. dict[id] = old[id] BY <2>2
    <3>. QED BY <3>1
  <2>. QED BY <2>1, <2>2
<1>2. dict = [id \in Ids |-> dict[id]] OBVIOUS
<1>. QED BY <1>1, <1>2

\* A call of init() ends, and tells so if it is heard, or goes on with the next link.
LEMMA LinkReadyTyped ==
  ASSUME Typed, NEW i \in owner.inits, NEW ok \in BOOLEAN, LinkReady(i, ok)
  PROVE  /\ Typed' /\ queue = <<>> /\ Grows(owner, owner') /\ owner'.closes = owner.closes
         /\ Queued(queue') \subseteq {InitSocketsSucceed, InitSocketsErrored}
         /\ (\E h \in owner.inits : h.heard)
              => \/ \E h \in owner'.inits : h.heard
                 \/ Queued(queue') # {}
<1> DEFINE inits == owner.inits \ {i}
           rest == [owner EXCEPT !.inits = inits]
           last == i.link = Len(Links)
           tell(action) == IF i.heard THEN <<action>> ELSE <<>>
<1>1. /\ TypedOwner(owner) /\ owner.ctls \in Seq(Sockets) /\ Len(owner.ctls) \in Nat
      /\ DOMAIN owner.ctls = 1..Len(owner.ctls) /\ owner.dict \in [Ids -> Nat]
      /\ owner.inits \in SUBSET Inits /\ IsFiniteSet(owner.inits)
      /\ i \in Inits /\ \A id \in Ids : owner.dict[id] <= Len(owner.ctls)
  BY TypedParts DEF TypedOwner, Owners
<1>2. inits \in SUBSET Inits /\ IsFiniteSet(inits) BY <1>1, FS_RemoveElement
<1>3. /\ TypedOwner(rest) /\ rest.inits = inits /\ rest.ctls = owner.ctls
      /\ rest.dict = owner.dict /\ rest.closes = owner.closes
  BY <1>1, <1>2, InitsTyped
<1>4. queue = <<>> /\ UNCHANGED Apart BY DEF LinkReady
<1>5. rest = [owner EXCEPT !.inits = @ \ {i}] BY <1>1 DEF TypedOwner, Owners
<1> HIDE DEF rest
<1>6. CASE owner' = rest /\ \E a \in {InitSocketsSucceed, InitSocketsErrored} : queue' = tell(a)
  <2>1. PICK a \in {InitSocketsSucceed, InitSocketsErrored} : queue' = tell(a) BY <1>6
  <2>2. queue' \in Seq(Actions) /\ Queued(queue') = IF i.heard THEN {a} ELSE {}
    <3>1. a \in Actions BY ActionsOfSockets
    <3>2. CASE i.heard BY <2>1, <3>1, <3>2, QueuedOne
    <3>3. CASE ~i.heard BY <2>1, <3>3, QueuedNone, EmptySeq
    <3>. QED BY <3>2, <3>3
  <2>3. Typed' BY <1>3, <1>4, <1>6, <2>2, TaskTyped
  <2>4. Grows(owner, owner') BY <1>1, <1>3, <1>6 DEF Grows
  <2>. QED BY <1>3, <1>4, <1>6, <2>2, <2>3, <2>4
<1>7. ASSUME ~last, queue' = <<>>,
             owner' = LET link == Links[i.link + 1]
                          n == Len(owner.ctls)
                          dict == [id \in Ids |->
                                     IF \E j \in DOMAIN link : link[j] = id
                                     THEN n + CHOOSE j \in DOMAIN link : link[j] = id
                                     ELSE owner.dict[id]]
                          waits == {n + j : j \in DOMAIN link}
                          next == [i EXCEPT !.link = @ + 1, !.auths = waits, !.subs = waits]
                      IN  [rest EXCEPT !.dict = dict, !.inits = @ \cup {next},
                                 !.ctls = @ \o [j \in DOMAIN link |-> NewSocket("pending")]]
      PROVE  /\ Typed' /\ queue = <<>> /\ Grows(owner, owner') /\ owner'.closes = owner.closes
             /\ Queued(queue') \subseteq {InitSocketsSucceed, InitSocketsErrored}
             /\ (\E h \in owner.inits : h.heard)
                  => \/ \E h \in owner'.inits : h.heard
                     \/ Queued(queue') # {}
  <2> DEFINE link == Links[i.link + 1]
             n == Len(owner.ctls)
             dict == [id \in Ids |->
                        IF \E j \in DOMAIN link : link[j] = id
                        THEN n + CHOOSE j \in DOMAIN link : link[j] = id
                        ELSE owner.dict[id]]
             waits == {n + j : j \in DOMAIN link}
             next == [i EXCEPT !.link = @ + 1, !.auths = waits, !.subs = waits]
             ctls == owner.ctls \o [j \in DOMAIN link |-> NewSocket("pending")]
  <2>1. i.link \in Nat /\ i.link + 1 \in DOMAIN Links
    BY <1>1, <1>7, FirstLink DEF Inits
  <2>2. /\ link \in Seq(STRING) /\ Len(link) \in Nat /\ DOMAIN link = 1..Len(link)
    BY <2>1, LinkType
  <2>3. owner' = [rest EXCEPT !.dict = dict, !.inits = @ \cup {next},
                    !.ctls = @ \o [j \in DOMAIN link |-> NewSocket("pending")]]
    BY <1>7
  <2>4. n \in Nat /\ n = Len(owner.ctls) /\ DOMAIN owner.ctls = 1..n BY <1>1
  <2>5. PICK m \in Nat : DOMAIN link = 1..m BY <2>2
  <2>6. /\ ctls \in Seq(Sockets) /\ Len(ctls) = n + m /\ DOMAIN ctls = 1..(n + m)
        /\ \A c \in 1..n : ctls[c] = owner.ctls[c]
        /\ \A c \in (n + 1)..(n + m) : ctls[c].state = "pending" /\ Stray(ctls[c])
    <3> DEFINE fresh == [j \in DOMAIN link |-> NewSocket("pending")]
    <3>1. /\ fresh \in [1..m -> Sockets]
          /\ \A j \in 1..m : fresh[j].state = "pending" /\ Stray(fresh[j])
      BY <2>5, NewSocketType
    <3> HIDE DEF fresh
    <3>2. ctls = owner.ctls \o fresh BY DEF fresh
    <3>3. owner.ctls \in Seq(Sockets) BY <1>1
    <3>4. n \in Nat /\ n = Len(owner.ctls) BY <2>4
    <3>5. fresh \in Seq(Sockets) /\ Len(fresh) = m BY <3>1, FunctionIsSeq
    <3>6. /\ owner.ctls \o fresh \in Seq(Sockets)
          /\ Len(owner.ctls \o fresh) = Len(owner.ctls) + Len(fresh)
          /\ \A c \in 1..(Len(owner.ctls) + Len(fresh)) :
               (owner.ctls \o fresh)[c] = IF c <= Len(owner.ctls) THEN owner.ctls[c]
                                         ELSE fresh[c - Len(owner.ctls)]
      BY <3>3, <3>5, ConcatProperties
    <3> HIDE DEF ctls, n
    <3>7. /\ ctls \in Seq(Sockets) /\ Len(ctls) = n + m
          /\ \A c \in 1..(n + m) : ctls[c] = IF c <= n THEN owner.ctls[c] ELSE fresh[c - n]
      BY <3>2, <3>4, <3>5, <3>6
    <3>8. DOMAIN ctls = 1..(n + m) BY <3>7
    <3>9. ASSUME NEW c \in 1..n PROVE ctls[c] = owner.ctls[c] BY <3>4, <3>7
    <3>10. ASSUME NEW c \in (n + 1)..(n + m) PROVE ctls[c].state = "pending" /\ Stray(ctls[c])
      <4>1. c - n \in 1..m /\ c \in 1..(n + m) /\ ~(c <= n) BY <3>4
      <4>. QED BY <3>1, <3>7, <4>1
    <3>. QED BY <3>7, <3>8, <3>9, <3>10
  <2>7. /\ dict \in [Ids -> Nat]
        /\ \A id \in Ids : /\ dict[id] <= n + m
                           /\ dict[id] = owner.dict[id] \/ dict[id] \in (n + 1)..(n + m)
    <3>1. dict = [id \in Ids |-> IF \E j \in DOMAIN link : link[j] = id
                                 THEN n + CHOOSE j \in DOMAIN link : link[j] = id
                                 ELSE owner.dict[id]]
      OBVIOUS
    <3> HIDE DEF dict, n, link
    <3>. QED BY <1>1, <2>4, <2>5, <3>1, DictOfLink
  <2>8. next \in Inits /\ next.heard = i.heard
    <3>1. waits \in SUBSET Nat
      <4> HIDE DEF n, link
      <4>. QED BY <2>4, <2>5
    <3>2. next = [i EXCEPT !.link = @ + 1, !.auths = waits, !.subs = waits] OBVIOUS
    <3> HIDE DEF waits, next
    <3>. QED BY <1>1, <2>1, <3>1, <3>2 DEF Inits
  <2> HIDE DEF next
  <2>9. inits \cup {next} \in SUBSET Inits /\ IsFiniteSet(inits \cup {next})
    BY <1>2, <2>8, FS_AddElement
  <2>10. /\ owner'.dict = dict /\ owner'.ctls = ctls /\ owner'.inits = inits \cup {next}
         /\ owner'.closes = owner.closes /\ owner' \in Owners
    <3>1. rest \in Owners BY <1>3 DEF TypedOwner
    <3>2. owner' = [rest EXCEPT !.dict = dict, !.inits = inits \cup {next}, !.ctls = ctls]
      BY <1>3, <2>3, <3>1 DEF Owners
    <3> HIDE DEF ctls, dict, inits
    <3>. QED BY <1>3, <2>6, <2>7, <2>9, <3>1, <3>2 DEF Owners
  <2> HIDE DEF ctls, dict, n, link
  <2>11. TypedOwner(owner') BY <2>6, <2>7, <2>9, <2>10 DEF TypedOwner
  <2>12. Typed' BY <1>4, <1>7, <2>11, TaskTyped, EmptySeq
  <2>13. Grows(owner, owner')
    <3>1. DOMAIN owner'.ctls = 1..(n + m) /\ Len(owner'.ctls) = n + m BY <2>6, <2>10
    <3>2. DOMAIN owner'.ctls \ DOMAIN owner.ctls = (n + 1)..(n + m) BY <2>4, <3>1
    <3>3. \A c \in DOMAIN owner.ctls : c \in DOMAIN owner'.ctls BY <2>4, <3>1
    <3>4. \A c \in DOMAIN owner'.ctls :
            c \notin DOMAIN owner.ctls
              => owner'.ctls[c].state = "pending" /\ Stray(owner'.ctls[c])
      BY <2>6, <2>10, <3>2
    <3>5. \A id \in Ids : owner'.dict[id] = owner.dict[id]
                          \/ owner'.dict[id] \in DOMAIN owner'.ctls \ DOMAIN owner.ctls
      BY <2>7, <2>10, <3>2
    <3>6. \A c \in DOMAIN owner.ctls : owner'.ctls[c] = owner.ctls[c] BY <2>4, <2>6, <2>10
    <3>. QED BY <2>4, <3>1, <3>3, <3>4, <3>5, <3>6 DEF Grows
  <2>14. (\E h \in owner.inits : h.heard) => (\E h \in owner'.inits : h.heard)
    BY <2>8, <2>10
  <2>. QED BY <1>4, <1>7, <2>10, <2>12, <2>13, <2>14, QueuedNone
<1>. QED
  <2>1. \/ owner' = rest /\ queue' = tell(InitSocketsSucceed)
        \/ owner' = rest /\ queue' = tell(InitSocketsErrored)
        \/ /\ ~last /\ queue' = <<>>
           /\ owner' = LET link == Links[i.link + 1]
                          n == Len(owner.ctls)
                          dict == [id \in Ids |->
                                     IF \E j \in DOMAIN link : link[j] = id
                                     THEN n + CHOOSE j \in DOMAIN link : link[j] = id
                                     ELSE owner.dict[id]]
                          waits == {n + j : j \in DOMAIN link}
                          next == [i EXCEPT !.link = @ + 1, !.auths = waits, !.subs = waits]
                      IN  [rest EXCEPT !.dict = dict, !.inits = @ \cup {next},
                                 !.ctls = @ \o [j \in DOMAIN link |-> NewSocket("pending")]]
    BY <1>5 DEF LinkReady
  <2>. QED BY <1>6, <1>7, <2>1
-------------------------------------------------------------------------------
\* The types.

\* One step per action.
LEMMA NextTyped == ASSUME Typed, Next PROVE Typed'
<1>1. CASE OpenOnLogin BY <1>1, OpenOnLoginTyped
<1>2. CASE CloseOnLogout BY <1>2, CloseOnLogoutTyped
<1>3. CASE CloseOnLoginAs BY <1>3, CloseOnLoginAsTyped
<1>4. CASE Unheard BY <1>4, UnheardTyped
<1>5. CASE CallInit BY <1>5, CallInitTyped
<1>6. CASE CallCloseAll BY <1>6, CallCloseAllTyped
<1>7. CASE ReOpenOnLoginAs BY <1>7, ReOpenOnLoginAsTyped
<1>8. ASSUME NEW op \in Ops, Dispatch(op) PROVE Typed' BY <1>8, DispatchTyped
<1>9. ASSUME NEW op \in asked, NEW ok \in BOOLEAN, Answered(op, ok) PROVE Typed'
  BY <1>9, AnsweredTyped
<1>10. ASSUME NEW c \in DOMAIN owner.ctls, NEW k \in 1..MaxChains, OfChain(c, k)
       PROVE  Typed'
  BY <1>10, ChainTyped
<1>11. ASSUME NEW c \in DOMAIN owner.ctls, Closes(c) PROVE Typed' BY <1>11, ClosesType
<1>12. ASSUME NEW c \in DOMAIN owner.ctls, NEW errored \in BOOLEAN, Lost(c, errored)
       PROVE  Typed'
  BY <1>12, LostTyped
<1>13. ASSUME NEW c \in DOMAIN owner.ctls, NEW should \in BOOLEAN, TimerFires(c, should)
       PROVE  Typed'
  BY <1>13, TimerFiresTyped
<1>14. ASSUME NEW w \in owner.closes, CloseTimesOut(w) PROVE Typed'
  BY <1>14, CloseTimesOutTyped
<1>15. ASSUME NEW i \in owner.inits, NEW ok \in BOOLEAN, LinkReady(i, ok) PROVE Typed'
  BY <1>15, LinkReadyTyped
<1>. QED
  BY <1>1, <1>2, <1>3, <1>4, <1>5, <1>6, <1>7, <1>8, <1>9, <1>10, <1>11, <1>12, <1>13,
     <1>14, <1>15
  DEF Next, Effects

\* Nothing happens.
LEMMA StutterTyped == ASSUME Typed, UNCHANGED vars PROVE Typed'
BY DEF Typed, TypeOK, vars

\* Every state is typed.
LEMMA SpecTyped == Spec => []Typed
<1>1. Init => Typed BY InitTyped
<1>2. Typed /\ [Next]_vars => Typed' BY NextTyped, StutterTyped
<1>. QED BY <1>1, <1>2, PTL DEF Spec

\* The state of the effects, of the owner and of its controllers keeps its type, however
\* many actions and controllers there are.
THEOREM TypeCorrect == Spec => []TypeOK
<1>1. Typed => TypeOK BY DEF Typed
<1>. QED BY <1>1, SpecTyped, PTL
-------------------------------------------------------------------------------
\* A controller without a connection has no request on its way and no user.

AllLeft == \A c \in DOMAIN owner.ctls : Left(owner.ctls[c])

\* One controller changes.
LEMMA LeftOne ==
  ASSUME AllLeft, NEW c, OnlyOne(owner, owner', c), Left(owner'.ctls[c])
  PROVE  AllLeft'
BY DEF AllLeft, OnlyOne

\* The effects open closed controllers, or close those that are up.
LEMMA LeftEffects == ASSUME Typed, AllLeft, Effects PROVE AllLeft'
<1>1. CASE OpenOnLogin \/ CloseOnLogout \/ CloseOnLoginAs \/ Unheard \/ ReOpenOnLoginAs
  <2>1. UNCHANGED owner
    BY <1>1 DEF OpenOnLogin, CloseOnLogout, CloseOnLoginAs, Unheard, ReOpenOnLoginAs
  <2>. QED BY <2>1 DEF AllLeft
<1>2. CASE CallInit
  <2>1. OnlyOpens(owner, owner') BY <1>2, CallInitTyped
  <2>2. ASSUME NEW c \in DOMAIN owner.ctls PROVE Left(owner'.ctls[c])
    <3>1. owner.ctls[c] \in Sockets /\ Left(owner.ctls[c])
      BY TypedParts, SocketType DEF AllLeft
    <3>2. CASE owner'.ctls[c] = owner.ctls[c] BY <3>1, <3>2
    <3>3. CASE owner'.ctls[c] = [owner.ctls[c] EXCEPT !.state = "pending"]
      <4>1. owner'.ctls[c].state = "pending" BY <3>1, <3>3 DEF Sockets
      <4>. QED BY <4>1 DEF Left, Up
    <3>. QED BY <2>1, <3>2, <3>3 DEF OnlyOpens
  <2>. QED BY <2>1, <2>2 DEF AllLeft, OnlyOpens
<1>3. CASE CallCloseAll
  <2>1. DOMAIN owner'.ctls = DOMAIN owner.ctls BY <1>3, CallCloseAllTyped
  <2>2. ASSUME NEW c \in DOMAIN owner.ctls PROVE Left(owner'.ctls[c])
    <3>1. Stray(owner'.ctls[c]) \/ owner'.ctls[c] = owner.ctls[c]
      BY <1>3, CallCloseAllTyped
    <3>. QED BY <3>1 DEF AllLeft, Left
  <2>. QED BY <2>1, <2>2 DEF AllLeft
<1>. QED BY <1>1, <1>2, <1>3 DEF Effects

\* One step per kind of action.
LEMMA LeftNext == ASSUME Typed, AllLeft, Next PROVE AllLeft'
<1>1. CASE Effects BY <1>1, LeftEffects
<1>2. ASSUME NEW op \in Ops, Dispatch(op) PROVE AllLeft' BY <1>2 DEF Dispatch, AllLeft
<1>3. ASSUME NEW op \in asked, NEW ok \in BOOLEAN, Answered(op, ok) PROVE AllLeft'
  BY <1>3 DEF Answered, AllLeft
<1>4. ASSUME NEW c \in DOMAIN owner.ctls, NEW k \in 1..MaxChains, OfChain(c, k)
      PROVE  AllLeft'
  <2>1. Left(owner.ctls[c]) BY DEF AllLeft
  <2>. QED BY <1>4, <2>1, ChainTyped, LeftOne DEF Touches, Follows
<1>5. ASSUME NEW c \in DOMAIN owner.ctls, Closes(c) PROVE AllLeft'
  <2>1. Left(owner.ctls[c]) BY DEF AllLeft
  <2>2. Left(owner'.ctls[c]) BY <1>5, <2>1, ClosesType DEF Left, Stray, Up
  <2>. QED BY <1>5, <2>2, ClosesType, LeftOne
<1>6. ASSUME NEW c \in DOMAIN owner.ctls, NEW errored \in BOOLEAN, Lost(c, errored)
      PROVE  AllLeft'
  BY <1>6, LostTyped, LeftOne DEF Touches, Left
<1>7. ASSUME NEW c \in DOMAIN owner.ctls, NEW should \in BOOLEAN, TimerFires(c, should)
      PROVE  AllLeft'
  <2>1. Left(owner.ctls[c]) BY DEF AllLeft
  <2>2. Left(owner'.ctls[c]) BY <1>7, <2>1, TimerFiresTyped DEF Left, Stray, Up
  <2>. QED BY <1>7, <2>2, TimerFiresTyped, LeftOne
<1>8. ASSUME NEW w \in owner.closes, CloseTimesOut(w) PROVE AllLeft'
  BY <1>8, CloseTimesOutTyped DEF AllLeft
<1>9. ASSUME NEW i \in owner.inits, NEW ok \in BOOLEAN, LinkReady(i, ok) PROVE AllLeft'
  <2>1. Grows(owner, owner') BY <1>9, LinkReadyTyped
  <2>. QED BY <2>1 DEF Grows, AllLeft, Left
<1>. QED BY <1>1, <1>2, <1>3, <1>4, <1>5, <1>6, <1>7, <1>8, <1>9 DEF Next

\* However late a request is answered, it is not taken for one of a later connection.
LEMMA SpecLeft == Spec => []AllLeft
<1>1. Init => AllLeft
  <2>1. Init => owner.ctls = [j \in DOMAIN Links[1] |-> NewSocket("closed")] BY DEF Init
  <2>. QED BY <2>1, NewSocketType DEF AllLeft, Left
<1>2. AllLeft /\ UNCHANGED vars => AllLeft' BY DEF AllLeft, vars
<1>3. Typed /\ AllLeft /\ [Next]_vars => AllLeft' BY <1>2, LeftNext
<1>. QED BY <1>1, <1>3, SpecTyped, PTL DEF Spec
-------------------------------------------------------------------------------
\* What the actions in the queue will bring about.

LogsIn == {<<"login", "succeed">>, <<"loginAgain", "succeed">>}

Closers ==
  {<<"logout", "succeed">>, <<"loginAs", "succeed">>, <<"loginAs", "errored">>, CloseSockets}

Openers == LogsIn \cup {<<"loginAs", "succeed">>, InitSockets}

Unlistened == {<<"login", "errored">>, <<"loginAgain", "errored">>, <<"logout", "errored">>,
               InitSocketsSucceed, InitSocketsErrored}

\* Which of the actions close sockets.
LEMMA WhichClose ==
  /\ CloseSockets \in Closers /\ <<"logout", "succeed">> \in Closers
  /\ <<"loginAs", "succeed">> \in Closers /\ <<"loginAs", "errored">> \in Closers
  /\ LogsIn \cap Closers = {} /\ Unlistened \cap Closers = {}
  /\ InitSockets \notin Closers /\ CloseSocketsFinished \notin Closers
BY DEF Closers, LogsIn, Unlistened, InitSockets, InitSocketsSucceed, InitSocketsErrored,
       CloseSockets, CloseSocketsFinished

\* Which of the actions lead to open sockets.
LEMMA WhichOpen ==
  /\ LogsIn \subseteq Openers /\ InitSockets \in Openers
  /\ <<"loginAs", "succeed">> \in Openers
  /\ CloseSockets \notin Openers /\ <<"logout", "succeed">> \notin Openers
  /\ <<"loginAs", "errored">> \notin Openers
  /\ Unlistened \cap Openers = {} /\ CloseSocketsFinished \notin Openers
BY DEF Openers, LogsIn, Unlistened, InitSockets, InitSocketsSucceed, InitSocketsErrored,
       CloseSockets, CloseSocketsFinished

\* What closeOnLoginAs$ and reOpenOnLoginAs$ hear.
LEMMA LoginAsOutcome ==
  ASSUME NEW a \in Actions, a[1] = "loginAs"
  PROVE  a[2] = "succeed" <=> a = <<"loginAs", "succeed">>
BY DEF Actions
-------------------------------------------------------------------------------
\* A quiet logout.

Settled ==
  /\ reopeners = 0 /\ owner.inits = {}
  /\ \A c \in DOMAIN owner.ctls : owner.ctls[c].timers = 0 /\ (Owned(c) \/ Down(c))

AllDown == \A c \in DOMAIN owner.ctls : Down(c)

Closing == Queued(queue) \cap Closers # {}

\* Since a quiet logout there is nothing that opens a socket, neither among the owner's
\* affairs nor in the queue, and what is up is about to be closed.
QuietInv ==
  loggedOut = "quietly" =>
    Settled /\ Queued(queue) \cap Openers = {} /\ (AllDown \/ Closing)

\* Between the tasks nothing is up any more.
LEMMA QuietBetween ==
  ASSUME QuietInv, loggedOut = "quietly", queue = <<>>
  PROVE  Settled /\ AllDown
BY QueuedNone DEF QuietInv, Closing

\* The first action is not one that opens sockets, and if it closes none, another one in
\* the queue does, or nothing is up.
LEMMA QuietHead ==
  ASSUME QuietInv, loggedOut = "quietly", NEW a, NEW rest, Queued(queue) = {a} \cup rest
  PROVE  /\ Settled /\ a \notin Openers /\ rest \cap Openers = {}
         /\ a \notin Closers => AllDown \/ rest \cap Closers # {}
BY DEF QuietInv, Closing

\* An effect that does not touch the owner.
LEMMA QuietKept ==
  ASSUME QuietInv, loggedOut' = "quietly", loggedOut = "quietly", Settled,
         UNCHANGED <<owner, reopeners>>,
         Queued(queue') \cap Openers = {}, AllDown \/ Closing'
  PROVE  QuietInv'
BY DEF QuietInv, Settled, AllDown, Owned, Down

\* No login has succeeded since a quiet logout.
LEMMA QuietOpenOnLogin == ASSUME Typed, QuietInv, OpenOnLogin PROVE QuietInv'
<1> SUFFICES ASSUME loggedOut' = "quietly" PROVE FALSE BY DEF QuietInv
<1>1. loggedOut = "quietly" BY DEF OpenOnLogin, Session
<1>. QED BY <1>1, OpenOnLoginTyped, QuietHead, WhichOpen DEF LogsIn

\* The closing is under way.
LEMMA QuietCloseOnLogout == ASSUME Typed, QuietInv, CloseOnLogout PROVE QuietInv'
<1> SUFFICES ASSUME loggedOut' = "quietly" PROVE QuietInv' BY DEF QuietInv
<1>1. loggedOut = "quietly" /\ UNCHANGED <<owner, reopeners>>
  BY DEF CloseOnLogout, Session
<1>2. Queued(queue') = Queued(Tail(queue)) \cup {CloseSockets} BY CloseOnLogoutTyped
<1>3. Settled /\ Queued(Tail(queue)) \cap Openers = {}
  BY <1>1, CloseOnLogoutTyped, QuietHead
<1>4. Queued(queue') \cap Openers = {} BY <1>2, <1>3, WhichOpen
<1>5. Closing' BY <1>2, WhichClose DEF Closing
<1>. QED BY <1>1, <1>3, <1>4, <1>5, QuietKept

\* A loginAs can only have failed, and closes once more.
LEMMA QuietCloseOnLoginAs == ASSUME Typed, QuietInv, CloseOnLoginAs PROVE QuietInv'
<1> SUFFICES ASSUME loggedOut' = "quietly" PROVE QuietInv' BY DEF QuietInv
<1>1. loggedOut = "quietly" /\ UNCHANGED owner /\ queue # <<>>
  BY DEF CloseOnLoginAs, Session
<1>2. /\ Queued(queue') = Queued(Tail(queue)) \cup {CloseSockets} /\ Head(queue)[1] = "loginAs"
      /\ reopeners' = reopeners + IF Head(queue)[2] = "succeed" THEN 1 ELSE 0
  BY CloseOnLoginAsTyped
<1>3. /\ Settled /\ Head(queue) \notin Openers /\ Queued(Tail(queue)) \cap Openers = {}
  BY <1>1, CloseOnLoginAsTyped, QuietHead
<1>4. Head(queue)[2] # "succeed"
  <2>1. Head(queue) \in Actions BY <1>1, TypedParts, QueuedTail
  <2>. QED BY <1>2, <1>3, <2>1, LoginAsOutcome, WhichOpen
<1>5. UNCHANGED reopeners BY <1>2, <1>4, TypedParts
<1>6. Queued(queue') \cap Openers = {} BY <1>2, <1>3, WhichOpen
<1>7. Closing' BY <1>2, WhichClose DEF Closing
<1>. QED BY <1>1, <1>3, <1>5, <1>6, <1>7, QuietKept

\* What no effect hears opens nothing.
LEMMA QuietUnheard == ASSUME Typed, QuietInv, Unheard PROVE QuietInv'
<1> SUFFICES ASSUME loggedOut' = "quietly" PROVE QuietInv' BY DEF QuietInv
<1>1. loggedOut = "quietly" /\ UNCHANGED <<owner, reopeners>> BY DEF Unheard, Session
<1>2. Head(queue) \in Unlistened /\ Queued(queue) = {Head(queue)} \cup Queued(queue')
  BY UnheardTyped DEF Unlistened
<1>3. /\ Settled /\ Queued(queue') \cap Openers = {}
      /\ AllDown \/ Queued(queue') \cap Closers # {}
  BY <1>1, <1>2, QuietHead, WhichClose
<1>. QED BY <1>1, <1>3, QuietKept DEF Closing

\* There is no initSockets.
LEMMA QuietCallInit == ASSUME Typed, QuietInv, CallInit PROVE QuietInv'
<1> SUFFICES ASSUME loggedOut' = "quietly" PROVE FALSE BY DEF QuietInv
<1>1. loggedOut = "quietly" BY DEF CallInit, Session
<1>. QED BY <1>1, CallInitTyped, QuietHead, WhichOpen

\* closeAll() closes all that is up, since the owner has lost none of that.
LEMMA QuietCallCloseAll == ASSUME Typed, QuietInv, CallCloseAll PROVE QuietInv'
<1> SUFFICES ASSUME loggedOut' = "quietly" PROVE QuietInv' BY DEF QuietInv
<1>1. loggedOut = "quietly" /\ UNCHANGED reopeners BY DEF CallCloseAll, Session
<1>2. /\ Queued(queue) = {Head(queue)} \cup Queued(Tail(queue))
      /\ Queued(queue') \subseteq Queued(Tail(queue)) \cup {CloseSocketsFinished}
      /\ owner'.dict = owner.dict /\ owner'.inits = owner.inits
      /\ DOMAIN owner'.ctls = DOMAIN owner.ctls
  BY CallCloseAllTyped
<1>3. Settled /\ Queued(Tail(queue)) \cap Openers = {} BY <1>1, <1>2, QuietHead
<1>4. ASSUME NEW c \in DOMAIN owner.ctls
      PROVE  /\ owner'.ctls[c].timers = 0
             /\ owner'.ctls[c].state \in {"closing", "closed"}
  <2>1. CASE Owned(c) /\ owner.ctls[c].state \in Up
    <3>1. owner'.ctls[c].state = "closing" /\ owner'.ctls[c].timers = owner.ctls[c].timers
      BY <2>1, CallCloseAllTyped
    <3>. QED BY <1>3, <3>1 DEF Settled
  <2>2. CASE ~(Owned(c) /\ owner.ctls[c].state \in Up)
    <3>1. owner'.ctls[c] = owner.ctls[c] BY <2>2, CallCloseAllTyped
    <3>2. owner.ctls[c] \in Sockets BY TypedParts, SocketType
    <3>3. owner.ctls[c].state \in {"closing", "closed"}
      BY <1>3, <2>2, <3>2 DEF Settled, Down, Up, Sockets
    <3>. QED BY <1>3, <3>1, <3>3 DEF Settled
  <2>. QED BY <2>1, <2>2
<1>5. AllDown' BY <1>2, <1>4 DEF AllDown, Down
<1>6. Settled' BY <1>1, <1>2, <1>3, <1>4, <1>5 DEF Settled, AllDown
<1>7. Queued(queue') \cap Openers = {} BY <1>2, <1>3, WhichOpen
<1>. QED BY <1>5, <1>6, <1>7 DEF QuietInv

\* No subscription opens the sockets again.
LEMMA QuietReOpenOnLoginAs == ASSUME Typed, QuietInv, ReOpenOnLoginAs PROVE QuietInv'
<1> SUFFICES ASSUME loggedOut' = "quietly" PROVE QuietInv' BY DEF QuietInv
<1>1. loggedOut = "quietly" /\ UNCHANGED <<owner, reopeners>> BY DEF ReOpenOnLoginAs, Session
<1>2. /\ Head(queue) = CloseSocketsFinished
      /\ Queued(queue) = {Head(queue)} \cup Queued(Tail(queue))
      /\ Queued(queue') = Queued(Tail(queue)) \cup IF reopeners = 0 THEN {} ELSE {InitSockets}
  BY ReOpenOnLoginAsTyped
<1>3. /\ Settled /\ Queued(Tail(queue)) \cap Openers = {}
      /\ AllDown \/ Queued(Tail(queue)) \cap Closers # {}
  BY <1>1, <1>2, QuietHead, WhichClose
<1>4. Queued(queue') = Queued(Tail(queue)) BY <1>2, <1>3 DEF Settled
<1>. QED BY <1>1, <1>3, <1>4, QuietKept DEF Closing

\* A logout becomes quiet, or a request fails after one.
LEMMA QuietAnswered ==
  ASSUME Typed, QuietInv, NEW op \in asked, NEW ok \in BOOLEAN, Answered(op, ok)
  PROVE  QuietInv'
<1> SUFFICES ASSUME loggedOut' = "quietly" PROVE QuietInv' BY DEF QuietInv
<1>1. /\ UNCHANGED <<owner, reopeners>> /\ queue = <<>>
      /\ op \in {"login", "loginAgain", "loginAs", "logout"}
      /\ Queued(queue') = {<<op, IF ok THEN "succeed" ELSE "errored">>}
  BY AnsweredTyped DEF Answered
<1>2. CASE ~ok
  <2>1. loggedOut = "quietly" BY <1>2 DEF Answered
  <2>2. Settled /\ AllDown BY <1>1, <2>1, QuietBetween
  <2>3. Queued(queue') \cap Openers = {}
    <3>1. Queued(queue') = {<<op, "errored">>} BY <1>1, <1>2
    <3>2. <<op, "errored">> \in Unlistened \cup {<<"loginAs", "errored">>}
      BY <1>1 DEF Unlistened
    <3>. QED BY <3>1, <3>2, WhichOpen
  <2>. QED BY <1>1, <2>1, <2>2, <2>3, QuietKept
<1>3. CASE ok
  <2>1. Len(users) \in Nat BY DEF Typed, TypeOK
  <2>2. op = "logout" /\ Quiet
    <3>1. ~(op # "logout" \/ Len(users) > 1) BY <1>3, <2>1 DEF Answered
    <3>2. loggedOut' = IF Quiet /\ loggedOut # "yes" THEN "quietly" ELSE "yes"
      BY <1>3, <2>1, <3>1 DEF Answered
    <3>. QED BY <3>1, <3>2
  <2>3. Settled BY <2>2 DEF Quiet, Settled, Down
  <2>4. Settled' BY <1>1, <2>3 DEF Settled, Owned, Down
  <2>5. Queued(queue') = {<<"logout", "succeed">>} BY <1>1, <1>3, <2>2
  <2>6. Closing' BY <2>5, WhichClose DEF Closing
  <2>7. Queued(queue') \cap Openers = {} BY <2>5, WhichOpen
  <2>. QED BY <2>4, <2>6, <2>7 DEF QuietInv
<1>. QED BY <1>2, <1>3

\* Of the tasks of the browser only those can be taken that end a closing.
LEMMA QuietCloses ==
  ASSUME Typed, QuietInv, NEW c \in DOMAIN owner.ctls, Closes(c)
  PROVE  QuietInv'
<1> SUFFICES ASSUME loggedOut' = "quietly" PROVE QuietInv' BY DEF QuietInv
<1>1. loggedOut = "quietly" /\ UNCHANGED reopeners BY DEF Closes, Apart, Session
<1>2. /\ OnlyOne(owner, owner', c) /\ queue = <<>> /\ owner'.ctls[c].state = "closed"
      /\ owner'.ctls[c].timers = owner.ctls[c].timers /\ owner'.inits \subseteq owner.inits
      /\ Queued(queue') \subseteq {InitSocketsErrored, CloseSocketsFinished}
  BY ClosesType
<1>3. Settled /\ AllDown BY <1>1, <1>2, QuietBetween
<1>4. AllDown' BY <1>2, <1>3 DEF AllDown, Down, OnlyOne
<1>5. \A b \in DOMAIN owner'.ctls : owner'.ctls[b].timers = 0
  BY <1>2, <1>3 DEF Settled, OnlyOne
<1>6. Settled' BY <1>1, <1>2, <1>3, <1>4, <1>5 DEF Settled, AllDown
<1>7. Queued(queue') \cap Openers = {} BY <1>2, WhichOpen DEF Unlistened
<1>. QED BY <1>4, <1>6, <1>7 DEF QuietInv

\* A closing that times out opens nothing.
LEMMA QuietCloseTimesOut ==
  ASSUME Typed, QuietInv, NEW w \in owner.closes, CloseTimesOut(w)
  PROVE  QuietInv'
<1> SUFFICES ASSUME loggedOut' = "quietly" PROVE QuietInv' BY DEF QuietInv
<1>1. loggedOut = "quietly" /\ UNCHANGED reopeners BY DEF CloseTimesOut, Apart, Session
<1>2. /\ queue = <<>> /\ Queued(queue') = {CloseSocketsFinished} /\ owner'.ctls = owner.ctls
      /\ owner'.dict = owner.dict /\ owner'.inits = owner.inits
  BY CloseTimesOutTyped
<1>3. Settled /\ AllDown BY <1>1, <1>2, QuietBetween
<1>4. Settled' /\ AllDown' BY <1>1, <1>2, <1>3 DEF Settled, AllDown, Owned, Down
<1>5. Queued(queue') \cap Openers = {} BY <1>2, WhichOpen
<1>. QED BY <1>4, <1>5 DEF QuietInv

\* A controller that is up, that has a timer or for which an init() waits.
LEMMA QuietTaskImpossible ==
  ASSUME QuietInv, loggedOut = "quietly", queue = <<>>
  PROVE  /\ \A c \in DOMAIN owner.ctls : owner.ctls[c].state \notin Up /\ owner.ctls[c].timers = 0
         /\ owner.inits = {}
BY QuietBetween DEF Settled, AllDown, Down, Up

\* What is still on its way when a connection is gone opens none.
LEMMA QuietChain ==
  ASSUME Typed, AllLeft, QuietInv, NEW c \in DOMAIN owner.ctls, NEW k \in 1..MaxChains,
         OfChain(c, k)
  PROVE  QuietInv'
<1> SUFFICES ASSUME loggedOut' = "quietly" PROVE QuietInv' BY DEF QuietInv
<1>1. /\ Typed' /\ Touches(c) /\ UNCHANGED Apart
      /\ Follows(owner.ctls[c], owner'.ctls[c])
  BY ChainTyped DEF AllLeft
<1>2. loggedOut = "quietly" /\ UNCHANGED reopeners BY <1>1 DEF Apart, Session
<1>3. Settled /\ AllDown BY <1>1, <1>2, QuietBetween DEF Touches
<1>4. OnlyOne(owner, owner', c) /\ owner'.inits = {} BY <1>1, <1>3 DEF Touches, Settled
<1>5. owner'.ctls[c].timers = 0 /\ owner'.ctls[c].state \in {"closing", "closed"}
  <2>1. c \in DOMAIN owner'.ctls BY <1>4 DEF OnlyOne
  <2>2. owner'.ctls[c] \in Sockets BY <1>1, <2>1 DEF Typed, TypeOK, Owners
  <2>. QED BY <1>1, <1>3, <2>2 DEF Follows, Settled, AllDown, Down, Up, Sockets
<1>6. AllDown' BY <1>3, <1>4, <1>5 DEF AllDown, Down, OnlyOne
<1>7. \A b \in DOMAIN owner'.ctls : owner'.ctls[b].timers = 0
  BY <1>3, <1>4, <1>5 DEF Settled, OnlyOne
<1>8. Settled' BY <1>2, <1>3, <1>4, <1>6, <1>7 DEF Settled, AllDown
<1>9. Queued(queue') \cap Openers = {} BY <1>1, WhichOpen DEF Touches, Unlistened
<1>. QED BY <1>6, <1>8, <1>9 DEF QuietInv

\* One step per action.
LEMMA QuietNext == ASSUME Typed, AllLeft, QuietInv, Next PROVE QuietInv'
<1>1. CASE Effects
  BY <1>1, QuietOpenOnLogin, QuietCloseOnLogout, QuietCloseOnLoginAs, QuietUnheard,
     QuietCallInit, QuietCallCloseAll, QuietReOpenOnLoginAs
  DEF Effects
<1>2. ASSUME NEW op \in Ops, Dispatch(op) PROVE QuietInv'
  BY <1>2 DEF Dispatch, QuietInv, Settled, AllDown, Closing, Owned, Down
<1>3. ASSUME NEW op \in asked, NEW ok \in BOOLEAN, Answered(op, ok) PROVE QuietInv'
  BY <1>3, QuietAnswered
<1>4. ASSUME NEW c \in DOMAIN owner.ctls, Closes(c) PROVE QuietInv' BY <1>4, QuietCloses
<1>5. ASSUME NEW w \in owner.closes, CloseTimesOut(w) PROVE QuietInv'
  BY <1>5, QuietCloseTimesOut
<1>6. ASSUME NEW c \in DOMAIN owner.ctls,
             \/ \E errored \in BOOLEAN : Lost(c, errored)
             \/ \E should \in BOOLEAN : TimerFires(c, should)
      PROVE  QuietInv'
  <2>1. /\ queue = <<>> /\ UNCHANGED loggedOut
        /\ owner.ctls[c].state \in Up \/ owner.ctls[c].timers > 0
    BY <1>6, LostTyped DEF Lost, TimerFires, Apart, Session
  <2>2. loggedOut # "quietly" BY <2>1, QuietTaskImpossible
  <2>. QED BY <2>1, <2>2 DEF QuietInv
<1>7. ASSUME NEW i \in owner.inits, NEW ok \in BOOLEAN, LinkReady(i, ok) PROVE QuietInv'
  <2>1. queue = <<>> /\ UNCHANGED loggedOut BY <1>7 DEF LinkReady, Apart, Session
  <2>2. loggedOut # "quietly" BY <2>1, QuietTaskImpossible
  <2>. QED BY <2>1, <2>2 DEF QuietInv
<1>8. ASSUME NEW c \in DOMAIN owner.ctls, NEW k \in 1..MaxChains, OfChain(c, k)
      PROVE  QuietInv'
  BY <1>8, QuietChain
<1>. QED BY <1>1, <1>2, <1>3, <1>4, <1>5, <1>6, <1>7, <1>8 DEF Next

\* Nothing happens.
LEMMA QuietStutter == ASSUME QuietInv, UNCHANGED vars PROVE QuietInv'
BY DEF QuietInv, Settled, AllDown, Closing, Owned, Down, vars

\* After a logout that found nothing left that opens sockets, all the sockets stay closed
\* until somebody logs in, for every chain of links and any number of controllers.
THEOREM QuietLogoutHolds == Spec => []QuietLogoutIsFinal
<1>1. Init => QuietInv BY DEF Init, QuietInv
<1>2. Typed /\ AllLeft /\ QuietInv /\ [Next]_vars => QuietInv' BY QuietNext, QuietStutter
<1>3. QuietInv => QuietLogoutIsFinal
  BY QuietBetween DEF QuietLogoutIsFinal, Settled, AllDown
<1>. QED BY <1>1, <1>2, <1>3, SpecTyped, SpecLeft, PTL DEF Spec
-------------------------------------------------------------------------------
\* The sockets follow the user.

\* As SocketsFollowUser has it of the sockets that the owner holds.
Followed == \A id \in Ids : LET c == owner.dict[id] IN c # 0 => Mine(owner.ctls[c])

\* Without a race one kind of request is in flight, whose guard still holds when it is
\* answered; a socket that does not follow the user is about to be closed.
FollowInv ==
  ~raced =>
    /\ \A a, b \in asked : a = b
    /\ asked \cap {"login", "loginAgain"} # {} => users = <<>>
    /\ "loginAs" \in asked => User = "master"
    /\ Closing \/ Followed

\* The controller of an id is one of the list.
LEMMA OwnedController ==
  ASSUME Typed, NEW id \in Ids, owner.dict[id] # 0
  PROVE  owner.dict[id] \in DOMAIN owner.ctls
BY DEF Typed, TypeOK, Owners

\* A step that begins and ends no request, and that leaves the closing to come in the queue
\* or the sockets with their user.
LEMMA FollowKept ==
  ASSUME FollowInv, UNCHANGED Session, ~raced /\ (Closing \/ Followed) => Closing' \/ Followed'
  PROVE  FollowInv'
BY DEF FollowInv, Session, User

\* The controllers change one by one, and those that go on have been with the user.
LEMMA FollowedKept ==
  ASSUME Typed, Followed, UNCHANGED users, owner'.dict = owner.dict,
         \A c \in DOMAIN owner.ctls : Mine(owner.ctls[c]) => Mine(owner'.ctls[c])
  PROVE  Followed'
<1> SUFFICES ASSUME NEW id \in Ids, owner'.dict[id] # 0
             PROVE  Mine(owner'.ctls[owner'.dict[id]])
  BY DEF Followed, Mine, Trusted, User
<1>1. owner.dict[id] \in DOMAIN owner.ctls /\ Mine(owner.ctls[owner.dict[id]])
  BY OwnedController DEF Followed
<1>. QED BY <1>1

\* A controller that opens again has lost its user with its connection.
LEMMA StrayIsMine == ASSUME NEW x, Stray(x) PROVE Mine(x)
BY DEF Stray, Mine, Trusted

\* One controller changes between the tasks.
LEMMA FollowedOne ==
  ASSUME Typed, FollowInv, NEW c \in DOMAIN owner.ctls, UNCHANGED Apart, queue = <<>>,
         OnlyOne(owner, owner', c), Mine(owner.ctls[c]) => Mine(owner'.ctls[c])
  PROVE  FollowInv'
<1>1. UNCHANGED Session BY DEF Apart
<1>2. UNCHANGED users BY <1>1 DEF Session
<1>3. ~Closing BY QueuedNone DEF Closing
<1>4. Followed => Followed' BY <1>2, FollowedKept DEF OnlyOne
<1>. QED BY <1>1, <1>3, <1>4, FollowKept

\* An effect that does not touch the owner, and that handles an action which closes nothing
\* or adds one that does.
LEMMA FollowEffect ==
  ASSUME FollowInv, UNCHANGED Session, UNCHANGED owner, NEW a, NEW rest,
         Queued(queue) = {a} \cup rest, rest \subseteq Queued(queue'),
         a \notin Closers \/ CloseSockets \in Queued(queue')
  PROVE  FollowInv'
<1>1. Followed => Followed' BY DEF Followed, Mine, Trusted, User, Session
<1>2. Closing => Closing' BY WhichClose DEF Closing
<1>. QED BY <1>1, <1>2, FollowKept

\* init() opens sockets, which wait for their authorization.
LEMMA FollowCallInit == ASSUME Typed, AllLeft, FollowInv, CallInit PROVE FollowInv'
<1>1. UNCHANGED Session BY DEF CallInit
<1>2. /\ Head(queue) = InitSockets /\ OnlyOpens(owner, owner')
      /\ Queued(queue) = {Head(queue)} \cup Queued(Tail(queue))
      /\ Queued(Tail(queue)) \subseteq Queued(queue')
  BY CallInitTyped
<1>3. Closing => Closing' BY <1>2, WhichClose DEF Closing
<1>4. ASSUME NEW c \in DOMAIN owner.ctls, Mine(owner.ctls[c]) PROVE Mine(owner'.ctls[c])
  <2>1. CASE owner'.ctls[c] = owner.ctls[c] BY <1>4, <2>1
  <2>2. CASE /\ owner.ctls[c].state = "closed"
             /\ owner'.ctls[c] = [owner.ctls[c] EXCEPT !.state = "pending"]
    <3>1. owner.ctls[c] \in Sockets BY TypedParts, SocketType
    <3>2. Stray(owner.ctls[c]) BY <2>2 DEF AllLeft, Left, Up
    <3>3. Stray(owner'.ctls[c]) BY <2>2, <3>1, <3>2 DEF Stray, Sockets
    <3>. QED BY <3>3, StrayIsMine
  <2>. QED BY <1>2, <2>1, <2>2 DEF OnlyOpens
<1>5. Followed => Followed' BY <1>1, <1>2, <1>4, FollowedKept DEF OnlyOpens, Session
<1>. QED BY <1>1, <1>3, <1>5, FollowKept

\* closeAll() leaves none of the owner's sockets with a user.
LEMMA FollowCallCloseAll == ASSUME Typed, FollowInv, CallCloseAll PROVE FollowInv'
<1>1. UNCHANGED Session BY DEF CallCloseAll
<1>2. ASSUME NEW id \in Ids, owner'.dict[id] # 0
      PROVE  owner'.ctls[owner'.dict[id]].state \notin Up
  <2> DEFINE c == owner.dict[id]
  <2>1. owner'.dict = owner.dict BY CallCloseAllTyped
  <2>2. c \in DOMAIN owner.ctls /\ Owned(c) BY <1>2, <2>1, OwnedController DEF Owned
  <2> HIDE DEF c
  <2>3. CASE owner.ctls[c].state \in Up
    <3>1. owner'.ctls[c].state = "closing" BY <2>2, <2>3, CallCloseAllTyped
    <3>. QED BY <2>1, <3>1 DEF c, Up
  <2>4. CASE owner.ctls[c].state \notin Up
    <3>1. owner'.ctls[c] = owner.ctls[c] BY <2>2, <2>4, CallCloseAllTyped
    <3>. QED BY <2>1, <2>4, <3>1 DEF c
  <2>. QED BY <2>3, <2>4
<1>3. Followed' BY <1>2 DEF Followed, Mine
<1>. QED BY <1>1, <1>3, FollowKept

\* A request is dispatched: if others are in flight, that is a race.
LEMMA FollowDispatch == ASSUME FollowInv, NEW op \in Ops, Dispatch(op) PROVE FollowInv'
<1> SUFFICES ASSUME ~raced' PROVE FollowInv' BY DEF FollowInv
<1>1. /\ UNCHANGED <<users, queue, owner>> /\ ~raced /\ asked' \in {{}, {op}}
      /\ asked' = asked \cup {op}
  BY DEF Dispatch
<1>2. asked' = {op} BY <1>1
<1>3. op \in {"login", "loginAgain"} => users' = <<>> BY <1>1 DEF Dispatch
<1>4. op = "loginAs" => User' = "master" BY <1>1 DEF Dispatch, User
<1>5. Closing' \/ Followed' BY <1>1 DEF FollowInv, Closing, Followed, Mine, Trusted, User
<1>. QED BY <1>2, <1>3, <1>4, <1>5 DEF FollowInv

\* A request is answered: a login finds nobody logged in, and what is up is of nobody; the
\* others have the sockets closed, or leave the user alone.
LEMMA FollowAnswered ==
  ASSUME Typed, FollowInv, NEW op \in asked, NEW ok \in BOOLEAN, Answered(op, ok)
  PROVE  FollowInv'
<1> SUFFICES ASSUME ~raced' PROVE FollowInv' BY DEF FollowInv
<1>1. /\ UNCHANGED <<owner, raced>> /\ queue = <<>> /\ asked' = asked \ {op}
      /\ op \in {"login", "loginAgain", "loginAs", "logout"}
      /\ Queued(queue') = {<<op, IF ok THEN "succeed" ELSE "errored">>}
  BY AnsweredTyped DEF Answered
<1>2. asked' = {} BY <1>1 DEF FollowInv
<1>3. Followed BY <1>1, QueuedNone DEF FollowInv, Closing
<1>4. CASE ~ok
  <2>1. users' = users BY <1>4 DEF Answered
  <2>2. Followed' BY <1>1, <1>3, <2>1 DEF Followed, Mine, Trusted, User
  <2>. QED BY <1>2, <2>2 DEF FollowInv
<1>5. CASE ok /\ op \in {"login", "loginAgain"}
  <2>1. users = <<>> BY <1>1, <1>5 DEF FollowInv
  <2>2. User = "nobody" BY <2>1 DEF User
  <2>3. Followed' BY <1>1, <1>3, <2>2 DEF Followed, Mine, Trusted
  <2>. QED BY <1>2, <2>3 DEF FollowInv
<1>6. CASE ok /\ op \in {"loginAs", "logout"}
  <2>1. Queued(queue') = {<<op, "succeed">>} BY <1>1, <1>6
  <2>2. Closing' BY <1>6, <2>1, WhichClose DEF Closing
  <2>. QED BY <1>2, <2>2 DEF FollowInv
<1>. QED BY <1>1, <1>4, <1>5, <1>6

\* The controllers of the next link wait for their authorization.
LEMMA FollowLinkReady ==
  ASSUME Typed, FollowInv, NEW i \in owner.inits, NEW ok \in BOOLEAN, LinkReady(i, ok)
  PROVE  FollowInv'
<1>1. UNCHANGED Session /\ UNCHANGED users BY DEF LinkReady, Apart, Session
<1>2. queue = <<>> /\ Grows(owner, owner') BY LinkReadyTyped
<1>3. ~Closing BY <1>2, QueuedNone DEF Closing
<1>4. ASSUME Followed PROVE Followed'
  <2> SUFFICES ASSUME NEW id \in Ids, owner'.dict[id] # 0
               PROVE  Mine(owner'.ctls[owner'.dict[id]])
    BY <1>1 DEF Followed, Mine, Trusted, User
  <2>1. CASE owner'.dict[id] = owner.dict[id]
    <3>1. owner.dict[id] \in DOMAIN owner.ctls /\ Mine(owner.ctls[owner.dict[id]])
      BY <1>4, <2>1, OwnedController DEF Followed
    <3>. QED BY <1>2, <2>1, <3>1 DEF Grows
  <2>2. CASE owner'.dict[id] \in DOMAIN owner'.ctls \ DOMAIN owner.ctls
    <3>1. Stray(owner'.ctls[owner'.dict[id]]) BY <1>2, <2>2 DEF Grows
    <3>. QED BY <3>1, StrayIsMine
  <2>. QED BY <1>2, <2>1, <2>2 DEF Grows
<1>. QED BY <1>1, <1>3, <1>4, FollowKept

\* One step per effect.
LEMMA FollowEffects == ASSUME Typed, AllLeft, FollowInv, Effects PROVE FollowInv'
<1>1. CASE OpenOnLogin
  <2>1. UNCHANGED Session /\ UNCHANGED owner BY <1>1 DEF OpenOnLogin
  <2>. QED BY <1>1, <2>1, OpenOnLoginTyped, FollowEffect, WhichClose DEF LogsIn
<1>2. CASE CloseOnLogout
  <2>1. UNCHANGED Session /\ UNCHANGED owner BY <1>2 DEF CloseOnLogout
  <2>. QED BY <1>2, <2>1, CloseOnLogoutTyped, FollowEffect
<1>3. CASE CloseOnLoginAs
  <2>1. UNCHANGED Session /\ UNCHANGED owner BY <1>3 DEF CloseOnLoginAs
  <2>. QED BY <1>3, <2>1, CloseOnLoginAsTyped, FollowEffect
<1>4. CASE Unheard
  <2>1. UNCHANGED Session /\ UNCHANGED owner BY <1>4 DEF Unheard
  <2>2. /\ Head(queue) \in Unlistened /\ Queued(queue) = {Head(queue)} \cup Queued(queue')
    BY <1>4, UnheardTyped DEF Unlistened
  <2>. QED BY <2>1, <2>2, FollowEffect, WhichClose
<1>5. CASE CallInit BY <1>5, FollowCallInit
<1>6. CASE CallCloseAll BY <1>6, FollowCallCloseAll
<1>7. CASE ReOpenOnLoginAs
  <2>1. UNCHANGED Session /\ UNCHANGED owner BY <1>7 DEF ReOpenOnLoginAs
  <2>2. /\ Head(queue) = CloseSocketsFinished
        /\ Queued(queue) = {Head(queue)} \cup Queued(Tail(queue))
        /\ Queued(Tail(queue)) \subseteq Queued(queue')
    BY <1>7, ReOpenOnLoginAsTyped
  <2>. QED BY <2>1, <2>2, FollowEffect, WhichClose
<1>. QED BY <1>1, <1>2, <1>3, <1>4, <1>5, <1>6, <1>7 DEF Effects

\* A controller that goes on keeps its user, or gets the present one.
LEMMA FollowController ==
  ASSUME Typed, AllLeft, FollowInv, NEW c \in DOMAIN owner.ctls,
         \/ \E k \in 1..MaxChains : OfChain(c, k)
         \/ Closes(c)
         \/ \E errored \in BOOLEAN : Lost(c, errored)
         \/ \E should \in BOOLEAN : TimerFires(c, should)
  PROVE  FollowInv'
<1>1. Left(owner.ctls[c]) BY DEF AllLeft
<1>2. ASSUME NEW k \in 1..MaxChains, OfChain(c, k) PROVE FollowInv'
  <2>1. /\ Touches(c) /\ UNCHANGED Apart
        /\ Mine(owner.ctls[c]) => Mine(owner'.ctls[c])
    BY <1>1, <1>2, ChainTyped DEF Follows
  <2>. QED BY <2>1, FollowedOne DEF Touches
<1>3. CASE Closes(c)
  <2>1. UNCHANGED Apart BY <1>3 DEF Closes
  <2>2. Mine(owner'.ctls[c]) BY <1>3, ClosesType DEF Mine, Up
  <2>. QED BY <1>3, <2>1, <2>2, ClosesType, FollowedOne
<1>4. ASSUME NEW errored \in BOOLEAN, Lost(c, errored) PROVE FollowInv'
  <2>1. /\ Touches(c) /\ UNCHANGED Apart /\ Mine(owner'.ctls[c])
    BY <1>4, LostTyped, StrayIsMine
  <2>. QED BY <2>1, FollowedOne DEF Touches
<1>5. ASSUME NEW should \in BOOLEAN, TimerFires(c, should) PROVE FollowInv'
  <2>1. UNCHANGED Apart BY <1>5 DEF TimerFires
  <2>2. ASSUME Mine(owner.ctls[c]) PROVE Mine(owner'.ctls[c])
    <3>1. CASE owner'.ctls[c].state = owner.ctls[c].state
      BY <1>5, <2>2, <3>1, TimerFiresTyped DEF Mine
    <3>2. CASE owner.ctls[c].state = "closed"
      <4>1. Stray(owner.ctls[c]) BY <1>1, <3>2 DEF Left, Up
      <4>2. Stray(owner'.ctls[c]) BY <1>5, <4>1, TimerFiresTyped DEF Stray
      <4>. QED BY <4>2, StrayIsMine
    <3>. QED BY <1>5, <3>1, <3>2, TimerFiresTyped
  <2>. QED BY <1>5, <2>1, <2>2, TimerFiresTyped, FollowedOne
<1>. QED BY <1>2, <1>3, <1>4, <1>5

\* One step per kind of action.
LEMMA FollowNext == ASSUME Typed, AllLeft, FollowInv, Next PROVE FollowInv'
<1>1. CASE Effects BY <1>1, FollowEffects
<1>2. ASSUME NEW op \in Ops, Dispatch(op) PROVE FollowInv' BY <1>2, FollowDispatch
<1>3. ASSUME NEW op \in asked, NEW ok \in BOOLEAN, Answered(op, ok) PROVE FollowInv'
  BY <1>3, FollowAnswered
<1>4. ASSUME NEW w \in owner.closes, CloseTimesOut(w) PROVE FollowInv'
  <2>1. UNCHANGED Session /\ UNCHANGED users BY <1>4 DEF CloseTimesOut, Apart, Session
  <2>2. queue = <<>> /\ owner'.ctls = owner.ctls /\ owner'.dict = owner.dict
    BY <1>4, CloseTimesOutTyped
  <2>3. ~Closing BY <2>2, QueuedNone DEF Closing
  <2>4. Followed => Followed' BY <2>1, <2>2 DEF Followed, Mine, Trusted, User
  <2>. QED BY <2>1, <2>3, <2>4, FollowKept
<1>5. ASSUME NEW i \in owner.inits, NEW ok \in BOOLEAN, LinkReady(i, ok) PROVE FollowInv'
  BY <1>5, FollowLinkReady
<1>. QED BY <1>1, <1>2, <1>3, <1>4, <1>5, FollowController DEF Next

\* Nothing happens.
LEMMA FollowStutter == ASSUME FollowInv, UNCHANGED vars PROVE FollowInv'
BY DEF FollowInv, Closing, Followed, Mine, Trusted, User, vars

\* At first all the controllers are closed.
LEMMA FollowInit == Init => FollowInv
<1> SUFFICES ASSUME Init PROVE FollowInv OBVIOUS
<1>1. asked = {} /\ queue = <<>> BY DEF Init
<1>2. ASSUME NEW id \in Ids, owner.dict[id] # 0
      PROVE  owner.ctls[owner.dict[id]].state = "closed"
  <2>1. owner.dict[id] \in DOMAIN owner.ctls BY <1>2, InitTyped, OwnedController
  <2>2. owner.ctls = [j \in DOMAIN Links[1] |-> NewSocket("closed")] BY DEF Init
  <2>3. NewSocket("closed").state = "closed" BY NewSocketType
  <2>4. owner.ctls[owner.dict[id]] = NewSocket("closed") BY <2>1, <2>2
  <2>. QED BY <2>3, <2>4
<1>3. Followed BY <1>2 DEF Followed, Mine, Up
<1>. QED BY <1>1, <1>3 DEF FollowInv

\* As long as no JWT requests race, a socket that the owner holds goes on with the
\* authorization of the present user only, or with one whose request was asked for before
\* its connection opened: however late the tokens, the request and the answer come, through
\* all reconnections, timeouts and init() calls that overlap.
THEOREM SocketsFollowUserHolds == Spec => []SocketsFollowUser
<1>1. Typed /\ AllLeft /\ FollowInv /\ [Next]_vars => FollowInv' BY FollowNext, FollowStutter
<1>2. FollowInv => SocketsFollowUser
  <2>1. \A x : Mine(x) /\ x.state \in {"authorized", "subscribed"} => x.by \in Trusted
    BY DEF Mine, Up
  <2>. QED BY <2>1, QueuedNone DEF FollowInv, SocketsFollowUser, Closing, Followed, Trusted
<1>. QED BY <1>1, <1>2, FollowInit, SpecTyped, SpecLeft, PTL DEF Spec
-------------------------------------------------------------------------------
\* The reports.

\* Each step of the effects with their reports is one of the effects.
LEMMA ReportsNextIsNext == ASSUME [ReportsNext]_allVars PROVE [Next]_vars
<1>1. CASE ReportsEffects
  BY <1>1 DEF ReportsEffects, ReportsMade, ReportsInitCalled, Next, Effects
<1>2. CASE ReportsCloseTimesOut BY <1>2 DEF ReportsCloseTimesOut, Next
<1>3. ASSUME NEW op \in Ops, ReportsListen(op) PROVE Next BY <1>3 DEF ReportsListen, Next
<1>4. CASE UNCHANGED allVars BY <1>4 DEF allVars
<1>. QED BY <1>1, <1>2, <1>3, <1>4 DEF ReportsNext, Next

\* The reports change nothing of what the effects do: what is true of them alone is true of
\* them with their reports.
THEOREM ReportsImplementEffects == ReportsSpec => Spec
<1>1. ReportsInit => Init BY DEF ReportsInit
<1>2. [ReportsNext]_allVars => [Next]_vars BY ReportsNextIsNext
<1>. QED BY <1>1, <1>2, PTL DEF ReportsSpec, Spec

ReportsTyped ==
  /\ unreported \subseteq listening /\ listening \subseteq Logins
  /\ lost \in BOOLEAN /\ made \subseteq Logins \X {"succeed", "errored"}

\* The reports of every step are typed.
LEMMA ReportsNextTyped ==
  ASSUME ReportsTyped, [ReportsNext]_allVars
  PROVE  ReportsTyped'
<1>1. ASSUME NEW ops \in SUBSET Logins, NEW how \in {"succeed", "errored"}
      PROVE  Reports(ops, how) \subseteq Logins \X {"succeed", "errored"}
  BY DEF Reports, ReportOf, Logins
<1>2. CASE ReportsMade
  <2>1. made' = Reports(listening, "succeed") \/ made' = Reports(listening, "errored")
    BY <1>2 DEF ReportsMade
  <2>2. made' \subseteq Logins \X {"succeed", "errored"} BY <1>1, <2>1 DEF ReportsTyped
  <2>. QED BY <1>2, <2>2 DEF ReportsMade, ReportsTyped
<1>3. CASE ReportsInitCalled
  <2>1. lost' \in BOOLEAN
    <3>1. lost' = (lost \/ Throws) BY <1>3 DEF ReportsInitCalled
    <3>2. Throws \in BOOLEAN BY DEF Throws
    <3>. QED BY <3>1, <3>2 DEF ReportsTyped
  <2>. QED BY <1>3, <2>1 DEF ReportsInitCalled, ReportsTyped
<1>4. CASE Apart2 BY <1>4 DEF Apart2, ReportsTyped
<1>5. ASSUME NEW op \in Ops, ReportsListen(op) PROVE ReportsTyped'
  BY <1>5 DEF ReportsListen, ReportsTyped
<1>6. CASE UNCHANGED allVars BY <1>6 DEF allVars, reportVars, ReportsTyped
<1>. QED
  BY <1>2, <1>3, <1>4, <1>5, <1>6 DEF ReportsNext, ReportsEffects, ReportsCloseTimesOut

\* Every state of the effects and of their reports is typed.
LEMMA ReportsSpecTyped == ReportsSpec => [](Typed /\ ReportsTyped)
<1>1. ReportsInit => ReportsTyped BY DEF ReportsInit, ReportsTyped
<1>2. ReportsTyped /\ [ReportsNext]_allVars => ReportsTyped' BY ReportsNextTyped
<1>. QED BY <1>1, <1>2, ReportsImplementEffects, SpecTyped, PTL DEF ReportsSpec

\* The listeners, the unreported logins and the reports keep their types, and a login is
\* unreported only while its report listens.
THEOREM ReportsTypeCorrect == ReportsSpec => []ReportsTypeOK
<1>1. Typed /\ ReportsTyped => ReportsTypeOK BY DEF Typed, ReportsTyped, ReportsTypeOK
<1>. QED BY <1>1, ReportsSpecTyped, PTL
-------------------------------------------------------------------------------
\* No login is forgotten.

\* The actions that are reported, or that have an init() called.
Leads == Outcomes \cup LogsIn \cup {<<"loginAs", "succeed">>, InitSockets}

\* Closings, which reOpenOnLoginAs$ follows by opening the sockets again.
Returns == {CloseSockets, CloseSocketsFinished}

Lead ==
  \/ Queued(queue) \cap Leads # {}
  \/ reopeners > 0 /\ Queued(queue) \cap Returns # {}

\* What a report can still come from: a request, a call of init(), the end of a closing, or
\* an action in the queue.
Awaited ==
  \/ unreported \cap asked # {}
  \/ \E i \in owner.inits : i.heard
  \/ owner.closes # {} /\ reopeners > 0
  \/ Lead

LoginInv == unreported # {} /\ ~lost => Awaited

\* Which of the actions lead to a report, and which after a closing.
LEMMA WhichLead ==
  /\ InitSockets \in Leads /\ InitSocketsErrored \in Leads /\ InitSocketsSucceed \in Leads
  /\ LogsIn \subseteq Leads /\ <<"loginAs", "succeed">> \in Leads
  /\ CloseSockets \in Returns /\ CloseSocketsFinished \in Returns
  /\ CloseSockets \notin Leads /\ CloseSocketsFinished \notin Leads
  /\ <<"logout", "succeed">> \notin Leads \cup Returns
  /\ <<"logout", "errored">> \notin Leads \cup Returns
  /\ {<<op, "errored">> : op \in Logins} \subseteq Leads
BY DEF Leads, Returns, Outcomes, LogsIn, Logins, InitSockets, InitSocketsSucceed,
       InitSocketsErrored, CloseSockets, CloseSocketsFinished

\* An action in the queue that leads to a report.
LEMMA LeadsAwaited ==
  ASSUME NEW a, a \in Queued(queue'), a \in Leads \/ (reopeners' > 0 /\ a \in Returns)
  PROVE  Awaited'
<1>1. CASE a \in Leads
  <2>1. Queued(queue') \cap Leads # {} BY <1>1
  <2>. QED BY <2>1 DEF Awaited, Lead
<1>2. CASE reopeners' > 0 /\ a \in Returns
  <2>1. Queued(queue') \cap Returns # {} BY <1>2
  <2>. QED BY <1>2, <2>1 DEF Awaited, Lead
<1>. QED BY <1>1, <1>2

\* A step of an effect, which keeps what is awaited besides the queue, and of the queue all
\* but its first action: if that leads to a report, the step leads there too.
LEMMA LoginKept ==
  ASSUME LoginInv, UNCHANGED <<Session, unreported, lost>>,
         reopeners > 0 => reopeners' > 0,
         owner.closes # {} => owner'.closes # {},
         (\E i \in owner.inits : i.heard) => (\E i \in owner'.inits : i.heard),
         NEW a, NEW rest, Queued(queue) = {a} \cup rest, rest \subseteq Queued(queue'),
         a \in Leads \/ (reopeners > 0 /\ a \in Returns) => Awaited'
  PROVE  LoginInv'
<1> SUFFICES ASSUME unreported # {}, ~lost PROVE Awaited' BY DEF LoginInv
<1>1. UNCHANGED asked BY DEF Session
<1>2. CASE unreported \cap asked # {} BY <1>1, <1>2 DEF Awaited
<1>3. CASE \E i \in owner.inits : i.heard BY <1>3 DEF Awaited
<1>4. CASE owner.closes # {} /\ reopeners > 0 BY <1>4 DEF Awaited
<1>5. CASE rest \cap Leads # {} \/ (reopeners > 0 /\ rest \cap Returns # {})
  BY <1>5, LeadsAwaited
<1>6. CASE a \in Leads \/ (reopeners > 0 /\ a \in Returns) BY <1>6
<1>. QED BY <1>2, <1>3, <1>4, <1>5, <1>6 DEF LoginInv, Awaited, Lead

\* The same for a task of the browser, which finds the queue empty.
LEMMA LoginTask ==
  ASSUME LoginInv, queue = <<>>, UNCHANGED Apart, UNCHANGED <<unreported, lost>>,
         owner.closes # {} => owner'.closes # {} \/ CloseSocketsFinished \in Queued(queue'),
         (\E i \in owner.inits : i.heard)
           => (\E i \in owner'.inits : i.heard) \/ Queued(queue') \cap Leads # {}
  PROVE  LoginInv'
<1> SUFFICES ASSUME unreported # {}, ~lost PROVE Awaited' BY DEF LoginInv
<1>1. UNCHANGED asked /\ UNCHANGED reopeners BY DEF Apart, Session
<1>2. CASE unreported \cap asked # {} BY <1>1, <1>2 DEF Awaited
<1>3. CASE \E i \in owner.inits : i.heard
  <2>1. CASE \E i \in owner'.inits : i.heard BY <2>1 DEF Awaited
  <2>2. CASE Queued(queue') \cap Leads # {} BY <2>2, LeadsAwaited
  <2>. QED BY <1>3, <2>1, <2>2
<1>4. CASE owner.closes # {} /\ reopeners > 0
  <2>1. CASE owner'.closes # {} BY <1>1, <1>4, <2>1 DEF Awaited
  <2>2. CASE CloseSocketsFinished \in Queued(queue')
    BY <1>1, <1>4, <2>2, LeadsAwaited, WhichLead
  <2>. QED BY <1>4, <2>1, <2>2
<1>. QED BY <1>2, <1>3, <1>4, QueuedNone DEF LoginInv, Awaited, Lead

\* A login that has succeeded has the sockets opened.
LEMMA LoginOpenOnLogin ==
  ASSUME Typed, LoginInv, OpenOnLogin
  PROVE  LoginInv'
<1>1. InitSockets \in Queued(queue') BY OpenOnLoginTyped
<1>2. Awaited' BY <1>1, LeadsAwaited, WhichLead
<1>. QED BY <1>2 DEF LoginInv

\* No report comes from a logout.
LEMMA LoginCloseOnLogout ==
  ASSUME Typed, LoginInv, CloseOnLogout, UNCHANGED <<unreported, lost>>
  PROVE  LoginInv'
<1>1. UNCHANGED <<Session, owner, reopeners>> BY DEF CloseOnLogout
<1>2. /\ Queued(queue) = {Head(queue)} \cup Queued(Tail(queue))
      /\ Queued(Tail(queue)) \subseteq Queued(queue') /\ Head(queue) = <<"logout", "succeed">>
  BY CloseOnLogoutTyped
<1>3. Head(queue) \notin Leads \cup Returns BY <1>2, WhichLead
<1>. QED BY <1>1, <1>2, <1>3, LoginKept

\* After loginAsSucceed the sockets are closed, and opened again by one subscription more.
LEMMA LoginCloseOnLoginAs ==
  ASSUME Typed, LoginInv, CloseOnLoginAs, ~Heard, UNCHANGED <<unreported, lost>>
  PROVE  LoginInv'
<1>1. UNCHANGED <<Session, owner>> /\ queue # <<>> BY DEF CloseOnLoginAs
<1>2. /\ Queued(queue) = {Head(queue)} \cup Queued(Tail(queue))
      /\ Queued(queue') = Queued(Tail(queue)) \cup {CloseSockets}
      /\ Head(queue)[1] = "loginAs"
      /\ reopeners' = reopeners + IF Head(queue)[2] = "succeed" THEN 1 ELSE 0
      /\ reopeners \in Nat
  BY CloseOnLoginAsTyped, TypedParts
<1>3. CASE Head(queue)[2] = "succeed"
  <2>1. reopeners' > 0 BY <1>2, <1>3
  <2>2. Awaited' BY <1>2, <2>1, LeadsAwaited, WhichLead
  <2>. QED BY <2>2 DEF LoginInv
<1>4. CASE Head(queue)[2] # "succeed"
  <2>1. UNCHANGED reopeners BY <1>2, <1>4
  <2>2. Head(queue) \notin Leads \cup Returns
    <3>1. Head(queue) \in Actions BY <1>1, TypedParts, QueuedTail
    <3>2. Head(queue) \notin Outcomes BY <1>1 DEF Heard
    <3>3. /\ Head(queue) # InitSockets /\ Head(queue) \notin LogsIn
          /\ Head(queue) # <<"loginAs", "succeed">> /\ Head(queue) \notin Returns
      BY <1>2, <1>4 DEF InitSockets, LogsIn, Returns, CloseSockets, CloseSocketsFinished
    <3>. QED BY <3>2, <3>3 DEF Leads
  <2>. QED BY <1>1, <1>2, <2>1, <2>2, LoginKept
<1>. QED BY <1>3, <1>4

\* Of what no effect hears, all but logoutErrored makes reports.
LEMMA LoginUnheard ==
  ASSUME Typed, LoginInv, Unheard, ~Heard, UNCHANGED <<unreported, lost>>
  PROVE  LoginInv'
<1>1. UNCHANGED <<Session, owner, reopeners>> /\ queue # <<>> BY DEF Unheard
<1>2. /\ Queued(queue) = {Head(queue)} \cup Queued(queue')
      /\ Head(queue) \in Unlistened
  BY UnheardTyped DEF Unlistened
<1>3. Head(queue) = <<"logout", "errored">>
  <2>1. Head(queue) \notin Outcomes BY <1>1 DEF Heard
  <2>2. Unlistened \subseteq Outcomes \cup {<<"logout", "errored">>}
    BY DEF Unlistened, Outcomes, Logins
  <2>. QED BY <1>2, <2>1, <2>2
<1>4. Head(queue) \notin Leads \cup Returns BY <1>3, WhichLead
<1>. QED BY <1>1, <1>2, <1>4, LoginKept

\* init() begins to wait, or its failure is reported, or it has thrown and is lost.
LEMMA LoginCallInit ==
  ASSUME Typed, LoginInv, ReportsInitCalled, ReportsTyped
  PROVE  LoginInv'
<1> SUFFICES ASSUME ~lost' PROVE Awaited' BY DEF LoginInv
<1>1. CallInit /\ ~Throws BY DEF ReportsInitCalled
<1>2. InitSocketsErrored \in Queued(queue') \/ \E i \in owner'.inits : i.heard
  BY <1>1, CallInitTyped
<1>3. CASE InitSocketsErrored \in Queued(queue') BY <1>3, LeadsAwaited, WhichLead
<1>4. CASE \E i \in owner'.inits : i.heard BY <1>4 DEF Awaited
<1>. QED BY <1>2, <1>3, <1>4

\* closeAll() is finished at once, or will be.
LEMMA LoginCallCloseAll ==
  ASSUME Typed, LoginInv, CallCloseAll, UNCHANGED <<unreported, lost>>
  PROVE  LoginInv'
<1>1. UNCHANGED <<Session, reopeners>> BY DEF CallCloseAll
<1>2. /\ Queued(queue) = {Head(queue)} \cup Queued(Tail(queue))
      /\ Queued(Tail(queue)) \subseteq Queued(queue') /\ Head(queue) = CloseSockets
      /\ owner.closes \subseteq owner'.closes /\ owner'.inits = owner.inits
      /\ CloseSocketsFinished \in Queued(queue') \/ owner'.closes # {}
  BY CallCloseAllTyped
<1>3. ASSUME reopeners > 0 PROVE Awaited'
  <2>1. CASE CloseSocketsFinished \in Queued(queue')
    BY <1>1, <1>3, <2>1, LeadsAwaited, WhichLead
  <2>2. CASE owner'.closes # {} BY <1>1, <1>3, <2>2 DEF Awaited
  <2>. QED BY <1>2, <2>1, <2>2
<1>4. Head(queue) \notin Leads BY <1>2, WhichLead
<1>. QED BY <1>1, <1>2, <1>3, <1>4, LoginKept

\* With a subscription left the sockets are opened again.
LEMMA LoginReOpenOnLoginAs ==
  ASSUME Typed, LoginInv, ReOpenOnLoginAs, UNCHANGED <<unreported, lost>>
  PROVE  LoginInv'
<1>1. UNCHANGED <<Session, owner, reopeners>> BY DEF ReOpenOnLoginAs
<1>2. /\ Queued(queue) = {Head(queue)} \cup Queued(Tail(queue))
      /\ Head(queue) = CloseSocketsFinished
      /\ Queued(queue') = Queued(Tail(queue)) \cup IF reopeners = 0 THEN {} ELSE {InitSockets}
  BY ReOpenOnLoginAsTyped
<1>3. ASSUME reopeners > 0 PROVE Awaited'
  <2>1. InitSockets \in Queued(queue') BY <1>2, <1>3
  <2>. QED BY <2>1, LeadsAwaited, WhichLead
<1>4. Head(queue) \notin Leads BY <1>2, WhichLead
<1>. QED BY <1>1, <1>2, <1>3, <1>4, LoginKept

\* The login whose request is answered is in the queue now.
LEMMA LoginAnswered ==
  ASSUME Typed, ReportsTyped, LoginInv, NEW op \in asked, NEW ok \in BOOLEAN,
         Answered(op, ok), UNCHANGED <<unreported, lost>>
  PROVE  LoginInv'
<1> SUFFICES ASSUME unreported # {}, ~lost PROVE Awaited' BY DEF LoginInv
<1>1. /\ queue = <<>> /\ UNCHANGED <<owner, reopeners>> /\ asked' = asked \ {op}
      /\ Queued(queue') = {<<op, IF ok THEN "succeed" ELSE "errored">>}
  BY AnsweredTyped DEF Answered
<1>2. ~Lead BY <1>1, QueuedNone DEF Lead
<1>3. CASE op \in unreported
  <2>1. op \in Logins BY <1>3 DEF ReportsTyped
  <2>2. <<op, IF ok THEN "succeed" ELSE "errored">> \in Leads
    <3>1. CASE ok BY <2>1, <3>1 DEF Leads, LogsIn, Logins
    <3>2. CASE ~ok BY <2>1, <3>2 DEF Leads, Outcomes
    <3>. QED BY <3>1, <3>2
  <2>. QED BY <1>1, <2>2, LeadsAwaited
<1>4. CASE op \notin unreported BY <1>1, <1>2, <1>4 DEF LoginInv, Awaited
<1>. QED BY <1>3, <1>4

\* The request of a login that begins to listen is in flight.
LEMMA LoginListens ==
  ASSUME LoginInv, NEW op \in Ops, ReportsListen(op)
  PROVE  LoginInv'
<1>1. UNCHANGED <<queue, owner, reopeners, lost>> /\ asked' = asked \cup {op}
  BY DEF ReportsListen, Dispatch
<1>2. CASE op \in Logins
  <2>1. op \in unreported' \cap asked' BY <1>1, <1>2 DEF ReportsListen
  <2>. QED BY <2>1 DEF LoginInv, Awaited
<1>3. CASE op \notin Logins
  <2>1. UNCHANGED unreported BY <1>3 DEF ReportsListen
  <2>. QED BY <1>1, <2>1 DEF LoginInv, Awaited, Lead
<1>. QED BY <1>2, <1>3

\* Controllers change, and the calls of init() that fail tell so.
LEMMA LoginController ==
  ASSUME Typed, LoginInv, UNCHANGED <<unreported, lost>>, NEW c \in DOMAIN owner.ctls,
         \/ \E k \in 1..MaxChains : OfChain(c, k)
         \/ Closes(c)
         \/ \E errored \in BOOLEAN : Lost(c, errored)
         \/ \E should \in BOOLEAN : TimerFires(c, should)
  PROVE  LoginInv'
<1>1. ASSUME FailuresHeard, queue = <<>>, UNCHANGED Apart,
             owner.closes # {}
               => owner'.closes # {} \/ CloseSocketsFinished \in Queued(queue')
      PROVE  LoginInv'
  <2>1. InitSocketsErrored \in Leads BY WhichLead
  <2>. QED BY <1>1, <2>1, LoginTask DEF FailuresHeard
<1>2. CASE Touches(c) /\ UNCHANGED Apart BY <1>1, <1>2 DEF Touches
<1>3. CASE Closes(c)
  <2>1. UNCHANGED Apart BY <1>3 DEF Closes
  <2>. QED BY <1>1, <1>3, <2>1, ClosesType
<1>4. ASSUME NEW should \in BOOLEAN, TimerFires(c, should) PROVE LoginInv'
  <2>1. UNCHANGED Apart BY <1>4 DEF TimerFires
  <2>. QED BY <1>4, <2>1, TimerFiresTyped, LoginTask
<1>. QED BY <1>2, <1>3, <1>4, ChainTyped, LostTyped

\* A call of init() tells that it ends, or goes on.
LEMMA LoginLinkReady ==
  ASSUME Typed, LoginInv, UNCHANGED <<unreported, lost>>,
         NEW i \in owner.inits, NEW ok \in BOOLEAN, LinkReady(i, ok)
  PROVE  LoginInv'
<1>1. UNCHANGED Apart BY DEF LinkReady
<1>2. /\ queue = <<>> /\ owner'.closes = owner.closes
      /\ Queued(queue') \subseteq {InitSocketsSucceed, InitSocketsErrored}
      /\ (\E h \in owner.inits : h.heard)
           => (\E h \in owner'.inits : h.heard) \/ Queued(queue') # {}
  BY LinkReadyTyped
<1>3. Queued(queue') # {} => Queued(queue') \cap Leads # {} BY <1>2, WhichLead
<1>. QED BY <1>1, <1>2, <1>3, LoginTask

\* A closing that times out is finished.
LEMMA LoginCloseTimesOut ==
  ASSUME Typed, LoginInv, UNCHANGED <<unreported, lost>>,
         NEW w \in owner.closes, CloseTimesOut(w)
  PROVE  LoginInv'
<1>1. UNCHANGED Apart BY DEF CloseTimesOut
<1>. QED BY <1>1, CloseTimesOutTyped, LoginTask

\* One step per kind of action.
LEMMA LoginNext == ASSUME Typed, ReportsTyped, LoginInv, ReportsNext PROVE LoginInv'
<1>1. CASE ReportsMade BY <1>1 DEF ReportsMade, LoginInv
<1>2. CASE ReportsInitCalled BY <1>2, LoginCallInit
<1>3. Apart2 => UNCHANGED <<unreported, lost>> BY DEF Apart2
<1>4. CASE ReportsEffects
  BY <1>1, <1>2, <1>3, <1>4, LoginOpenOnLogin, LoginCloseOnLogout, LoginCloseOnLoginAs,
     LoginUnheard, LoginCallCloseAll, LoginReOpenOnLoginAs
  DEF ReportsEffects
<1>5. CASE ReportsCloseTimesOut BY <1>3, <1>5, LoginCloseTimesOut DEF ReportsCloseTimesOut
<1>6. ASSUME NEW op \in Ops, ReportsListen(op) PROVE LoginInv' BY <1>6, LoginListens
<1>7. ASSUME NEW op \in asked, NEW ok \in BOOLEAN, Answered(op, ok), Apart2 PROVE LoginInv'
  BY <1>3, <1>7, LoginAnswered
<1>8. ASSUME NEW i \in owner.inits, NEW ok \in BOOLEAN, LinkReady(i, ok), Apart2
      PROVE  LoginInv'
  BY <1>3, <1>8, LoginLinkReady
<1>. QED BY <1>3, <1>4, <1>5, <1>6, <1>7, <1>8, LoginController DEF ReportsNext

\* Nothing happens.
LEMMA LoginStutter == ASSUME LoginInv, UNCHANGED allVars PROVE LoginInv'
BY DEF LoginInv, Awaited, Lead, allVars, vars, reportVars

\* No login is forgotten: as long as none of its reports has been made there is somebody who
\* will make one, or an init() has thrown, for every chain of links and any number of logins.
THEOREM NoLoginIsForgottenHolds == ReportsSpec => []NoLoginIsForgotten
<1>1. ReportsInit => LoginInv BY DEF ReportsInit, LoginInv
<1>2. Typed /\ ReportsTyped /\ LoginInv /\ [ReportsNext]_allVars => LoginInv'
  BY LoginNext, LoginStutter
<1>3. LoginInv => NoLoginIsForgotten
  BY QueuedNone DEF LoginInv, NoLoginIsForgotten, Awaited, Lead
<1>. QED BY <1>1, <1>2, <1>3, ReportsSpecTyped, PTL DEF ReportsSpec
===============================================================================
