----------------------- MODULE WebSocketRequests_proofs -----------------------
(***************************************************************************)
(* The proofs that requests reach the server only on connections that are  *)
(* fit for them (OnlyFitSockets) and that the states of the controller come*)
(* in the order that WebSocketLifecycle allows (LifecycleSpec), also when  *)
(* createRequest() or createRequests() emits late, to another connection   *)
(* than the one that it was called for.                                    *)
(*                                                                         *)
(* The inductive invariant of the first is that the state speaks of the    *)
(* connection it writes to (Ready), and that an answer finds a waiting     *)
(* authorization or subscription only on the connection its request went   *)
(* to (Requests), as request ids are not used twice.  The second adds that *)
(* the state is one of the connection in use, and that what is asked on it *)
(* tells which, as long as nothing is asked late (Phased).                 *)
(***************************************************************************)
EXTENDS WebSocketController_proofs

\* The ids of the messages in the buffers.
Buffered(c) ==
  UNION {{c.buffers[need][i] : i \in DOMAIN c.buffers[need]} : need \in MessageRequirements}

\* createRequests() may emit after the connection that it was called for is gone.
LateSub == "later" \in SubMakes

\* A connection on which messages that need authorization may go.
Admitted(x) == x.authorized \/ (LateSub /\ x.subscribed)

\* A request at the server has come on a connection that was fit for it.
Fits(c, r) ==
  /\ r.on \in DOMAIN c.ws /\ r.id < c.reqCounter
  /\ r.need \in {"auth", "sub"} => Admitted(c.ws[r.on])
  /\ r.need = "sub" => c.ws[r.on].subscribed

\* The controller's own requests are on the connection that the wait for them names.
Matched(c, w) ==
  /\ w.ids \subseteq 1..(c.reqCounter - 1)
  /\ w.for # "user" =>
       /\ w.ids \cap Buffered(c) = {}
       /\ \A r \in c.asked : r.id \in w.ids => r.on = w.on
       /\ w.for = "subscribe" /\ w.on # 0 => LateSub \/ c.ws[w.on].authorized

Requests(c) ==
  /\ "later" \in AuthMakes \/ c.makingAuth = 0
  /\ LateSub \/ c.makingSub = 0
  /\ c.reqCounter > 0
  /\ \A r \in c.asked : Fits(c, r)
  /\ \A id \in Buffered(c) : id < c.reqCounter
  /\ \A w \in c.waits : Matched(c, w)

\* What is written reaches a connection that is what the state says.
Ready(c) ==
  Writable(c) # 0 =>
    /\ c.state = "authorized" => c.ws[Writable(c)].authorized
    /\ c.state = "subscribed" =>
         c.ws[Writable(c)].subscribed /\ Admitted(c.ws[Writable(c)])

FInv == Requests(ctl) /\ Ready(ctl)

Fit(c) == Good(c) /\ Requests(c) /\ Ready(c)

\* What a method that asks nobody keeps: connections stay what they are, and no request is
\* made.
Follows(c, d) ==
  /\ DOMAIN c.ws \subseteq DOMAIN d.ws
  /\ \A s \in DOMAIN c.ws : /\ c.ws[s].authorized => d.ws[s].authorized
                            /\ c.ws[s].subscribed => d.ws[s].subscribed
  /\ d.asked \subseteq c.asked /\ d.waits \subseteq c.waits
  /\ d.buffers = c.buffers /\ d.reqCounter = c.reqCounter
  /\ "later" \in AuthMakes \/ d.makingAuth = c.makingAuth
  /\ LateSub \/ d.makingSub = c.makingSub
-------------------------------------------------------------------------------
\* One method after another that asks nobody.
LEMMA FollowsTransitive ==
  ASSUME NEW c, NEW d, NEW e, Follows(c, d), Follows(d, e)
  PROVE  Follows(c, e)
BY DEF Follows

\* Doing nothing asks nobody.
LEMMA FollowsItself == ASSUME NEW c PROVE Follows(c, c)
BY DEF Follows

\* A socket that something was sent on was made.
LEMMA OnWasMade ==
  ASSUME NEW c, Typed(c), NEW w \in c.waits, w.on # 0
  PROVE  w.on \in DOMAIN c.ws
<1>1. /\ w.on \in Nat /\ w.on <= Len(c.ws) /\ c.ws \in Seq(Sockets)
      /\ Len(c.ws) \in Nat /\ DOMAIN c.ws = 1..Len(c.ws)
  BY DEF Typed, Controllers, Waits
<1>. QED BY <1>1

\* Making room takes nothing in.
LEMMA RoomIsMade ==
  ASSUME NEW buffer \in Seq(Nat), NEW size \in Nat, NEW overflow
  PROVE  LET room == MakeRoom(buffer, size, overflow)
         IN  /\ room \in Seq(Nat)
             /\ {room[i] : i \in DOMAIN room} \subseteq {buffer[i] : i \in DOMAIN buffer}
<1> DEFINE room == MakeRoom(buffer, size, overflow)
           short == SubSeq(buffer, 1, Len(buffer) - 1)
<1>1. room \in Seq(Nat) BY MakeRoomType
<1>2. CASE Len(buffer) < EffectiveSize(size) BY <1>1, <1>2 DEF MakeRoom
<1>3. CASE ~(Len(buffer) < EffectiveSize(size))
  <2>1. Len(buffer) \in Nat /\ Len(buffer) > 0 /\ DOMAIN buffer = 1..Len(buffer)
    BY <1>3 DEF EffectiveSize, DefaultSize
  <2>2. /\ DOMAIN Tail(buffer) = 1..(Len(buffer) - 1)
        /\ \A i \in 1..(Len(buffer) - 1) :
             Tail(buffer)[i] = buffer[i + 1] /\ i + 1 \in 1..Len(buffer)
    BY <2>1
  <2>3. /\ DOMAIN short = 1..(Len(buffer) - 1)
        /\ \A i \in 1..(Len(buffer) - 1) : short[i] = buffer[i] /\ i \in 1..Len(buffer)
    BY <2>1
  <2>4. room = Tail(buffer) \/ room = short BY <1>3 DEF MakeRoom
  <2> HIDE DEF room, short
  <2>5. ASSUME NEW i \in DOMAIN room PROVE \E j \in DOMAIN buffer : buffer[j] = room[i]
    <3>1. CASE room = Tail(buffer)
      <4>1. i \in 1..(Len(buffer) - 1) BY <2>2, <2>5, <3>1
      <4>2. room[i] = buffer[i + 1] /\ i + 1 \in DOMAIN buffer BY <2>1, <2>2, <3>1, <4>1
      <4>. QED BY <4>2
    <3>2. CASE room = short
      <4>1. i \in 1..(Len(buffer) - 1) BY <2>3, <2>5, <3>2
      <4>2. room[i] = buffer[i] /\ i \in DOMAIN buffer BY <2>1, <2>3, <3>2, <4>1
      <4>. QED BY <4>2
    <3>. QED BY <2>4, <3>1, <3>2
  <2>6. {room[i] : i \in DOMAIN room} \subseteq {buffer[i] : i \in DOMAIN buffer}
    BY <2>5
  <2>. QED BY <1>1, <2>6 DEF room
<1>. QED BY <1>2, <1>3

\* What asks nobody leaves the requests matched.
LEMMA FollowsRequests ==
  ASSUME NEW c, Typed(c), Requests(c), NEW d, Follows(c, d)
  PROVE  Requests(d)
<1>1. Buffered(d) = Buffered(c) BY DEF Buffered, Follows
<1>2. ASSUME NEW r \in d.asked PROVE Fits(d, r)
  BY DEF Follows, Requests, Fits, Admitted
<1>3. ASSUME NEW w \in d.waits PROVE Matched(d, w)
  <2>1. w \in c.waits /\ Matched(c, w) BY DEF Follows, Requests
  <2>2. w.on # 0 => w.on \in DOMAIN c.ws BY <2>1, OnWasMade
  <2>3. d.asked \subseteq c.asked /\ d.reqCounter = c.reqCounter BY DEF Follows
  <2>4. w.on # 0 /\ c.ws[w.on].authorized => d.ws[w.on].authorized BY <2>2 DEF Follows
  <2>. QED BY <1>1, <2>1, <2>3, <2>4 DEF Matched
<1>. QED BY <1>1, <1>2, <1>3 DEF Requests, Follows

\* Where a write goes, and whether that is ready, depends on three fields.
LEMMA SameConnection ==
  ASSUME NEW c, NEW d, d.socket = c.socket, d.ws = c.ws
  PROVE  Writable(d) = Writable(c) /\ (d.state = c.state => (Ready(c) => Ready(d)))
<1>1. Writable(d) = Writable(c) BY DEF Writable
<1>. QED BY <1>1 DEF Ready

\* A state that speaks of no connection is no promise.
LEMMA ReadyByState ==
  ASSUME NEW c, c.state \notin {"authorized", "subscribed"}
  PROVE  Ready(c)
BY DEF Ready

\* A write goes to a socket that was made.
LEMMA WritableWasMade ==
  ASSUME NEW c, Typed(c), Writable(c) # 0
  PROVE  Writable(c) \in DOMAIN c.ws /\ Writable(c) = c.socket /\ c.ws[c.socket].ready = "OPEN"
<1>1. /\ c.socket \in Nat /\ c.socket <= Len(c.ws) /\ c.ws \in Seq(Sockets)
      /\ Len(c.ws) \in Nat /\ DOMAIN c.ws = 1..Len(c.ws)
  BY DEF Typed, Controllers
<1>. QED BY <1>1 DEF Writable

\* Requests that nobody else waits for, written to a connection that is fit for them, are
\* matched; and nothing but the server's inbox has changed.
LEMMA SendDirectFit ==
  ASSUME NEW c, Good(c), Requests(c), NEW ids \in SUBSET Nat,
         NEW need \in MessageRequirements \cup {"authorize", "subscribe"},
         \A i \in ids : i < c.reqCounter,
         \A w \in c.waits : w.for # "user" => w.ids \cap ids = {},
         Writable(c) # 0 => /\ need \in {"auth", "sub"} => Admitted(c.ws[Writable(c)])
                            /\ need = "sub" => c.ws[Writable(c)].subscribed
  PROVE  LET d == SendDirect(c, ids, need)
         IN  /\ Requests(d)
             /\ d.state = c.state /\ d.socket = c.socket /\ d.ws = c.ws /\ d.waits = c.waits
             /\ d.buffers = c.buffers /\ d.reqCounter = c.reqCounter
             /\ \A r \in d.asked : r \in c.asked \/ r.on = Writable(c)
<1> DEFINE new == [id: ids \ {0}, need: {need}, on: {Writable(c)}]
           d == [c EXCEPT !.asked = c.asked \cup new]
<1>1. CASE Writable(c) = 0 BY <1>1 DEF SendDirect
<1>2. CASE Writable(c) # 0
  <2>1. /\ d.state = c.state /\ d.socket = c.socket /\ d.ws = c.ws /\ d.waits = c.waits
        /\ d.buffers = c.buffers /\ d.reqCounter = c.reqCounter
        /\ d.makingAuth = c.makingAuth /\ d.makingSub = c.makingSub
        /\ d.asked = c.asked \cup new
    BY DEF Good, Typed, Controllers
  <2>2. \A r \in new : r.id \in ids /\ r.need = need /\ r.on = Writable(c) OBVIOUS
  <2>3. Writable(c) \in DOMAIN c.ws BY <1>2, WritableWasMade DEF Good
  <2>4. SendDirect(c, ids, need) = d BY <1>2 DEF SendDirect
  <2> HIDE DEF new, d
  <2>5. ASSUME NEW r \in d.asked PROVE Fits(d, r)
    <3>1. CASE r \in c.asked BY <2>1, <3>1 DEF Requests, Fits
    <3>2. CASE r \in new BY <1>2, <2>1, <2>2, <2>3, <3>2 DEF Fits
    <3>. QED BY <2>1, <3>1, <3>2
  <2>6. Buffered(d) = Buffered(c) BY <2>1 DEF Buffered
  <2>7. ASSUME NEW w \in d.waits PROVE Matched(d, w)
    <3>1. w \in c.waits /\ Matched(c, w) BY <2>1 DEF Requests
    <3>2. w.for # "user" => \A r \in d.asked : r.id \in w.ids => r.on = w.on
      BY <2>1, <2>2, <3>1 DEF Matched
    <3>. QED BY <2>1, <2>6, <3>1, <3>2 DEF Matched
  <2>8. Requests(d) BY <2>1, <2>5, <2>6, <2>7 DEF Requests
  <2>. QED BY <2>1, <2>2, <2>4, <2>8
<1>. QED BY <1>1, <1>2

\* _sendBuffered writes what has waited for the state that there is now.
LEMMA SendBufferedFit ==
  ASSUME NEW c, Fit(c), NEW need \in MessageRequirements,
         need = "auth" => c.state \in {"authorized", "subscribed"},
         need = "sub" => c.state = "subscribed"
  PROVE  LET d == SendBuffered(c, need)
         IN  Fit(d) /\ d.state = c.state /\ d.socket = c.socket /\ d.ws = c.ws
<1> DEFINE ids == {c.buffers[need][i] : i \in DOMAIN c.buffers[need]}
           b == [c EXCEPT !.buffers = Remove(c.buffers, need)]
           d == SendDirect(b, ids, need)
<1>1. c \in Controllers /\ c.buffers \in [MessageRequirements -> Seq(Nat)]
  BY DEF Fit, Good, Typed, Controllers
<1>2. ids \in SUBSET Nat
  <2>1. c.buffers[need] \in Seq(Nat) BY <1>1
  <2>. QED BY <2>1
<1>3. Remove(c.buffers, need) \in [MessageRequirements -> Seq(Nat)]
  <2>1. <<>> \in Seq(Nat) OBVIOUS
  <2>. QED BY <1>1, <2>1 DEF Remove
<1>4. b \in Controllers BY <1>1, <1>3 DEF Controllers
<1>5. /\ b.state = c.state /\ b.socket = c.socket /\ b.ws = c.ws /\ b.waits = c.waits
      /\ b.closedManually = c.closedManually
      /\ b.buffers = Remove(c.buffers, need) /\ b.reqCounter = c.reqCounter
      /\ b.makingAuth = c.makingAuth /\ b.makingSub = c.makingSub /\ b.asked = c.asked
  BY <1>1 DEF Controllers
<1>6. ids \subseteq Buffered(c) BY DEF Buffered
<1>7. Buffered(b) \subseteq Buffered(c)
  <2>1. \A n \in MessageRequirements :
          b.buffers[n] = c.buffers[n] \/ b.buffers[n] = <<>>
    BY <1>1, <1>5 DEF Remove
  <2>2. ASSUME NEW id \in Buffered(b) PROVE id \in Buffered(c)
    <3>1. PICK n \in MessageRequirements : id \in {b.buffers[n][i] : i \in DOMAIN b.buffers[n]}
      BY DEF Buffered
    <3>2. b.buffers[n] = c.buffers[n] BY <2>1, <3>1
    <3>. QED BY <3>1, <3>2 DEF Buffered
  <2>. QED BY <2>2
<1>8. Kept(c, b) BY <1>4, <1>5, OtherFields DEF Fit, Good, Typed
<1> HIDE DEF b, ids
<1>9. Requests(b)
  <2>1. ASSUME NEW w \in c.waits PROVE Matched(b, w)
    <3>1. Matched(c, w) BY DEF Fit, Requests
    <3>. QED BY <1>5, <1>7, <3>1 DEF Matched
  <2>2. ASSUME NEW r \in c.asked PROVE Fits(b, r) BY <1>5 DEF Fit, Requests, Fits
  <2>. QED BY <1>5, <1>7, <2>1, <2>2 DEF Fit, Requests
<1>10. Writable(b) = Writable(c) BY <1>5, SameConnection
<1>11. /\ \A i \in ids : i < b.reqCounter
       /\ \A w \in b.waits : w.for # "user" => w.ids \cap ids = {}
  BY <1>5, <1>6 DEF Fit, Requests, Matched
<1>12. Writable(b) # 0 => /\ need \in {"auth", "sub"} => Admitted(b.ws[Writable(b)])
                          /\ need = "sub" => b.ws[Writable(b)].subscribed
  BY <1>5, <1>10 DEF Fit, Ready, Admitted
<1>13. Good(b) BY <1>8 DEF Kept
<1>14. /\ Requests(d) /\ d.state = c.state /\ d.socket = c.socket /\ d.ws = c.ws
  BY <1>2, <1>5, <1>9, <1>11, <1>12, <1>13, SendDirectFit
<1>15. Ready(d) BY <1>14, SameConnection DEF Fit
<1>16. Good(d) BY <1>2, <1>13, SendDirectKeeps DEF Kept
<1>17. SendBuffered(c, need) = d BY DEF SendBuffered, b, ids
<1>. QED BY <1>14, <1>15, <1>16, <1>17 DEF Fit

\* Ids that nobody has are taken.
LEMMA MoreIds ==
  ASSUME NEW c \in Controllers, Requests(c), NEW n \in Nat, NEW d,
         d.ws = c.ws, d.waits = c.waits, d.buffers = c.buffers, d.asked = c.asked,
         d.reqCounter = c.reqCounter + n,
         d.makingAuth = c.makingAuth, d.makingSub = c.makingSub
  PROVE  Requests(d)
<1>1. c.reqCounter \in Nat /\ c.reqCounter > 0 BY DEF Controllers, Requests
<1>2. Buffered(d) = Buffered(c) BY DEF Buffered
<1>3. \A id \in Buffered(c) : id \in Nat /\ id < c.reqCounter
  <2>1. \A m \in MessageRequirements : c.buffers[m] \in Seq(Nat) BY DEF Controllers
  <2>2. \A m \in MessageRequirements : \A i \in DOMAIN c.buffers[m] : c.buffers[m][i] \in Nat
    BY <2>1
  <2>. QED BY <2>2 DEF Requests, Buffered
<1>4. \A r \in c.asked : r.id \in Nat /\ r.id < c.reqCounter
  BY DEF Controllers, Asked, Requests, Fits
<1>5. ASSUME NEW w \in c.waits PROVE Matched(d, w)
  <2>1. Matched(c, w) BY DEF Requests
  <2>2. w.ids \subseteq 1..(d.reqCounter - 1) BY <1>1, <2>1 DEF Matched
  <2>. QED BY <1>2, <2>1, <2>2 DEF Matched
<1>6. ASSUME NEW r \in c.asked PROVE Fits(d, r) BY <1>1, <1>4 DEF Requests, Fits
<1>. QED BY <1>1, <1>2, <1>3, <1>5, <1>6 DEF Requests

\* _requestDirect takes new ids, and waits for the answers on the connection it writes to.
LEMMA RequestDirectFit ==
  ASSUME NEW c, Fit(c), NEW n \in Nat, NEW need \in {"authorize", "subscribe"},
         need = "subscribe" /\ Writable(c) # 0 => LateSub \/ c.ws[Writable(c)].authorized
  PROVE  Fit(RequestDirect(c, n, need))
<1>0. Good(RequestDirect(c, n, need)) BY RequestDirectKeeps DEF Fit, Kept
<1>1. CASE n = 0 BY <1>1 DEF RequestDirect
<1>2. CASE n # 0
  <2> DEFINE ids == c.reqCounter .. (c.reqCounter + n - 1)
             b == [c EXCEPT !.reqCounter = c.reqCounter + n]
             sent == SendDirect(b, ids, need)
             wait == [for |-> need, ids |-> ids, on |-> Writable(c), ok |-> TRUE]
             d == [sent EXCEPT !.waits = sent.waits \cup {wait}]
  <2>1. /\ c \in Controllers /\ c.reqCounter \in Nat /\ c.reqCounter > 0
        /\ c.reqCounter + n \in Nat /\ ids \in SUBSET Nat
        /\ \A i \in ids : c.reqCounter <= i /\ i < c.reqCounter + n
        /\ ids \subseteq 1..(c.reqCounter + n - 1)
    BY DEF Fit, Good, Typed, Controllers, Requests
  <2>2. b \in Controllers BY <2>1 DEF Controllers
  <2>3. /\ b.state = c.state /\ b.socket = c.socket /\ b.ws = c.ws /\ b.waits = c.waits
        /\ b.closedManually = c.closedManually
        /\ b.buffers = c.buffers /\ b.reqCounter = c.reqCounter + n
        /\ b.makingAuth = c.makingAuth /\ b.makingSub = c.makingSub /\ b.asked = c.asked
    BY <2>1 DEF Controllers
  <2>4. Good(b)
    <3>1. Good(c) /\ \A w \in c.waits : w.on <= Len(c.ws) BY DEF Fit, Good, Typed
    <3> HIDE DEF b
    <3>. QED BY <2>2, <2>3, <3>1, OtherFields DEF Kept
  <2> HIDE DEF b, ids
  <2>5. Writable(b) = Writable(c) /\ Buffered(b) = Buffered(c)
    <3>1. Writable(b) = Writable(c) BY <2>3, SameConnection
    <3>2. Buffered(b) = Buffered(c) BY <2>3 DEF Buffered
    <3>. QED BY <3>1, <3>2
  <2>6. \A id \in Buffered(c) : id \in Nat /\ id < c.reqCounter
    <3>1. \A m \in MessageRequirements : c.buffers[m] \in Seq(Nat) BY <2>1 DEF Controllers
    <3>2. \A m \in MessageRequirements : \A i \in DOMAIN c.buffers[m] : c.buffers[m][i] \in Nat
      BY <3>1
    <3>. QED BY <3>2 DEF Fit, Requests, Buffered
  <2>7. \A r \in c.asked : r.id \in Nat /\ r.id < c.reqCounter
    BY <2>1 DEF Controllers, Asked, Fit, Requests, Fits
  <2>8. Requests(b) BY <2>1, <2>3, MoreIds DEF Fit
  <2>9. \A w \in b.waits : w.for # "user" => w.ids \cap ids = {}
    BY <2>1, <2>3 DEF Fit, Requests, Matched
  <2>10. \A i \in ids : i < b.reqCounter BY <2>1, <2>3
  <2>11. /\ Requests(sent)
         /\ sent.state = c.state /\ sent.socket = c.socket /\ sent.ws = c.ws
         /\ sent.waits = c.waits /\ sent.buffers = c.buffers
         /\ sent.reqCounter = c.reqCounter + n
         /\ \A r \in sent.asked : r \in c.asked \/ r.on = Writable(c)
    BY <2>1, <2>3, <2>4, <2>5, <2>8, <2>9, <2>10, SendDirectFit DEF MessageRequirements
  <2>12. sent \in Controllers BY <2>1, <2>4, SendDirectKeeps DEF Kept, Good, Typed
  <2> HIDE DEF sent
  <2>13. /\ d.state = sent.state /\ d.socket = sent.socket /\ d.ws = sent.ws
         /\ d.buffers = sent.buffers /\ d.reqCounter = sent.reqCounter
         /\ d.makingAuth = sent.makingAuth /\ d.makingSub = sent.makingSub
         /\ d.asked = sent.asked /\ d.waits = sent.waits \cup {wait}
    BY <2>12 DEF Controllers
  <2>14. /\ wait.for = need /\ wait.ids = ids /\ wait.on = Writable(c) OBVIOUS
  <2>15. RequestDirect(c, n, need) = d BY <1>2 DEF RequestDirect, sent, b, ids
  <2> HIDE DEF d, wait
  <2>16. Buffered(d) = Buffered(c) /\ Buffered(sent) = Buffered(c)
    BY <2>11, <2>13 DEF Buffered
  <2>17. Matched(d, wait)
    <3>1. wait.ids \subseteq 1..(d.reqCounter - 1) BY <2>1, <2>11, <2>13, <2>14
    <3>2. wait.ids \cap Buffered(d) = {} BY <2>1, <2>6, <2>14, <2>16
    <3>3. \A r \in d.asked : r.id \in wait.ids => r.on = wait.on
      BY <2>1, <2>7, <2>11, <2>13, <2>14
    <3>4. wait.for = "subscribe" /\ wait.on # 0 => LateSub \/ d.ws[wait.on].authorized
      BY <2>11, <2>13, <2>14
    <3>. QED BY <3>1, <3>2, <3>3, <3>4 DEF Matched
  <2>18. ASSUME NEW w \in sent.waits PROVE Matched(d, w)
    <3>1. Matched(sent, w) BY <2>11 DEF Requests
    <3>. QED BY <2>13, <2>16, <3>1 DEF Matched
  <2>19. ASSUME NEW r \in d.asked PROVE Fits(d, r) BY <2>11, <2>13 DEF Requests, Fits
  <2>20. Requests(d)
    BY <2>11, <2>13, <2>16, <2>17, <2>18, <2>19 DEF Requests
  <2>21. Ready(d) BY <2>11, <2>13, SameConnection DEF Fit
  <2>. QED BY <1>0, <2>15, <2>20, <2>21 DEF Fit
<1>. QED BY <1>1, <1>2

\* What a method that asks nobody, and keeps the invariant of connections, leads to.
LEMMA FollowsFit ==
  ASSUME NEW c, Good(c), Requests(c), NEW d, Good(d), Follows(c, d), Ready(d)
  PROVE  Fit(d)
BY FollowsRequests DEF Fit, Good

\* _setState asks nobody.
LEMMA SetStateFollows ==
  ASSUME NEW c \in Controllers, NEW state
  PROVE  LET d == SetState(c, state)
         IN  Follows(c, d) /\ d.state = state /\ d.socket = c.socket /\ d.ws = c.ws
<1>1. LET d == SetState(c, state)
      IN  /\ d.state = state /\ d.socket = c.socket /\ d.ws = c.ws
          /\ d.waits = c.waits /\ d.buffers = c.buffers /\ d.reqCounter = c.reqCounter
          /\ d.makingAuth = c.makingAuth /\ d.makingSub = c.makingSub /\ d.asked = c.asked
  BY DEF SetState, Controllers
<1>. QED BY <1>1 DEF Follows

\* Replacing a socket by one that has the same marks, or more.
LEMMA SocketFollows ==
  ASSUME NEW c \in Controllers, NEW s \in DOMAIN c.ws, NEW x,
         c.ws[s].authorized => x.authorized, c.ws[s].subscribed => x.subscribed
  PROVE  LET d == [c EXCEPT !.ws = [c.ws EXCEPT ![s] = x]]
         IN  /\ Follows(c, d) /\ d.state = c.state /\ d.socket = c.socket
             /\ DOMAIN d.ws = DOMAIN c.ws /\ d.ws[s] = x
             /\ \A t \in DOMAIN c.ws : t # s => d.ws[t] = c.ws[t]
<1> DEFINE d == [c EXCEPT !.ws = [c.ws EXCEPT ![s] = x]]
<1>1. /\ d.state = c.state /\ d.socket = c.socket /\ d.ws = [c.ws EXCEPT ![s] = x]
      /\ d.waits = c.waits /\ d.buffers = c.buffers /\ d.reqCounter = c.reqCounter
      /\ d.makingAuth = c.makingAuth /\ d.makingSub = c.makingSub /\ d.asked = c.asked
  BY DEF Controllers
<1> HIDE DEF d
<1>2. c.ws \in Seq(Sockets) BY DEF Controllers
<1>3. /\ DOMAIN d.ws = DOMAIN c.ws /\ d.ws[s] = x
      /\ \A t \in DOMAIN c.ws : t # s => d.ws[t] = c.ws[t]
  BY <1>1, <1>2
<1>4. Follows(c, d) BY <1>1, <1>3 DEF Follows
<1>. QED BY <1>1, <1>3, <1>4 DEF d

\* close() asks nobody, and lets go of the connection or of the state.
LEMMA CloseFollows ==
  ASSUME NEW c, Typed(c)
  PROVE  /\ Follows(c, Close(c)) /\ Close(c).state \in {c.state, "closing"}
         /\ Ready(c) => Ready(Close(c))
<1> DEFINE s == c.socket
           x == [c.ws[s] EXCEPT !.closedManually = TRUE, !.ready = "CLOSING"]
           y == [c.ws[s] EXCEPT !.closedManually = TRUE]
           live == c.ws[s].ready \in {"CONNECTING", "OPEN"}
           a == [c EXCEPT !.state = "closing", !.ws = [c.ws EXCEPT ![s] = x],
                          !.closedManually = c.closedManually \cup {s}]
           b == [c EXCEPT !.ws = [c.ws EXCEPT ![s] = y], !.socket = 0]
<1>1. /\ c \in Controllers /\ s \in Nat /\ c.ws \in Seq(Sockets) /\ Len(c.ws) \in Nat
      /\ DOMAIN c.ws = 1..Len(c.ws) /\ s <= Len(c.ws)
  BY DEF Typed, Controllers
<1>2. CASE s = 0 BY <1>2, FollowsItself DEF Close
<1>3. CASE s # 0
  <2>1. s \in DOMAIN c.ws /\ c.ws[s] \in Sockets BY <1>1, <1>3
  <2>2. /\ x.authorized = c.ws[s].authorized /\ x.subscribed = c.ws[s].subscribed
        /\ y.authorized = c.ws[s].authorized /\ y.subscribed = c.ws[s].subscribed
    BY <2>1 DEF Sockets
  <2>3. /\ a.state = "closing" /\ b.state = c.state /\ b.socket = 0
        /\ a.ws = [c.ws EXCEPT ![s] = x] /\ b.ws = [c.ws EXCEPT ![s] = y]
        /\ a.waits = c.waits /\ a.buffers = c.buffers /\ a.reqCounter = c.reqCounter
        /\ a.makingAuth = c.makingAuth /\ a.makingSub = c.makingSub /\ a.asked = c.asked
        /\ b.waits = c.waits /\ b.buffers = c.buffers /\ b.reqCounter = c.reqCounter
        /\ b.makingAuth = c.makingAuth /\ b.makingSub = c.makingSub /\ b.asked = c.asked
    BY <1>1 DEF Controllers
  <2>4. Close(c) = a \/ Close(c) = b BY <1>3 DEF Close
  <2> HIDE DEF a, b, x, y
  <2>5. /\ DOMAIN a.ws = DOMAIN c.ws /\ a.ws[s] = x
        /\ DOMAIN b.ws = DOMAIN c.ws /\ b.ws[s] = y
        /\ \A t \in DOMAIN c.ws : t # s => a.ws[t] = c.ws[t] /\ b.ws[t] = c.ws[t]
    BY <1>1, <2>1, <2>3
  <2>6. Follows(c, a) /\ Follows(c, b) BY <2>2, <2>3, <2>5 DEF Follows
  <2>7. Ready(a) BY <2>3, ReadyByState
  <2>8. Ready(b) BY <2>3 DEF Ready, Writable
  <2>. QED BY <2>3, <2>4, <2>6, <2>7, <2>8
<1>. QED BY <1>2, <1>3

\* close() keeps the requests fit.
LEMMA CloseFit ==
  ASSUME NEW c, Fit(c)
  PROVE  Fit(Close(c))
<1>1. Good(c) /\ Typed(c) /\ Requests(c) /\ Ready(c) BY DEF Fit, Good
<1>2. Good(Close(c)) BY <1>1, CloseKeeps DEF Kept
<1>3. Follows(c, Close(c)) /\ Ready(Close(c)) BY <1>1, CloseFollows
<1>. QED BY <1>1, <1>2, <1>3, FollowsFit

\* Something that is recorded of a socket, and the state that goes with it.
LEMMA MarkFit ==
  ASSUME NEW c, Good(c), Requests(c), NEW on \in Nat, on <= Len(c.ws),
         Writable(c) \in {0, on}, NEW x,
         on # 0 => /\ x \in Sockets
                   /\ x.ready = c.ws[on].ready /\ x.closedManually = c.ws[on].closedManually
                   /\ x.timers = c.ws[on].timers /\ x.reopens = c.ws[on].reopens
                   /\ c.ws[on].authorized => x.authorized
                   /\ c.ws[on].subscribed => x.subscribed,
         NEW state \in {"authorized", "subscribed"},
         Writable(c) # 0 => IF state = "authorized" THEN x.authorized
                            ELSE x.subscribed /\ Admitted(x)
  PROVE  LET marked == IF on = 0 THEN c ELSE [c EXCEPT !.ws = [c.ws EXCEPT ![on] = x]]
         IN  Fit(SetState(marked, state)) /\ SetState(marked, state).state = state
<1> DEFINE marked == IF on = 0 THEN c ELSE [c EXCEPT !.ws = [c.ws EXCEPT ![on] = x]]
           set == SetState(marked, state)
<1>1. /\ c \in Controllers /\ c.ws \in Seq(Sockets) /\ Len(c.ws) \in Nat
      /\ DOMAIN c.ws = 1..Len(c.ws)
  BY DEF Good, Typed, Controllers
<1>2. /\ Good(marked) /\ Follows(c, marked) /\ marked.socket = c.socket
      /\ DOMAIN marked.ws = DOMAIN c.ws
      /\ \A t \in DOMAIN c.ws : marked.ws[t] = IF t = on THEN x ELSE c.ws[t]
  <2>1. CASE on = 0
    <3>1. \A t \in DOMAIN c.ws : t # on BY <1>1, <2>1
    <3>. QED BY <2>1, <3>1, FollowsItself
  <2>2. CASE on # 0
    <3>1. on \in DOMAIN c.ws BY <1>1, <2>2
    <3>2. Good([c EXCEPT !.ws = [c.ws EXCEPT ![on] = x]])
      BY <2>2, <3>1, SocketMark DEF Kept
    <3>3. LET d == [c EXCEPT !.ws = [c.ws EXCEPT ![on] = x]]
          IN  /\ Follows(c, d) /\ d.socket = c.socket
              /\ DOMAIN d.ws = DOMAIN c.ws /\ d.ws[on] = x
              /\ \A t \in DOMAIN c.ws : t # on => d.ws[t] = c.ws[t]
      BY <1>1, <2>2, <3>1, SocketFollows
    <3>. QED BY <2>2, <3>2, <3>3
  <2>. QED BY <2>1, <2>2
<1> HIDE DEF marked
<1>3. Good(set) /\ Follows(marked, set) /\ set.state = state
      /\ set.socket = marked.socket /\ set.ws = marked.ws
  <2>1. marked \in Controllers BY <1>2 DEF Good, Typed
  <2>. QED BY <1>2, <2>1, SetStateKeeps, SetStateFollows DEF Kept, States
<1> HIDE DEF set
<1>4. Follows(c, set) BY <1>2, <1>3, FollowsTransitive
<1>5. Ready(set)
  <2>1. SUFFICES ASSUME Writable(set) # 0
                 PROVE  IF state = "authorized" THEN set.ws[Writable(set)].authorized
                        ELSE set.ws[Writable(set)].subscribed /\ Admitted(set.ws[Writable(set)])
    BY <1>3 DEF Ready
  <2>2. /\ Writable(set) \in DOMAIN c.ws /\ Writable(set) = c.socket
        /\ set.ws[c.socket].ready = "OPEN"
    BY <1>2, <1>3, <2>1, WritableWasMade DEF Good
  <2>3. c.ws[c.socket].ready = "OPEN" BY <1>2, <1>3, <2>2
  <2>4. c.socket # 0 BY <2>1, <2>2
  <2>5. Writable(c) = c.socket BY <2>3, <2>4 DEF Writable
  <2>6. on = c.socket BY <2>4, <2>5
  <2>. QED BY <1>2, <1>3, <2>2, <2>4, <2>5, <2>6
<1>6. Fit(set) BY <1>3, <1>4, <1>5, FollowsFit
<1>. QED BY <1>3, <1>6 DEF marked, set

\* _subscribed marks the connection that it flushes the buffer into.
LEMMA SubscribedFit ==
  ASSUME NEW c, Good(c), Requests(c), NEW on \in Nat, on <= Len(c.ws),
         Writable(c) \in {0, on}, Writable(c) # 0 => LateSub \/ c.ws[on].authorized
  PROVE  Fit(Subscribed(c, on))
<1> DEFINE x == [c.ws[on] EXCEPT !.subscribed = TRUE]
           marked == IF on = 0 THEN c ELSE [c EXCEPT !.ws = [c.ws EXCEPT ![on] = x]]
           set == SetState(marked, "subscribed")
<1>1. on # 0 => /\ x \in Sockets
                /\ x.ready = c.ws[on].ready /\ x.closedManually = c.ws[on].closedManually
                /\ x.timers = c.ws[on].timers /\ x.reopens = c.ws[on].reopens
                /\ x.authorized = c.ws[on].authorized
                /\ x.subscribed = TRUE
  <2>1. SUFFICES ASSUME on # 0 PROVE on \in DOMAIN c.ws /\ c.ws[on] \in Sockets
    BY DEF Sockets
  <2>2. c.ws \in Seq(Sockets) /\ Len(c.ws) \in Nat /\ DOMAIN c.ws = 1..Len(c.ws)
    BY DEF Good, Typed, Controllers
  <2>. QED BY <2>1, <2>2
<1>2. Subscribed(c, on) = SendBuffered(set, "sub") BY DEF Subscribed
<1> HIDE DEF x
<1>3. Writable(c) # 0 => x.subscribed /\ Admitted(x) BY <1>1 DEF Admitted
<1>4. on # 0 => /\ x \in Sockets
                /\ x.ready = c.ws[on].ready /\ x.closedManually = c.ws[on].closedManually
                /\ x.timers = c.ws[on].timers /\ x.reopens = c.ws[on].reopens
                /\ c.ws[on].authorized => x.authorized
                /\ c.ws[on].subscribed => x.subscribed
  BY <1>1
<1>5. LET m == IF on = 0 THEN c ELSE [c EXCEPT !.ws = [c.ws EXCEPT ![on] = x]]
      IN  Fit(SetState(m, "subscribed")) /\ SetState(m, "subscribed").state = "subscribed"
  BY <1>3, <1>4, MarkFit, SMTT(30)
<1>6. Fit(set) /\ set.state = "subscribed" BY <1>5
<1> HIDE DEF set
<1>. QED BY <1>2, <1>6, SendBufferedFit DEF MessageRequirements

\* A wait that is over, and what is recorded of it, asks nobody.
LEMMA WaitDoneFit ==
  ASSUME NEW c, Fit(c), NEW d \in Controllers,
         d.state = c.state, d.socket = c.socket, d.ws = c.ws,
         d.closedManually = c.closedManually, d.waits \subseteq c.waits,
         d.asked \subseteq c.asked, d.buffers = c.buffers, d.reqCounter = c.reqCounter,
         "later" \in AuthMakes \/ d.makingAuth = c.makingAuth,
         LateSub \/ d.makingSub = c.makingSub
  PROVE  Fit(d)
<1>1. Good(d) BY WaitDone DEF Fit, Kept
<1>2. Follows(c, d) BY DEF Follows
<1>3. Ready(d) BY SameConnection DEF Fit
<1>. QED BY <1>1, <1>2, <1>3, FollowsFit DEF Fit

\* How many observables have still to emit is free where they may emit late.
LEMMA MakingFit ==
  ASSUME NEW c, Fit(c), NEW n \in Nat
  PROVE  /\ "later" \in AuthMakes => Fit([c EXCEPT !.makingAuth = n])
         /\ LateSub => Fit([c EXCEPT !.makingSub = n])
<1> DEFINE a == [c EXCEPT !.makingAuth = n]
           b == [c EXCEPT !.makingSub = n]
<1>1. c \in Controllers BY DEF Fit, Good, Typed
<1>2. a \in Controllers /\ b \in Controllers BY <1>1 DEF Controllers
<1>3. \A d \in {a, b} :
        /\ d.state = c.state /\ d.socket = c.socket /\ d.ws = c.ws
        /\ d.closedManually = c.closedManually /\ d.waits = c.waits
        /\ d.asked = c.asked /\ d.buffers = c.buffers /\ d.reqCounter = c.reqCounter
  BY <1>1 DEF Controllers
<1>4. a.makingSub = c.makingSub /\ b.makingAuth = c.makingAuth BY <1>1 DEF Controllers
<1> HIDE DEF a, b
<1>5. "later" \in AuthMakes => Fit(a) BY <1>2, <1>3, <1>4, WaitDoneFit
<1>6. LateSub => Fit(b) BY <1>2, <1>3, <1>4, WaitDoneFit
<1>. QED BY <1>5, <1>6 DEF a, b

\* The subscriber of createRequests(), in the state in which it is called, or late.
LEMMA SubMessagesFit ==
  ASSUME NEW c, Fit(c), LateSub \/ c.state = "authorized", NEW made
  PROVE  Fit(SubMessages(c, made))
<1>1. Writable(c) # 0 => LateSub \/ c.ws[Writable(c)].authorized BY DEF Fit, Ready
<1>2. Fit(RequestDirect(c, SubCount, "subscribe"))
  BY <1>1, RequestDirectFit, ControllerAssumption
<1>3. Fit(Subscribed(c, Writable(c)))
  BY <1>1, SubscribedFit, WritableType DEF Fit, Good
<1>. QED BY <1>2, <1>3, CloseFit DEF SubMessages

\* _authorized, with the _subscribe that it calls.
LEMMA AuthorizedFit ==
  ASSUME NEW c, Good(c), Requests(c), NEW on \in Nat, on <= Len(c.ws),
         Writable(c) \in {0, on}, NEW makes \in MakesOf
  PROVE  Fit(Authorized(c, on, makes))
<1> DEFINE x == [c.ws[on] EXCEPT !.authorized = TRUE]
           marked == IF on = 0 THEN c ELSE [c EXCEPT !.ws = [c.ws EXCEPT ![on] = x]]
           set == SetState(marked, "authorized")
           sent == SendBuffered(set, "auth")
<1>1. on # 0 => /\ x \in Sockets
                /\ x.ready = c.ws[on].ready /\ x.closedManually = c.ws[on].closedManually
                /\ x.timers = c.ws[on].timers /\ x.reopens = c.ws[on].reopens
                /\ x.subscribed = c.ws[on].subscribed
                /\ x.authorized = TRUE
  <2>1. SUFFICES ASSUME on # 0 PROVE on \in DOMAIN c.ws /\ c.ws[on] \in Sockets
    BY DEF Sockets
  <2>2. c.ws \in Seq(Sockets) /\ Len(c.ws) \in Nat /\ DOMAIN c.ws = 1..Len(c.ws)
    BY DEF Good, Typed, Controllers
  <2>. QED BY <2>1, <2>2
<1>2. Authorized(c, on, makes) = Subscribe(sent, makes) BY DEF Authorized
<1> HIDE DEF x
<1>3. Fit(set) /\ set.state = "authorized"
  <2>1. Writable(c) # 0 => x.authorized BY <1>1
  <2>2. LET m == IF on = 0 THEN c ELSE [c EXCEPT !.ws = [c.ws EXCEPT ![on] = x]]
        IN  Fit(SetState(m, "authorized")) /\ SetState(m, "authorized").state = "authorized"
    BY <1>1, <2>1, MarkFit
  <2>. QED BY <2>2
<1> HIDE DEF set
<1>4. Fit(sent) /\ sent.state = "authorized"
  BY <1>3, SendBufferedFit DEF MessageRequirements
<1> HIDE DEF sent
<1>5. Fit(Subscribed(sent, Writable(sent)))
  BY <1>4, SubscribedFit, WritableType DEF Fit, Good, Ready
<1>6. Fit(SubMessages(sent, makes.sub)) BY <1>4, SubMessagesFit
<1>7. makes.sub = "later" => Fit([sent EXCEPT !.makingSub = sent.makingSub + 1])
  <2>1. sent.makingSub + 1 \in Nat BY <1>4 DEF Fit, Good, Typed, Controllers
  <2>2. makes.sub = "later" => LateSub BY DEF MakesOf, LateSub
  <2>. QED BY <1>4, <2>1, <2>2, MakingFit
<1>8. Fit(Subscribe(sent, makes)) BY <1>5, <1>6, <1>7 DEF Subscribe
<1>. QED BY <1>2, <1>8

\* The subscriber of createRequest(), whenever it is called.
LEMMA AuthMessageFit ==
  ASSUME NEW c, Fit(c), NEW made, NEW makes \in MakesOf
  PROVE  Fit(AuthMessage(c, made, makes))
<1> DEFINE sent == SendDirect(c, {0}, "authorize")
<1>1. Fit(RequestDirect(c, 1, "authorize")) BY RequestDirectFit
<1>2. Fit(Authorized(sent, Writable(c), makes))
  <2>1. /\ \A i \in {0} : i < c.reqCounter
        /\ \A w \in c.waits : w.for # "user" => w.ids \cap {0} = {}
    BY DEF Fit, Requests, Matched
  <2>2. Requests(sent) /\ sent.socket = c.socket /\ sent.ws = c.ws
    BY <2>1, SendDirectFit DEF Fit, MessageRequirements
  <2>3. Good(sent) BY SendDirectKeeps DEF Fit, Kept
  <2> HIDE DEF sent
  <2>4. Writable(sent) = Writable(c) BY <2>2, SameConnection
  <2>5. Writable(c) \in Nat /\ Writable(c) <= Len(sent.ws)
    BY <2>2, WritableType DEF Fit, Good
  <2>. QED BY <2>2, <2>3, <2>4, <2>5, AuthorizedFit
<1>. QED BY <1>1, <1>2, CloseFit DEF AuthMessage

\* _opened, with all that it calls in the same task.
LEMMA OpenedFit ==
  ASSUME NEW c, Good(c), Requests(c), NEW makes \in MakesOf
  PROVE  Fit(Opened(c, makes))
<1> DEFINE set == SetState(c, "opened")
           sent == SendBuffered(set, "any")
<1>1. Good(set) BY SetStateKeeps DEF States, Kept
<1>2. Follows(c, set) /\ set.state = "opened" BY SetStateFollows DEF Good, Typed
<1>3. Opened(c, makes) = Authorize(sent, makes) BY DEF Opened
<1> HIDE DEF set
<1>4. Fit(set) BY <1>1, <1>2, FollowsFit, ReadyByState
<1>5. Fit(sent) BY <1>4, SendBufferedFit DEF MessageRequirements
<1> HIDE DEF sent
<1>6. Fit(Authorized(sent, Writable(sent), makes))
  BY <1>5, AuthorizedFit, WritableType DEF Fit, Good
<1>7. Fit(AuthMessage(sent, makes.auth, makes)) BY <1>5, AuthMessageFit
<1>8. makes.auth = "later" => Fit([sent EXCEPT !.makingAuth = sent.makingAuth + 1])
  <2>1. sent.makingAuth + 1 \in Nat BY <1>5 DEF Fit, Good, Typed, Controllers
  <2>2. makes.auth = "later" => "later" \in AuthMakes BY DEF MakesOf
  <2>. QED BY <1>5, <2>1, <2>2, MakingFit
<1>. QED BY <1>3, <1>6, <1>7, <1>8 DEF Authorize
-------------------------------------------------------------------------------
\* open() asks nobody, and the state speaks of no connection after it.
LEMMA OpenFollows ==
  ASSUME NEW c, Typed(c), NEW auto, NEW constructs
  PROVE  LET d == Open(c, auto, constructs)
         IN  Follows(c, d) /\ (d = c \/ d.state = "pending")
<1> DEFINE new == [ready |-> "CONNECTING", closedManually |-> FALSE,
                   auto |-> auto, timers |-> 0, authorized |-> FALSE,
                   subscribed |-> FALSE, reopens |-> 0]
           d == [c EXCEPT !.state = "pending", !.socket = Len(c.ws) + 1,
                          !.ws = Append(c.ws, new)]
<1>1. /\ c \in Controllers /\ c.ws \in Seq(Sockets) /\ Len(c.ws) \in Nat
      /\ DOMAIN c.ws = 1..Len(c.ws)
  BY DEF Typed, Controllers
<1>2. Follows(c, SetState(c, "pending")) /\ SetState(c, "pending").state = "pending"
  BY <1>1, SetStateFollows
<1>3. /\ d.state = "pending" /\ d.ws = Append(c.ws, new)
      /\ d.waits = c.waits /\ d.buffers = c.buffers /\ d.reqCounter = c.reqCounter
      /\ d.makingAuth = c.makingAuth /\ d.makingSub = c.makingSub /\ d.asked = c.asked
  BY <1>1 DEF Controllers
<1>4. Open(c, auto, constructs) \in {c, SetState(c, "pending"), d} BY DEF Open
<1> HIDE DEF new, d
<1>5. DOMAIN d.ws = 1..(Len(c.ws) + 1) /\ \A t \in DOMAIN c.ws : d.ws[t] = c.ws[t]
  BY <1>1, <1>3
<1>6. Follows(c, d) BY <1>1, <1>3, <1>5 DEF Follows
<1>. QED BY <1>2, <1>3, <1>4, <1>6, FollowsItself

\* _closed asks nobody.
LEMMA ClosedFollows ==
  ASSUME NEW c, Typed(c), NEW opens
  PROVE  Follows(c, Closed(c, opens)) /\ Closed(c, opens).state \in {"closed", "pending"}
<1> DEFINE closed == SetState(c, "closed")
           after == IF opens THEN Open(closed, TRUE, TRUE) ELSE closed
           d == [after EXCEPT !.closedManually = {}]
<1>1. c \in Controllers BY DEF Typed
<1>2. /\ Follows(c, closed) /\ closed.state = "closed" /\ closed.socket = c.socket
      /\ closed.ws = c.ws
  BY <1>1, SetStateFollows
<1>3. closed \in Controllers BY <1>1 DEF SetState, Controllers, States
<1> HIDE DEF closed
<1>4. Typed(closed) BY <1>2, <1>3 DEF Typed, Follows
<1>5. Follows(closed, after) /\ after.state \in {"closed", "pending"}
  BY <1>2, <1>4, OpenFollows, FollowsItself
<1>6. after \in Controllers
  <2>1. CASE ~opens BY <1>3, <2>1
  <2>2. CASE opens
    <3> DEFINE new == [ready |-> "CONNECTING", closedManually |-> FALSE,
                       auto |-> TRUE, timers |-> 0, authorized |-> FALSE,
                       subscribed |-> FALSE, reopens |-> 0]
    <3>1. new \in Sockets BY DEF Sockets
    <3>2. closed.ws \in Seq(Sockets) /\ Len(closed.ws) + 1 \in Nat BY <1>3 DEF Controllers
    <3> HIDE DEF new
    <3>3. Append(closed.ws, new) \in Seq(Sockets) BY <3>1, <3>2
    <3>4. after = [closed EXCEPT !.state = "pending", !.socket = Len(closed.ws) + 1,
                                 !.ws = Append(closed.ws, new)]
      BY <1>2, <2>2 DEF Open, new
    <3>. QED BY <1>3, <3>2, <3>3, <3>4 DEF Controllers, States
  <2>. QED BY <2>1, <2>2
<1>7. Closed(c, opens) = d BY DEF Closed, closed
<1> HIDE DEF after
<1>8. /\ d.state = after.state /\ d.ws = after.ws
      /\ d.waits = after.waits /\ d.buffers = after.buffers
      /\ d.reqCounter = after.reqCounter /\ d.makingAuth = after.makingAuth
      /\ d.makingSub = after.makingSub /\ d.asked = after.asked
  BY <1>6 DEF Controllers
<1>9. Follows(after, d) BY <1>8 DEF Follows
<1>. QED BY <1>2, <1>5, <1>7, <1>8, <1>9, FollowsTransitive

\* _reopen asks nobody.
LEMMA ReopenFollows ==
  ASSUME NEW c, Typed(c), Typed(Close(c)), NEW s \in DOMAIN c.ws
  PROVE  Follows(c, Reopen(c, s)) /\ Reopen(c, s).state \in {c.state, "closing"}
<1> DEFINE closed == Close(c)
           x == [closed.ws[s] EXCEPT !.timers = closed.ws[s].timers + 1,
                                     !.reopens = closed.ws[s].reopens + 1]
           d == [closed EXCEPT !.ws = [closed.ws EXCEPT ![s] = x]]
<1>1. Follows(c, closed) /\ closed.state \in {c.state, "closing"} BY CloseFollows
<1>2. Reopen(c, s) \in {closed, d} BY DEF Reopen, StartTimer
<1> HIDE DEF closed
<1>3. /\ closed \in Controllers /\ s \in DOMAIN closed.ws /\ closed.ws[s] \in Sockets
  BY <1>1 DEF Typed, Controllers, Follows, closed
<1>4. x.authorized = closed.ws[s].authorized /\ x.subscribed = closed.ws[s].subscribed
  BY <1>3 DEF Sockets
<1> HIDE DEF x
<1>5. Follows(closed, d) /\ d.state = closed.state BY <1>3, <1>4, SocketFollows
<1>6. Follows(c, d) BY <1>1, <1>5, FollowsTransitive
<1> HIDE DEF d
<1>. QED BY <1>1, <1>2, <1>5, <1>6

\* The error callback of a socket, which may close, asks nobody.
LEMMA OnErrorFollows ==
  ASSUME NEW c, AllClosed(c), NEW s \in DOMAIN c.ws
  PROVE  Follows(c, OnError(c, s))
BY CloseAllClosed, ReopenFollows, FollowsItself DEF OnError, AllClosed

\* The close callback of a socket, which may reopen, asks nobody.
LEMMA OnCloseFollows ==
  ASSUME NEW c, AllClosed(c), NEW s \in DOMAIN c.ws, NEW opens \in BOOLEAN
  PROVE  /\ Follows(c, OnClose(c, s, opens))
         /\ OnClose(c, s, opens).state \in {"closed", "pending", "closing"}
<1> DEFINE d == Closed(c, opens)
<1>1. Follows(c, d) /\ d.state \in {"closed", "pending"} BY ClosedFollows DEF AllClosed
<1>2. Good(d) /\ s \in DOMAIN d.ws BY ClosedGood
<1>3. OnClose(c, s, opens) \in {d, Reopen(d, s)} BY DEF OnClose
<1> HIDE DEF d
<1>4. Follows(d, Reopen(d, s)) /\ Reopen(d, s).state \in {d.state, "closing"}
  BY <1>2, CloseKeeps, ReopenFollows DEF Good, Kept
<1>. QED BY <1>1, <1>3, <1>4, FollowsTransitive
-------------------------------------------------------------------------------
\* The steps.  The invariant of WebSocketController_proofs holds before and after each.

\* The invariant of connections holds on both sides of the step.
Steady == IInv /\ IInv'

\* A new controller has asked nobody.
LEMMA InitFits == Init => FInv
<1> SUFFICES ASSUME Init PROVE FInv OBVIOUS
<1>1. /\ ctl.ws = <<>> /\ ctl.socket = 0 /\ ctl.waits = {} /\ ctl.asked = {}
      /\ ctl.makingAuth = 0 /\ ctl.makingSub = 0 /\ ctl.reqCounter = 1
      /\ ctl.buffers = EmptyBuffers
  BY DEF Init
<1>2. Buffered(ctl) = {} BY <1>1 DEF Buffered, EmptyBuffers
<1>3. Writable(ctl) = 0 BY <1>1 DEF Writable
<1>. QED BY <1>1, <1>2, <1>3 DEF FInv, Requests, Ready

\* A step that asks nobody.
LEMMA FollowsStep ==
  ASSUME Steady, FInv, Follows(ctl, ctl'), Ready(ctl')
  PROVE  FInv'
BY FollowsFit DEF Steady, IInv, FInv, Fit

\* open() called by the user of the controller.
LEMMA UserOpenFits ==
  ASSUME Steady, FInv, NEW auto, NEW constructs, UserOpen(auto, constructs)
  PROVE  FInv'
<1>1. Follows(ctl, ctl') /\ (ctl' = ctl \/ ctl'.state = "pending")
  BY OpenFollows DEF UserOpen, Steady, IInv, Good
<1>2. Ready(ctl') BY <1>1, ReadyByState DEF FInv
<1>. QED BY <1>1, <1>2, FollowsStep

\* close() called by the user of the controller.
LEMMA UserCloseFits ==
  ASSUME Steady, FInv, UserClose
  PROVE  FInv'
<1>1. Follows(ctl, ctl') /\ Ready(ctl')
  BY CloseFollows DEF UserClose, Steady, IInv, Good, FInv
<1>. QED BY <1>1, FollowsStep

\* What send() writes at once goes to a connection that the state speaks of, and what it
\* buffers is nobody else's.
LEMMA SendFit ==
  ASSUME NEW c, Fit(c), NEW id \in Nat, id < c.reqCounter,
         \A w \in c.waits : w.for # "user" => id \notin w.ids,
         NEW call \in Calls
  PROVE  LET d == Send(c, id, call)
         IN  Fit(d) /\ d.waits = c.waits /\ d.reqCounter = c.reqCounter
<1> DEFINE n == Need(call)
           direct == SendDirect(c, {id}, n)
           buffers == Add(c.buffers, n, id, Size, Overflow)
           d == [c EXCEPT !.buffers = buffers]
<1>1. Good(Send(c, id, call)) BY SendKeeps DEF Fit, Kept
<1>2. n \in MessageRequirements BY DEF Need, MessageRequirements
<1>3. ASSUME \/ c.state = "subscribed"
             \/ call.withoutSubscription /\ c.state = "authorized"
             \/ call.withoutAuth /\ c.state = "opened"
      PROVE  Requests(direct) /\ Ready(direct) /\ direct.waits = c.waits
             /\ direct.reqCounter = c.reqCounter
  <2>1. Writable(c) # 0 => /\ n \in {"auth", "sub"} => Admitted(c.ws[Writable(c)])
                           /\ n = "sub" => c.ws[Writable(c)].subscribed
    BY <1>3 DEF Fit, Ready, Need, Admitted
  <2>2. /\ {id} \in SUBSET Nat /\ \A i \in {id} : i < c.reqCounter
        /\ \A w \in c.waits : w.for # "user" => w.ids \cap {id} = {}
    OBVIOUS
  <2>3. /\ Requests(direct) /\ direct.state = c.state /\ direct.socket = c.socket
        /\ direct.ws = c.ws /\ direct.waits = c.waits /\ direct.reqCounter = c.reqCounter
    <3> DEFINE ids == {id}
    <3>1. Good(c) /\ Requests(c) BY DEF Fit
    <3>2. n \in MessageRequirements \cup {"authorize", "subscribe"} BY <1>2
    <3> HIDE DEF n
    <3>3. /\ ids \in SUBSET Nat /\ \A i \in ids : i < c.reqCounter
          /\ \A w \in c.waits : w.for # "user" => w.ids \cap ids = {}
      BY <2>2
    <3> HIDE DEF ids
    <3>4. LET d0 == SendDirect(c, ids, n)
          IN  /\ Requests(d0) /\ d0.state = c.state /\ d0.socket = c.socket
              /\ d0.ws = c.ws /\ d0.waits = c.waits /\ d0.reqCounter = c.reqCounter
      BY <2>1, <3>1, <3>2, <3>3, SendDirectFit
    <3>. QED BY <3>4 DEF ids, n
  <2>. QED BY <2>3, SameConnection DEF Fit
<1>4. Requests(d) /\ Ready(d) /\ d.waits = c.waits /\ d.reqCounter = c.reqCounter
  <2>1. c \in Controllers /\ c.buffers \in [MessageRequirements -> Seq(Nat)]
    BY DEF Fit, Good, Typed, Controllers
  <2> HIDE DEF buffers
  <2>2. /\ d.state = c.state /\ d.socket = c.socket /\ d.ws = c.ws /\ d.waits = c.waits
        /\ d.buffers = buffers /\ d.reqCounter = c.reqCounter /\ d.asked = c.asked
        /\ d.makingAuth = c.makingAuth /\ d.makingSub = c.makingSub
    BY <2>1 DEF Controllers
  <2>3. Buffered(d) \subseteq Buffered(c) \cup {id}
    <3> DEFINE room == MakeRoom(c.buffers[n], Size, Overflow)
               In(q) == {q[i] : i \in DOMAIN q}
    <3>1. c.buffers[n] \in Seq(Nat) BY <1>2, <2>1
    <3>2. room \in Seq(Nat) /\ In(room) \subseteq In(c.buffers[n])
      <4>1. Size \in Nat BY ControllerAssumption
      <4>. QED BY <3>1, <4>1, RoomIsMade
    <3>3. buffers = [c.buffers EXCEPT ![n] = <<id>> \o room] BY DEF buffers, Add
    <3> HIDE DEF room
    <3>4. In(<<id>> \o room) \subseteq In(room) \cup {id}
      <4>1. <<id>> \in Seq(Nat) /\ Len(<<id>>) = 1 /\ <<id>>[1] = id OBVIOUS
      <4>2. /\ Len(<<id>> \o room) = 1 + Len(room) /\ Len(room) \in Nat
            /\ DOMAIN (<<id>> \o room) = 1..(1 + Len(room)) /\ DOMAIN room = 1..Len(room)
        BY <3>2, <4>1
      <4>3. \A i \in 1..(1 + Len(room)) :
              (<<id>> \o room)[i] = IF i <= 1 THEN <<id>>[i] ELSE room[i - 1]
        BY <3>2, <4>1
      <4>4. \A i \in 1..(1 + Len(room)) : i = 1 \/ i - 1 \in 1..Len(room) BY <4>2
      <4>. QED BY <4>1, <4>2, <4>3, <4>4
    <3>5. \A m \in MessageRequirements :
            In(d.buffers[m]) \subseteq In(c.buffers[m]) \cup {id}
      <4>1. TAKE m \in MessageRequirements
      <4>2. CASE m = n
        <5>1. d.buffers[m] = <<id>> \o room BY <1>2, <2>1, <2>2, <3>3, <4>2
        <5>. QED BY <3>2, <3>4, <4>2, <5>1
      <4>3. CASE m # n
        <5>1. d.buffers[m] = c.buffers[m] BY <2>1, <2>2, <3>3, <4>3
        <5>. QED BY <5>1
      <4>. QED BY <4>2, <4>3
    <3>6. Buffered(d) = UNION {In(d.buffers[m]) : m \in MessageRequirements}
          /\ Buffered(c) = UNION {In(c.buffers[m]) : m \in MessageRequirements}
      BY DEF Buffered
    <3> HIDE DEF In
    <3>. QED BY <3>5, <3>6
  <2>4. ASSUME NEW w \in c.waits PROVE Matched(d, w)
    <3>1. Matched(c, w) BY DEF Fit, Requests
    <3>. QED BY <2>2, <2>3, <3>1 DEF Matched
  <2>5. ASSUME NEW r \in c.asked PROVE Fits(d, r) BY <2>2 DEF Fit, Requests, Fits
  <2>6. Requests(d) BY <2>2, <2>3, <2>4, <2>5 DEF Fit, Requests
  <2>7. Ready(d) BY <2>2, SameConnection DEF Fit
  <2>. QED BY <2>2, <2>6, <2>7
<1>5. \/ Send(c, id, call) = c
      \/ Send(c, id, call) = d
      \/ /\ Send(c, id, call) = direct
         /\ \/ c.state = "subscribed"
            \/ call.withoutSubscription /\ c.state = "authorized"
            \/ call.withoutAuth /\ c.state = "opened"
  BY DEF Send
<1> HIDE DEF d, direct
<1>. QED BY <1>1, <1>3, <1>4, <1>5 DEF Fit

\* send() and its variants: a call gets an id that nobody has had.
LEMMA UserCallFits ==
  ASSUME Steady, FInv, NEW call \in Calls, UserCall(call)
  PROVE  FInv'
<1>0. Fit(ctl) /\ ctl \in Controllers /\ Good(ctl') BY DEF Steady, IInv, FInv, Fit, Good, Typed
<1>1. CASE call.op = "send"
  <2>1. ctl.reqCounter > 0 /\ \A w \in ctl.waits : w.for # "user" => 0 \notin w.ids
    BY <1>0 DEF Fit, Requests, Matched, Controllers
  <2>2. Fit(Send(ctl, 0, call)) BY <1>0, <2>1, SendFit
  <2>. QED BY <1>1, <2>2 DEF UserCall, Fit, FInv
<1>2. CASE call.op # "send"
  <2> DEFINE id == ctl.reqCounter
             wait == [for |-> "user", ids |-> {id}, on |-> 0, ok |-> TRUE]
             b == [ctl EXCEPT !.reqCounter = ctl.reqCounter + 1]
             sent == Send(b, id, call)
             d == [sent EXCEPT !.waits = sent.waits \cup {wait}]
  <2>1. id \in Nat /\ id > 0 /\ id + 1 \in Nat BY <1>0 DEF Controllers, Fit, Requests
  <2>2. b \in Controllers BY <1>0, <2>1 DEF Controllers
  <2>3. /\ b.state = ctl.state /\ b.socket = ctl.socket /\ b.ws = ctl.ws
        /\ b.waits = ctl.waits /\ b.closedManually = ctl.closedManually
        /\ b.buffers = ctl.buffers /\ b.reqCounter = id + 1
        /\ b.makingAuth = ctl.makingAuth /\ b.makingSub = ctl.makingSub
        /\ b.asked = ctl.asked
    BY <1>0 DEF Controllers
  <2>4. Good(b) BY <1>0, <2>2, <2>3, OtherFields DEF Fit, Good, Typed, Kept
  <2>5. ctl' = d BY <1>2 DEF UserCall
  <2> HIDE DEF b
  <2>6. Requests(b) /\ \A w \in b.waits : w.for # "user" => id \notin w.ids
    <3>1. Requests(ctl) BY <1>0 DEF Fit
    <3>2. Requests(b) BY <1>0, <2>1, <2>3, <3>1, MoreIds
    <3>. QED BY <2>1, <2>3, <3>1, <3>2 DEF Requests, Matched
  <2>7. Ready(b) BY <1>0, <2>3, SameConnection DEF Fit
  <2>8. id < b.reqCounter BY <2>1, <2>3
  <2>9. Fit(sent) /\ sent.waits = ctl.waits /\ sent.reqCounter = id + 1
    BY <2>1, <2>3, <2>4, <2>6, <2>7, <2>8, SendFit DEF Fit
  <2> HIDE DEF sent
  <2>10. sent \in Controllers BY <2>9 DEF Fit, Good, Typed
  <2>11. /\ d.state = sent.state /\ d.socket = sent.socket /\ d.ws = sent.ws
         /\ d.buffers = sent.buffers /\ d.reqCounter = sent.reqCounter
         /\ d.makingAuth = sent.makingAuth /\ d.makingSub = sent.makingSub
         /\ d.asked = sent.asked /\ d.waits = sent.waits \cup {wait}
    BY <2>10 DEF Controllers
  <2>12. wait.for = "user" /\ wait.ids = {id} OBVIOUS
  <2> HIDE DEF d, wait
  <2>13. Buffered(d) = Buffered(sent) BY <2>11 DEF Buffered
  <2>14. Matched(d, wait)
    <3>1. {id} \subseteq 1..(d.reqCounter - 1) BY <2>1, <2>9, <2>11
    <3>. QED BY <2>12, <3>1 DEF Matched
  <2>15. ASSUME NEW w \in sent.waits PROVE Matched(d, w)
    <3>1. Matched(sent, w) BY <2>9 DEF Fit, Requests
    <3>. QED BY <2>11, <2>13, <3>1 DEF Matched
  <2>16. ASSUME NEW r \in d.asked PROVE Fits(d, r) BY <2>9, <2>11 DEF Fit, Requests, Fits
  <2>17. Requests(d) BY <2>9, <2>11, <2>13, <2>14, <2>15, <2>16 DEF Fit, Requests
  <2>18. Ready(d) BY <2>9, <2>11, SameConnection DEF Fit
  <2>. QED BY <2>5, <2>17, <2>18 DEF FInv
<1>. QED BY <1>1, <1>2

\* The open event of a socket, with what _opened writes.
LEMMA BrowserOpensFits ==
  ASSUME Steady, FInv, NEW s \in DOMAIN ctl.ws, NEW makes \in MakesOf, BrowserOpens(s, makes)
  PROVE  FInv'
<1> DEFINE x == [ctl.ws[s] EXCEPT !.ready = "OPEN"]
           open == [ctl EXCEPT !.ws = [ctl.ws EXCEPT ![s] = x]]
           y == [open.ws[s] EXCEPT !.ready = "CLOSING"]
           shut == [open EXCEPT !.ws = [open.ws EXCEPT ![s] = y]]
<1>1. ctl \in Controllers /\ Good(ctl) /\ ctl.ws[s] \in Sockets
      /\ ctl.ws[s].ready = "CONNECTING" /\ Requests(ctl)
  BY SMTT(30) DEF Steady, IInv, Good, Typed, Controllers, BrowserOpens, FInv
<1>2. x.authorized = ctl.ws[s].authorized /\ x.subscribed = ctl.ws[s].subscribed
  BY <1>1 DEF Sockets
<1>3. ctl' = IF open.socket = 0 THEN shut ELSE Opened(open, makes) BY DEF BrowserOpens
<1>4. Good(open) BY <1>1, ReadyKeeps DEF Kept
<1> HIDE DEF x
<1>5. Follows(ctl, open) /\ DOMAIN open.ws = DOMAIN ctl.ws BY <1>1, <1>2, SocketFollows
<1>6. Requests(open) BY <1>1, <1>5, FollowsRequests DEF Good
<1> HIDE DEF open
<1>7. CASE open.socket = 0
  <2>1. open \in Controllers /\ open.ws[s] \in Sockets
    BY <1>4, <1>5 DEF Good, Typed, Controllers
  <2>2. y.authorized = open.ws[s].authorized /\ y.subscribed = open.ws[s].subscribed
    BY <2>1 DEF Sockets
  <2> HIDE DEF y
  <2>3. Follows(open, shut) /\ shut.socket = 0 BY <1>5, <1>7, <2>1, <2>2, SocketFollows
  <2>4. Ready(shut) BY <2>3 DEF Ready, Writable
  <2>5. Requests(shut) BY <1>4, <1>6, <2>3, FollowsRequests DEF Good
  <2>. QED BY <1>3, <1>7, <2>4, <2>5 DEF FInv
<1>8. CASE open.socket # 0
  <2>1. Fit(Opened(open, makes)) BY <1>4, <1>6, OpenedFit
  <2>. QED BY <1>3, <1>8, <2>1 DEF FInv, Fit
<1>. QED BY <1>7, <1>8

\* A socket that is closing is not written to any more.
LEMMA ServerStartsClosingFits ==
  ASSUME Steady, FInv, NEW s \in DOMAIN ctl.ws, ServerStartsClosing(s)
  PROVE  FInv'
<1> DEFINE x == [ctl.ws[s] EXCEPT !.ready = "CLOSING"]
<1>1. ctl \in Controllers /\ ctl.ws[s] \in Sockets
  BY DEF Steady, IInv, Good, Typed, Controllers
<1>2. x.authorized = ctl.ws[s].authorized /\ x.subscribed = ctl.ws[s].subscribed
      /\ x.ready = "CLOSING"
  BY <1>1 DEF Sockets
<1>3. ctl' = [ctl EXCEPT !.ws = [ctl.ws EXCEPT ![s] = x]] BY DEF ServerStartsClosing
<1> HIDE DEF x
<1>4. /\ Follows(ctl, ctl') /\ ctl'.state = ctl.state /\ ctl'.socket = ctl.socket
      /\ ctl'.ws[s] = x /\ \A t \in DOMAIN ctl.ws : t # s => ctl'.ws[t] = ctl.ws[t]
  BY <1>1, <1>2, <1>3, SocketFollows
<1>5. Ready(ctl')
  <2>1. SUFFICES ASSUME Writable(ctl') # 0 PROVE Ready(ctl') BY DEF Ready
  <2>2. /\ Writable(ctl') = ctl.socket /\ ctl.socket # 0 /\ ctl.socket \in DOMAIN ctl'.ws
        /\ ctl'.ws[ctl.socket].ready = "OPEN"
    BY <1>4, <2>1, WritableWasMade DEF Steady, IInv, Good
  <2>3. ctl.socket \in DOMAIN ctl.ws
    BY <1>1, <2>2 DEF Steady, IInv, Good, Typed, Controllers
  <2>4. ctl'.ws[ctl.socket] = ctl.ws[ctl.socket] BY <1>2, <1>4, <2>2, <2>3
  <2>5. Writable(ctl) = ctl.socket BY <2>2, <2>4 DEF Writable
  <2>. QED BY <1>4, <2>2, <2>4, <2>5 DEF Ready, FInv
<1>. QED BY <1>4, <1>5, FollowsStep

\* The events of a lost socket: the answers that were to come on it never do.
LEMMA BrowserClosesFits ==
  ASSUME Steady, FInv, NEW s \in DOMAIN ctl.ws, NEW failed \in BOOLEAN,
         NEW opens \in BOOLEAN, BrowserCloses(s, failed, opens)
  PROVE  FInv'
<1> DEFINE x == [ctl.ws[s] EXCEPT !.ready = "CLOSED"]
           gone == [ctl EXCEPT !.ws = [ctl.ws EXCEPT ![s] = x],
                               !.asked = {r \in ctl.asked : r.on # s}]
           told == IF failed THEN OnError(gone, s) ELSE gone
<1>1. /\ ctl \in Controllers /\ ctl.ws \in Seq(Sockets) /\ ctl.ws[s] \in Sockets
      /\ IsLive(ctl, s)
  <2>1. ctl \in Controllers BY DEF Steady, IInv, Good, Typed
  <2>2. ctl.ws \in Seq(Sockets) /\ ctl.ws[s] \in Sockets BY <2>1 DEF Controllers
  <2>3. IsLive(ctl, s) BY <2>2 DEF BrowserCloses, IsLive
  <2>. QED BY <2>1, <2>2, <2>3
<1>2. /\ x \in Sockets /\ x.ready = "CLOSED" /\ x.reopens = ctl.ws[s].reopens
      /\ x.closedManually = ctl.ws[s].closedManually
      /\ x.authorized = ctl.ws[s].authorized /\ x.subscribed = ctl.ws[s].subscribed
  BY <1>1 DEF Sockets
<1>3. ctl' = OnClose(told, s, opens) BY DEF BrowserCloses
<1> HIDE DEF x
<1>4. gone \in Controllers BY <1>1, <1>2, SocketUpdate DEF Controllers
<1>5. /\ gone.socket = ctl.socket /\ gone.waits = ctl.waits
      /\ gone.ws = [ctl.ws EXCEPT ![s] = x] /\ gone.asked \subseteq ctl.asked
      /\ gone.buffers = ctl.buffers /\ gone.reqCounter = ctl.reqCounter
      /\ gone.makingAuth = ctl.makingAuth /\ gone.makingSub = ctl.makingSub
  BY <1>1 DEF Controllers
<1> HIDE DEF gone
<1>6. /\ Len(gone.ws) = Len(ctl.ws) /\ DOMAIN gone.ws = DOMAIN ctl.ws
      /\ gone.ws[s] = x /\ \A t \in DOMAIN ctl.ws : t # s => gone.ws[t] = ctl.ws[t]
  BY <1>1, <1>2, <1>5, SocketUpdate
<1>7. \A t \in DOMAIN ctl.ws : t # s => ~IsLive(ctl, t)
  BY <1>1 DEF Steady, IInv, Good, Connection
<1>8. AllClosed(gone)
  BY <1>2, <1>4, <1>5, <1>6, <1>7
  DEF AllClosed, Steady, IInv, Good, Typed, Connection, IsLive
<1>9. ~gone.ws[s].closedManually => gone.socket = s /\ gone.ws[s].reopens = 0
  BY <1>1, <1>2, <1>5, <1>6 DEF Steady, IInv, Good, Connection
<1>10. Follows(ctl, gone) BY <1>2, <1>5, <1>6 DEF Follows
<1>11. /\ AllClosed(told) /\ s \in DOMAIN told.ws /\ Follows(gone, told)
  <2>1. CASE failed BY <1>6, <1>8, <1>9, <2>1, OnErrorAllClosed, OnErrorFollows
  <2>2. CASE ~failed BY <1>6, <1>8, <2>2, FollowsItself
  <2>. QED BY <2>1, <2>2
<1> HIDE DEF told
<1>12. Follows(told, ctl') /\ ctl'.state \in {"closed", "pending", "closing"}
  BY <1>3, <1>11, OnCloseFollows
<1>13. Follows(ctl, ctl') BY <1>10, <1>11, <1>12, FollowsTransitive
<1>. QED BY <1>12, <1>13, ReadyByState, FollowsStep

\* The connection on which an answer comes is the one that a wait for it names, and the
\* only one that a write can go to.
LEMMA AnswerComesBack ==
  ASSUME NEW c, Fit(c), NEW r \in c.asked, c.ws[r.on].ready = "OPEN",
         NEW w \in c.waits, w.for # "user", r.id \in w.ids
  PROVE  w.on = r.on /\ w.on # 0 /\ Writable(c) \in {0, w.on}
<1>1. w.on = r.on BY DEF Fit, Requests, Matched
<1>2. /\ r.on \in DOMAIN c.ws /\ DOMAIN c.ws = 1..Len(c.ws) /\ Len(c.ws) \in Nat
  BY DEF Fit, Good, Typed, Controllers, Requests, Fits
<1>3. r.on = Len(c.ws) BY <1>2 DEF Fit, Good, Connection, IsLive
<1>4. Writable(c) # 0 => Writable(c) = Len(c.ws)
  BY WritableWasMade DEF Fit, Good, Connection, IsLive
<1>. QED BY <1>1, <1>2, <1>3, <1>4

\* The subscriber of an authorization answer.
LEMMA AuthAnsweredFit ==
  ASSUME NEW c, Fit(c), NEW w \in c.waits, Writable(c) \in {0, w.on},
         NEW outcome, NEW makes \in MakesOf
  PROVE  Fit(AuthAnswered(c, w, outcome, makes))
<1> DEFINE without == [c EXCEPT !.waits = c.waits \ {w}]
           errored == [without EXCEPT !.authorizedErrored = TRUE]
<1>1. c \in Controllers /\ w \in Waits /\ w.on <= Len(c.ws)
  BY DEF Fit, Good, Typed, Controllers
<1>2. without \in Controllers /\ errored \in Controllers BY <1>1 DEF Controllers
<1>3. /\ without.state = c.state /\ without.socket = c.socket /\ without.ws = c.ws
      /\ without.closedManually = c.closedManually /\ without.waits \subseteq c.waits
      /\ without.asked = c.asked /\ without.buffers = c.buffers
      /\ without.reqCounter = c.reqCounter /\ without.makingAuth = c.makingAuth
      /\ without.makingSub = c.makingSub
      /\ errored.state = c.state /\ errored.socket = c.socket /\ errored.ws = c.ws
      /\ errored.closedManually = c.closedManually /\ errored.waits \subseteq c.waits
      /\ errored.asked = c.asked /\ errored.buffers = c.buffers
      /\ errored.reqCounter = c.reqCounter /\ errored.makingAuth = c.makingAuth
      /\ errored.makingSub = c.makingSub
  BY <1>1 DEF Controllers
<1>4. AuthAnswered(c, w, outcome, makes) \in {Authorized(without, w.on, makes), Close(errored)}
  BY DEF AuthAnswered
<1> HIDE DEF without, errored
<1>5. Fit(without) /\ Fit(errored) BY <1>2, <1>3, WaitDoneFit
<1>6. Writable(without) = Writable(c) BY <1>3, SameConnection
<1>7. w.on \in Nat /\ w.on <= Len(without.ws) BY <1>1, <1>3 DEF Waits
<1>8. Fit(Authorized(without, w.on, makes)) BY <1>5, <1>6, <1>7, AuthorizedFit DEF Fit
<1>. QED BY <1>4, <1>5, <1>8, CloseFit

\* The subscriber of the answers to the subscription.
LEMMA SubAnsweredFit ==
  ASSUME NEW c, Fit(c), NEW w \in c.waits, w.for = "subscribe", w.on # 0,
         Writable(c) \in {0, w.on}, NEW id, NEW outcome
  PROVE  Fit(SubAnswered(c, w, id, outcome))
<1> DEFINE rest == [w EXCEPT !.ids = w.ids \ {id}, !.ok = w.ok /\ outcome = "ok"]
           without == [c EXCEPT !.waits = c.waits \ {w}]
           errored == [without EXCEPT !.subscribedErrored = TRUE]
           again == [without EXCEPT !.waits = without.waits \cup {rest}]
<1>1. c \in Controllers /\ w \in Waits /\ w.on <= Len(c.ws)
  BY DEF Fit, Good, Typed, Controllers
<1>2. rest \in Waits /\ rest.on = w.on /\ rest.for = "subscribe" /\ rest.ids = w.ids \ {id}
  BY <1>1 DEF Waits
<1>3. SubAnswered(c, w, id, outcome)
        \in {Close(errored), again, Subscribed(without, w.on), without}
  BY DEF SubAnswered
<1> HIDE DEF rest
<1>4. without \in Controllers /\ errored \in Controllers /\ again \in Controllers
  BY <1>1, <1>2 DEF Controllers
<1>5. /\ without.state = c.state /\ without.socket = c.socket /\ without.ws = c.ws
      /\ without.closedManually = c.closedManually /\ without.waits = c.waits \ {w}
      /\ without.asked = c.asked /\ without.buffers = c.buffers
      /\ without.reqCounter = c.reqCounter /\ without.makingAuth = c.makingAuth
      /\ without.makingSub = c.makingSub
      /\ errored.state = c.state /\ errored.socket = c.socket /\ errored.ws = c.ws
      /\ errored.closedManually = c.closedManually /\ errored.waits = c.waits \ {w}
      /\ errored.asked = c.asked /\ errored.buffers = c.buffers
      /\ errored.reqCounter = c.reqCounter /\ errored.makingAuth = c.makingAuth
      /\ errored.makingSub = c.makingSub
  BY <1>1 DEF Controllers
<1>6. /\ again.state = c.state /\ again.socket = c.socket /\ again.ws = c.ws
      /\ again.closedManually = c.closedManually
      /\ again.waits = (c.waits \ {w}) \cup {rest}
      /\ again.asked = c.asked /\ again.buffers = c.buffers
      /\ again.reqCounter = c.reqCounter /\ again.makingAuth = c.makingAuth
      /\ again.makingSub = c.makingSub
  BY <1>1 DEF Controllers
<1> HIDE DEF without, errored, again
<1>7. Fit(without) /\ Fit(errored) BY <1>4, <1>5, WaitDoneFit
<1>8. Matched(c, w) BY DEF Fit, Requests
<1>9. Fit(again)
  <2>1. \A v \in again.waits : v.on <= Len(c.ws)
    BY <1>1, <1>2, <1>6 DEF Fit, Good, Typed
  <2>2. Good(again) BY <1>4, <1>6, <2>1, OtherFields DEF Fit, Kept
  <2>3. Buffered(again) = Buffered(c) BY <1>6 DEF Buffered
  <2>4. Matched(again, rest) BY <1>2, <1>6, <1>8, <2>3 DEF Matched
  <2>5. ASSUME NEW v \in c.waits PROVE Matched(again, v)
    <3>1. Matched(c, v) BY DEF Fit, Requests
    <3>. QED BY <1>6, <2>3, <3>1 DEF Matched
  <2>6. ASSUME NEW r \in c.asked PROVE Fits(again, r) BY <1>6 DEF Fit, Requests, Fits
  <2>7. Requests(again) BY <1>6, <2>3, <2>4, <2>5, <2>6 DEF Fit, Requests
  <2>8. Ready(again) BY <1>6, SameConnection DEF Fit
  <2>. QED BY <2>2, <2>7, <2>8 DEF Fit
<1>10. Fit(Subscribed(without, w.on))
  <2>1. Writable(without) = Writable(c) BY <1>5, SameConnection
  <2>2. w.on \in Nat /\ w.on <= Len(without.ws) BY <1>1, <1>5 DEF Waits
  <2>3. LateSub \/ without.ws[w.on].authorized BY <1>5, <1>8 DEF Matched
  <2>. QED BY <1>7, <2>1, <2>2, <2>3, SubscribedFit DEF Fit
<1>. QED BY <1>3, <1>7, <1>9, <1>10, CloseFit

\* An answer, or an update of the subscription, and what is written after it.
LEMMA ServerAnswersFits ==
  ASSUME Steady, FInv, NEW r \in ctl.asked, NEW outcome, NEW makes \in MakesOf,
         ServerAnswers(r, outcome, makes)
  PROVE  FInv'
<1> DEFINE c == [ctl EXCEPT !.asked = ctl.asked \ {r}]
           without(w) == [c EXCEPT !.waits = c.waits \ {w}]
<1>1. Fit(ctl) /\ ctl \in Controllers /\ ctl.ws[r.on].ready = "OPEN"
  BY DEF Steady, IInv, FInv, Fit, Good, Typed, ServerAnswers
<1>2. c \in Controllers BY <1>1 DEF Controllers
<1>3. /\ c.state = ctl.state /\ c.socket = ctl.socket /\ c.ws = ctl.ws
      /\ c.closedManually = ctl.closedManually /\ c.waits = ctl.waits
      /\ c.asked \subseteq ctl.asked /\ c.buffers = ctl.buffers
      /\ c.reqCounter = ctl.reqCounter /\ c.makingAuth = ctl.makingAuth
      /\ c.makingSub = ctl.makingSub
  BY <1>1 DEF Controllers
<1>4. \/ ctl' = c
      \/ \E w \in c.waits :
           /\ r.id \in w.ids
           /\ ctl' = CASE w.for = "user" -> without(w)
                       [] w.for = "authorize" -> AuthAnswered(c, w, outcome, makes)
                       [] w.for = "subscribe" -> SubAnswered(c, w, r.id, outcome)
  BY DEF ServerAnswers
<1> HIDE DEF c
<1>5. Fit(c) BY <1>1, <1>2, <1>3, WaitDoneFit
<1>6. ASSUME NEW w \in c.waits, r.id \in w.ids,
             ctl' = CASE w.for = "user" -> without(w)
                      [] w.for = "authorize" -> AuthAnswered(c, w, outcome, makes)
                      [] w.for = "subscribe" -> SubAnswered(c, w, r.id, outcome)
      PROVE  Fit(ctl')
  <2>1. w.for \in {"user", "authorize", "subscribe"} BY <1>2 DEF Controllers, Waits
  <2>2. CASE w.for = "user"
    <3>1. without(w) \in Controllers BY <1>2 DEF Controllers
    <3>2. /\ without(w).state = c.state /\ without(w).socket = c.socket
          /\ without(w).ws = c.ws /\ without(w).closedManually = c.closedManually
          /\ without(w).waits \subseteq c.waits /\ without(w).asked = c.asked
          /\ without(w).buffers = c.buffers /\ without(w).reqCounter = c.reqCounter
          /\ without(w).makingAuth = c.makingAuth /\ without(w).makingSub = c.makingSub
      BY <1>2 DEF Controllers
    <3>3. Fit(without(w)) BY <1>5, <3>1, <3>2, WaitDoneFit
    <3>. QED BY <1>6, <2>2, <3>3
  <2>3. CASE w.for # "user"
    <3>1. w.on # 0 /\ Writable(ctl) \in {0, w.on}
      BY <1>1, <1>3, <1>6, <2>3, AnswerComesBack
    <3>2. Writable(c) \in {0, w.on} BY <1>3, <3>1, SameConnection
    <3>3. Fit(AuthAnswered(c, w, outcome, makes)) BY <1>5, <3>2, AuthAnsweredFit
    <3>4. w.for = "subscribe" => Fit(SubAnswered(c, w, r.id, outcome))
      BY <1>5, <3>1, <3>2, SubAnsweredFit
    <3>. QED BY <1>6, <2>1, <2>3, <3>3, <3>4
  <2>. QED BY <2>2, <2>3
<1>7. Fit(ctl') BY <1>4, <1>5, <1>6
<1>. QED BY <1>7 DEF Fit, FInv

\* A wait for an answer that ends with an error.
LEMMA TimesOutFits ==
  ASSUME Steady, FInv, NEW w \in ctl.waits, TimesOut(w)
  PROVE  FInv'
<1> DEFINE c == [ctl EXCEPT !.waits = ctl.waits \ {w}]
           a == [c EXCEPT !.authorizedErrored = TRUE]
           b == [c EXCEPT !.subscribedErrored = TRUE]
<1>1. Fit(ctl) /\ ctl \in Controllers BY DEF Steady, IInv, FInv, Fit, Good, Typed
<1>2. c \in Controllers /\ a \in Controllers /\ b \in Controllers BY <1>1 DEF Controllers
<1> DEFINE Same(d) ==
        /\ d.state = ctl.state /\ d.socket = ctl.socket /\ d.ws = ctl.ws
        /\ d.closedManually = ctl.closedManually /\ d.waits \subseteq ctl.waits
        /\ d.asked = ctl.asked /\ d.buffers = ctl.buffers
        /\ d.reqCounter = ctl.reqCounter /\ d.makingAuth = ctl.makingAuth
        /\ d.makingSub = ctl.makingSub
<1>3. Same(c) /\ Same(a) /\ Same(b)
  <2>1. Same(c) BY <1>1 DEF Controllers
  <2>2. Same(a) BY <1>1, <1>2, <2>1 DEF Controllers
  <2>3. Same(b) BY <1>1, <1>2, <2>1 DEF Controllers
  <2>. QED BY <2>1, <2>2, <2>3
<1>4. w.for \in {"user", "authorize", "subscribe"} BY <1>1 DEF Controllers, Waits
<1>5. ctl' \in {c, Close(a), Close(b)} BY <1>4 DEF TimesOut
<1> HIDE DEF a, b, c
<1>6. Fit(a) /\ Fit(b) /\ Fit(c) BY <1>1, <1>2, <1>3, WaitDoneFit
<1>7. Fit(ctl') BY <1>5, <1>6, CloseFit
<1>. QED BY <1>7 DEF Fit, FInv

\* The reopen timer, which calls open() again.
LEMMA ReopenTimerFiresFits ==
  ASSUME Steady, FInv, NEW s \in DOMAIN ctl.ws, NEW should, NEW constructs,
         ReopenTimerFires(s, should, constructs)
  PROVE  FInv'
<1> DEFINE x == [ctl.ws[s] EXCEPT !.timers = ctl.ws[s].timers - 1]
           c == [ctl EXCEPT !.ws = [ctl.ws EXCEPT ![s] = x]]
<1>1. /\ ctl \in Controllers /\ ctl.ws \in Seq(Sockets) /\ ctl.ws[s] \in Sockets
      /\ ctl.ws[s].timers > 0 /\ Typed(ctl)
  <2>1. Typed(ctl) /\ ctl \in Controllers BY DEF Steady, IInv, Good, Typed
  <2>2. ctl.ws \in Seq(Sockets) BY <2>1 DEF Controllers
  <2>3. ctl.ws[s].timers > 0 BY DEF ReopenTimerFires
  <2>. QED BY <2>1, <2>2, <2>3
<1>2. ctl.ws[s].timers - 1 \in Nat BY <1>1 DEF Sockets
<1>3. /\ x \in Sockets /\ x.ready = ctl.ws[s].ready
      /\ x.authorized = ctl.ws[s].authorized /\ x.subscribed = ctl.ws[s].subscribed
  BY <1>1, <1>2 DEF Sockets
<1>4. ctl' \in {c, Open(c, c.ws[s].auto, constructs)} BY DEF ReopenTimerFires
<1> HIDE DEF x
<1>5. c \in Controllers BY <1>1, <1>3, SocketUpdate DEF Controllers
<1>6. /\ Follows(ctl, c) /\ c.state = ctl.state /\ c.socket = ctl.socket
      /\ DOMAIN c.ws = DOMAIN ctl.ws /\ c.ws[s] = x
      /\ \A t \in DOMAIN ctl.ws : t # s => c.ws[t] = ctl.ws[t]
  BY <1>1, <1>3, SocketFollows
<1>7. c.waits = ctl.waits /\ Len(c.ws) = Len(ctl.ws)
  <2>1. c.waits = ctl.waits /\ c.ws = [ctl.ws EXCEPT ![s] = x] BY <1>1 DEF Controllers
  <2>. QED BY <1>1, <1>3, <2>1, SocketUpdate
<1> HIDE DEF c
<1>8. Typed(c) BY <1>1, <1>5, <1>6, <1>7 DEF Typed
<1>9. Ready(c)
  <2>1. SUFFICES ASSUME Writable(c) # 0 PROVE Ready(c) BY DEF Ready
  <2>2. /\ Writable(c) = ctl.socket /\ ctl.socket # 0 /\ ctl.socket \in DOMAIN ctl.ws
        /\ c.ws[ctl.socket].ready = "OPEN"
    BY <1>6, <1>8, <2>1, WritableWasMade
  <2>3. /\ ctl.ws[ctl.socket].ready = "OPEN"
        /\ c.ws[ctl.socket].authorized = ctl.ws[ctl.socket].authorized
        /\ c.ws[ctl.socket].subscribed = ctl.ws[ctl.socket].subscribed
    BY <1>3, <1>6, <2>2
  <2>4. Writable(ctl) = ctl.socket BY <2>2, <2>3 DEF Writable
  <2>5. c.state = ctl.state /\ Ready(ctl) BY <1>6 DEF FInv
  <2>. QED BY <2>2, <2>3, <2>4, <2>5 DEF Ready, Admitted
<1>10. \A auto : LET d == Open(c, auto, constructs) IN Follows(c, d) /\ (d = c \/ d.state = "pending")
  BY <1>8, OpenFollows
<1>11. Follows(ctl, ctl') /\ (ctl' = c \/ ctl'.state = "pending")
  BY <1>4, <1>6, <1>10, FollowsTransitive
<1>12. Ready(ctl') BY <1>9, <1>11, ReadyByState
<1>. QED BY <1>11, <1>12, FollowsStep

\* createRequest() emits, on whatever connection there is now.
LEMMA AuthMessageMadeFits ==
  ASSUME Steady, FInv, NEW made, NEW makes \in MakesOf, AuthMessageMade(made, makes)
  PROVE  FInv'
<1> DEFINE c == [ctl EXCEPT !.makingAuth = ctl.makingAuth - 1]
<1>1. Fit(ctl) BY DEF Steady, IInv, FInv, Fit
<1>2. ctl.makingAuth > 0 /\ ctl.makingAuth - 1 \in Nat
  BY <1>1 DEF AuthMessageMade, Fit, Good, Typed, Controllers
<1>3. "later" \in AuthMakes BY <1>1, <1>2 DEF Fit, Requests
<1>4. Fit(c) BY <1>1, <1>2, <1>3, MakingFit
<1>5. ctl' = AuthMessage(c, made, makes) BY <1>2 DEF AuthMessageMade
<1> HIDE DEF c
<1>. QED BY <1>4, <1>5, AuthMessageFit DEF Fit, FInv

\* createRequests() emits, on whatever connection there is now.
LEMMA SubMessagesMadeFits ==
  ASSUME Steady, FInv, NEW made, SubMessagesMade(made)
  PROVE  FInv'
<1> DEFINE c == [ctl EXCEPT !.makingSub = ctl.makingSub - 1]
<1>1. Fit(ctl) BY DEF Steady, IInv, FInv, Fit
<1>2. ctl.makingSub > 0 /\ ctl.makingSub - 1 \in Nat
  BY <1>1 DEF SubMessagesMade, Fit, Good, Typed, Controllers
<1>3. LateSub BY <1>1, <1>2 DEF Fit, Requests
<1>4. Fit(c) BY <1>1, <1>2, <1>3, MakingFit
<1>5. ctl' = SubMessages(c, made) BY <1>2 DEF SubMessagesMade
<1> HIDE DEF c
<1>. QED BY <1>3, <1>4, <1>5, SubMessagesFit DEF Fit, FInv

\* Every step of the controller and of its environment keeps the invariant.
LEMMA StepFits == Steady /\ FInv /\ [Next]_vars => FInv'
<1> SUFFICES ASSUME Steady, FInv, [Next]_vars PROVE FInv' OBVIOUS
<1>0. OpensOnClosed \subseteq BOOLEAN BY ControllerAssumption
<1>1. CASE \E auto \in AutoReconnect, constructs \in Constructs : UserOpen(auto, constructs)
  BY <1>1, UserOpenFits
<1>2. CASE UserClose BY <1>2, UserCloseFits
<1>3. CASE \E call \in Calls : UserCall(call) BY <1>3, UserCallFits
<1>4. CASE \E s \in DOMAIN ctl.ws, makes \in MakesOf : BrowserOpens(s, makes)
  BY <1>4, BrowserOpensFits
<1>5. CASE \E s \in DOMAIN ctl.ws : ServerStartsClosing(s)
  BY <1>5, ServerStartsClosingFits
<1>6. CASE \E s \in DOMAIN ctl.ws, failed \in BOOLEAN, opens \in OpensOnClosed :
             BrowserCloses(s, failed, opens)
  <2>1. PICK s \in DOMAIN ctl.ws, failed \in BOOLEAN, opens \in OpensOnClosed :
          BrowserCloses(s, failed, opens)
    BY <1>6
  <2>2. opens \in BOOLEAN BY <1>0, Zenon
  <2>. QED BY <2>1, <2>2, BrowserClosesFits
<1>7. CASE \E r \in ctl.asked, outcome \in Outcomes, makes \in MakesOf :
             ServerAnswers(r, outcome, makes)
  BY <1>7, ServerAnswersFits
<1>8. CASE \E w \in ctl.waits : TimesOut(w) BY <1>8, TimesOutFits
<1>9. CASE \/ \E made \in AuthMakes, makes \in MakesOf : AuthMessageMade(made, makes)
           \/ \E made \in SubMakes : SubMessagesMade(made)
  BY <1>9, AuthMessageMadeFits, SubMessagesMadeFits
<1>10. CASE \E s \in DOMAIN ctl.ws, should \in Should, constructs \in Constructs :
              ReopenTimerFires(s, should, constructs)
  BY <1>10, ReopenTimerFiresFits
<1>11. CASE UNCHANGED vars BY <1>11 DEF vars, FInv
<1>. QED BY <1>1, <1>2, <1>3, <1>4, <1>5, <1>6, <1>7, <1>8, <1>9, <1>10, <1>11 DEF Next

\* A user's request that waits for authorization or subscription reaches the server only on
\* a connection that was authorized or subscribed itself, however late the observables that
\* make the messages of the configuration emit.
THEOREM OnlyFitSocketsAlways == Spec => []OnlyFitSockets
<1>1. FInv => OnlyFitSockets
  BY DEF FInv, Requests, Fits, OnlyFitSockets, Admitted, LateSub
<1>2. IInv /\ IInv' /\ FInv /\ [Next]_vars => FInv' BY StepFits DEF Steady
<1>. QED BY <1>1, <1>2, InitFits, Invariance, PTL DEF Spec
-------------------------------------------------------------------------------
\* What the configuration gives may emit after the connection that it was asked for is gone.
EmitsLate == "later" \in AuthMakes \cup SubMakes

\* A createRequest() or createRequests() which may emit late is one whose message is a request
\* (isResponseSuccessful is set): without an answer to wait for, a controller would be
\* authorized or subscribed when it emits, on whatever connection, or on none.
AnsweredWhenLate ==
  /\ "later" \in AuthMakes => AuthMode = "request"
  /\ "later" \in SubMakes => SubMode = "request"

\* The controller's own requests that wait for their answers on connection s.
Internal(c, s) == {w \in c.waits : w.for # "user" /\ w.on = s}

Usable(c, s) == c.ws[s].ready \in {"CONNECTING", "OPEN"}

Established == {"opened", "authorized", "subscribed"}

\* What is asked on a connection tells the state: nothing before it is established, one
\* thing at a time afterwards.
Tells(c, s) ==
  /\ c.ws[s].ready = "CONNECTING" => Internal(c, s) = {}
  /\ c.ws[s].ready = "OPEN" =>
       \A w \in Internal(c, s) :
         /\ Internal(c, s) = {w}
         /\ c.state = IF w.for = "authorize" THEN "opened" ELSE "authorized"

\* A connection that is not at its end is _socket, and the state is one of it.  When nothing
\* emits late, it is the one in which the controller asks what it has asked.
Phased(c) ==
  \A s \in DOMAIN c.ws :
    /\ Usable(c, s) => c.socket = s
    /\ c.ws[s].ready = "CONNECTING" => c.state = "pending"
    /\ c.ws[s].ready = "OPEN" => c.state \in Established
    /\ EmitsLate \/ Tells(c, s)

\* _socket is established, and asks for nothing, or for what was made late.
Free(c) ==
  /\ c.socket # 0 /\ c.ws[c.socket].ready = "OPEN"
  /\ \A s \in DOMAIN c.ws : Usable(c, s) => s = c.socket
  /\ EmitsLate \/ Internal(c, c.socket) = {}

\* What a method keeps that does not touch connections and waits.
Still(c, d) ==
  /\ d.socket = c.socket /\ d.waits = c.waits /\ DOMAIN d.ws = DOMAIN c.ws
  /\ \A s \in DOMAIN c.ws : d.ws[s].ready = c.ws[s].ready
-------------------------------------------------------------------------------
\* Doing nothing touches nothing.
LEMMA StillItself == ASSUME NEW c PROVE Still(c, c)
BY DEF Still

\* One such method after another.
LEMMA StillTransitive ==
  ASSUME NEW c, NEW d, NEW e, Still(c, d), Still(d, e)
  PROVE  Still(c, e)
BY DEF Still

\* _socket stays established and free.
LEMMA StillFree ==
  ASSUME NEW c, Typed(c), Free(c), NEW d, Still(c, d)
  PROVE  Free(d)
<1>1. c.socket \in DOMAIN c.ws
  <2>1. c.socket \in Nat /\ c.socket <= Len(c.ws) /\ DOMAIN c.ws = 1..Len(c.ws)
    BY DEF Typed, Controllers
  <2>. QED BY <2>1 DEF Free
<1>2. Internal(d, d.socket) = Internal(c, c.socket) BY DEF Still, Internal
<1>. QED BY <1>1, <1>2 DEF Free, Still, Usable

\* Any state of an established connection will do when it asks for nothing.
LEMMA FreePhased ==
  ASSUME NEW c, Free(c), c.state \in Established
  PROVE  Phased(c)
<1>1. ASSUME NEW s \in DOMAIN c.ws, Usable(c, s) PROVE s = c.socket /\ c.ws[s].ready = "OPEN"
  BY <1>1 DEF Free
<1>. QED BY <1>1 DEF Free, Phased, Usable, Tells

\* The state is the same, and so is all that it speaks of.
LEMMA StillPhased ==
  ASSUME NEW c, Phased(c), NEW d, Still(c, d), d.state = c.state
  PROVE  Phased(d)
<1>1. \A s : Internal(d, s) = Internal(c, s) BY DEF Still, Internal
<1>. QED BY <1>1 DEF Phased, Still, Usable, Tells

\* With no connection in use the state is not bound to anything.
LEMMA UnusedPhased ==
  ASSUME NEW c, \A s \in DOMAIN c.ws : ~Usable(c, s)
  PROVE  Phased(c)
BY DEF Phased, Usable, Tells

\* Fewer waits of the controller's own, or any where they tell nothing.
LEMMA WaitsPhased ==
  ASSUME NEW c, Phased(c), NEW d, d.socket = c.socket, d.ws = c.ws, d.state = c.state,
         EmitsLate \/ \A w \in d.waits : w.for # "user" => w \in c.waits
  PROVE  Phased(d)
<1>0. CASE EmitsLate BY <1>0 DEF Phased, Usable
<1>a. SUFFICES ASSUME ~EmitsLate PROVE Phased(d) BY <1>0
<1>1. \A s : Internal(d, s) \subseteq Internal(c, s) BY <1>a DEF Internal
<1>2. ASSUME NEW s \in DOMAIN d.ws, d.ws[s].ready = "OPEN", NEW w \in Internal(d, s)
      PROVE  /\ Internal(d, s) = {w}
             /\ d.state = IF w.for = "authorize" THEN "opened" ELSE "authorized"
  <2>1. w \in Internal(c, s) BY <1>1
  <2>2. Internal(c, s) = {w} BY <1>a, <1>2, <2>1 DEF Phased, Tells
  <2>3. c.state = IF w.for = "authorize" THEN "opened" ELSE "authorized"
    BY <1>a, <1>2, <2>1 DEF Phased, Tells
  <2>. QED BY <1>1, <2>1, <2>2, <2>3
<1>3. ASSUME NEW s \in DOMAIN d.ws, d.ws[s].ready = "CONNECTING"
      PROVE  Internal(d, s) = {}
  BY <1>a, <1>1, <1>3 DEF Phased, Tells
<1>. QED BY <1>2, <1>3 DEF Phased, Usable, Tells

\* _setState touches no connection.
LEMMA SetStateStill ==
  ASSUME NEW c \in Controllers, NEW state
  PROVE  Still(c, SetState(c, state)) /\ SetState(c, state).state = state
<1>1. LET d == SetState(c, state)
      IN  d.state = state /\ d.socket = c.socket /\ d.ws = c.ws /\ d.waits = c.waits
  BY DEF SetState, Controllers
<1>. QED BY <1>1 DEF Still

\* Writing touches no connection.
LEMMA SendDirectStill ==
  ASSUME NEW c \in Controllers, NEW ids, NEW need
  PROVE  LET d == SendDirect(c, ids, need) IN Still(c, d) /\ d.state = c.state
<1> DEFINE d == [c EXCEPT !.asked = c.asked \cup [id: ids \ {0}, need: {need}, on: {Writable(c)}]]
<1>1. d.state = c.state /\ d.socket = c.socket /\ d.ws = c.ws /\ d.waits = c.waits
  BY DEF Controllers
<1>2. SendDirect(c, ids, need) \in {c, d} BY DEF SendDirect
<1> HIDE DEF d
<1>. QED BY <1>1, <1>2 DEF Still

\* Writing what was buffered touches no connection.
LEMMA SendBufferedStill ==
  ASSUME NEW c, Good(c), NEW need \in MessageRequirements
  PROVE  LET d == SendBuffered(c, need) IN Still(c, d) /\ d.state = c.state /\ Good(d)
<1> DEFINE ids == {c.buffers[need][i] : i \in DOMAIN c.buffers[need]}
           b == [c EXCEPT !.buffers = Remove(c.buffers, need)]
<1>1. Remove(c.buffers, need) \in [MessageRequirements -> Seq(Nat)]
  <2>1. <<>> \in Seq(Nat) OBVIOUS
  <2>. QED BY <2>1 DEF Remove, Good, Typed, Controllers
<1>2. b \in Controllers BY <1>1 DEF Good, Typed, Controllers
<1>3. b.state = c.state /\ b.socket = c.socket /\ b.ws = c.ws /\ b.waits = c.waits
  BY DEF Good, Typed, Controllers
<1>4. SendBuffered(c, need) = SendDirect(b, ids, need) BY DEF SendBuffered
<1> HIDE DEF b, ids
<1>5. Still(b, SendDirect(b, ids, need)) /\ SendDirect(b, ids, need).state = b.state
  BY <1>2, SendDirectStill
<1>6. Still(c, b) BY <1>3 DEF Still
<1>7. Good(SendBuffered(c, need)) BY SendBufferedKeeps DEF Kept
<1>. QED BY <1>3, <1>4, <1>5, <1>6, <1>7, StillTransitive

\* A mark, and the state that goes with it, touch no connection.
LEMMA MarkStill ==
  ASSUME NEW c, Good(c), NEW on \in Nat, on <= Len(c.ws), NEW x,
         on # 0 => /\ x \in Sockets
                   /\ x.ready = c.ws[on].ready /\ x.closedManually = c.ws[on].closedManually
                   /\ x.timers = c.ws[on].timers /\ x.reopens = c.ws[on].reopens,
         NEW state \in {"authorized", "subscribed"}
  PROVE  LET marked == IF on = 0 THEN c ELSE [c EXCEPT !.ws = [c.ws EXCEPT ![on] = x]]
             set == SetState(marked, state)
         IN  Still(c, set) /\ set.state = state /\ Good(set)
<1> DEFINE m == [c EXCEPT !.ws = [c.ws EXCEPT ![on] = x]]
           marked == IF on = 0 THEN c ELSE m
           set == SetState(marked, state)
<1>1. /\ c \in Controllers /\ c.ws \in Seq(Sockets) /\ Len(c.ws) \in Nat
      /\ DOMAIN c.ws = 1..Len(c.ws)
  BY DEF Good, Typed, Controllers
<1>2. Good(marked) /\ Still(c, marked)
  <2>1. CASE on = 0 BY <2>1, StillItself
  <2>2. CASE on # 0
    <3>1. on \in DOMAIN c.ws BY <1>1, <2>2
    <3>2. Good(m) BY <2>2, <3>1, SocketMark DEF Kept
    <3>3. m.socket = c.socket /\ m.waits = c.waits /\ m.ws = [c.ws EXCEPT ![on] = x]
      BY <1>1 DEF Controllers
    <3> HIDE DEF m
    <3>4. DOMAIN m.ws = DOMAIN c.ws /\ m.ws[on] = x
          /\ \A t \in DOMAIN c.ws : t # on => m.ws[t] = c.ws[t]
      BY <1>1, <3>1, <3>3
    <3>5. Still(c, m) BY <2>2, <3>3, <3>4 DEF Still
    <3>. QED BY <2>2, <3>2, <3>5
  <2>. QED BY <2>1, <2>2
<1> HIDE DEF marked
<1>3. Good(set) BY <1>2, SetStateKeeps DEF Kept, States
<1>4. Still(marked, set) /\ set.state = state BY <1>2, SetStateStill DEF Good, Typed
<1>5. Still(c, set) BY <1>2, <1>4, StillTransitive
<1> HIDE DEF set
<1>. QED BY <1>3, <1>4, <1>5 DEF set, marked

\* close() ends the use of every connection, and makes the state closing if there was one.
LEMMA ClosePhased ==
  ASSUME NEW c, Good(c), Phased(c)
  PROVE  /\ Phased(Close(c))
         /\ Close(c).state = c.state \/ (Close(c).state = "closing" /\ c.state # "closed")
<1> DEFINE s == c.socket
           x == [c.ws[s] EXCEPT !.closedManually = TRUE, !.ready = "CLOSING"]
           y == [c.ws[s] EXCEPT !.closedManually = TRUE]
           a == [c EXCEPT !.state = "closing", !.ws = [c.ws EXCEPT ![s] = x],
                          !.closedManually = c.closedManually \cup {s}]
           b == [c EXCEPT !.ws = [c.ws EXCEPT ![s] = y], !.socket = 0]
<1>1. /\ c \in Controllers /\ s \in Nat /\ c.ws \in Seq(Sockets) /\ Len(c.ws) \in Nat
      /\ DOMAIN c.ws = 1..Len(c.ws) /\ s <= Len(c.ws)
  BY DEF Good, Typed, Controllers
<1>2. CASE s = 0 BY <1>2 DEF Close
<1>3. CASE s # 0
  <2>1. s \in DOMAIN c.ws /\ c.ws[s] \in Sockets BY <1>1, <1>3
  <2>2. x.ready = "CLOSING" /\ y.ready = c.ws[s].ready BY <2>1 DEF Sockets
  <2>3. /\ a.state = "closing" /\ b.state = c.state
        /\ a.ws = [c.ws EXCEPT ![s] = x] /\ b.ws = [c.ws EXCEPT ![s] = y]
    BY <1>1 DEF Controllers
  <2>4. Close(c) = IF Usable(c, s) THEN a ELSE b BY <1>3 DEF Close, Usable
  <2> HIDE DEF a, b, x, y
  <2>5. /\ DOMAIN a.ws = DOMAIN c.ws /\ a.ws[s] = x
        /\ DOMAIN b.ws = DOMAIN c.ws /\ b.ws[s] = y
        /\ \A t \in DOMAIN c.ws : t # s => a.ws[t] = c.ws[t] /\ b.ws[t] = c.ws[t]
    BY <1>1, <2>1, <2>3
  <2>6. \A t \in DOMAIN c.ws : t # s => ~Usable(c, t) BY DEF Phased
  <2>7. Phased(a) BY <2>2, <2>5, <2>6, UnusedPhased DEF Usable
  <2>8. ~Usable(c, s) => Phased(b) BY <2>2, <2>5, <2>6, UnusedPhased DEF Usable
  <2>9. Usable(c, s) => c.state # "closed"
    BY <2>1 DEF Usable, Good, Connection, IsLive
  <2>. QED BY <2>3, <2>4, <2>7, <2>8, <2>9
<1>. QED BY <1>2, <1>3

\* The first thing that is waited for on a connection, in the state that goes with it.
LEMMA AskedPhased ==
  ASSUME NEW c, Free(c), c.state \in Established, NEW wait, wait.on = c.socket,
         EmitsLate \/ c.state = IF wait.for = "authorize" THEN "opened" ELSE "authorized",
         NEW d, d.socket = c.socket, d.ws = c.ws, d.state = c.state,
         d.waits = c.waits \cup {wait}
  PROVE  Phased(d)
<1>0. CASE EmitsLate BY <1>0 DEF Free, Phased, Usable
<1>a. SUFFICES ASSUME ~EmitsLate PROVE Phased(d) BY <1>0
<1>1. Internal(d, d.socket) \subseteq {wait} BY <1>a DEF Free, Internal
<1>2. ASSUME NEW t \in DOMAIN d.ws, Usable(d, t)
      PROVE  t = d.socket /\ d.ws[t].ready = "OPEN"
  BY <1>2 DEF Free, Usable
<1>3. ASSUME NEW w \in Internal(d, d.socket)
      PROVE  /\ Internal(d, d.socket) = {w}
             /\ d.state = IF w.for = "authorize" THEN "opened" ELSE "authorized"
  BY <1>a, <1>1, <1>3
<1>. QED BY <1>2, <1>3 DEF Phased, Usable, Tells

\* What a request leaves: the connection as it was, and one wait more.
Asks(c, d, need) ==
  \E sent, wait :
    /\ Still(c, sent) /\ sent.state = c.state
    /\ wait.for = need /\ wait.on = Writable(c)
    /\ d.state = sent.state /\ d.socket = sent.socket /\ d.ws = sent.ws
    /\ d.waits = sent.waits \cup {wait}

\* _requestDirect touches no connection, and leaves one wait more.
LEMMA RequestDirectEffect ==
  ASSUME NEW c, Good(c), NEW n \in Nat, NEW need \in {"authorize", "subscribe"}
  PROVE  LET d == RequestDirect(c, n, need)
         IN  d = c \/ Asks(c, d, need)
<1>1. CASE n = 0 BY <1>1 DEF RequestDirect
<1>2. CASE n # 0
  <2> DEFINE ids == c.reqCounter .. (c.reqCounter + n - 1)
             b == [c EXCEPT !.reqCounter = c.reqCounter + n]
             sent == SendDirect(b, ids, need)
             wait == [for |-> need, ids |-> ids, on |-> Writable(c), ok |-> TRUE]
             d == [sent EXCEPT !.waits = sent.waits \cup {wait}]
  <2>1. /\ c \in Controllers /\ c.reqCounter + n \in Nat /\ ids \in SUBSET Nat
    BY DEF Good, Typed, Controllers
  <2>2. b \in Controllers BY <2>1 DEF Controllers
  <2>3. /\ b.state = c.state /\ b.socket = c.socket /\ b.ws = c.ws /\ b.waits = c.waits
        /\ b.closedManually = c.closedManually
    BY <2>1 DEF Controllers
  <2>4. Good(b) BY <2>2, <2>3, OtherFields DEF Good, Typed, Kept
  <2> HIDE DEF b, ids
  <2>5. sent \in Controllers
    BY <2>1, <2>4, SendDirectKeeps DEF Kept, Good, Typed
  <2>6. Still(c, sent) /\ sent.state = c.state
    <3>1. Still(b, sent) /\ sent.state = b.state BY <2>2, SendDirectStill
    <3>2. Still(c, b) BY <2>3 DEF Still
    <3>. QED BY <2>3, <3>1, <3>2, StillTransitive
  <2> HIDE DEF sent
  <2>7. /\ d.state = sent.state /\ d.socket = sent.socket /\ d.ws = sent.ws
        /\ d.waits = sent.waits \cup {wait}
    BY <2>5 DEF Controllers
  <2>8. wait.for = need /\ wait.on = Writable(c) OBVIOUS
  <2>9. RequestDirect(c, n, need) = d BY <1>2 DEF RequestDirect, sent, b, ids
  <2> HIDE DEF d, wait
  <2>10. Asks(c, d, need) BY <2>6, <2>7, <2>8 DEF Asks
  <2>. QED BY <2>9, <2>10
<1>. QED BY <1>1, <1>2

\* _requestDirect is called in the state that goes with what it asks.
LEMMA RequestDirectPhased ==
  ASSUME NEW c, Good(c), Free(c), c.state \in Established,
         NEW n \in Nat, NEW need \in {"authorize", "subscribe"},
         EmitsLate \/ c.state = IF need = "authorize" THEN "opened" ELSE "authorized"
  PROVE  LET d == RequestDirect(c, n, need) IN Phased(d) /\ d.state = c.state
<1>1. ASSUME NEW d, Asks(c, d, need) PROVE Phased(d) /\ d.state = c.state
  <2>1. PICK sent, wait :
             /\ Still(c, sent) /\ sent.state = c.state
             /\ wait.for = need /\ wait.on = Writable(c)
             /\ d.state = sent.state /\ d.socket = sent.socket /\ d.ws = sent.ws
             /\ d.waits = sent.waits \cup {wait}
    BY <1>1 DEF Asks
  <2>2. Free(sent) BY <2>1, StillFree DEF Good
  <2>3. Writable(c) = sent.socket BY <2>1 DEF Free, Writable, Still
  <2>4. Phased(d) BY <2>1, <2>2, <2>3, AskedPhased
  <2>. QED BY <2>1, <2>4
<1>2. Phased(c) BY FreePhased
<1>. QED BY <1>1, <1>2, RequestDirectEffect

\* _requestDirect is called late, on whatever connection there is.
LEMMA RequestDirectLate ==
  ASSUME NEW c, Good(c), Phased(c), EmitsLate,
         NEW n \in Nat, NEW need \in {"authorize", "subscribe"}
  PROVE  LET d == RequestDirect(c, n, need) IN Phased(d) /\ d.state = c.state
<1>1. ASSUME NEW d, Asks(c, d, need) PROVE Phased(d) /\ d.state = c.state
  <2>1. PICK sent, wait :
             /\ Still(c, sent) /\ sent.state = c.state
             /\ wait.for = need /\ wait.on = Writable(c)
             /\ d.state = sent.state /\ d.socket = sent.socket /\ d.ws = sent.ws
             /\ d.waits = sent.waits \cup {wait}
    BY <1>1 DEF Asks
  <2>2. Phased(sent) BY <2>1, StillPhased
  <2>3. Phased(d) BY <2>1, <2>2, WaitsPhased
  <2>. QED BY <2>1, <2>3
<1>. QED BY <1>1, RequestDirectEffect

\* _subscribed asks for nothing more.
LEMMA SubscribedPhased ==
  ASSUME NEW c, Good(c), Free(c), NEW on \in Nat, on <= Len(c.ws)
  PROVE  LET d == Subscribed(c, on) IN Phased(d) /\ d.state = "subscribed"
<1> DEFINE x == [c.ws[on] EXCEPT !.subscribed = TRUE]
           marked == IF on = 0 THEN c ELSE [c EXCEPT !.ws = [c.ws EXCEPT ![on] = x]]
           set == SetState(marked, "subscribed")
           d == SendBuffered(set, "sub")
<1>1. on # 0 => /\ x \in Sockets
                /\ x.ready = c.ws[on].ready /\ x.closedManually = c.ws[on].closedManually
                /\ x.timers = c.ws[on].timers /\ x.reopens = c.ws[on].reopens
  <2>1. SUFFICES ASSUME on # 0 PROVE on \in DOMAIN c.ws /\ c.ws[on] \in Sockets
    BY DEF Sockets
  <2>2. c.ws \in Seq(Sockets) /\ Len(c.ws) \in Nat /\ DOMAIN c.ws = 1..Len(c.ws)
    BY DEF Good, Typed, Controllers
  <2>. QED BY <2>1, <2>2
<1>2. Subscribed(c, on) = d BY DEF Subscribed
<1> HIDE DEF x
<1>3. Still(c, set) /\ set.state = "subscribed" /\ Good(set) BY <1>1, MarkStill
<1> HIDE DEF set
<1>4. Still(set, d) /\ d.state = set.state
  BY <1>3, SendBufferedStill DEF MessageRequirements
<1>5. Still(c, d) BY <1>3, <1>4, StillTransitive
<1>6. Free(d) BY <1>5, StillFree DEF Good
<1>. QED BY <1>2, <1>3, <1>4, <1>6, FreePhased DEF Established

\* A write of a free connection goes to _socket.
LEMMA FreeWritable ==
  ASSUME NEW c, Typed(c), Free(c)
  PROVE  Writable(c) = c.socket /\ Writable(c) \in Nat /\ Writable(c) <= Len(c.ws)
BY WritableType DEF Free, Writable

\* The subscriber of createRequests() stays authorized, goes on to subscribed, or closes.
LEMMA SubMessagesPhased ==
  ASSUME NEW c, Good(c), Free(c), c.state = "authorized", NEW made
  PROVE  LET d == SubMessages(c, made)
         IN  Phased(d) /\ d.state \in {"authorized", "subscribed", "closing"}
<1>1. LET d == RequestDirect(c, SubCount, "subscribe") IN Phased(d) /\ d.state = "authorized"
  BY RequestDirectPhased, ControllerAssumption DEF Established
<1>2. LET d == Subscribed(c, Writable(c)) IN Phased(d) /\ d.state = "subscribed"
  BY SubscribedPhased, FreeWritable DEF Good
<1>3. Phased(c) BY FreePhased DEF Established
<1>4. LET d == Close(c) IN Phased(d) /\ d.state \in {"authorized", "closing"}
  BY <1>3, ClosePhased
<1>. QED BY <1>1, <1>2, <1>3, <1>4 DEF SubMessages

\* How many observables have still to emit is no matter of a connection.
LEMMA MakingPhased ==
  ASSUME NEW c, Good(c), Phased(c), NEW n
  PROVE  \A d \in {[c EXCEPT !.makingAuth = n], [c EXCEPT !.makingSub = n]} :
           Phased(d) /\ d.state = c.state
<1> TAKE d \in {[c EXCEPT !.makingAuth = n], [c EXCEPT !.makingSub = n]}
<1>1. d.state = c.state /\ d.socket = c.socket /\ d.ws = c.ws /\ d.waits = c.waits
  BY DEF Good, Typed, Controllers
<1>. QED BY <1>1, WaitsPhased

\* _authorized, with the _subscribe that it calls.
LEMMA AuthorizedPhased ==
  ASSUME NEW c, Good(c), Free(c), NEW on \in Nat, on <= Len(c.ws), NEW makes
  PROVE  LET d == Authorized(c, on, makes)
         IN  Phased(d) /\ d.state \in {"authorized", "subscribed", "closing"}
<1> DEFINE x == [c.ws[on] EXCEPT !.authorized = TRUE]
           marked == IF on = 0 THEN c ELSE [c EXCEPT !.ws = [c.ws EXCEPT ![on] = x]]
           set == SetState(marked, "authorized")
           sent == SendBuffered(set, "auth")
<1>1. on # 0 => /\ x \in Sockets
                /\ x.ready = c.ws[on].ready /\ x.closedManually = c.ws[on].closedManually
                /\ x.timers = c.ws[on].timers /\ x.reopens = c.ws[on].reopens
  <2>1. SUFFICES ASSUME on # 0 PROVE on \in DOMAIN c.ws /\ c.ws[on] \in Sockets
    BY DEF Sockets
  <2>2. c.ws \in Seq(Sockets) /\ Len(c.ws) \in Nat /\ DOMAIN c.ws = 1..Len(c.ws)
    BY DEF Good, Typed, Controllers
  <2>. QED BY <2>1, <2>2
<1>2. Authorized(c, on, makes) = Subscribe(sent, makes) BY DEF Authorized
<1> HIDE DEF x
<1>3. Still(c, set) /\ set.state = "authorized" /\ Good(set) BY <1>1, MarkStill
<1> HIDE DEF set
<1>4. Still(set, sent) /\ sent.state = set.state /\ Good(sent)
  BY <1>3, SendBufferedStill DEF MessageRequirements
<1> HIDE DEF sent
<1>5. Still(c, sent) BY <1>3, <1>4, StillTransitive
<1>6. Free(sent) BY <1>5, StillFree DEF Good
<1>7. LET d == Subscribed(sent, Writable(sent)) IN Phased(d) /\ d.state = "subscribed"
  BY <1>4, <1>6, SubscribedPhased, FreeWritable DEF Good
<1>8. LET d == SubMessages(sent, makes.sub)
      IN  Phased(d) /\ d.state \in {"authorized", "subscribed", "closing"}
  BY <1>3, <1>4, <1>6, SubMessagesPhased
<1>9. LET d == [sent EXCEPT !.makingSub = sent.makingSub + 1]
      IN  Phased(d) /\ d.state = "authorized"
  BY <1>3, <1>4, <1>6, MakingPhased, FreePhased DEF Established
<1>. QED BY <1>2, <1>7, <1>8, <1>9 DEF Subscribe

\* The subscriber of createRequest(), which has come within the call.
LEMMA AuthMessagePhased ==
  ASSUME NEW c, Good(c), Free(c), c.state = "opened", NEW made, NEW makes
  PROVE  LET d == AuthMessage(c, made, makes)
         IN  Phased(d) /\ d.state \in {"opened", "authorized", "subscribed", "closing"}
<1> DEFINE sent == SendDirect(c, {0}, "authorize")
<1>1. LET d == RequestDirect(c, 1, "authorize") IN Phased(d) /\ d.state = "opened"
  BY RequestDirectPhased DEF Established
<1>2. LET d == Authorized(sent, Writable(c), makes)
      IN  Phased(d) /\ d.state \in {"authorized", "subscribed", "closing"}
  <2>1. Still(c, sent) BY SendDirectStill DEF Good, Typed
  <2>2. Kept(c, sent) BY SendDirectKeeps
  <2>3. Free(sent) BY <2>1, StillFree DEF Good
  <2>4. Writable(c) \in Nat /\ Writable(c) <= Len(sent.ws)
    BY <2>2, WritableType DEF Good, Kept, Keeps
  <2> HIDE DEF sent
  <2>. QED BY <2>2, <2>3, <2>4, AuthorizedPhased DEF Kept
<1>3. Phased(c) BY FreePhased DEF Established
<1>4. LET d == Close(c) IN Phased(d) /\ d.state \in {"opened", "closing"}
  BY <1>3, ClosePhased
<1>. QED BY <1>1, <1>2, <1>3, <1>4 DEF AuthMessage

\* _opened, with all that it calls in the same task.
LEMMA OpenedPhased ==
  ASSUME NEW c, Good(c), Free(c), NEW makes
  PROVE  LET d == Opened(c, makes)
         IN  Phased(d) /\ d.state \in {"opened", "authorized", "subscribed", "closing"}
<1> DEFINE set == SetState(c, "opened")
           sent == SendBuffered(set, "any")
<1>1. Good(set) BY SetStateKeeps DEF States, Kept
<1>2. Still(c, set) /\ set.state = "opened" BY SetStateStill DEF Good, Typed
<1>3. Opened(c, makes) = Authorize(sent, makes) BY DEF Opened
<1> HIDE DEF set
<1>4. Still(set, sent) /\ sent.state = set.state /\ Good(sent)
  BY <1>1, SendBufferedStill DEF MessageRequirements
<1> HIDE DEF sent
<1>5. Still(c, sent) BY <1>2, <1>4, StillTransitive
<1>6. Free(sent) BY <1>5, StillFree DEF Good
<1>7. LET d == Authorized(sent, Writable(sent), makes)
      IN  Phased(d) /\ d.state \in {"authorized", "subscribed", "closing"}
  BY <1>4, <1>6, AuthorizedPhased, FreeWritable DEF Good
<1>8. LET d == AuthMessage(sent, makes.auth, makes)
      IN  Phased(d) /\ d.state \in {"opened", "authorized", "subscribed", "closing"}
  BY <1>2, <1>4, <1>6, AuthMessagePhased
<1>9. LET d == [sent EXCEPT !.makingAuth = sent.makingAuth + 1]
      IN  Phased(d) /\ d.state = "opened"
  BY <1>2, <1>4, <1>6, MakingPhased, FreePhased DEF Established
<1>. QED BY <1>3, <1>7, <1>8, <1>9 DEF Authorize
-------------------------------------------------------------------------------
\* A new connection has asked for nothing, and there is no other.
LEMMA OpenPhased ==
  ASSUME NEW c, Typed(c), Phased(c), c.state = "closed" => \A s \in DOMAIN c.ws : ~IsLive(c, s),
         NEW auto, NEW constructs
  PROVE  LET d == Open(c, auto, constructs)
         IN  Phased(d) /\ d.state = IF c.state = "closed" THEN "pending" ELSE c.state
<1> DEFINE new == [ready |-> "CONNECTING", closedManually |-> FALSE,
                   auto |-> auto, timers |-> 0, authorized |-> FALSE,
                   subscribed |-> FALSE, reopens |-> 0]
           d == [c EXCEPT !.state = "pending", !.socket = Len(c.ws) + 1,
                          !.ws = Append(c.ws, new)]
<1>1. /\ c \in Controllers /\ c.ws \in Seq(Sockets) /\ Len(c.ws) \in Nat
      /\ DOMAIN c.ws = 1..Len(c.ws)
  BY DEF Typed, Controllers
<1>2. CASE c.state # "closed" BY <1>2 DEF Open
<1>3. CASE c.state = "closed"
  <2>1. \A t \in DOMAIN c.ws : ~Usable(c, t) BY <1>3 DEF Usable, IsLive
  <2>2. LET e == SetState(c, "pending") IN Phased(e) /\ e.state = "pending"
    <3>1. LET e == SetState(c, "pending") IN Still(c, e) /\ e.state = "pending"
      BY <1>1, SetStateStill
    <3>2. \A t \in DOMAIN SetState(c, "pending").ws : ~Usable(SetState(c, "pending"), t)
      BY <2>1, <3>1 DEF Still, Usable
    <3>. QED BY <3>1, <3>2, UnusedPhased
  <2>3. new.ready = "CONNECTING" OBVIOUS
  <2>4. /\ d.state = "pending" /\ d.socket = Len(c.ws) + 1 /\ d.ws = Append(c.ws, new)
        /\ d.waits = c.waits
    BY <1>1 DEF Controllers
  <2>5. Open(c, auto, constructs) \in {SetState(c, "pending"), d} BY <1>3 DEF Open
  <2> HIDE DEF new, d
  <2>6. /\ DOMAIN d.ws = 1..(Len(c.ws) + 1) /\ d.ws[Len(c.ws) + 1] = new
        /\ \A t \in DOMAIN c.ws : d.ws[t] = c.ws[t]
    BY <1>1, <2>4
  <2>7. \A t \in DOMAIN d.ws : t \in DOMAIN c.ws \/ t = Len(c.ws) + 1 BY <1>1, <2>6
  <2>8. Internal(d, Len(c.ws) + 1) = {}
    <3>1. \A w \in c.waits : w.on <= Len(c.ws) BY DEF Typed
    <3>2. \A w \in c.waits : w.on # Len(c.ws) + 1
      <4>1. \A w \in c.waits : w.on \in Nat BY <1>1 DEF Controllers, Waits
      <4>. QED BY <1>1, <3>1, <4>1
    <3>. QED BY <2>4, <3>2 DEF Internal
  <2>9. \A t \in DOMAIN d.ws : Usable(d, t) => t = Len(c.ws) + 1
    BY <2>1, <2>6, <2>7 DEF Usable
  <2>10. d.ws[Len(c.ws) + 1].ready # "OPEN" BY <2>3, <2>6
  <2>11. Phased(d) BY <2>4, <2>8, <2>9, <2>10 DEF Phased, Usable, Tells
  <2>. QED BY <1>3, <2>2, <2>4, <2>5, <2>11
<1>. QED BY <1>2, <1>3

\* A reopen timer is no connection.
LEMMA ReopenPhased ==
  ASSUME NEW c, Good(c), Phased(c), NEW s \in DOMAIN c.ws
  PROVE  LET d == Reopen(c, s)
         IN  Phased(d) /\ (d.state = c.state \/ (d.state = "closing" /\ c.state # "closed"))
<1> DEFINE closed == Close(c)
           d == StartTimer(closed, s)
<1>1. /\ Phased(closed)
      /\ closed.state = c.state \/ (closed.state = "closing" /\ c.state # "closed")
  BY ClosePhased
<1>2. closed \in Controllers /\ s \in DOMAIN closed.ws
  BY CloseKeeps DEF Kept, Keeps, Good, Typed
<1>3. Reopen(c, s) \in {closed, d} BY DEF Reopen
<1> HIDE DEF closed
<1>4. Still(closed, d) /\ d.state = closed.state
  BY <1>2, StartTimerEffect DEF Still
<1> HIDE DEF d
<1>5. Phased(d) BY <1>1, <1>4, StillPhased
<1>. QED BY <1>1, <1>3, <1>4, <1>5

\* _closed ends in closed, unless its subscriber opens the next connection.
LEMMA ClosedPhased ==
  ASSUME NEW c, AllClosed(c), NEW opens \in BOOLEAN
  PROVE  LET d == Closed(c, opens)
         IN  Phased(d) /\ d.state = IF opens THEN "pending" ELSE "closed"
<1> DEFINE closed == SetState(c, "closed")
           settled == [closed EXCEPT !.closedManually = {}]
<1>1. c \in Controllers BY DEF AllClosed, Typed
<1>2. settled \in Controllers BY <1>1 DEF SetState, Controllers, States
<1>3. /\ settled.state = "closed" /\ settled.socket = c.socket /\ settled.ws = c.ws
      /\ settled.waits = c.waits
  BY <1>1 DEF SetState, Controllers
<1>4. Closed(c, opens) = IF opens THEN Open(settled, TRUE, TRUE) ELSE settled
  BY <1>1 DEF Closed, Open, SetState, Controllers
<1> HIDE DEF settled
<1>5. Typed(settled) BY <1>2, <1>3 DEF AllClosed, Typed
<1>6. \A s \in DOMAIN settled.ws : ~IsLive(settled, s) BY <1>3 DEF AllClosed, IsLive
<1>7. Phased(settled) BY <1>6, UnusedPhased DEF Usable, IsLive
<1>8. LET d == Open(settled, TRUE, TRUE) IN Phased(d) /\ d.state = "pending"
  BY <1>3, <1>5, <1>6, <1>7, OpenPhased
<1>. QED BY <1>3, <1>4, <1>7, <1>8

\* onclose ends in closed, unless a subscriber of closed$ opens the next connection, which
\* _reopen may close again.
LEMMA OnClosePhased ==
  ASSUME NEW c, AllClosed(c), NEW s \in DOMAIN c.ws, NEW opens \in BOOLEAN
  PROVE  LET d == OnClose(c, s, opens)
         IN  /\ Phased(d)
             /\ d.state \in IF opens THEN {"pending", "closing"} ELSE {"closed"}
<1> DEFINE d == Closed(c, opens)
<1>1. Phased(d) /\ d.state = IF opens THEN "pending" ELSE "closed" BY ClosedPhased
<1>2. Good(d) /\ s \in DOMAIN d.ws BY ClosedGood
<1>3. OnClose(c, s, opens) \in {d, Reopen(d, s)} BY DEF OnClose
<1> HIDE DEF d
<1>4. LET e == Reopen(d, s)
      IN  Phased(e) /\ (e.state = d.state \/ (e.state = "closing" /\ d.state # "closed"))
  BY <1>1, <1>2, ReopenPhased
<1>. QED BY <1>1, <1>3, <1>4

\* send() touches no connection.
LEMMA SendStill ==
  ASSUME NEW c, Good(c), NEW id \in Nat, NEW call \in Calls
  PROVE  LET d == Send(c, id, call) IN Still(c, d) /\ d.state = c.state
<1> DEFINE d == [c EXCEPT !.buffers = Add(c.buffers, Need(call), id, Size, Overflow)]
           direct == SendDirect(c, {id}, Need(call))
<1>1. c \in Controllers BY DEF Good, Typed
<1>2. d.state = c.state /\ d.socket = c.socket /\ d.ws = c.ws /\ d.waits = c.waits
  BY <1>1 DEF Controllers
<1>3. Still(c, direct) /\ direct.state = c.state BY <1>1, SendDirectStill
<1>4. Send(c, id, call) \in {c, d, direct} BY DEF Send
<1> HIDE DEF d, direct
<1>5. Still(c, d) BY <1>2 DEF Still
<1>. QED BY <1>2, <1>3, <1>4, <1>5, StillItself
-------------------------------------------------------------------------------
\* The steps of the life cycle.

\* The state stays, or passes to one that may follow.
Passes == [Lifecycle!Next]_(ctl.state)

\* Which steps these are.
LEMMA Transitions ==
  ASSUME ctl.state \in States
  PROVE  /\ ctl'.state = ctl.state => Passes
         /\ ctl.state = "closed" /\ ctl'.state = "pending" => Passes
         /\ ctl.state # "closed" /\ ctl'.state \in {"closing", "closed"} => Passes
         /\ ctl.state # "closed" /\ ctl'.state = "pending" /\ TRUE \in OpensOnClosed => Passes
         /\ ctl.state = "pending" /\ ctl'.state \in {"opened", "authorized", "subscribed"}
              => Passes
         /\ ctl.state = "opened" /\ ctl'.state \in {"authorized", "subscribed"} => Passes
         /\ ctl.state = "authorized" /\ ctl'.state = "subscribed" => Passes
         /\ EmitsLate /\ ctl.state \in Established
              /\ ctl'.state \in {"authorized", "subscribed"} => Passes
BY DEF EmitsLate, Established, Passes, States, Lifecycle!Next, Lifecycle!Connect, Lifecycle!Progress,
       Lifecycle!After, Lifecycle!StartClosing, Lifecycle!Finish, Lifecycle!Reopen,
       Lifecycle!Up

\* What each step has to show.
PhasedStep == Phased(ctl') /\ Passes

\* Before and after every step, the types of the controller and its states.
LEMMA SteadyTyped ==
  ASSUME Steady
  PROVE  Good(ctl) /\ ctl \in Controllers /\ ctl.state \in States
BY DEF Steady, IInv, Good, Typed, Controllers

\* Replacing one socket leaves the rest of the record alone.
LEMMA SocketChange ==
  ASSUME NEW c \in Controllers, NEW s \in DOMAIN c.ws, NEW x
  PROVE  LET d == [c EXCEPT !.ws = [c.ws EXCEPT ![s] = x]]
         IN  /\ d.state = c.state /\ d.socket = c.socket /\ d.waits = c.waits
             /\ DOMAIN d.ws = DOMAIN c.ws /\ d.ws[s] = x
             /\ \A t \in DOMAIN c.ws : t # s => d.ws[t] = c.ws[t]
<1> DEFINE d == [c EXCEPT !.ws = [c.ws EXCEPT ![s] = x]]
<1>1. /\ d.state = c.state /\ d.socket = c.socket /\ d.waits = c.waits
      /\ d.ws = [c.ws EXCEPT ![s] = x]
  BY DEF Controllers
<1> HIDE DEF d
<1>2. c.ws \in Seq(Sockets) BY DEF Controllers
<1>3. /\ DOMAIN d.ws = DOMAIN c.ws /\ d.ws[s] = x
      /\ \A t \in DOMAIN c.ws : t # s => d.ws[t] = c.ws[t]
  BY <1>1, <1>2
<1>. QED BY <1>1, <1>3 DEF d

\* A step that ends with close().
LEMMA ClosePasses ==
  ASSUME Steady, NEW c, Good(c), Phased(c), c.state = ctl.state, ctl' = Close(c)
  PROVE  PhasedStep
BY ClosePhased, SteadyTyped, Transitions DEF PhasedStep

\* open() called by the user of the controller.
LEMMA UserOpenPhased ==
  ASSUME Steady, Phased(ctl), NEW auto, NEW constructs, UserOpen(auto, constructs)
  PROVE  PhasedStep
<1>1. ctl' = Open(ctl, auto, constructs) BY DEF UserOpen
<1>2. ctl.state = "closed" => \A s \in DOMAIN ctl.ws : ~IsLive(ctl, s)
  BY DEF Steady, IInv, Good, Connection
<1>3. Phased(ctl') /\ ctl'.state = IF ctl.state = "closed" THEN "pending" ELSE ctl.state
  BY <1>1, <1>2, SteadyTyped, OpenPhased DEF Good
<1>. QED BY <1>3, SteadyTyped, Transitions DEF PhasedStep

\* close() called by the user of the controller.
LEMMA UserClosePhased ==
  ASSUME Steady, Phased(ctl), UserClose
  PROVE  PhasedStep
BY ClosePasses, SteadyTyped DEF UserClose

\* send() and request(), whose wait is the caller's.
LEMMA UserCallPhased ==
  ASSUME Steady, Phased(ctl), NEW call \in Calls, UserCall(call)
  PROVE  PhasedStep
<1>0. Good(ctl) /\ ctl \in Controllers /\ ctl.state \in States BY SteadyTyped
<1>1. Phased(ctl') /\ ctl'.state = ctl.state
  <2>1. CASE call.op = "send"
    <3>1. ctl' = Send(ctl, 0, call) BY <2>1 DEF UserCall
    <3>2. LET d == Send(ctl, 0, call) IN Still(ctl, d) /\ d.state = ctl.state
      BY <1>0, SendStill
    <3>. QED BY <3>1, <3>2, StillPhased
  <2>2. CASE call.op # "send"
    <3> DEFINE id == ctl.reqCounter
               wait == [for |-> "user", ids |-> {id}, on |-> 0, ok |-> TRUE]
               b == [ctl EXCEPT !.reqCounter = ctl.reqCounter + 1]
               sent == Send(b, id, call)
               d == [sent EXCEPT !.waits = sent.waits \cup {wait}]
    <3>1. id \in Nat /\ id + 1 \in Nat BY <1>0 DEF Controllers
    <3>2. b \in Controllers BY <1>0, <3>1 DEF Controllers
    <3>3. /\ b.state = ctl.state /\ b.socket = ctl.socket /\ b.ws = ctl.ws
          /\ b.waits = ctl.waits /\ b.closedManually = ctl.closedManually
      BY <1>0 DEF Controllers
    <3>4. Good(b) BY <1>0, <3>2, <3>3, OtherFields DEF Good, Typed, Kept
    <3>5. ctl' = d BY <2>2 DEF UserCall
    <3> HIDE DEF b
    <3>6. Still(ctl, b) BY <3>3 DEF Still
    <3>7. Still(b, sent) /\ sent.state = b.state BY <3>1, <3>4, SendStill
    <3>8. sent \in Controllers BY <3>1, <3>4, SendKeeps DEF Kept, Good, Typed
    <3> HIDE DEF sent
    <3>9. Still(ctl, sent) /\ sent.state = ctl.state
      BY <3>3, <3>6, <3>7, StillTransitive
    <3>10. Phased(sent) BY <3>9, StillPhased
    <3>11. /\ d.state = sent.state /\ d.socket = sent.socket /\ d.ws = sent.ws
           /\ d.waits = sent.waits \cup {wait}
      BY <3>8 DEF Controllers
    <3>12. wait.for = "user" OBVIOUS
    <3> HIDE DEF d, wait
    <3>13. Phased(d) BY <3>10, <3>11, <3>12, WaitsPhased
    <3>. QED BY <3>5, <3>9, <3>11, <3>13
  <2>. QED BY <2>1, <2>2
<1>. QED BY <1>0, <1>1, Transitions DEF PhasedStep

\* The open event of a connection that asked for nothing yet.
LEMMA BrowserOpensPhased ==
  ASSUME Steady, Phased(ctl), NEW s \in DOMAIN ctl.ws, NEW makes, BrowserOpens(s, makes)
  PROVE  PhasedStep
<1> DEFINE x == [ctl.ws[s] EXCEPT !.ready = "OPEN"]
           open == [ctl EXCEPT !.ws = [ctl.ws EXCEPT ![s] = x]]
<1>1. /\ Good(ctl) /\ ctl \in Controllers /\ ctl.state \in States
      /\ ctl.ws[s] \in Sockets /\ ctl.ws[s].ready = "CONNECTING" /\ s # 0
  <2>1. Good(ctl) /\ ctl \in Controllers /\ ctl.state \in States BY SteadyTyped
  <2>2. ctl.ws \in Seq(Sockets) BY <2>1 DEF Controllers
  <2>. QED BY <2>1, <2>2 DEF BrowserOpens
<1>2. /\ ctl.state = "pending" /\ ctl.socket = s
      /\ EmitsLate \/ Internal(ctl, s) = {}
      /\ \A t \in DOMAIN ctl.ws : Usable(ctl, t) => t = s
  BY <1>1 DEF Phased, Usable, Tells
<1>3. x.ready = "OPEN" BY <1>1 DEF Sockets
<1>4. Good(open) BY <1>1, ReadyKeeps DEF Kept
<1>5. open.socket # 0 => ctl' = Opened(open, makes) BY DEF BrowserOpens
<1> HIDE DEF x
<1>6. /\ open.state = ctl.state /\ open.socket = ctl.socket /\ open.waits = ctl.waits
      /\ DOMAIN open.ws = DOMAIN ctl.ws /\ open.ws[s] = x
      /\ \A t \in DOMAIN ctl.ws : t # s => open.ws[t] = ctl.ws[t]
  BY <1>1, SocketChange
<1> HIDE DEF open
<1>7. Free(open)
  <2>1. \A t \in DOMAIN open.ws : Usable(open, t) => t = s BY <1>2, <1>6 DEF Usable
  <2>2. EmitsLate \/ Internal(open, s) = {} BY <1>2, <1>6 DEF Internal
  <2>. QED BY <1>1, <1>2, <1>3, <1>6, <2>1, <2>2 DEF Free
<1>8. ctl' = Opened(open, makes) BY <1>1, <1>2, <1>5, <1>6
<1>9. /\ Phased(ctl')
      /\ ctl'.state \in {"opened", "authorized", "subscribed", "closing"}
  BY <1>4, <1>7, <1>8, OpenedPhased
<1>. QED BY <1>1, <1>2, <1>9, Transitions DEF PhasedStep

\* A connection that is at its end is of no more use.
LEMMA ServerStartsClosingPhased ==
  ASSUME Steady, Phased(ctl), NEW s \in DOMAIN ctl.ws, ServerStartsClosing(s)
  PROVE  PhasedStep
<1> DEFINE x == [ctl.ws[s] EXCEPT !.ready = "CLOSING"]
<1>1. Good(ctl) /\ ctl \in Controllers /\ ctl.state \in States BY SteadyTyped
<1>2. ctl.ws[s] \in Sockets
  <2>1. ctl.ws \in Seq(Sockets) BY <1>1 DEF Controllers
  <2>. QED BY <2>1
<1>3. x.ready = "CLOSING" BY <1>2 DEF Sockets
<1>4. ctl' = [ctl EXCEPT !.ws = [ctl.ws EXCEPT ![s] = x]] /\ ctl.ws[s].ready = "OPEN"
  BY DEF ServerStartsClosing
<1> HIDE DEF x
<1>5. /\ ctl'.state = ctl.state /\ DOMAIN ctl'.ws = DOMAIN ctl.ws /\ ctl'.ws[s] = x
      /\ \A t \in DOMAIN ctl.ws : t # s => ctl'.ws[t] = ctl.ws[t]
  BY <1>1, <1>4, SocketChange
<1>6. \A t \in DOMAIN ctl.ws : Usable(ctl, t) => t = s BY <1>4 DEF Phased, Usable
<1>7. \A t \in DOMAIN ctl'.ws : ~Usable(ctl', t) BY <1>3, <1>5, <1>6 DEF Usable
<1>8. Phased(ctl') BY <1>7, UnusedPhased
<1>. QED BY <1>1, <1>5, <1>8, Transitions DEF PhasedStep

\* A controller that lost its connection is closed, or has the next one already.
LEMMA BrowserClosesPhased ==
  ASSUME Steady, Phased(ctl), NEW s \in DOMAIN ctl.ws, NEW failed \in BOOLEAN,
         NEW opens \in BOOLEAN, opens \in OpensOnClosed, BrowserCloses(s, failed, opens)
  PROVE  PhasedStep
<1> DEFINE x == [ctl.ws[s] EXCEPT !.ready = "CLOSED"]
           gone == [ctl EXCEPT !.ws = [ctl.ws EXCEPT ![s] = x],
                               !.asked = {r \in ctl.asked : r.on # s}]
           told == IF failed THEN OnError(gone, s) ELSE gone
<1>1. /\ ctl \in Controllers /\ ctl.ws \in Seq(Sockets) /\ ctl.ws[s] \in Sockets
      /\ IsLive(ctl, s) /\ ctl.state \in States
  <2>1. ctl \in Controllers /\ ctl.state \in States BY SteadyTyped
  <2>2. ctl.ws \in Seq(Sockets) /\ ctl.ws[s] \in Sockets BY <2>1 DEF Controllers
  <2>3. IsLive(ctl, s) BY <2>2 DEF BrowserCloses, IsLive
  <2>. QED BY <2>1, <2>2, <2>3
<1>2. /\ x \in Sockets /\ x.ready = "CLOSED" /\ x.reopens = ctl.ws[s].reopens
      /\ x.closedManually = ctl.ws[s].closedManually
  BY <1>1 DEF Sockets
<1>3. ctl' = OnClose(told, s, opens) BY DEF BrowserCloses
<1> HIDE DEF x
<1>4. gone \in Controllers BY <1>1, <1>2, SocketUpdate DEF Controllers
<1>5. /\ gone.socket = ctl.socket /\ gone.waits = ctl.waits
      /\ gone.ws = [ctl.ws EXCEPT ![s] = x]
  BY <1>1 DEF Controllers
<1> HIDE DEF gone
<1>6. /\ Len(gone.ws) = Len(ctl.ws) /\ DOMAIN gone.ws = DOMAIN ctl.ws
      /\ gone.ws[s] = x /\ \A t \in DOMAIN ctl.ws : t # s => gone.ws[t] = ctl.ws[t]
  BY <1>1, <1>2, <1>5, SocketUpdate
<1>7. ctl.state # "closed" /\ \A t \in DOMAIN ctl.ws : t # s => ~IsLive(ctl, t)
  BY <1>1 DEF Steady, IInv, Good, Connection
<1>8. AllClosed(gone)
  BY <1>2, <1>4, <1>5, <1>6, <1>7
  DEF AllClosed, Steady, IInv, Good, Typed, Connection, IsLive
<1>9. ~gone.ws[s].closedManually => gone.socket = s /\ gone.ws[s].reopens = 0
  BY <1>1, <1>2, <1>5, <1>6 DEF Steady, IInv, Good, Connection
<1>10. AllClosed(told) /\ s \in DOMAIN told.ws
  <2>1. CASE failed BY <1>6, <1>8, <1>9, <2>1, OnErrorAllClosed
  <2>2. CASE ~failed BY <1>6, <1>8, <2>2
  <2>. QED BY <2>1, <2>2
<1> HIDE DEF told
<1>11. /\ Phased(ctl')
       /\ ctl'.state \in IF opens THEN {"pending", "closing"} ELSE {"closed"}
  BY <1>3, <1>10, OnClosePhased
<1>. QED BY <1>1, <1>7, <1>11, Transitions DEF PhasedStep

\* What an answer on an established connection ends was all that it asked for.
LEMMA AnswerFrees ==
  ASSUME NEW c, Phased(c), NEW w \in c.waits, w.for # "user", w.on # 0,
         w.on \in DOMAIN c.ws, c.ws[w.on].ready = "OPEN",
         NEW d, d.socket = c.socket, d.ws = c.ws, d.waits = c.waits \ {w}
  PROVE  /\ Free(d) /\ d.socket = w.on /\ c.state \in Established
         /\ EmitsLate \/ c.state = IF w.for = "authorize" THEN "opened" ELSE "authorized"
<1>1. w \in Internal(c, w.on) BY DEF Internal
<1>2. /\ c.socket = w.on /\ c.state \in Established
      /\ \/ EmitsLate
         \/ /\ Internal(c, w.on) = {w}
            /\ c.state = IF w.for = "authorize" THEN "opened" ELSE "authorized"
  BY <1>1 DEF Phased, Usable, Tells
<1>3. EmitsLate \/ Internal(d, w.on) = {} BY <1>2 DEF Internal
<1>4. \A s \in DOMAIN d.ws : Usable(d, s) => s = d.socket BY DEF Phased, Usable
<1>. QED BY <1>2, <1>3, <1>4 DEF Free

\* The subscriber of an authorization answer goes on, or closes.
LEMMA AuthAnsweredPhased ==
  ASSUME NEW c, Good(c), Phased(c), NEW w \in c.waits, w.for = "authorize", w.on # 0,
         w.on \in DOMAIN c.ws, c.ws[w.on].ready = "OPEN",
         NEW outcome, NEW makes
  PROVE  LET d == AuthAnswered(c, w, outcome, makes)
         IN  /\ c.state \in Established /\ (EmitsLate \/ c.state = "opened") /\ Phased(d)
             /\ d.state \in {c.state, "authorized", "subscribed", "closing"}
<1> DEFINE without == [c EXCEPT !.waits = c.waits \ {w}]
           errored == [without EXCEPT !.authorizedErrored = TRUE]
<1>1. c \in Controllers /\ w \in Waits /\ w.on <= Len(c.ws) BY DEF Good, Typed, Controllers
<1>2. without \in Controllers /\ errored \in Controllers BY <1>1 DEF Controllers
<1>3. /\ without.state = c.state /\ without.socket = c.socket /\ without.ws = c.ws
      /\ without.closedManually = c.closedManually /\ without.waits = c.waits \ {w}
      /\ errored.state = c.state /\ errored.socket = c.socket /\ errored.ws = c.ws
      /\ errored.closedManually = c.closedManually /\ errored.waits = c.waits \ {w}
  BY <1>1 DEF Controllers
<1>4. AuthAnswered(c, w, outcome, makes) \in {Authorized(without, w.on, makes), Close(errored)}
  BY DEF AuthAnswered
<1> HIDE DEF without, errored
<1>5. Good(without) /\ Good(errored) BY <1>2, <1>3, WaitDone DEF Kept
<1>6. /\ Free(without) /\ Free(errored) /\ c.state \in Established
      /\ EmitsLate \/ c.state = "opened"
  BY <1>3, AnswerFrees
<1>7. w.on \in Nat /\ w.on <= Len(without.ws) BY <1>1, <1>3 DEF Waits
<1>8. LET d == Authorized(without, w.on, makes)
      IN  Phased(d) /\ d.state \in {"authorized", "subscribed", "closing"}
  BY <1>5, <1>6, <1>7, AuthorizedPhased
<1>9. LET d == Close(errored) IN Phased(d) /\ d.state \in {c.state, "closing"}
  BY <1>3, <1>5, <1>6, FreePhased, ClosePhased
<1>. QED BY <1>4, <1>6, <1>8, <1>9

\* The subscriber of the answers to the subscription waits for the rest, goes on, or closes.
LEMMA SubAnsweredPhased ==
  ASSUME NEW c, Good(c), Phased(c), NEW w \in c.waits, w.for = "subscribe", w.on # 0,
         w.on \in DOMAIN c.ws, c.ws[w.on].ready = "OPEN", NEW id, NEW outcome
  PROVE  LET d == SubAnswered(c, w, id, outcome)
         IN  /\ c.state \in Established /\ (EmitsLate \/ c.state = "authorized") /\ Phased(d)
             /\ d.state \in {c.state, "subscribed", "closing"}
<1> DEFINE rest == [w EXCEPT !.ids = w.ids \ {id}, !.ok = w.ok /\ outcome = "ok"]
           without == [c EXCEPT !.waits = c.waits \ {w}]
           errored == [without EXCEPT !.subscribedErrored = TRUE]
           again == [without EXCEPT !.waits = without.waits \cup {rest}]
<1>1. c \in Controllers /\ w \in Waits /\ w.on <= Len(c.ws)
  BY DEF Good, Typed, Controllers
<1>2. rest.on = w.on /\ rest.for = "subscribe" BY <1>1 DEF Waits
<1>3. SubAnswered(c, w, id, outcome)
        \in {Close(errored), again, Subscribed(without, w.on), without}
  BY DEF SubAnswered
<1> HIDE DEF rest
<1>4. without \in Controllers /\ errored \in Controllers BY <1>1 DEF Controllers
<1>5. /\ without.state = c.state /\ without.socket = c.socket /\ without.ws = c.ws
      /\ without.closedManually = c.closedManually /\ without.waits = c.waits \ {w}
      /\ errored.state = c.state /\ errored.socket = c.socket /\ errored.ws = c.ws
      /\ errored.closedManually = c.closedManually /\ errored.waits = c.waits \ {w}
  BY <1>1 DEF Controllers
<1>6. /\ again.state = without.state /\ again.socket = without.socket
      /\ again.ws = without.ws /\ again.waits = without.waits \cup {rest}
  BY <1>4 DEF Controllers
<1> HIDE DEF without, errored, again
<1>7. Good(without) /\ Good(errored) BY <1>4, <1>5, WaitDone DEF Kept
<1>8. /\ Free(without) /\ Free(errored) /\ without.socket = w.on
      /\ c.state \in Established /\ (EmitsLate \/ c.state = "authorized")
  BY <1>5, AnswerFrees
<1>9. Phased(without) BY <1>5, <1>8, FreePhased
<1>10. Phased(again) BY <1>2, <1>5, <1>6, <1>8, AskedPhased
<1>11. LET d == Subscribed(without, w.on) IN Phased(d) /\ d.state = "subscribed"
  <2>1. w.on \in Nat /\ w.on <= Len(without.ws) BY <1>1, <1>5 DEF Waits
  <2>. QED BY <1>7, <1>8, <2>1, SubscribedPhased
<1>12. LET d == Close(errored) IN Phased(d) /\ d.state \in {c.state, "closing"}
  BY <1>5, <1>7, <1>8, FreePhased, ClosePhased
<1>. QED BY <1>3, <1>5, <1>6, <1>8, <1>9, <1>10, <1>11, <1>12

\* An answer advances the connection that it comes on, or ends it.
LEMMA ServerAnswersPhased ==
  ASSUME Steady, FInv, Phased(ctl), NEW r \in ctl.asked, NEW outcome, NEW makes,
         ServerAnswers(r, outcome, makes)
  PROVE  PhasedStep
<1> DEFINE c == [ctl EXCEPT !.asked = ctl.asked \ {r}]
           without(w) == [c EXCEPT !.waits = c.waits \ {w}]
<1>1. /\ Fit(ctl) /\ ctl \in Controllers /\ ctl.ws[r.on].ready = "OPEN"
      /\ ctl.state \in States
  BY SteadyTyped DEF FInv, Fit, ServerAnswers
<1>2. c \in Controllers BY <1>1 DEF Controllers
<1>3. /\ c.state = ctl.state /\ c.socket = ctl.socket /\ c.ws = ctl.ws
      /\ c.closedManually = ctl.closedManually /\ c.waits = ctl.waits
  BY <1>1 DEF Controllers
<1>4. \/ ctl' = c
      \/ \E w \in c.waits :
           /\ r.id \in w.ids
           /\ ctl' = CASE w.for = "user" -> without(w)
                       [] w.for = "authorize" -> AuthAnswered(c, w, outcome, makes)
                       [] w.for = "subscribe" -> SubAnswered(c, w, r.id, outcome)
  BY DEF ServerAnswers
<1> HIDE DEF c
<1>5. Good(c) BY <1>1, <1>2, <1>3, WaitDone DEF Kept, Fit
<1>6. Phased(c) BY <1>3, WaitsPhased
<1>7. ASSUME NEW w \in c.waits, r.id \in w.ids,
             ctl' = CASE w.for = "user" -> without(w)
                      [] w.for = "authorize" -> AuthAnswered(c, w, outcome, makes)
                      [] w.for = "subscribe" -> SubAnswered(c, w, r.id, outcome)
      PROVE  PhasedStep
  <2>1. w.for \in {"user", "authorize", "subscribe"} BY <1>2 DEF Controllers, Waits
  <2>2. CASE w.for = "user"
    <3>1. /\ without(w).state = c.state /\ without(w).socket = c.socket
          /\ without(w).ws = c.ws /\ without(w).waits = c.waits \ {w}
      BY <1>2 DEF Controllers
    <3>2. Phased(without(w)) BY <1>6, <3>1, WaitsPhased
    <3>3. ctl' = without(w) BY <1>7, <2>2
    <3>. QED BY <1>1, <1>3, <3>1, <3>2, <3>3, Transitions DEF PhasedStep
  <2>3. CASE w.for # "user"
    <3>1. w.on = r.on /\ w.on # 0 BY <1>1, <1>3, <1>7, <2>3, AnswerComesBack
    <3>2. r.on \in DOMAIN c.ws /\ c.ws[r.on].ready = "OPEN"
      BY <1>1, <1>3 DEF Fit, Requests, Fits
    <3>3. CASE w.for = "authorize"
      <4>1. ctl' = AuthAnswered(c, w, outcome, makes) BY <1>7, <3>3
      <4>2. /\ c.state \in Established /\ (EmitsLate \/ c.state = "opened") /\ Phased(ctl')
            /\ ctl'.state \in {c.state, "authorized", "subscribed", "closing"}
        BY <1>5, <1>6, <3>1, <3>2, <3>3, <4>1, AuthAnsweredPhased
      <4>3. ctl.state # "closed" BY <1>3, <4>2 DEF Established
      <4>. QED BY <1>1, <1>3, <4>2, <4>3, Transitions DEF PhasedStep
    <3>4. CASE w.for = "subscribe"
      <4>1. ctl' = SubAnswered(c, w, r.id, outcome) BY <1>7, <3>4
      <4>2. /\ c.state \in Established /\ (EmitsLate \/ c.state = "authorized")
            /\ Phased(ctl') /\ ctl'.state \in {c.state, "subscribed", "closing"}
        BY <1>5, <1>6, <3>1, <3>2, <3>4, <4>1, SubAnsweredPhased
      <4>3. ctl.state # "closed" BY <1>3, <4>2 DEF Established
      <4>. QED BY <1>1, <1>3, <4>2, <4>3, Transitions DEF PhasedStep
    <3>. QED BY <2>1, <2>3, <3>3, <3>4
  <2>. QED BY <2>2, <2>3
<1>8. CASE ctl' = c BY <1>1, <1>3, <1>6, <1>8, Transitions DEF PhasedStep
<1>. QED BY <1>4, <1>7, <1>8

\* A wait for an answer that ends with an error.
LEMMA TimesOutPhased ==
  ASSUME Steady, Phased(ctl), NEW w \in ctl.waits, TimesOut(w)
  PROVE  PhasedStep
<1> DEFINE c == [ctl EXCEPT !.waits = ctl.waits \ {w}]
           a == [c EXCEPT !.authorizedErrored = TRUE]
           b == [c EXCEPT !.subscribedErrored = TRUE]
<1>1. Good(ctl) /\ ctl \in Controllers /\ ctl.state \in States BY SteadyTyped
<1>2. c \in Controllers /\ a \in Controllers /\ b \in Controllers BY <1>1 DEF Controllers
<1>3. \A d \in {a, b, c} :
        /\ d.state = ctl.state /\ d.socket = ctl.socket /\ d.ws = ctl.ws
        /\ d.closedManually = ctl.closedManually /\ d.waits \subseteq ctl.waits
  BY <1>1 DEF Controllers
<1>4. w.for \in {"user", "authorize", "subscribe"} BY <1>1 DEF Controllers, Waits
<1>5. ctl' \in {c, Close(a), Close(b)} BY <1>4 DEF TimesOut
<1> HIDE DEF a, b, c
<1>6. \A d \in {a, b, c} : Good(d) BY <1>1, <1>2, <1>3, WaitDone DEF Kept
<1>7. ASSUME NEW d \in {a, b, c} PROVE Phased(d)
  <2>1. /\ d.state = ctl.state /\ d.socket = ctl.socket /\ d.ws = ctl.ws
        /\ d.waits \subseteq ctl.waits
    BY <1>3
  <2>. QED BY <2>1, WaitsPhased
<1>8. CASE ctl' = c BY <1>1, <1>3, <1>7, <1>8, Transitions DEF PhasedStep
<1>9. CASE ctl' \in {Close(a), Close(b)} BY <1>3, <1>6, <1>7, <1>9, ClosePasses
<1>. QED BY <1>5, <1>8, <1>9

\* The reopen timer, which calls open() again.
LEMMA ReopenTimerFiresPhased ==
  ASSUME Steady, Phased(ctl), NEW s \in DOMAIN ctl.ws, NEW should, NEW constructs,
         ReopenTimerFires(s, should, constructs)
  PROVE  PhasedStep
<1> DEFINE x == [ctl.ws[s] EXCEPT !.timers = ctl.ws[s].timers - 1]
           c == [ctl EXCEPT !.ws = [ctl.ws EXCEPT ![s] = x]]
<1>1. /\ Good(ctl) /\ ctl \in Controllers /\ ctl.state \in States
      /\ ctl.ws \in Seq(Sockets) /\ ctl.ws[s] \in Sockets /\ ctl.ws[s].timers > 0
  <2>1. Good(ctl) /\ ctl \in Controllers /\ ctl.state \in States BY SteadyTyped
  <2>2. ctl.ws \in Seq(Sockets) BY <2>1 DEF Controllers
  <2>. QED BY <2>1, <2>2 DEF ReopenTimerFires
<1>2. ctl.ws[s].timers - 1 \in Nat BY <1>1 DEF Sockets
<1>3. x \in Sockets /\ x.ready = ctl.ws[s].ready BY <1>1, <1>2 DEF Sockets
<1>4. ctl' \in {c, Open(c, c.ws[s].auto, constructs)} BY DEF ReopenTimerFires
<1> HIDE DEF x
<1>5. c \in Controllers BY <1>1, <1>3, SocketUpdate DEF Controllers
<1>6. /\ c.state = ctl.state /\ c.socket = ctl.socket /\ c.waits = ctl.waits
      /\ DOMAIN c.ws = DOMAIN ctl.ws /\ c.ws[s] = x
      /\ \A t \in DOMAIN ctl.ws : t # s => c.ws[t] = ctl.ws[t]
  BY <1>1, SocketChange
<1>7. Len(c.ws) = Len(ctl.ws)
  <2>1. c.ws = [ctl.ws EXCEPT ![s] = x] BY <1>1 DEF Controllers
  <2>. QED BY <1>1, <1>3, <2>1, SocketUpdate
<1> HIDE DEF c
<1>8. Typed(c) BY <1>1, <1>5, <1>6, <1>7 DEF Good, Typed
<1>9. Still(ctl, c) BY <1>3, <1>6 DEF Still
<1>10. Phased(c) BY <1>6, <1>9, StillPhased
<1>11. c.state = "closed" => \A t \in DOMAIN c.ws : ~IsLive(c, t)
  BY <1>1, <1>6, <1>9 DEF Good, Connection, IsLive, Still
<1>12. \A auto : LET d == Open(c, auto, constructs)
                 IN  Phased(d) /\ d.state = IF c.state = "closed" THEN "pending" ELSE c.state
  BY <1>8, <1>10, <1>11, OpenPhased
<1>13. Phased(ctl')
       /\ ctl'.state \in {ctl.state, IF ctl.state = "closed" THEN "pending" ELSE ctl.state}
  BY <1>4, <1>6, <1>10, <1>12
<1>. QED BY <1>1, <1>13, Transitions DEF PhasedStep

\* createRequest() emits late: the request goes to whatever connection there is.
LEMMA AuthMessageMadePhased ==
  ASSUME AnsweredWhenLate, Steady, FInv, Phased(ctl), NEW made, NEW makes,
         AuthMessageMade(made, makes)
  PROVE  PhasedStep
<1> DEFINE c == [ctl EXCEPT !.makingAuth = ctl.makingAuth - 1]
<1>1. Fit(ctl) /\ Good(ctl) /\ ctl \in Controllers /\ ctl.state \in States
  BY SteadyTyped DEF FInv, Fit
<1>2. ctl.makingAuth > 0 /\ ctl.makingAuth - 1 \in Nat
  BY <1>1 DEF AuthMessageMade, Controllers
<1>3. "later" \in AuthMakes BY <1>1, <1>2 DEF Fit, Requests
<1>4. EmitsLate /\ AuthMode = "request" BY <1>3 DEF EmitsLate, AnsweredWhenLate
<1>5. ctl' = AuthMessage(c, made, makes) BY DEF AuthMessageMade
<1>6. Good(c) BY <1>1, <1>2, <1>3, MakingFit DEF Fit
<1>7. Phased(c) /\ c.state = ctl.state BY <1>1, MakingPhased
<1> HIDE DEF c
<1>8. ctl' \in {c, Close(c), RequestDirect(c, 1, "authorize")} BY <1>4, <1>5 DEF AuthMessage
<1>9. CASE ctl' = RequestDirect(c, 1, "authorize")
  BY <1>1, <1>4, <1>6, <1>7, <1>9, RequestDirectLate, Transitions DEF PhasedStep
<1>10. CASE ctl' = Close(c) BY <1>6, <1>7, <1>10, ClosePasses
<1>11. CASE ctl' = c BY <1>1, <1>7, <1>11, Transitions DEF PhasedStep
<1>. QED BY <1>8, <1>9, <1>10, <1>11

\* createRequests() emits late: the requests go to whatever connection there is.
LEMMA SubMessagesMadePhased ==
  ASSUME AnsweredWhenLate, Steady, FInv, Phased(ctl), NEW made, SubMessagesMade(made)
  PROVE  PhasedStep
<1> DEFINE c == [ctl EXCEPT !.makingSub = ctl.makingSub - 1]
<1>1. Fit(ctl) /\ Good(ctl) /\ ctl \in Controllers /\ ctl.state \in States
  BY SteadyTyped DEF FInv, Fit
<1>2. ctl.makingSub > 0 /\ ctl.makingSub - 1 \in Nat
  BY <1>1 DEF SubMessagesMade, Controllers
<1>3. LateSub BY <1>1, <1>2 DEF Fit, Requests
<1>4. EmitsLate /\ SubMode = "request" BY <1>3 DEF EmitsLate, LateSub, AnsweredWhenLate
<1>5. ctl' = SubMessages(c, made) BY DEF SubMessagesMade
<1>6. Good(c) BY <1>1, <1>2, <1>3, MakingFit DEF Fit
<1>7. Phased(c) /\ c.state = ctl.state BY <1>1, MakingPhased
<1> HIDE DEF c
<1>8. ctl' \in {c, Close(c), RequestDirect(c, SubCount, "subscribe")}
  BY <1>4, <1>5 DEF SubMessages
<1>9. CASE ctl' = RequestDirect(c, SubCount, "subscribe")
  BY <1>1, <1>4, <1>6, <1>7, <1>9, RequestDirectLate, Transitions, ControllerAssumption
  DEF PhasedStep
<1>10. CASE ctl' = Close(c) BY <1>6, <1>7, <1>10, ClosePasses
<1>11. CASE ctl' = c BY <1>1, <1>7, <1>11, Transitions DEF PhasedStep
<1>. QED BY <1>8, <1>9, <1>10, <1>11

\* Every step of the controller and of its environment is a step of the life cycle, or
\* none to it.
LEMMA StepPhased ==
  AnsweredWhenLate /\ Steady /\ FInv /\ Phased(ctl) /\ [Next]_vars => PhasedStep
<1> SUFFICES ASSUME AnsweredWhenLate, Steady, FInv, Phased(ctl), [Next]_vars
             PROVE  PhasedStep
  OBVIOUS
<1>0. OpensOnClosed \subseteq BOOLEAN BY ControllerAssumption
<1>1. CASE \E auto \in AutoReconnect, constructs \in Constructs : UserOpen(auto, constructs)
  BY <1>1, UserOpenPhased
<1>2. CASE UserClose BY <1>2, UserClosePhased
<1>3. CASE \E call \in Calls : UserCall(call) BY <1>3, UserCallPhased
<1>4. CASE \E s \in DOMAIN ctl.ws, makes \in MakesOf : BrowserOpens(s, makes)
  BY <1>4, BrowserOpensPhased
<1>5. CASE \E s \in DOMAIN ctl.ws : ServerStartsClosing(s)
  BY <1>5, ServerStartsClosingPhased
<1>6. CASE \E s \in DOMAIN ctl.ws, failed \in BOOLEAN, opens \in OpensOnClosed :
             BrowserCloses(s, failed, opens)
  <2>1. PICK s \in DOMAIN ctl.ws, failed \in BOOLEAN, opens \in OpensOnClosed :
          BrowserCloses(s, failed, opens)
    BY <1>6
  <2>2. opens \in BOOLEAN BY <1>0, Zenon
  <2>. QED BY <2>1, <2>2, BrowserClosesPhased
<1>7. CASE \E r \in ctl.asked, outcome \in Outcomes, makes \in MakesOf :
             ServerAnswers(r, outcome, makes)
  BY <1>7, ServerAnswersPhased
<1>8. CASE \E w \in ctl.waits : TimesOut(w) BY <1>8, TimesOutPhased
<1>9. CASE \/ \E made \in AuthMakes, makes \in MakesOf : AuthMessageMade(made, makes)
           \/ \E made \in SubMakes : SubMessagesMade(made)
  BY <1>9, AuthMessageMadePhased, SubMessagesMadePhased
<1>10. CASE \E s \in DOMAIN ctl.ws, should \in Should, constructs \in Constructs :
              ReopenTimerFires(s, should, constructs)
  BY <1>10, ReopenTimerFiresPhased
<1>11. CASE UNCHANGED vars BY <1>11, SteadyTyped, Transitions DEF vars, PhasedStep
<1>. QED BY <1>1, <1>2, <1>3, <1>4, <1>5, <1>6, <1>7, <1>8, <1>9, <1>10, <1>11 DEF Next

\* A new controller has no connection, and is closed.
LEMMA InitPhased == Init => Phased(ctl) /\ Lifecycle!Init
<1> SUFFICES ASSUME Init PROVE Phased(ctl) /\ Lifecycle!Init OBVIOUS
<1>1. ctl.ws = <<>> /\ ctl.state = "closed" BY DEF Init
<1>2. \A s \in DOMAIN ctl.ws : ~Usable(ctl, s) BY <1>1
<1>. QED BY <1>1, <1>2, UnusedPhased DEF Lifecycle!Init

\* The states come in the order that WebSocketLifecycle allows, for every configuration whose
\* late observables make requests: a message that is not answered would authorize or subscribe
\* a controller that is closed when it is made late.
THEOREM LifecycleSafety == AnsweredWhenLate /\ Spec => LifecycleSpec
<1>1. CASE AnsweredWhenLate
  <2>1. IInv /\ IInv' /\ FInv /\ [Next]_vars => FInv' BY StepFits DEF Steady
  <2>2. IInv /\ IInv' /\ FInv /\ Phased(ctl) /\ [Next]_vars
          => Phased(ctl)' /\ [Lifecycle!Next]_(ctl.state)
    BY <1>1, StepPhased DEF Steady, PhasedStep, Passes
  <2>3. Spec => LifecycleSpec
    BY <2>1, <2>2, InitFits, InitPhased, Invariance, PTL
    DEF Spec, LifecycleSpec, Lifecycle!Spec
  <2>. QED BY <2>3
<1>2. CASE ~AnsweredWhenLate BY <1>2
<1>. QED BY <1>1, <1>2
===============================================================================
