---------------------- MODULE MessageBufferHistory_proofs ----------------------
(***************************************************************************)
(* Proof that each message buffer keeps what its overflow strategy promises*)
(* for any size and any number of messages.  What is promised is defined   *)
(* over the whole history of a buffer, what add() does over the buffer     *)
(* only: the promise for one message more is shown to be what add() makes  *)
(* of the promise so far.                                                  *)
(***************************************************************************)
EXTENDS MessageBufferHistory, SequenceTheorems, TLAPS

\* Messages are numbers here.
Messages == Nat
-------------------------------------------------------------------------------
\* The newest first.

\* The reverse of a sequence, position by position.
LEMMA NewestFirstIs ==
  ASSUME NEW s \in Seq(Messages)
  PROVE  /\ NewestFirst(s) \in Seq(Messages) /\ Len(NewestFirst(s)) = Len(s)
         /\ Len(s) \in Nat /\ DOMAIN NewestFirst(s) = 1..Len(s)
         /\ \A i \in 1..Len(s) : NewestFirst(s)[i] = s[Len(s) + 1 - i]
<1>1. Len(s) \in Nat /\ s \in [1..Len(s) -> Messages] BY LenProperties
<1>2. \A i \in 1..Len(s) : Len(s) + 1 - i \in 1..Len(s) BY <1>1
<1>3. NewestFirst(s) \in [1..Len(s) -> Messages] BY <1>1, <1>2 DEF NewestFirst
<1>4. NewestFirst(s) \in Seq(Messages) BY <1>1, <1>3, SeqDef
<1>. QED BY <1>1, <1>3, <1>4, LenProperties DEF NewestFirst

\* A message in front of others, as unshift() puts it.
LEMMA InFront ==
  ASSUME NEW m \in Messages, NEW s \in Seq(Messages)
  PROVE  /\ <<m>> \o s \in Seq(Messages) /\ Len(<<m>> \o s) = Len(s) + 1
         /\ (<<m>> \o s)[1] = m
         /\ \A i \in 2..(Len(s) + 1) : (<<m>> \o s)[i] = s[i - 1]
<1>1. <<m>> \in Seq(Messages) /\ Len(<<m>>) = 1 /\ <<m>>[1] = m OBVIOUS
<1>2. Len(s) \in Nat BY LenProperties
<1>. QED BY <1>1, <1>2, ConcatProperties

\* One message more is in front of those that were there.
LEMMA NewestFirstAppend ==
  ASSUME NEW s \in Seq(Messages), NEW m \in Messages
  PROVE  NewestFirst(Append(s, m)) = <<m>> \o NewestFirst(s)
<1> DEFINE t == Append(s, m)
           n == Len(s)
           r == <<m>> \o NewestFirst(s)
<1>1. n \in Nat /\ t \in Seq(Messages) /\ Len(t) = n + 1 /\ t[n + 1] = m
      /\ \A i \in 1..n : t[i] = s[i]
  BY AppendProperties, LenProperties
<1>2. /\ NewestFirst(t) \in Seq(Messages) /\ Len(NewestFirst(t)) = n + 1
      /\ \A i \in 1..(n + 1) : NewestFirst(t)[i] = t[n + 2 - i]
  <2> HIDE DEF t, n
  <2>1. \A i \in 1..(n + 1) : Len(t) + 1 - i = n + 2 - i BY <1>1
  <2>2. /\ NewestFirst(t) \in Seq(Messages) /\ Len(NewestFirst(t)) = Len(t)
        /\ \A i \in 1..Len(t) : NewestFirst(t)[i] = t[Len(t) + 1 - i]
    BY <1>1, NewestFirstIs
  <2>. QED BY <1>1, <2>1, <2>2
<1>3. /\ r \in Seq(Messages) /\ Len(r) = n + 1 /\ r[1] = m
      /\ \A i \in 2..(n + 1) : r[i] = NewestFirst(s)[i - 1]
  BY NewestFirstIs, InFront
<1> HIDE DEF t, r
<1>4. ASSUME NEW i \in 1..(n + 1) PROVE NewestFirst(t)[i] = r[i]
  <2>1. CASE i = 1 BY <1>1, <1>2, <1>3, <2>1
  <2>2. CASE i # 1
    <3>1. i - 1 \in 1..n /\ i \in 2..(n + 1) /\ n + 2 - i \in 1..n BY <1>1, <2>2
    <3>2. NewestFirst(s)[i - 1] = s[n + 1 - (i - 1)] BY <3>1, NewestFirstIs
    <3>3. n + 1 - (i - 1) = n + 2 - i BY <1>1
    <3>4. NewestFirst(t)[i] = s[n + 2 - i] BY <1>1, <1>2, <3>1
    <3>. QED BY <1>3, <3>1, <3>2, <3>3, <3>4
  <2>. QED BY <2>1, <2>2
<1>5. NewestFirst(t) = r BY <1>2, <1>3, <1>4, SeqEqual
<1>. QED BY <1>5 DEF t, r

\* shift() drops the newest.
LEMMA NewestFirstTail ==
  ASSUME NEW s \in Seq(Messages), Len(s) > 0
  PROVE  Tail(NewestFirst(s)) = NewestFirst(SubSeq(s, 1, Len(s) - 1))
<1> DEFINE n == Len(s)
           f == NewestFirst(s)
           t == SubSeq(s, 1, n - 1)
<1>1. n \in Nat /\ n > 0 /\ \A i \in 1..n : s[i] \in Messages BY LenProperties, ElementOfSeq
<1>2. f \in Seq(Messages) /\ Len(f) = n /\ \A i \in 1..n : f[i] = s[n + 1 - i]
  BY NewestFirstIs
<1>3. t \in Seq(Messages) /\ Len(t) = n - 1 /\ \A i \in 1..(n - 1) : t[i] = s[i]
  <2>1. \A i \in 1..(n - 1) : s[i] \in Messages BY <1>1
  <2>2. /\ SubSeq(s, 1, n - 1) \in Seq(Messages)
        /\ Len(SubSeq(s, 1, n - 1)) = IF 1 <= n - 1 THEN n - 1 - 1 + 1 ELSE 0
        /\ \A i \in 1..(n - 1 - 1 + 1) : SubSeq(s, 1, n - 1)[i] = s[1 + i - 1]
    BY <1>1, <2>1, SubSeqProperties
  <2>3. n - 1 - 1 + 1 = n - 1 /\ \A i \in 1..(n - 1) : 1 + i - 1 = i BY <1>1
  <2>. QED BY <1>1, <2>2, <2>3
<1> HIDE DEF f, t, n
<1>4. f # <<>> BY <1>1, <1>2, EmptySeq
<1>5. /\ Tail(f) \in Seq(Messages) /\ Len(Tail(f)) = n - 1
      /\ \A i \in 1..(n - 1) : Tail(f)[i] = f[i + 1]
  BY <1>2, <1>4, HeadTailProperties
<1>6. /\ NewestFirst(t) \in Seq(Messages) /\ Len(NewestFirst(t)) = n - 1
      /\ \A i \in 1..(n - 1) : NewestFirst(t)[i] = t[n - i]
  <2>1. \A i \in 1..(n - 1) : Len(t) + 1 - i = n - i BY <1>1, <1>3
  <2>2. /\ NewestFirst(t) \in Seq(Messages) /\ Len(NewestFirst(t)) = Len(t)
        /\ \A i \in 1..Len(t) : NewestFirst(t)[i] = t[Len(t) + 1 - i]
    BY <1>3, NewestFirstIs
  <2>. QED BY <1>3, <2>1, <2>2
<1>7. ASSUME NEW i \in 1..(n - 1) PROVE Tail(f)[i] = NewestFirst(t)[i]
  <2>1. i + 1 \in 1..n /\ n - i \in 1..(n - 1) /\ n + 1 - (i + 1) = n - i BY <1>1
  <2>2. Tail(f)[i] = s[n - i] BY <1>2, <1>5, <2>1
  <2>. QED BY <1>3, <1>6, <2>1, <2>2
<1>8. Tail(f) = NewestFirst(t) BY <1>5, <1>6, <1>7, SeqEqual
<1>. QED BY <1>8 DEF f, t, n

\* pop() drops the oldest.
LEMMA NewestFirstFront ==
  ASSUME NEW s \in Seq(Messages), Len(s) > 0
  PROVE  SubSeq(NewestFirst(s), 1, Len(s) - 1) = NewestFirst(SubSeq(s, 2, Len(s)))
<1> DEFINE n == Len(s)
           f == NewestFirst(s)
           p == SubSeq(f, 1, n - 1)
           t == SubSeq(s, 2, n)
<1>1. n \in Nat /\ n > 0 /\ \A i \in 1..n : s[i] \in Messages BY LenProperties, ElementOfSeq
<1>2. f \in Seq(Messages) /\ Len(f) = n /\ \A i \in 1..n : f[i] = s[n + 1 - i]
  BY NewestFirstIs
<1>3. t \in Seq(Messages) /\ Len(t) = n - 1 /\ \A i \in 1..(n - 1) : t[i] = s[i + 1]
  <2>1. \A i \in 2..n : s[i] \in Messages BY <1>1
  <2>2. /\ SubSeq(s, 2, n) \in Seq(Messages)
        /\ Len(SubSeq(s, 2, n)) = IF 2 <= n THEN n - 2 + 1 ELSE 0
        /\ \A i \in 1..(n - 2 + 1) : SubSeq(s, 2, n)[i] = s[2 + i - 1]
    BY <1>1, <2>1, SubSeqProperties
  <2>3. n - 2 + 1 = n - 1 /\ \A i \in 1..(n - 1) : 2 + i - 1 = i + 1 BY <1>1
  <2>. QED BY <1>1, <2>2, <2>3
<1> HIDE DEF f, t, n
<1>4. p \in Seq(Messages) /\ Len(p) = n - 1 /\ \A i \in 1..(n - 1) : p[i] = f[i]
  <2>1. \A i \in 1..(n - 1) : f[i] \in Messages BY <1>1, <1>2, ElementOfSeq
  <2>. QED BY <1>1, <2>1, SubSeqProperties
<1> HIDE DEF p
<1>5. /\ NewestFirst(t) \in Seq(Messages) /\ Len(NewestFirst(t)) = n - 1
      /\ \A i \in 1..(n - 1) : NewestFirst(t)[i] = t[n - i]
  <2>1. \A i \in 1..(n - 1) : Len(t) + 1 - i = n - i BY <1>1, <1>3
  <2>2. /\ NewestFirst(t) \in Seq(Messages) /\ Len(NewestFirst(t)) = Len(t)
        /\ \A i \in 1..Len(t) : NewestFirst(t)[i] = t[Len(t) + 1 - i]
    BY <1>3, NewestFirstIs
  <2>. QED BY <1>3, <2>1, <2>2
<1>6. ASSUME NEW i \in 1..(n - 1) PROVE p[i] = NewestFirst(t)[i]
  <2>1. i \in 1..n /\ n - i \in 1..(n - 1) /\ (n - i) + 1 = n + 1 - i BY <1>1
  <2>2. p[i] = s[n + 1 - i] BY <1>2, <1>4, <2>1
  <2>3. NewestFirst(t)[i] = s[(n - i) + 1] BY <1>3, <1>5, <2>1
  <2>. QED BY <2>1, <2>2, <2>3
<1>7. p = NewestFirst(t) BY <1>4, <1>5, <1>6, SeqEqual
<1>. QED BY <1>7 DEF f, p, t, n
-------------------------------------------------------------------------------
\* Parts of a history with one message more.

\* The earliest k of them.
LEMMA EarliestOfAppend ==
  ASSUME NEW h \in Seq(Messages), NEW m \in Messages, NEW k \in 0..Len(h)
  PROVE  SubSeq(Append(h, m), 1, k) = SubSeq(h, 1, k)
<1>1. Len(h) \in Nat /\ k \in Nat /\ \A i \in 1..Len(h) : h[i] \in Messages
  BY LenProperties, ElementOfSeq
<1>2. \A i \in 1..k : Append(h, m)[i] = h[i] /\ h[i] \in Messages BY <1>1, AppendProperties
<1>3. /\ SubSeq(h, 1, k) \in Seq(Messages) /\ Len(SubSeq(h, 1, k)) = k
      /\ \A i \in 1..k : SubSeq(h, 1, k)[i] = h[i]
  BY <1>1, <1>2, SubSeqProperties
<1> DEFINE t == Append(h, m)
<1>4. \A i \in 1..k : t[i] = h[i] /\ t[i] \in Messages BY <1>2
<1> HIDE DEF t
<1>5. /\ SubSeq(t, 1, k) \in Seq(Messages) /\ Len(SubSeq(t, 1, k)) = k
      /\ \A i \in 1..k : SubSeq(t, 1, k)[i] = t[i]
  BY <1>1, <1>4, SubSeqProperties
<1>6. SubSeq(t, 1, k) = SubSeq(h, 1, k) BY <1>3, <1>4, <1>5, SeqEqual
<1>. QED BY <1>6 DEF t

\* Those from j on.
LEMMA LatestOfAppend ==
  ASSUME NEW h \in Seq(Messages), NEW m \in Messages, NEW j \in 1..(Len(h) + 1)
  PROVE  SubSeq(Append(h, m), j, Len(h) + 1) = Append(SubSeq(h, j, Len(h)), m)
<1> DEFINE n == Len(h)
           t == Append(h, m)
           u == SubSeq(h, j, n)
           v == SubSeq(t, j, n + 1)
<1>1. n \in Nat /\ j \in 1..(n + 1) /\ \A i \in 1..n : h[i] \in Messages
  BY LenProperties, ElementOfSeq
<1>2. /\ t \in Seq(Messages) /\ Len(t) = n + 1 /\ t[n + 1] = m
      /\ \A i \in 1..n : t[i] = h[i]
  BY AppendProperties
<1> HIDE DEF n, t
<1>3. /\ u \in Seq(Messages) /\ Len(u) = n - j + 1
      /\ \A i \in 1..(n - j + 1) : u[i] = h[j + i - 1]
  <2>1. \A i \in j..n : h[i] \in Messages BY <1>1
  <2>2. /\ u \in Seq(Messages) /\ Len(u) = IF j <= n THEN n - j + 1 ELSE 0
        /\ \A i \in 1..(n - j + 1) : u[i] = h[j + i - 1]
    BY <1>1, <2>1, SubSeqProperties
  <2>. QED BY <1>1, <2>2
<1>4. /\ v \in Seq(Messages) /\ Len(v) = n - j + 2
      /\ \A i \in 1..(n - j + 2) : v[i] = t[j + i - 1]
  <2>1. \A i \in j..(n + 1) : t[i] \in Messages BY <1>1, <1>2, ElementOfSeq
  <2>2. /\ v \in Seq(Messages) /\ Len(v) = IF j <= n + 1 THEN (n + 1) - j + 1 ELSE 0
        /\ \A i \in 1..((n + 1) - j + 1) : v[i] = t[j + i - 1]
    BY <1>1, <2>1, SubSeqProperties
  <2>3. (n + 1) - j + 1 = n - j + 2 BY <1>1
  <2>. QED BY <1>1, <2>2, <2>3
<1> HIDE DEF u, v
<1>5. /\ Append(u, m) \in Seq(Messages) /\ Len(Append(u, m)) = n - j + 2
      /\ Append(u, m)[n - j + 2] = m
      /\ \A i \in 1..(n - j + 1) : Append(u, m)[i] = u[i]
  <2>1. (n - j + 1) + 1 = n - j + 2 BY <1>1
  <2>. QED BY <1>3, <2>1, AppendProperties
<1>6. ASSUME NEW i \in 1..(n - j + 2) PROVE v[i] = Append(u, m)[i]
  <2>1. CASE i = n - j + 2
    <3>1. j + i - 1 = n + 1 BY <1>1, <2>1
    <3>. QED BY <1>2, <1>4, <1>5, <2>1, <3>1
  <2>2. CASE i # n - j + 2
    <3>1. i \in 1..(n - j + 1) /\ j + i - 1 \in 1..n BY <1>1, <2>2
    <3>. QED BY <1>2, <1>3, <1>4, <1>5, <3>1
  <2>. QED BY <2>1, <2>2
<1>7. v = Append(u, m) BY <1>4, <1>5, <1>6, SeqEqual
<1>. QED BY <1>7 DEF u, v, n, t
-------------------------------------------------------------------------------
\* What add() makes of a buffer that keeps what it promises.

\* What a buffer keeps when h does not fit: without dropNew the last messages of it.
LEMMA MakeRoomPops ==
  ASSUME NEW h \in Seq(Messages), NEW c \in Nat \ {0}, c = Capacity, Len(h) >= c,
         config.overflow # "dropNew"
  PROVE  MakeRoom(Expected(h), config.size, config.overflow)
           = NewestFirst(SubSeq(h, Len(h) - c + 2, Len(h)))
<1> DEFINE n == Len(h)
           s == SubSeq(h, n - c + 1, n)
           f == NewestFirst(s)
<1>1. n \in Nat /\ n >= c /\ \A i \in 1..n : h[i] \in Messages BY LenProperties, ElementOfSeq
<1> HIDE DEF n
<1>2. s \in Seq(Messages) /\ Len(s) = c
  <2>1. \A i \in (n - c + 1)..n : h[i] \in Messages BY <1>1
  <2>2. s \in Seq(Messages) /\ Len(s) = IF n - c + 1 <= n THEN n - (n - c + 1) + 1 ELSE 0
    BY <1>1, <2>1, SubSeqProperties
  <2>. QED BY <1>1, <2>2
<1>3. Expected(h) = f
  <2>1. CASE Len(h) <= Capacity
    <3>1. n = c BY <1>1, <2>1 DEF n
    <3>2. s = h
      <4>1. n - c + 1 = 1 BY <1>1, <3>1
      <4>2. SubSeq(h, 1, Len(h)) = h BY SubSeqFull
      <4>. QED BY <4>1, <4>2 DEF n
    <3>. QED BY <2>1, <3>2 DEF Expected
  <2>2. CASE ~(Len(h) <= Capacity) BY <2>2 DEF Expected, n
  <2>. QED BY <2>1, <2>2
<1>4. Len(f) = c BY <1>2, NewestFirstIs
<1>5. SubSeq(f, 1, c - 1) = NewestFirst(SubSeq(s, 2, c))
  <2> HIDE DEF s
  <2>1. Len(s) > 0 /\ Len(s) = c BY <1>2
  <2>2. SubSeq(f, 1, Len(s) - 1) = NewestFirst(SubSeq(s, 2, Len(s)))
    BY <1>2, <2>1, NewestFirstFront
  <2>. QED BY <2>1, <2>2
<1>6. SubSeq(s, 2, c) = SubSeq(h, n - c + 2, n)
  <2>1. s # <<>> BY <1>2, EmptySeq
  <2>2. Tail(s) = SubSeq(s, 2, c) BY <1>2, <2>1, TailIsSubSeq
  <2>3. n - c + 1 \in 1..Len(h) /\ n \in (n - c + 1)..Len(h) BY <1>1 DEF n
  <2>4. Tail(s) = SubSeq(h, n - c + 1 + 1, n) BY <2>3, HeadTailOfSubSeq
  <2>5. n - c + 1 + 1 = n - c + 2 BY <1>1
  <2>. QED BY <2>2, <2>4, <2>5
<1> HIDE DEF f
<1>7. MakeRoom(f, config.size, config.overflow) = SubSeq(f, 1, c - 1)
  BY <1>4 DEF MakeRoom, Capacity
<1>. QED BY <1>3, <1>5, <1>6, <1>7 DEF f, n

\* With dropNew the earliest messages of it.
LEMMA MakeRoomShifts ==
  ASSUME NEW h \in Seq(Messages), NEW c \in Nat \ {0}, c = Capacity, Len(h) >= c,
         config.overflow = "dropNew"
  PROVE  MakeRoom(Expected(h), config.size, config.overflow)
           = NewestFirst(SubSeq(h, 1, c - 1))
<1> DEFINE n == Len(h)
           e == Expected(h)
           s == SubSeq(h, 1, c - 1)
<1>1. n \in Nat /\ n >= c /\ \A i \in 1..n : h[i] \in Messages BY LenProperties, ElementOfSeq
<1> HIDE DEF n
<1>2. s \in Seq(Messages) /\ Len(s) = c - 1
  <2>1. \A i \in 1..(c - 1) : h[i] \in Messages BY <1>1
  <2>2. s \in Seq(Messages) /\ Len(s) = IF 1 <= c - 1 THEN c - 1 - 1 + 1 ELSE 0
    BY <2>1, SubSeqProperties
  <2>. QED BY <2>2
<1>3. NewestFirst(s) \in Seq(Messages) /\ Len(NewestFirst(s)) = c - 1 BY <1>2, NewestFirstIs
<1>4. Len(e) = c /\ Tail(e) = NewestFirst(s)
  <2>1. CASE n = c
    <3>1. e = NewestFirst(h) BY <2>1 DEF Expected, e, n
    <3>2. Len(h) = c /\ Len(h) > 0 BY <2>1 DEF n
    <3>3. Tail(NewestFirst(h)) = NewestFirst(s) BY <3>2, NewestFirstTail
    <3>. QED BY <3>1, <3>2, <3>3, NewestFirstIs
  <2>2. CASE n # c
    <3>1. ~(Len(h) <= Capacity) BY <1>1, <2>2 DEF n
    <3> DEFINE r == NewestFirst(s)
    <3>2. e = <<h[n]>> \o r BY <3>1 DEF Expected, e, n
    <3>3. h[n] \in Messages BY <1>1
    <3> HIDE DEF e, r
    <3>4. e \in Seq(Messages) /\ Len(e) = c /\ \A i \in 2..c : e[i] = r[i - 1]
      <4>1. r \in Seq(Messages) /\ Len(r) = c - 1 BY <1>3 DEF r
      <4>2. /\ e \in Seq(Messages) /\ Len(e) = (c - 1) + 1
            /\ \A i \in 2..((c - 1) + 1) : e[i] = r[i - 1]
        BY <3>2, <3>3, <4>1, InFront
      <4>. QED BY <4>2
    <3>5. e # <<>> BY <3>4, EmptySeq
    <3>6. /\ Tail(e) \in Seq(Messages) /\ Len(Tail(e)) = c - 1
          /\ \A i \in 1..(c - 1) : Tail(e)[i] = e[i + 1]
      BY <3>4, <3>5, HeadTailProperties
    <3>7. ASSUME NEW i \in 1..(c - 1) PROVE Tail(e)[i] = r[i]
      <4>1. i + 1 \in 2..c /\ (i + 1) - 1 = i OBVIOUS
      <4>. QED BY <3>4, <3>6, <4>1
    <3>8. r \in Seq(Messages) /\ Len(r) = c - 1 BY <1>3 DEF r
    <3>9. Tail(e) = r BY <3>6, <3>7, <3>8, SeqEqual
    <3>. QED BY <3>4, <3>9 DEF r
  <2>. QED BY <2>1, <2>2
<1> HIDE DEF e
<1>5. MakeRoom(e, config.size, config.overflow) = Tail(e) BY <1>4 DEF MakeRoom, Capacity
<1>. QED BY <1>4, <1>5 DEF e

\* What is promised for one message more is what add() makes of what was promised.
LEMMA ExpectedAppend ==
  ASSUME NEW h \in Seq(Messages), NEW m \in Messages, Capacity \in Nat \ {0}
  PROVE  Expected(Append(h, m))
           = <<m>> \o MakeRoom(Expected(h), config.size, config.overflow)
<1> DEFINE n == Len(h)
           c == Capacity
           t == Append(h, m)
           room == MakeRoom(Expected(h), config.size, config.overflow)
<1>1. n \in Nat /\ t \in Seq(Messages) /\ Len(t) = n + 1 /\ t[n + 1] = m /\ c \in Nat \ {0}
  BY AppendProperties, LenProperties
<1> HIDE DEF c
<1>2. CASE n < c
  <2>1. Expected(h) = NewestFirst(h) /\ Len(NewestFirst(h)) = n
    BY <1>1, <1>2, NewestFirstIs DEF Expected, c
  <2>2. room = NewestFirst(h)
    <3> DEFINE f == NewestFirst(h)
    <3> HIDE DEF f
    <3>1. Expected(h) = f /\ Len(f) < EffectiveSize(config.size)
      BY <1>2, <2>1 DEF f, c, Capacity
    <3>. QED BY <3>1 DEF MakeRoom, f
  <2>3. Len(t) <= c BY <1>1, <1>2
  <2> HIDE DEF t
  <2>4. Expected(t) = NewestFirst(t) BY <2>3 DEF Expected, c
  <2>. QED BY <2>2, <2>4, NewestFirstAppend DEF t
<1>3. CASE n >= c /\ config.overflow # "dropNew"
  <2>1. room = NewestFirst(SubSeq(h, n - c + 2, n)) BY <1>1, <1>3, MakeRoomPops DEF c
  <2>2. ~(Len(t) <= c) /\ Len(t) - c + 1 = n - c + 2 BY <1>1, <1>3
  <2> HIDE DEF t
  <2>3. Expected(t) = NewestFirst(SubSeq(t, n - c + 2, n + 1))
    <3>1. Expected(t) = NewestFirst(SubSeq(t, Len(t) - c + 1, Len(t)))
      BY <1>3, <2>2 DEF Expected, c
    <3>. QED BY <1>1, <2>2, <3>1
  <2>4. n - c + 2 \in 1..(n + 1) BY <1>1, <1>3
  <2>5. SubSeq(t, n - c + 2, n + 1) = Append(SubSeq(h, n - c + 2, n), m)
    BY <2>4, LatestOfAppend DEF t
  <2>6. SubSeq(h, n - c + 2, n) \in Seq(Messages)
    <3>1. \A i \in (n - c + 2)..n : h[i] \in Messages BY <1>1, <2>4, ElementOfSeq
    <3> HIDE DEF n
    <3>. QED BY <1>1, <3>1, SubSeqProperties
  <2>7. NewestFirst(Append(SubSeq(h, n - c + 2, n), m))
          = <<m>> \o NewestFirst(SubSeq(h, n - c + 2, n))
    BY <2>6, NewestFirstAppend
  <2>. QED BY <2>1, <2>3, <2>5, <2>7 DEF t
<1>4. CASE n >= c /\ config.overflow = "dropNew"
  <2>1. room = NewestFirst(SubSeq(h, 1, c - 1)) BY <1>1, <1>4, MakeRoomShifts DEF c
  <2>2. ~(Len(t) <= c) BY <1>1, <1>4
  <2>3. c - 1 \in 0..n BY <1>1, <1>4
  <2>4. SubSeq(t, 1, c - 1) = SubSeq(h, 1, c - 1) BY <2>3, EarliestOfAppend
  <2> HIDE DEF t
  <2>5. Expected(t) = <<t[Len(t)]>> \o NewestFirst(SubSeq(t, 1, c - 1))
    BY <1>4, <2>2 DEF Expected, c
  <2>. QED BY <1>1, <2>1, <2>4, <2>5 DEF t
<1>. QED BY <1>1, <1>2, <1>3, <1>4
-------------------------------------------------------------------------------
\* The inductive invariant: the promise, and the types of what it is about.
BufferInv ==
  /\ config \in [size: Nat, overflow: OverflowStrategies] /\ next \in Nat
  /\ added \in [MessageRequirements -> Seq(Messages)]
  /\ buffers = [need \in MessageRequirements |-> Expected(added[need])]

\* A buffer that was given no size, or the size zero, is not without room.
LEMMA CapacityIsPositive == ASSUME BufferInv PROVE Capacity \in Nat \ {0}
BY DEF BufferInv, Capacity, EffectiveSize, DefaultSize

\* Of no messages nothing is kept.
LEMMA ExpectedOfNone == ASSUME Capacity \in Nat PROVE Expected(<<>>) = <<>>
<1>1. Len(<<>>) = 0 /\ <<>> \in Seq(Messages) BY EmptySeq
<1>2. Expected(<<>>) = NewestFirst(<<>>) BY <1>1 DEF Expected
<1>3. NewestFirst(<<>>) \in Seq(Messages) /\ Len(NewestFirst(<<>>)) = 0
  BY <1>1, NewestFirstIs
<1>4. NewestFirst(<<>>) = <<>> BY <1>3, EmptySeq
<1>. QED BY <1>2, <1>4

LEMMA BufferInit == Init => BufferInv
<1> SUFFICES ASSUME Init PROVE BufferInv OBVIOUS
<1>1. config \in [size: Nat, overflow: OverflowStrategies] /\ next \in Nat
  BY HistoryAssumption DEF Init
<1>2. Capacity \in Nat BY <1>1 DEF Capacity, EffectiveSize, DefaultSize
<1>3. Expected(<<>>) = <<>> BY <1>2, ExpectedOfNone
<1>4. <<>> \in Seq(Messages) BY EmptySeq
<1>5. added = [need \in MessageRequirements |-> <<>>] /\ buffers = added
  BY DEF Init, EmptyBuffers
<1>. QED BY <1>1, <1>3, <1>4, <1>5 DEF BufferInv

\* add() to one buffer keeps the promise for it, and touches no other.
LEMMA BufferAdd ==
  ASSUME BufferInv, NEW need \in MessageRequirements, AddMessage(need)
  PROVE  BufferInv'
<1> DEFINE h == added[need]
           room == MakeRoom(Expected(h), config.size, config.overflow)
<1>1. h \in Seq(Messages) /\ next \in Messages BY DEF BufferInv, Messages
<1>2. /\ UNCHANGED config /\ next' = next + 1
      /\ added' = [added EXCEPT ![need] = Append(h, next)]
  BY DEF AddMessage
<1>3. buffers' = [buffers EXCEPT ![need] = <<next>> \o room]
  BY DEF AddMessage, Add, BufferInv
<1>4. Expected(Append(h, next)) = <<next>> \o room
  BY <1>1, CapacityIsPositive, ExpectedAppend
<1> HIDE DEF room
<1>5. ASSUME NEW s PROVE Expected(s)' = Expected(s)
  BY <1>2 DEF Expected, Capacity
<1>6. Append(h, next) \in Seq(Messages) BY <1>1, AppendProperties
<1>7. added' \in [MessageRequirements -> Seq(Messages)] BY <1>2, <1>6 DEF BufferInv
<1> HIDE DEF h
<1>8. buffers' = [other \in MessageRequirements |-> Expected(added'[other])]
  <2>1. added'[need] = Append(h, next) BY <1>2 DEF BufferInv
  <2>2. ASSUME NEW other \in MessageRequirements
        PROVE  buffers'[other] = Expected(added'[other])
    <3>1. CASE other = need BY <1>3, <1>4, <2>1, <3>1 DEF BufferInv
    <3>2. CASE other # need
      <4>1. added'[other] = added[other] BY <1>2, <3>2 DEF BufferInv
      <4>2. buffers'[other] = buffers[other] BY <1>3, <3>2 DEF BufferInv
      <4>3. buffers[other] = Expected(added[other]) BY DEF BufferInv
      <4>. QED BY <4>1, <4>2, <4>3
    <3>. QED BY <3>1, <3>2
  <2>3. buffers' = [other \in MessageRequirements |-> buffers'[other]]
    BY <1>3 DEF BufferInv
  <2>. QED BY <2>2, <2>3
<1>9. \A other \in MessageRequirements : Expected(added[other])' = Expected(added'[other])
  BY <1>2 DEF Expected, Capacity
<1>. QED BY <1>2, <1>7, <1>8, <1>9 DEF BufferInv

\* remove() empties one buffer, and touches no other.
LEMMA BufferRemove ==
  ASSUME BufferInv, NEW need \in MessageRequirements, RemoveMessages(need)
  PROVE  BufferInv'
<1>1. /\ UNCHANGED <<config, next>> /\ added' = [added EXCEPT ![need] = <<>>]
      /\ buffers' = [buffers EXCEPT ![need] = <<>>]
  BY DEF RemoveMessages, Remove
<1>2. Expected(<<>>) = <<>> BY CapacityIsPositive, ExpectedOfNone
<1>3. <<>> \in Seq(Messages) BY EmptySeq
<1>4. added' \in [MessageRequirements -> Seq(Messages)] BY <1>1, <1>3 DEF BufferInv
<1>5. ASSUME NEW other \in MessageRequirements
      PROVE  buffers'[other] = Expected(added'[other])
  <2>1. CASE other = need BY <1>1, <1>2, <2>1 DEF BufferInv
  <2>2. CASE other # need
    <3>1. added'[other] = added[other] BY <1>1, <2>2 DEF BufferInv
    <3>2. buffers'[other] = buffers[other] BY <1>1, <2>2 DEF BufferInv
    <3>3. buffers[other] = Expected(added[other]) BY DEF BufferInv
    <3>. QED BY <3>1, <3>2, <3>3
  <2>. QED BY <2>1, <2>2
<1>6. buffers' = [other \in MessageRequirements |-> buffers'[other]] BY <1>1 DEF BufferInv
<1>7. \A other \in MessageRequirements : Expected(added[other])' = Expected(added'[other])
  BY <1>1 DEF Expected, Capacity
<1>. QED BY <1>1, <1>4, <1>5, <1>6, <1>7 DEF BufferInv

\* Nothing happens.
LEMMA BufferStutter == ASSUME BufferInv, UNCHANGED vars PROVE BufferInv'
BY DEF BufferInv, Expected, Capacity, vars

\* Whatever is added and removed in whichever order, each of the three buffers of a configured
\* size holds what its overflow strategy promises for the messages that were added to it.
THEOREM BufferKeepsHolds == Spec => []BufferKeepsWhatItPromises
<1>1. BufferInv /\ [Next]_vars => BufferInv'
  BY BufferAdd, BufferRemove, BufferStutter DEF Next
<1>2. BufferInv => BufferKeepsWhatItPromises BY DEF BufferInv, BufferKeepsWhatItPromises
<1>. QED BY <1>1, <1>2, BufferInit, PTL DEF Spec

\* No buffer ever holds more messages than the size that was configured, or than the default
\* one where the code replaces a size of zero by it.
THEOREM BuffersAreBounded ==
  Spec => [](\A need \in MessageRequirements :
               Len(buffers[need]) <= IF config.size # 0 THEN config.size ELSE DefaultSize)
<1>1. ASSUME BufferInv, NEW need \in MessageRequirements PROVE Len(buffers[need]) <= Capacity
  <2> DEFINE h == added[need]
             n == Len(h)
             c == Capacity
  <2>1. h \in Seq(Messages) /\ n \in Nat /\ c \in Nat \ {0} /\ \A i \in 1..n : h[i] \in Messages
    BY <1>1, CapacityIsPositive, LenProperties, ElementOfSeq DEF BufferInv
  <2>2. buffers[need] = Expected(h) BY <1>1 DEF BufferInv
  <2> HIDE DEF h, c
  <2>3. CASE n <= c
    <3>1. Expected(h) = NewestFirst(h) BY <2>3 DEF Expected, c
    <3>. QED BY <2>1, <2>2, <2>3, <3>1, NewestFirstIs DEF c
  <2>4. CASE ~(n <= c)
    <3>1. /\ SubSeq(h, 1, c - 1) \in Seq(Messages) /\ Len(SubSeq(h, 1, c - 1)) = c - 1
          /\ SubSeq(h, n - c + 1, n) \in Seq(Messages) /\ Len(SubSeq(h, n - c + 1, n)) = c
      <4> HIDE DEF n
      <4>1. \A i \in 1..(c - 1) : h[i] \in Messages BY <2>1, <2>4
      <4>2. \A i \in (n - c + 1)..n : h[i] \in Messages BY <2>1, <2>4
      <4>3. /\ SubSeq(h, 1, c - 1) \in Seq(Messages)
            /\ Len(SubSeq(h, 1, c - 1)) = IF 1 <= c - 1 THEN c - 1 - 1 + 1 ELSE 0
        BY <2>1, <4>1, SubSeqProperties
      <4>4. /\ SubSeq(h, n - c + 1, n) \in Seq(Messages)
            /\ Len(SubSeq(h, n - c + 1, n))
                 = IF n - c + 1 <= n THEN n - (n - c + 1) + 1 ELSE 0
        BY <2>1, <4>2, SubSeqProperties
      <4>. QED BY <2>1, <2>4, <4>3, <4>4
    <3>2. \/ Expected(h) = <<h[n]>> \o NewestFirst(SubSeq(h, 1, c - 1))
          \/ Expected(h) = NewestFirst(SubSeq(h, n - c + 1, n))
      BY <2>4 DEF Expected, c
    <3>3. h[n] \in Messages BY <2>1, <2>4
    <3>4. Len(Expected(h)) = c
      <4>1. CASE Expected(h) = <<h[n]>> \o NewestFirst(SubSeq(h, 1, c - 1))
        <5>1. /\ NewestFirst(SubSeq(h, 1, c - 1)) \in Seq(Messages)
              /\ Len(NewestFirst(SubSeq(h, 1, c - 1))) = c - 1
          BY <3>1, NewestFirstIs
        <5>2. Len(Expected(h)) = (c - 1) + 1 BY <3>3, <4>1, <5>1, InFront
        <5>. QED BY <2>1, <5>2
      <4>2. CASE Expected(h) = NewestFirst(SubSeq(h, n - c + 1, n))
        BY <3>1, <4>2, NewestFirstIs
      <4>. QED BY <3>2, <4>1, <4>2
    <3>. QED BY <2>1, <2>2, <3>4 DEF c
  <2>. QED BY <2>3, <2>4
<1>2. BufferInv /\ [Next]_vars => BufferInv'
  BY BufferAdd, BufferRemove, BufferStutter DEF Next
<1>3. BufferInv => \A need \in MessageRequirements :
                     Len(buffers[need]) <= IF config.size # 0 THEN config.size ELSE DefaultSize
  BY <1>1 DEF Capacity, EffectiveSize
<1>. QED BY <1>2, <1>3, BufferInit, PTL DEF Spec
===============================================================================
