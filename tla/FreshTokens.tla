------------------------------ MODULE FreshTokens ------------------------------
(***************************************************************************)
(* What withFreshJwt() promises to those who call it, without tokens,      *)
(* users or requests: a call waits or is settled at once, whoever waits is *)
(* settled together with all the others, and what is settled stays so.     *)
(* With tokens everybody is called back with them; without, everybody is   *)
(* told so, or dropped if that is how it called.                           *)
(***************************************************************************)
EXTENDS Sequences

VARIABLES
  calls,    \* what has become of each call of the program so far
  others    \* who of the service's own users waits too

States == {"waiting", "tokens", "no tokens", "dropped"}

Whose == {"loginAs", "logout", "guard"}

Init == calls = <<>> /\ others = {}

Waiting(cs) == {i \in DOMAIN cs : cs[i] = "waiting"}

\* One more call, or none.
Calls == {calls, Append(calls, "waiting")}

\* Those who wait in cs, and only they, are settled in one of the ways of how, and with
\* them the others.
Settle(cs, how) ==
  /\ DOMAIN calls' = DOMAIN cs
  /\ \A i \in DOMAIN cs :
       IF i \in Waiting(cs) THEN calls'[i] \in how ELSE calls'[i] = cs[i]
  /\ others' = {}

Wait == calls' = Append(calls, "waiting") /\ others' = others

OtherWaits == calls' = calls /\ \E w \in Whose : others' = others \cup {w}

Succeed == \E cs \in Calls : Settle(cs, {"tokens"})

Fail == \E cs \in Calls : Settle(cs, {"no tokens", "dropped"})

Next == Wait \/ OtherWaits \/ Succeed \/ Fail

Spec == Init /\ [][Next]_<<calls, others>>
===============================================================================
