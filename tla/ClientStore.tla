----------------------------- MODULE ClientStore -----------------------------
(***************************************************************************)
(* What the client store of sunnyconf promises (src/daemon/auth.py), with  *)
(* no file, threads, codes or replies: a client is let in by the token it  *)
(* was granted last, and by no other, until it is revoked; a token is      *)
(* granted once.                                                           *)
(***************************************************************************)
CONSTANTS Client, Token

VARIABLES
  live,       \* the tokens that let each client in
  used        \* the tokens granted so far

vars == <<live, used>>

Init == live = [c \in Client |-> {}] /\ used = {}

Fresh(t) == t \notin used /\ used' = used \cup {t}

\* A client pairs, for the first time or anew.
Grant(c, t) == Fresh(t) /\ live' = [live EXCEPT ![c] = {t}]

\* It does so while the store cannot be read: all others are forgotten.
GrantAlone(c, t) ==
  Fresh(t) /\ live' = [d \in Client |-> IF d = c THEN {t} ELSE {}]

Revoke(c) == live' = [live EXCEPT ![c] = {}] /\ UNCHANGED used

Next == \E c \in Client : Revoke(c) \/ \E t \in Token : Grant(c, t) \/ GrantAlone(c, t)

Spec == Init /\ [][Next]_vars
===============================================================================
