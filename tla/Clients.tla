------------------------------ MODULE Clients ------------------------------
(***************************************************************************)
(* Pairing and the client store of sunnyconf (src/daemon/auth.py, and the  *)
(* handlers of POST /pair and DELETE /clients/<id> in                      *)
(* src/daemon/server.py). Requests run in threads of their own. Each       *)
(* operation of auth.py is atomic under its lock; a request is several of  *)
(* them, and the body of a slow client may arrive between any two.         *)
(*                                                                         *)
(* A token is a number, in the order of minting. A pairing code and the    *)
(* pin of a request are members of Code. A lockout is kept as the time it  *)
(* has left (until - now).                                                 *)
(***************************************************************************)
EXTENDS Integers, FiniteSets

CONSTANTS
  Client,       \* client ids the apps generate
  Ip,           \* addresses requests come from
  Handler,      \* HTTP threads
  Code,         \* pairing codes
  NoCode,       \* no pairing code is set on the device
  NoClient,     \* stands for no client
  MaxFails,     \* _MAX_FAILS (5 in the code)
  Lockout,      \* _LOCKOUT, in ticks
  MaxTokens,    \* bound: tokens minted
  MaxChanges,   \* bound: changes of the pairing code
  MaxSteps,     \* bound: steps of the wall clock
  MaxFaults,    \* bound: failing reads of clients.json
  MaxRestarts   \* bound: daemon restarts

ASSUME HandlerAssumption == IsFiniteSet(Handler) /\ Handler # {}
ASSUME CodeAssumption == NoCode \notin Code /\ NoClient \notin Client
ASSUME LimiterAssumption == MaxFails \in Nat \ {0} /\ Lockout \in Nat \ {0}
ASSUME BoundAssumption ==
  /\ MaxTokens \in Nat /\ MaxChanges \in Nat /\ MaxSteps \in Nat
  /\ MaxFaults \in Nat /\ MaxRestarts \in Nat

VARIABLES
  code,         \* the SunnyconfPairingCode param
  rows,         \* clients.json: a set of rows [cid, token]
  fails,        \* _fail_state[ip]["fails"], 0 when absent
  left,         \* _fail_state[ip]["until"] - now, 0 when past or absent
  minted,       \* tokens minted so far
  pc,           \* where each request thread is
  req,          \* its request: address, client, pin
  seen,         \* the pairing code it has read
  tok,          \* the token it has minted
  changes, steps, faults, restarts,
  \* history, which no action reads
  owner,        \* the client each delivered token was delivered to
  dead,         \* tokens revoked or superseded
  lost,         \* tokens whose row went because clients.json could not be read
  burst         \* wrong pins evaluated since the address was last let in afresh

threads == <<pc, req, seen, tok>>
limiter == <<fails, left, burst>>
store == <<rows, minted, owner, dead, lost>>
bounds == <<changes, steps, faults, restarts>>
vars == <<code, threads, limiter, store, bounds>>

Token == 1..MaxTokens
NoRequest == [ip |-> NoClient, cid |-> NoClient, pin |-> NoCode]

Init ==
  /\ code \in Code \cup {NoCode}
  /\ rows = {}
  /\ fails = [i \in Ip |-> 0] /\ left = [i \in Ip |-> 0]
  /\ burst = [i \in Ip |-> 0]
  /\ minted = 0 /\ owner = [t \in Token |-> NoClient]
  /\ dead = {} /\ lost = {}
  /\ pc = [h \in Handler |-> "idle"]
  /\ req = [h \in Handler |-> NoRequest]
  /\ seen = [h \in Handler |-> NoCode]
  /\ tok = [h \in Handler |-> 0]
  /\ changes = 0 /\ steps = 0 /\ faults = 0 /\ restarts = 0

-----------------------------------------------------------------------------
(* POST /pair (_pair).                                                      *)

\* The bound on tokens, kept where a request comes in: the threads at work may
\* mint one token each.
Mintable == minted + Cardinality({h \in Handler : pc[h] # "idle"}) < MaxTokens

\* Mutant of Admit: a refused attempt starts the lockout again.
AdmitSliding(h, i, c, p) ==
  /\ pc[h] = "idle" /\ Mintable
  /\ \/ /\ left[i] = 0
        /\ pc' = [pc EXCEPT ![h] = "code"]
        /\ req' = [req EXCEPT ![h] = [ip |-> i, cid |-> c, pin |-> p]]
        /\ UNCHANGED <<code, seen, tok, limiter, store, bounds>>
     \/ /\ left[i] > 0 /\ left' = [left EXCEPT ![i] = Lockout]
        /\ UNCHANGED <<code, fails, burst, threads, store, bounds>>

\* The rate limiter lets the request in; otherwise it is answered 429 and
\* nothing changes.
Admit(h, i, c, p) ==
  /\ pc[h] = "idle" /\ Mintable
  /\ left[i] = 0
  /\ pc' = [pc EXCEPT ![h] = "code"]
  /\ req' = [req EXCEPT ![h] = [ip |-> i, cid |-> c, pin |-> p]]
  /\ UNCHANGED <<code, seen, tok, limiter, store, bounds>>

\* The request is over; h forgets it.
Finish(h) ==
  /\ pc' = [pc EXCEPT ![h] = "idle"]
  /\ req' = [req EXCEPT ![h] = NoRequest]
  /\ seen' = [seen EXCEPT ![h] = NoCode]
  /\ tok' = [tok EXCEPT ![h] = 0]

\* No pairing code on the device: 403.
PairingDisabled(h) ==
  /\ pc[h] = "code" /\ code = NoCode
  /\ Finish(h)
  /\ UNCHANGED <<code, limiter, store, bounds>>

\* The pairing code is read; the body is read after it.
ReadCode(h) ==
  /\ pc[h] = "code" /\ code # NoCode
  /\ seen' = [seen EXCEPT ![h] = code]
  /\ pc' = [pc EXCEPT ![h] = "pin"]
  /\ UNCHANGED <<code, req, tok, limiter, store, bounds>>

\* Mutant of RecordFail: the lockout starts one failure late.
RecordFailLate(i) ==
  /\ fails' = [fails EXCEPT ![i] = IF @ + 1 > MaxFails THEN 0 ELSE @ + 1]
  /\ left' = [left EXCEPT ![i] = IF fails[i] + 1 > MaxFails THEN Lockout ELSE @]
  /\ burst' = [burst EXCEPT ![i] = @ + 1]

\* record_fail: the MaxFails-th wrong code starts a lockout.
RecordFail(i) ==
  /\ fails' = [fails EXCEPT ![i] = IF @ + 1 >= MaxFails THEN 0 ELSE @ + 1]
  /\ left' = [left EXCEPT ![i] = IF fails[i] + 1 >= MaxFails THEN Lockout ELSE @]
  /\ burst' = [burst EXCEPT ![i] = @ + 1]

\* Wrong pin: counted, 401.
WrongPin(h) ==
  /\ pc[h] = "pin" /\ req[h].pin # seen[h]
  /\ RecordFail(req[h].ip)
  /\ Finish(h)
  /\ UNCHANGED <<code, store, bounds>>

\* Right pin: clear_fails forgets the address.
RightPin(h) ==
  /\ pc[h] = "pin" /\ req[h].pin = seen[h]
  /\ LET i == req[h].ip
     IN  /\ fails' = [fails EXCEPT ![i] = 0]
         /\ left' = [left EXCEPT ![i] = 0]
         /\ burst' = [burst EXCEPT ![i] = 0]
  /\ pc' = [pc EXCEPT ![h] = "pair"]
  /\ seen' = [seen EXCEPT ![h] = NoCode]
  /\ UNCHANGED <<code, req, tok, store, bounds>>

RowsOf(c) == {r \in rows : r.cid = c}
Tokens(rs) == {r.token : r \in rs}

\* Mutant of Enrol: the new row is added to the rows of the client.
EnrolAnother(h, loaded) ==
  /\ pc[h] = "pair"
  /\ minted' = minted + 1
  /\ rows' = loaded \cup {[cid |-> req[h].cid, token |-> minted + 1]}
  /\ dead' = dead \cup Tokens(RowsOf(req[h].cid))
  /\ tok' = [tok EXCEPT ![h] = minted + 1]
  /\ pc' = [pc EXCEPT ![h] = "reply"]
  /\ UNCHANGED <<code, req, seen, limiter, owner, changes, steps, restarts>>

\* pair() mints a token and replaces the client's row among those it loaded.
Enrol(h, loaded) ==
  /\ pc[h] = "pair"
  /\ minted' = minted + 1
  /\ rows' = (loaded \ RowsOf(req[h].cid))
               \cup {[cid |-> req[h].cid, token |-> minted + 1]}
  /\ dead' = dead \cup Tokens(RowsOf(req[h].cid))
  /\ tok' = [tok EXCEPT ![h] = minted + 1]
  /\ pc' = [pc EXCEPT ![h] = "reply"]
  /\ UNCHANGED <<code, req, seen, limiter, owner, changes, steps, restarts>>

Pair(h) == Enrol(h, rows) /\ UNCHANGED <<lost, faults>>

\* clients.json cannot be read this once: _load returns an empty list, and
\* what pair() saves is the new row alone.
PairUnread(h) ==
  /\ faults < MaxFaults /\ faults' = faults + 1
  /\ lost' = lost \cup Tokens(rows \ RowsOf(req[h].cid))
  /\ Enrol(h, {})

\* The token reaches the app.
Deliver(h) ==
  /\ pc[h] = "reply"
  /\ owner' = [owner EXCEPT ![tok[h]] = req[h].cid]
  /\ Finish(h)
  /\ UNCHANGED <<code, limiter, rows, minted, dead, lost, bounds>>

-----------------------------------------------------------------------------
(* DELETE /clients/<id>: the token of the asking client is checked, then    *)
(* the row is dropped.                                                      *)

Accepted(t) == t \in Tokens(rows)

AskRevoke(h, t, c) ==
  /\ pc[h] = "idle"
  /\ owner[t] # NoClient /\ Accepted(t)
  /\ pc' = [pc EXCEPT ![h] = "revoke"]
  /\ req' = [req EXCEPT ![h] = [NoRequest EXCEPT !.cid = c]]
  /\ UNCHANGED <<code, seen, tok, limiter, store, bounds>>

\* Mutant of Revoke: the rows that are kept and dropped are swapped.
RevokeOthers(h) ==
  /\ pc[h] = "revoke"
  /\ rows' = RowsOf(req[h].cid)
  /\ dead' = dead \cup Tokens(RowsOf(req[h].cid))
  /\ Finish(h)
  /\ UNCHANGED <<code, limiter, minted, owner, lost, bounds>>

Revoke(h) ==
  /\ pc[h] = "revoke"
  /\ rows' = rows \ RowsOf(req[h].cid)
  /\ dead' = dead \cup Tokens(RowsOf(req[h].cid))
  /\ Finish(h)
  /\ UNCHANGED <<code, limiter, minted, owner, lost, bounds>>

\* clients.json cannot be read this once: there is nothing to drop, and the
\* answer says that nothing was.
RevokeUnread(h) ==
  /\ pc[h] = "revoke" /\ faults < MaxFaults /\ faults' = faults + 1
  /\ Finish(h)
  /\ UNCHANGED <<code, limiter, store, changes, steps, restarts>>

-----------------------------------------------------------------------------
(* The device around the daemon.                                            *)

\* The user sets or clears the pairing code on the device screen.
SetCode(c) ==
  /\ changes < MaxChanges /\ changes' = changes + 1
  /\ c # code /\ code' = c
  /\ UNCHANGED <<threads, limiter, store, steps, faults, restarts>>

\* Time passes for every lockout.
Tick ==
  /\ \E i \in Ip : left[i] > 0
  /\ left' = [i \in Ip |-> IF left[i] > 0 THEN left[i] - 1 ELSE 0]
  /\ burst' = [i \in Ip |-> IF left[i] = 1 THEN 0 ELSE burst[i]]
  /\ UNCHANGED <<code, fails, threads, store, bounds>>

\* The wall clock is set back (its RTC was ahead, NTP corrects it): until was
\* taken from time.time(), so every lockout has that much more left.
ClockBack ==
  /\ steps < MaxSteps /\ steps' = steps + 1
  /\ left' = [i \in Ip |-> IF left[i] > 0 THEN left[i] + 1 ELSE 0]
  /\ UNCHANGED <<code, fails, burst, threads, store, changes, faults, restarts>>

\* The wall clock is set forward: every lockout is over.
ClockForward ==
  /\ steps < MaxSteps /\ steps' = steps + 1
  /\ left' = [i \in Ip |-> 0]
  /\ burst' = [i \in Ip |-> IF left[i] > 0 THEN 0 ELSE burst[i]]
  /\ UNCHANGED <<code, fails, threads, store, changes, faults, restarts>>

\* The daemon restarts: clients.json stays, the limiter and the requests go.
Restart ==
  /\ restarts < MaxRestarts /\ restarts' = restarts + 1
  /\ fails' = [i \in Ip |-> 0] /\ left' = [i \in Ip |-> 0]
  /\ burst' = [i \in Ip |-> 0]
  /\ pc' = [h \in Handler |-> "idle"]
  /\ req' = [h \in Handler |-> NoRequest]
  /\ seen' = [h \in Handler |-> NoCode]
  /\ tok' = [h \in Handler |-> 0]
  /\ UNCHANGED <<code, store, changes, steps, faults>>

-----------------------------------------------------------------------------
Go(h) ==
  \/ PairingDisabled(h) \/ ReadCode(h) \/ WrongPin(h) \/ RightPin(h)
  \/ Pair(h) \/ PairUnread(h) \/ Deliver(h) \/ Revoke(h) \/ RevokeUnread(h)

Arrive(h) ==
  \/ \E i \in Ip, c \in Client, p \in Code : Admit(h, i, c, p)
  \/ \E t \in Token, c \in Client : AskRevoke(h, t, c)

Device ==
  \/ \E c \in Code \cup {NoCode} : SetCode(c)
  \/ Tick \/ ClockBack \/ ClockForward \/ Restart

Next == (\E h \in Handler : Go(h) \/ Arrive(h)) \/ Device

Spec == Init /\ [][Next]_vars

\* Time passes, and a thread that has its request runs it to the end.
FairSpec == Spec /\ WF_vars(Tick) /\ \A h \in Handler : WF_vars(Go(h))

-----------------------------------------------------------------------------
(* Refinement: who is let in is what clients.json says, row by row.         *)

Live == [c \in Client |-> Tokens(RowsOf(c))]
Store == INSTANCE ClientStore WITH live <- Live, used <- 1..minted

-----------------------------------------------------------------------------
(* Properties.                                                              *)

\* Every variable holds a value of its kind.
TypeOK ==
  /\ code \in Code \cup {NoCode}
  /\ rows \subseteq [cid : Client, token : Token]
  /\ fails \in [Ip -> 0..(MaxFails - 1)] /\ left \in [Ip -> Nat]
  /\ burst \in [Ip -> Nat]
  /\ minted \in 0..MaxTokens
  /\ owner \in [Token -> Client \cup {NoClient}] /\ dead \subseteq Token
  /\ lost \subseteq Token
  /\ pc \in [Handler -> {"idle", "code", "pin", "pair", "reply", "revoke"}]
  /\ req \in [Handler -> [ip : Ip \cup {NoClient}, cid : Client \cup {NoClient},
                          pin : Code \cup {NoCode}]]
  /\ seen \in [Handler -> Code \cup {NoCode}]
  /\ tok \in [Handler -> 0..MaxTokens]

\* "so a paired client stays paired forever": a token the app was given is
\* accepted until the client is revoked or pairs again, whatever other clients
\* pair and revoke meanwhile and whatever restarts -- except that a client that
\* pairs while clients.json cannot be read unpairs the others (_load, pair).
DeliveredLive ==
  \A t \in Token : owner[t] # NoClient => (t \in dead \cup lost \/ Accepted(t))

\* A token that was revoked or superseded is never accepted again, whoever was
\* in the middle of pairing when it was.
DeadStaysDead == \A t \in dead : ~Accepted(t)

\* "Brute force is bounded by a per-IP rate limiter": between two moments at
\* which an address is let in afresh no more than MaxFails wrong pins are
\* evaluated for it, and one for each other thread it was let into before.
GuessBound == \A i \in Ip : burst[i] <= MaxFails + Cardinality(Handler) - 1

\* "Keyed by client_id so re-pairing the same device replaces its row instead of
\* piling up": through every interleaving of requests, failing read and restart,
\* one token at most lets a client in, the one granted last; it was granted to
\* nobody before; and nobody's token changes by what another client does, but
\* for the failing read (pair, revoke, _load).
ImplementsStore == Store!Spec

\* An address that is locked out is let in again.
LockoutEnds == \A i \in Ip : left[i] > 0 ~> left[i] = 0

=============================================================================
