---------------------------- MODULE ClientsProofs ----------------------------
(***************************************************************************)
(* Theorems about Clients, for every set of clients, addresses, threads    *)
(* and codes, every limit of the rate limiter and every number of tokens,  *)
(* changes, clock steps, faults and restarts.                              *)
(***************************************************************************)
EXTENDS Clients, FiniteSetTheorems, TLAPS

USE HandlerAssumption, CodeAssumption, LimiterAssumption, BoundAssumption

-----------------------------------------------------------------------------
(* Type correctness.                                                        *)

\* The threads that may still mint a token.
Minting == {h \in Handler : pc[h] \in {"code", "pin", "pair"}}

\* What a thread remembers fits where it is, and no thread mints more tokens
\* than the bound leaves.
Locals ==
  /\ \A h \in Handler :
       /\ pc[h] \in {"code", "pin"} => req[h].ip \in Ip
       /\ pc[h] # "idle" => req[h].cid \in Client
       /\ pc[h] = "reply" => tok[h] \in 1..minted
  /\ minted + Cardinality(Minting) <= MaxTokens

Typed == TypeOK /\ Locals

\* Counting threads.
LEMMA ThreadCount ==
  ASSUME NEW S \in SUBSET Handler
  PROVE  /\ IsFiniteSet(S) /\ Cardinality(S) \in Nat
         /\ \A T \in SUBSET S : Cardinality(T) <= Cardinality(S)
         /\ \A h \in S : Cardinality(S \ {h}) = Cardinality(S) - 1
         /\ \A h \in Handler \ S : Cardinality(S \cup {h}) = Cardinality(S) + 1
<1>1. \A T \in SUBSET Handler : IsFiniteSet(T) /\ Cardinality(T) \in Nat
  BY FS_Subset, FS_CardinalityType
<1> QED
  BY <1>1, FS_Subset, FS_RemoveElement, FS_AddElement

\* When h ends its part, or the daemon restarts, fewer threads are minting.
LEMMA MintingShrinks ==
  ASSUME Typed, Minting' \subseteq Minting, minted' = minted
  PROVE  minted' + Cardinality(Minting') <= MaxTokens
BY ThreadCount DEF Typed, TypeOK, Locals, Minting

\* The initial state is well typed.
LEMMA TypeInit == Init => Typed
<1> SUFFICES ASSUME Init PROVE Typed
  OBVIOUS
<1>1. Minting = {}
  BY DEF Init, Minting
<1>2. Locals
  BY <1>1, FS_EmptySet DEF Init, Locals
<1>3. TypeOK
  BY DEF Init, TypeOK, Token, NoRequest
<1> QED
  BY <1>2, <1>3 DEF Typed

\* A thread that ends its request, with the limiter left well typed.
LEMMA TypeFinish ==
  ASSUME Typed, NEW h \in Handler, Finish(h), code' = code, minted' = minted,
         fails' \in [Ip -> 0..(MaxFails - 1)], left' \in [Ip -> Nat], burst' \in [Ip -> Nat],
         rows' \subseteq [cid : Client, token : Token], dead' \subseteq Token, lost' \subseteq Token,
         owner' \in [Token -> Client \cup {NoClient}]
  PROVE  Typed'
<1> USE DEF Typed, TypeOK, Locals, Finish, NoRequest, Minting
<1>1. Minting' \subseteq Minting
  OBVIOUS
<1>2. minted' + Cardinality(Minting') <= MaxTokens
  BY <1>1, MintingShrinks
<1>3. TypeOK'
  OBVIOUS
<1> QED
  BY <1>2, <1>3

\* A new row is well typed.
LEMMA TypeEnrol ==
  ASSUME Typed, NEW h \in Handler, NEW loaded \in SUBSET rows, Enrol(h, loaded), lost' \subseteq Token
  PROVE  Typed'
<1> USE DEF Typed, TypeOK, Locals, Enrol, limiter
<1>1. h \in Minting /\ Minting' = Minting \ {h}
  BY DEF Minting
<1>2. Cardinality(Minting') = Cardinality(Minting) - 1 /\ Cardinality(Minting) \in Nat
  <2>1. Minting \in SUBSET Handler
    BY DEF Minting
  <2> QED
    BY <1>1, <2>1, ThreadCount
<1>3. Cardinality(Minting) >= 1
  <2>1. Minting' \in SUBSET Handler
    BY DEF Minting
  <2>2. Cardinality(Minting') \in Nat
    BY <2>1, ThreadCount
  <2> QED
    BY <1>2, <2>2
<1>4. minted' \in Token /\ minted' + Cardinality(Minting') <= MaxTokens
  BY <1>2, <1>3 DEF Token
<1>5. rows' \subseteq [cid : Client, token : Token] /\ dead' \subseteq Token
  <2>1. [cid |-> req[h].cid, token |-> minted + 1] \in [cid : Client, token : Token]
    BY <1>4
  <2>2. \A r \in rows : r.token \in Token
    OBVIOUS
  <2>3. Tokens(RowsOf(req[h].cid)) \subseteq Token
    BY <2>2 DEF RowsOf, Tokens
  <2> QED
    BY <2>1, <2>3
<1>6. TypeOK'
  BY <1>4, <1>5 DEF Token
<1> QED
  BY <1>4, <1>6

\* A request of a thread that was idle.
LEMMA TypeArrive == Typed /\ (\E h \in Handler : Arrive(h)) => Typed'
<1> SUFFICES ASSUME Typed, NEW h \in Handler, Arrive(h) PROVE Typed'
  OBVIOUS
<1> USE DEF Typed, TypeOK, Locals, limiter, store, bounds
<1>1. ASSUME NEW i \in Ip, NEW c \in Client, NEW p \in Code, Admit(h, i, c, p)
      PROVE  Typed'
  <2> USE <1>1 DEF Admit
  <2>1. Minting' = Minting \cup {h} /\ h \notin Minting /\ Minting \in SUBSET Handler
    BY DEF Minting
  <2>2. Cardinality(Minting') = Cardinality(Minting) + 1 /\ Cardinality(Minting) \in Nat
    BY <2>1, ThreadCount
  <2>3. Cardinality(Minting) <= Cardinality({g \in Handler : pc[g] # "idle"})
    BY ThreadCount DEF Minting
  <2>4. Cardinality({g \in Handler : pc[g] # "idle"}) \in Nat
    BY ThreadCount
  <2>5. minted' + Cardinality(Minting') <= MaxTokens
    BY <2>2, <2>3, <2>4 DEF Mintable
  <2>6. TypeOK'
    OBVIOUS
  <2> QED
    BY <2>5, <2>6
<1>2. ASSUME NEW t \in Token, NEW c \in Client, AskRevoke(h, t, c)
      PROVE  Typed'
  <2> USE <1>2 DEF AskRevoke, NoRequest
  <2>1. Minting' \subseteq Minting
    BY DEF Minting
  <2>2. minted' + Cardinality(Minting') <= MaxTokens
    BY <2>1, MintingShrinks
  <2>3. TypeOK'
    OBVIOUS
  <2> QED
    BY <2>2, <2>3
<1> QED
  BY <1>1, <1>2 DEF Arrive

\* The next step of a request.
LEMMA TypeGo == Typed /\ (\E h \in Handler : Go(h)) => Typed'
<1> SUFFICES ASSUME Typed, NEW h \in Handler, Go(h) PROVE Typed'
  OBVIOUS
<1> USE DEF Typed, TypeOK, Locals, limiter, store, bounds
<1>1. CASE PairingDisabled(h)
  BY <1>1, TypeFinish DEF PairingDisabled
<1>2. CASE ReadCode(h)
  <2>1. Minting' \subseteq Minting
    BY <1>2 DEF ReadCode, Minting
  <2>2. minted' + Cardinality(Minting') <= MaxTokens
    BY <1>2, <2>1, MintingShrinks DEF ReadCode
  <2> QED
    BY <1>2, <2>2 DEF ReadCode
<1>3. CASE WrongPin(h)
  <2>1. fails' \in [Ip -> 0..(MaxFails - 1)] /\ left' \in [Ip -> Nat] /\ burst' \in [Ip -> Nat]
    BY <1>3 DEF WrongPin, RecordFail
  <2> QED
    BY <1>3, <2>1, TypeFinish DEF WrongPin
<1>4. CASE RightPin(h)
  <2>1. Minting' \subseteq Minting
    BY <1>4 DEF RightPin, Minting
  <2>2. minted' + Cardinality(Minting') <= MaxTokens
    BY <1>4, <2>1, MintingShrinks DEF RightPin
  <2>3. fails' \in [Ip -> 0..(MaxFails - 1)] /\ left' \in [Ip -> Nat] /\ burst' \in [Ip -> Nat]
    BY <1>4 DEF RightPin
  <2> QED
    BY <1>4, <2>2, <2>3 DEF RightPin
<1>5. CASE Pair(h)
  BY <1>5, TypeEnrol DEF Pair
<1>6. CASE PairUnread(h)
  BY <1>6, TypeEnrol DEF PairUnread, Tokens
<1>7. CASE Deliver(h)
  <2>1. tok[h] \in Token /\ req[h].cid \in Client
    BY <1>7 DEF Deliver, Token
  <2> QED
    BY <1>7, <2>1, TypeFinish DEF Deliver
<1>8. CASE Revoke(h)
  BY <1>8, TypeFinish DEF Revoke, RowsOf, Tokens
<1>9. CASE RevokeUnread(h)
  BY <1>9, TypeFinish DEF RevokeUnread
<1> QED
  BY <1>1, <1>2, <1>3, <1>4, <1>5, <1>6, <1>7, <1>8, <1>9 DEF Go

\* The device around the daemon.
LEMMA TypeDevice == Typed /\ Device => Typed'
<1> SUFFICES ASSUME Typed, Device PROVE Typed'
  OBVIOUS
<1> USE DEF Typed, TypeOK, Locals, limiter, store, bounds, threads
<1>1. CASE \E c \in Code \cup {NoCode} : SetCode(c)
  BY <1>1 DEF SetCode, Minting
<1>2. CASE Tick
  <2>1. left' \in [Ip -> Nat] /\ burst' \in [Ip -> Nat]
    BY <1>2 DEF Tick
  <2> QED
    BY <1>2, <2>1 DEF Tick, Minting
<1>3. CASE ClockBack
  BY <1>3 DEF ClockBack, Minting
<1>4. CASE ClockForward
  BY <1>4 DEF ClockForward, Minting
<1>5. CASE Restart
  <2>1. Minting' \subseteq Minting
    BY <1>5 DEF Restart, Minting
  <2>2. minted' + Cardinality(Minting') <= MaxTokens
    BY <1>5, <2>1, MintingShrinks DEF Restart
  <2>3. TypeOK'
    BY <1>5 DEF Restart, NoRequest
  <2> QED
    BY <1>5, <2>2, <2>3 DEF Restart
<1> QED
  BY <1>1, <1>2, <1>3, <1>4, <1>5 DEF Device

LEMMA TypeStep == Typed /\ [Next]_vars => Typed'
<1>1. ASSUME Typed, UNCHANGED vars PROVE Typed'
  BY <1>1 DEF Typed, TypeOK, Locals, Minting, vars, threads, limiter, store, bounds
<1> QED
  BY <1>1, TypeArrive, TypeGo, TypeDevice DEF Next

LEMMA TypeAlways == Spec => []Typed
BY TypeInit, TypeStep, PTL DEF Spec

\* Every variable keeps its kind: no request thread works on an address, a
\* client or a token that is none, and no more tokens are minted than bounded.
THEOREM TypeCorrect == Spec => []TypeOK
BY TypeAlways, PTL DEF Typed

-----------------------------------------------------------------------------
(* The store: what clients.json holds and what has become of every token.   *)

\* A client has one row and a token is in one row; every token minted so far is
\* in a row, or it is dead or lost; no dead one is in a row; and what was
\* delivered had been minted.
StoreInv ==
  /\ \A r, s \in rows : r.cid = s.cid \/ r.token = s.token => r = s
  /\ \A r \in rows : r.token <= minted
  /\ \A t \in dead : t <= minted
  /\ \A t \in 1..minted : t \in dead \cup lost \cup Tokens(rows)
  /\ \A t \in dead : t \notin Tokens(rows)
  /\ \A t \in Token : owner[t] # NoClient => t <= minted

\* The steps that touch the store.
StoreStep == \E h \in Handler : Pair(h) \/ PairUnread(h) \/ Deliver(h) \/ Revoke(h)

LEMMA StoreTouched == [Next]_vars => StoreStep \/ UNCHANGED store
<1> SUFFICES ASSUME [Next]_vars, ~StoreStep PROVE UNCHANGED store
  OBVIOUS
<1> USE DEF store
<1>1. ASSUME NEW h \in Handler, Go(h) PROVE UNCHANGED store
  BY <1>1 DEF Go, StoreStep, PairingDisabled, ReadCode, WrongPin, RightPin, RevokeUnread
<1>2. ASSUME NEW h \in Handler, Arrive(h) PROVE UNCHANGED store
  BY <1>2 DEF Arrive, Admit, AskRevoke
<1>3. ASSUME Device PROVE UNCHANGED store
  BY <1>3 DEF Device, SetCode, Tick, ClockBack, ClockForward, Restart
<1> QED
  BY <1>1, <1>2, <1>3 DEF Next, vars

LEMMA StoreInit == Init => StoreInv
BY DEF Init, StoreInv, Tokens

\* The row of a client is replaced among those that were loaded.
LEMMA StoreEnrol ==
  ASSUME Typed, StoreInv, NEW h \in Handler, NEW loaded \in SUBSET rows, Enrol(h, loaded),
         lost' = lost \cup Tokens((rows \ loaded) \ RowsOf(req[h].cid))
  PROVE  StoreInv'
<1> DEFINE new == [cid |-> req[h].cid, token |-> minted + 1]
<1>0. minted \in Nat /\ rows \subseteq [cid : Client, token : Token] /\ dead \subseteq Token
      /\ Token \subseteq Nat /\ new.cid = req[h].cid /\ new.token = minted + 1
      /\ minted' = minted + 1 /\ owner' = owner
  BY DEF Typed, TypeOK, Token, Enrol
<1>1. rows' = (loaded \ RowsOf(req[h].cid)) \cup {new}
  BY DEF Enrol
<1>2. dead' = dead \cup Tokens(RowsOf(req[h].cid))
  BY DEF Enrol
<1>3. \A r \in rows' : r = new \/ (r \in rows /\ r.cid # new.cid /\ r.token <= minted)
  BY <1>0, <1>1 DEF RowsOf, StoreInv
<1>4. \A r, s \in rows' : r.cid = s.cid \/ r.token = s.token => r = s
  BY <1>0, <1>3 DEF StoreInv
<1>5. \A r \in rows' : r.token <= minted'
  <2>1. \A r \in rows : r.token \in Nat
    BY <1>0
  <2> QED
    BY <2>1, <1>0, <1>3
<1>6. \A t \in dead' : t <= minted /\ t \in Nat
  BY <1>0, <1>2 DEF StoreInv, Tokens, RowsOf
<1>7. \A t \in 1..minted' : t \in dead' \cup lost' \cup Tokens(rows')
  <2> SUFFICES ASSUME NEW t \in 1..minted' PROVE t \in dead' \cup lost' \cup Tokens(rows')
    OBVIOUS
  <2>1. CASE t = minted + 1
    BY <2>1, <1>0, <1>1 DEF Tokens
  <2>2. CASE t \in 1..minted
    <3>1. t \in dead \cup lost \/ \E r \in rows : r.token = t
      BY <2>2 DEF StoreInv, Tokens
    <3>2. ASSUME NEW r \in rows, r.token = t PROVE t \in dead' \cup lost' \cup Tokens(rows')
      <4>1. CASE r \in RowsOf(req[h].cid)
        BY <3>2, <4>1, <1>2 DEF Tokens
      <4>2. CASE r \in loaded \ RowsOf(req[h].cid)
        BY <3>2, <4>2, <1>1 DEF Tokens
      <4>3. CASE r \in (rows \ loaded) \ RowsOf(req[h].cid)
        BY <3>2, <4>3 DEF Tokens
      <4> QED
        BY <4>1, <4>2, <4>3
    <3> QED
      BY <3>1, <3>2, <1>2
  <2> QED
    BY <2>1, <2>2, <1>0
<1>8. \A t \in dead' : t \notin Tokens(rows')
  <2> SUFFICES ASSUME NEW t \in dead', NEW r \in rows', r.token = t PROVE FALSE
    BY DEF Tokens
  <2>1. r # new
    BY <1>0, <1>6
  <2>2. r \in rows /\ r.cid # new.cid
    BY <2>1, <1>3
  <2>3. t \notin dead
    BY <2>2 DEF StoreInv, Tokens
  <2>4. PICK s \in rows : s.cid = req[h].cid /\ s.token = t
    BY <2>3, <1>2 DEF Tokens, RowsOf
  <2>5. r = s
    BY <2>2, <2>4 DEF StoreInv
  <2> QED
    BY <2>2, <2>4, <2>5, <1>0
<1>9. \A t \in Token : owner'[t] # NoClient => t <= minted'
  BY <1>0 DEF StoreInv
<1>10. \A t \in dead' : t <= minted'
  BY <1>0, <1>6
<1> QED
  BY <1>4, <1>5, <1>7, <1>8, <1>9, <1>10 DEF StoreInv

LEMMA StoreStepKeeps == Typed /\ StoreInv /\ [Next]_vars => StoreInv'
<1> SUFFICES ASSUME Typed, StoreInv, [Next]_vars PROVE StoreInv'
  OBVIOUS
<1>1. CASE UNCHANGED store
  BY <1>1 DEF store, StoreInv, Tokens
<1>2. ASSUME NEW h \in Handler, Pair(h) PROVE StoreInv'
  BY <1>2, StoreEnrol DEF Pair, Tokens
<1>3. ASSUME NEW h \in Handler, PairUnread(h) PROVE StoreInv'
  BY <1>3, StoreEnrol DEF PairUnread
<1>4. ASSUME NEW h \in Handler, Deliver(h) PROVE StoreInv'
  <2>1. tok[h] <= minted
    BY <1>4 DEF Deliver, Typed, Locals
  <2>2. \A t \in Token : owner'[t] # NoClient => t <= minted
    BY <1>4, <2>1 DEF Deliver, StoreInv, Typed, TypeOK
  <2> QED
    BY <1>4, <2>2 DEF Deliver, StoreInv, Tokens
<1>5. ASSUME NEW h \in Handler, Revoke(h) PROVE StoreInv'
  <2>1. \A r \in rows' : r \in rows /\ r.cid # req[h].cid
    BY <1>5 DEF Revoke, RowsOf
  <2>2. \A t \in dead' : t \in dead \/ \E s \in rows : s.cid = req[h].cid /\ s.token = t
    BY <1>5 DEF Revoke, RowsOf, Tokens
  <2>3. \A t \in dead' : t \notin Tokens(rows')
    <3> SUFFICES ASSUME NEW r \in rows', r.token \in dead' PROVE FALSE
      BY DEF Tokens
    <3> QED
      BY <2>1, <2>2 DEF StoreInv, Tokens
  <2>4. \A t \in dead' : t <= minted
    BY <2>2 DEF StoreInv
  <2>5. Tokens(rows) \subseteq Tokens(rows') \cup Tokens(RowsOf(req[h].cid))
    BY <1>5 DEF Revoke, Tokens
  <2>6. \A t \in 1..minted : t \in dead' \cup lost \cup Tokens(rows')
    BY <1>5, <2>5 DEF Revoke, StoreInv
  <2> QED
    BY <1>5, <2>1, <2>3, <2>4, <2>6 DEF Revoke, StoreInv
<1> QED
  BY <1>1, <1>2, <1>3, <1>4, <1>5, StoreTouched DEF StoreStep

LEMMA StoreAlways == Spec => [](Typed /\ StoreInv)
<1>1. Typed /\ StoreInv /\ [Next]_vars => (Typed /\ StoreInv)'
  BY TypeStep, StoreStepKeeps
<1> QED
  BY <1>1, TypeInit, StoreInit, PTL DEF Spec

\* A token that was given to an app lets it in until it is revoked or superseded,
\* but for the reads that fail.
THEOREM DeliveredCorrect == Spec => []DeliveredLive
<1>1. Typed /\ StoreInv => DeliveredLive
  BY DEF Typed, TypeOK, StoreInv, DeliveredLive, Accepted, Token
<1> QED
  BY <1>1, StoreAlways, PTL

\* A token that was revoked or superseded is never accepted again, whoever was
\* in the middle of pairing when it was (pair, revoke).
THEOREM DeadCorrect == Spec => []DeadStaysDead
<1>1. StoreInv => DeadStaysDead
  BY DEF StoreInv, Accepted, DeadStaysDead
<1> QED
  BY <1>1, StoreAlways, PTL

-----------------------------------------------------------------------------
(* The store does what ClientStore promises.                                *)

\* Enrolling grants a fresh token, and changes nobody else's unless the file
\* could not be read.
LEMMA EnrolGrants ==
  ASSUME Typed, Typed', NEW h \in Handler, NEW loaded \in {rows, {}}, Enrol(h, loaded)
  PROVE  Store!Next
<1> DEFINE c == req[h].cid
           new == [cid |-> c, token |-> minted + 1]
<1>1. c \in Client /\ minted + 1 \in Token
  BY DEF Typed, TypeOK, Locals, Enrol, Token
<1>2. Store!Fresh(minted + 1)
  <2>1. minted \in Nat /\ minted' = minted + 1
    BY DEF Enrol, Typed, TypeOK
  <2>2. minted + 1 \notin 1..minted /\ 1..minted' = (1..minted) \cup {minted + 1}
    BY <2>1
  <2> QED
    BY <2>2 DEF Store!Fresh
<1>3. rows' = (loaded \ RowsOf(c)) \cup {new}
  BY DEF Enrol
<1>4. Live' = [d \in Client |-> IF d = c THEN {minted + 1}
                                ELSE IF loaded = rows THEN Live[d] ELSE {}]
  <2> SUFFICES ASSUME NEW d \in Client
               PROVE  Tokens(RowsOf(d))' = IF d = c THEN {minted + 1}
                                           ELSE IF loaded = rows THEN Tokens(RowsOf(d)) ELSE {}
    BY DEF Live
  <2>1. CASE d = c
    <3>1. RowsOf(d)' = {new}
      BY <2>1, <1>3 DEF RowsOf
    <3> QED
      BY <2>1, <3>1 DEF Tokens
  <2>2. CASE d # c /\ loaded = rows
    <3>1. RowsOf(d)' = RowsOf(d)
      BY <2>2, <1>3 DEF RowsOf
    <3> QED
      BY <2>2, <3>1 DEF Tokens
  <2>3. CASE d # c /\ loaded # rows
    <3>1. RowsOf(d)' = {}
      BY <2>3, <1>3 DEF RowsOf
    <3> QED
      BY <2>3, <3>1 DEF Tokens
  <2> QED
    BY <2>1, <2>2, <2>3
<1>5. Store!Grant(c, minted + 1) \/ Store!GrantAlone(c, minted + 1)
  <2>1. CASE loaded = rows
    <3>1. Live' = [Live EXCEPT ![c] = {minted + 1}]
      BY <2>1, <1>4 DEF Live
    <3> QED
      BY <3>1, <1>2 DEF Store!Grant
  <2>2. CASE loaded # rows
    <3>1. Live' = [d \in Client |-> IF d = c THEN {minted + 1} ELSE {}]
      BY <2>2, <1>4
    <3> QED
      BY <3>1, <1>2 DEF Store!GrantAlone
  <2> QED
    BY <2>1, <2>2
<1> QED
  BY <1>1, <1>5 DEF Store!Next

LEMMA ClientStep == Typed /\ Typed' /\ [Next]_vars => [Store!Next]_(Store!vars)
<1> SUFFICES ASSUME Typed, Typed', [Next]_vars
             PROVE  Store!Next \/ (Live' = Live /\ minted' = minted)
  BY DEF Store!vars
<1>1. ASSUME rows' = rows, minted' = minted PROVE Live' = Live /\ minted' = minted
  BY <1>1 DEF Live, RowsOf, Tokens
<1>2. CASE UNCHANGED store
  BY <1>1, <1>2 DEF store
<1>3. ASSUME NEW h \in Handler, Pair(h) \/ PairUnread(h) PROVE Store!Next
  BY <1>3, EnrolGrants DEF Pair, PairUnread
<1>4. ASSUME NEW h \in Handler, Deliver(h) PROVE Live' = Live /\ minted' = minted
  BY <1>1, <1>4 DEF Deliver
<1>5. ASSUME NEW h \in Handler, Revoke(h) PROVE Store!Next
  <2> DEFINE c == req[h].cid
  <2>1. c \in Client
    BY <1>5 DEF Typed, Locals, Revoke
  <2>2. Live' = [Live EXCEPT ![c] = {}]
    <3> SUFFICES ASSUME NEW d \in Client
                 PROVE  Tokens(RowsOf(d))' = IF d = c THEN {} ELSE Tokens(RowsOf(d))
      BY DEF Live
    <3>1. RowsOf(d)' = IF d = c THEN {} ELSE RowsOf(d)
      BY <1>5 DEF Revoke, RowsOf
    <3> QED
      BY <3>1 DEF Tokens
  <2>3. minted' = minted
    BY <1>5 DEF Revoke
  <2> QED
    BY <2>1, <2>2, <2>3 DEF Store!Next, Store!Revoke
<1> QED
  BY <1>2, <1>3, <1>4, <1>5, StoreTouched DEF StoreStep

\* Pairing and revoking, in threads of their own, with failing reads, lost replies
\* and restarts, do to the store what ClientStore says: one fresh token for the
\* client, the other clients left alone but for a failing read.
THEOREM StoreImplemented == Spec => ImplementsStore
<1>1. Init => Store!Init
  BY DEF Init, Store!Init, Live, RowsOf, Tokens
<1> QED
  BY <1>1, TypeAlways, ClientStep, PTL DEF Spec, ImplementsStore, Store!Spec

-----------------------------------------------------------------------------
(* The rate limiter.                                                        *)

\* The threads that have been let in for an address and not yet judged.
Trying(i) == {h \in Handler : pc[h] \in {"code", "pin"} /\ req[h].ip = i}

\* An address that is not locked out has used as many guesses as were counted;
\* one that is locked out has used up all, and those already let in may add one
\* each, but the one that started the lockout.
Limited ==
  \A i \in Ip :
    IF left[i] = 0 THEN burst[i] <= fails[i]
    ELSE burst[i] + Cardinality(Trying(i)) <= MaxFails + Cardinality(Handler) - 1

LEMMA LimitedInit == Init => Limited
BY DEF Init, Limited

\* Fewer threads are trying, and the limiter is left alone.
LEMMA TryingShrinks ==
  ASSUME Typed, Limited, NEW i \in Ip, Trying(i)' \subseteq Trying(i),
         left'[i] = left[i], burst'[i] = burst[i], fails'[i] = fails[i]
  PROVE  IF left'[i] = 0 THEN burst'[i] <= fails'[i]
         ELSE burst'[i] + Cardinality(Trying(i)') <= MaxFails + Cardinality(Handler) - 1
<1>1. Cardinality(Trying(i)') <= Cardinality(Trying(i)) /\ Cardinality(Trying(i)) \in Nat
  BY ThreadCount DEF Trying
<1>2. Cardinality(Trying(i)') \in Nat /\ Cardinality(Handler) \in Nat
  BY ThreadCount DEF Trying
<1> QED
  BY <1>1, <1>2 DEF Limited, Typed, TypeOK

\* A wrong pin.
LEMMA LimitedWrong ==
  ASSUME Typed, Limited, NEW h \in Handler, WrongPin(h) PROVE Limited'
<1> SUFFICES ASSUME NEW i \in Ip
             PROVE  IF left'[i] = 0 THEN burst'[i] <= fails'[i]
                    ELSE burst'[i] + Cardinality(Trying(i)') <= MaxFails + Cardinality(Handler) - 1
  BY DEF Limited
<1> DEFINE a == req[h].ip
<1>1. pc' = [pc EXCEPT ![h] = "idle"] /\ req' = [req EXCEPT ![h] = NoRequest]
      /\ h \in Trying(a) /\ a \in Ip
  BY DEF WrongPin, Finish, Trying, Typed, Locals
<1>2. Trying(i)' \subseteq Trying(i) /\ h \notin Trying(i)'
  BY <1>1 DEF Trying, Typed, TypeOK
<1>3. CASE i # a
  <2>1. left'[i] = left[i] /\ burst'[i] = burst[i] /\ fails'[i] = fails[i]
    BY <1>3 DEF WrongPin, RecordFail, Typed, TypeOK
  <2> QED
    BY <2>1, <1>2, TryingShrinks
<1>4. CASE i = a
  <2>1. /\ burst[i] \in Nat /\ fails[i] \in 0..(MaxFails - 1) /\ left[i] \in Nat
        /\ burst'[i] = burst[i] + 1
        /\ fails'[i] = IF fails[i] + 1 >= MaxFails THEN 0 ELSE fails[i] + 1
        /\ left'[i] = IF fails[i] + 1 >= MaxFails THEN Lockout ELSE left[i]
    BY <1>4 DEF WrongPin, RecordFail, Typed, TypeOK
  <2>2. Cardinality(Trying(i)') \in Nat /\ Cardinality(Handler) \in Nat
        /\ Cardinality(Trying(i)) \in Nat
    BY ThreadCount DEF Trying
  <2>3. Cardinality(Trying(i)') <= Cardinality(Handler) - 1
    <3>1. Trying(i)' \in SUBSET (Handler \ {h}) /\ Handler \ {h} \in SUBSET Handler
      BY <1>2 DEF Trying
    <3>2. Cardinality(Trying(i)') <= Cardinality(Handler \ {h})
      BY <3>1, ThreadCount
    <3> QED
      BY <3>2, ThreadCount
  <2>4. Cardinality(Trying(i)') <= Cardinality(Trying(i)) - 1
    <3>1. Trying(i)' \in SUBSET (Trying(i) \ {h}) /\ Trying(i) \ {h} \in SUBSET Handler
          /\ Trying(i) \in SUBSET Handler /\ h \in Trying(i)
      BY <1>1, <1>2, <1>4 DEF Trying
    <3>2. Cardinality(Trying(i)') <= Cardinality(Trying(i) \ {h})
      BY <3>1, ThreadCount
    <3> QED
      BY <3>1, <3>2, ThreadCount
  <2>5. CASE left[i] = 0
    BY <2>1, <2>2, <2>3, <2>5 DEF Limited
  <2>6. CASE left[i] # 0
    BY <2>1, <2>2, <2>4, <2>6 DEF Limited
  <2> QED
    BY <2>5, <2>6
<1> QED
  BY <1>3, <1>4

\* A right pin, the clock and the daemon: what they do to an address is to leave
\* it alone, to shift its lockout, or to let it in with no more guesses than
\* are counted for it.
LEMMA LimitedShift ==
  ASSUME Typed, Limited,
         \A i \in Ip : /\ Trying(i)' \subseteq Trying(i)
                       /\ \/ left'[i] = 0 /\ burst'[i] <= fails'[i]
                          \/ left[i] # 0 /\ left'[i] # 0 /\ burst'[i] = burst[i]
                          \/ left'[i] = left[i] /\ burst'[i] = burst[i] /\ fails'[i] = fails[i]
  PROVE  Limited'
<1> SUFFICES ASSUME NEW i \in Ip, ~(left'[i] = 0 /\ burst'[i] <= fails'[i])
             PROVE  IF left'[i] = 0 THEN burst'[i] <= fails'[i]
                    ELSE burst'[i] + Cardinality(Trying(i)') <= MaxFails + Cardinality(Handler) - 1
  BY DEF Limited
<1>1. CASE left'[i] = left[i] /\ burst'[i] = burst[i] /\ fails'[i] = fails[i]
  BY <1>1, TryingShrinks
<1>2. CASE left[i] # 0 /\ burst'[i] = burst[i] /\ left'[i] # 0
  <2>1. Cardinality(Trying(i)') <= Cardinality(Trying(i)) /\ Cardinality(Trying(i)) \in Nat
        /\ Cardinality(Trying(i)') \in Nat /\ Cardinality(Handler) \in Nat
    BY ThreadCount DEF Trying
  <2> QED
    BY <1>2, <2>1 DEF Limited, Typed, TypeOK
<1> QED
  BY <1>1, <1>2

LEMMA LimitedStep == Typed /\ Limited /\ [Next]_vars => Limited'
<1> SUFFICES ASSUME Typed, Limited, [Next]_vars PROVE Limited'
  OBVIOUS
<1> USE DEF Typed, TypeOK, Trying, limiter, threads
<1>1. ASSUME NEW h \in Handler, Go(h) PROVE Limited'
  <2>1. CASE WrongPin(h)
    BY <2>1, LimitedWrong
  <2>2. CASE RightPin(h)
    BY <2>2, LimitedShift DEF RightPin
  <2>3. CASE PairingDisabled(h)
    BY <2>3, LimitedShift DEF PairingDisabled, Finish
  <2>4. CASE ReadCode(h)
    BY <2>4, LimitedShift DEF ReadCode
  <2>5. CASE Pair(h) \/ PairUnread(h)
    BY <2>5, LimitedShift DEF Pair, PairUnread, Enrol
  <2>6. CASE Deliver(h) \/ Revoke(h) \/ RevokeUnread(h)
    BY <2>6, LimitedShift DEF Deliver, Revoke, RevokeUnread, Finish
  <2> QED
    BY <1>1, <2>1, <2>2, <2>3, <2>4, <2>5, <2>6 DEF Go
<1>2. ASSUME NEW h \in Handler, Arrive(h) PROVE Limited'
  <2>1. ASSUME NEW i \in Ip, NEW c \in Client, NEW p \in Code, Admit(h, i, c, p)
        PROVE  Limited'
    <3>1. \A j \in Ip : j # i => Trying(j)' \subseteq Trying(j)
      BY <2>1 DEF Admit
    <3>2. \A j \in Ip : j # i => IF left'[j] = 0 THEN burst'[j] <= fails'[j]
             ELSE burst'[j] + Cardinality(Trying(j)') <= MaxFails + Cardinality(Handler) - 1
      BY <2>1, <3>1, TryingShrinks DEF Admit
    <3>3. left'[i] = 0 /\ burst'[i] <= fails'[i]
      BY <2>1 DEF Admit, Limited
    <3> QED
      BY <3>2, <3>3 DEF Limited
  <2>2. ASSUME NEW t \in Token, NEW c \in Client, AskRevoke(h, t, c) PROVE Limited'
    BY <2>2, LimitedShift DEF AskRevoke
  <2> QED
    BY <1>2, <2>1, <2>2 DEF Arrive
<1>3. ASSUME Device PROVE Limited'
  <2>1. CASE \E c \in Code \cup {NoCode} : SetCode(c)
    BY <2>1, LimitedShift DEF SetCode
  <2>2. CASE Tick
    BY <2>2, LimitedShift DEF Tick
  <2>3. CASE ClockBack
    BY <2>3, LimitedShift DEF ClockBack
  <2>4. CASE ClockForward
    BY <2>4, LimitedShift DEF ClockForward, Limited
  <2>5. CASE Restart
    BY <2>5, LimitedShift DEF Restart
  <2> QED
    BY <1>3, <2>1, <2>2, <2>3, <2>4, <2>5 DEF Device
<1>4. CASE UNCHANGED vars
  BY <1>4, LimitedShift DEF vars
<1> QED
  BY <1>1, <1>2, <1>3, <1>4 DEF Next

\* Between two moments at which an address is let in afresh, no more wrong pins
\* are evaluated for it than the limit and one for each other thread.
THEOREM GuessBoundCorrect == Spec => []GuessBound
<1>1. Typed /\ Limited => GuessBound
  <2> SUFFICES ASSUME Typed, Limited, NEW i \in Ip
               PROVE  burst[i] <= MaxFails + Cardinality(Handler) - 1
    BY DEF GuessBound
  <2>1. Cardinality(Handler) \in Nat /\ Cardinality(Handler) >= 1
    BY ThreadCount, FS_EmptySet
  <2>2. Cardinality(Trying(i)) \in Nat
    BY ThreadCount DEF Trying
  <2> QED
    BY <2>1, <2>2 DEF Typed, TypeOK, Limited
<1>2. Typed /\ Limited /\ [Next]_vars => (Typed /\ Limited)'
  BY TypeStep, LimitedStep
<1> QED
  BY <1>1, <1>2, TypeInit, LimitedInit, PTL DEF Spec

-----------------------------------------------------------------------------
(* The kernel of LockoutEnds. Liveness is beyond the prover; what makes it   *)
(* true is that nobody can prolong a lockout for ever.                      *)

\* While an address is locked out no thread is let in for it, and what makes
\* its lockout last longer is a clock that is set back, or a wrong pin of a
\* thread that was let in before and is done with that.
Dwindles(i) ==
  left[i] > 0 /\ left'[i] > 0 =>
    /\ Trying(i)' \subseteq Trying(i)
    /\ left'[i] > left[i] =>
         steps' = steps + 1 \/ \E h \in Trying(i) : Trying(i)' = Trying(i) \ {h}

\* Every lockout dwindles (rate_limited, record_fail).
LockoutDwindles == [][\A i \in Ip : Dwindles(i)]_vars

\* Fewer threads are trying, and the lockout is no longer.
LEMMA DwindlesStay ==
  ASSUME Typed, NEW i \in Ip, Trying(i)' \subseteq Trying(i), left'[i] \in Nat, left'[i] <= left[i]
  PROVE  Dwindles(i)
BY DEF Dwindles, Typed, TypeOK

LEMMA DwindlesWrong ==
  ASSUME Typed, NEW h \in Handler, WrongPin(h), NEW i \in Ip
  PROVE  Dwindles(i)
<1>1. /\ pc' = [pc EXCEPT ![h] = "idle"] /\ req' = [req EXCEPT ![h] = NoRequest]
      /\ h \in Trying(req[h].ip) /\ req[h].ip \in Ip
  BY DEF WrongPin, Finish, Trying, Typed, Locals
<1>2. Trying(i)' = Trying(i) \ {h}
  BY <1>1 DEF Trying, Typed, TypeOK
<1>3. CASE i = req[h].ip
  BY <1>1, <1>2, <1>3 DEF Dwindles
<1>4. CASE i # req[h].ip
  <2>1. left'[i] = left[i] /\ left[i] \in Nat
    BY <1>4 DEF WrongPin, RecordFail, Typed, TypeOK
  <2> QED
    BY <1>2, <2>1, DwindlesStay
<1> QED
  BY <1>3, <1>4

LEMMA DwindlesStep == ASSUME Typed, [Next]_vars, NEW i \in Ip PROVE Dwindles(i)
<1> USE DEF Typed, TypeOK, Trying, limiter, threads
<1>1. left[i] \in Nat
  OBVIOUS
<1>2. ASSUME NEW h \in Handler, Go(h) PROVE Dwindles(i)
  <2>1. CASE WrongPin(h)
    BY <2>1, DwindlesWrong
  <2>2. CASE RightPin(h)
    <3>1. Trying(i)' \subseteq Trying(i) /\ left'[i] \in {0, left[i]}
      BY <2>2 DEF RightPin
    <3> QED
      BY <1>1, <3>1, DwindlesStay
  <2>3. CASE PairingDisabled(h) \/ ReadCode(h)
    BY <2>3, DwindlesStay DEF PairingDisabled, ReadCode, Finish
  <2>4. CASE Pair(h) \/ PairUnread(h)
    BY <2>4, DwindlesStay DEF Pair, PairUnread, Enrol
  <2>5. CASE Deliver(h) \/ Revoke(h) \/ RevokeUnread(h)
    <3>1. Trying(i)' \subseteq Trying(i)
      BY <2>5 DEF Deliver, Revoke, RevokeUnread, Finish
    <3>2. left' = left
      BY <2>5 DEF Deliver, Revoke, RevokeUnread
    <3> QED
      BY <1>1, <3>1, <3>2, DwindlesStay
  <2> QED
    BY <1>2, <2>1, <2>2, <2>3, <2>4, <2>5 DEF Go
<1>3. ASSUME NEW h \in Handler, Arrive(h) PROVE Dwindles(i)
  <2>1. ASSUME NEW j \in Ip, NEW c \in Client, NEW p \in Code, Admit(h, j, c, p)
        PROVE  Dwindles(i)
    <3>1. CASE i = j
      BY <2>1, <3>1 DEF Admit, Dwindles
    <3>2. CASE i # j
      BY <2>1, <3>2, DwindlesStay DEF Admit
    <3> QED
      BY <3>1, <3>2
  <2>2. ASSUME NEW t \in Token, NEW c \in Client, AskRevoke(h, t, c)
        PROVE  Dwindles(i)
    BY <2>2, DwindlesStay DEF AskRevoke
  <2> QED
    BY <1>3, <2>1, <2>2 DEF Arrive
<1>4. ASSUME Device PROVE Dwindles(i)
  <2>1. CASE \E c \in Code \cup {NoCode} : SetCode(c)
    BY <2>1, DwindlesStay DEF SetCode
  <2>2. CASE Tick
    BY <2>2, DwindlesStay DEF Tick
  <2>3. CASE ClockBack
    BY <2>3 DEF ClockBack, Dwindles
  <2>4. CASE ClockForward \/ Restart
    BY <2>4 DEF ClockForward, Restart, Dwindles
  <2> QED
    BY <1>4, <2>1, <2>2, <2>3, <2>4 DEF Device
<1>5. CASE UNCHANGED vars
  BY <1>5, DwindlesStay DEF vars
<1> QED
  BY <1>2, <1>3, <1>4, <1>5 DEF Next

\* The kernel of LockoutEnds: each thread that was let in before a lockout can
\* prolong it once, and nobody else can.
THEOREM LockoutDwindlesCorrect == Spec => LockoutDwindles
<1>1. ASSUME Typed, [Next]_vars
      PROVE  [\A i \in Ip : Dwindles(i)]_vars
  BY <1>1, DwindlesStep
<1> QED
  BY TypeInit, TypeStep, <1>1, PTL DEF Spec, LockoutDwindles
=============================================================================
