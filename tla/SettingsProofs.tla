---------------------------- MODULE SettingsProofs ----------------------------
(***************************************************************************)
(* Theorems about Settings, for any params, backup, threads and number of  *)
(* upgrades.                                                               *)
(***************************************************************************)
EXTENDS Settings, TLAPS

-----------------------------------------------------------------------------
(* Type correctness.                                                        *)

Label == {"idle", "clear", "clear_lru", "look", "load", "keep", "store", "return",
          "check", "write", "each", "extras", "dead"}
Kind == {"none", "first", "watch", "schema", "refresh", "put", "restore"}
Request == [kind : Kind, flavour : Flavour, key : 0..NKeys, value : Value \cup {Bad, Unset}]

\* What each label says of the locals of a thread.
Locals(t) ==
  /\ req[t].kind = "put" => req[t].key \in Key
  /\ pc[t] \in {"check", "write"} => /\ req[t].kind = "put"
                                     /\ req[t].key \notin Extra => got[t] # None
  /\ pc[t] \in {"each", "extras"} => req[t].kind = "restore" /\ next[t] \in 1..(NKeys + 1)

Typed ==
  /\ TypeOK
  /\ pc \in [Thread -> Label] /\ req \in [Thread -> Request]
  /\ \A t \in Thread : Locals(t)

\* What the steps need to know of the constants.
LEMMA Constants ==
  /\ NKeys \in Nat /\ MaxVersion \in Nat /\ Index \in Key /\ Extra \subseteq Key
  /\ Backup \in [Key -> Value \cup {Bad, Unset}]
  /\ TRUE \in Flavour /\ FALSE \in Flavour /\ 0 \in Version
BY VersionAssumption, KeyAssumption DEF Version, Flavour

LEMMA PlainTyped == \A k \in Kind, f \in Flavour : Plain(k, f) \in Request
<1>1. 0 \in 0..NKeys /\ Unset \in Value \cup {Bad, Unset}
  BY Constants
<1> QED
  BY <1>1, Zenon DEF Plain, Request

LEMMA TypeInit == Init => Typed
<1> SUFFICES ASSUME Init PROVE Typed
  OBVIOUS
<1>1. \A k \in {"none", "first"} : Plain(k, FALSE) \in Request
  BY PlainTyped, Constants DEF Kind
<1>2. pc \in [Thread -> Label] /\ req \in [Thread -> Request]
  <2>1. pc \in [Thread -> Label]
    BY DEF Init, Label
  <2>2. \A t \in Thread : Plain(IF t = Watcher THEN "first" ELSE "none", FALSE) \in Request
    BY <1>1
  <2> QED
    BY <2>1, <2>2 DEF Init
<1>3. \A t \in Thread : Locals(t)
  BY DEF Init, Locals, Plain
<1>4. onroad \in BOOLEAN /\ off \in [Thread -> BOOLEAN]
  BY Zenon DEF Init
<1>5. /\ version \in Version /\ lru \in Version \cup {None} /\ cache \in [Flavour -> Version \cup {None}]
      /\ store \in [Key -> Value \cup {Unset}] /\ got \in [Thread -> Version \cup {None}]
      /\ next \in [Thread -> 0..(NKeys + 1)] /\ over \in [Thread -> SUBSET Key]
  BY Constants DEF Init
<1>6. \A t \in Thread : pc[t] \in {"check", "write"} /\ req[t].key \notin Extra => got[t] # None
  BY <1>3 DEF Locals
<1> QED
  BY <1>2, <1>3, <1>4, <1>5, <1>6, Zenon DEF Typed, TypeOK

\* One thread moves: what has to be shown of the others is what was.
LEMMA Moves ==
  ASSUME Typed, NEW t \in Thread, NEW l \in Label, NEW r \in Request,
         NEW g \in Version \cup {None}, NEW n \in 0..(NKeys + 1),
         pc' = [pc EXCEPT ![t] = l], req' = [req EXCEPT ![t] = r],
         got' = [got EXCEPT ![t] = g], next' = [next EXCEPT ![t] = n],
         r.kind = "put" => r.key \in Key,
         l \in {"check", "write"} => r.kind = "put" /\ (r.key \notin Extra => g # None),
         l \in {"each", "extras"} => r.kind = "restore" /\ n \in 1..(NKeys + 1),
         version' \in Version, lru' \in Version \cup {None},
         cache' \in [Flavour -> Version \cup {None}], onroad' \in BOOLEAN,
         store' \in [Key -> Value \cup {Unset}],
         off' \in [Thread -> BOOLEAN], over' \in [Thread -> SUBSET Key]
  PROVE  Typed'
<1>1. /\ pc \in [Thread -> Label] /\ req \in [Thread -> Request]
      /\ got \in [Thread -> Version \cup {None}] /\ next \in [Thread -> 0..(NKeys + 1)]
  BY DEF Typed, TypeOK
<1>2. /\ pc' \in [Thread -> Label] /\ req' \in [Thread -> Request]
      /\ got' \in [Thread -> Version \cup {None}] /\ next' \in [Thread -> 0..(NKeys + 1)]
  BY <1>1
<1>3. /\ pc'[t] = l /\ req'[t] = r /\ got'[t] = g /\ next'[t] = n
      /\ \A u \in Thread \ {t} : pc'[u] = pc[u] /\ req'[u] = req[u] /\ got'[u] = got[u] /\ next'[u] = next[u]
  BY <1>1
<1>4. ASSUME NEW u \in Thread
      PROVE  Locals(u)'
  <2>1. CASE u = t
    BY <1>3, <2>1 DEF Locals
  <2>2. CASE u # t
    BY <1>3, <2>2 DEF Locals, Typed
  <2> QED
    BY <2>1, <2>2
<1>5. \A u \in Thread : pc'[u] \in {"check", "write"} /\ req'[u].key \notin Extra => got'[u] # None
  BY <1>4 DEF Locals
<1> QED
  BY <1>2, <1>4, <1>5, Zenon DEF Typed, TypeOK

\* What a step may rely on.
LEMMA Parts ==
  ASSUME Typed, NEW t \in Thread
  PROVE  /\ pc[t] \in Label /\ req[t] \in Request /\ got[t] \in Version \cup {None}
         /\ next[t] \in 0..(NKeys + 1) /\ Locals(t)
         /\ req[t].flavour \in Flavour /\ cache[req[t].flavour] \in Version \cup {None}
         /\ pc = [pc EXCEPT ![t] = pc[t]] /\ req = [req EXCEPT ![t] = req[t]]
         /\ got = [got EXCEPT ![t] = got[t]] /\ next = [next EXCEPT ![t] = next[t]]
         /\ version \in Version /\ lru \in Version \cup {None}
         /\ cache \in [Flavour -> Version \cup {None}]
         /\ store \in [Key -> Value \cup {Unset}] /\ over \in [Thread -> SUBSET Key]
<1>1. req[t] \in Request
  BY DEF Typed
<1>2. req[t].flavour \in Flavour
  BY <1>1, Zenon DEF Request
<1> QED
  BY <1>1, <1>2 DEF Typed, TypeOK

LEMMA Bits == Typed => onroad \in BOOLEAN /\ off \in [Thread -> BOOLEAN]
BY Zenon DEF Typed, TypeOK

LEMMA Words ==
  /\ {"idle", "clear", "clear_lru", "look", "load", "keep", "store", "return", "check", "write",
      "each", "extras", "dead"} \subseteq Label
  /\ {"none", "first", "watch", "schema", "refresh", "put", "restore"} \subseteq Kind
BY DEF Label, Kind

\* The end of a request, and of one that leaves nothing.
LEMMA TypeEnd ==
  ASSUME Typed, NEW t \in Thread, End(t), UNCHANGED <<version, caches, onroad>>,
         store' \in [Key -> Value \cup {Unset}], over' \in [Thread -> SUBSET Key]
  PROVE  Typed'
<1>1. NoRequest \in Request /\ NoRequest.kind = "none"
  BY PlainTyped, Constants, Words DEF NoRequest, Plain
<1>2. None \in Version \cup {None} /\ 0 \in 0..(NKeys + 1) /\ "idle" \in Label
  BY Constants, Words
<1>3. /\ version' \in Version /\ lru' \in Version \cup {None}
      /\ cache' \in [Flavour -> Version \cup {None}]
  BY Parts DEF caches
<1>4. onroad' \in BOOLEAN
  BY Bits, Zenon
<1>5. off' \in [Thread -> BOOLEAN]
  <2>1. off \in [Thread -> BOOLEAN] /\ off' = [off EXCEPT ![t] = FALSE]
    BY Bits, Zenon DEF End
  <2> QED
    BY <2>1
<1> QED
  BY <1>1, <1>2, <1>3, <1>4, <1>5, Moves DEF End, Go

LEMMA TypeLeave == ASSUME Typed, NEW t \in Thread, Leave(t) PROVE Typed'
<1>1. store' \in [Key -> Value \cup {Unset}] /\ over' \in [Thread -> SUBSET Key]
  BY Parts DEF Leave
<1> QED
  BY <1>1, TypeEnd DEF Leave

\* A request comes in.
LEMMA TypeTake ==
  ASSUME Typed, NEW t \in Thread, NEW r \in Request, NEW l \in Label, Take(t, r, l),
         r.kind = "put" => r.key \in Key, l \notin {"write", "each", "extras"},
         l = "check" => r.kind = "put" /\ r.key \in Extra
  PROVE  Typed'
<1>1. /\ version' \in Version /\ lru' \in Version \cup {None}
      /\ cache' \in [Flavour -> Version \cup {None}]
      /\ store' \in [Key -> Value \cup {Unset}] /\ over' \in [Thread -> SUBSET Key]
  BY Parts DEF caches, Take
<1>2. onroad' \in BOOLEAN
  BY Bits, Zenon DEF Take
<1>3. off' \in [Thread -> BOOLEAN]
  <2>1. off \in [Thread -> BOOLEAN] /\ off' = [off EXCEPT ![t] = ~onroad]
    BY Bits, Zenon DEF Take
  <2> QED
    BY <2>1
<1>4. /\ got[t] \in Version \cup {None} /\ next[t] \in 0..(NKeys + 1)
      /\ pc' = [pc EXCEPT ![t] = l] /\ req' = [req EXCEPT ![t] = r]
      /\ got' = [got EXCEPT ![t] = got[t]] /\ next' = [next EXCEPT ![t] = next[t]]
  BY Parts DEF Take, Go
<1> QED
  BY <1>1, <1>2, <1>3, <1>4, Moves

LEMMA TypeAsk == ASSUME Typed, (\E t \in Handler : Ask(t)) \/ AskTick PROVE Typed'
<1> USE Words
<1>1. Watcher \in Thread /\ \A t \in Handler : t \in Thread
  BY DEF Thread
<1>2. ASSUME NEW t \in Handler, NEW f \in Flavour, NEW refresh \in BOOLEAN, AskSchema(t, f, refresh)
      PROVE  Typed'
  <2> DEFINE k == IF refresh THEN "refresh" ELSE "schema"
             l == IF refresh THEN "clear" ELSE "look"
  <2>1. k \in Kind /\ k # "put" /\ l \in Label /\ l \notin {"check", "write", "each", "extras"}
    OBVIOUS
  <2>2. Plain(k, f) \in Request /\ Plain(k, f).kind = k
    BY <2>1, PlainTyped DEF Plain
  <2>3. Take(t, Plain(k, f), l)
    BY <1>2 DEF AskSchema
  <2> HIDE DEF k, l
  <2> QED
    BY <1>1, <2>1, <2>2, <2>3, TypeTake
<1>3. ASSUME NEW t \in Handler, AskRestore(t)
      PROVE  Typed'
  <2>1. Plain("restore", TRUE) \in Request /\ Plain("restore", TRUE).kind = "restore"
    BY PlainTyped, Constants DEF Plain
  <2>2. Take(t, Plain("restore", TRUE), "look")
    BY <1>3 DEF AskRestore
  <2> QED
    BY <1>1, <2>1, <2>2, TypeTake
<1>4. CASE AskTick
  <2>1. Plain("watch", FALSE) \in Request /\ Plain("watch", FALSE).kind = "watch"
    BY PlainTyped, Constants DEF Plain
  <2>2. Take(Watcher, Plain("watch", FALSE), "clear")
    BY <1>4 DEF AskTick
  <2> QED
    BY <1>1, <2>1, <2>2, TypeTake
<1>5. ASSUME NEW k \in Key, NEW v \in Value \cup {Bad, Unset}
      PROVE  LET r == [kind |-> "put", flavour |-> TRUE, key |-> k, value |-> v]
             IN  r \in Request /\ r.kind = "put" /\ r.key = k
  <2>1. k \in 0..NKeys /\ TRUE \in Flavour
    <3>1. k \in 0..NKeys
      BY Constants DEF Key
    <3> QED
      BY <3>1, Constants, Zenon
  <2>2. [kind |-> "put", flavour |-> TRUE, key |-> k, value |-> v] \in Request
    BY <2>1, Zenon DEF Request
  <2> QED
    BY <2>2
<1>6. ASSUME NEW t \in Handler, NEW k \in Key, NEW v \in Value \cup {Bad}, AskPut(t, k, v)
      PROVE  Typed'
  <2> DEFINE r == [kind |-> "put", flavour |-> TRUE, key |-> k, value |-> v]
             l == IF k \in Extra THEN "check" ELSE "look"
  <2>1. r \in Request /\ r.kind = "put" /\ r.key = k
    BY <1>5
  <2>2. l \in Label /\ l \notin {"write", "each", "extras"} /\ (l = "check" => k \in Extra)
    OBVIOUS
  <2>3. Take(t, r, l)
    BY <1>6 DEF AskPut
  <2> HIDE DEF r, l
  <2> QED
    BY <1>1, <2>1, <2>2, <2>3, TypeTake
<1>7. ASSUME NEW t \in Handler, NEW k \in Key, AskDelete(t, k)
      PROVE  Typed'
  <2> DEFINE r == [kind |-> "put", flavour |-> TRUE, key |-> k, value |-> Unset]
  <2>1. r \in Request /\ r.kind = "put" /\ r.key = k
    BY <1>5
  <2>2. Take(t, r, "check") /\ k \in Extra
    BY <1>7 DEF AskDelete
  <2> HIDE DEF r
  <2> QED
    BY <1>1, <2>1, <2>2, TypeTake
<1> QED
  BY <1>2, <1>3, <1>4, <1>6, <1>7 DEF Ask

\* Building a schema and taking it from the cache.
LEMMA TypeSchema ==
  ASSUME Typed, NEW t \in Thread,
         \/ ClearCache(t) \/ ClearLru(t) \/ Look(t) \/ LoadCached(t) \/ LoadRead(t) \/ LoadKeep(t)
         \/ StoreSchema(t) \/ ReturnIndex(t)
  PROVE  Typed'
<1> USE Words
<1>1. onroad' \in BOOLEAN /\ off' \in [Thread -> BOOLEAN]
  BY Bits, Zenon DEF ClearCache, ClearLru, Look, LoadCached, LoadRead, LoadKeep, StoreSchema, ReturnIndex,
     history
<1>2. /\ version' \in Version /\ store' \in [Key -> Value \cup {Unset}] /\ over' \in [Thread -> SUBSET Key]
      /\ req' = [req EXCEPT ![t] = req[t]]
  BY Parts DEF ClearCache, ClearLru, Look, LoadCached, LoadRead, LoadKeep, StoreSchema, ReturnIndex, history
<1>3. lru' \in Version \cup {None} /\ cache' \in [Flavour -> Version \cup {None}]
  <2>1. CASE ClearCache(t)
    BY <2>1, Parts DEF ClearCache
  <2>2. CASE StoreSchema(t)
    BY <2>2, Parts DEF StoreSchema
  <2>3. CASE ~ClearCache(t) /\ ~StoreSchema(t)
    BY <2>3, Parts DEF ClearLru, Look, LoadCached, LoadRead, LoadKeep, ReturnIndex, caches
  <2> QED
    BY <2>1, <2>2, <2>3
<1>4. CASE ReturnIndex(t)
  <2> DEFINE f == cache[req[t].flavour]
             l == IF req[t].kind = "put" THEN "check" ELSE "each"
             n == IF req[t].kind = "put" THEN 0 ELSE 1
  <2>1. /\ f \in Version \cup {None} /\ f # None /\ req[t].kind \in {"put", "restore"}
        /\ got' = [got EXCEPT ![t] = f] /\ pc' = [pc EXCEPT ![t] = l] /\ next' = [next EXCEPT ![t] = n]
    BY <1>4, Parts DEF ReturnIndex, Go
  <2>2. l \in Label /\ n \in 0..(NKeys + 1) /\ (l = "each" => n \in 1..(NKeys + 1))
    BY Constants
  <2>3. /\ l \in {"check", "write"} => req[t].kind = "put"
        /\ l \in {"each", "extras"} => l = "each" /\ req[t].kind = "restore"
    BY <2>1
  <2> HIDE DEF f, l, n
  <2> QED
    BY <1>1, <1>2, <1>3, <2>1, <2>2, <2>3, Parts, Moves DEF Locals
<1>5. ASSUME NEW l \in Label, l \notin {"check", "write", "each", "extras"},
             NEW g \in Version \cup {None},
             pc' = [pc EXCEPT ![t] = l], got' = [got EXCEPT ![t] = g], next' = next
      PROVE  Typed'
  BY <1>1, <1>2, <1>3, <1>5, Parts, Moves DEF Locals
<1>6. ASSUME got' = got, next' = next, NEW l \in Label, l \notin {"check", "write", "each", "extras"},
             pc' = [pc EXCEPT ![t] = l]
      PROVE  Typed'
  BY <1>5, <1>6, Parts
<1>7. CASE ClearCache(t) \/ ClearLru(t) \/ LoadKeep(t) \/ StoreSchema(t)
  BY <1>6, <1>7 DEF ClearCache, ClearLru, LoadKeep, StoreSchema, Go
<1>8. CASE Look(t)
  BY <1>6, <1>8 DEF Look, Go
<1>9. CASE LoadCached(t) \/ LoadRead(t)
  BY <1>5, <1>9, Parts DEF LoadCached, LoadRead, Go
<1> QED
  BY <1>4, <1>7, <1>8, <1>9

\* A checked write.
LEMMA TypeWrite ==
  ASSUME Typed, NEW t \in Thread, CheckPass(t) \/ Write(t)
  PROVE  Typed'
<1>1. CASE CheckPass(t)
  <2>1. onroad' \in BOOLEAN /\ off' \in [Thread -> BOOLEAN]
    BY <1>1, Bits, Zenon DEF CheckPass, history
  <2>2. /\ version' \in Version /\ store' \in [Key -> Value \cup {Unset}] /\ over' \in [Thread -> SUBSET Key]
        /\ lru' \in Version \cup {None} /\ cache' \in [Flavour -> Version \cup {None}]
        /\ req' = [req EXCEPT ![t] = req[t]] /\ got' = [got EXCEPT ![t] = got[t]]
        /\ next' = [next EXCEPT ![t] = next[t]] /\ pc' = [pc EXCEPT ![t] = "write"] /\ pc[t] = "check"
    BY <1>1, Parts DEF CheckPass, history, caches, At, Go
  <2> QED
    BY <2>1, <2>2, Parts, Words, Moves DEF Locals
<1>2. CASE Write(t)
  <2>1. req[t].value \in Value \cup {Unset} /\ req[t].key \in Key
    <3>1. req[t].value \in Value \cup {Bad, Unset}
      BY Parts, Zenon DEF Request
    <3>2. req[t].key \in Key
      BY <1>2, Parts DEF Write, At, Locals
    <3> QED
      BY <1>2, <3>1, <3>2 DEF Write
  <2>2. store' \in [Key -> Value \cup {Unset}]
    BY <1>2, <2>1, Parts DEF Write
  <2>3. over' \in [Thread -> SUBSET Key]
    BY <1>2, <2>1, Parts DEF Write, Overwrites
  <2> QED
    BY <1>2, <2>2, <2>3, TypeEnd DEF Write
<1> QED
  BY <1>1, <1>2

\* A restore.
LEMMA TypeRestore ==
  ASSUME Typed, NEW t \in Thread,
         RestoreSkip(t) \/ RestoreKey(t) \/ RestoreValues(t) \/ ExtraSkip(t) \/ ExtraKey(t)
  PROVE  Typed'
<1>1. onroad' \in BOOLEAN /\ off' \in [Thread -> BOOLEAN]
  BY Bits, Zenon DEF RestoreSkip, RestoreKey, RestoreValues, ExtraSkip, ExtraKey, history
<1>2. /\ version' \in Version /\ lru' \in Version \cup {None} /\ cache' \in [Flavour -> Version \cup {None}]
      /\ req' = [req EXCEPT ![t] = req[t]] /\ got' = [got EXCEPT ![t] = got[t]]
      /\ pc[t] \in {"each", "extras"} /\ req[t].kind = "restore" /\ next[t] \in 1..(NKeys + 1)
  BY Parts DEF RestoreSkip, RestoreKey, RestoreValues, ExtraSkip, ExtraKey, history, caches, At, Locals
<1>3. store' \in [Key -> Value \cup {Unset}] /\ over' \in [Thread -> SUBSET Key]
  <2>1. CASE RestoreKey(t) \/ ExtraKey(t)
    <3>1. next[t] \in Key
      BY <1>2, <2>1, Constants DEF RestoreKey, ExtraKey, Key
    <3>2. Backup[next[t]] \in Value
      BY <2>1, <3>1, Constants DEF RestoreKey, ExtraKey, Skips, Carried
    <3>3. store' = [store EXCEPT ![next[t]] = Backup[next[t]]]
      BY <2>1 DEF RestoreKey, ExtraKey
    <3>4. over' = Overwrites(t, next[t], over[t] \ {next[t]})
      BY <2>1 DEF RestoreKey, ExtraKey
    <3> QED
      BY <3>1, <3>2, <3>3, <3>4, Parts DEF Overwrites
  <2>2. CASE RestoreSkip(t) \/ RestoreValues(t) \/ ExtraSkip(t)
    BY <2>2, Parts DEF RestoreSkip, RestoreValues, ExtraSkip, history
  <2> QED
    BY <2>1, <2>2
<1>4. CASE RestoreSkip(t) \/ RestoreKey(t) \/ ExtraSkip(t) \/ ExtraKey(t)
  <2>1. /\ next' = [next EXCEPT ![t] = next[t] + 1] /\ next[t] <= NKeys
        /\ pc' = [pc EXCEPT ![t] = pc[t]]
    BY <1>4, Parts DEF RestoreSkip, RestoreKey, ExtraSkip, ExtraKey
  <2>2. next[t] + 1 \in 1..(NKeys + 1) /\ next[t] + 1 \in 0..(NKeys + 1)
    BY <1>2, <2>1, Constants
  <2>3. pc[t] \in Label /\ got[t] \in Version \cup {None} /\ req[t] \in Request
    BY Parts
  <2> DEFINE n == next[t] + 1
  <2>4. next' = [next EXCEPT ![t] = n] /\ n \in 1..(NKeys + 1) /\ n \in 0..(NKeys + 1)
    BY <2>1, <2>2
  <2> HIDE DEF n
  <2> QED
    BY <1>1, <1>2, <1>3, <2>1, <2>3, <2>4, Moves
<1>5. CASE RestoreValues(t)
  <2>1. next' = [next EXCEPT ![t] = 1] /\ pc' = [pc EXCEPT ![t] = "extras"]
    BY <1>5 DEF RestoreValues, Go
  <2>2. 1 \in 1..(NKeys + 1) /\ 1 \in 0..(NKeys + 1) /\ "extras" \in Label
    BY Constants, Words
  <2>3. got[t] \in Version \cup {None} /\ req[t] \in Request
    BY Parts
  <2> QED
    BY <1>1, <1>2, <1>3, <2>1, <2>2, <2>3, Moves
<1> QED
  BY <1>4, <1>5

LEMMA TypeRestoreEnd == ASSUME Typed, NEW t \in Thread, RestoreEnd(t) PROVE Typed'
<1>1. store' \in [Key -> Value \cup {Unset}] /\ over' \in [Thread -> SUBSET Key]
  <2>1. CASE UNCHANGED store /\ over' = [over EXCEPT ![t] = {}]
    BY <2>1, Parts
  <2>2. CASE \E v \in Value : store' = [store EXCEPT ![Index] = v] /\ over' = Overwrites(t, Index, {})
    BY <2>2, Parts, Constants DEF Overwrites
  <2> QED
    BY <2>1, <2>2 DEF RestoreEnd
<1> QED
  BY <1>1, TypeEnd DEF RestoreEnd

LEMMA TypeStep == ASSUME Typed, [Next]_vars PROVE Typed'
<1>1. ASSUME NEW t \in Thread, Run(t)
      PROVE  Typed'
  <2>1. ReturnSchema(t) \/ ReturnGone(t) \/ CheckRefuse(t) \/ WriteInvalid(t) => Leave(t)
    BY DEF ReturnSchema, ReturnGone, CheckRefuse, WriteInvalid
  <2> QED
    BY <1>1, <2>1, TypeSchema, TypeWrite, TypeRestore, TypeRestoreEnd, TypeLeave DEF Run
<1>2. CASE UNCHANGED <<caches, store, threads>> /\ version' \in Version /\ onroad' \in BOOLEAN
           /\ off' \in [Thread -> BOOLEAN] /\ over' \in [Thread -> SUBSET Key]
  <2>1. /\ lru' = lru /\ cache' = cache /\ store' = store /\ pc' = pc /\ req' = req /\ got' = got
        /\ next' = next
    BY <1>2 DEF caches, threads
  <2>2. \A t \in Thread : Locals(t)'
    BY <2>1 DEF Typed, Locals
  <2> QED
    BY <1>2, <2>1, <2>2, Zenon DEF Typed, TypeOK
<1>3. CASE WatcherDies
  <2>1. Watcher \in Thread
    BY DEF Thread
  <2>2. onroad' \in BOOLEAN /\ off' \in [Thread -> BOOLEAN]
    BY <1>3, Bits, Zenon DEF WatcherDies, history
  <2>3. /\ version' \in Version /\ store' \in [Key -> Value \cup {Unset}] /\ over' \in [Thread -> SUBSET Key]
        /\ lru' \in Version \cup {None} /\ cache' \in [Flavour -> Version \cup {None}]
        /\ req' = [req EXCEPT ![Watcher] = req[Watcher]] /\ got' = [got EXCEPT ![Watcher] = got[Watcher]]
        /\ next' = [next EXCEPT ![Watcher] = next[Watcher]] /\ pc' = [pc EXCEPT ![Watcher] = "dead"]
    BY <1>3, <2>1, Parts DEF WatcherDies, history, caches, Go
  <2> QED
    BY <2>1, <2>2, <2>3, Parts, Words, Moves DEF Locals
<1>4. CASE Upgrade
  <2>1. version' \in Version
    BY <1>4, Constants DEF Upgrade, Version, Typed, TypeOK
  <2>2. onroad' \in BOOLEAN /\ off' \in [Thread -> BOOLEAN] /\ over' \in [Thread -> SUBSET Key]
    BY <1>4, Zenon DEF Upgrade, history, Typed, TypeOK
  <2> QED
    BY <1>2, <1>4, <2>1, <2>2 DEF Upgrade
<1>5. CASE Toggle
  <2>1. version' \in Version /\ over' \in [Thread -> SUBSET Key]
    BY <1>5, Zenon DEF Toggle, Typed, TypeOK
  <2>2. onroad' \in BOOLEAN
    BY <1>5, Zenon DEF Toggle
  <2>3. off' \in [Thread -> BOOLEAN]
    BY <1>5, Zenon DEF Toggle
  <2> QED
    BY <1>2, <1>5, <2>1, <2>2, <2>3 DEF Toggle
<1>6. CASE UNCHANGED vars
  <2>1. UNCHANGED <<caches, store, threads>> /\ version' = version /\ onroad' = onroad /\ off' = off
        /\ over' = over
    BY <1>6 DEF vars, history
  <2>2. version' \in Version /\ onroad' \in BOOLEAN /\ off' \in [Thread -> BOOLEAN] /\ over' \in [Thread -> SUBSET Key]
    BY <2>1, Zenon DEF Typed, TypeOK
  <2> QED
    BY <1>2, <2>1, <2>2
<1> QED
  BY <1>1, <1>3, <1>4, <1>5, <1>6, TypeAsk DEF Next

\* Every variable keeps to its kind (Settings).
THEOREM TypeCorrect == Spec => []TypeOK
<1>1. Typed => TypeOK
  BY DEF Typed
<1> QED
  BY TypeInit, TypeStep, <1>1, PTL DEF Spec

-----------------------------------------------------------------------------
(* The gate.                                                                *)

\* What a step of one thread leaves of the others, and of itself.
Own(t) == <<pc[t], req[t], got[t], next[t], off[t]>>

\* A thread has been offroad when the car is, when it restores, and when it is
\* about to write what is offroad-only.
Open(t) ==
  /\ ~onroad /\ pc[t] # "idle" => off[t]
  /\ req[t].kind = "restore" => off[t]
  /\ pc[t] = "write" /\ Offroad(t, req[t].key) => off[t]
Gate == \A t \in Handler : Open(t)

\* Every step of a thread is its own.
LEMMA Alone ==
  ASSUME Typed, NEW t \in Thread, Run(t) \/ Ask(t) \/ (t = Watcher /\ (AskTick \/ WatcherDies))
  PROVE  onroad' = onroad /\ \A u \in Thread \ {t} : Own(u)' = Own(u)
<1> USE DEF Own, Go, At, End, Leave, Take, history
<1>1. /\ pc \in [Thread -> Label] /\ req \in [Thread -> Request] /\ got \in [Thread -> Version \cup {None}]
      /\ next \in [Thread -> 0..(NKeys + 1)]
  BY DEF Typed, TypeOK
<1>2. off \in [Thread -> BOOLEAN]
  BY Bits
<1>3. \A r, l : Take(t, r, l) => onroad' = onroad /\ \A u \in Thread \ {t} : Own(u)' = Own(u)
  BY <1>1, <1>2
<1>4. End(t) => \A u \in Thread \ {t} : Own(u)' = Own(u)
  BY <1>1, <1>2
<1>5. Ask(t) \/ (t = Watcher /\ AskTick) => onroad' = onroad /\ \A u \in Thread \ {t} : Own(u)' = Own(u)
  BY <1>3, Zenon DEF Ask, AskSchema, AskPut, AskDelete, AskRestore, AskTick
<1>6. \/ ReturnSchema(t) \/ ReturnGone(t) \/ CheckRefuse(t) \/ Write(t) \/ WriteInvalid(t) \/ RestoreEnd(t)
      => onroad' = onroad /\ \A u \in Thread \ {t} : Own(u)' = Own(u)
  BY <1>4 DEF ReturnSchema, ReturnGone, CheckRefuse, Write, WriteInvalid, RestoreEnd
<1>7. \/ ClearCache(t) \/ ClearLru(t) \/ Look(t) \/ LoadCached(t) \/ LoadRead(t) \/ LoadKeep(t)
      \/ StoreSchema(t) \/ ReturnIndex(t)
      => onroad' = onroad /\ \A u \in Thread \ {t} : Own(u)' = Own(u)
  BY <1>1, <1>2 DEF ClearCache, ClearLru, Look, LoadCached, LoadRead, LoadKeep, StoreSchema, ReturnIndex, caches
<1>8. \/ CheckPass(t) \/ RestoreSkip(t) \/ RestoreKey(t) \/ RestoreValues(t) \/ ExtraSkip(t) \/ ExtraKey(t)
      \/ (t = Watcher /\ WatcherDies)
      => onroad' = onroad /\ \A u \in Thread \ {t} : Own(u)' = Own(u)
  BY <1>1, <1>2 DEF CheckPass, RestoreSkip, RestoreKey, RestoreValues, ExtraSkip, ExtraKey, WatcherDies, caches
<1> QED
  BY <1>5, <1>6, <1>7, <1>8, Zenon DEF Run

\* A thread that runs keeps the gate.
LEMMA GateRun ==
  ASSUME Typed, NEW t \in Handler, Open(t), Run(t)
  PROVE  Open(t)'
<1> USE DEF Go, At, history
<1>1. /\ t \in Thread /\ pc \in [Thread -> Label] /\ req \in [Thread -> Request]
      /\ got \in [Thread -> Version \cup {None}]
  BY DEF Typed, TypeOK, Thread
<1>2. off \in [Thread -> BOOLEAN] /\ onroad \in BOOLEAN
  BY Bits
<1>3. ASSUME End(t)
      PROVE  Open(t)'
  <2>1. pc'[t] = "idle" /\ req'[t].kind = "none"
    BY <1>1, <1>3 DEF End, NoRequest, Plain
  <2> QED
    BY <2>1 DEF Open
<1>4. \/ ReturnSchema(t) \/ ReturnGone(t) \/ CheckRefuse(t) \/ Write(t) \/ WriteInvalid(t) \/ RestoreEnd(t)
      => End(t)
  BY DEF ReturnSchema, ReturnGone, CheckRefuse, Write, WriteInvalid, RestoreEnd, Leave
<1>5. CASE CheckPass(t)
  <2>1. pc[t] = "check" /\ req' = req /\ got' = got /\ off' = off /\ onroad' = onroad
    BY <1>5 DEF CheckPass
  <2>2. Offroad(t, req[t].key) => ~onroad
    BY <1>5, Zenon DEF CheckPass
  <2>3. Offroad(t, req[t].key)' <=> Offroad(t, req[t].key)
    BY <2>1 DEF Offroad
  <2> QED
    BY <2>1, <2>2, <2>3 DEF Open
<1>6. ASSUME pc[t] # "idle", pc'[t] # "write", req' = req, off' = off, onroad' = onroad
      PROVE  Open(t)'
  BY <1>6 DEF Open
<1>7. CASE \/ ClearCache(t) \/ ClearLru(t) \/ Look(t) \/ LoadCached(t) \/ LoadRead(t) \/ LoadKeep(t)
           \/ StoreSchema(t) \/ ReturnIndex(t)
  BY <1>1, <1>6, <1>7 DEF ClearCache, ClearLru, Look, LoadCached, LoadRead, LoadKeep, StoreSchema, ReturnIndex
<1>8. CASE RestoreSkip(t) \/ RestoreKey(t) \/ RestoreValues(t) \/ ExtraSkip(t) \/ ExtraKey(t)
  BY <1>1, <1>6, <1>8 DEF RestoreSkip, RestoreKey, RestoreValues, ExtraSkip, ExtraKey
<1> QED
  BY <1>3, <1>4, <1>5, <1>7, <1>8 DEF Run

\* So does one that starts.
LEMMA GateAsk ==
  ASSUME Typed, NEW t \in Handler, Ask(t)
  PROVE  Open(t)'
<1>1. /\ t \in Thread /\ pc \in [Thread -> Label] /\ req \in [Thread -> Request]
  BY DEF Typed, Thread
<1>2. off \in [Thread -> BOOLEAN] /\ onroad \in BOOLEAN
  BY Bits
<1>3. ASSUME NEW r, NEW l, Take(t, r, l), l # "write", r.kind = "restore" => ~onroad
      PROVE  Open(t)'
  <2>1. pc'[t] = l /\ req'[t] = r /\ onroad' = onroad /\ (off'[t] <=> ~onroad)
    BY <1>1, <1>2, <1>3 DEF Take, Go
  <2> QED
    BY <1>3, <2>1 DEF Open
<1>4. ASSUME NEW f \in Flavour, NEW refresh \in BOOLEAN, AskSchema(t, f, refresh)
      PROVE  Open(t)'
  <2> DEFINE r == Plain(IF refresh THEN "refresh" ELSE "schema", f)
  <2>1. r.kind # "restore"
    BY DEF Plain
  <2> HIDE DEF r
  <2> QED
    BY <1>3, <1>4, <2>1 DEF AskSchema, r
<1>5. ASSUME NEW k \in Key, NEW v, AskPut(t, k, v) \/ AskDelete(t, k)
      PROVE  Open(t)'
  BY <1>3, <1>5 DEF AskPut, AskDelete
<1>6. CASE AskRestore(t)
  BY <1>3, <1>6 DEF AskRestore
<1> QED
  BY <1>4, <1>5, <1>6 DEF Ask

LEMMA GateStep == ASSUME Typed, Gate, [Next]_vars PROVE Gate'
<1>1. ASSUME NEW u \in Handler, NEW t \in Thread \ {u}, onroad' = onroad,
             \A w \in Thread \ {t} : Own(w)' = Own(w)
      PROVE  Open(u)'
  <2>1. Own(u)' = Own(u)
    BY <1>1 DEF Thread
  <2>2. pc'[u] = pc[u] /\ req'[u] = req[u] /\ got'[u] = got[u] /\ off'[u] = off[u]
    BY <2>1 DEF Own
  <2> QED
    BY <1>1, <2>2 DEF Gate, Open, Offroad
<1>2. ASSUME NEW t \in Thread, Run(t) \/ (t = Watcher /\ (AskTick \/ WatcherDies))
      PROVE  Gate'
  <2>1. onroad' = onroad /\ \A u \in Thread \ {t} : Own(u)' = Own(u)
    BY <1>2, Alone
  <2>2. ASSUME NEW u \in Handler
        PROVE  Open(u)'
    <3>1. CASE u = t
      BY <1>2, <3>1, GateRun, KeyAssumption DEF Gate
    <3>2. CASE u # t
      BY <1>1, <2>1, <3>2
    <3> QED
      BY <3>1, <3>2
  <2> QED
    BY <2>2 DEF Gate
<1>3. ASSUME NEW t \in Handler, Ask(t)
      PROVE  Gate'
  <2>1. onroad' = onroad /\ \A u \in Thread \ {t} : Own(u)' = Own(u)
    BY <1>3, Alone DEF Thread
  <2>2. ASSUME NEW u \in Handler
        PROVE  Open(u)'
    <3>1. CASE u = t
      BY <1>3, <3>1, GateAsk
    <3>2. CASE u # t
      BY <1>1, <2>1, <3>2 DEF Thread
    <3> QED
      BY <3>1, <3>2
  <2> QED
    BY <2>2 DEF Gate
<1>4. Watcher \in Thread
  BY DEF Thread
<1>5. CASE Upgrade
  <2>1. pc' = pc /\ req' = req /\ got' = got /\ off' = off /\ onroad' = onroad
    BY <1>5 DEF Upgrade, caches, threads, history
  <2> QED
    BY <2>1 DEF Gate, Open, Offroad
<1>6. CASE UNCHANGED vars
  <2>1. pc' = pc /\ req' = req /\ got' = got /\ off' = off /\ onroad' = onroad
    BY <1>6 DEF vars, caches, threads, history
  <2> QED
    BY <2>1 DEF Gate, Open, Offroad
<1>7. CASE Toggle
  <2>1. pc' = pc /\ req' = req /\ got' = got
    BY <1>7 DEF Toggle, threads
  <2>2. \A u \in Handler : (off'[u] <=> off[u] \/ (onroad /\ pc[u] # "idle")) /\ (onroad' <=> ~onroad)
    BY <1>7, Zenon DEF Toggle, Thread
  <2> QED
    BY <2>1, <2>2 DEF Gate, Open, Offroad
<1> QED
  BY <1>2, <1>3, <1>4, <1>5, <1>6, <1>7 DEF Next

\* What changes the params, and whose step it is.
LEMMA Writers ==
  ASSUME Typed, [Next]_vars, NEW t \in Thread, NEW k \in Key, store'[k] # store[k],
         pc'[t] # pc[t] \/ next'[t] # next[t]
  PROVE  \/ Write(t) /\ k = req[t].key
         \/ (RestoreKey(t) \/ ExtraKey(t)) /\ k = next[t]
         \/ RestoreEnd(t) /\ k = Index
<1>1. store \in [Key -> Value \cup {Unset}]
  BY DEF Typed, TypeOK
<1>2. \A u \in Thread : Run(u) => u = t
  BY Alone, Zenon DEF Own
<1>3. ~(\E u \in Handler : Ask(u)) /\ ~AskTick /\ ~WatcherDies /\ ~Upgrade /\ ~Toggle /\ ~UNCHANGED vars
  <2>1. \A r, l, u : ~Take(u, r, l)
    BY DEF Take
  <2> QED
    BY <2>1, Zenon DEF Ask, AskSchema, AskPut, AskDelete, AskRestore, AskTick, WatcherDies, Upgrade, Toggle, vars
<1>4. Run(t)
  BY <1>2, <1>3 DEF Next
<1>5. Write(t) \/ RestoreKey(t) \/ ExtraKey(t) \/ RestoreEnd(t)
  BY <1>4 DEF Run, ClearCache, ClearLru, Look, LoadCached, LoadRead, LoadKeep, StoreSchema, ReturnIndex,
     ReturnSchema, ReturnGone, CheckPass, CheckRefuse, WriteInvalid, RestoreSkip, RestoreValues, ExtraSkip, Leave
<1> QED
  BY <1>1, <1>5 DEF Write, RestoreKey, ExtraKey, RestoreEnd

LEMMA GateWrite ==
  ASSUME Typed, Gate, [Next]_vars, NEW t \in Handler, NEW k \in Key, store'[k] # store[k],
         pc'[t] # pc[t] \/ next'[t] # next[t], Offroad(t, k)
  PROVE  off[t]
<1>1. t \in Thread /\ Open(t)
  BY DEF Thread, Gate
<1>2. CASE Write(t) /\ k = req[t].key
  BY <1>1, <1>2 DEF Write, At, Open
<1>3. CASE RestoreKey(t) \/ ExtraKey(t) \/ RestoreEnd(t)
  <2>1. pc[t] \in {"each", "extras"}
    BY <1>3 DEF RestoreKey, ExtraKey, RestoreEnd, At
  <2>2. req[t].kind = "restore"
    BY <1>1, <2>1, Parts DEF Locals
  <2> QED
    BY <1>1, <2>2 DEF Open
<1> QED
  BY <1>1, <1>2, <1>3, Writers

\* "reject writes while onroad": what is offroad-only is written by no request
\* that has been onroad all the while (_put_param, _restore).
THEOREM GateCorrect == Spec => GateHonoured
<1>1. Init => Gate
  <2> SUFFICES ASSUME Init, NEW t \in Handler PROVE Open(t)
    BY DEF Gate
  <2>1. t \in Thread /\ t # Watcher
    BY KeyAssumption DEF Thread
  <2>2. pc[t] = "idle" /\ req[t].kind = "none"
    BY <2>1 DEF Init, Plain
  <2> QED
    BY <2>2 DEF Open
<1>2. ASSUME Typed, Gate, [Next]_vars
      PROVE  [\A t \in Handler, k \in Key :
                /\ store'[k] # store[k]
                /\ pc'[t] # pc[t] \/ next'[t] # next[t]
                /\ Offroad(t, k)
                => off[t]]_vars
  BY <1>2, GateWrite
<1> QED
  BY TypeInit, TypeStep, GateStep, <1>1, <1>2, PTL DEF Spec, GateHonoured

-----------------------------------------------------------------------------
(* Restores.                                                                *)

\* A key has its value from the backup, or from a later request.
Kept(t, k) == store[k] = Backup[k] \/ k \in over[t]

\* How far a restore has come.
Far(t) ==
  /\ pc[t] = "each" => \A k \in 1..(next[t] - 1) : ~Skips(t, k) => Kept(t, k)
  /\ pc[t] = "extras" => /\ \A k \in Key : ~Skips(t, k) => Kept(t, k)
                         /\ \A k \in 1..(next[t] - 1) : Carried(k) => Kept(t, k)
Progress == \A t \in Thread : Far(t)

\* What others write a restore remembers.
LEMMA Remembered ==
  ASSUME Typed, [Next]_vars, NEW t \in Thread, ~Run(t), ~Ask(t), pc[t] \in {"each", "extras"},
         NEW k \in Key, Kept(t, k)
  PROVE  Kept(t, k)'
<1>1. req[t].kind = "restore"
  BY Parts DEF Locals
<1>2. store \in [Key -> Value \cup {Unset}] /\ over \in [Thread -> SUBSET Key]
  BY DEF Typed, TypeOK
<1>3. ASSUME NEW u \in Thread, NEW i \in Key, NEW o, store' = [store EXCEPT ![i] = store'[i]],
             over' = Overwrites(u, i, o), u # t
      PROVE  Kept(t, k)'
  <2>1. over'[t] = over[t] \cup {i}
    BY <1>1, <1>3 DEF Overwrites
  <2>2. k # i => store'[k] = store[k]
    BY <1>2, <1>3
  <2> QED
    BY <2>1, <2>2 DEF Kept
<1>4. ASSUME NEW u \in Thread, store' = store, over' = over \/ over' = [over EXCEPT ![u] = {}], u # t
      PROVE  Kept(t, k)'
  BY <1>2, <1>4 DEF Kept
<1>5. ASSUME NEW u \in Thread, Run(u)
      PROVE  Kept(t, k)'
  <2>1. u # t
    BY <1>5
  <2>2. CASE Write(u)
    <3>1. req[u].key \in Key
      BY <2>2, Parts DEF Write, At, Locals
    <3>2. store' = [store EXCEPT ![req[u].key] = store'[req[u].key]]
      BY <1>2, <2>2, <3>1 DEF Write
    <3>3. over' = Overwrites(u, req[u].key, {})
      BY <2>2 DEF Write
    <3> QED
      BY <1>3, <2>1, <3>1, <3>2, <3>3
  <2>3. CASE RestoreKey(u) \/ ExtraKey(u)
    <3>1. next[u] \in 1..(NKeys + 1) /\ next[u] <= NKeys
      BY <2>3, Parts DEF RestoreKey, ExtraKey, At, Locals
    <3>2. next[u] \in Key
      BY <3>1, Constants DEF Key
    <3>3. store' = [store EXCEPT ![next[u]] = store'[next[u]]]
      BY <1>2, <2>3, <3>2 DEF RestoreKey, ExtraKey
    <3>4. over' = Overwrites(u, next[u], over[u] \ {next[u]})
      BY <2>3 DEF RestoreKey, ExtraKey
    <3> QED
      BY <1>3, <2>1, <3>2, <3>3, <3>4
  <2>4. CASE RestoreEnd(u)
    <3>1. CASE UNCHANGED store /\ over' = [over EXCEPT ![u] = {}]
      BY <1>4, <2>1, <3>1
    <3>2. CASE \E v \in Value : store' = [store EXCEPT ![Index] = v] /\ over' = Overwrites(u, Index, {})
      <4>1. Index \in Key
        BY Constants
      <4>2. store' = [store EXCEPT ![Index] = store'[Index]]
        BY <1>2, <3>2, <4>1
      <4> QED
        BY <1>3, <2>1, <3>2, <4>1, <4>2
    <3> QED
      BY <2>4, <3>1, <3>2 DEF RestoreEnd
  <2>5. CASE ReturnSchema(u) \/ ReturnGone(u) \/ CheckRefuse(u) \/ WriteInvalid(u)
    BY <1>4, <2>1, <2>5 DEF ReturnSchema, ReturnGone, CheckRefuse, WriteInvalid, Leave
  <2>6. CASE \/ ClearCache(u) \/ ClearLru(u) \/ Look(u) \/ LoadCached(u) \/ LoadRead(u) \/ LoadKeep(u)
             \/ StoreSchema(u) \/ ReturnIndex(u) \/ CheckPass(u) \/ RestoreSkip(u) \/ RestoreValues(u)
             \/ ExtraSkip(u)
    BY <1>4, <2>1, <2>6 DEF ClearCache, ClearLru, Look, LoadCached, LoadRead, LoadKeep, StoreSchema, ReturnIndex,
       CheckPass, RestoreSkip, RestoreValues, ExtraSkip, history
  <2> QED
    BY <1>5, <2>2, <2>3, <2>4, <2>5, <2>6 DEF Run
<1>6. ASSUME store' = store, over' = over
      PROVE  Kept(t, k)'
  BY <1>6 DEF Kept
<1>7. (\E u \in Handler : Ask(u)) \/ AskTick \/ WatcherDies \/ Upgrade \/ Toggle \/ UNCHANGED vars
      => store' = store /\ over' = over
  <2>1. \A r, l, u : Take(u, r, l) => store' = store /\ over' = over
    BY DEF Take
  <2> QED
    BY <2>1, Zenon DEF Ask, AskSchema, AskPut, AskDelete, AskRestore, AskTick, WatcherDies, Upgrade, Toggle,
       vars, history
<1> QED
  BY <1>5, <1>6, <1>7 DEF Next

\* The steps of a restore.
LEMMA ProgressRun == ASSUME Typed, NEW t \in Thread, Far(t), Run(t) PROVE Far(t)'
<1> USE DEF At, Go
<1>1. /\ pc \in [Thread -> Label] /\ got \in [Thread -> Version \cup {None}]
      /\ next \in [Thread -> 0..(NKeys + 1)] /\ NKeys \in Nat
      /\ store \in [Key -> Value \cup {Unset}] /\ over \in [Thread -> SUBSET Key]
  BY Constants DEF Typed, TypeOK
<1>2. ASSUME pc'[t] \notin {"each", "extras"}
      PROVE  Far(t)'
  BY <1>2 DEF Far
<1>3. CASE ReturnIndex(t)
  <2>1. pc'[t] \in {"each", "check"} /\ (pc'[t] = "each" => next'[t] = 1)
    BY <1>1, <1>3 DEF ReturnIndex
  <2> QED
    BY <2>1 DEF Far
<1>4. CASE \/ ReturnSchema(t) \/ ReturnGone(t) \/ CheckRefuse(t) \/ Write(t) \/ WriteInvalid(t) \/ RestoreEnd(t)
  <2>1. End(t)
    BY <1>4 DEF ReturnSchema, ReturnGone, CheckRefuse, Write, WriteInvalid, RestoreEnd, Leave
  <2>2. pc'[t] = "idle"
    BY <1>1, <2>1 DEF End
  <2> QED
    BY <1>2, <2>2
<1>5. CASE \/ ClearCache(t) \/ ClearLru(t) \/ Look(t) \/ LoadCached(t) \/ LoadRead(t) \/ LoadKeep(t)
           \/ StoreSchema(t) \/ CheckPass(t)
  <2>1. pc'[t] \notin {"each", "extras"}
    BY <1>1, <1>5 DEF ClearCache, ClearLru, Look, LoadCached, LoadRead, LoadKeep, StoreSchema, CheckPass
  <2> QED
    BY <1>2, <2>1
<1>6. CASE RestoreValues(t)
  <2>1. /\ pc[t] = "each" /\ next[t] > NKeys /\ pc'[t] = "extras" /\ next'[t] = 1
        /\ store' = store /\ over' = over /\ got' = got
    BY <1>1, <1>6 DEF RestoreValues, history
  <2>2. \A k \in Key : k \in 1..(next[t] - 1)
    BY <1>1, <2>1 DEF Key
  <2>3. \A k \in Key : Skips(t, k)' = Skips(t, k) /\ Kept(t, k)' = Kept(t, k)
    BY <2>1 DEF Skips, Restorable, Kept
  <2> QED
    BY <2>1, <2>2, <2>3 DEF Far
<1>7. CASE RestoreSkip(t) \/ RestoreKey(t) \/ ExtraSkip(t) \/ ExtraKey(t)
  <2>0. next[t] \in 1..(NKeys + 1) /\ next[t] <= NKeys
    BY <1>7, Parts DEF RestoreSkip, RestoreKey, ExtraSkip, ExtraKey, Locals
  <2> PICK n \in Key : n = next[t]
    BY <1>1, <2>0 DEF Key
  <2>1. /\ n \in Key /\ next'[t] = n + 1 /\ pc' = pc /\ got' = got /\ pc[t] \in {"each", "extras"}
    BY <1>1, <1>7 DEF RestoreSkip, RestoreKey, ExtraSkip, ExtraKey
  <2>2. \A k : Skips(t, k)' = Skips(t, k)
    BY <2>1 DEF Skips, Restorable
  <2>3. \A k \in Key : Kept(t, k) => Kept(t, k)'
    <3>1. CASE RestoreSkip(t) \/ ExtraSkip(t)
      BY <3>1 DEF RestoreSkip, ExtraSkip, Kept, history
    <3>2. CASE RestoreKey(t) \/ ExtraKey(t)
      <4>1. store' = [store EXCEPT ![n] = Backup[n]] /\ over' = Overwrites(t, n, over[t] \ {n})
        BY <3>2 DEF RestoreKey, ExtraKey
      <4>2. over'[t] = over[t] \ {n} /\ store'[n] = Backup[n]
        BY <1>1, <2>1, <4>1 DEF Overwrites
      <4>3. \A k \in Key \ {n} : store'[k] = store[k]
        BY <1>1, <4>1
      <4> QED
        BY <4>2, <4>3 DEF Kept
    <3> QED
      BY <1>7, <3>1, <3>2
  <2>4. pc[t] = "each" => (~Skips(t, n) => Kept(t, n)')
    <3>1. pc[t] = "each" => RestoreSkip(t) \/ RestoreKey(t)
      BY <1>7 DEF ExtraSkip, ExtraKey
    <3>2. RestoreKey(t) => store'[n] = Backup[n]
      BY <1>1, <2>1 DEF RestoreKey
    <3> QED
      BY <3>1, <3>2 DEF RestoreSkip, Kept
  <2>5. pc[t] = "extras" => (Carried(n) => Kept(t, n)')
    <3>1. pc[t] = "extras" => ExtraSkip(t) \/ ExtraKey(t)
      BY <1>7 DEF RestoreSkip, RestoreKey
    <3>2. ExtraKey(t) => store'[n] = Backup[n]
      BY <1>1, <2>1 DEF ExtraKey
    <3> QED
      BY <3>1, <3>2 DEF ExtraSkip, Kept
  <2>6. /\ \A k \in 1..(next'[t] - 1) : k = n \/ k \in 1..(n - 1)
        /\ \A k \in 1..(n - 1) : k \in Key
    BY <1>1, <2>1 DEF Key
  <2>7. /\ pc[t] = "each" => \A k \in 1..(n - 1) : ~Skips(t, k) => Kept(t, k)
        /\ pc[t] = "extras" => /\ \A k \in Key : ~Skips(t, k) => Kept(t, k)
                               /\ \A k \in 1..(n - 1) : Carried(k) => Kept(t, k)
    BY DEF Far
  <2>8. \A k : Carried(k)' = Carried(k)
    BY DEF Carried
  <2> QED
    BY <2>1, <2>2, <2>3, <2>4, <2>5, <2>6, <2>7, <2>8 DEF Far
<1> QED
  BY <1>3, <1>4, <1>5, <1>6, <1>7 DEF Run

LEMMA ProgressStep == ASSUME Typed, Progress, [Next]_vars PROVE Progress'
<1> SUFFICES ASSUME NEW t \in Thread PROVE Far(t)'
  BY DEF Progress
<1>1. CASE Run(t)
  BY <1>1, ProgressRun DEF Progress
<1>2. /\ pc \in [Thread -> Label] /\ \A r, l : Take(t, r, l) => pc'[t] = l
  BY DEF Typed, Take, Go
<1>3. CASE Ask(t) \/ (t = Watcher /\ (AskTick \/ WatcherDies))
  <2>1. Ask(t) => pc'[t] \in {"clear", "look", "check"}
    <3>1. ASSUME NEW f \in Flavour, NEW refresh \in BOOLEAN, AskSchema(t, f, refresh)
          PROVE  pc'[t] \in {"clear", "look"}
      BY <1>2, <3>1 DEF AskSchema
    <3>2. ASSUME NEW k \in Key, NEW v, AskPut(t, k, v)
          PROVE  pc'[t] \in {"check", "look"}
      BY <1>2, <3>2 DEF AskPut
    <3>3. ASSUME NEW k \in Key, AskDelete(t, k)
          PROVE  pc'[t] = "check"
      BY <1>2, <3>3 DEF AskDelete
    <3>4. AskRestore(t) => pc'[t] = "look"
      BY <1>2 DEF AskRestore
    <3> QED
      BY <3>1, <3>2, <3>3, <3>4 DEF Ask
  <2>2. t = Watcher /\ AskTick => pc'[t] = "clear"
    BY <1>2 DEF AskTick
  <2>3. t = Watcher /\ WatcherDies => pc'[t] = "dead"
    BY <1>2 DEF WatcherDies, Go
  <2> QED
    BY <1>3, <2>1, <2>2, <2>3 DEF Far
<1>4. CASE ~Run(t) /\ ~Ask(t) /\ ~(t = Watcher /\ (AskTick \/ WatcherDies))
  <2>1. pc'[t] = pc[t] /\ got'[t] = got[t] /\ next'[t] = next[t]
    <3>1. ASSUME NEW u \in Thread \ {t}, Run(u) \/ Ask(u) \/ (u = Watcher /\ (AskTick \/ WatcherDies))
          PROVE  pc'[t] = pc[t] /\ got'[t] = got[t] /\ next'[t] = next[t]
      <4>1. Own(t)' = Own(t)
        BY <3>1, Alone
      <4> QED
        BY <4>1 DEF Own
    <3>2. Upgrade \/ Toggle \/ UNCHANGED vars => pc' = pc /\ got' = got /\ next' = next
      BY DEF Upgrade, Toggle, vars, threads
    <3>3. Watcher \in Thread /\ Handler \subseteq Thread
      BY DEF Thread
    <3> QED
      BY <1>4, <3>1, <3>2, <3>3 DEF Next
  <2>2. \A k \in Key : pc[t] \in {"each", "extras"} /\ Kept(t, k) => Kept(t, k)'
    BY <1>4, Remembered
  <2>3. \A k : Skips(t, k)' = Skips(t, k) /\ Carried(k)' = Carried(k)
    BY <2>1 DEF Skips, Restorable, Carried
  <2>4. pc[t] \in {"each", "extras"} => \A k \in 1..(next[t] - 1) : k \in Key
    <3>1. NKeys \in Nat /\ next[t] \in 0..(NKeys + 1)
      BY Constants, Parts
    <3> QED
      BY <3>1 DEF Key
  <2> QED
    BY <2>1, <2>2, <2>3, <2>4 DEF Progress, Far
<1> QED
  BY <1>1, <1>3, <1>4

LEMMA Ended ==
  ASSUME Typed, Progress, [Next]_vars, NEW t \in Handler, pc[t] \in {"each", "extras"}, pc'[t] = "idle",
         NEW k \in Key, ~Skips(t, k) \/ Carried(k)
  PROVE  store[k] = Backup[k] \/ k \in over[t]
<1>1. t \in Thread /\ t # Watcher /\ pc \in [Thread -> Label]
  BY KeyAssumption DEF Thread, Typed
<1>2. Run(t)
  <2>1. ASSUME NEW u \in Thread \ {t}, Run(u) \/ Ask(u) \/ (u = Watcher /\ (AskTick \/ WatcherDies))
        PROVE  FALSE
    <3>1. Own(t)' = Own(t)
      BY <1>1, <2>1, Alone
    <3> QED
      BY <3>1 DEF Own
  <2>2. ~Upgrade /\ ~Toggle /\ ~UNCHANGED vars
    BY DEF Upgrade, Toggle, vars, threads
  <2>3. ~Ask(t)
    BY Zenon DEF Ask, AskSchema, AskPut, AskDelete, AskRestore, Take, At
  <2>4. Watcher \in Thread /\ Handler \subseteq Thread
    BY DEF Thread
  <2> QED
    BY <1>1, <2>1, <2>2, <2>3, <2>4 DEF Next
<1>3. RestoreEnd(t)
  BY <1>1, <1>2 DEF Run, At, Go, ClearCache, ClearLru, Look, LoadCached, LoadRead, LoadKeep, StoreSchema,
     ReturnIndex, ReturnSchema, ReturnGone, CheckPass, CheckRefuse, Write, WriteInvalid, RestoreSkip,
     RestoreKey, RestoreValues, ExtraSkip, ExtraKey
<1>4. pc[t] = "extras" /\ next[t] > NKeys
  BY <1>3 DEF RestoreEnd, At
<1>5. k \in 1..(next[t] - 1)
  <2>1. NKeys \in Nat /\ next[t] \in 0..(NKeys + 1)
    BY <1>1, Constants, Parts
  <2> QED
    BY <1>4, <2>1 DEF Key
<1> QED
  BY <1>1, <1>4, <1>5 DEF Progress, Far, Kept

\* "one bad value must not stop the rest": a restore that ends has restored all
\* it may, but for what other requests wrote meanwhile (_restore).
THEOREM RestoreCorrect == Spec => RestoreComplete
<1>1. Init => Progress
  BY DEF Init, Progress, Far
<1>2. ASSUME Typed, Progress, [Next]_vars
      PROVE  [\A t \in Handler : pc[t] \in {"each", "extras"} /\ pc'[t] = "idle" =>
                \A k \in Key : ~Skips(t, k) \/ Carried(k) => store[k] = Backup[k] \/ k \in over[t]]_vars
  BY <1>2, Ended
<1> QED
  BY TypeInit, TypeStep, ProgressStep, <1>1, <1>2, PTL DEF Spec, RestoreComplete

-----------------------------------------------------------------------------
(* The kernel of Redetected. Liveness is beyond the prover; what makes it    *)
(* true is that nothing brings older settings back for ever.                *)

\* v is a version of the sources that an upgrade has replaced.
Old(v) == v \notin {None, version}

\* Threads about to put an older version back: into the caches of the sources,
\* and into the cache of schemas.
Reading == {t \in Thread : At(t, "keep") /\ Old(got[t])}
Holding == {t \in Thread : At(t, "store") /\ Old(got[t])}

\* No thread starts reading older settings from the sources; each puts them back
\* into a cache once, and is done with them; and once the caches of the sources
\* are rid of them, no other thread gets them.
Dwindle ==
  /\ Reading' \subseteq Reading
  /\ ~Old(lru) => Holding' \subseteq Holding \cup Reading
  /\ lru' # lru /\ Old(lru)' => \E t \in Reading : Reading' = Reading \ {t}
  /\ \A f \in Flavour : cache'[f] # cache[f] /\ Old(cache[f])' =>
       \E t \in Holding : Holding' = Holding \ {t}

\* Until the next upgrade older settings only dwindle, although no cache has a
\* lock (build_schema, _assemble, invalidate).
StaleDwindles == [][version' = version => Dwindle]_vars

\* No thread and no cache has older settings.
Fresh == /\ Reading = {} /\ Holding = {} /\ ~Old(lru)
         /\ \A f \in Flavour : ~Old(cache[f])

\* A step of one thread decides of that thread alone whether it puts back.
LEMMA OthersPut ==
  ASSUME Typed, version' = version, NEW t \in Thread, \A u \in Thread \ {t} : Own(u)' = Own(u)
  PROVE  /\ Reading' = (Reading \ {t}) \cup (IF pc'[t] = "keep" /\ Old(got[t])' THEN {t} ELSE {})
         /\ Holding' = (Holding \ {t}) \cup (IF pc'[t] = "store" /\ Old(got[t])' THEN {t} ELSE {})
<1>1. \A u \in Thread \ {t} : pc'[u] = pc[u] /\ got'[u] = got[u]
  BY DEF Own
<1> QED
  BY <1>1 DEF Reading, Holding, Old, At

\* What leaves a thread about to put back no more than before.
LEMMA Aside ==
  ASSUME Typed, version' = version, NEW t \in Thread, \A u \in Thread \ {t} : Own(u)' = Own(u),
         pc'[t] \notin {"keep", "store"}, lru' = lru, cache' = cache
  PROVE  Dwindle
<1>1. Reading' = Reading \ {t} /\ Holding' = Holding \ {t}
  BY OthersPut
<1> QED
  BY <1>1 DEF Dwindle

LEMMA DwindleRun ==
  ASSUME Typed, version' = version, NEW t \in Thread, Run(t)
  PROVE  Dwindle
<1> USE DEF Go, At
<1>1. \A u \in Thread \ {t} : Own(u)' = Own(u)
  BY Alone
<1>2. /\ pc \in [Thread -> Label] /\ got \in [Thread -> Version \cup {None}]
      /\ cache \in [Flavour -> Version \cup {None}] /\ req[t].flavour \in Flavour
  BY Parts DEF Typed, TypeOK
<1>3. /\ Reading' = (Reading \ {t}) \cup (IF pc'[t] = "keep" /\ Old(got[t])' THEN {t} ELSE {})
      /\ Holding' = (Holding \ {t}) \cup (IF pc'[t] = "store" /\ Old(got[t])' THEN {t} ELSE {})
  BY <1>1, OthersPut
<1>4. CASE ClearCache(t)
  <2>1. pc'[t] = "clear_lru" /\ lru' = lru /\ cache' = [f \in Flavour |-> None]
    BY <1>2, <1>4 DEF ClearCache
  <2>2. \A f \in Flavour : ~Old(cache[f])'
    BY <2>1 DEF Old
  <2> QED
    BY <1>3, <2>1, <2>2 DEF Dwindle
<1>5. CASE ClearLru(t)
  <2>1. pc'[t] = "look" /\ lru' = None /\ cache' = cache
    BY <1>2, <1>5 DEF ClearLru
  <2> QED
    BY <1>3, <2>1 DEF Dwindle, Old
<1>6. CASE LoadCached(t)
  <2>1. pc'[t] = "store" /\ got'[t] = lru /\ lru' = lru /\ cache' = cache
    BY <1>2, <1>6 DEF LoadCached, caches
  <2> QED
    BY <1>3, <2>1 DEF Dwindle, Old
<1>7. CASE LoadRead(t)
  <2>1. pc'[t] = "keep" /\ got'[t] = version /\ lru' = lru /\ cache' = cache
    BY <1>2, <1>7 DEF LoadRead, caches
  <2> QED
    BY <1>3, <2>1 DEF Dwindle, Old
<1>8. CASE LoadKeep(t)
  <2>1. pc[t] = "keep" /\ pc'[t] = "store" /\ got'[t] = got[t] /\ lru' = got[t] /\ cache' = cache
    BY <1>2, <1>8 DEF LoadKeep
  <2>2. Old(got[t])' <=> Old(got[t])
    BY <2>1 DEF Old
  <2>3. Old(lru)' <=> Old(got[t])
    BY <2>1 DEF Old
  <2>4. Reading' = Reading \ {t} /\ (Old(got[t]) => t \in Reading)
    BY <1>3, <2>1 DEF Reading
  <2>5. Holding' \subseteq Holding \cup Reading
    BY <1>3, <2>2, <2>4
  <2> QED
    BY <2>1, <2>3, <2>4, <2>5 DEF Dwindle
<1>9. CASE StoreSchema(t)
  <2>1. /\ pc[t] = "store" /\ pc'[t] = "return" /\ got'[t] = got[t] /\ lru' = lru
        /\ cache' = [cache EXCEPT ![req[t].flavour] = got[t]]
    BY <1>2, <1>9 DEF StoreSchema
  <2>2. Reading' = Reading \ {t} /\ Holding' = Holding \ {t}
    BY <1>3, <2>1
  <2>3. ASSUME NEW f \in Flavour, cache'[f] # cache[f], Old(cache[f])'
        PROVE  t \in Holding
    <3>1. cache'[f] = got[t]
      BY <1>2, <2>1, <2>3
    <3>2. Old(got[t])
      BY <2>3, <3>1 DEF Old
    <3> QED
      BY <2>1, <3>2 DEF Holding
  <2> QED
    BY <2>1, <2>2, <2>3 DEF Dwindle
<1>10. CASE Look(t) \/ ReturnIndex(t)
  <2>1. pc'[t] \notin {"keep", "store"} /\ lru' = lru /\ cache' = cache
    BY <1>2, <1>10 DEF Look, ReturnIndex, caches
  <2> QED
    BY <1>1, <2>1, Aside
<1>11. CASE ReturnSchema(t) \/ ReturnGone(t) \/ CheckRefuse(t) \/ Write(t) \/ WriteInvalid(t) \/ RestoreEnd(t)
  <2>1. pc'[t] = "idle" /\ lru' = lru /\ cache' = cache
    BY <1>2, <1>11
       DEF ReturnSchema, ReturnGone, CheckRefuse, Write, WriteInvalid, RestoreEnd, Leave, End, caches
  <2> QED
    BY <1>1, <2>1, Aside
<1>12. CASE CheckPass(t) \/ RestoreSkip(t) \/ RestoreKey(t) \/ RestoreValues(t) \/ ExtraSkip(t) \/ ExtraKey(t)
  <2>1. pc'[t] \notin {"keep", "store"} /\ lru' = lru /\ cache' = cache
    BY <1>2, <1>12 DEF CheckPass, RestoreSkip, RestoreKey, RestoreValues, ExtraSkip, ExtraKey, caches
  <2> QED
    BY <1>1, <2>1, Aside
<1> QED
  BY <1>4, <1>5, <1>6, <1>7, <1>8, <1>9, <1>10, <1>11, <1>12 DEF Run

LEMMA DwindleStep == ASSUME Typed, [Next]_vars, version' = version PROVE Dwindle
<1>1. CASE \E t \in Thread : Run(t)
  BY <1>1, DwindleRun
<1>2. ASSUME NEW t \in Thread, Ask(t) \/ (t = Watcher /\ (AskTick \/ WatcherDies))
      PROVE  Dwindle
  <2>1. \A u \in Thread \ {t} : Own(u)' = Own(u)
    BY <1>2, Alone
  <2>2. pc \in [Thread -> Label]
    BY DEF Typed
  <2>3. ASSUME NEW r, NEW l \in {"clear", "look", "check"}, Take(t, r, l)
        PROVE  pc'[t] \notin {"keep", "store"} /\ lru' = lru /\ cache' = cache
    BY <2>2, <2>3 DEF Take, Go, caches
  <2>4. pc'[t] \notin {"keep", "store"} /\ lru' = lru /\ cache' = cache
    <3>1. CASE Ask(t)
      <4>1. ASSUME NEW f \in Flavour, NEW refresh \in BOOLEAN, AskSchema(t, f, refresh)
            PROVE  pc'[t] \notin {"keep", "store"} /\ lru' = lru /\ cache' = cache
        <5>1. (IF refresh THEN "clear" ELSE "look") \in {"clear", "look", "check"}
          OBVIOUS
        <5> QED
          BY <2>3, <4>1, <5>1, Zenon DEF AskSchema
      <4>2. ASSUME NEW k \in Key, NEW v, AskPut(t, k, v)
            PROVE  pc'[t] \notin {"keep", "store"} /\ lru' = lru /\ cache' = cache
        <5>1. (IF k \in Extra THEN "check" ELSE "look") \in {"clear", "look", "check"}
          OBVIOUS
        <5> QED
          BY <2>3, <4>2, <5>1, Zenon DEF AskPut
      <4>3. CASE (\E k \in Key : AskDelete(t, k)) \/ AskRestore(t)
        BY <2>3, <4>3, Zenon DEF AskDelete, AskRestore
      <4> QED
        BY <3>1, <4>1, <4>2, <4>3 DEF Ask
    <3>2. CASE t = Watcher /\ AskTick
      BY <2>3, <3>2 DEF AskTick
    <3>3. CASE t = Watcher /\ WatcherDies
      BY <2>2, <3>3 DEF WatcherDies, Go, caches
    <3> QED
      BY <1>2, <3>1, <3>2, <3>3
  <2> QED
    BY <2>1, <2>4, Aside
<1>3. CASE Toggle \/ UNCHANGED vars
  <2>1. pc' = pc /\ got' = got /\ lru' = lru /\ cache' = cache
    BY <1>3 DEF Toggle, vars, caches, threads
  <2>2. Reading' = Reading /\ Holding' = Holding
    BY <2>1 DEF Reading, Holding, At, Old
  <2> QED
    BY <2>1, <2>2 DEF Dwindle
<1>4. ~Upgrade
  <2>1. version \in Int
    BY Constants DEF Typed, TypeOK, Version
  <2> QED
    BY <2>1 DEF Upgrade
<1>5. Watcher \in Thread /\ Handler \subseteq Thread
  BY DEF Thread
<1> QED
  BY <1>1, <1>2, <1>3, <1>4, <1>5 DEF Next

\* The kernel of Redetected: until the next upgrade older settings dwindle.
THEOREM DwindleCorrect == Spec => StaleDwindles
<1>1. ASSUME Typed, [Next]_vars
      PROVE  [version' = version => Dwindle]_vars
  BY <1>1, DwindleStep
<1> QED
  BY TypeInit, TypeStep, <1>1, PTL DEF Spec, StaleDwindles

\* Settings that are everywhere the newest stay so until the next upgrade.
THEOREM FreshStays == Spec => [][version' = version /\ Fresh => Fresh']_vars
<1>1. ASSUME Typed, [Next]_vars
      PROVE  [version' = version /\ Fresh => Fresh']_vars
  <2>1. ASSUME version' = version, Fresh
        PROVE  Fresh'
    <3>1. Dwindle
      BY <1>1, <2>1, DwindleStep
    <3>2. Reading' = {} /\ Holding' = {}
      BY <2>1, <3>1 DEF Dwindle, Fresh
    <3>3. ~Old(lru)'
      BY <2>1, <3>1 DEF Dwindle, Fresh, Old
    <3>4. \A f \in Flavour : ~Old(cache[f])'
      <4> SUFFICES ASSUME NEW f \in Flavour PROVE ~Old(cache[f])'
        OBVIOUS
      <4>1. CASE cache'[f] = cache[f]
        BY <2>1, <4>1 DEF Fresh, Old
      <4>2. CASE cache'[f] # cache[f]
        BY <2>1, <3>1, <4>2 DEF Dwindle, Fresh
      <4> QED
        BY <4>1, <4>2
    <3> QED
      BY <3>2, <3>3, <3>4 DEF Fresh
  <2> QED
    BY <2>1
<1> QED
  BY TypeInit, TypeStep, <1>1, PTL DEF Spec
=============================================================================
