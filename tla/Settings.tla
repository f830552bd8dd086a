------------------------------ MODULE Settings ------------------------------
(***************************************************************************)
(* The settings of sunnyconf: the schema cache (src/daemon/schema_gen.py), *)
(* the commit watcher that invalidates it (src/daemon/main.py) and the     *)
(* requests that go through it (src/daemon/server.py): GET /schema, PUT    *)
(* and DELETE /params/<key>, POST /restore but for the maps, which are in  *)
(* OsmMaps, and the sunnylink id. The caches have no lock; each request    *)
(* runs in a thread of its own.                                            *)
(*                                                                         *)
(* The sources of the schema (settings_ui.json, params_keys.h, the         *)
(* overrides) are one versioned thing; the lru_caches that hold them are   *)
(* one cache, lru; a schema is the version it was assembled from.          *)
(***************************************************************************)
EXTENDS Integers

CONSTANTS
  NKeys,        \* params are 1..NKeys, in the order _restore takes them
  Known,        \* [0..MaxVersion -> SUBSET Key]: keys in the index
  Gated,        \* [0..MaxVersion -> SUBSET Key]: those that are offroad_only
  Blocked,      \* BLOCKED_PARAMS and SECRET_PARAMS
  Extra,        \* writable EXTRA_KEYS
  ExtraGated,   \* those of them with "offroad"
  Verbatim,     \* keys restored from the extras of a backup, blocked or not
  Index,        \* ModelManager_DownloadIndex, which picks the model to download
  Value,        \* values that validate
  Bad,          \* a value that does not
  Unset,        \* a param that is not there
  Backup,       \* [Key -> Value \cup {Bad, Unset}]: what a backup file has of each
  Handler,      \* HTTP threads
  Watcher,      \* the commit watcher
  MaxVersion    \* bound: upgrades of the sources while the daemon runs

Key == 1..NKeys
Version == 0..MaxVersion
None == -1                         \* nothing cached
Flavour == BOOLEAN                 \* include_all
Thread == Handler \cup {Watcher}

ASSUME VersionAssumption == MaxVersion \in Nat /\ NKeys \in Nat
ASSUME KeyAssumption ==
  /\ Known \in [Version -> SUBSET Key] /\ Gated \in [Version -> SUBSET Key]
  /\ Blocked \subseteq Key /\ ExtraGated \subseteq Extra /\ Extra \subseteq Key
  /\ Extra \cap Blocked = {} /\ Verbatim \subseteq Extra \cup Blocked
  /\ Index \in Extra \ Verbatim
  /\ Backup \in [Key -> Value \cup {Bad, Unset}] /\ Watcher \notin Handler

VARIABLES
  version,      \* version of the sources on disk
  lru,          \* version the lru_caches hold, or None
  cache,        \* _CACHE: flavour -> version, or None
  onroad,       \* IsOnroad
  store,        \* the params
  pc, req,      \* where each thread is, and its request
  got,          \* the version it has read or been given
  next,         \* restore: the key it is at
  \* history, which no action reads
  off,          \* the car has been offroad since the request arrived
  over          \* keys other requests wrote since the request arrived

caches == <<lru, cache>>
threads == <<pc, req, got, next>>
history == <<off, over>>
vars == <<version, caches, onroad, store, threads, history>>

\* A request that is not about one key.
Plain(kind, flavour) == [kind |-> kind, flavour |-> flavour, key |-> 0, value |-> Unset]
NoRequest == Plain("none", FALSE)

Init ==
  /\ version = 0 /\ lru = 0
  /\ cache = [f \in Flavour |-> IF f THEN None ELSE 0]   \* build_schema(refresh=True) at startup
  /\ onroad \in BOOLEAN
  /\ store = [k \in Key |-> Unset]
  /\ pc = [t \in Thread |-> IF t = Watcher THEN "look" ELSE "idle"]
  /\ req = [t \in Thread |-> Plain(IF t = Watcher THEN "first" ELSE "none", FALSE)]
  /\ got = [t \in Thread |-> None]
  /\ next = [t \in Thread |-> 0]
  /\ off = [t \in Thread |-> FALSE]
  /\ over = [t \in Thread |-> {}]

At(t, l) == pc[t] = l
Go(t, l) == pc' = [pc EXCEPT ![t] = l]

Take(t, r, l) ==
  /\ At(t, "idle") /\ Go(t, l)
  /\ req' = [req EXCEPT ![t] = r]
  /\ off' = [off EXCEPT ![t] = ~onroad]
  /\ UNCHANGED <<version, caches, onroad, store, got, next, over>>

\* The request ends, whatever the answer.
End(t) ==
  /\ Go(t, "idle")
  /\ req' = [req EXCEPT ![t] = NoRequest]
  /\ got' = [got EXCEPT ![t] = None]
  /\ next' = [next EXCEPT ![t] = 0]
  /\ off' = [off EXCEPT ![t] = FALSE]

Leave(t) ==
  /\ End(t) /\ over' = [over EXCEPT ![t] = {}]
  /\ UNCHANGED <<version, caches, onroad, store>>

-----------------------------------------------------------------------------
(* invalidate, build_schema and index_by_key.                               *)

ClearCache(t) ==
  /\ At(t, "clear")
  /\ cache' = [f \in Flavour |-> None]
  /\ Go(t, "clear_lru")
  /\ UNCHANGED <<version, lru, onroad, store, req, got, next, history>>

\* Mutant of ClearLru: the caches of the sources are kept.
ClearLruNot(t) ==
  /\ At(t, "clear_lru")
  /\ Go(t, "look")
  /\ UNCHANGED <<version, caches, onroad, store, req, got, next, history>>

ClearLru(t) ==
  /\ At(t, "clear_lru")
  /\ lru' = None
  /\ Go(t, "look")
  /\ UNCHANGED <<version, cache, onroad, store, req, got, next, history>>

Look(t) ==
  /\ At(t, "look")
  /\ Go(t, IF cache[req[t].flavour] = None THEN "load" ELSE "return")
  /\ UNCHANGED <<version, caches, onroad, store, req, got, next, history>>

\* _assemble takes the sources from their caches ...
LoadCached(t) ==
  /\ At(t, "load") /\ lru # None
  /\ got' = [got EXCEPT ![t] = lru]
  /\ Go(t, "store")
  /\ UNCHANGED <<version, caches, onroad, store, req, next, history>>

\* ... or reads them, and lru_cache keeps what was read.
LoadRead(t) ==
  /\ At(t, "load") /\ lru = None
  /\ got' = [got EXCEPT ![t] = version]
  /\ Go(t, "keep")
  /\ UNCHANGED <<version, caches, onroad, store, req, next, history>>

LoadKeep(t) ==
  /\ At(t, "keep")
  /\ lru' = got[t]
  /\ Go(t, "store")
  /\ UNCHANGED <<version, cache, onroad, store, req, got, next, history>>

StoreSchema(t) ==
  /\ At(t, "store")
  /\ cache' = [cache EXCEPT ![req[t].flavour] = got[t]]
  /\ Go(t, "return")
  /\ UNCHANGED <<version, lru, onroad, store, req, got, next, history>>

\* Mutant of ReturnIndex: an entry that is gone is not noticed.
ReturnIndexAnyway(t) ==
  /\ At(t, "return") /\ req[t].kind \in {"put", "restore"}
  /\ got' = [got EXCEPT ![t] = cache[req[t].flavour]]
  /\ Go(t, IF req[t].kind = "put" THEN "check" ELSE "each")
  /\ next' = [next EXCEPT ![t] = IF req[t].kind = "put" THEN 0 ELSE 1]
  /\ UNCHANGED <<version, caches, onroad, store, req, history>>

\* The entry is read once more; what comes after depends on the request.
ReturnIndex(t) ==
  /\ At(t, "return") /\ req[t].kind \in {"put", "restore"}
  /\ cache[req[t].flavour] # None
  /\ got' = [got EXCEPT ![t] = cache[req[t].flavour]]
  /\ Go(t, IF req[t].kind = "put" THEN "check" ELSE "each")
  /\ next' = [next EXCEPT ![t] = IF req[t].kind = "put" THEN 0 ELSE 1]
  /\ UNCHANGED <<version, caches, onroad, store, req, history>>

\* GET /schema is answered; the commit watcher has looked at the commit.
ReturnSchema(t) ==
  /\ At(t, "return") /\ req[t].kind \in {"schema", "refresh", "watch", "first"}
  /\ cache[req[t].flavour] # None
  /\ Leave(t)

\* The entry is gone since: KeyError, which is a 500 or a failed tick.
ReturnGone(t) ==
  /\ At(t, "return") /\ cache[req[t].flavour] = None /\ req[t].kind # "first"
  /\ Leave(t)

\* The watcher looks at the commit once before its loop, where no handler
\* catches the KeyError: the thread is dead.
WatcherDies ==
  /\ At(Watcher, "return") /\ cache[req[Watcher].flavour] = None
  /\ req[Watcher].kind = "first"
  /\ Go(Watcher, "dead")
  /\ UNCHANGED <<version, caches, onroad, store, req, got, next, history>>

-----------------------------------------------------------------------------
(* Requests and ticks.                                                      *)

AskSchema(t, f, refresh) ==
  Take(t, Plain(IF refresh THEN "refresh" ELSE "schema", f), IF refresh THEN "clear" ELSE "look")

\* A tick of _commit_watch.
AskTick ==
  Take(Watcher, Plain("watch", FALSE), "clear")

\* PUT /params/<key>: extra keys do not go through the index.
AskPut(t, k, v) ==
  Take(t, [kind |-> "put", flavour |-> TRUE, key |-> k, value |-> v],
       IF k \in Extra THEN "check" ELSE "look")

\* DELETE /params/<key>, for extra keys alone.
AskDelete(t, k) ==
  /\ k \in Extra
  /\ Take(t, [kind |-> "put", flavour |-> TRUE, key |-> k, value |-> Unset], "check")

\* POST /restore, refused onroad; the body is read after the look at the car.
AskRestore(t) ==
  /\ ~onroad
  /\ Take(t, Plain("restore", TRUE), "look")

\* What the index (or the list of extra keys) a request has says of a key.
Offroad(t, k) == IF k \in Extra THEN k \in ExtraGated ELSE k \in Gated[got[t]]
Writable(t, k) == k \notin Extra => k \in Known[got[t]] \ Blocked

\* Mutant of CheckPass: the car is not looked at.
CheckPassOnroad(t) ==
  /\ At(t, "check")
  /\ Writable(t, req[t].key)
  /\ Go(t, "write")
  /\ UNCHANGED <<version, caches, onroad, store, req, got, next, history>>

CheckPass(t) ==
  /\ At(t, "check")
  /\ Writable(t, req[t].key)
  /\ ~(Offroad(t, req[t].key) /\ onroad)
  /\ Go(t, "write")
  /\ UNCHANGED <<version, caches, onroad, store, req, got, next, history>>

\* 404, 403 or 409.
CheckRefuse(t) ==
  /\ At(t, "check")
  /\ Writable(t, req[t].key) => Offroad(t, req[t].key) /\ onroad
  /\ Leave(t)

\* A write to k is remembered by the restores that are at work.
Overwrites(t, k, o) ==
  [u \in Thread |-> IF u = t THEN o ELSE IF req[u].kind # "restore" THEN {} ELSE over[u] \cup {k}]

\* The body is read and validated, and the value written; a bad one is a 400.
Write(t) ==
  /\ At(t, "write") /\ req[t].value # Bad
  /\ store' = [store EXCEPT ![req[t].key] = req[t].value]
  /\ over' = Overwrites(t, req[t].key, {})
  /\ End(t)
  /\ UNCHANGED <<version, caches, onroad>>

WriteInvalid(t) ==
  /\ At(t, "write") /\ req[t].value = Bad
  /\ Leave(t)

\* _restore, key after key: a key that is secret, blocked, extra or not in the
\* index is skipped, and a value that does not validate is reported.
Restorable(t, k) == k \in Known[got[t]] /\ k \notin Blocked \cup Extra

Skips(t, k) == ~Restorable(t, k) \/ Backup[k] \in {Bad, Unset}

\* Mutant of RestoreSkip: a bad value ends the restore.
RestoreSkipStops(t) ==
  /\ At(t, "each") /\ next[t] <= NKeys
  /\ Skips(t, next[t])
  /\ next' = [next EXCEPT ![t] = IF Backup[@] = Bad THEN NKeys + 1 ELSE @ + 1]
  /\ UNCHANGED <<version, caches, onroad, store, pc, req, got, history>>

RestoreSkip(t) ==
  /\ At(t, "each") /\ next[t] <= NKeys
  /\ Skips(t, next[t])
  /\ next' = [next EXCEPT ![t] = @ + 1]
  /\ UNCHANGED <<version, caches, onroad, store, pc, req, got, history>>

RestoreKey(t) ==
  /\ At(t, "each") /\ next[t] <= NKeys
  /\ ~Skips(t, next[t])
  /\ store' = [store EXCEPT ![next[t]] = Backup[next[t]]]
  /\ over' = Overwrites(t, next[t], over[t] \ {next[t]})
  /\ next' = [next EXCEPT ![t] = @ + 1]
  /\ UNCHANGED <<version, caches, onroad, pc, req, got, off>>

\* Then the extras: the car and the favourites, and the SSH keys, which are
\* blocked for any other request. They start the keys over.
RestoreValues(t) ==
  /\ At(t, "each") /\ next[t] > NKeys
  /\ Go(t, "extras") /\ next' = [next EXCEPT ![t] = 1]
  /\ UNCHANGED <<version, caches, onroad, store, req, got, history>>

Carried(k) == k \in Verbatim /\ Backup[k] \notin {Bad, Unset}

ExtraSkip(t) ==
  /\ At(t, "extras") /\ next[t] <= NKeys /\ ~Carried(next[t])
  /\ next' = [next EXCEPT ![t] = @ + 1]
  /\ UNCHANGED <<version, caches, onroad, store, pc, req, got, history>>

ExtraKey(t) ==
  /\ At(t, "extras") /\ next[t] <= NKeys /\ Carried(next[t])
  /\ store' = [store EXCEPT ![next[t]] = Backup[next[t]]]
  /\ over' = Overwrites(t, next[t], over[t] \ {next[t]})
  /\ next' = [next EXCEPT ![t] = @ + 1]
  /\ UNCHANGED <<version, caches, onroad, pc, req, got, off>>

\* Last, the model by its index in the manifest, if the manifest is there and
\* has it.
RestoreEnd(t) ==
  /\ At(t, "extras") /\ next[t] > NKeys
  /\ \/ UNCHANGED store /\ over' = [over EXCEPT ![t] = {}]
     \/ \E v \in Value : /\ store' = [store EXCEPT ![Index] = v]
                         /\ over' = Overwrites(t, Index, {})
  /\ End(t)
  /\ UNCHANGED <<version, caches, onroad>>

-----------------------------------------------------------------------------
(* The device around the daemon.                                            *)

\* The updater, or a git pull, changes the sources under the running daemon.
Upgrade ==
  /\ version < MaxVersion /\ version' = version + 1
  /\ UNCHANGED <<caches, onroad, store, threads, history>>

\* A drive starts or ends.
Toggle ==
  /\ onroad' = ~onroad
  /\ off' = [t \in Thread |-> off[t] \/ (onroad /\ pc[t] # "idle")]
  /\ UNCHANGED <<version, caches, store, threads, over>>

-----------------------------------------------------------------------------
Run(t) ==
  \/ ClearCache(t) \/ ClearLru(t) \/ Look(t)
  \/ LoadCached(t) \/ LoadRead(t) \/ LoadKeep(t) \/ StoreSchema(t)
  \/ ReturnIndex(t) \/ ReturnSchema(t) \/ ReturnGone(t)
  \/ CheckPass(t) \/ CheckRefuse(t) \/ Write(t) \/ WriteInvalid(t)
  \/ RestoreSkip(t) \/ RestoreKey(t) \/ RestoreValues(t)
  \/ ExtraSkip(t) \/ ExtraKey(t) \/ RestoreEnd(t)

Ask(t) ==
  \/ \E f \in Flavour, refresh \in BOOLEAN : AskSchema(t, f, refresh)
  \/ \E k \in Key, v \in Value \cup {Bad} : AskPut(t, k, v)
  \/ \E k \in Key : AskDelete(t, k)
  \/ AskRestore(t)

Next ==
  \/ \E t \in Thread : Run(t)
  \/ \E t \in Handler : Ask(t)
  \/ WatcherDies \/ AskTick \/ Upgrade \/ Toggle

Spec == Init /\ [][Next]_vars

\* Threads run on, and the watcher wakes up every 15 seconds.
FairSpec ==
  Spec /\ WF_vars(AskTick) /\ WF_vars(WatcherDies) /\ \A t \in Thread : WF_vars(Run(t))

-----------------------------------------------------------------------------
(* Properties.                                                              *)

\* Every variable holds a value of its kind.
TypeOK ==
  /\ version \in Version /\ lru \in Version \cup {None}
  /\ cache \in [Flavour -> Version \cup {None}]
  /\ onroad \in BOOLEAN /\ store \in [Key -> Value \cup {Unset}]
  /\ got \in [Thread -> Version \cup {None}] /\ next \in [Thread -> 0..(NKeys + 1)]
  /\ off \in [Thread -> BOOLEAN] /\ over \in [Thread -> SUBSET Key]
  /\ \A t \in Thread : pc[t] \in {"check", "write"} /\ req[t].key \notin Extra => got[t] # None

\* "so a fork update (new settings) is re-detected without a manual refresh":
\* some time after the last upgrade no cache holds older settings any more,
\* whatever requests were assembling a schema, storing one or invalidating
\* when it came -- unless the watcher died of its first look at the commit.
Redetected ==
  <>[](\A f \in Flavour : cache[f] \in {None, version}) \/ <>At(Watcher, "dead")

\* "reject writes while onroad": a key that the index at hand calls offroad-only
\* is written by no request that has been onroad all the while since it came in.
GateHonoured ==
  [][\A t \in Handler, k \in Key :
       /\ store'[k] # store[k]
       /\ pc'[t] # pc[t] \/ next'[t] # next[t]
       /\ Offroad(t, k)
       => off[t]]_vars

\* "one bad value must not stop the rest": when a restore ends, each param of
\* the backup that may be restored, from the values or from the extras, has its
\* value, if no other request wrote it meanwhile.
RestoreComplete ==
  [][\A t \in Handler : pc[t] \in {"each", "extras"} /\ pc'[t] = "idle" =>
       \A k \in Key : ~Skips(t, k) \/ Carried(k) => store[k] = Backup[k] \/ k \in over[t]]_vars
=============================================================================
