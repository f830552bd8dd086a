------------------------------- MODULE Drives -------------------------------
(***************************************************************************)
(* The drives index of sunnyconf (src/daemon/drives.py): the watcher       *)
(* thread that folds finished recording segments into one rollup file per  *)
(* drive, the RAM mirror `_have` it decides by, and the HTTP handlers of   *)
(* DELETE /drives/<route>, which change the same files and the same mirror *)
(* from other threads without the watcher's lock.                          *)
(*                                                                         *)
(* loggerd, which records, and the disk deleter, which rotates recordings  *)
(* away, are external: they appear as the environment of the two threads.  *)
(*                                                                         *)
(* A segment is numbered by its place in the order of recording, which is  *)
(* the order scan_segments sorts by: route name first (a counter), then    *)
(* segment number.                                                         *)
(***************************************************************************)
EXTENDS Integers, FiniteSets

CONSTANTS
  Segment,       \* segments that may be recorded, numbered in recording order
  Route,         \* drives
  NoRoute,       \* stands for no drive
  RouteOf,       \* the drive each segment belongs to
  Corrupt,       \* segments whose qlog the parser cannot read
  Deletable,     \* drives the app may ask to delete
  Handler,       \* HTTP threads that may run a delete
  OnroadBatch,   \* segments per tick while driving (3 in the code)
  OffroadBatch,  \* segments per tick while parked (25 in the code)
  MaxTroubles    \* bound: failing file operations and daemon restarts

ASSUME SegmentAssumption == Segment \subseteq Nat /\ IsFiniteSet(Segment)
ASSUME RouteOfAssumption == RouteOf \in [Segment -> Route] /\ NoRoute \notin Route
ASSUME SubsetAssumption == Corrupt \subseteq Segment /\ Deletable \subseteq Route
ASSUME BatchAssumption == OnroadBatch \in Nat \ {0} /\ OffroadBatch \in Nat \ {0}
ASSUME BoundAssumption == MaxTroubles \in Nat

VARIABLES
  dir,         \* the recording directory of each segment
  onroad,      \* the IsOnroad param
  rollup,      \* segments in the readable rollup files (<route>.json)
  pictured,    \* those of them whose summary says `thumb`
  unreadable,  \* drives whose rollup file exists but has a retired format
  thumbs,      \* segments with a thumbnail file (<route>--<N>.jpg)
  have,        \* _have, as a set of segments
  progress,    \* _progress
  wpc,         \* where the watcher thread is
  bootq,       \* rollup files _bootstrap_have has still to read
  snap,        \* list(_have.items()) as _cleanup_rotated took it
  todo,        \* segments the tick has still to fold
  done,        \* segments the tick has tried
  sticky,      \* the tick's `onroad` local, which only turns on
  cur,         \* the drive whose rollup the watcher is changing
  add,         \* new_seg of the update under way, as a set
  shot,        \* add again, if its summary says `thumb`
  drop,        \* drop_segs of the update under way
  loaded,      \* what the update will store
  dpc,         \* where each delete handler is
  droute,      \* the drive each handler deletes
  dleft,       \* directories each handler has still to remove
  faults, restarts,
  raced,       \* history: drives of which a delete overlapped an update
  marred       \* history: drives whose index a failing file operation has
               \* spoilt. Both since the daemon started; no action reads them

disk == <<rollup, pictured, unreadable, thumbs>>
tick == <<snap, todo, done, sticky>>
update == <<cur, add, shot, drop, loaded>>
watcher == <<wpc, bootq, tick, update>>
handlers == <<dpc, droute, dleft>>
env == <<dir, onroad>>
bounds == <<faults, restarts>>
history == <<raced, marred>>
vars == <<env, disk, have, progress, watcher, handlers, bounds, history>>

DirState == {"none", "empty", "writing", "flushed", "final", "gone"}
WatcherPC == {"boot", "bootput", "tick", "clean", "forget", "pick", "parse",
              "load", "store", "mirror", "end"}
HandlerPC == {"idle", "rmtree", "thumbs", "pop"}

Of(S, r) == {s \in S : RouteOf[s] = r}
Gone(s) == dir[s] = "gone"
Exists(s) == dir[s] \notin {"none", "gone"}

\* loggerd has flushed the qlog and left it alone for _SETTLE_S
Finalized(s) == dir[s] = "final"

\* the refusal of delete_route: not finalized, no qlog.zst, not empty
Recording(s) == dir[s] = "writing"

\* the watcher is between reading and publishing state of drive r
Updating(r) == /\ wpc \in {"bootput", "parse", "load", "store", "forget", "mirror"}
               /\ cur = r

\* a delete of drive r is under way
Deleting(r) == \E h \in Handler : dpc[h] # "idle" /\ droute[h] = r

-----------------------------------------------------------------------------
Init ==
  /\ dir = [s \in Segment |-> "none"]
  /\ onroad = FALSE
  /\ rollup = {} /\ pictured = {} /\ unreadable = {} /\ thumbs = {}
  /\ have = {}
  /\ progress = [total |-> 0, indexed |-> 0, running |-> FALSE]
  /\ wpc = "boot" /\ bootq = {}
  /\ snap = {} /\ todo = {} /\ done = 0 /\ sticky = FALSE
  /\ cur = NoRoute /\ add = {} /\ shot = {} /\ drop = {} /\ loaded = {}
  /\ dpc = [h \in Handler |-> "idle"]
  /\ droute = [h \in Handler |-> NoRoute]
  /\ dleft = [h \in Handler |-> {}]
  /\ faults = 0 /\ restarts = 0
  /\ raced = {} /\ marred = {}

-----------------------------------------------------------------------------
(* The environment: loggerd records one segment at a time while onroad, the *)
(* qlog is flushed when a segment ends and settles, the disk deleter takes  *)
(* finished recordings.                                                     *)

SetDir(s, from, to) == dir[s] = from /\ dir' = [dir EXCEPT ![s] = to]
EnvStep == UNCHANGED <<disk, have, progress, watcher, handlers, bounds, history>>

Record(s) ==
  /\ onroad
  /\ \A t \in Segment : t < s => dir[t] \notin {"empty", "writing"}
  /\ \A t \in Segment : t > s => dir[t] = "none"
  /\ SetDir(s, "none", "empty")
  /\ UNCHANGED onroad /\ EnvStep

Write(s) == SetDir(s, "empty", "writing") /\ UNCHANGED onroad /\ EnvStep
Flush(s) == SetDir(s, "writing", "flushed") /\ UNCHANGED onroad /\ EnvStep
Settle(s) == SetDir(s, "flushed", "final") /\ UNCHANGED onroad /\ EnvStep
Rotate(s) == SetDir(s, "final", "gone") /\ UNCHANGED onroad /\ EnvStep
Toggle == onroad' = ~onroad /\ UNCHANGED dir /\ EnvStep

-----------------------------------------------------------------------------
(* The watcher thread (_watch_loop).                                        *)

WatcherStep == UNCHANGED <<env, handlers, restarts>>

\* Beginning to change drive r: a delete of it may already be under way.
Hold(r) == /\ cur' = r
           /\ raced' = IF Deleting(r) THEN raced \cup {r} ELSE raced
           /\ UNCHANGED marred

\* A file operation fails, and with it ...
Fault == faults + restarts < MaxTroubles /\ faults' = faults + 1

\* ... the index of drive r goes wrong: the code does not look at the failure.
Mar(r) == Fault /\ marred' = marred \cup {r} /\ UNCHANGED raced

\* ... or the tick: _watch_loop logs the exception, the next tick starts anew.
Abandon ==
  /\ Fault
  /\ wpc' = "tick"
  /\ snap' = {} /\ todo' = {} /\ done' = 0 /\ sticky' = FALSE
  /\ cur' = NoRoute /\ add' = {} /\ shot' = {} /\ drop' = {} /\ loaded' = {}

\* _bootstrap_have reads the next rollup file; a retired format is purged.
BootLoad(r) ==
  /\ wpc = "boot" /\ r \in bootq
  /\ bootq' = bootq \ {r}
  /\ Hold(r)
  /\ loaded' = Of(rollup, r)
  /\ unreadable' = unreadable \ {r}
  /\ wpc' = "bootput"
  /\ WatcherStep
  /\ UNCHANGED <<rollup, pictured, thumbs, have, progress, tick, add, shot, drop, faults>>

\* The file cannot be read, and is purged like a retired one; or cannot be
\* unlinked, retired or not: it stays, and the mirror has nothing of it.
BootFail(r) ==
  /\ wpc = "boot" /\ r \in bootq
  /\ bootq' = bootq \ {r}
  /\ Mar(r)
  /\ \/ /\ rollup' = rollup \ Of(rollup, r)
        /\ pictured' = pictured \ Of(pictured, r)
        /\ unreadable' = unreadable \ {r}
     \/ UNCHANGED <<rollup, pictured, unreadable>>
  /\ WatcherStep
  /\ UNCHANGED <<thumbs, have, progress, wpc, tick, update>>

\* ... and enters what it read into the mirror.
BootPut ==
  /\ wpc = "bootput"
  /\ have' = (have \ Of(have, cur)) \cup loaded
  /\ wpc' = "boot" /\ loaded' = {} /\ cur' = NoRoute
  /\ WatcherStep
  /\ UNCHANGED <<disk, progress, bootq, tick, add, shot, drop, faults, history>>

BootDone ==
  /\ wpc = "boot" /\ bootq = {}
  /\ wpc' = "tick"
  /\ WatcherStep
  /\ UNCHANGED <<disk, have, progress, bootq, tick, update, faults, history>>

\* A tick begins with _cleanup_rotated, over a copy of the mirror's items.
Tick ==
  /\ wpc = "tick"
  /\ snap' = have
  /\ wpc' = "clean"
  /\ WatcherStep
  /\ UNCHANGED <<disk, have, progress, bootq, todo, done, sticky, update, faults, history>>

\* Every recording of the next drive is still there: nothing to do.
CleanKeep(r) ==
  /\ wpc = "clean"
  /\ Of(snap, r) # {}
  /\ \A s \in Of(snap, r) : ~Gone(s)
  /\ snap' = snap \ Of(snap, r)
  /\ WatcherStep
  /\ UNCHANGED <<disk, have, progress, wpc, bootq, todo, done, sticky, update, faults, history>>

\* Mutant of CleanDrop: what has gone of any drive is dropped from this one.
CleanDropAll(r) ==
  /\ wpc = "clean"
  /\ \E s \in Of(snap, r) : Gone(s)
  /\ snap' = snap \ Of(snap, r)
  /\ Hold(r)
  /\ drop' = {s \in Segment : Gone(s)} /\ add' = {} /\ shot' = {}
  /\ wpc' = "load"
  /\ WatcherStep
  /\ UNCHANGED <<disk, have, progress, bootq, todo, done, sticky, loaded, faults>>

\* Some recordings of the next drive have gone: drop them from its rollup.
CleanDrop(r) ==
  /\ wpc = "clean"
  /\ \E s \in Of(snap, r) : Gone(s)
  /\ snap' = snap \ Of(snap, r)
  /\ Hold(r)
  /\ drop' = {s \in Of(snap, r) : Gone(s)} /\ add' = {} /\ shot' = {}
  /\ wpc' = "load"
  /\ WatcherStep
  /\ UNCHANGED <<disk, have, progress, bootq, todo, done, sticky, loaded, faults>>

\* Mutant of Scan: the mirror is not consulted.
ScanAll ==
  /\ wpc = "clean" /\ snap = {}
  /\ todo' = {s \in Segment : Finalized(s)}
  /\ LET total == Cardinality({s \in Segment : Exists(s)})
     IN  progress' = [total |-> total, indexed |-> total - Cardinality(todo'),
                      running |-> todo' # {}]
  /\ sticky' = onroad
  /\ done' = 0
  /\ wpc' = IF todo' = {} THEN "end" ELSE "pick"
  /\ WatcherStep
  /\ UNCHANGED <<disk, have, bootq, snap, update, faults, history>>

\* Mutant of Scan: it is not waited until the qlog has settled.
ScanUnsettled ==
  /\ wpc = "clean" /\ snap = {}
  /\ todo' = {s \in Segment \ have : dir[s] \in {"flushed", "final"}}
  /\ LET total == Cardinality({s \in Segment : Exists(s)})
     IN  progress' = [total |-> total, indexed |-> total - Cardinality(todo'),
                      running |-> todo' # {}]
  /\ sticky' = onroad
  /\ done' = 0
  /\ wpc' = IF todo' = {} THEN "end" ELSE "pick"
  /\ WatcherStep
  /\ UNCHANGED <<disk, have, bootq, snap, update, faults, history>>

\* The cleanup is over: list what is finished and not in the mirror.
Scan ==
  /\ wpc = "clean" /\ snap = {}
  /\ todo' = {s \in Segment \ have : Finalized(s)}
  /\ LET total == Cardinality({s \in Segment : Exists(s)})
     IN  progress' = [total |-> total, indexed |-> total - Cardinality(todo'),
                      running |-> todo' # {}]
  /\ sticky' = onroad
  /\ done' = 0
  /\ wpc' = IF todo' = {} THEN "end" ELSE "pick"
  /\ WatcherStep
  /\ UNCHANGED <<disk, have, bootq, snap, update, faults, history>>

\* One more segment tried: count it, look at onroad again, stop at the cap.
Count(s) ==
  /\ todo' = todo \ {s}
  /\ done' = done + 1
  /\ progress' = [progress EXCEPT !.indexed = @ + 1]
  /\ sticky' = (sticky \/ onroad)
  /\ wpc' = IF todo' = {} \/ done' >= (IF sticky' THEN OnroadBatch ELSE OffroadBatch)
            THEN "end" ELSE "pick"

Newest(s) == s \in todo /\ \A t \in todo : t <= s

\* _parse_segment returns None: no qlog any more, or an unreadable one.
ParseNone(s) ==
  /\ wpc = "pick" /\ Newest(s)
  /\ Gone(s) \/ s \in Corrupt
  /\ Count(s)
  /\ WatcherStep
  /\ UNCHANGED <<disk, have, bootq, snap, update, faults, history>>

\* _parse_segment opens the qlog of the newest segment ...
ParseOpen(s) ==
  /\ wpc = "pick" /\ Newest(s)
  /\ ~Gone(s) /\ s \notin Corrupt
  /\ Hold(RouteOf[s])
  /\ add' = {s} /\ shot' = {} /\ drop' = {}
  /\ wpc' = "parse"
  /\ WatcherStep
  /\ UNCHANGED <<disk, have, progress, bootq, tick, loaded, faults>>

\* Mutant of ParseDone: a thumbnail that could not be written is listed.
ParseNoThumb ==
  /\ wpc = "parse"
  /\ shot' \in {{}, add}
  /\ thumbs' \in {thumbs, thumbs \cup add}
  /\ wpc' = "load"
  /\ WatcherStep
  /\ UNCHANGED <<rollup, pictured, unreadable, have, progress, bootq, tick,
                 cur, add, drop, loaded, faults, history>>

\* ... and, having read it to the end, writes the thumbnail. The log may have
\* none, and the write may fail and leave a file or not: the summary says so.
ParseDone ==
  /\ wpc = "parse"
  /\ \/ shot' = add /\ thumbs' = thumbs \cup add
     \/ shot' = {} /\ thumbs' \in {thumbs, thumbs \cup add}
  /\ wpc' = "load"
  /\ WatcherStep
  /\ UNCHANGED <<rollup, pictured, unreadable, have, progress, bootq, tick,
                 cur, add, drop, loaded, faults, history>>

\* Mutant of RollLoad: the update starts from an empty rollup.
RollFresh ==
  /\ wpc = "load"
  /\ loaded' = add \ drop
  /\ wpc' = "store"
  /\ WatcherStep
  /\ UNCHANGED <<disk, have, progress, bootq, tick, cur, add, shot, drop, faults, history>>

\* _update_route_file reads the rollup and folds the change in.
RollLoad ==
  /\ wpc = "load"
  /\ loaded' = (Of(rollup, cur) \cup add) \ drop
  /\ wpc' = "store"
  /\ WatcherStep
  /\ UNCHANGED <<disk, have, progress, bootq, tick, cur, add, shot, drop, faults, history>>

\* The read fails: the rollup is taken for an empty one, and the update drops
\* all that the drive had listed.
RollUnread ==
  /\ wpc = "load" /\ Of(rollup, cur) # {}
  /\ Mar(cur)
  /\ loaded' = add \ drop
  /\ wpc' = "store"
  /\ WatcherStep
  /\ UNCHANGED <<disk, have, progress, bootq, tick, cur, add, shot, drop>>

AfterStore == IF add = {} THEN "forget" ELSE "mirror"

\* It replaces the file, or unlinks it when no segment is left.
RollStore ==
  /\ wpc = "store"
  /\ rollup' = (rollup \ Of(rollup, cur)) \cup loaded
  /\ pictured' = ((pictured \ add) \cup shot) \cap rollup'
  /\ unreadable' = unreadable \ {cur}
  /\ loaded' = {}
  /\ wpc' = AfterStore
  /\ WatcherStep
  /\ UNCHANGED <<thumbs, have, progress, bootq, tick, cur, add, shot, drop, faults, history>>

\* Unlinking the emptied rollup fails: swallowed, the file stays as it was.
RollStuck ==
  /\ wpc = "store" /\ loaded = {}
  /\ Of(rollup, cur) # {} \/ cur \in unreadable
  /\ Mar(cur)
  /\ wpc' = AfterStore
  /\ WatcherStep
  /\ UNCHANGED <<disk, have, progress, bootq, tick, update>>

\* Mutant of RollFail: the mirror was changed before the file.
RollFailKeepsHave ==
  /\ wpc = "store" /\ loaded # {}
  /\ Abandon
  /\ have' = have \cup add
  /\ WatcherStep
  /\ UNCHANGED <<disk, progress, bootq, history>>

\* Writing the file fails: the exception ends the tick.
RollFail ==
  /\ wpc = "store" /\ loaded # {}
  /\ Abandon
  /\ WatcherStep
  /\ UNCHANGED <<disk, have, progress, bootq, history>>

\* Mutant of CleanForget: the mirror keeps what has rotated away.
ForgetThumbsOnly ==
  /\ wpc = "forget"
  /\ thumbs' = thumbs \ drop
  /\ wpc' = "clean" /\ cur' = NoRoute /\ drop' = {}
  /\ WatcherStep
  /\ UNCHANGED <<rollup, pictured, unreadable, have, progress, bootq, tick,
                 add, shot, loaded, faults, history>>

\* Mutant of CleanForget: the thumbnails stay.
ForgetHaveOnly ==
  /\ wpc = "forget"
  /\ have' = have \ drop
  /\ wpc' = "clean" /\ cur' = NoRoute /\ drop' = {}
  /\ WatcherStep
  /\ UNCHANGED <<disk, progress, bootq, tick, add, shot, loaded, faults, history>>

\* _cleanup_rotated removes the thumbnails and forgets the segments.
CleanForget ==
  /\ wpc = "forget"
  /\ thumbs' = thumbs \ drop
  /\ have' = have \ drop
  /\ wpc' = "clean" /\ cur' = NoRoute /\ drop' = {}
  /\ WatcherStep
  /\ UNCHANGED <<rollup, pictured, unreadable, progress, bootq, tick,
                 add, shot, loaded, faults, history>>

\* A thumbnail cannot be removed: the exception ends the tick, and the mirror
\* goes on holding what the rollup no longer has.
ForgetFail ==
  /\ wpc = "forget"
  /\ \E S \in SUBSET drop : thumbs' = thumbs \ S
  /\ Abandon /\ marred' = marred \cup {cur}
  /\ WatcherStep
  /\ UNCHANGED <<rollup, pictured, unreadable, have, progress, bootq, raced>>

\* The folded segment enters the mirror.
HaveAdd ==
  /\ wpc = "mirror"
  /\ have' = have \cup add
  /\ \E s \in add : Count(s)
  /\ cur' = NoRoute /\ add' = {} /\ shot' = {}
  /\ WatcherStep
  /\ UNCHANGED <<disk, bootq, snap, drop, loaded, faults, history>>

\* Mutant of TickEnd: the end of the tick is taken for the end of the backlog.
TickEndIdle ==
  /\ wpc = "end"
  /\ progress' = [progress EXCEPT !.running = FALSE]
  /\ wpc' = "tick"
  /\ todo' = {} /\ done' = 0 /\ sticky' = FALSE
  /\ WatcherStep
  /\ UNCHANGED <<disk, have, bootq, snap, update, faults, history>>

\* End of the tick: whether a backlog is left is published, then it sleeps.
TickEnd ==
  /\ wpc = "end"
  /\ progress' = [progress EXCEPT !.running = todo # {}]
  /\ wpc' = "tick"
  /\ todo' = {} /\ done' = 0 /\ sticky' = FALSE
  /\ WatcherStep
  /\ UNCHANGED <<disk, have, bootq, snap, update, faults, history>>

Watch ==
  \/ \E r \in Route : BootLoad(r) \/ BootFail(r) \/ CleanKeep(r) \/ CleanDrop(r)
  \/ BootPut \/ BootDone \/ Tick \/ Scan
  \/ \E s \in Segment : ParseNone(s) \/ ParseOpen(s)
  \/ ParseDone \/ RollLoad \/ RollUnread \/ RollStore \/ RollStuck \/ RollFail
  \/ CleanForget \/ ForgetFail \/ HaveAdd \/ TickEnd

-----------------------------------------------------------------------------
(* DELETE /drives/<route> (delete_route), one thread per request.           *)

DeleteStep == UNCHANGED <<env, progress, watcher, restarts>>

\* List the directories; refused (409, nothing changes) while one records.
DelCheck(h, r) ==
  /\ dpc[h] = "idle" /\ r \in Deletable
  /\ \A s \in Of(Segment, r) : ~Recording(s)
  /\ dpc' = [dpc EXCEPT ![h] = "rmtree"]
  /\ droute' = [droute EXCEPT ![h] = r]
  /\ dleft' = [dleft EXCEPT ![h] = {s \in Of(Segment, r) : Exists(s)}]
  /\ raced' = IF Updating(r) THEN raced \cup {r} ELSE raced
  /\ DeleteStep
  /\ UNCHANGED <<disk, have, faults, marred>>

\* Remove one listed directory, whatever it has become since.
DelTree(h, s) ==
  /\ dpc[h] = "rmtree" /\ s \in dleft[h]
  /\ dir' = [dir EXCEPT ![s] = "gone"]
  /\ dleft' = [dleft EXCEPT ![h] = @ \ {s}]
  /\ UNCHANGED <<onroad, disk, have, progress, watcher, dpc, droute, bounds, history>>

\* rmtree fails: swallowed, the directory stays.
DelTreeFail(h, s) ==
  /\ dpc[h] = "rmtree" /\ s \in dleft[h] /\ Exists(s)
  /\ Fault
  /\ dleft' = [dleft EXCEPT ![h] = @ \ {s}]
  /\ DeleteStep
  /\ UNCHANGED <<disk, have, dpc, droute, history>>

\* Unlink the rollup -- without _roll_lock.
DelUnlink(h) ==
  /\ dpc[h] = "rmtree" /\ dleft[h] = {}
  /\ rollup' = rollup \ Of(rollup, droute[h])
  /\ pictured' = pictured \ Of(pictured, droute[h])
  /\ unreadable' = unreadable \ {droute[h]}
  /\ dpc' = [dpc EXCEPT ![h] = "thumbs"]
  /\ DeleteStep
  /\ UNCHANGED <<thumbs, have, droute, dleft, faults, history>>

\* The unlink fails: swallowed, the rollup stays.
DelUnlinkFail(h) ==
  /\ dpc[h] = "rmtree" /\ dleft[h] = {}
  /\ Of(rollup, droute[h]) # {} \/ droute[h] \in unreadable
  /\ Mar(droute[h])
  /\ dpc' = [dpc EXCEPT ![h] = "thumbs"]
  /\ DeleteStep
  /\ UNCHANGED <<disk, have, droute, dleft>>

\* Unlink the thumbnails found by the glob.
DelThumbs(h) ==
  /\ dpc[h] = "thumbs"
  /\ thumbs' = thumbs \ Of(thumbs, droute[h])
  /\ dpc' = [dpc EXCEPT ![h] = "pop"]
  /\ DeleteStep
  /\ UNCHANGED <<rollup, pictured, unreadable, have, droute, dleft, faults, history>>

\* Some cannot be unlinked: swallowed, they stay.
DelThumbsFail(h) ==
  /\ dpc[h] = "thumbs"
  /\ Fault
  /\ \E S \in SUBSET Of(thumbs, droute[h]) : thumbs' = thumbs \ S
  /\ dpc' = [dpc EXCEPT ![h] = "pop"]
  /\ DeleteStep
  /\ UNCHANGED <<rollup, pictured, unreadable, have, droute, dleft, history>>

\* Take the drive out of the mirror and answer.
DelPop(h) ==
  /\ dpc[h] = "pop"
  /\ have' = have \ Of(have, droute[h])
  /\ dpc' = [dpc EXCEPT ![h] = "idle"]
  /\ droute' = [droute EXCEPT ![h] = NoRoute]
  /\ DeleteStep
  /\ UNCHANGED <<disk, dleft, faults, history>>

DeleteGo(h) ==
  \/ \E s \in Segment : DelTree(h, s) \/ DelTreeFail(h, s)
  \/ DelUnlink(h) \/ DelUnlinkFail(h) \/ DelThumbs(h) \/ DelThumbsFail(h) \/ DelPop(h)

Delete == \E h \in Handler : DeleteGo(h) \/ \E r \in Deletable : DelCheck(h, r)

-----------------------------------------------------------------------------
(* The daemon dies and the manager starts it again: every thread and the    *)
(* mirror are lost, the files stay. With `upgrade` the new code has a new   *)
(* rollup format (_SUM_V), so no file left by the old one can be read.      *)

Restart(upgrade) ==
  /\ faults + restarts < MaxTroubles /\ restarts' = restarts + 1
  /\ LET files == {r \in Route : Of(rollup, r) # {}} \cup unreadable
     IN  /\ bootq' = files
         /\ unreadable' = IF upgrade THEN files ELSE unreadable
         /\ rollup' = IF upgrade THEN {} ELSE rollup
         /\ pictured' = IF upgrade THEN {} ELSE pictured
  /\ have' = {}
  /\ progress' = [total |-> 0, indexed |-> 0, running |-> FALSE]
  /\ wpc' = "boot"
  /\ snap' = {} /\ todo' = {} /\ done' = 0 /\ sticky' = FALSE
  /\ cur' = NoRoute /\ add' = {} /\ shot' = {} /\ drop' = {} /\ loaded' = {}
  /\ dpc' = [h \in Handler |-> "idle"]
  /\ droute' = [h \in Handler |-> NoRoute]
  /\ dleft' = [h \in Handler |-> {}]
  /\ raced' = {} /\ marred' = {}
  /\ UNCHANGED <<env, thumbs, faults>>

Env ==
  \/ \E s \in Segment : Record(s) \/ Write(s) \/ Flush(s) \/ Settle(s) \/ Rotate(s)
  \/ Toggle

Next == Env \/ Watch \/ Delete \/ \E upgrade \in BOOLEAN : Restart(upgrade)

Spec == Init /\ [][Next]_vars

\* The watcher runs as a daemon thread of a process the manager keeps alive,
\* and a request thread runs to its end. Nothing obliges loggerd, the disk
\* deleter, the driver or the app to act, nor a qlog to settle.
Fairness ==
  /\ WF_vars(Watch)
  /\ \A h \in Handler : WF_vars(DeleteGo(h))

FairSpec == Spec /\ Fairness
-----------------------------------------------------------------------------
(* Properties.                                                              *)

\* Every variable holds a value of its kind, and what an update changes
\* belongs to the drive it is about.
TypeOK ==
  /\ dir \in [Segment -> DirState] /\ onroad \in BOOLEAN
  /\ rollup \subseteq Segment \ Corrupt /\ pictured \subseteq Segment
  /\ thumbs \subseteq Segment
  /\ have \subseteq Segment /\ snap \subseteq Segment /\ todo \subseteq Segment
  /\ unreadable \subseteq Route /\ bootq \subseteq Route
  /\ raced \subseteq Route /\ marred \subseteq Route
  /\ progress \in [total : Int, indexed : Int, running : BOOLEAN]
  /\ wpc \in WatcherPC /\ done \in Nat /\ sticky \in BOOLEAN
  /\ cur \in Route \cup {NoRoute}
  /\ add \subseteq Of(Segment \ Corrupt, cur) /\ shot \subseteq add
  /\ drop \subseteq Of(Segment, cur)
  /\ loaded \subseteq Of(Segment \ Corrupt, cur)
  /\ dpc \in [Handler -> HandlerPC]
  /\ droute \in [Handler -> Route \cup {NoRoute}]
  /\ dleft \in [Handler -> SUBSET Segment]
  /\ faults \in Nat /\ restarts \in Nat

\* The ways the mirror and the rollup of a drive part while the daemon runs: a
\* delete overlapped an update of the drive, or the code went on after a
\* failing read or unlink of its rollup, or stopped at a thumbnail it could
\* not unlink. Only of the last does it find out by itself; a restart mends all.
Parted == raced \cup marred

\* "_have: RAM mirror of the rollups". Whenever neither thread is changing a
\* drive, the mirror the watcher decides by and the rollup on the disk hold
\* the same segments of it, except for the drives that parted.
MirrorExact ==
  \A r \in Route \ (Parted \cup bootq) :
    ~Updating(r) /\ ~Deleting(r) =>
      r \notin unreadable /\ Of(have, r) = Of(rollup, r)

\* "Each qlog is parsed exactly once": the segment being parsed and folded in
\* is not already in the rollup, nor dropped from it by the same update,
\* except for a drive that parted.
ParseOnce ==
  wpc \in {"parse", "load", "store"} /\ add # {} /\ cur \notin Parted =>
    add \cap rollup = {} /\ drop = {}

\* The progress the app shows never counts more than there is, and "not
\* running" means every segment listed was tried.
ProgressHonest ==
  /\ progress.indexed <= progress.total
  /\ ~progress.running => progress.indexed = progress.total

\* A rollup loses a segment only when its recording has gone, by a delete of
\* the drive, to an update that cannot read the old format, or to a read that
\* failed: an update that cannot read the rollup writes it without all the
\* others. A delete that overlaps an update is no such way.
NoIndexLoss ==
  [][\A s \in rollup \ rollup' :
       \/ Gone(s) \/ Deleting(RouteOf[s]) \/ restarts' # restarts
       \/ RouteOf[s] \in marred']_vars

\* A summary that says `thumb` is listed only when the thumbnail is there, and
\* the thumbnail outlives it, until the drive has parted. (A restart forgets
\* who parted, not what came of it.)
ThumbFirst ==
  restarts = 0 =>
    \A s \in rollup \cap pictured : s \in thumbs \/ RouteOf[s] \in Parted

\* As many unreadable segments that are newer than s as the watcher tries per
\* tick while driving: it tries those for ever, and never comes to s.
Crowded(s) ==
  Cardinality({t \in Corrupt : t > s /\ Finalized(t)}) >= OnroadBatch

\* The index catches up with the recordings time and again: every readable
\* segment that has settled is listed, but of a drive that has parted and
\* those unreadable segments crowd out.
CaughtUp ==
  \A s \in Segment \ Corrupt :
    Finalized(s) => s \in rollup \/ RouteOf[s] \in Parted \/ Crowded(s)
SettledIndexed == []<>CaughtUp

\* And time and again nothing is listed whose recording has gone, but of a
\* drive that has parted; nor is its thumbnail left, unless a failure or a
\* restart cut its removal short.
Swept ==
  \A s \in Segment :
    Gone(s) => \/ s \notin rollup /\ (s \notin thumbs \/ faults + restarts > 0)
               \/ RouteOf[s] \in Parted
GoneSwept == []<>Swept

\* "index each segment AS SOON AS it finishes recording": every readable
\* segment that has settled is listed in the end, whatever else is recorded.
FinishedIndexed ==
  \A s \in Segment \ Corrupt : Finalized(s) ~> (s \in rollup \/ Gone(s))

\* The index of the drives nobody deletes, as DrivesIndex promises it,
\* whatever deletes of other drives, restarts and failing file operations do.
Kept == {s \in Segment : RouteOf[s] \notin Deletable}
Life == [s \in Segment |-> IF Gone(s) THEN "gone"
                           ELSE IF Finalized(s) THEN "finished" ELSE "unfinished"]
Catalog == rollup \cap Kept
Index == INSTANCE DrivesIndex WITH
  Recorded <- Segment, Drive <- Route, DriveOf <- RouteOf,
  Readable <- Segment \ Corrupt, life <- Life, catalog <- Catalog,
  spoilt <- marred, starts <- restarts, mishaps <- faults
ImplementsIndex == Index!Spec
=============================================================================
