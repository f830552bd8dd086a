# sunnyconf: a verification project

TLA+ models, TLC runs and TLAPS proofs about the on-device daemon of sunnyconf (`src/daemon`). The daemon is
one Python process: an HTTP server with a thread per request, a watcher thread that indexes recordings, a
thread that watches the commit, and an mDNS responder. The threads share module-level dictionaries and small
files; only some of the sharing is under a lock. The models are about what happens between the steps of those
threads, and about the daemon dying between any two of them.

## 1. Inventory

| component | code | state | operations | made hard by |
|---|---|---|---|---|
| Drives index | `drives.py` 28-542 | rollup files, thumbnails, `_have`, `_progress` | watcher tick (cleanup, scan, parse, fold), `DELETE /drives/<route>` | a delete runs without `_roll_lock`; the mirror is rebuilt after a restart; failing reads and unlinks of a rollup are swallowed; ticks are capped; qlogs may be unreadable; recordings rotate away |
| Drives timeline | `drives.py` 160-230, 293-371 | `points_abs`, `t0`, `anchored` of the segments of a rollup | a fold re-bases what disagrees with the largest cluster of anchors | the clock of a device without a battery; the order segments are indexed in |
| Drives video | `drives.py` 594-911 | `cam_cache/*.mp4` | remux, prefetch, clip, trim | the trim removes what another thread is about to serve; clips are cached by position; drives have gaps |
| Live status | `drives.py` 545-591 | `_live_first_seen` | `GET /drives/live` | wall-clock jumps |
| Pairing and clients | `auth.py`, `server.py` 376-396, 708-733 | `clients.json`, `_fail_state` | `POST /pair`, `DELETE /clients/<id>`, bearer check | a request is several atomic steps; wall-clock lockouts; unreadable file |
| Offline maps | `server.py` 115-336, 667-695, 933-993, 1064-1165 | `osm_countries.json`, `Osm*` params, tile tree, `OSMDownloadLocations` | `PUT /maps`, `DELETE /maps/<ref>`, `delete_maps`, `osm_update`, restore | no lock at all; one `.tmp` for all threads; mapd changes the same tree; overlapping boxes; other requests write the params alone |
| Schema cache | `schema_gen.py`, `main.py` 33-45, `registry.py`, `sdui.py` | `_CACHE`, six `lru_cache`s | `build_schema`, `index_by_key`, `invalidate` | cleared every 15 s under requests that use it |
| Settings writes | `server.py` 800-908, 1167-1267, `values.py` | params | `PUT`/`DELETE /params/<key>`, `POST /restore` | the car may start driving between the gate and the write |
| HTTP server | `server.py` 376-396, 431-656, 1167-1230 | keep-alive streams | dispatch, bodies, answers, ranges of files | refusals leave bodies unread; a file changes between being measured and being sent |
| Device actions | `server.py` 641-706 | params | reboot, reset, ... | other processes act on the params |
| Discovery | `discovery.py` 109-287, `main.py` 48-85 | socket, thread, `_stop` | set-up, loop, stop; bind, serve, signal | the network comes late or drops; packets reset timeouts; a packet may be decoded for ever; `stop` meets the thread anywhere |
| Identity, registry and SDUI parsing, installer, scripts, tools | the rest | none, or one-shot | | pure code or outside the daemon |

How they meet: every request thread passes the bearer check (`authorized`), then works on one component.
Settings writes and restores go through the schema cache; a restore also runs the maps code; `reset_settings`
and writes of `OsmStateName` and `OsmLocationName` change params that the maps code mirrors. loggerd, the disk deleter, the
manager, mapd, the updater and the device screen are other processes: they appear as environment actions.

What makes each correct, in one line: the index lists exactly the recordings that exist and are readable, once
each, and loses none; a token works from the moment it is delivered until it is revoked or replaced, and never
after; the selection, its mirror in the stock params and the tiles agree; a new schema is seen in the end, and
offroad-only settings are not written onroad; a drive has one timeline, the true one; a client never takes one
answer for another; a network that is up hears of the device.

`PROJECT.json` lists the hazards line by line, each with the properties that would catch it.

## 2. Modules

Every module keeps the names of the source for its actions where it can; each action is one step of one
thread, from one shared read or write to the next. What is under one lock, or is one file operation, is one
action.

**`DrivesIndex`** - the abstract index: recordings finish and are lost, the catalog takes them in one at a time and
gives up only what has gone. A mishap with a file may spoil a drive, whose listings may then be lost; only a start
of the daemon, which is counted and may come with a new format, empties the catalog. It states safety only.

**`Drives`** - the watcher and the deletes. The watcher has a program counter: `boot`/`bootput`
(`_bootstrap_have`), `tick` to `forget` (`_cleanup_rotated`), `pick`, `parse`, `load`, `store`, `mirror`
(`_watch_loop`, `_parse_segment`, `_update_route_file`) and `end`. `have` is `_have`; `rollup` is the union of
the files `<route>.json` as sets of segments (what a summary or a track says is abstracted to the segments it
is built from); `unreadable` are files of a retired `_SUM_V`; `pictured`
are the segments whose summary says that they have a thumbnail, which is not the same as having one. A delete (`delete_route`) is check, one step per
directory, unlink of the rollup, unlink of the thumbnails, pop from the mirror. The environment: `Record`,
`Write`, `Flush`, `Settle` (loggerd and `_SETTLE_S`), `Rotate` (the disk deleter), `Toggle` (`IsOnroad`).
`Restart` loses every thread and the mirror, and may come with a new format. Every file operation may fail, and what
the code makes of that is an action each: the tick ends (`RollFail`, `ForgetFail`); the failure is swallowed and the
code goes on as if nothing was (`BootFail`, `RollUnread`: a rollup that cannot be read counts as empty; `RollStuck`,
`DelUnlinkFail`: one that cannot be unlinked is forgotten all the same; `DelTreeFail`, `DelThumbsFail`); or the summary
says that there is no thumbnail (`ParseDone`). `marred` remembers the drives whose index was spoilt so. `MCDrives`
names the small instances.

**`Clock`** - the timeline of one drive (`_reanchor` with its call in `_update_route_file`, and `live_status`), in
minutes from the true start of the drive. The qlog of a segment gives a `good` anchor, a `late` one (within the
window), a `cold` one (a GPS receiver that has not found the time yet) or `none`. `Fold` takes a segment in,
`Rotate` drops the oldest, `Restart` forgets the live drive and perhaps the rollup; `Look` is the first request
for the live card, `ClockStep` sets the clock at any moment. Cold anchors and a wrong clock may be off by more than a
day or by less.

**`ClientStore`** - what the store promises, as three actions: a client is granted a token that was never used,
and loses its former one (`Grant`); it is granted one and all others lose theirs (`GrantAlone`, the unreadable
file); its token is revoked (`Revoke`).

**`Clients`** - pairing, and the refinement of `ClientStore`. A request is `Admit` (limiter), `ReadCode` or `PairingDisabled`, `WrongPin` or
`RightPin`, `Pair` (under the lock), `Deliver`; a restart may fall anywhere, and a reply that is never
delivered is a restart or a thread that stays. `PairUnread` and `RevokeUnread` are `_load` answering an
unreadable file with an empty list. A lockout is the time left, so that clock steps are additions to it.

**`OsmMaps`** - the selection file with its shared `.tmp` and the file handles of the threads (a handle writes
to where its file has been renamed), the mirrored params, the tile tree as a set of tiles, mapd's list. The
geometry is two functions: the tiles a padded box meets and the tiles mapd really downloads. `PutState`, `PutName` and
`ResetSettings` are the requests that change the params and look at no selection. When the boxes cannot be had a
removal wipes the tree (`TilesUnknown`); `wiped` remembers what should have stayed.
`MCOsmMaps`: two countries whose boxes nest, as the code's comment says of Kyrgyzstan and Kazakhstan.

**`Settings`** - the cache, the watcher of the commit and the requests that go through the cache. A schema is
the version of its sources; the six `lru_cache`s are one; the three steps of `build_schema` (look, assemble,
return) are separate, as are the two of `invalidate`. `WatcherDies` is the one look outside the `try`.
A restore takes its keys one by one, then the extras, then the model. `MCSettings`: four params, one of each
kind.

**`VideoCache`** - the files of `cam_cache` as a sequence, oldest first; a request or a prefetch plans its
segments, looks without the lock (`Find`), looks again and builds with it (`Lock`, one `Mux` per segment,
`Store` or `MuxFails`), then trims (`TrimList`, `TrimStat`, one `TrimPop` per file, `TrimDone` or
`TrimGivesUp`) and serves (`Prefetch`, `Answer`). A file weighs its minutes, a segment is `none`, `recording`,
`done` or `gone`, and a copy of one knows whether it was complete. A drive may have gaps from the start (`Record`) and
lose its segments in any order (`Lose`); `goal` remembers what a file was planned to hold. `MCVideoCache`: a clip over two minutes.

**`HttpStream`** - one keep-alive connection as two streams of parts. `Ask` sends a head and perhaps a body; the
server reads a head (`ReadLine`), checks the token (`Authorize`, `Refuse`), dispatches, reads or leaves the
body (GET and DELETE never read one), answers; a file is measured (`Promise`), opened and sent chunk by chunk, and may change in between; if it
has gone, a 500 of any length is written into the range that was promised (`OpenFails`). What an
endpoint does is in the other modules; here it is the set of requests carried out. What the base class of the
library does with a line that is no request is `Garbled`.

**`Discovery`** - the responder with the main thread, in ticks of which several make a second: a step that needs
no waiting happens before the next tick. `sock` is the socket the responder holds in a local, `shared` what
`self._sock` is of it, because `stop` closes the latter and may come between the two. The network is a bit that
goes and returns, with or without an error on the socket. A packet is handled at once, or is one whose name points back
to itself, which `_decode_name` follows for ever (`Undecodable`).

**`DrivesProofs`**, **`ClockProofs`**, **`ClientsProofs`**, **`OsmMapsProofs`**, **`SettingsProofs`**, **`VideoCacheProofs`**,
**`HttpStreamProofs`**, **`DiscoveryProofs`** - theorems about the modules they are named for (section 5).

The modules share no state in the code except params that the settings endpoints also write (`OsmStateName` and
`OsmLocationName`: `PutState`, `PutName`, `ResetSettings` of `OsmMaps`); they are checked one by one.

Definitions whose comment begins *Mutant of* are not used by any specification: each is a plausible bug of the
definition it names, and putting it in that definition's place makes a run fail. `PROJECT.json` pairs them
with the properties they break.

## 3. Runs

| run | instance | shows |
|---|---|---|
| `drives_mirror` | 1 drive of 2 segments, 1 deleting thread, 2 failing file operations or restarts; 2.65 M states | `MirrorExact`, `ParseOnce`, `ProgressHonest`, `ThumbFirst`, `NoIndexLoss` |
| `drives_index` | 3 segments in 2 drives, the newest unreadable, 1 segment per tick, 2 failing file operations or restarts, no delete, fairness; 901 k | `TypeOK`, `ImplementsIndex` (refinement of `DrivesIndex`), `SettledIndexed`, `GoneSwept` |
| `clock` | 4 segments with any anchors, folded in any order, 4 minutes, a clock an hour or six days behind, restarts and clock steps without bound; 1.2 M | `TypeOK`, `OneTimeline`, `TrueTimeline`, `LiveHonest` |
| `clients` | 2 clients, 2 threads, 2 codes, 3 tokens, 1 of each disturbance, fairness; 450 k | `TypeOK`, `DeliveredLive`, `GuessBound`, `ImplementsStore` (refinement of `ClientStore`), `LockoutEnds` |
| `maps` | 2 countries, 2 tiles, 2 threads, 3 requests, 1 restart; 2.7 M (threads symmetric) | `TypeOK`, `Coherent`, `TilesKept`, `RemovedGone`, `NoWipeUnderway` |
| `settings` | 4 params, 1 request thread beside the watcher, 1 upgrade, fairness; 990 k | `TypeOK`, `Redetected`, `GateHonoured`, `RestoreComplete` |
| `video` | 3 segments, the last recorded under way, lost in any order, 1 clip of two, a request and a prefetch thread, cap of 2 minutes, restarts without bound; 1.2 M | `TypeOK`, `BuildsMissing`, `AllOrNothing`, `CapHolds`, `TrimOldest` |
| `http` | 3 requests of any kind, files and error answers of up to 2 chunks, fairness; 939 k | `TypeOK`, `InStep`, `LengthKept`, `Answered` |
| `discovery` | 2 ticks to a second, 2 drops, an undecodable packet, a signal at any time, fairness; 153 k | `TypeOK`, `Announced`, `EndsCleanly`, `Stops` |

These properties carry an exemption, and each exemption is itself a result: without it the property is false
of the code.

* `MirrorExact`, `ParseOnce`, `ThumbFirst`, `SettledIndexed` and `GoneSwept` exempt the drives in `Parted`: those of
  which since the start a delete overlapped an update (`raced`), or whose index a failing file operation has spoilt
  (`marred`): a rollup that could not be read was taken for an empty one (`drives.py` 76-84, 350, 419-425), an unlink
  of it failed and was swallowed while the mirror forgot the drive (356-361, 532-541), or the unlink of a thumbnail ended
  a sweep between rollup and mirror (443-447). These are the only ways mirror and rollup part, and only the last is
  found out by a later tick.
* `NoIndexLoss` exempts `marred` drives: after a failing read an update writes the rollup without all it had listed,
  although nothing was deleted. It does not exempt `raced` ones.
* `SettledIndexed` also exempts segments that are `Crowded`: with as many newer unreadable segments as a tick takes
  while driving, they are never come to (`drives_starved`). That the exemption is needed and that it is enough is what
  the unreadable segment of `drives_index` is for.
* `GoneSwept` lets a thumbnail stay after a failure or a restart between storing a rollup and unlinking.
* `ThumbFirst` is about segments whose summary says `thumb`: others are listed with none (`drives.py` 211-228). It
  stops at a restart, which forgets who parted and not what came of it.
* `TilesKept` and `RemovedGone` hold until requests overlap or a restart cuts one. `TilesKept` also leaves out what a
  removal wiped with the whole tree because the boxes could not be had (`server.py` 1145), until it is downloaded again.
* `Coherent` does not need that requests do not overlap: one that runs alone repairs whatever came before. It holds until
  a request writes `OsmLocationName` or a state that does not fit, or resets all settings: none of these looks at
  the selection (`server.py` 700-703, 1167-1267), and the next request that writes the selection mends it.
* `AllOrNothing` does not say that the minutes of a clip are consecutive: a drive may have gaps (`drives.py` 791). It
  says that a file is all its thread had planned, with nothing left out that is still there between its ends.
* `DeliveredLive` exempts tokens that were revoked, superseded or lost with a `clients.json` that could not be
  read: a pairing then overwrites the rows of everybody else, although `auth.py:8` says "so a paired client stays
  paired forever" (a revocation finds nothing to drop and writes nothing).
* `TrueTimeline` exempts drives whose timeline was once carried by a majority of cold anchors (`fooled`).
* `LiveHonest` holds while all errors of clock and anchors are beyond a day, which the guard of `drives.py:580`
  catches, and for errors of any size once clock and timeline are right. In between an error of less than a day shows
  on the card.
* `InStep` allows that a body that was left on the stream (the request was refused first, or it is a GET or DELETE, which
  read none) costs the client one later request, which has no effect, and the connection. `server.py:645` says of
  `PUT /params` that it "avoids this only because it reads the body"; its refusals do not. And it allows that of a 500
  which is longer than the range it is written into the rest is taken for the answer to the next request, which may
  have been carried out (`spilt`); that is nonsense to the client, and the connection ends.
* `LengthKept` leaves out a 416 and a file that changed between being measured and being opened. Once the server has
  closed over a body left unread there is one more piece of nonsense behind what was promised.
* `Answered` excepts a 416, which has no `Content-Length` (the client waits until the server closes), and a file
  that was cut or removed between being measured and being opened (its 500 arrives inside the promised body, and may be
  shorter).
* `Announced`, `EndsCleanly` and `Stops` exempt a responder that decodes a packet for ever, whose name has a compression
  pointer that leads back to itself (`discovery.py` 69-91): it never announces again, and only the end of the process,
  which `Stops` does promise, ends it.
* `Announced` allows a silence of less than the interval and one timeout while the responder listens, and of the wait
  between set-ups while it waits for a network.
* `Redetected` holds unless the commit watcher died of its first look.
* `CapHolds` holds at any time, and leaves out the files whose own trim is still to come or under way, was given up
  or lost in a restart, or was thrown out of count: a trim that works down an old list and removes a file that was
  built again since takes off a size it never added (`drives.py` 625-636), and stops too early for what it was to
  trim. `TrimOldest` excepts such a file.

`GuessBound` is exact: with `Cardinality(Handler) - 2` instead of `- 1` the run fails, because threads admitted
before the lockout are counted after it.

### What the code does not do although it says so

Each run below checks one statement of a comment or docstring and finds it violated.

| run | statement | what happens |
|---|---|---|
| `drives_starved` | `drives.py:452` "index each segment AS SOON AS it finishes recording" | as many unreadable newest segments as the cap: older ones are never tried |
| `clock_majority` | `drives.py:326` "the largest cluster of votes agreeing within 5 min wins" | two cold anchors indexed first re-base each good one that follows, and a re-based segment votes from then on for the time it was given: three good anchors lose to two cold ones |
| `video_whole` | `drives.py:681` "ONE HD segment → faststart MP4 ... cached" | the segment being recorded is asked for, or prefetched: what there is of it is cached, and served for the whole segment from then on |

What the models also show, by the exemptions above and by behaviours the properties leave open: a delete between
the read and the write of a rollup leaves a rollup of deleted recordings, and if the pop from `_have` comes last
no later tick looks at it; so does an unlink of a rollup that fails, and a read that fails once loses all a rollup listed; of two removals at once the later save restores the earlier country; with the boxes
unreachable, the US with one state left wipes everything and downloads nothing (`server.py:1145`).

### Bounds, and why they are enough

* Two segments are what it takes for an update of a drive that already has a listing, and for an older segment
  waiting behind a newer one; two drives separate what happens to a spoilt drive from what must not happen to
  another. In `drives_index` the first two segments are one drive and the third, unreadable one is the next, so that it
  crowds out both whenever it is there. Deletes are in `drives_mirror`, with one thread, which races the watcher;
  threads that delete beside each other only remove, and the proofs of section 5 are for any number. The liveness
  properties are checked without deletes, which would take the run beyond minutes; the safety next to deletes is checked
  and proved. `drives_starved` has three segments because the backlog must exceed a cap of one by the one that
  starves. The caps are 1 and 2 instead of 3 and 25: they only have to differ and be reached.
* Two threads show every two-party race; a third adds none that the properties tell apart, since each
  is about one drive, one client or one file. `drives_mirror`, `settings` and `video` have one request thread because
  the watchers and the prefetch are the second.
* One restart, one clock step, one upgrade: each is recovered from before the next, and the proofs
  in section 5 do not have the bounds. `MaxTroubles` counts failing file operations and restarts of the drives together:
  two are a failure whose damage a second one, or a restart, meets; none are allowed where starvation is shown alone.
* `MaxFails` and `Lockout` are 2 instead of 5 and 60: the lockout must be reachable and last longer than a step.
* `video`: the cap of two minutes holds two segments or one clip, so that every third minute starts a trim; the
  first two of the three segments are there from the start, the third is recorded, and all are lost under way in any
  order. Only what there is now counts for the daemon, so that a gap where a segment was lost stands for one where none
  was recorded; that recordings begin with gaps, too, is in the theorems.
  Requests and restarts are not bounded: the state is finite without. Two threads trim at once; an instance with three
  is out of reach, and the theorems of section 5 hold for any number.
* `clock`: a cold anchor is far from every good one, a late one is within the window of a good one, and a late
  one and the clock of a device that was months behind disagree with both. Four segments let two agree against
  one before a fourth comes. Four minutes are as long as the segments last. One of the two lags is below a day and one
  above.
* `http`: three requests are one that is refused, one that is garbled and one that must not happen; a file of two
  chunks has a proper range and can be cut after its first chunk; an error answer (`ErrorSize`) of one or two chunks is shorter
  than, as long as and longer than such a range.
* `discovery`: two ticks to a second let packets and drops come between a timeout and its half; the interval and
  the wait are a few seconds instead of 30 and 10, in the same order. Two drops are one with and one without an
  error on the socket, in either order.
* `MaxAsks` counts requests to the maps: three are two that race and one that repairs.

`CHECK_DEADLOCK FALSE` stands where the bounds (tokens, requests, segments) bring a system that never stops to
rest.

## 4. Fairness

* `Drives`: weak fairness of the watcher as a whole (a daemon thread in a process the manager keeps alive; a
  tick that raises is followed by the next), and of each delete that has begun (a request thread runs to its end).
  None for loggerd, the disk deleter, the driver or the app, and none for `Settle`: what the properties promise is about
  segments that have settled. Within the watcher
  no choice is favoured: `FinishedIndexed` fails by the order the code itself takes segments in.
  `MaxTroubles` makes failures end, which is all `SettledIndexed` and `GoneSwept` need of them.
* `Clients`: weak fairness of `Tick` (time passes) and of each thread at work. None for clock steps.
* `Settings`: weak fairness of each thread's next step and of `AskTick` (`stop.wait(15)` returns).
* `HttpStream`: weak fairness of the thread of the connection and of the client's reading. Not of asking, of
  leaving or of changing a file: `Answered` is about clients that stay.
* `Discovery`: weak fairness of the main thread, of the thread the signal starts, of the responder and of time.
  Neither signals nor packets nor the network are fair. `Tick` waits for threads that can run, which is the
  assumption that a step takes no time against the seconds of the timeouts.
* `Clock` and `VideoCache` state safety only and have no fairness.
* `OsmMaps` states no liveness property and has no fairness.

## 5. Proofs

`DrivesProofs` proves, for every finite set of segments, any drives, threads, corrupt and deletable sets, caps
and bounds (the named `ASSUME`s of `Drives`, and nothing else):

| theorem | |
|---|---|
| `TypeCorrect` | `Spec => []TypeOK` |
| `MirrorCorrect` | `Spec => []MirrorExact` |
| `ParseOnceCorrect` | `Spec => []ParseOnce` |
| `ProgressCorrect` | `Spec => []ProgressHonest` |
| `NoIndexLossCorrect` | `Spec => NoIndexLoss` |
| `ThumbFirstCorrect` | `Spec => []ThumbFirst` |
| `IndexImplemented` | `Spec => ImplementsIndex` |

The argument. `MirrorExact` is not inductive: it says nothing while an update or a delete is under way, and so
nothing of what they will leave behind. `MirrorInv` adds what is true in between, drive by drive:

* `Typed` - `TypeOK` with `Locals`, which says at each label which of the watcher's locals are in use, and that
  a handler that is not idle has a drive;
* `Sync(r)` - for a drive that has not parted and is not still to be read at boot: what is between the two
  stores is exactly the update in progress (before `RollStore` the rollup still equals the mirror, after it
  the two differ by `add` and `drop`), and what a delete has not yet removed;
* `Booting` - while booting, the mirror lists only what has been read;
* `Backlog` - what the tick has still to fold is not in the mirror, which is what makes a parse happen once;
* `Careful` - what is dropped or forgotten has gone, and an update of a drive that is not marred stores all the rest
  that was there.

There is one lemma per action, and under it a step per conjunct the action can disturb. `ProgressInv` counts:
the indexed and the remaining segments of a tick add up to the total. `IndexImplemented` needs `Careful` (only
what has gone is given up), the typing of `add` (only readable segments are taken in) and `Targets` (a delete
touches only deletable drives, which `Kept` leaves out; what the tick has to fold was finished; a store of a kept drive
lists nothing but what was there and the segment it folds in). `KeptStore` draws them together: what such a store loses has
gone, or the drive is marred. A failing file operation is a `Mishap`, a restart a `StartOver`.

`ClientsProofs` proves, for every set of clients, addresses, codes and threads and every limit (the named `ASSUME`s
of `Clients`):

| theorem | |
|---|---|
| `TypeCorrect` | `Spec => []TypeOK` |
| `StoreImplemented` | `Spec => ImplementsStore` |
| `DeliveredCorrect` | `Spec => []DeliveredLive` |
| `DeadCorrect` | `Spec => []DeadStaysDead`: no token that was revoked or superseded is accepted again |
| `GuessBoundCorrect` | `Spec => []GuessBound` |

The argument. `Typed` is `TypeOK` with what each label says of a thread's locals, and with a budget: the tokens
minted and the threads that are still to mint one do not exceed the tokens there are. `StoreInv` relates the file
to the history: a client has one row and a token is in one row, every token minted so far is in a row, dead or
lost, and no dead one is in a row. A step of a pairing or a revocation is then a step of the abstract store, since
the whole read and write is under one lock. `Limited` counts for `GuessBound`: an address that is not locked out has
used as many guesses as were counted; one that is has used them all, and each thread that had been let in may add
one more, but the one that started the lockout; while it lasts no thread joins them.

`ThumbFirstCorrect` (in `DrivesProofs`) adds `Pictured`: until a restart, what is listed or about to be listed with a
summary that says `thumb` has its thumbnail or belongs to a drive that has parted (`Seen`). It uses `MirrorInv`: what an
update drops has left the rollup before its thumbnail goes.

The other proof modules do the same for their components, each from the named `ASSUME`s of its module only, for every
value of the constants:

| module | theorem | |
|---|---|---|
| `ClockProofs` | `TypeCorrect`, `OneTimelineCorrect`, `TrueTimelineCorrect`, `LiveCorrect` | `Spec => []TypeOK`, `[]OneTimeline`, `[]TrueTimeline`, `[]LiveHonest` |
| `VideoCacheProofs` | `TypeCorrect`, `BuildsMissingCorrect`, `AllOrNothingCorrect`, `CapHoldsCorrect`, `TrimOldestCorrect` | `Spec => []TypeOK`, `[]BuildsMissing`, `[]AllOrNothing`, `[]CapHolds`, `TrimOldest` |
| `OsmMapsProofs` | `TypeCorrect`, `CoherentCorrect`, `NoWipeCorrect`, `TilesKeptCorrect`, `RemovedGoneCorrect` | `Spec => []TypeOK`, `[]Coherent`, `NoWipeUnderway`, `[]TilesKept`, `[]RemovedGone` |
| | `RemovalCorrect`, `SavedAtOnceCorrect` | `Spec => []RemovalComplete`: a removal that runs alone leaves neither the country nor a tile of its own; `Spec => SavedAtOnce`: the selection changes in one step |
| `SettingsProofs` | `TypeCorrect`, `GateCorrect`, `RestoreCorrect` | `Spec => []TypeOK`, `GateHonoured`, `RestoreComplete` |
| `HttpStreamProofs` | `TypeCorrect`, `InStepCorrect`, `LengthKeptCorrect` | `Spec => []TypeOK`, `[]InStep`, `[]LengthKept` |
| `DiscoveryProofs` | `TypeCorrect`, `EndsCleanlyCorrect`, `AnnouncedCorrect` | `Spec => []TypeOK`, `[]EndsCleanly`, `[]Announced` |

With these, every invariant and every action property that a run checks is a theorem. Of the liveness properties, which
only TLC checks, four have a kernel that is proved: what holds at any moment or of any step, and leaves nothing but
"a thread that can run does" to the fairness.

| liveness | theorem | kernel |
|---|---|---|
| `Answered` | `NoMutualWaitCorrect`, `LengthKeptCorrect` | client and server never wait for each other; what is promised is what comes, but for the two exceptions above |
| `Redetected` | `DwindleCorrect`, `FreshStays` | until the next upgrade each thread puts an older version back at most once, and none gets one from clean caches; once all is new it stays so |
| `LockoutEnds` | `LockoutDwindlesCorrect` | a lockout is prolonged by a clock set back, or once by each thread that was let in before |
| `Stops` | `NeverStuckCorrect`, `WindsDownCorrect` | after a signal something can always go on, no step leads back, and the ticks that `EndsCleanly` bounds are counted |

No run checks these kernels, but for `LengthKept`, which `http` does; before they were proved, TLC checked them on the instances of the runs, and that
`ServerWaits`, `MainGoes`, `ShutdownGoes` and `ResponderGoes` say exactly when an action is enabled.

The arguments.

* `ClockProofs`. The fold sorts and takes a maximum, a median and a minimum; in the model these are `CHOOSE`s, so
  that first it is proved that what they choose exists (`Least`, `Greatest`, `BestExists`, `MedianExists`, from the
  well-foundedness of the numbers). Then: a vote is only ever one of four marks (true, late, cold, months behind;
  `Marks`, kept by `Reanchored`); what a fold stores lies within two windows (`Stored`); and while the cold anchors
  are no majority the winning cluster is that of the good ones (`Outvoted`). The invariant `Timed` says this of the
  rollup (`Timeline`) and of the live drive (`Sighted`). Nothing is assumed of the size of the errors; where the live
  card needs it, `LiveHonest` says so itself.
* `VideoCacheProofs`. `LockInv`: the lock is held by the thread that muxes, and what it builds is not there - the second
  look under the lock is what makes it so. `CutInv`: the timeline of a drive runs
  through its segments from the least to the greatest, whatever gaps there are (`NthRuns`, `TimelineRuns`), so that what
  is planned leaves out nothing between its ends, and goes on to do so since segments are recorded at the end only and never
  come back (`Stands`); what a thread has muxed and what it still has to mux make up what it had planned (`Cut`,
  `Cutting`), because a segment that has vanished ends the build; hence what gets a name is all of it (`Filed`). For the trims: `TypedFiles` and `TypedThreads` say that no name is
  twice in the cache or in a list. `Ordered`: of what a trim has listed and nobody built again, the cache holds all that
  is older than any of it (`Closed`), and the list is in the order of the files (`ByAge`); hence what a trim removes is
  the oldest. `Capped`: a file within the cap with all that are older needs no more, and any other is owed or its own
  trim is due - about to list, or with a list that has the file and a `total` no less than what it counts (`Due`). When
  such a trim stops below the cap, `Closed` says that what it counts is all there is up to its file. Sums are sizes of
  sets of minutes (`Weight`), so that they need no induction over sequences.
* `OsmMapsProofs`. `Typed` says at which label which kind of request may be, and that a handle is open just while its
  thread writes. `Written`: `exact` is false until a request has the daemon to itself, and for that one `Stage` says
  at each label what it has made true and what it still owes; a write of the params alone (`Direct`) makes it false again,
  or puts a state that fits (`DirectWrite`). `Quiet`: until something overlapped, no download runs
  while a request is at a step that removes tiles, since none starts without another request. `Debt`: between the
  removal of the tiles and the save of the selection, what is left, or was wiped for want of boxes (`Had`), covers what is
  about to be selected. `Gone`: until
  something overlapped, neither the selection nor a list that is to be saved has a country whose removal was answered. `Removals` says at each
  label of a removal that runs alone what the selection and the tiles already lack. What they need of lists is that
  `Less` drops its country and nothing else, in the order of the list (`LessRange`): it is defined by the rank of
  what stays and not by a recursion, so that this can be proved.
* `SettingsProofs`. A step of one thread leaves the locals of the others alone (`Alone`). `Gate`: a thread that is about
  to write what is offroad-only, or restores, has been offroad at some time in its life. `Progress`: what a restore
  has passed has its value from the backup, or from a later request, which the history remembers.
* `HttpStreamProofs`. `Parts` says what may be on a stream and what the locals say of it; `ByLabel`, what the
  server may do at each label. `StreamInv` lists what is on both streams while the client is idle, reads a
  file or waits for an answer that is not yet or already written, and once the server has closed: only then may
  an answer be left that belongs to no request. After a 500 longer than its range there are more chunks on the stream
  than the client expects, and the next of them ends it (`Spill`). `Measured` and `Whole`: as long as no file slipped between being
  measured and being opened, what was promised is on the stream or still in the server's hands.
* `DiscoveryProofs`. `Ending`: what a receive has outlived `stop()` and what it still lasts are no more than one timeout
  together; a responder that decodes for ever is in neither (`decoding`). `Silence`: in the wait between set-ups the silence fits into the wait; in the loop it is no longer than
  the time since the last announcement, which is due before the interval and one timeout are over. `Bursting`: the
  k-th announcement of a burst comes within k - 1 gaps.

Not proved, only model-checked: everything under fairness (`SettledIndexed`, `GoneSwept`, `LockoutEnds`, `Redetected`, `Answered`, `Stops`) - the prover handles neither liveness nor
`ENABLED`.

## 6. Not modelled

* Contents: what a summary, a track, a schema entry, a reply or a log line says; labels, titles and dates.
* Writes torn by a crash of the machine: the files that matter are replaced by rename.
* `GET` requests that change nothing, except those that fill a cache.
* `reboot`, `poweroff`, `reset_calibration`, and what `reset_settings` does to params other than those of the maps: they
  set or remove params for other processes.
* The sunnylink id of a restore (`server.py` 910-931): one read and one put at the end of a restore, on a param the
  device may register meanwhile. A step of its own would double the state of `settings` for a race of two steps.
* Which network interface the kernel lets the responder join, the bytes of mDNS packets but for one that is never decoded, and the `zeroconf`
  backend, which is for development machines.
* In `Clock`: seconds, and a summary whose start is 0, which the code takes for no start at all.
* In `HttpStream`: an empty file (every file has a chunk at least), and what an endpoint does with half a body, which is
  one guard (`Carries`).
* The inventory cache of the maps (`server.py` 306): it delays what `GET /maps` says by five seconds.
* The check for map updates, which only asks mapd.
* What a clip should show once the list of segments has shifted: clips are cached by position (`drives.py` 800),
  `Sources` says which segments that is at each moment, and nothing in the repository says which is meant.
* Device identity, registry and SDUI parsing, `install.py`, `scripts/`, `tools/`: pure or
  one-shot code.

## 7. Plan

Done: the components of section 2, each with its runs, its mutants and its theorems; both refinements.

Left, in this order:

1. The summary and the track of a drive as pure operators of its segments (`drives.py` 233-316).
2. The parsing of the registry and of the SDUI sources as pure operators, against a reference definition.
3. The sunnylink id of a restore, once the instance of `settings` is small enough to bear one more step.
