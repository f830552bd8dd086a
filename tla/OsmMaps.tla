------------------------------ MODULE OsmMaps ------------------------------
(***************************************************************************)
(* The offline maps of sunnyconf (src/daemon/server.py): the multi-country *)
(* selection in osm_countries.json, its mirror in the stock single-country *)
(* params, the tile tree and the download list handed to mapd. PUT /maps,  *)
(* DELETE /maps/<ref>, POST /actions/delete_maps and osm_update and the    *)
(* maps part of POST /restore run in threads of their own with no lock; a  *)
(* request is a sequence of steps, and any other request, mapd or a crash  *)
(* may come between two of them.                                           *)
(*                                                                         *)
(* A country is its ref. OsmLocationName stands for OsmLocationTitle and   *)
(* OsmLocal too and is the variable name; OsmStateName, with its title, is *)
(* state. The dates that are only shown are left out.                      *)
(***************************************************************************)
EXTENDS Integers, Sequences, FiniteSets, Functions

CONSTANTS
  Country,      \* country refs
  US,           \* the ref "US"
  Lists,        \* selections the app sends: sequences of countries
  Tile,         \* 0.25 degree tiles
  Box,          \* [Country -> SUBSET Tile]: tiles its padded bounding box meets
  Own,          \* [Country -> SUBSET Tile]: tiles mapd downloads for it
  StateOwn,     \* [US states -> SUBSET Tile]: tiles mapd downloads for a state
  AllStates,    \* the state ref "All"
  None,         \* a param or file that is absent, a download list that is empty
  Torn,         \* file content that does not parse, or is not written yet
  Handler,      \* HTTP threads
  MaxAsks,      \* bound: requests
  MaxRestarts   \* bound: daemon restarts

State == DOMAIN StateOwn

\* The j-th smallest member of S.
Nth(S, j) == CHOOSE i \in S : Cardinality({k \in S : k <= i}) = j

\* What remains of a selection without c, in its order.
Less(list, c) ==
  LET at == {i \in 1..Len(list) : list[i] # c}
  IN  [j \in 1..Cardinality(at) |-> list[Nth(at, j)]]

ASSUME SelectionAssumption ==
  /\ Lists \subseteq Seq(Country) /\ <<>> \in Lists
  /\ \A l \in Lists, c \in Country : Less(l, c) \in Lists
ASSUME AbsentAssumption ==
  /\ None \notin Country \cup State \cup {AllStates}
  /\ \A l \in Lists : l \notin {None, Torn}
  /\ None # Torn
ASSUME GeometryAssumption ==
  /\ Box \in [Country -> SUBSET Tile]
  /\ Own \in [Country -> SUBSET Tile]
  /\ \A c \in Country : Own[c] \subseteq Box[c]
ASSUME BoundAssumption == MaxAsks \in Nat /\ MaxRestarts \in Nat

VARIABLES
  file,         \* osm_countries.json
  tmp,          \* osm_countries.tmp
  fd,           \* per thread: the file its open handle writes to
  name,         \* OsmLocationName (with its title and OsmLocal)
  state,        \* OsmStateName (with its title)
  downloads,    \* OSMDownloadLocations in the mem params
  tiles,        \* the tiles under MAP_PATH
  boxes,        \* _bbox_cache is filled
  pc, req,      \* where each request thread is, and its request
  asks, restarts,
  \* history, which no action reads
  alone,        \* no two requests overlapped since all threads were idle
  exact,        \* the last request that wrote the selection ran alone, and
                \* no write of a single param parted the two since
  disturbed,    \* requests overlapped, or a restart cut one, at some time
  owed,         \* downloaded tiles of countries selected ever since
  wiped,        \* owed tiles that went with the whole tree, because the boxes
                \* could not be had, and were not downloaded again
  removing,     \* countries a DELETE was asked for, not selected again since
  removed       \* countries a DELETE reported removed, not selected again since

disk == <<file, tmp, fd>>
params == <<name, state>>
threads == <<pc, req>>
history == <<alone, exact, disturbed, owed, wiped, removing, removed>>
vars == <<disk, params, downloads, tiles, boxes, threads, asks, restarts, history>>

NoRequest == [kind |-> "none", list |-> <<>>, ref |-> None, state |-> None, redo |-> FALSE]
Download == [nations : SUBSET Country, states : SUBSET State]

Init ==
  /\ file = None /\ tmp = None
  /\ fd = [h \in Handler |-> "none"]
  /\ name = None /\ state = None /\ downloads = None
  /\ tiles = {} /\ boxes = FALSE
  /\ pc = [h \in Handler |-> "idle"]
  /\ req = [h \in Handler |-> NoRequest]
  /\ asks = 0 /\ restarts = 0
  /\ alone = TRUE /\ exact = TRUE /\ disturbed = FALSE
  /\ owed = {} /\ wiped = {} /\ removing = {} /\ removed = {}

AllIdle == \A h \in Handler : pc[h] = "idle"

\* _load_osm_countries: a file that is absent or does not parse is no selection.
Loaded == IF file \in {None, Torn} THEN <<>> ELSE file

\* Mutant of Selection: "All" is taken for a state.
SelectionAllIsState ==
  LET nations == IF Loaded = <<>> /\ name # None THEN {name} ELSE Range(Loaded)
      one == US \in nations /\ state # None
  IN  [nations |-> IF one THEN nations \ {US} ELSE nations,
       states |-> IF one THEN {state} ELSE {}]

\* _osm_selection: what is handed to mapd. A US state replaces the whole US.
Selection ==
  LET nations == IF Loaded = <<>> /\ name # None THEN {name} ELSE Range(Loaded)
      one == US \in nations /\ state \notin {None, AllStates}
  IN  [nations |-> IF one THEN nations \ {US} ELSE nations,
       states |-> IF one THEN {state} ELSE {}]

Wanted(d) == UNION {Own[c] : c \in d.nations} \cup UNION {StateOwn[s] : s \in d.states}
OwnedBy(list) == UNION {Own[c] : c \in Range(list)}

-----------------------------------------------------------------------------
(* Requests.                                                                *)

\* Countries that a request still at work selects.
Selecting ==
  UNION {Range(req[g].list) : g \in {g \in Handler : req[g].kind \in {"put", "restore"}}}

\* Thread h takes a request r and starts at label l.
Take(h, r, l) ==
  /\ pc[h] = "idle" /\ asks < MaxAsks
  /\ asks' = asks + 1
  /\ pc' = [pc EXCEPT ![h] = l]
  /\ req' = [req EXCEPT ![h] = [NoRequest EXCEPT !.kind = r.kind, !.list = r.list,
                                                 !.ref = r.ref, !.state = r.state]]
  /\ alone' = AllIdle
  /\ exact' = (exact /\ AllIdle)
  /\ disturbed' = (disturbed \/ ~AllIdle)
  /\ removing' = (removing \ Range(r.list)) \cup ({r.ref} \ (Selecting \cup {None}))
  /\ removed' = removed \ Range(r.list)
  /\ UNCHANGED <<disk, params, downloads, tiles, boxes, restarts, owed, wiped>>

\* PUT /maps.
AskPut(h, l) ==
  Take(h, [kind |-> "put", list |-> l, ref |-> None, state |-> None], "save")

\* POST /restore with a map selection (an empty one is skipped).
AskRestore(h, l, s) ==
  /\ l # <<>>
  /\ Take(h, [kind |-> "restore", list |-> l, ref |-> None, state |-> s], "save")

\* Mutant of AskDelete: no look at the running download.
AskDeleteAnyTime(h, c) ==
  Take(h, [kind |-> "delete", list |-> <<>>, ref |-> c, state |-> None], "load")

\* DELETE /maps/<ref>, POST delete_maps and osm_update are refused while a
\* download runs.
AskDelete(h, c) ==
  /\ downloads = None
  /\ Take(h, [kind |-> "delete", list |-> <<>>, ref |-> c, state |-> None], "load")

AskWipe(h) ==
  /\ downloads = None
  /\ Take(h, [kind |-> "wipe", list |-> <<>>, ref |-> None, state |-> None], "rmtree")

AskUpdate(h) ==
  /\ downloads = None
  /\ Take(h, [kind |-> "update", list |-> <<>>, ref |-> None, state |-> None], "kick")

Go(h, l) == pc' = [pc EXCEPT ![h] = l]
At(h, l) == pc[h] = l

\* The request ends.
End(h) == Go(h, "idle") /\ req' = [req EXCEPT ![h] = NoRequest]

\* It ends having written the whole selection.
EndWritten(h) == End(h) /\ exact' = (exact \/ alone)

-----------------------------------------------------------------------------
(* _save_osm_countries: an empty list removes the file; another is written  *)
(* to the .tmp beside it, which all threads share, and renamed over it.     *)

AfterSave(h) ==
  IF req[h].kind = "wipe" THEN EndWritten(h) ELSE Go(h, "name") /\ UNCHANGED <<req, exact>>

SaveUnlink(h) ==
  /\ At(h, "save") /\ req[h].list = <<>>
  /\ file' = None
  /\ fd' = [g \in Handler |-> IF fd[g] = "file" THEN "gone" ELSE fd[g]]
  /\ owed' = {}
  /\ AfterSave(h)
  /\ UNCHANGED <<tmp, params, downloads, tiles, boxes, asks, restarts,
                 alone, disturbed, wiped, removing, removed>>

SaveOpen(h) ==
  /\ At(h, "save") /\ req[h].list # <<>>
  /\ tmp' = Torn
  /\ fd' = [fd EXCEPT ![h] = "tmp"]
  /\ Go(h, "write")
  /\ UNCHANGED <<file, params, downloads, tiles, boxes, req, asks, restarts, history>>

\* The handle writes where the file has gone meanwhile. Over a list that another
\* thread wrote after the open, the result may be a mix of the two.
SaveWrite(h) ==
  /\ At(h, "write")
  /\ \E c \in {req[h].list, Torn} :
       /\ CASE fd[h] = "tmp"  -> (c = Torn => tmp # Torn) /\ tmp' = c /\ UNCHANGED file
            [] fd[h] = "file" -> (c = Torn => file # Torn) /\ file' = c /\ UNCHANGED tmp
            [] fd[h] = "gone" -> c # Torn /\ UNCHANGED <<file, tmp>>
  /\ fd' = [fd EXCEPT ![h] = "none"]
  /\ Go(h, "replace")
  /\ UNCHANGED <<params, downloads, tiles, boxes, req, asks, restarts, history>>

SaveReplace(h) ==
  /\ At(h, "replace") /\ tmp # None
  /\ file' = tmp /\ tmp' = None
  /\ fd' = [g \in Handler |-> CASE fd[g] = "file" -> "gone" [] fd[g] = "tmp" -> "file"
                                [] OTHER -> fd[g]]
  /\ owed' = IF tmp = Torn THEN {} ELSE owed \cap OwnedBy(tmp)
  /\ AfterSave(h)
  /\ UNCHANGED <<params, downloads, tiles, boxes, asks, restarts,
                 alone, disturbed, wiped, removing, removed>>

\* Another thread has renamed the .tmp away: 500, and the rest is not done.
SaveLost(h) ==
  /\ At(h, "replace") /\ tmp = None
  /\ End(h)
  /\ UNCHANGED <<disk, params, downloads, tiles, boxes, asks, restarts, history>>

-----------------------------------------------------------------------------
(* _mirror_selection.                                                       *)

MirrorName(h) ==
  /\ At(h, "name")
  /\ name' = IF req[h].list = <<>> THEN None ELSE req[h].list[1]
  /\ Go(h, "state")
  /\ UNCHANGED <<disk, state, downloads, tiles, boxes, req, asks, restarts, history>>

AfterMirror(h) ==
  CASE req[h].kind = "put" -> EndWritten(h) /\ UNCHANGED removed
    [] req[h].kind = "restore" -> Go(h, "us") /\ UNCHANGED <<req, exact, removed>>
    [] req[h].kind = "delete" ->
         /\ removed' = removed \cup ({req[h].ref} \cap removing)
         /\ IF req[h].redo THEN Go(h, "again") /\ UNCHANGED <<req, exact>>
                           ELSE EndWritten(h)

\* Mutant of MirrorState: the state stays when the US is deselected.
MirrorStateKeeps(h) ==
  /\ At(h, "state")
  /\ state' = IF req[h].list = <<>> THEN None ELSE state
  /\ AfterMirror(h)
  /\ UNCHANGED <<disk, name, downloads, tiles, boxes, asks, restarts,
                 alone, disturbed, owed, wiped, removing>>

MirrorState(h) ==
  /\ At(h, "state")
  /\ state' = IF US \in Range(req[h].list) THEN state ELSE None
  /\ AfterMirror(h)
  /\ UNCHANGED <<disk, name, downloads, tiles, boxes, asks, restarts,
                 alone, disturbed, owed, wiped, removing>>

-----------------------------------------------------------------------------
(* _delete_country.                                                         *)

\* Mutant of Load: the country is not taken off the list.
LoadAll(h) ==
  /\ At(h, "load") /\ req[h].ref \in Range(Loaded)
  /\ req' = [req EXCEPT ![h].list = Loaded]
  /\ Go(h, "tiles")
  /\ UNCHANGED <<disk, params, downloads, tiles, boxes, asks, restarts, history>>

Load(h) ==
  /\ At(h, "load") /\ req[h].ref \in Range(Loaded)
  /\ req' = [req EXCEPT ![h].list = Less(Loaded, req[h].ref)]
  /\ Go(h, "tiles")
  /\ UNCHANGED <<disk, params, downloads, tiles, boxes, asks, restarts, history>>

LoadUnknown(h) ==
  /\ At(h, "load") /\ req[h].ref \notin Range(Loaded)
  /\ End(h)
  /\ UNCHANGED <<disk, params, downloads, tiles, boxes, asks, restarts, history>>

\* The bounding boxes are cached, or fetched now; a fetch may fail.
Boxes(ok) == IF boxes THEN ok /\ UNCHANGED boxes ELSE boxes' = ok

\* The last country goes: the whole tree with it.
TilesAll(h) ==
  /\ At(h, "tiles") /\ req[h].list = <<>>
  /\ \E ok \in BOOLEAN : Boxes(ok)
  /\ tiles' = {}
  /\ Go(h, "save")
  /\ UNCHANGED <<disk, params, downloads, req, asks, restarts, history>>

\* Mutant of TilesBoxed: the boxes of the remaining countries are not looked at.
TilesBoxedAll(h) ==
  /\ At(h, "tiles") /\ req[h].list # <<>>
  /\ Boxes(TRUE)
  /\ tiles' = tiles \ Box[req[h].ref]
  /\ Go(h, "save")
  /\ UNCHANGED <<disk, params, downloads, req, asks, restarts, history>>

\* The tiles in its box go, those in the box of a remaining country stay.
TilesBoxed(h) ==
  /\ At(h, "tiles") /\ req[h].list # <<>>
  /\ Boxes(TRUE)
  /\ tiles' = tiles \ (Box[req[h].ref] \ UNION {Box[c] : c \in Range(req[h].list)})
  /\ Go(h, "save")
  /\ UNCHANGED <<disk, params, downloads, req, asks, restarts, history>>

\* No boxes: the whole tree goes, and what is left is to be downloaded again.
TilesUnknown(h) ==
  /\ At(h, "tiles") /\ req[h].list # <<>>
  /\ Boxes(FALSE)
  /\ tiles' = {} /\ wiped' = wiped \cup owed
  /\ req' = [req EXCEPT ![h].redo = TRUE]
  /\ Go(h, "save")
  /\ UNCHANGED <<disk, params, downloads, asks, restarts, alone, exact, disturbed,
                 owed, removing, removed>>

\* redownload: mapd is handed the selection, unless it names no nation.
Redownload(h) ==
  /\ At(h, "again")
  /\ downloads' = IF Selection.nations = {} THEN downloads ELSE Selection
  /\ EndWritten(h)
  /\ UNCHANGED <<disk, params, tiles, boxes, asks, restarts,
                 alone, disturbed, owed, wiped, removing, removed>>

-----------------------------------------------------------------------------
(* POST /actions/delete_maps, POST /actions/osm_update, and the end of      *)
(* _restore_maps.                                                           *)

WipeTiles(h) ==
  /\ At(h, "rmtree")
  /\ tiles' = {}
  /\ Go(h, "reset")
  /\ UNCHANGED <<disk, params, downloads, boxes, req, asks, restarts, history>>

WipeParams(h) ==
  /\ At(h, "reset")
  /\ name' = None /\ state' = None
  /\ Go(h, "save")
  /\ UNCHANGED <<disk, downloads, tiles, boxes, req, asks, restarts, history>>

\* osm_update: 400 when the selection names no nation.
Update(h) ==
  /\ At(h, "kick")
  /\ downloads' = IF Selection.nations = {} THEN downloads ELSE Selection
  /\ End(h)
  /\ UNCHANGED <<disk, params, tiles, boxes, asks, restarts, history>>

\* The US state of the backup goes back after the mirror.
RestoreState(h) ==
  /\ At(h, "us")
  /\ state' = IF US \in Range(req[h].list) /\ req[h].state # None
                THEN req[h].state ELSE state
  /\ Go(h, "busy")
  /\ UNCHANGED <<disk, name, downloads, tiles, boxes, req, asks, restarts, history>>

\* A download that runs keeps its own list.
RestoreBusy(h) ==
  /\ At(h, "busy") /\ downloads # None
  /\ EndWritten(h)
  /\ UNCHANGED <<disk, params, downloads, tiles, boxes, asks, restarts,
                 alone, disturbed, owed, wiped, removing, removed>>

RestoreFree(h) ==
  /\ At(h, "busy") /\ downloads = None
  /\ Go(h, "restart")
  /\ UNCHANGED <<disk, params, downloads, tiles, boxes, req, asks, restarts, history>>

RestoreKick(h) ==
  /\ At(h, "restart")
  /\ downloads' = Selection
  /\ EndWritten(h)
  /\ UNCHANGED <<disk, params, tiles, boxes, asks, restarts,
                 alone, disturbed, owed, wiped, removing, removed>>

-----------------------------------------------------------------------------
(* Requests that write the params and not the selection. None looks at what *)
(* is selected, and a request under way does not have the params to itself  *)
(* any more.                                                                *)

PutParams(n, s) ==
  /\ asks < MaxAsks /\ asks' = asks + 1
  /\ name' = n /\ state' = s
  /\ alone' = (alone /\ AllIdle)
  /\ disturbed' = (disturbed \/ ~AllIdle)
  /\ UNCHANGED <<disk, downloads, tiles, boxes, threads, restarts, owed, wiped, removing, removed>>

\* PUT and DELETE /params/OsmStateName. The app's picker writes the state of a
\* selected US, which keeps the two together.
PutState(s) ==
  /\ PutParams(name, s)
  /\ exact' = (exact /\ AllIdle /\ (s # None => US \in Range(Loaded)))

\* PUT and DELETE /params/OsmLocationName.
PutName(n) == PutParams(n, state) /\ exact' = FALSE

\* POST /actions/reset_settings removes every param and leaves the selection.
ResetSettings == PutParams(None, None) /\ exact' = FALSE

-----------------------------------------------------------------------------
(* mapd, and the daemon's end.                                              *)

\* mapd stores a tile of the list it was handed.
MapdFetch(t) ==
  /\ downloads # None /\ t \in Wanted(downloads) \ tiles
  /\ tiles' = tiles \cup {t}
  /\ owed' = (owed \cup {t}) \cap OwnedBy(Loaded)
  /\ wiped' = wiped \ {t}
  /\ UNCHANGED <<disk, params, downloads, boxes, threads, asks, restarts,
                 alone, exact, disturbed, removing, removed>>

\* mapd is done with the list, whether or not it got every tile.
MapdDone ==
  /\ downloads # None /\ downloads' = None
  /\ UNCHANGED <<disk, params, tiles, boxes, threads, asks, restarts, history>>

\* The daemon dies and starts again; files, params and mapd stay as they are.
Restart ==
  /\ restarts < MaxRestarts /\ restarts' = restarts + 1
  /\ pc' = [h \in Handler |-> "idle"]
  /\ req' = [h \in Handler |-> NoRequest]
  /\ fd' = [h \in Handler |-> "none"]
  /\ boxes' = FALSE
  /\ alone' = TRUE
  /\ exact' = (exact /\ AllIdle)
  /\ disturbed' = (disturbed \/ ~AllIdle)
  /\ UNCHANGED <<file, tmp, params, downloads, tiles, asks, owed, wiped, removing, removed>>

-----------------------------------------------------------------------------
Ask(h) ==
  \/ \E l \in Lists : AskPut(h, l)
  \/ \E l \in Lists, s \in State \cup {None, AllStates} : AskRestore(h, l, s)
  \/ \E c \in Country : AskDelete(h, c)
  \/ AskWipe(h) \/ AskUpdate(h)

Run(h) ==
  \/ SaveUnlink(h) \/ SaveOpen(h) \/ SaveWrite(h) \/ SaveReplace(h) \/ SaveLost(h)
  \/ MirrorName(h) \/ MirrorState(h)
  \/ Load(h) \/ LoadUnknown(h) \/ TilesAll(h) \/ TilesBoxed(h) \/ TilesUnknown(h)
  \/ Redownload(h) \/ WipeTiles(h) \/ WipeParams(h) \/ Update(h)
  \/ RestoreState(h) \/ RestoreBusy(h) \/ RestoreFree(h) \/ RestoreKick(h)

Next ==
  \/ \E h \in Handler : Ask(h) \/ Run(h)
  \/ \E s \in State \cup {AllStates, None} : PutState(s)
  \/ \E n \in Country \cup {None} : PutName(n)
  \/ ResetSettings
  \/ \E t \in Tile : MapdFetch(t)
  \/ MapdDone \/ Restart

Spec == Init /\ [][Next]_vars

-----------------------------------------------------------------------------
(* Properties.                                                              *)

\* Every variable holds a value of its kind.
TypeOK ==
  /\ file \in Lists \cup {None, Torn} /\ tmp \in Lists \cup {None, Torn}
  /\ fd \in [Handler -> {"none", "tmp", "file", "gone"}]
  /\ name \in Country \cup {None} /\ state \in State \cup {None, AllStates}
  /\ downloads \in Download \cup {None}
  /\ tiles \subseteq Tile /\ boxes \in BOOLEAN
  /\ \A h \in Handler : req[h].list \in Lists /\ req[h].ref \in Country \cup {None}
  /\ owed \subseteq Tile /\ wiped \subseteq Tile /\ removing \subseteq Country /\ removed \subseteq Country
  /\ {alone, exact, disturbed} \subseteq BOOLEAN

\* "Keep the stock single-country params coherent with the multi-selection":
\* once a request that writes the selection has run alone, whatever overlapping
\* requests and crashes did before it, the params are those of the file: the
\* first country, and a state only while the US is selected -- until a request
\* writes or resets the params alone, which looks at no selection
\* (server.py:1167-1267, 700-703).
Coherent ==
  AllIdle /\ exact =>
    /\ file # Torn
    /\ name = IF Loaded = <<>> THEN None ELSE Loaded[1]
    /\ state # None => US \in Range(Loaded)

\* "shared tiles survive and nothing needs re-downloading": a downloaded tile of
\* a country that stayed selected is still on the disk, whatever other countries
\* were removed -- unless requests overlapped or were cut by a restart, and but
\* for what went with the whole tree in a removal that could not have the boxes
\* (server.py:1145-1149) and is to be downloaded again.
TilesKept == AllIdle /\ ~disturbed => owed \subseteq tiles \cup wiped

\* A country whose DELETE was answered is not selected until a request selects
\* it -- unless requests overlapped or were cut by a restart.
RemovedGone == AllIdle /\ ~disturbed => removed \cap Range(Loaded) = {}

\* "409 while a download runs": no tile is removed while mapd downloads --
\* unless requests overlapped.
NoWipeUnderway ==
  [][~disturbed' /\ ~(tiles \subseteq tiles') => downloads = None]_vars
=============================================================================
