---------------------------- MODULE OsmMapsProofs ----------------------------
(***************************************************************************)
(* Theorems about OsmMaps, for any countries, selections, tiles, boxes,    *)
(* threads and bounds.                                                     *)
(***************************************************************************)
EXTENDS OsmMaps, FiniteSetTheorems, TLAPS

-----------------------------------------------------------------------------
(* Types.                                                                   *)

StateRef == State \cup {None, AllStates}

Label == {"idle", "save", "write", "replace", "name", "state", "load", "tiles", "again",
          "rmtree", "reset", "kick", "us", "busy", "restart"}

Request == [kind : {"none", "put", "restore", "delete", "wipe", "update"}, list : Lists,
            ref : Country \cup {None}, state : StateRef, redo : BOOLEAN]

\* What kind of request r may be at label l, and that a wipe saves no selection.
Fitting(l, r) ==
  /\ l \in {"load", "tiles"} => r.kind = "delete"
  /\ l \in {"rmtree", "reset"} => r.kind = "wipe"
  /\ l \in {"save", "write", "replace"} => r.kind \in {"put", "restore", "delete", "wipe"}
  /\ l \in {"name", "state"} => r.kind \in {"put", "restore", "delete"}
  /\ r.kind = "wipe" => r.list = <<>>

Threads ==
  /\ pc \in [Handler -> Label] /\ req \in [Handler -> Request]
  /\ \A h \in Handler : Fitting(pc[h], req[h])

\* Thread h goes to label l with request r.
Moves(h, l, r) == pc' = [pc EXCEPT ![h] = l] /\ req' = [req EXCEPT ![h] = r]

LEMMA MovesThreads ==
  ASSUME Threads, NEW h \in Handler, NEW l \in Label, NEW r \in Request,
         Moves(h, l, r), Fitting(l, r)
  PROVE  Threads'
<1>1. pc' \in [Handler -> Label] /\ req' \in [Handler -> Request]
  BY DEF Threads, Moves
<1>2. ASSUME NEW g \in Handler PROVE Fitting(pc'[g], req'[g])
  <2>1. CASE g = h
    <3>1. pc'[g] = l /\ req'[g] = r
      BY <2>1 DEF Threads, Moves
    <3> QED
      BY <3>1
  <2>2. CASE g # h
    <3>1. pc'[g] = pc[g] /\ req'[g] = req[g]
      BY <2>2 DEF Threads, Moves
    <3> QED
      BY <3>1 DEF Threads
  <2> QED
    BY <2>1, <2>2
<1>3. \A g \in Handler : Fitting(pc[g], req[g])'
  BY <1>2 DEF Fitting
<1> QED
  BY <1>1, <1>3 DEF Threads

\* The parts of a request of thread h.
LEMMA RequestParts ==
  ASSUME Threads, NEW h \in Handler
  PROVE  /\ pc[h] \in Label /\ req[h] \in Request /\ Fitting(pc[h], req[h])
         /\ req[h].kind \in {"none", "put", "restore", "delete", "wipe", "update"}
         /\ req[h].list \in Lists /\ req[h].ref \in Country \cup {None}
         /\ req[h].state \in StateRef /\ req[h].redo \in BOOLEAN
<1>1. pc[h] \in Label /\ req[h] \in Request /\ Fitting(pc[h], req[h])
  BY DEF Threads
<1> QED
  BY <1>1 DEF Request

LEMMA NoRequestFits ==
  NoRequest \in Request /\ NoRequest.kind = "none" /\ \A l \in {"idle"} : Fitting(l, NoRequest)
BY SelectionAssumption DEF NoRequest, Request, StateRef, Fitting

\* Thread h goes on with its request, or ends it.
LEMMA GoMoves ==
  ASSUME Threads, NEW h \in Handler, NEW l, Go(h, l), req' = req
  PROVE  Moves(h, l, req[h])
BY DEF Threads, Go, Moves

LEMMA EndMoves ==
  ASSUME NEW h, End(h)
  PROVE  Moves(h, "idle", NoRequest)
BY DEF End, Go, Moves

\* The selection on disk is a sequence of countries.
LEMMA LoadedList ==
  ASSUME TypeOK
  PROVE  Loaded \in Lists /\ Loaded \in Seq(Country) /\ Range(Loaded) \subseteq Country
<1>1. Loaded \in Lists
  BY SelectionAssumption DEF TypeOK, Loaded
<1>2. Loaded \in Seq(Country)
  BY <1>1, SelectionAssumption
<1>3. \A i \in DOMAIN Loaded : Loaded[i] \in Country
  BY <1>2
<1> QED
  BY <1>1, <1>2, <1>3 DEF Range

LEMMA SelectionDownload ==
  ASSUME TypeOK
  PROVE  Selection \in Download
<1> DEFINE nations == IF Loaded = <<>> /\ name # None THEN {name} ELSE Range(Loaded)
           one == US \in nations /\ state \notin {None, AllStates}
<1>1. nations \subseteq Country
  BY LoadedList DEF TypeOK
<1>2. one => state \in State
  BY DEF TypeOK
<1>3. (IF one THEN nations \ {US} ELSE nations) \in SUBSET Country
  BY <1>1
<1>4. (IF one THEN {state} ELSE {}) \in SUBSET State
  BY <1>2
<1>5. Selection = [nations |-> IF one THEN nations \ {US} ELSE nations,
                   states |-> IF one THEN {state} ELSE {}]
  BY DEF Selection
<1> HIDE DEF nations, one
<1> QED
  BY <1>3, <1>4, <1>5 DEF Download

\* What of TypeOK does not speak of the threads.
Store ==
  /\ file \in Lists \cup {None, Torn} /\ tmp \in Lists \cup {None, Torn}
  /\ fd \in [Handler -> {"none", "tmp", "file", "gone"}]
  /\ name \in Country \cup {None} /\ state \in StateRef
  /\ downloads \in Download \cup {None}
  /\ tiles \subseteq Tile /\ boxes \in BOOLEAN
  /\ owed \subseteq Tile /\ wiped \subseteq Tile
  /\ removing \subseteq Country /\ removed \subseteq Country
  /\ alone \in BOOLEAN /\ exact \in BOOLEAN /\ disturbed \in BOOLEAN

\* A request that writes the params and not the selection.
Direct ==
  \/ \E s \in State \cup {AllStates, None} : PutState(s)
  \/ \E n \in Country \cup {None} : PutName(n)
  \/ ResetSettings

\* It touches the params, and what it leaves of exact is a state that fits.
LEMMA DirectWrite ==
  ASSUME Store, Direct
  PROVE  /\ name' \in Country \cup {None} /\ state' \in StateRef
         /\ alone' = (alone /\ AllIdle) /\ disturbed' = (disturbed \/ ~AllIdle)
         /\ exact' \in BOOLEAN
         /\ exact' => exact /\ AllIdle /\ name' = name /\ (state' # None => US \in Range(Loaded))
         /\ file' = file /\ tmp' = tmp /\ fd' = fd /\ downloads' = downloads
         /\ tiles' = tiles /\ boxes' = boxes /\ pc' = pc /\ req' = req
         /\ owed' = owed /\ wiped' = wiped /\ removing' = removing /\ removed' = removed
<1>1. ASSUME NEW s \in StateRef, PutState(s)
      PROVE  /\ name' = name /\ state' = s
             /\ exact' = (exact /\ AllIdle /\ (s # None => US \in Range(Loaded)))
             /\ PutParams(name, s)
  BY <1>1 DEF PutState, PutParams
<1>2. ASSUME NEW n \in Country \cup {None}, PutName(n)
      PROVE  name' = n /\ state' = state /\ exact' = FALSE /\ PutParams(n, state)
  BY <1>2 DEF PutName, PutParams
<1>3. ASSUME ResetSettings
      PROVE  name' = None /\ state' = None /\ exact' = FALSE /\ PutParams(None, None)
  BY <1>3 DEF ResetSettings, PutParams
<1>4. PICK n, s : PutParams(n, s)
  BY <1>1, <1>2, <1>3 DEF Direct, StateRef
<1>5. /\ alone' = (alone /\ AllIdle) /\ disturbed' = (disturbed \/ ~AllIdle)
      /\ file' = file /\ tmp' = tmp /\ fd' = fd /\ downloads' = downloads
      /\ tiles' = tiles /\ boxes' = boxes /\ pc' = pc /\ req' = req
      /\ owed' = owed /\ wiped' = wiped /\ removing' = removing /\ removed' = removed
  BY <1>4 DEF PutParams, disk, threads
<1>6. /\ name' \in Country \cup {None} /\ state' \in StateRef /\ exact' \in BOOLEAN
      /\ exact' => exact /\ AllIdle /\ name' = name /\ (state' # None => US \in Range(Loaded))
  BY <1>1, <1>2, <1>3 DEF Direct, Store, StateRef
<1> QED
  BY <1>5, <1>6

\* A thread has the .tmp open, or what became of it, just while it writes.
Handles == \A h \in Handler : pc[h] = "write" <=> fd[h] # "none"

Typed == Store /\ Threads /\ Handles

LEMMA TypedType == Typed => TypeOK
<1>1. Threads => \A h \in Handler : req[h].list \in Lists /\ req[h].ref \in Country \cup {None}
  BY RequestParts
<1> QED
  BY <1>1 DEF Typed, TypeOK, Store, StateRef

LEMMA TypeInit == Init => Typed
<1> SUFFICES ASSUME Init PROVE Typed
  OBVIOUS
<1>1. Store
  BY DEF Init, Store, StateRef
<1>2. Threads
  BY NoRequestFits DEF Init, Threads, Label
<1>3. Handles
  BY DEF Init, Handles
<1> QED
  BY <1>1, <1>2, <1>3 DEF Typed

\* What a step of thread h to label l does to the handles.
LEMMA HandlesMove ==
  ASSUME Typed, NEW h \in Handler, NEW l, Go(h, l),
         l = "write" <=> fd'[h] # "none",
         \A g \in Handler \ {h} : fd'[g] # "none" <=> fd[g] # "none"
  PROVE  Handles'
<1>1. \A g \in Handler : pc'[g] = IF g = h THEN l ELSE pc[g]
  BY DEF Typed, Threads, Go
<1> QED
  BY <1>1 DEF Typed, Handles

LEMMA HandlesRun ==
  ASSUME Typed, NEW h \in Handler, Run(h)
  PROVE  Handles'
<1>1. Store /\ Threads /\ Handles
  BY DEF Typed
<1>2. ASSUME NEW l, Go(h, l), l # "write", pc[h] # "write", fd' = fd PROVE Handles'
  BY <1>1, <1>2, HandlesMove DEF Handles
<1>3. ASSUME AfterSave(h) PROVE \E l : Go(h, l) /\ l # "write"
  BY <1>3 DEF AfterSave, EndWritten, End
<1>4. CASE SaveUnlink(h) \/ SaveReplace(h)
  <2>1. PICK l : Go(h, l) /\ l # "write"
    BY <1>3, <1>4 DEF SaveUnlink, SaveReplace
  <2>2. \A g \in Handler : fd'[g] # "none" <=> fd[g] # "none"
    BY <1>1, <1>4 DEF SaveUnlink, SaveReplace, Store
  <2>3. pc[h] # "write"
    BY <1>4 DEF SaveUnlink, SaveReplace, At
  <2> QED
    BY <1>1, <2>1, <2>2, <2>3, HandlesMove DEF Handles
<1>5. CASE SaveOpen(h)
  BY <1>1, <1>5, HandlesMove DEF SaveOpen, Store
<1>6. CASE SaveWrite(h)
  BY <1>1, <1>6, HandlesMove DEF SaveWrite, Store
<1>7. CASE MirrorState(h)
  <2>1. \E l : Go(h, l) /\ l # "write"
    <3>1. req[h].kind \in {"put", "restore", "delete"}
      BY <1>1, <1>7, RequestParts DEF MirrorState, At, Fitting
    <3>2. CASE req[h].kind = "put"
      BY <1>7, <3>2 DEF MirrorState, AfterMirror, EndWritten, End
    <3>3. CASE req[h].kind = "restore"
      BY <1>7, <3>3 DEF MirrorState, AfterMirror
    <3>4. CASE req[h].kind = "delete"
      <4>1. Go(h, "again") \/ End(h)
        BY <1>7, <3>4, Zenon DEF MirrorState, AfterMirror, EndWritten
      <4> QED
        BY <4>1 DEF End
    <3> QED
      BY <3>1, <3>2, <3>3, <3>4
  <2> QED
    BY <1>2, <1>7, <2>1 DEF MirrorState, At, disk
<1>8. CASE SaveLost(h) \/ LoadUnknown(h) \/ Update(h)
  BY <1>2, <1>8 DEF SaveLost, LoadUnknown, Update, At, End, disk
<1>9. CASE Redownload(h) \/ RestoreBusy(h) \/ RestoreKick(h)
  BY <1>2, <1>9 DEF Redownload, RestoreBusy, RestoreKick, EndWritten, At, End, disk
<1>10. CASE MirrorName(h) \/ Load(h) \/ WipeTiles(h) \/ WipeParams(h)
  BY <1>2, <1>10 DEF MirrorName, Load, WipeTiles, WipeParams, At, disk
<1>11. CASE TilesAll(h) \/ TilesBoxed(h) \/ TilesUnknown(h)
  BY <1>2, <1>11 DEF TilesAll, TilesBoxed, TilesUnknown, At, disk
<1>12. CASE RestoreState(h) \/ RestoreFree(h)
  BY <1>2, <1>12 DEF RestoreState, RestoreFree, At, disk
<1> QED
  BY <1>4, <1>5, <1>6, <1>7, <1>8, <1>9, <1>10, <1>11, <1>12 DEF Run

\* A request is taken.
LEMMA TypeTake ==
  ASSUME Typed, NEW h \in Handler, NEW l \in {"save", "load", "rmtree", "kick"}, NEW r,
         r.kind \in {"put", "restore", "delete", "wipe", "update"}, r.list \in Lists,
         r.ref \in Country \cup {None}, r.state \in StateRef,
         r.kind = "wipe" => r.list = <<>>,
         l = "save" => r.kind \in {"put", "restore"}, l = "load" => r.kind = "delete",
         l = "rmtree" => r.kind = "wipe", Take(h, r, l)
  PROVE  Typed'
<1> DEFINE q == [NoRequest EXCEPT !.kind = r.kind, !.list = r.list,
                                  !.ref = r.ref, !.state = r.state]
<1>1. q \in Request /\ q.kind = r.kind /\ q.list = r.list
  BY NoRequestFits DEF Request
<1>2. Fitting(l, q) /\ l \in Label
  BY <1>1 DEF Fitting, Label
<1>3. Moves(h, l, q)
  BY DEF Take, Moves
<1> HIDE DEF q
<1>4. Store /\ Threads /\ Handles
  BY DEF Typed
<1>5. Threads'
  BY <1>1, <1>2, <1>3, <1>4, MovesThreads
<1>6. Store'
  BY <1>4 DEF Take, Store, StateRef, AllIdle, disk, params
<1>7. Handles'
  BY <1>4, HandlesMove DEF Take, Go, Handles, disk
<1> QED
  BY <1>5, <1>6, <1>7 DEF Typed

LEMMA TypeAsk ==
  ASSUME Typed, NEW h \in Handler, Ask(h)
  PROVE  Typed'
<1>1. None \in Country \cup {None} /\ None \in StateRef /\ <<>> \in Lists
  BY SelectionAssumption DEF StateRef
<1>2. ASSUME NEW l \in Lists, AskPut(h, l) PROVE Typed'
  BY <1>1, <1>2, TypeTake DEF AskPut
<1>3. ASSUME NEW l \in Lists, NEW s \in StateRef, AskRestore(h, l, s) PROVE Typed'
  BY <1>1, <1>3, TypeTake DEF AskRestore
<1>4. ASSUME NEW c \in Country, AskDelete(h, c) PROVE Typed'
  BY <1>1, <1>4, TypeTake DEF AskDelete
<1>5. CASE AskWipe(h)
  BY <1>1, <1>5, TypeTake DEF AskWipe
<1>6. CASE AskUpdate(h)
  BY <1>1, <1>6, TypeTake DEF AskUpdate
<1> QED
  BY <1>2, <1>3, <1>4, <1>5, <1>6 DEF Ask, StateRef

LEMMA TypeRun ==
  ASSUME Typed, NEW h \in Handler, Run(h)
  PROVE  Typed'
<1>1. Store /\ Threads /\ Handles /\ Handles'
  BY HandlesRun DEF Typed
<1> DEFINE r == req[h]
<1>2. /\ pc[h] \in Label /\ r \in Request /\ Fitting(pc[h], r)
      /\ r.kind \in {"none", "put", "restore", "delete", "wipe", "update"}
      /\ r.list \in Lists /\ r.list \in Seq(Country) /\ r.ref \in Country \cup {None}
      /\ r.state \in StateRef
  BY <1>1, RequestParts, SelectionAssumption
<1>3. ASSUME NEW l \in Label, Moves(h, l, r), Fitting(l, r), Store' PROVE Typed'
  BY <1>1, <1>2, <1>3, MovesThreads DEF Typed
<1>4. ASSUME Moves(h, "idle", NoRequest), Store' PROVE Typed'
  BY <1>1, <1>4, MovesThreads, NoRequestFits DEF Typed, Label
<1>5. ASSUME End(h), Store' PROVE Typed'
  BY <1>4, <1>5, EndMoves
<1>6. ASSUME NEW l \in Label, Go(h, l), req' = req, Fitting(l, r), Store' PROVE Typed'
  BY <1>1, <1>3, <1>6, GoMoves
<1>7. TypeOK
  BY TypedType
<1>8. ASSUME AfterSave(h), pc[h] \in {"save", "replace"},
             exact' \in BOOLEAN => Store'
      PROVE  Typed'
  <2>1. CASE r.kind = "wipe"
    BY <1>5, <1>8, <2>1 DEF AfterSave, EndWritten
  <2>2. CASE r.kind # "wipe"
    <3>1. Fitting("name", r)
      BY <1>2, <1>8, <2>2 DEF Fitting
    <3>2. Go(h, "name") /\ req' = req /\ exact' = exact
      BY <1>8, <2>2 DEF AfterSave
    <3>3. Store'
      BY <1>1, <1>8, <3>2 DEF Store
    <3> QED
      BY <1>6, <3>1, <3>2, <3>3 DEF Label
  <2> QED
    BY <2>1, <2>2
<1> HIDE DEF r

<1>10. CASE SaveUnlink(h)
  <2>1. exact' \in BOOLEAN => Store'
    BY <1>1, <1>10 DEF SaveUnlink, Store, StateRef, disk, params
  <2> QED
    BY <1>8, <1>10, <2>1 DEF SaveUnlink, At

<1>11. CASE SaveOpen(h)
  <2>1. Store'
    BY <1>1, <1>2, <1>11 DEF SaveOpen, Store, StateRef, disk, params, history, r
  <2>2. Go(h, "write") /\ req' = req /\ Fitting("write", r)
    BY <1>2, <1>11 DEF SaveOpen, At, Fitting, r
  <2> QED
    BY <1>6, <2>1, <2>2 DEF Label

<1>12. CASE SaveWrite(h)
  <2>1. PICK c \in {r.list, Torn} :
          \/ tmp' = c /\ file' = file
          \/ file' = c /\ tmp' = tmp
          \/ file' = file /\ tmp' = tmp
    <3>1. fd[h] \in {"tmp", "file", "gone"}
      BY <1>1, <1>12 DEF Store, Handles, SaveWrite, At
    <3> QED
      BY <1>12, <3>1 DEF SaveWrite, r
  <2>2. Store'
    BY <1>1, <1>2, <1>12, <2>1 DEF SaveWrite, Store, StateRef, params, history
  <2>3. Go(h, "replace") /\ req' = req /\ Fitting("replace", r)
    BY <1>2, <1>12 DEF SaveWrite, At, Fitting, r
  <2> QED
    BY <1>6, <2>2, <2>3 DEF Label

<1>13. CASE SaveReplace(h)
  <2>1. exact' \in BOOLEAN => Store'
    <3>1. fd' \in [Handler -> {"none", "tmp", "file", "gone"}]
      BY <1>1, <1>13 DEF SaveReplace, Store
    <3>2. owed' \subseteq Tile
      BY <1>1, <1>13 DEF SaveReplace, Store
    <3> QED
      BY <1>1, <1>13, <3>1, <3>2 DEF SaveReplace, Store, StateRef, params
  <2> QED
    BY <1>8, <1>13, <2>1 DEF SaveReplace, At

<1>14. CASE SaveLost(h)
  <2>1. Store'
    BY <1>1, <1>2, <1>14 DEF SaveLost, Store, StateRef, disk, params, history, r
  <2> QED
    BY <1>5, <1>14, <2>1 DEF SaveLost, EndWritten

<1>15. CASE MirrorName(h)
  <2>1. name' \in Country \cup {None}
    BY <1>2, <1>15 DEF MirrorName, r
  <2>2. Store'
    BY <1>1, <1>15, <2>1 DEF MirrorName, Store, StateRef, disk, history
  <2>3. Go(h, "state") /\ req' = req /\ Fitting("state", r)
    BY <1>2, <1>15 DEF MirrorName, At, Fitting, r
  <2> QED
    BY <1>6, <2>2, <2>3 DEF Label

<1>16. CASE MirrorState(h)
  <2>1. r.kind \in {"put", "restore", "delete"}
    BY <1>2, <1>16 DEF MirrorState, At, Fitting
  <2>2. removed' \subseteq Country /\ exact' \in BOOLEAN => Store'
    BY <1>1, <1>16 DEF MirrorState, Store, StateRef, disk
  <2>3. CASE r.kind = "put"
    <3>1. End(h) /\ exact' = (exact \/ alone) /\ removed' = removed
      BY <1>16, <2>3 DEF MirrorState, AfterMirror, EndWritten, r
    <3> QED
      BY <1>1, <1>5, <2>2, <3>1 DEF Store
  <2>4. CASE r.kind = "restore"
    <3>1. Go(h, "us") /\ req' = req /\ exact' = exact /\ removed' = removed
      BY <1>16, <2>4 DEF MirrorState, AfterMirror, r
    <3>2. Fitting("us", r)
      BY <1>2 DEF Fitting
    <3> QED
      BY <1>1, <1>6, <2>2, <3>1, <3>2 DEF Store, Label
  <2>5. CASE r.kind = "delete"
    <3>1. removed' = removed \cup ({r.ref} \cap removing)
      BY <1>16, <2>5 DEF MirrorState, AfterMirror, r
    <3>2. removed' \subseteq Country
      BY <1>1, <3>1 DEF Store
    <3>3. CASE r.redo
      <4>1. Go(h, "again") /\ req' = req /\ exact' = exact
        BY <1>16, <2>5, <3>3 DEF MirrorState, AfterMirror, r
      <4>2. Fitting("again", r)
        BY <1>2 DEF Fitting
      <4> QED
        BY <1>1, <1>6, <2>2, <3>2, <4>1, <4>2 DEF Store, Label
    <3>4. CASE ~r.redo
      <4>1. End(h) /\ exact' = (exact \/ alone)
        BY <1>16, <2>5, <3>4 DEF MirrorState, AfterMirror, EndWritten, r
      <4> QED
        BY <1>5, <2>2, <3>2, <4>1
    <3> QED
      BY <3>3, <3>4
  <2> QED
    BY <2>1, <2>3, <2>4, <2>5

<1>17. CASE Load(h)
  <2>1. r.kind = "delete" /\ r.ref \in Country
    BY <1>2, <1>7, <1>17, LoadedList DEF Load, At, Fitting, r
  <2> DEFINE s == [r EXCEPT !.list = Less(Loaded, r.ref)]
  <2>2. Less(Loaded, r.ref) \in Lists
    BY <1>7, <2>1, LoadedList, SelectionAssumption
  <2>3. s \in Request /\ s.kind = "delete"
    BY <1>2, <2>1, <2>2 DEF Request
  <2>4. Moves(h, "tiles", s)
    BY <1>1, <1>17 DEF Load, Go, Moves, Threads, r
  <2>5. Fitting("tiles", s)
    BY <2>3 DEF Fitting
  <2>6. Store'
    BY <1>1, <1>17 DEF Load, Store, StateRef, disk, params, history
  <2> HIDE DEF s
  <2> QED
    BY <1>1, <2>3, <2>4, <2>5, <2>6, MovesThreads DEF Typed, Label

<1>18. CASE LoadUnknown(h)
  <2>1. Store'
    BY <1>1, <1>2, <1>18 DEF LoadUnknown, Store, StateRef, disk, params, history, r
  <2> QED
    BY <1>5, <1>18, <2>1 DEF LoadUnknown, EndWritten

<1>19. CASE TilesAll(h)
  <2>1. Store'
    BY <1>1, <1>2, <1>19 DEF TilesAll, Store, StateRef, disk, params, history, r, Boxes
  <2>2. Go(h, "save") /\ req' = req /\ Fitting("save", r)
    BY <1>2, <1>19 DEF TilesAll, At, Fitting, r
  <2> QED
    BY <1>6, <2>1, <2>2 DEF Label

<1>20. CASE TilesBoxed(h)
  <2>1. Store'
    BY <1>1, <1>2, <1>20 DEF TilesBoxed, Store, StateRef, disk, params, history, r, Boxes
  <2>2. Go(h, "save") /\ req' = req /\ Fitting("save", r)
    BY <1>2, <1>20 DEF TilesBoxed, At, Fitting, r
  <2> QED
    BY <1>6, <2>1, <2>2 DEF Label

<1>21. CASE TilesUnknown(h)
  <2>1. r.kind = "delete"
    BY <1>2, <1>21 DEF TilesUnknown, At, Fitting
  <2> DEFINE s == [r EXCEPT !.redo = TRUE]
  <2>2. s \in Request /\ s.kind = "delete"
    BY <1>2, <2>1 DEF Request
  <2>3. Moves(h, "save", s)
    BY <1>1, <1>21 DEF TilesUnknown, Go, Moves, Threads, r
  <2>4. Fitting("save", s)
    BY <2>2 DEF Fitting
  <2>5. Store'
    BY <1>1, <1>21 DEF TilesUnknown, Store, StateRef, disk, params, Boxes
  <2> HIDE DEF s
  <2> QED
    BY <1>1, <2>2, <2>3, <2>4, <2>5, MovesThreads DEF Typed, Label

<1>22. CASE Redownload(h)
  <2>1. Store'
    BY <1>1, <1>2, <1>22, <1>7, SelectionDownload DEF Redownload, Store, StateRef, disk, params, history, r, EndWritten
  <2> QED
    BY <1>5, <1>22, <2>1 DEF Redownload, EndWritten

<1>23. CASE WipeTiles(h)
  <2>1. Store'
    BY <1>1, <1>2, <1>23 DEF WipeTiles, Store, StateRef, disk, params, history, r
  <2>2. Go(h, "reset") /\ req' = req /\ Fitting("reset", r)
    BY <1>2, <1>23 DEF WipeTiles, At, Fitting, r
  <2> QED
    BY <1>6, <2>1, <2>2 DEF Label

<1>24. CASE WipeParams(h)
  <2>1. Store'
    BY <1>1, <1>2, <1>24 DEF WipeParams, Store, StateRef, disk, params, history, r
  <2>2. Go(h, "save") /\ req' = req /\ Fitting("save", r)
    BY <1>2, <1>24 DEF WipeParams, At, Fitting, r
  <2> QED
    BY <1>6, <2>1, <2>2 DEF Label

<1>25. CASE Update(h)
  <2>1. Store'
    BY <1>1, <1>2, <1>25, <1>7, SelectionDownload DEF Update, Store, StateRef, disk, params, history, r
  <2> QED
    BY <1>5, <1>25, <2>1 DEF Update, EndWritten

<1>26. CASE RestoreState(h)
  <2>1. Store'
    BY <1>1, <1>2, <1>26 DEF RestoreState, Store, StateRef, disk, params, history, r
  <2>2. Go(h, "busy") /\ req' = req /\ Fitting("busy", r)
    BY <1>2, <1>26 DEF RestoreState, At, Fitting, r
  <2> QED
    BY <1>6, <2>1, <2>2 DEF Label

<1>27. CASE RestoreBusy(h)
  <2>1. Store'
    BY <1>1, <1>2, <1>27 DEF RestoreBusy, Store, StateRef, disk, params, history, r, EndWritten
  <2> QED
    BY <1>5, <1>27, <2>1 DEF RestoreBusy, EndWritten

<1>28. CASE RestoreFree(h)
  <2>1. Store'
    BY <1>1, <1>2, <1>28 DEF RestoreFree, Store, StateRef, disk, params, history, r
  <2>2. Go(h, "restart") /\ req' = req /\ Fitting("restart", r)
    BY <1>2, <1>28 DEF RestoreFree, At, Fitting, r
  <2> QED
    BY <1>6, <2>1, <2>2 DEF Label

<1>29. CASE RestoreKick(h)
  <2>1. Store'
    BY <1>1, <1>2, <1>29, <1>7, SelectionDownload DEF RestoreKick, Store, StateRef, disk, params, history, r, EndWritten
  <2> QED
    BY <1>5, <1>29, <2>1 DEF RestoreKick, EndWritten

<1> QED
  BY <1>10, <1>11, <1>12, <1>13, <1>14, <1>15, <1>16, <1>17, <1>18, <1>19, <1>20, <1>21, <1>22, <1>23, <1>24, <1>25, <1>26, <1>27, <1>28, <1>29 DEF Run

LEMMA TypeNext ==
  ASSUME Typed, [Next]_vars
  PROVE  Typed'
<1>1. Store /\ Threads /\ Handles
  BY DEF Typed
<1>2. ASSUME NEW h \in Handler, Ask(h) \/ Run(h) PROVE Typed'
  BY <1>2, TypeAsk, TypeRun
<1>3. ASSUME threads' = threads, fd' = fd, Store' PROVE Typed'
  <2>1. Threads'
    BY <1>1, <1>3 DEF threads, Threads, Fitting
  <2>2. Handles'
    BY <1>1, <1>3 DEF threads, Handles
  <2> QED
    BY <1>3, <2>1, <2>2 DEF Typed
<1>4. CASE Direct
  <2>1. Store' /\ threads' = threads /\ fd' = fd
    BY <1>1, <1>4, DirectWrite DEF Store, threads
  <2> QED
    BY <1>3, <2>1
<1>5. ASSUME NEW t \in Tile, MapdFetch(t) PROVE Typed'
  <2>1. Store' /\ threads' = threads /\ fd' = fd
    BY <1>1, <1>5 DEF MapdFetch, Store, StateRef, disk, params
  <2> QED
    BY <1>3, <2>1
<1>6. CASE MapdDone
  <2>1. Store' /\ threads' = threads /\ fd' = fd
    BY <1>1, <1>6 DEF MapdDone, Store, StateRef, disk, params, history
  <2> QED
    BY <1>3, <2>1
<1>7. CASE Restart
  <2>1. Store'
    BY <1>1, <1>7 DEF Restart, Store, StateRef, params
  <2>2. Threads'
    BY <1>7, NoRequestFits DEF Restart, Threads, Label, Fitting
  <2>3. Handles'
    BY <1>7 DEF Restart, Handles
  <2> QED
    BY <2>1, <2>2, <2>3 DEF Typed
<1>8. CASE UNCHANGED vars
  <2>1. Store' /\ threads' = threads /\ fd' = fd
    BY <1>1, <1>8 DEF vars, Store, StateRef, disk, params, history
  <2> QED
    BY <1>3, <2>1
<1> QED
  BY <1>2, <1>4, <1>5, <1>6, <1>7, <1>8 DEF Next, Direct

\* Every variable holds a value of its kind, whatever the threads, mapd and the
\* restarts do.
THEOREM TypeCorrect == Spec => []TypeOK
<1> QED
  BY TypedType, TypeInit, TypeNext, PTL DEF Spec

-----------------------------------------------------------------------------
(* Coherence. What the request at work owes the selection it has written    *)
(* or is about to write, while it has the daemon to itself; when it has not *)
(* nothing is claimed, and exact is false until one has.                    *)

First(list) == IF list = <<>> THEN None ELSE list[1]

\* The params are those of the file.
Fits ==
  /\ file # Torn
  /\ name = First(Loaded)
  /\ state # None => US \in Range(Loaded)

\* Request r is at label l with handle f.
Stage(l, r, f) ==
  /\ l = "save" /\ r.kind = "wipe" => name = None /\ state = None
  /\ l = "write" => f = "tmp" /\ tmp = Torn /\ r.list # <<>>
  /\ l = "replace" => tmp = r.list /\ r.list # <<>>
  /\ l \in {"name", "state", "us"} => file # Torn /\ Loaded = r.list
  /\ l \in {"state", "us"} => name = First(r.list)
  /\ l = "us" /\ state # None => US \in Range(Loaded)
  /\ l \in {"busy", "restart", "again"} => Fits
  /\ l \in {"load", "kick"} /\ exact => Fits

Written ==
  /\ exact => AllIdle \/ alone
  /\ alone => \A g, h \in Handler : pc[g] # "idle" /\ pc[h] # "idle" => g = h
  /\ AllIdle /\ exact => Fits
  /\ alone => \A h \in Handler : Stage(pc[h], req[h], fd[h])

LEMMA WrittenCoherent == Written => Coherent
BY DEF Written, Coherent, Fits, First

LEMMA IdleStage == \A r, f : Stage("idle", r, f)
BY DEF Stage

LEMMA WrittenInit == Init => Written
<1> SUFFICES ASSUME Init PROVE Written
  OBVIOUS
<1>1. Fits
  BY AbsentAssumption DEF Init, Fits, First, Loaded
<1>2. \A h \in Handler : pc[h] = "idle"
  BY DEF Init
<1> QED
  BY <1>1, <1>2, IdleStage DEF Init, Written, AllIdle

\* A step of a request at work, to label l.
LEMMA WrittenMove ==
  ASSUME Typed, Written, NEW h \in Handler, pc[h] # "idle", NEW l, Go(h, l),
         alone' = alone, exact' => exact \/ alone,
         alone => Stage(pc[h], req[h], fd[h])',
         alone /\ exact' /\ l = "idle" => Fits'
  PROVE  Written'
<1>1. \A g \in Handler : pc'[g] = IF g = h THEN l ELSE pc[g]
  BY DEF Typed, Threads, Go
<1>2. ~AllIdle
  BY DEF AllIdle
<1>3. exact' => alone
  BY <1>2 DEF Written
<1>4. ASSUME alone PROVE \A g \in Handler \ {h} : pc'[g] = "idle"
  BY <1>1, <1>4 DEF Written
<1>5. ASSUME alone PROVE \A g \in Handler : Stage(pc[g], req[g], fd[g])'
  <2>1. ASSUME NEW g \in Handler \ {h} PROVE Stage(pc[g], req[g], fd[g])'
    <3>1. pc'[g] = "idle"
      BY <1>4, <1>5, <2>1
    <3> QED
      BY <3>1 DEF Stage
  <2> QED
    BY <1>5, <2>1
<1>6. ASSUME alone PROVE \A f, g \in Handler : pc'[f] # "idle" /\ pc'[g] # "idle" => f = g
  BY <1>4, <1>6
<1>7. ASSUME AllIdle', exact' PROVE Fits'
  <2>1. l = "idle"
    BY <1>1, <1>7 DEF AllIdle
  <2> QED
    BY <1>3, <1>7, <2>1
<1> QED
  BY <1>3, <1>5, <1>6, <1>7 DEF Written

\* A request is taken.
LEMMA WrittenTake ==
  ASSUME Typed, Written, NEW h \in Handler, NEW l \in {"save", "load", "rmtree", "kick"},
         NEW r, l = "save" => r.kind # "wipe", Take(h, r, l)
  PROVE  Written'
<1>1. \A g \in Handler : pc'[g] = IF g = h THEN l ELSE pc[g]
  BY DEF Typed, Threads, Take
<1>2. ~AllIdle'
  BY <1>1 DEF AllIdle
<1>3. alone' = AllIdle /\ exact' = (exact /\ AllIdle)
  BY DEF Take
<1>4. CASE ~AllIdle
  BY <1>2, <1>3, <1>4 DEF Written
<1>5. CASE AllIdle
  <2>1. \A g \in Handler \ {h} : pc'[g] = "idle"
    BY <1>1, <1>5 DEF AllIdle
  <2>2. req'[h].kind = r.kind
    BY DEF Take, NoRequest, Typed, Threads
  <2>3. exact' => Fits'
    BY <1>3, <1>5 DEF Written, Fits, First, Loaded, Take, disk, params
  <2>4. ASSUME NEW g \in Handler PROVE Stage(pc[g], req[g], fd[g])'
    <3>1. CASE g = h
      <4>1. pc'[g] = l
        BY <1>1, <3>1
      <4> QED
        BY <2>2, <2>3, <3>1, <4>1 DEF Stage
    <3>2. CASE g # h
      <4>1. pc'[g] = "idle"
        BY <2>1, <3>2
      <4> QED
        BY <4>1 DEF Stage
    <3> QED
      BY <3>1, <3>2
  <2>5. \A f, g \in Handler : pc'[f] # "idle" /\ pc'[g] # "idle" => f = g
    BY <2>1
  <2> QED
    BY <1>2, <1>3, <1>5, <2>4, <2>5 DEF Written
<1> QED
  BY <1>4, <1>5

LEMMA WrittenAsk ==
  ASSUME Typed, Written, NEW h \in Handler, Ask(h)
  PROVE  Written'
<1>1. ASSUME NEW l \in Lists, AskPut(h, l) PROVE Written'
  BY <1>1, WrittenTake DEF AskPut
<1>2. ASSUME NEW l \in Lists, NEW s \in StateRef, AskRestore(h, l, s) PROVE Written'
  BY <1>2, WrittenTake DEF AskRestore
<1>3. ASSUME NEW c \in Country, AskDelete(h, c) PROVE Written'
  BY <1>3, WrittenTake DEF AskDelete
<1>4. CASE AskWipe(h) \/ AskUpdate(h)
  BY <1>4, WrittenTake DEF AskWipe, AskUpdate
<1> QED
  BY <1>1, <1>2, <1>3, <1>4 DEF Ask, StateRef

LEMMA WrittenRun ==
  ASSUME Typed, Written, NEW h \in Handler, Run(h)
  PROVE  Written'
<1>1. Store /\ Threads
  BY DEF Typed
<1> DEFINE r == req[h]
<1>2. /\ Fitting(pc[h], r) /\ r.list \in Lists
      /\ r.kind \in {"none", "put", "restore", "delete", "wipe", "update"}
  BY <1>1, RequestParts
<1>3. /\ r.list \notin {None, Torn} /\ None # Torn
      /\ alone => Stage(pc[h], r, fd[h])
  BY <1>2, AbsentAssumption DEF Written
<1>4. ASSUME NEW l, Go(h, l) PROVE pc'[h] = l
  BY <1>1, <1>4 DEF Threads, Go
<1>5. ASSUME NEW l \in Label \ {"idle"}, pc[h] # "idle", Go(h, l), exact' = exact, alone' = alone,
             alone /\ pc'[h] = l => Stage(pc[h], req[h], fd[h])'
      PROVE  Written'
  BY <1>4, <1>5, WrittenMove
<1>6. ASSUME End(h), pc[h] # "idle", exact' = exact \/ exact' = (exact \/ alone), alone' = alone,
             alone /\ exact' => Fits'
      PROVE  Written'
  <2>1. Go(h, "idle") /\ pc'[h] = "idle"
    BY <1>4, <1>6 DEF End
  <2>2. Stage(pc[h], req[h], fd[h])'
    BY <2>1 DEF Stage
  <2>3. exact' => exact \/ alone
    BY <1>6, Zenon
  <2> QED
    BY <1>6, <2>1, <2>2, <2>3, WrittenMove
\* The selection has been written, the params are to follow.
<1>7. ASSUME AfterSave(h), pc[h] \in {"save", "replace"}, alone' = alone,
             name' = name, state' = state,
             alone => file' # Torn /\ Loaded' = r.list
      PROVE  Written'
  <2>1. CASE r.kind = "wipe"
    <3>1. End(h) /\ exact' = (exact \/ alone)
      BY <1>7, <2>1 DEF AfterSave, EndWritten, r
    <3>2. ASSUME alone PROVE Fits'
      <4>1. r.list = <<>> /\ name' = None /\ state' = None
        BY <1>2, <1>3, <1>7, <2>1, <3>2 DEF Fitting, Stage
      <4> QED
        BY <1>7, <3>2, <4>1 DEF Fits, First
    <3> QED
      BY <1>6, <1>7, <3>1, <3>2
  <2>2. CASE r.kind # "wipe"
    <3>1. Go(h, "name") /\ req' = req /\ exact' = exact
      BY <1>7, <2>2 DEF AfterSave, r
    <3>2. alone /\ pc'[h] = "name" => Stage(pc[h], req[h], fd[h])'
      BY <1>7, <3>1 DEF Stage, r
    <3> QED
      BY <1>5, <1>7, <3>1, <3>2 DEF Label
  <2> QED
    BY <2>1, <2>2
<1> HIDE DEF r

<1>8. CASE SaveUnlink(h)
  <2>1. pc[h] = "save" /\ AfterSave(h) /\ alone' = alone /\ name' = name /\ state' = state
    BY <1>8 DEF SaveUnlink, At, params
  <2>2. file' # Torn /\ Loaded' = r.list
    BY <1>3, <1>8 DEF SaveUnlink, Loaded, r
  <2> QED
    BY <1>7, <2>1, <2>2

<1>9. CASE SaveOpen(h)
  <2>1. /\ pc[h] # "idle" /\ Go(h, "write") /\ req' = req
        /\ exact' = exact /\ alone' = alone
    BY <1>9 DEF SaveOpen, At, history
  <2>2. alone /\ pc'[h] = "write" => Stage(pc[h], req[h], fd[h])'
    BY <1>1, <1>2, <1>3, <1>9, <2>1 DEF SaveOpen, At, Stage, Fitting, disk, params, r, Store
  <2> QED
    BY <1>5, <2>1, <2>2 DEF Label

<1>10. CASE SaveWrite(h)
  <2>1. /\ pc[h] # "idle" /\ Go(h, "replace") /\ req' = req
        /\ exact' = exact /\ alone' = alone
    BY <1>10 DEF SaveWrite, At, history
  <2>2. ASSUME alone PROVE tmp' = r.list /\ r.list # <<>>
    <3>1. fd[h] = "tmp" /\ tmp = Torn /\ r.list # <<>>
      BY <1>3, <1>10, <2>2 DEF SaveWrite, At, Stage
    <3> QED
      BY <1>10, <3>1 DEF SaveWrite, r
  <2>3. alone /\ pc'[h] = "replace" => Stage(pc[h], req[h], fd[h])'
    BY <2>1, <2>2 DEF Stage, r
  <2> QED
    BY <1>5, <2>1, <2>3 DEF Label

<1>11. CASE SaveReplace(h)
  <2>1. pc[h] = "replace" /\ AfterSave(h) /\ alone' = alone /\ name' = name /\ state' = state
    BY <1>11 DEF SaveReplace, At, params
  <2>2. alone => file' = r.list
    BY <1>3, <1>11 DEF SaveReplace, At, Stage
  <2>3. alone => file' # Torn /\ Loaded' = r.list
    BY <1>3, <2>2 DEF Loaded
  <2> QED
    BY <1>7, <2>1, <2>3

<1>12. CASE SaveLost(h)
  <2>1. /\ pc[h] # "idle" /\ End(h) /\ alone' = alone
        /\ exact' = exact \/ exact' = (exact \/ alone)
    BY <1>12 DEF SaveLost, EndWritten, At, history
  <2>2. alone /\ exact' => Fits'
    BY <1>3, <1>12, <2>1 DEF SaveLost, At, Stage, Fits, Loaded, disk, params
  <2> QED
    BY <1>6, <2>1, <2>2

<1>13. CASE MirrorName(h)
  <2>1. /\ pc[h] # "idle" /\ Go(h, "state") /\ req' = req
        /\ exact' = exact /\ alone' = alone
    BY <1>13 DEF MirrorName, At, history
  <2>2. name' = First(r.list) /\ file' = file /\ Loaded' = Loaded
    BY <1>13 DEF MirrorName, First, Loaded, disk, r
  <2>3. alone => file # Torn /\ Loaded = r.list
    BY <1>3, <1>13 DEF MirrorName, At, Stage
  <2>4. alone /\ pc'[h] = "state" => Stage(pc[h], req[h], fd[h])'
    BY <2>1, <2>2, <2>3 DEF Stage, r
  <2> QED
    BY <1>5, <2>1, <2>4 DEF Label

<1>14. CASE MirrorState(h)
  <2>1. pc[h] = "state" /\ r.kind \in {"put", "restore", "delete"}
    BY <1>2, <1>14 DEF MirrorState, At, Fitting
  <2>2. /\ pc[h] # "idle" /\ alone' = alone /\ file' = file /\ name' = name /\ Loaded' = Loaded
        /\ state' = IF US \in Range(r.list) THEN state ELSE None
    BY <1>14, <2>1 DEF MirrorState, Loaded, disk, r
  <2>3. alone => /\ file' # Torn /\ Loaded' = r.list /\ name' = First(r.list)
                 /\ state' # None => US \in Range(Loaded')
    BY <1>3, <2>1, <2>2 DEF Stage
  <2>4. alone => Fits'
    BY <2>3 DEF Fits
  <2>5. ASSUME End(h), exact' = (exact \/ alone) PROVE Written'
    BY <1>6, <2>2, <2>4, <2>5
  <2>6. CASE r.kind = "put"
    BY <1>14, <2>5, <2>6 DEF MirrorState, AfterMirror, EndWritten, r
  <2>7. CASE r.kind = "restore"
    <3>1. Go(h, "us") /\ req' = req /\ exact' = exact
      BY <1>14, <2>7 DEF MirrorState, AfterMirror, r
    <3>2. alone /\ pc'[h] = "us" => Stage(pc[h], req[h], fd[h])'
      BY <2>3, <3>1 DEF Stage, r
    <3> QED
      BY <1>5, <2>2, <3>1, <3>2 DEF Label
  <2>8. CASE r.kind = "delete" /\ r.redo
    <3>1. Go(h, "again") /\ req' = req /\ exact' = exact
      BY <1>14, <2>8 DEF MirrorState, AfterMirror, r
    <3>2. alone /\ pc'[h] = "again" => Stage(pc[h], req[h], fd[h])'
      BY <2>4, <3>1 DEF Stage, r
    <3> QED
      BY <1>5, <2>2, <3>1, <3>2 DEF Label
  <2>9. CASE r.kind = "delete" /\ ~r.redo
    BY <1>14, <2>5, <2>9 DEF MirrorState, AfterMirror, EndWritten, r
  <2> QED
    BY <2>1, <2>6, <2>7, <2>8, <2>9

<1>15. CASE Load(h)
  <2>1. /\ pc[h] # "idle" /\ Go(h, "tiles") /\ exact' = exact /\ alone' = alone
    BY <1>15 DEF Load, At, history
  <2>2. alone /\ pc'[h] = "tiles" => Stage(pc[h], req[h], fd[h])'
    BY DEF Stage
  <2> QED
    BY <1>5, <2>1, <2>2 DEF Label

<1>16. CASE LoadUnknown(h)
  <2>1. /\ pc[h] # "idle" /\ End(h) /\ alone' = alone
        /\ exact' = exact
    BY <1>16 DEF LoadUnknown, At, history
  <2>2. alone /\ exact => Fits
    BY <1>3, <1>16 DEF LoadUnknown, At, Stage
  <2>3. Fits' = Fits
    BY <1>16 DEF LoadUnknown, Fits, First, Loaded, disk, params
  <2>4. alone /\ exact' => Fits'
    BY <2>1, <2>2, <2>3
  <2> QED
    BY <1>6, <2>1, <2>4

<1>17. CASE TilesAll(h)
  <2>1. /\ pc[h] # "idle" /\ Go(h, "save") /\ exact' = exact /\ alone' = alone
        /\ req' = req /\ r.kind = "delete"
    BY <1>2, <1>17 DEF TilesAll, At, history, Fitting
  <2>2. alone /\ pc'[h] = "save" => Stage(pc[h], req[h], fd[h])'
    BY <2>1 DEF Stage, r
  <2> QED
    BY <1>5, <2>1, <2>2 DEF Label

<1>18. CASE TilesBoxed(h)
  <2>1. /\ pc[h] # "idle" /\ Go(h, "save") /\ exact' = exact /\ alone' = alone
        /\ req' = req /\ r.kind = "delete"
    BY <1>2, <1>18 DEF TilesBoxed, At, history, Fitting
  <2>2. alone /\ pc'[h] = "save" => Stage(pc[h], req[h], fd[h])'
    BY <2>1 DEF Stage, r
  <2> QED
    BY <1>5, <2>1, <2>2 DEF Label

<1>19. CASE TilesUnknown(h)
  <2>1. /\ pc[h] # "idle" /\ Go(h, "save") /\ exact' = exact /\ alone' = alone
        /\ r.kind = "delete"
    BY <1>2, <1>19 DEF TilesUnknown, At, Fitting
  <2>2. req'[h].kind = "delete"
    BY <1>1, <1>19, <2>1 DEF TilesUnknown, Threads, Request, r
  <2>3. alone /\ pc'[h] = "save" => Stage(pc[h], req[h], fd[h])'
    BY <2>2 DEF Stage
  <2> QED
    BY <1>5, <2>1, <2>3 DEF Label

<1>20. CASE Redownload(h)
  <2>1. /\ pc[h] # "idle" /\ End(h) /\ alone' = alone
        /\ exact' = exact \/ exact' = (exact \/ alone)
    BY <1>20 DEF Redownload, EndWritten, At, history
  <2>2. alone /\ exact' => Fits'
    BY <1>3, <1>20, <2>1 DEF Redownload, At, Stage, Fits, Loaded, disk, params, First
  <2> QED
    BY <1>6, <2>1, <2>2

<1>21. CASE WipeTiles(h)
  <2>1. /\ pc[h] # "idle" /\ Go(h, "reset") /\ exact' = exact /\ alone' = alone
    BY <1>21 DEF WipeTiles, At, history
  <2>2. alone /\ pc'[h] = "reset" => Stage(pc[h], req[h], fd[h])'
    BY DEF Stage
  <2> QED
    BY <1>5, <2>1, <2>2 DEF Label

<1>22. CASE WipeParams(h)
  <2>1. /\ pc[h] # "idle" /\ Go(h, "save") /\ exact' = exact /\ alone' = alone
        /\ name' = None /\ state' = None
    BY <1>22 DEF WipeParams, At, history
  <2>2. alone /\ pc'[h] = "save" => Stage(pc[h], req[h], fd[h])'
    BY <2>1 DEF Stage
  <2> QED
    BY <1>5, <2>1, <2>2 DEF Label

<1>23. CASE Update(h)
  <2>1. /\ pc[h] # "idle" /\ End(h) /\ alone' = alone
        /\ exact' = exact
    BY <1>23 DEF Update, At, history
  <2>2. alone /\ exact => Fits
    BY <1>3, <1>23 DEF Update, At, Stage
  <2>3. Fits' = Fits
    BY <1>23 DEF Update, Fits, First, Loaded, disk, params
  <2>4. alone /\ exact' => Fits'
    BY <2>1, <2>2, <2>3
  <2> QED
    BY <1>6, <2>1, <2>4

<1>24. CASE RestoreState(h)
  <2>1. /\ pc[h] = "us" /\ Go(h, "busy") /\ exact' = exact /\ alone' = alone
        /\ file' = file /\ name' = name /\ Loaded' = Loaded
        /\ state' = IF US \in Range(r.list) /\ r.state # None THEN r.state ELSE state
    BY <1>24 DEF RestoreState, At, Loaded, disk, history, r
  <2>2. alone => Fits'
    BY <1>3, <2>1 DEF Stage, Fits
  <2>3. alone /\ pc'[h] = "busy" => Stage(pc[h], req[h], fd[h])'
    BY <2>2 DEF Stage
  <2> QED
    BY <1>5, <2>1, <2>3 DEF Label

<1>25. CASE RestoreBusy(h)
  <2>1. /\ pc[h] # "idle" /\ End(h) /\ alone' = alone
        /\ exact' = exact \/ exact' = (exact \/ alone)
    BY <1>25 DEF RestoreBusy, EndWritten, At, history
  <2>2. alone /\ exact' => Fits'
    BY <1>3, <1>25, <2>1 DEF RestoreBusy, At, Stage, Fits, Loaded, disk, params, First
  <2> QED
    BY <1>6, <2>1, <2>2

<1>26. CASE RestoreFree(h)
  <2>1. /\ pc[h] = "busy" /\ Go(h, "restart") /\ exact' = exact /\ alone' = alone
    BY <1>26 DEF RestoreFree, At, history
  <2>2. alone => Fits'
    BY <1>3, <1>26, <2>1 DEF RestoreFree, Stage, Fits, First, Loaded, disk, params
  <2>3. alone /\ pc'[h] = "restart" => Stage(pc[h], req[h], fd[h])'
    BY <2>2 DEF Stage
  <2> QED
    BY <1>5, <2>1, <2>3 DEF Label

<1>27. CASE RestoreKick(h)
  <2>1. /\ pc[h] # "idle" /\ End(h) /\ alone' = alone
        /\ exact' = exact \/ exact' = (exact \/ alone)
    BY <1>27 DEF RestoreKick, EndWritten, At, history
  <2>2. alone /\ exact' => Fits'
    BY <1>3, <1>27, <2>1 DEF RestoreKick, At, Stage, Fits, Loaded, disk, params, First
  <2> QED
    BY <1>6, <2>1, <2>2

<1> QED
  BY <1>8, <1>9, <1>10, <1>11, <1>12, <1>13, <1>14, <1>15, <1>16, <1>17, <1>18, <1>19, <1>20, <1>21, <1>22, <1>23, <1>24, <1>25, <1>26, <1>27 DEF Run

LEMMA WrittenNext ==
  ASSUME Typed, Written, [Next]_vars
  PROVE  Written'
<1>1. ASSUME NEW h \in Handler, Ask(h) \/ Run(h) PROVE Written'
  BY <1>1, WrittenAsk, WrittenRun
<1>2. ASSUME disk' = disk, threads' = threads, params' = params, alone' = alone, exact' = exact
      PROVE  Written'
  <2>1. AllIdle' = AllIdle /\ Fits' = Fits
    BY <1>2 DEF AllIdle, Fits, First, Loaded, threads, disk, params
  <2>2. ASSUME NEW h \in Handler
        PROVE  Stage(pc[h], req[h], fd[h])' = Stage(pc[h], req[h], fd[h])
    BY <1>2, <2>1 DEF Stage, Loaded, threads, disk, params
  <2> QED
    BY <1>2, <2>1, <2>2 DEF Written, threads
<1>3. CASE Direct
  <2>1. /\ pc' = pc /\ file' = file /\ alone' = (alone /\ AllIdle)
        /\ exact' => exact /\ AllIdle /\ name' = name /\ (state' # None => US \in Range(Loaded))
    BY <1>3, DirectWrite DEF Typed
  <2>2. AllIdle' = AllIdle
    BY <2>1 DEF AllIdle
  <2>3. CASE ~AllIdle
    BY <2>1, <2>2, <2>3 DEF Written
  <2>4. CASE AllIdle
    <3>1. \A h \in Handler : pc'[h] = "idle"
      BY <2>1, <2>4 DEF AllIdle
    <3>2. \A h \in Handler : Stage(pc[h], req[h], fd[h])'
      BY <3>1 DEF Stage
    <3>3. exact' => Fits'
      BY <2>1, <2>4 DEF Written, Fits, First, Loaded
    <3> QED
      BY <2>1, <2>2, <2>4, <3>1, <3>2, <3>3 DEF Written
  <2> QED
    BY <2>3, <2>4
<1>4. ASSUME NEW t \in Tile, MapdFetch(t) PROVE Written'
  BY <1>2, <1>4 DEF MapdFetch
<1>5. CASE MapdDone
  BY <1>2, <1>5 DEF MapdDone, history
<1>6. CASE Restart
  <2>1. \A h \in Handler : pc'[h] = "idle"
    BY <1>6 DEF Restart
  <2>2. \A h \in Handler : Stage(pc[h], req[h], fd[h])'
    BY <2>1 DEF Stage
  <2>3. AllIdle'
    BY <2>1 DEF AllIdle
  <2>4. exact' => Fits'
    BY <1>6 DEF Restart, Written, Fits, First, Loaded, params
  <2> QED
    BY <2>1, <2>2, <2>3, <2>4 DEF Written
<1>7. CASE UNCHANGED vars
  BY <1>2, <1>7 DEF vars, history
<1> QED
  BY <1>1, <1>3, <1>4, <1>5, <1>6, <1>7 DEF Next, Direct

\* Once a request that writes the selection has run alone, whatever overlapping
\* requests and crashes did before it, and until requests overlap again or one
\* writes the params alone without a look at the selection, the stock params are
\* those of the multi-selection: its first country, and a US state only while
\* the US is in it. A state picked while the US is selected keeps it so.
THEOREM CoherentCorrect == Spec => []Coherent
<1>1. Init => Typed /\ Written
  BY TypeInit, WrittenInit
<1>2. Typed /\ Written /\ [Next]_vars => (Typed /\ Written)'
  BY TypeNext, WrittenNext
<1> QED
  BY <1>1, <1>2, WrittenCoherent, PTL DEF Spec

-----------------------------------------------------------------------------
(* No tile goes while mapd downloads. A request that removes tiles looks at  *)
(* the download once, when it is taken: while it has the daemon to itself    *)
(* nobody starts one before the tiles are gone.                              *)

Removing == {"load", "tiles", "rmtree"}

Quiet ==
  ~disturbed =>
    /\ AllIdle \/ alone
    /\ \A h \in Handler : pc[h] \in Removing => downloads = None

LEMMA QuietInit == Init => Quiet
BY DEF Init, Quiet, AllIdle, Removing

LEMMA QuietTake ==
  ASSUME Typed, Quiet, NEW h \in Handler, NEW l, NEW r,
         l \in Removing => downloads = None, Take(h, r, l)
  PROVE  Quiet'
<1> SUFFICES ASSUME ~disturbed'
             PROVE  alone' /\ \A g \in Handler : pc'[g] \in Removing => downloads' = None
  BY DEF Quiet
<1>1. AllIdle /\ alone'
  BY DEF Take
<1>2. \A g \in Handler : pc'[g] = IF g = h THEN l ELSE "idle"
  BY <1>1 DEF Take, Typed, Threads, AllIdle
<1> QED
  BY <1>1, <1>2 DEF Take, Removing

LEMMA QuietAsk ==
  ASSUME Typed, Quiet, NEW h \in Handler, Ask(h)
  PROVE  Quiet'
<1>1. ASSUME NEW l \in Lists, AskPut(h, l) PROVE Quiet'
  BY <1>1, QuietTake DEF AskPut, Removing
<1>2. ASSUME NEW l \in Lists, NEW s \in StateRef, AskRestore(h, l, s) PROVE Quiet'
  BY <1>2, QuietTake DEF AskRestore, Removing
<1>3. ASSUME NEW c \in Country, AskDelete(h, c) PROVE Quiet'
  BY <1>3, QuietTake DEF AskDelete
<1>4. CASE AskWipe(h) \/ AskUpdate(h)
  BY <1>4, QuietTake DEF AskWipe, AskUpdate
<1> QED
  BY <1>1, <1>2, <1>3, <1>4 DEF Ask, StateRef

LEMMA QuietRun ==
  ASSUME Typed, Written, Quiet, NEW h \in Handler, Run(h)
  PROVE  Quiet'
<1>1. ASSUME NEW l, Go(h, l), pc[h] # "idle", l \in Removing => pc[h] \in Removing,
             downloads' = downloads \/ l = "idle", alone' = alone, disturbed' = disturbed
      PROVE  Quiet'
  <2> SUFFICES ASSUME ~disturbed
               PROVE  alone /\ \A g \in Handler : pc'[g] \in Removing => downloads' = None
    BY <1>1 DEF Quiet
  <2>1. alone
    BY <1>1 DEF Quiet, AllIdle
  <2>2. \A g \in Handler : pc'[g] = IF g = h THEN l ELSE "idle"
    BY <1>1, <2>1 DEF Written, Typed, Threads, Go
  <2> QED
    BY <1>1, <2>1, <2>2 DEF Quiet, Removing
<1>2. ASSUME NEW l, Go(h, l), pc[h] # "idle", l \notin Removing,
             downloads' = downloads, alone' = alone, disturbed' = disturbed
      PROVE  Quiet'
  BY <1>1, <1>2
<1>3. ASSUME End(h), pc[h] # "idle", alone' = alone, disturbed' = disturbed
      PROVE  Quiet'
  BY <1>1, <1>3 DEF End, Removing
<1>4. ASSUME AfterSave(h), pc[h] # "idle",
             downloads' = downloads, alone' = alone, disturbed' = disturbed
      PROVE  Quiet'
  <2>1. End(h) \/ Go(h, "name")
    BY <1>4 DEF AfterSave, EndWritten
  <2> QED
    BY <1>2, <1>3, <1>4, <2>1 DEF Removing
<1>5. CASE SaveUnlink(h) \/ SaveReplace(h)
  BY <1>4, <1>5 DEF SaveUnlink, SaveReplace, At
<1>6. CASE SaveOpen(h) \/ SaveWrite(h)
  BY <1>2, <1>6 DEF SaveOpen, SaveWrite, At, Removing, history
<1>7. CASE SaveLost(h) \/ LoadUnknown(h) \/ Update(h)
  BY <1>3, <1>7 DEF SaveLost, LoadUnknown, Update, At, history
<1>8. CASE MirrorState(h)
  <2>1. req[h].kind \in {"put", "restore", "delete"}
    BY <1>8, RequestParts DEF Typed, MirrorState, At, Fitting
  <2>2. Go(h, "us") \/ Go(h, "again") \/ End(h)
    <3>1. CASE req[h].kind = "put"
      BY <1>8, <3>1 DEF MirrorState, AfterMirror, EndWritten
    <3>2. CASE req[h].kind = "restore"
      BY <1>8, <3>2 DEF MirrorState, AfterMirror
    <3>3. CASE req[h].kind = "delete"
      BY <1>8, <3>3, Zenon DEF MirrorState, AfterMirror, EndWritten
    <3> QED
      BY <2>1, <3>1, <3>2, <3>3
  <2> QED
    BY <1>2, <1>3, <1>8, <2>2 DEF MirrorState, At, Removing
<1>9. CASE MirrorName(h) \/ RestoreState(h) \/ RestoreFree(h) \/ WipeParams(h)
  BY <1>2, <1>9 DEF MirrorName, RestoreState, RestoreFree, WipeParams, At, Removing, history
<1>10. CASE Load(h)
  BY <1>1, <1>10 DEF Load, At, Removing, history
<1>11. CASE TilesAll(h) \/ TilesBoxed(h) \/ TilesUnknown(h) \/ WipeTiles(h)
  BY <1>2, <1>11 DEF TilesAll, TilesBoxed, TilesUnknown, WipeTiles, At, Removing, history
<1>12. CASE Redownload(h) \/ RestoreBusy(h) \/ RestoreKick(h)
  BY <1>3, <1>12 DEF Redownload, RestoreBusy, RestoreKick, EndWritten, At
<1> QED
  BY <1>5, <1>6, <1>7, <1>8, <1>9, <1>10, <1>11, <1>12 DEF Run

LEMMA QuietNext ==
  ASSUME Typed, Written, Quiet, [Next]_vars
  PROVE  Quiet'
<1>1. ASSUME NEW h \in Handler, Ask(h) \/ Run(h) PROVE Quiet'
  BY <1>1, QuietAsk, QuietRun
<1>2. ASSUME pc' = pc, downloads' \in {downloads, None}, alone' = alone, disturbed' = disturbed
      PROVE  Quiet'
  BY <1>2 DEF Quiet, AllIdle
<1>3. CASE Direct
  <2>1. pc' = pc /\ downloads' = downloads
    BY <1>3, DirectWrite DEF Typed
  <2>2. ~disturbed' => ~disturbed /\ AllIdle
    BY <1>3, DirectWrite DEF Typed
  <2> QED
    BY <2>1, <2>2 DEF Quiet, AllIdle
<1>4. ASSUME NEW t \in Tile, MapdFetch(t) PROVE Quiet'
  BY <1>2, <1>4 DEF MapdFetch, threads
<1>5. CASE MapdDone
  BY <1>2, <1>5 DEF MapdDone, threads, history
<1>6. CASE Restart
  BY <1>6 DEF Restart, Quiet, AllIdle, Removing
<1>7. CASE UNCHANGED vars
  BY <1>2, <1>7 DEF vars, threads, history
<1> QED
  BY <1>1, <1>3, <1>4, <1>5, <1>6, <1>7 DEF Next, Direct

\* A step that removes tiles.
LEMMA WipeStep ==
  ASSUME Typed, Quiet, [Next]_vars, ~disturbed', ~(tiles \subseteq tiles')
  PROVE  downloads = None
<1>1. ASSUME tiles' = tiles PROVE FALSE
  BY <1>1
<1>2. ASSUME NEW h \in Handler, Ask(h) PROVE FALSE
  BY <1>1, <1>2 DEF Ask, AskPut, AskRestore, AskDelete, AskWipe, AskUpdate, Take
<1>3. ASSUME NEW h \in Handler, Run(h) PROVE downloads = None
  <2>1. CASE TilesAll(h) \/ TilesBoxed(h) \/ TilesUnknown(h) \/ WipeTiles(h)
    BY <2>1 DEF TilesAll, TilesBoxed, TilesUnknown, WipeTiles, At, Quiet, Removing, history
  <2>2. CASE SaveUnlink(h) \/ SaveOpen(h) \/ SaveWrite(h) \/ SaveReplace(h) \/ SaveLost(h)
    BY <1>1, <2>2 DEF SaveUnlink, SaveOpen, SaveWrite, SaveReplace, SaveLost
  <2>3. CASE MirrorName(h) \/ MirrorState(h) \/ Load(h) \/ LoadUnknown(h) \/ Redownload(h)
    BY <1>1, <2>3 DEF MirrorName, MirrorState, Load, LoadUnknown, Redownload
  <2>4. CASE WipeParams(h) \/ Update(h)
    BY <1>1, <2>4 DEF WipeParams, Update
  <2>5. CASE RestoreState(h) \/ RestoreBusy(h) \/ RestoreFree(h) \/ RestoreKick(h)
    BY <1>1, <2>5 DEF RestoreState, RestoreBusy, RestoreFree, RestoreKick
  <2> QED
    BY <1>3, <2>1, <2>2, <2>3, <2>4, <2>5 DEF Run
<1>4. ASSUME NEW t \in Tile, MapdFetch(t) PROVE FALSE
  BY <1>4 DEF MapdFetch
<1>5. CASE Restart \/ MapdDone \/ UNCHANGED vars
  BY <1>1, <1>5 DEF Restart, MapdDone, vars
<1>6. CASE Direct
  BY <1>1, <1>6, DirectWrite DEF Typed
<1> QED
  BY <1>2, <1>3, <1>4, <1>5, <1>6 DEF Next, Direct

\* "409 while a download runs": as long as no requests overlapped, no step
\* removes a tile while mapd works on a download.
THEOREM NoWipeCorrect == Spec => NoWipeUnderway
<1>1. Init => Typed /\ Written /\ Quiet
  BY TypeInit, WrittenInit, QuietInit
<1>2. Typed /\ Written /\ Quiet /\ [Next]_vars => (Typed /\ Written /\ Quiet)'
  BY TypeNext, WrittenNext, QuietNext
<1>3. Typed /\ Written /\ Quiet /\ [Next]_vars
        => [~disturbed' /\ ~(tiles \subseteq tiles') => downloads = None]_vars
  BY WipeStep
<1> QED
  BY <1>1, <1>2, <1>3, PTL DEF Spec, NoWipeUnderway

-----------------------------------------------------------------------------
(* The tiles of a country that stays selected. A removal takes tiles before  *)
(* it takes the country off the selection: in between, what is left covers   *)
(* what is to be selected then. Had is what is on the disk, or went with the *)
(* whole tree when the boxes could not be had.                               *)

\* Where a removal has taken the tiles and not yet saved the selection.
Late == {"reset", "save", "write", "replace"}

Had == tiles \cup wiped

Debt ==
  ~disturbed =>
    \/ owed \subseteq Had
    \/ \E h \in Handler : pc[h] \in Late /\ owed \cap OwnedBy(req[h].list) \subseteq Had

LEMMA DebtKept == Debt => TilesKept
BY DEF Debt, TilesKept, AllIdle, Late, Had

LEMMA DebtInit == Init => Debt
BY DEF Init, Debt, Had

\* Until something overlapped, a request at work is the only one.
LEMMA Others ==
  ASSUME Written, Quiet, ~disturbed, NEW h \in Handler, pc[h] # "idle"
  PROVE  alone /\ \A g \in Handler \ {h} : pc[g] = "idle"
BY DEF Written, Quiet, AllIdle

\* While it has removed nothing, nothing is missing.
LEMMA Paid ==
  ASSUME Written, Quiet, Debt, ~disturbed, NEW h \in Handler, pc[h] # "idle", pc[h] \notin Late
  PROVE  owed \subseteq Had
<1>1. \A g \in Handler : pc[g] \notin Late
  BY Others DEF Late
<1> QED
  BY <1>1 DEF Debt

\* The step of a request that removes tiles.
LEMMA DebtTiles ==
  ASSUME Typed, Written, Quiet, Debt, NEW h \in Handler,
         TilesAll(h) \/ TilesBoxed(h) \/ TilesUnknown(h) \/ WipeTiles(h)
  PROVE  Debt'
<1>1. /\ Threads /\ pc[h] \in {"tiles", "rmtree"} /\ pc'[h] \in Late
  BY DEF TilesAll, TilesBoxed, TilesUnknown, WipeTiles, Typed, Threads, At, Go, Late
<1>2. disturbed' = disturbed /\ owed' = owed
  BY DEF TilesAll, TilesBoxed, TilesUnknown, WipeTiles, history
<1>3. CASE req[h].list = <<>> /\ req' = req
  <2>1. OwnedBy(req'[h].list) = {}
    BY <1>3 DEF OwnedBy, Range
  <2> QED
    BY <1>1, <2>1 DEF Debt
<1>4. CASE TilesBoxed(h)
  <2> SUFFICES ASSUME ~disturbed PROVE owed' \cap OwnedBy(req'[h].list) \subseteq Had'
    BY <1>1, <1>2 DEF Debt
  <2>1. req' = req /\ owed' = owed /\ wiped' = wiped
        /\ tiles' = tiles \ (Box[req[h].ref] \ UNION {Box[c] : c \in Range(req[h].list)})
    BY <1>4 DEF TilesBoxed, history
  <2>2. owed \subseteq Had
    BY <1>1, Paid DEF Late
  <2>3. Range(req[h].list) \subseteq Country
    <3>1. req[h].list \in Seq(Country)
      BY <1>1, RequestParts, SelectionAssumption
    <3> QED
      BY <3>1 DEF Range
  <2>4. OwnedBy(req[h].list) \subseteq UNION {Box[c] : c \in Range(req[h].list)}
    BY <2>3, GeometryAssumption DEF OwnedBy
  <2> QED
    BY <2>1, <2>2, <2>4 DEF Had
<1>5. CASE TilesUnknown(h)
  BY <1>5 DEF TilesUnknown, Debt, Had
<1>6. CASE TilesAll(h)
  BY <1>3, <1>6 DEF TilesAll
<1>7. CASE WipeTiles(h)
  <2>1. req[h].list = <<>>
    BY <1>7, RequestParts DEF WipeTiles, At, Typed, Fitting
  <2> QED
    BY <1>3, <1>7, <2>1 DEF WipeTiles
<1> QED
  BY <1>4, <1>5, <1>6, <1>7

\* The step of a request that saves the selection.
LEMMA DebtSave ==
  ASSUME Typed, Written, Quiet, Debt, NEW h \in Handler,
         SaveUnlink(h) \/ SaveOpen(h) \/ SaveWrite(h) \/ SaveReplace(h) \/ SaveLost(h)
  PROVE  Debt'
<1>1. /\ disturbed' = disturbed /\ tiles' = tiles /\ wiped' = wiped
      /\ pc[h] # "idle" /\ Threads
  BY DEF SaveUnlink, SaveOpen, SaveWrite, SaveReplace, SaveLost, At, history, Typed
<1> SUFFICES ASSUME ~disturbed
             PROVE  \/ owed' \subseteq Had
                    \/ \E g \in Handler : pc'[g] \in Late /\ owed' \cap OwnedBy(req'[g].list) \subseteq Had
  BY <1>1 DEF Debt, Had
<1>2. alone /\ \A g \in Handler \ {h} : pc[g] = "idle"
  BY <1>1, Others
<1>3. owed \subseteq Had \/ owed \cap OwnedBy(req[h].list) \subseteq Had
  BY <1>2 DEF Debt, Late
<1>4. CASE SaveUnlink(h)
  BY <1>4 DEF SaveUnlink
<1>5. CASE SaveOpen(h) \/ SaveWrite(h)
  <2>1. pc'[h] \in Late /\ req' = req /\ owed' = owed
    BY <1>1, <1>5 DEF SaveOpen, SaveWrite, Go, Late, history, Threads
  <2> QED
    BY <1>3, <2>1
<1>6. CASE SaveReplace(h) \/ SaveLost(h)
  <2>1. tmp = req[h].list /\ tmp # None
    <3>1. Stage(pc[h], req[h], fd[h]) /\ pc[h] = "replace"
      BY <1>2, <1>6 DEF Written, SaveReplace, SaveLost, At
    <3>2. req[h].list \in Lists
      BY <1>1, RequestParts
    <3> QED
      BY <3>1, <3>2, AbsentAssumption DEF Stage
  <2>2. owed' = {} \/ owed' = owed \cap OwnedBy(req[h].list)
    BY <1>6, <2>1 DEF SaveReplace, SaveLost
  <2> QED
    BY <1>3, <2>2
<1> QED
  BY <1>4, <1>5, <1>6

\* A step that touches neither the tiles nor what is owed: the request at work
\* is where it has removed nothing, or about to save.
LEMMA DebtOther ==
  ASSUME Typed, Written, Quiet, Debt, NEW h \in Handler, pc[h] # "idle",
         tiles' = tiles, owed' = owed, wiped' = wiped, disturbed' = disturbed,
         pc[h] \notin Late \/ (Go(h, "save") /\ req' = req)
  PROVE  Debt'
<1>1. CASE disturbed
  BY <1>1 DEF Debt
<1>2. CASE ~disturbed /\ pc[h] \notin Late
  BY <1>2, Paid DEF Debt, Had
<1>3. CASE ~disturbed /\ pc[h] \in Late
  <2>1. pc'[h] \in Late /\ req' = req
    BY <1>3 DEF Go, Late, Typed, Threads
  <2>2. \A g \in Handler \ {h} : pc[g] \notin Late
    BY <1>3, Others DEF Late
  <2> QED
    BY <2>1, <2>2 DEF Debt, Had
<1> QED
  BY <1>1, <1>2, <1>3

LEMMA DebtRun ==
  ASSUME Typed, Written, Quiet, Debt, NEW h \in Handler, Run(h)
  PROVE  Debt'
<1>1. CASE TilesAll(h) \/ TilesBoxed(h) \/ TilesUnknown(h) \/ WipeTiles(h)
  BY <1>1, DebtTiles
<1>2. CASE SaveUnlink(h) \/ SaveOpen(h) \/ SaveWrite(h) \/ SaveReplace(h) \/ SaveLost(h)
  BY <1>2, DebtSave
<1>3. CASE MirrorName(h) \/ MirrorState(h) \/ Load(h) \/ LoadUnknown(h) \/ Redownload(h)
  BY <1>3, DebtOther DEF MirrorName, MirrorState, Load, LoadUnknown, Redownload, At, Late, history
<1>4. CASE WipeParams(h) \/ Update(h)
  BY <1>4, DebtOther DEF WipeParams, Update, At, Late, history
<1>5. CASE RestoreState(h) \/ RestoreBusy(h) \/ RestoreFree(h) \/ RestoreKick(h)
  BY <1>5, DebtOther DEF RestoreState, RestoreBusy, RestoreFree, RestoreKick, At, Late, history
<1> QED
  BY <1>1, <1>2, <1>3, <1>4, <1>5 DEF Run

LEMMA DebtNext ==
  ASSUME Typed, Written, Quiet, Debt, [Next]_vars
  PROVE  Debt'
<1>1. ASSUME ~disturbed' => ~disturbed /\ AllIdle, tiles' = tiles, owed' = owed, wiped' = wiped
      PROVE  Debt'
  BY <1>1 DEF Debt, AllIdle, Late, Had
<1>2. ASSUME NEW h \in Handler, Ask(h) PROVE Debt'
  BY <1>1, <1>2 DEF Ask, AskPut, AskRestore, AskDelete, AskWipe, AskUpdate, Take
<1>3. ASSUME NEW h \in Handler, Run(h) PROVE Debt'
  BY <1>3, DebtRun
<1>4. CASE Direct
  BY <1>1, <1>4, DirectWrite DEF Typed
<1>5. ASSUME NEW t \in Tile, MapdFetch(t) PROVE Debt'
  <2>1. /\ Had' = Had \cup {t} /\ owed' \subseteq owed \cup {t}
        /\ pc' = pc /\ req' = req /\ disturbed' = disturbed
    BY <1>5 DEF MapdFetch, threads, Had
  <2>2. ASSUME NEW h \in Handler, owed \cap OwnedBy(req[h].list) \subseteq Had
        PROVE  owed' \cap OwnedBy(req'[h].list) \subseteq Had'
    <3>1. OwnedBy(req'[h].list) = OwnedBy(req[h].list)
      BY <2>1
    <3> QED
      BY <2>1, <2>2, <3>1
  <2> QED
    BY <2>1, <2>2 DEF Debt
<1>6. CASE Restart
  BY <1>1, <1>6 DEF Restart
<1>7. CASE MapdDone \/ UNCHANGED vars
  <2>1. /\ Had' = Had /\ owed' = owed /\ pc' = pc /\ req' = req /\ disturbed' = disturbed
    BY <1>7 DEF MapdDone, vars, threads, history, Had
  <2>2. \A h \in Handler : OwnedBy(req'[h].list) = OwnedBy(req[h].list)
    BY <2>1
  <2> QED
    BY <2>1, <2>2 DEF Debt
<1> QED
  BY <1>2, <1>3, <1>4, <1>5, <1>6, <1>7 DEF Next, Direct

\* "shared tiles survive": as long as no requests overlapped and none was cut, a
\* downloaded tile of a country that stays selected is on the disk, whatever
\* other countries were removed -- but for what went with the whole tree in a
\* removal that could not have the boxes, until it is downloaded again.
THEOREM TilesKeptCorrect == Spec => []TilesKept
<1>1. Init => Typed /\ Written /\ Quiet /\ Debt
  BY TypeInit, WrittenInit, QuietInit, DebtInit
<1>2. Typed /\ Written /\ Quiet /\ Debt /\ [Next]_vars => (Typed /\ Written /\ Quiet /\ Debt)'
  BY TypeNext, WrittenNext, QuietNext, DebtNext
<1> QED
  BY <1>1, <1>2, DebtKept, PTL DEF Spec

-----------------------------------------------------------------------------
(* A removed country stays removed. The list a removal is about to save is   *)
(* what it read, less the country: as long as it works alone, the selection  *)
(* saved and the requests at work stay clear of what was removed.            *)

\* Nth runs through a set of numbers.
LEMMA NthRuns ==
  ASSUME NEW n \in Nat, NEW H \in SUBSET (1..n)
  PROVE  /\ Cardinality(H) \in Nat
         /\ \A j \in 1..Cardinality(H) : Nth(H, j) \in H
         /\ \A i \in H : \E j \in 1..Cardinality(H) : Nth(H, j) = i
<1> DEFINE c == Cardinality(H)
           r == [i \in H |-> Cardinality({k \in H : k <= i})]
<1>1. IsFiniteSet(H) /\ c \in Nat
  <2>1. IsFiniteSet(1..n)
    BY FS_Interval
  <2> QED
    BY <2>1, FS_Subset, FS_CardinalityType
<1>2. \A i \in H : i \in Nat
  OBVIOUS
<1>3. ASSUME NEW i \in H, NEW k \in H, i < k
      PROVE  r[i] < r[k] /\ r[i] \in 1..c
  <2> DEFINE A == {q \in H : q <= i}
             B == {q \in H : q <= k}
  <2>0. i \in Nat /\ k \in Nat /\ \A q \in H : q \in Nat
    BY <1>2
  <2>8. \A q \in A : q \in B
    BY <1>3, <2>0
  <2>9. i <= i /\ k <= k /\ ~(k <= i)
    BY <1>3, <2>0
  <2>1. A \in SUBSET H /\ B \in SUBSET H /\ A \in SUBSET B /\ k \in B /\ k \notin A /\ i \in A
    BY <2>8, <2>9
  <2>2. r[i] = Cardinality(A) /\ r[k] = Cardinality(B)
    OBVIOUS
  <2> HIDE DEF A, B
  <2>3. IsFiniteSet(A) /\ IsFiniteSet(B)
    BY <1>1, <2>1, FS_Subset
  <2>4. Cardinality(A) \in Nat /\ Cardinality(B) \in Nat
    BY <2>3, FS_CardinalityType
  <2>5. Cardinality(A) <= Cardinality(B) /\ Cardinality(A) # Cardinality(B)
    BY <2>1, <2>3, FS_Subset
  <2>6. Cardinality(A) # 0
    BY <2>1, <2>3, FS_EmptySet
  <2>7. Cardinality(A) <= c
    BY <1>1, <2>1, FS_Subset
  <2> QED
    BY <1>1, <2>2, <2>4, <2>5, <2>6, <2>7
<1>4. ASSUME NEW i \in H PROVE r[i] \in 1..c
  <2> DEFINE A == {q \in H : q <= i}
  <2>1. A \in SUBSET H /\ i \in A
    BY <1>2
  <2>2. r[i] = Cardinality(A)
    OBVIOUS
  <2> HIDE DEF A
  <2>3. IsFiniteSet(A) /\ Cardinality(A) <= c
    BY <1>1, <2>1, FS_Subset
  <2>4. Cardinality(A) \in Nat /\ Cardinality(A) # 0
    BY <2>1, <2>3, FS_CardinalityType, FS_EmptySet
  <2> QED
    BY <1>1, <2>2, <2>3, <2>4
<1>5. \A i, k \in H : i # k => r[i] # r[k]
  <2> TAKE i \in H, k \in H
  <2>1. \A a, b \in H : r[a] \in Nat
    BY <1>4
  <2>2. CASE i < k
    BY <1>3, <2>1, <2>2
  <2>3. CASE k < i
    BY <1>3, <2>1, <2>3
  <2>4. i < k \/ k < i \/ i = k
    BY <1>2
  <2> HIDE DEF r
  <2> QED
    BY <2>2, <2>3, <2>4
<1>6. \A i \in H : r[i] = Cardinality({k \in H : k <= i})
  OBVIOUS
<1>7. r = [i \in H |-> r[i]]
  OBVIOUS
<1> HIDE DEF c, r
<1>8. r \in Surjection(H, 1..c)
  <2>1. r \in [H -> 1..c]
    BY <1>4, <1>7
  <2>2. r \in Injection(H, 1..c)
    BY <1>5, <2>1 DEF Injection, IsInjective
  <2>3. IsFiniteSet(1..c) /\ Cardinality(1..c) = c
    BY <1>1, FS_Interval
  <2> QED
    BY <2>2, <2>3, FS_Injection DEF c
<1>9. \A j \in 1..c : Nth(H, j) \in H /\ r[Nth(H, j)] = j
  <2> TAKE j \in 1..c
  <2>1. PICK i \in H : r[i] = j
    BY <1>8 DEF Surjection
  <2> QED
    BY <1>6, <2>1 DEF Nth
<1>10. ASSUME NEW i \in H PROVE Nth(H, r[i]) = i
  BY <1>4, <1>5, <1>9
<1> QED
  BY <1>1, <1>4, <1>9, <1>10 DEF c

\* What remains of a selection: its other countries.
LEMMA LessRange ==
  ASSUME NEW list \in Seq(Country), NEW c
  PROVE  Range(Less(list, c)) = Range(list) \ {c}
<1> DEFINE at == {i \in 1..Len(list) : list[i] # c}
           less == [j \in 1..Cardinality(at) |-> list[Nth(at, j)]]
<1>1. Less(list, c) = less
  BY DEF Less
<1>2. Len(list) \in Nat /\ at \in SUBSET (1..Len(list)) /\ DOMAIN list = 1..Len(list)
  OBVIOUS
<1>3. \A i \in at : list[i] # c
  OBVIOUS
<1>4. \A i \in 1..Len(list) : list[i] # c => i \in at
  OBVIOUS
<1>5. DOMAIN less = 1..Cardinality(at) /\ \A j \in DOMAIN less : less[j] = list[Nth(at, j)]
  OBVIOUS
<1> HIDE DEF at, less
<1>6. /\ \A j \in 1..Cardinality(at) : Nth(at, j) \in at
      /\ \A i \in at : \E j \in 1..Cardinality(at) : Nth(at, j) = i
  BY <1>2, NthRuns
<1>7. ASSUME NEW d \in Range(less) PROVE d \in Range(list) \ {c}
  <2>1. PICK j \in DOMAIN less : d = less[j]
    BY <1>7 DEF Range
  <2>2. Nth(at, j) \in at /\ d = list[Nth(at, j)]
    BY <1>5, <1>6, <2>1
  <2> QED
    BY <1>2, <1>3, <2>2 DEF Range
<1>8. ASSUME NEW d \in Range(list) \ {c} PROVE d \in Range(less)
  <2>1. PICK i \in 1..Len(list) : d = list[i]
    BY <1>2, <1>8 DEF Range
  <2>2. i \in at
    BY <1>4, <1>8, <2>1
  <2>3. PICK j \in 1..Cardinality(at) : Nth(at, j) = i
    BY <1>6, <2>2
  <2> QED
    BY <1>5, <2>1, <2>3 DEF Range
<1> QED
  BY <1>1, <1>7, <1>8

\* Request r selects none of the countries gone, nor the one it removes.
Clear(r, gone) ==
  /\ gone \cap Range(r.list) = {}
  /\ r.kind = "delete" => r.ref \notin Range(r.list)

Gone ==
  ~disturbed =>
    /\ removed \cap Range(Loaded) = {}
    /\ \A h \in Handler : pc[h] # "idle" => Clear(req[h], removed)

LEMMA GoneKept == Gone => RemovedGone
BY DEF Gone, RemovedGone

LEMMA GoneInit == Init => Gone
BY DEF Init, Gone

\* A request is taken.
LEMMA GoneTake ==
  ASSUME Typed, Gone, NEW h \in Handler, NEW l, NEW r,
         r.kind = "delete" => r.list = <<>>, Take(h, r, l)
  PROVE  Gone'
<1> SUFFICES ASSUME ~disturbed'
             PROVE  /\ removed' \cap Range(Loaded') = {}
                    /\ \A g \in Handler : pc'[g] # "idle" => Clear(req'[g], removed')
  BY DEF Gone
<1>1. AllIdle /\ ~disturbed /\ removed' = removed \ Range(r.list) /\ Loaded' = Loaded
  BY DEF Take, disk, Loaded
<1>2. \A g \in Handler : pc'[g] # "idle" => g = h
  BY <1>1 DEF Take, AllIdle, Typed, Threads
<1>3. req'[h].kind = r.kind /\ req'[h].list = r.list
  BY DEF Take, NoRequest, Typed, Threads
<1>4. Range(<<>>) = {}
  BY DEF Range
<1>5. Clear(req'[h], removed')
  BY <1>1, <1>3, <1>4 DEF Clear
<1> QED
  BY <1>1, <1>2, <1>5 DEF Gone

LEMMA GoneAsk ==
  ASSUME Typed, Gone, NEW h \in Handler, Ask(h)
  PROVE  Gone'
<1>1. ASSUME NEW l \in Lists, AskPut(h, l) PROVE Gone'
  BY <1>1, GoneTake DEF AskPut
<1>2. ASSUME NEW l \in Lists, NEW s \in StateRef, AskRestore(h, l, s) PROVE Gone'
  BY <1>2, GoneTake DEF AskRestore
<1>3. ASSUME NEW c \in Country, AskDelete(h, c) PROVE Gone'
  BY <1>3, GoneTake DEF AskDelete
<1>4. CASE AskWipe(h) \/ AskUpdate(h)
  BY <1>4, GoneTake DEF AskWipe, AskUpdate
<1> QED
  BY <1>1, <1>2, <1>3, <1>4 DEF Ask, StateRef

\* A step of a request at work, to label l.
LEMMA GoneMove ==
  ASSUME Typed, Written, Quiet, NEW h \in Handler, pc[h] # "idle", NEW l, Go(h, l),
         disturbed' = disturbed,
         ~disturbed => /\ removed' \cap Range(Loaded') = {}
                       /\ l = "idle" \/ Clear(req'[h], removed')
  PROVE  Gone'
<1> SUFFICES ASSUME ~disturbed
             PROVE  \A g \in Handler : pc'[g] # "idle" => Clear(req'[g], removed')
  BY DEF Gone
<1>1. \A g \in Handler : pc'[g] = IF g = h THEN l ELSE "idle"
  BY Others DEF Typed, Threads, Go
<1> QED
  BY <1>1

LEMMA GoneRun ==
  ASSUME Typed, Written, Quiet, Gone, NEW h \in Handler, Run(h)
  PROVE  Gone'
<1> DEFINE r == req[h]
<1>1. /\ Threads /\ TypeOK
      /\ Fitting(pc[h], r) /\ r.list \in Lists
      /\ r.kind \in {"none", "put", "restore", "delete", "wipe", "update"}
      /\ r.list # None /\ r.list # Torn
  BY RequestParts, TypedType, AbsentAssumption DEF Typed
<1>2. ASSUME ~disturbed, pc[h] # "idle"
      PROVE  /\ removed \cap Range(Loaded) = {} /\ Clear(r, removed)
             /\ Stage(pc[h], r, fd[h])
  BY <1>2, Others DEF Gone, Written
\* The selection is left alone.
<1>3. ASSUME NEW l, Go(h, l), pc[h] # "idle", disturbed' = disturbed,
             file' = file, removed' = removed, req' = req \/ l = "idle"
      PROVE  Gone'
  <2>1. Loaded' = Loaded
    BY <1>3 DEF Loaded
  <2> QED
    BY <1>2, <1>3, <2>1, GoneMove
<1>4. ASSUME End(h), pc[h] # "idle", disturbed' = disturbed, file' = file, removed' = removed
      PROVE  Gone'
  BY <1>3, <1>4 DEF End
\* The selection is that of the request.
<1>5. ASSUME AfterSave(h), pc[h] # "idle", disturbed' = disturbed, removed' = removed,
             ~disturbed => Range(Loaded') = Range(r.list)
      PROVE  Gone'
  <2>1. ASSUME ~disturbed PROVE removed' \cap Range(Loaded') = {} /\ Clear(r, removed')
    BY <1>2, <1>5, <2>1 DEF Clear
  <2>2. (Go(h, "name") /\ req' = req) \/ Go(h, "idle")
    BY <1>5 DEF AfterSave, EndWritten, End
  <2> QED
    BY <1>5, <2>1, <2>2, GoneMove
<1> HIDE DEF r

<1>6. CASE SaveUnlink(h)
  <2>1. Loaded' = r.list
    BY <1>6 DEF SaveUnlink, Loaded, r
  <2> QED
    BY <1>5, <1>6, <2>1 DEF SaveUnlink, At
<1>7. CASE SaveReplace(h)
  <2>1. ASSUME ~disturbed PROVE Loaded' = r.list
    <3>1. tmp = r.list /\ file' = tmp
      BY <1>2, <1>7, <2>1 DEF SaveReplace, At, Stage
    <3> QED
      BY <1>1, <3>1 DEF Loaded
  <2> QED
    BY <1>5, <1>7, <2>1 DEF SaveReplace, At
<1>8. CASE SaveWrite(h)
  <2>1. Go(h, "replace") /\ pc[h] = "write" /\ disturbed' = disturbed /\ removed' = removed /\ req' = req
    BY <1>8 DEF SaveWrite, At, history
  <2>2. ASSUME ~disturbed PROVE Loaded' = Loaded
    <3>1. fd[h] = "tmp"
      BY <1>2, <2>1, <2>2 DEF Stage
    <3>2. file' = file
      BY <1>8, <3>1 DEF SaveWrite
    <3> QED
      BY <3>2 DEF Loaded
  <2>3. ASSUME ~disturbed PROVE removed' \cap Range(Loaded') = {} /\ Clear(req'[h], removed')
    BY <1>2, <2>1, <2>2, <2>3 DEF r
  <2> QED
    BY <2>1, <2>3, GoneMove
<1>9. CASE SaveOpen(h)
  BY <1>3, <1>9 DEF SaveOpen, At, history
<1>10. CASE SaveLost(h) \/ LoadUnknown(h) \/ Update(h)
  BY <1>4, <1>10 DEF SaveLost, LoadUnknown, Update, At, history, disk
<1>11. CASE MirrorName(h) \/ RestoreState(h) \/ RestoreFree(h) \/ WipeParams(h) \/ WipeTiles(h)
  BY <1>3, <1>11 DEF MirrorName, RestoreState, RestoreFree, WipeParams, WipeTiles, At, history, disk
<1>12. CASE TilesAll(h) \/ TilesBoxed(h)
  BY <1>3, <1>12 DEF TilesAll, TilesBoxed, At, history, disk
<1>13. CASE Redownload(h) \/ RestoreBusy(h) \/ RestoreKick(h)
  BY <1>4, <1>13 DEF Redownload, RestoreBusy, RestoreKick, EndWritten, At, disk
<1>14. CASE TilesUnknown(h)
  <2>1. /\ Go(h, "save") /\ pc[h] = "tiles" /\ disturbed' = disturbed /\ removed' = removed
        /\ file' = file
    BY <1>14 DEF TilesUnknown, At, disk
  <2>2. req'[h].list = r.list /\ req'[h].kind = r.kind /\ req'[h].ref = r.ref
    BY <1>1, <1>14 DEF TilesUnknown, Threads, Request, r
  <2>3. Clear(r, removed) => Clear(req'[h], removed')
    BY <2>1, <2>2 DEF Clear
  <2>4. Loaded' = Loaded
    BY <2>1 DEF Loaded
  <2> QED
    BY <1>2, <2>1, <2>3, <2>4, GoneMove
\* The removal reads the selection and takes the country off it.
<1>15. CASE Load(h)
  <2>1. /\ Go(h, "tiles") /\ pc[h] = "load" /\ disturbed' = disturbed /\ removed' = removed
        /\ file' = file
    BY <1>15 DEF Load, At, disk, history
  <2>2. req'[h].list = Less(Loaded, r.ref) /\ req'[h].ref = r.ref
    BY <1>1, <1>15 DEF Load, Threads, Request, r
  <2>3. Range(req'[h].list) = Range(Loaded) \ {r.ref}
    BY <1>1, <2>2, LoadedList, LessRange
  <2>4. removed \cap Range(Loaded) = {} => Clear(req'[h], removed')
    BY <2>1, <2>2, <2>3 DEF Clear
  <2>5. Loaded' = Loaded
    BY <2>1 DEF Loaded
  <2> QED
    BY <1>2, <2>1, <2>4, <2>5, GoneMove
\* The removal is as good as answered: the country is neither on the file nor
\* on the list of the request.
<1>16. CASE MirrorState(h)
  <2>1. /\ pc[h] = "state" /\ disturbed' = disturbed /\ file' = file
        /\ r.kind \in {"put", "restore", "delete"} /\ AfterMirror(h)
    BY <1>1, <1>16 DEF MirrorState, At, disk, Fitting
  <2>2. Loaded' = Loaded
    BY <2>1 DEF Loaded
  <2>3. CASE r.kind = "put"
    BY <1>4, <2>1, <2>3 DEF AfterMirror, EndWritten, r
  <2>4. CASE r.kind = "restore"
    BY <1>3, <2>1, <2>4 DEF AfterMirror, r
  <2>5. CASE r.kind = "delete"
    <3>1. removed' \subseteq removed \cup {r.ref}
      BY <2>1, <2>5 DEF AfterMirror, r
    <3>2. (Go(h, "again") /\ req' = req) \/ Go(h, "idle")
      BY <2>1, <2>5, Zenon DEF AfterMirror, EndWritten, End, r
    <3>3. ASSUME ~disturbed PROVE removed' \cap Range(Loaded') = {} /\ Clear(r, removed')
      <4>1. Loaded = r.list /\ Clear(r, removed) /\ r.ref \notin Range(r.list)
        BY <1>2, <2>1, <2>5, <3>3 DEF Stage, Clear
      <4> QED
        BY <2>2, <2>5, <3>1, <4>1 DEF Clear
    <3> QED
      BY <2>1, <3>2, <3>3, GoneMove DEF r
  <2> QED
    BY <2>1, <2>3, <2>4, <2>5
<1> QED
  BY <1>6, <1>7, <1>8, <1>9, <1>10, <1>11, <1>12, <1>13, <1>14, <1>15, <1>16 DEF Run

LEMMA GoneNext ==
  ASSUME Typed, Written, Quiet, Gone, [Next]_vars
  PROVE  Gone'
<1>1. ASSUME NEW h \in Handler, Ask(h) \/ Run(h) PROVE Gone'
  BY <1>1, GoneAsk, GoneRun
<1>2. ASSUME ~disturbed' => ~disturbed, file' = file, removed' = removed, threads' = threads
      PROVE  Gone'
  <2>1. Loaded' = Loaded /\ pc' = pc /\ req' = req
    BY <1>2 DEF Loaded, threads
  <2> QED
    BY <1>2, <2>1 DEF Gone, Clear
<1>3. CASE Direct
  BY <1>2, <1>3, DirectWrite DEF Typed, threads
<1>4. ASSUME NEW t \in Tile, MapdFetch(t) PROVE Gone'
  BY <1>2, <1>4 DEF MapdFetch, disk
<1>5. CASE MapdDone \/ UNCHANGED vars
  BY <1>2, <1>5 DEF MapdDone, vars, disk, history
<1>6. CASE Restart
  <2>1. Loaded' = Loaded /\ removed' = removed /\ (~disturbed' => ~disturbed)
        /\ \A h \in Handler : pc'[h] = "idle"
    BY <1>6 DEF Restart, Loaded
  <2> QED
    BY <2>1 DEF Gone
<1> QED
  BY <1>1, <1>3, <1>4, <1>5, <1>6 DEF Next, Direct

\* As long as no requests overlapped and none was cut, a country whose DELETE
\* was answered stays off the selection until a request selects it, whatever
\* PUTs, restores, wipes and other removals come.
THEOREM RemovedGoneCorrect == Spec => []RemovedGone
<1>1. Init => Typed /\ Written /\ Quiet /\ Gone
  BY TypeInit, WrittenInit, QuietInit, GoneInit
<1>2. Typed /\ Written /\ Quiet /\ Gone /\ [Next]_vars => (Typed /\ Written /\ Quiet /\ Gone)'
  BY TypeNext, WrittenNext, QuietNext, GoneNext
<1> QED
  BY <1>1, <1>2, GoneKept, PTL DEF Spec

-----------------------------------------------------------------------------
(* A removal that has the daemon to itself, whatever overlapped or was cut   *)
(* before it: no download starts under it, what it takes off the selection   *)
(* is its country, and no tile of that is left but those of the others.      *)

Boxed(list) == UNION {Box[c] : c \in Range(list)}

Unsaved == {"save", "write", "replace"}
Mirrored == {"name", "state", "again"}

Removal(h) ==
  pc[h] # "idle" /\ req[h].kind = "delete" =>
    /\ downloads = None
    /\ pc[h] \in {"tiles"} \cup Unsaved => req[h].list = Less(Loaded, req[h].ref)
    /\ pc[h] \in Mirrored => Loaded = req[h].list /\ req[h].ref \notin Range(Loaded)
    /\ pc[h] \in Unsaved \cup Mirrored => tiles \cap Box[req[h].ref] \subseteq Boxed(req[h].list)

Removals == alone => \A h \in Handler : Removal(h)

\* From the moment a removal has saved the selection until it is answered, the
\* country is off it and its box holds no tile outside the boxes of the others.
RemovalComplete ==
  alone => \A h \in Handler :
    req[h].kind = "delete" /\ pc[h] \in Mirrored =>
      /\ req[h].ref \notin Range(Loaded)
      /\ tiles \cap Box[req[h].ref] \subseteq Boxed(Loaded)

\* Thread h saves: what was asked for, or what there is less one country.
Saves(h) ==
  /\ pc[h] \in {"save", "replace"}
  /\ Loaded' = IF req[h].kind = "delete" THEN Less(Loaded, req[h].ref) ELSE req[h].list

\* The selection on the disk changes in one step, from what it was to what the
\* request at work makes of it.
SavedAtOnce == [][alone => Loaded' = Loaded \/ \E h \in Handler : Saves(h)]_vars

LEMMA RemovalsInit == Init => Removals
BY DEF Init, Removals, Removal

LEMMA RemovalsTake ==
  ASSUME Typed, Removals, NEW h \in Handler, NEW l, NEW r,
         r.kind = "delete" => l = "load" /\ downloads = None, Take(h, r, l)
  PROVE  Removals'
<1> SUFFICES ASSUME alone', NEW g \in Handler PROVE Removal(g)'
  BY DEF Removals
<1>1. AllIdle /\ pc' = [pc EXCEPT ![h] = l] /\ downloads' = downloads
  BY DEF Take
<1>2. CASE g = h
  <2>1. pc'[g] = l /\ req'[g].kind = r.kind
    BY <1>1, <1>2 DEF Take, NoRequest, Typed, Threads
  <2> QED
    BY <1>1, <2>1 DEF Removal, Unsaved, Mirrored
<1>3. CASE g # h
  BY <1>1, <1>3 DEF Removal, AllIdle, Typed, Threads
<1> QED
  BY <1>2, <1>3

LEMMA RemovalsAsk ==
  ASSUME Typed, Removals, NEW h \in Handler, Ask(h)
  PROVE  Removals'
<1>1. ASSUME NEW l \in Lists, AskPut(h, l) PROVE Removals'
  BY <1>1, RemovalsTake DEF AskPut
<1>2. ASSUME NEW l \in Lists, NEW s \in StateRef, AskRestore(h, l, s) PROVE Removals'
  BY <1>2, RemovalsTake DEF AskRestore
<1>3. ASSUME NEW c \in Country, AskDelete(h, c) PROVE Removals'
  BY <1>3, RemovalsTake DEF AskDelete
<1>4. CASE AskWipe(h) \/ AskUpdate(h)
  BY <1>4, RemovalsTake DEF AskWipe, AskUpdate
<1> QED
  BY <1>1, <1>2, <1>3, <1>4 DEF Ask, StateRef

\* A step of a request at work, to label l.
LEMMA RemovalsMove ==
  ASSUME Typed, Written, NEW h \in Handler, pc[h] # "idle", NEW l, Go(h, l), alone' = alone,
         alone => l = "idle" \/ Removal(h)'
  PROVE  Removals'
<1> SUFFICES ASSUME alone, NEW g \in Handler PROVE Removal(g)'
  BY DEF Removals
<1>1. pc'[g] = IF g = h THEN l ELSE "idle"
  BY DEF Written, Typed, Threads, Go
<1> QED
  BY <1>1 DEF Removal

\* What a step of a removal, and of another request, has to keep.
LEMMA RemovalsRun ==
  ASSUME Typed, Written, Removals, NEW h \in Handler, Run(h)
  PROVE  Removals'
<1> DEFINE r == req[h]
<1>1. /\ Threads /\ TypeOK
      /\ Fitting(pc[h], r) /\ r.list \in Lists
      /\ r.kind \in {"none", "put", "restore", "delete", "wipe", "update"}
      /\ r.list # None /\ r.list # Torn
  BY RequestParts, TypedType, AbsentAssumption DEF Typed
<1>2. ASSUME alone, pc[h] # "idle"
      PROVE  Removal(h) /\ Stage(pc[h], r, fd[h])
  BY <1>2 DEF Removals, Written
<1>3. ASSUME NEW l, Go(h, l) PROVE pc'[h] = l
  BY <1>1, <1>3 DEF Threads, Go
<1>4. ASSUME NEW l, Go(h, l), pc[h] # "idle", alone' = alone, l = "idle" \/ r.kind # "delete",
             req' = req \/ l = "idle"
      PROVE  Removals'
  <2>1. l = "idle" \/ Removal(h)'
    BY <1>4 DEF Removal, r
  <2> QED
    BY <1>4, <2>1, RemovalsMove
<1>5. ASSUME End(h), pc[h] # "idle", alone' = alone
      PROVE  Removals'
  BY <1>4, <1>5 DEF End
\* A removal goes on; neither the selection nor the tiles change.
<1>6. ASSUME NEW l, Go(h, l), pc[h] # "idle", alone' = alone, req' = req,
             alone => Loaded' = Loaded, tiles' = tiles, downloads' = downloads,
             \/ pc[h] \in Unsaved /\ l \in Unsaved
             \/ pc[h] \in Mirrored /\ l \in Mirrored \cup {"us"}
      PROVE  Removals'
  <2>1. ASSUME alone PROVE Removal(h)'
    BY <1>2, <1>3, <1>6, <2>1 DEF Removal, Unsaved, Mirrored
  <2> QED
    BY <1>6, <2>1, RemovalsMove
\* It saves the selection.
<1>7. ASSUME AfterSave(h), pc[h] \in Unsaved, alone' = alone,
             alone => Loaded' = r.list, tiles' = tiles, downloads' = downloads
      PROVE  Removals'
  <2>1. CASE r.kind = "wipe"
    BY <1>5, <1>7, <2>1 DEF AfterSave, EndWritten, Unsaved, r
  <2>2. CASE r.kind # "wipe"
    <3>1. Go(h, "name") /\ req' = req
      BY <1>7, <2>2 DEF AfterSave, r
    <3>2. Range(Less(Loaded, r.ref)) = Range(Loaded) \ {r.ref}
      BY <1>1, LoadedList, LessRange
    <3>3. ASSUME alone PROVE Removal(h)'
      <4>1. r.kind = "delete" => r.ref \notin Range(r.list)
        BY <1>2, <1>7, <3>2, <3>3 DEF Removal, Unsaved, r
      <4> QED
        BY <1>2, <1>3, <1>7, <3>1, <3>3, <4>1 DEF Removal, Unsaved, Mirrored, r
    <3> QED
      BY <1>7, <3>1, <3>3, RemovalsMove DEF Unsaved
  <2> QED
    BY <2>1, <2>2
\* It removes tiles.
<1>8. ASSUME Go(h, "save"), pc[h] = "tiles", alone' = alone, Loaded' = Loaded, downloads' = downloads,
             req'[h].list = r.list, req'[h].kind = r.kind, req'[h].ref = r.ref,
             tiles' \cap Box[r.ref] \subseteq Boxed(r.list)
      PROVE  Removals'
  <2>1. Boxed(req'[h].list) = Boxed(r.list)
    BY <1>8
  <2>2. ASSUME alone PROVE Removal(h)'
    <3>1. Boxed(req[h].list)' = Boxed(r.list)
      BY <2>1 DEF Boxed
    <3> QED
      BY <1>2, <1>3, <1>8, <2>2, <3>1 DEF Removal, Unsaved, Mirrored
  <2> QED
    BY <1>8, <2>2, RemovalsMove
<1> HIDE DEF r

<1>9. CASE SaveUnlink(h)
  <2>1. Loaded' = r.list
    BY <1>9 DEF SaveUnlink, Loaded, r
  <2> QED
    BY <1>7, <1>9, <2>1 DEF SaveUnlink, At, Unsaved
<1>10. CASE SaveReplace(h)
  <2>1. ASSUME alone PROVE Loaded' = r.list
    <3>1. tmp = r.list /\ file' = tmp
      BY <1>2, <1>10, <2>1 DEF SaveReplace, At, Stage
    <3> QED
      BY <1>1, <3>1 DEF Loaded
  <2> QED
    BY <1>7, <1>10, <2>1 DEF SaveReplace, At, Unsaved
<1>11. CASE SaveWrite(h)
  <2>1. /\ Go(h, "replace") /\ pc[h] = "write" /\ alone' = alone /\ req' = req
        /\ tiles' = tiles /\ downloads' = downloads
    BY <1>11 DEF SaveWrite, At, history
  <2>2. ASSUME alone PROVE Loaded' = Loaded
    <3>1. fd[h] = "tmp"
      BY <1>2, <2>1, <2>2 DEF Stage
    <3>2. file' = file
      BY <1>11, <3>1 DEF SaveWrite
    <3> QED
      BY <3>2 DEF Loaded
  <2> QED
    BY <1>6, <2>1, <2>2 DEF Unsaved
<1>12. CASE SaveOpen(h)
  <2>1. Loaded' = Loaded
    BY <1>12 DEF SaveOpen, Loaded
  <2> QED
    BY <1>6, <1>12, <2>1 DEF SaveOpen, At, history, Unsaved
<1>13. CASE SaveLost(h) \/ LoadUnknown(h) \/ Update(h)
  BY <1>5, <1>13 DEF SaveLost, LoadUnknown, Update, At, history
<1>14. CASE MirrorName(h)
  <2>1. Loaded' = Loaded
    BY <1>14 DEF MirrorName, Loaded, disk
  <2> QED
    BY <1>6, <1>14, <2>1 DEF MirrorName, At, history, Mirrored
<1>15. CASE MirrorState(h)
  <2>1. /\ pc[h] = "state" /\ alone' = alone /\ Loaded' = Loaded /\ tiles' = tiles
        /\ downloads' = downloads
        /\ r.kind \in {"put", "restore", "delete"} /\ AfterMirror(h)
    BY <1>1, <1>15 DEF MirrorState, At, disk, Fitting, Loaded
  <2>2. CASE r.kind = "put"
    BY <1>5, <2>1, <2>2 DEF AfterMirror, EndWritten, r
  <2>3. CASE r.kind = "restore"
    BY <1>6, <2>1, <2>3 DEF AfterMirror, Mirrored, r
  <2>4. CASE r.kind = "delete"
    <3>1. (Go(h, "again") /\ req' = req) \/ End(h)
      BY <2>1, <2>4, Zenon DEF AfterMirror, EndWritten, r
    <3> QED
      BY <1>5, <1>6, <2>1, <3>1 DEF Mirrored
  <2> QED
    BY <2>1, <2>2, <2>3, <2>4
<1>16. CASE RestoreState(h) \/ RestoreFree(h)
  <2>1. /\ Go(h, "busy") \/ Go(h, "restart")
        /\ pc[h] # "idle" /\ downloads' = downloads /\ req' = req /\ alone' = alone
    BY <1>16 DEF RestoreState, RestoreFree, At, history
  <2>2. ASSUME alone PROVE Removal(h)'
    BY <1>2, <1>3, <2>1, <2>2 DEF Removal, Unsaved, Mirrored
  <2> QED
    BY <2>1, <2>2, RemovalsMove
<1>21. CASE WipeParams(h) \/ WipeTiles(h)
  <2>1. r.kind # "delete"
    BY <1>1, <1>21 DEF WipeParams, WipeTiles, At, Fitting
  <2> QED
    BY <1>4, <1>21, <2>1 DEF WipeParams, WipeTiles, At, history
<1>17. CASE Redownload(h) \/ RestoreBusy(h) \/ RestoreKick(h)
  BY <1>5, <1>17 DEF Redownload, RestoreBusy, RestoreKick, EndWritten, At
<1>18. CASE Load(h)
  <2>1. /\ Go(h, "tiles") /\ pc[h] = "load" /\ alone' = alone /\ Loaded' = Loaded
        /\ downloads' = downloads
    BY <1>18 DEF Load, At, disk, history, Loaded
  <2>2. req'[h].list = Less(Loaded, r.ref) /\ req'[h].ref = r.ref /\ req'[h].kind = r.kind
    BY <1>1, <1>18 DEF Load, Threads, Request, r
  <2>3. Less(Loaded, req[h].ref)' = Less(Loaded, r.ref)
    BY <2>1, <2>2 DEF Less, Nth
  <2>4. ASSUME alone PROVE Removal(h)'
    BY <1>2, <1>3, <2>1, <2>2, <2>3, <2>4 DEF Removal, Unsaved, Mirrored, r
  <2> QED
    BY <2>1, <2>4, RemovalsMove
<1>19. CASE TilesAll(h) \/ TilesUnknown(h)
  <2>1. Loaded' = Loaded
    BY <1>19 DEF TilesAll, TilesUnknown, disk, Loaded
  <2>2. req'[h].list = r.list /\ req'[h].kind = r.kind /\ req'[h].ref = r.ref
    BY <1>1, <1>19 DEF TilesAll, TilesUnknown, Threads, Request, r
  <2> QED
    BY <1>8, <1>19, <2>1, <2>2 DEF TilesAll, TilesUnknown, At, history
<1>20. CASE TilesBoxed(h)
  <2>1. Loaded' = Loaded
    BY <1>20 DEF TilesBoxed, disk, Loaded
  <2>2. tiles' \cap Box[r.ref] \subseteq Boxed(r.list)
    BY <1>20 DEF TilesBoxed, Boxed, r
  <2>3. req' = req
    BY <1>20 DEF TilesBoxed
  <2> QED
    BY <1>8, <1>20, <2>1, <2>2, <2>3 DEF TilesBoxed, At, history, r
<1> QED
  BY <1>9, <1>10, <1>11, <1>12, <1>13, <1>14, <1>15, <1>16, <1>17, <1>18, <1>19, <1>20, <1>21 DEF Run

LEMMA RemovalsNext ==
  ASSUME Typed, Written, Removals, [Next]_vars
  PROVE  Removals'
<1>1. ASSUME NEW h \in Handler, Ask(h) \/ Run(h) PROVE Removals'
  BY <1>1, RemovalsAsk, RemovalsRun
\* No request takes a step, and mapd none but to end.
<1>2. ASSUME alone' => alone, pc' = pc, req' = req, file' = file,
             downloads = None => downloads' = None /\ tiles' = tiles
      PROVE  Removals'
  <2> SUFFICES ASSUME alone', NEW h \in Handler, pc[h] # "idle", req[h].kind = "delete"
               PROVE  Removal(h)'
    BY <1>2 DEF Removals, Removal
  <2>1. Removal(h) /\ downloads = None /\ downloads' = None /\ tiles' = tiles
    BY <1>2 DEF Removals, Removal
  <2>2. Loaded' = Loaded
    BY <1>2 DEF Loaded
  <2>3. Less(Loaded, req[h].ref)' = Less(Loaded, req[h].ref) /\ Boxed(req[h].list)' = Boxed(req[h].list)
    BY <1>2, <2>2 DEF Less, Nth, Boxed
  <2> QED
    BY <1>2, <2>1, <2>2, <2>3 DEF Removal
<1>3. CASE Direct
  BY <1>2, <1>3, DirectWrite DEF Typed
<1>4. ASSUME NEW t \in Tile, MapdFetch(t) PROVE Removals'
  BY <1>2, <1>4 DEF MapdFetch, disk, threads
<1>5. CASE MapdDone \/ UNCHANGED vars
  BY <1>2, <1>5 DEF MapdDone, vars, disk, threads, history
<1>6. CASE Restart
  BY <1>6 DEF Restart, Removals, Removal
<1> QED
  BY <1>1, <1>3, <1>4, <1>5, <1>6 DEF Next, Direct

LEMMA RemovalsComplete == Typed /\ Removals => RemovalComplete
<1> SUFFICES ASSUME Typed, Removals, alone, NEW h \in Handler,
                    req[h].kind = "delete", pc[h] \in Mirrored
             PROVE  /\ req[h].ref \notin Range(Loaded)
                    /\ tiles \cap Box[req[h].ref] \subseteq Boxed(Loaded)
  BY DEF RemovalComplete
<1>1. Loaded = req[h].list /\ req[h].ref \notin Range(Loaded)
      /\ tiles \cap Box[req[h].ref] \subseteq Boxed(req[h].list)
  BY DEF Removals, Removal, Mirrored
<1> QED
  BY <1>1

\* A step that changes what readers find in the file saves what a request asks.
LEMMA SaveStep ==
  ASSUME Typed, Written, Removals, [Next]_vars, alone, Loaded' # Loaded
  PROVE  \E h \in Handler : Saves(h)
<1>1. file' # file
  BY DEF Loaded
<1>2. ~(\E h \in Handler : Ask(h))
  BY <1>1 DEF Ask, AskPut, AskRestore, AskDelete, AskWipe, AskUpdate, Take, disk
<1>3. PICK h \in Handler : Run(h)
  <2>1. ~Direct
    BY <1>1, DirectWrite DEF Typed
  <2> QED
    BY <1>1, <1>2, <2>1 DEF Next, Direct, MapdFetch, MapdDone, Restart, vars, disk
<1>4. SaveUnlink(h) \/ SaveWrite(h) \/ SaveReplace(h)
  <2>1. ~SaveOpen(h) /\ ~SaveLost(h) /\ ~MirrorName(h) /\ ~MirrorState(h) /\ ~Load(h)
    BY <1>1 DEF SaveOpen, SaveLost, MirrorName, MirrorState, Load, disk
  <2>2. ~LoadUnknown(h) /\ ~TilesAll(h) /\ ~TilesBoxed(h) /\ ~TilesUnknown(h) /\ ~Redownload(h)
    BY <1>1 DEF LoadUnknown, TilesAll, TilesBoxed, TilesUnknown, Redownload, disk
  <2>3. ~WipeTiles(h) /\ ~WipeParams(h) /\ ~Update(h) /\ ~RestoreState(h) /\ ~RestoreBusy(h)
    BY <1>1 DEF WipeTiles, WipeParams, Update, RestoreState, RestoreBusy, disk
  <2>4. ~RestoreFree(h) /\ ~RestoreKick(h)
    BY <1>1 DEF RestoreFree, RestoreKick, disk
  <2> QED
    BY <1>3, <2>1, <2>2, <2>3, <2>4 DEF Run
<1>5. /\ Stage(pc[h], req[h], fd[h]) /\ Removal(h)
      /\ req[h].list \notin {None, Torn}
  BY RequestParts, AbsentAssumption DEF Typed, Written, Removals
<1>6. ~SaveWrite(h)
  BY <1>1, <1>5 DEF SaveWrite, At, Stage
<1>7. pc[h] \in {"save", "replace"} /\ Loaded' = req[h].list
  <2>1. CASE SaveUnlink(h)
    BY <2>1 DEF SaveUnlink, At, Loaded
  <2>2. CASE SaveReplace(h)
    <3>1. file' = req[h].list /\ pc[h] = "replace"
      BY <1>5, <2>2 DEF SaveReplace, At, Stage
    <3> QED
      BY <1>5, <3>1 DEF Loaded
  <2> QED
    BY <1>4, <1>6, <2>1, <2>2
<1> QED
  BY <1>5, <1>7 DEF Saves, Removal, Unsaved

\* "Remove ONE country from the selection and delete its offline tiles": a
\* removal that has the daemon to itself is as good as its word when it is
\* answered, whatever overlapped or was cut before it, and however slowly mapd
\* and the fetch of the boxes went along with it.
THEOREM RemovalCorrect == Spec => []RemovalComplete
<1>1. Init => Typed /\ Written /\ Removals
  BY TypeInit, WrittenInit, RemovalsInit
<1>2. Typed /\ Written /\ Removals /\ [Next]_vars => (Typed /\ Written /\ Removals)'
  BY TypeNext, WrittenNext, RemovalsNext
<1> QED
  BY <1>1, <1>2, RemovalsComplete, PTL DEF Spec

\* While a request has the daemon to itself, readers of the selection find what
\* it was or what the request makes of it: never a part of it, nor an old list
\* with one country too many or too few.
THEOREM SavedAtOnceCorrect == Spec => SavedAtOnce
<1>1. Init => Typed /\ Written /\ Removals
  BY TypeInit, WrittenInit, RemovalsInit
<1>2. Typed /\ Written /\ Removals /\ [Next]_vars => (Typed /\ Written /\ Removals)'
  BY TypeNext, WrittenNext, RemovalsNext
<1>3. Typed /\ Written /\ Removals /\ [Next]_vars
        => [alone => Loaded' = Loaded \/ \E h \in Handler : Saves(h)]_vars
  BY SaveStep
<1> QED
  BY <1>1, <1>2, <1>3, PTL DEF Spec, SavedAtOnce
=============================================================================
