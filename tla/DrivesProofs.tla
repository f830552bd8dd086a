---------------------------- MODULE DrivesProofs ----------------------------
(***************************************************************************)
(* Theorems about Drives, for every set of segments, drives and handlers,  *)
(* every batch size and every number of faults and restarts.               *)
(***************************************************************************)
EXTENDS Drives, FiniteSetTheorems, TLAPS

(* Assumptions used throughout: the constants are what Drives assumes.      *)
USE SegmentAssumption, RouteOfAssumption, SubsetAssumption, BatchAssumption,
    BoundAssumption

-----------------------------------------------------------------------------
(* Type correctness.                                                        *)

\* The locals of an update hold something only while one is under way, and an
\* update either folds one segment in or drops what has gone.
Locals ==
  /\ wpc \notin {"parse", "load", "store", "forget", "mirror"} => add = {} /\ drop = {}
  /\ wpc \notin {"bootput", "store"} => loaded = {}
  /\ wpc \in {"parse", "mirror"} => \E s \in Segment : add = {s}
  /\ wpc = "forget" => add = {}
  /\ add = {} \/ ((\E s \in Segment : add = {s}) /\ drop = {})
  /\ wpc \in {"parse", "load", "store", "forget", "mirror"} => cur \in Route

Typed == TypeOK /\ Locals

\* The tick's count of a set of segments is a natural number.
LEMMA SegmentCount == ASSUME NEW S \in SUBSET Segment
                      PROVE  IsFiniteSet(S) /\ Cardinality(S) \in Nat
BY FS_Subset, FS_CardinalityType

\* The initial state is well typed.
LEMMA TypeInit == Init => Typed
<1> SUFFICES ASSUME Init PROVE Typed
  OBVIOUS
<1>1. /\ dir \in [Segment -> DirState]
      /\ dpc \in [Handler -> HandlerPC]
      /\ droute \in [Handler -> Route \cup {NoRoute}]
      /\ dleft \in [Handler -> SUBSET Segment]
  BY DEF Init, DirState, HandlerPC
<1>2. Locals
  BY DEF Init, Locals
<1>3. progress \in [total : Int, indexed : Int, running : BOOLEAN]
  BY DEF Init
<1> QED
  BY <1>1, <1>2, <1>3 DEF Init, Typed, TypeOK, Of, WatcherPC

\* What loggerd, the disk deleter and the driver do keeps the types.
LEMMA TypeEnv == Typed /\ Env => Typed'
<1> SUFFICES ASSUME Typed, Env PROVE Typed'
  OBVIOUS
<1> USE DEF Typed, Locals, TypeOK, EnvStep, disk, watcher, tick, update, handlers, bounds, history
<1>1. ASSUME NEW s \in Segment, NEW from \in DirState, NEW to \in DirState,
             SetDir(s, from, to), UNCHANGED onroad, EnvStep
      PROVE  Typed'
  BY <1>1 DEF SetDir, Of
<1>2. CASE Toggle
  BY <1>2 DEF Toggle, Of
<1>3. CASE \E s \in Segment : Record(s) \/ Write(s) \/ Flush(s) \/ Settle(s) \/ Rotate(s)
  <2>1. PICK s \in Segment : Record(s) \/ Write(s) \/ Flush(s) \/ Settle(s) \/ Rotate(s)
    BY <1>3
  <2> QED
    BY <1>1, <2>1, Zenon DEF Record, Write, Flush, Settle, Rotate, DirState
<1> QED
  BY <1>2, <1>3 DEF Env

\* Every step of the watcher keeps the types.
LEMMA TypeWatch == Typed /\ Watch => Typed'
<1> SUFFICES ASSUME Typed, Watch PROVE Typed'
  OBVIOUS
<1> USE DEF Typed, Locals, TypeOK, WatcherStep, env, disk, tick, update, handlers, bounds, history,
            WatcherPC, Of
<1>1. ASSUME NEW r \in Route, BootLoad(r) PROVE Typed'
  BY <1>1 DEF BootLoad, Hold
<1>2. ASSUME NEW r \in Route, CleanKeep(r) PROVE Typed'
  BY <1>2 DEF CleanKeep
<1>3. ASSUME NEW r \in Route, CleanDrop(r) PROVE Typed'
  BY <1>3 DEF CleanDrop, Hold
<1>4. CASE BootPut
  BY <1>4 DEF BootPut
<1>5. CASE BootDone
  BY <1>5 DEF BootDone
<1>6. CASE Tick
  BY <1>6 DEF Tick
<1>7. CASE Scan
  <2>1. /\ todo' \subseteq Segment
        /\ Cardinality(todo') \in Int
        /\ Cardinality({s \in Segment : Exists(s)}) \in Int
    BY <1>7, SegmentCount DEF Scan
  <2>2. progress' \in [total : Int, indexed : Int, running : BOOLEAN]
    BY <1>7, <2>1 DEF Scan
  <2> QED
    BY <1>7, <2>1, <2>2 DEF Scan
<1>8. ASSUME NEW s \in Segment, Count(s)
      PROVE  /\ todo' \subseteq Segment /\ done' \in Nat /\ sticky' \in BOOLEAN
             /\ progress' \in [total : Int, indexed : Int, running : BOOLEAN]
             /\ wpc' \in {"pick", "end"}
  BY <1>8 DEF Count
<1>9. ASSUME NEW s \in Segment, ParseNone(s) PROVE Typed'
  BY <1>9, <1>8 DEF ParseNone
<1>10. ASSUME NEW s \in Segment, ParseOpen(s) PROVE Typed'
  BY <1>10 DEF ParseOpen, Hold, Newest
<1>11. CASE ParseDone
  BY <1>11 DEF ParseDone
<1>12. CASE RollLoad
  BY <1>12 DEF RollLoad
<1>13. CASE RollStore
  <2>1. /\ rollup' \subseteq Segment \ Corrupt
        /\ pictured' \subseteq Segment
        /\ unreadable' \subseteq Route
    BY <1>13 DEF RollStore
  <2>2. /\ wpc = "store" /\ loaded' = {} /\ wpc' = AfterStore
        /\ UNCHANGED <<thumbs, have, progress, bootq, tick, cur, add, shot, drop,
                       faults, history, env, handlers, restarts>>
    BY <1>13 DEF RollStore
  <2> QED
    BY <2>1, <2>2 DEF AfterStore
<1>14. CASE RollFail \/ ForgetFail
  <2>1. /\ wpc' = "tick" /\ cur' = NoRoute
        /\ add' = {} /\ shot' = {} /\ drop' = {} /\ loaded' = {}
    BY <1>14 DEF RollFail, ForgetFail, Abandon
  <2>2. /\ faults' \in Nat /\ done' \in Nat
        /\ UNCHANGED <<rollup, pictured, unreadable, have, progress, bootq, raced>>
        /\ UNCHANGED <<env, handlers, restarts>>
        /\ snap' = {} /\ todo' = {} /\ sticky' = FALSE
    BY <1>14 DEF RollFail, ForgetFail, Abandon, Fault
  <2>3. thumbs' \subseteq Segment /\ marred' \subseteq Route
    <3>1. CASE RollFail
      BY <3>1 DEF RollFail
    <3>2. CASE ForgetFail
      <4>1. wpc = "forget" /\ marred' = marred \cup {cur} /\ thumbs' \subseteq thumbs
        BY <3>2 DEF ForgetFail
      <4> QED
        BY <4>1
    <3> QED
      BY <1>14, <3>1, <3>2
  <2>4. TypeOK'
    BY <2>1, <2>2, <2>3
  <2> QED
    BY <2>1, <2>4
<1>15. CASE CleanForget
  BY <1>15 DEF CleanForget
<1>18. ASSUME NEW r \in Route, BootFail(r) PROVE Typed'
  <2>1. /\ rollup' \subseteq rollup /\ pictured' \subseteq pictured
        /\ unreadable' \subseteq unreadable /\ bootq' \subseteq bootq
    BY <1>18 DEF BootFail
  <2>2. /\ marred' \subseteq Route /\ faults' \in Nat
        /\ UNCHANGED <<thumbs, have, progress, wpc, tick, update, raced, env, handlers, restarts>>
    BY <1>18 DEF BootFail, Mar, Fault
  <2> QED
    BY <2>1, <2>2
<1>19. CASE RollUnread
  <2>1. cur \in Route
    BY <1>19 DEF RollUnread
  <2> QED
    BY <1>19, <2>1 DEF RollUnread, Mar, Fault
<1>20. CASE RollStuck
  <2>1. cur \in Route
    BY <1>20 DEF RollStuck
  <2> QED
    BY <1>20, <2>1 DEF RollStuck, AfterStore, Mar, Fault
<1>16. CASE HaveAdd
  BY <1>16, <1>8 DEF HaveAdd
<1>17. CASE TickEnd
  BY <1>17 DEF TickEnd
<1> QED
  BY <1>1, <1>2, <1>3, <1>4, <1>5, <1>6, <1>7, <1>9, <1>10, <1>11, <1>12,
     <1>13, <1>14, <1>15, <1>16, <1>17, <1>18, <1>19, <1>20, Zenon DEF Watch

\* Every step of a delete keeps the types.
LEMMA TypeDelete == Typed /\ Delete => Typed'
<1> SUFFICES ASSUME Typed, NEW h \in Handler,
                    DeleteGo(h) \/ \E r \in Deletable : DelCheck(h, r)
             PROVE  Typed'
  BY DEF Delete
<1> USE DEF Typed, Locals, TypeOK, DeleteStep, env, disk, watcher, tick, update, bounds, history,
            HandlerPC, Of
<1>1. ASSUME NEW r \in Deletable, DelCheck(h, r) PROVE Typed'
  BY <1>1 DEF DelCheck
<1>2. ASSUME NEW s \in Segment, DelTree(h, s) PROVE Typed'
  BY <1>2 DEF DelTree, DirState
<1>3. ASSUME NEW s \in Segment, DelTreeFail(h, s) PROVE Typed'
  BY <1>3 DEF DelTreeFail, Fault
<1>4. CASE DelUnlink(h)
  BY <1>4 DEF DelUnlink
<1>5. CASE DelThumbs(h)
  BY <1>5 DEF DelThumbs
<1>6. CASE DelPop(h)
  BY <1>6 DEF DelPop
<1>7. CASE DelUnlinkFail(h)
  <2>1. droute[h] \in Route
    BY <1>7 DEF DelUnlinkFail
  <2> QED
    BY <1>7, <2>1 DEF DelUnlinkFail, Mar, Fault
<1>8. CASE DelThumbsFail(h)
  BY <1>8 DEF DelThumbsFail, Fault
<1> QED
  BY <1>1, <1>2, <1>3, <1>4, <1>5, <1>6, <1>7, <1>8, Zenon DEF DeleteGo

\* A restart keeps the types.
LEMMA TypeRestart == ASSUME Typed, NEW upgrade \in BOOLEAN, Restart(upgrade)
                     PROVE  Typed'
<1>1. /\ dpc' \in [Handler -> HandlerPC]
      /\ droute' \in [Handler -> Route \cup {NoRoute}]
      /\ dleft' \in [Handler -> SUBSET Segment]
      /\ progress' \in [total : Int, indexed : Int, running : BOOLEAN]
  BY DEF Restart, HandlerPC
<1>2. Locals'
  BY DEF Restart, Locals
<1>3. bootq' \subseteq Route /\ unreadable' \subseteq Route
  BY DEF Restart, Typed, TypeOK, Of
<1>4. /\ rollup' \subseteq Segment \ Corrupt /\ pictured' \subseteq Segment
      /\ restarts' \in Nat
      /\ UNCHANGED <<dir, onroad, thumbs, faults>>
  <2>1. /\ rollup' \in {rollup, {}} /\ pictured' \in {pictured, {}}
        /\ UNCHANGED <<dir, onroad, thumbs, faults>>
    BY DEF Restart, env
  <2>2. restarts' = restarts + 1
    BY DEF Restart
  <2> QED
    BY <2>1, <2>2 DEF Typed, TypeOK
<1>5. /\ have' = {} /\ snap' = {} /\ todo' = {} /\ done' = 0 /\ sticky' = FALSE
      /\ cur' = NoRoute /\ add' = {} /\ shot' = {} /\ drop' = {} /\ loaded' = {}
      /\ wpc' = "boot" /\ raced' = {} /\ marred' = {}
  BY DEF Restart
<1> QED
  BY <1>1, <1>2, <1>3, <1>4, <1>5 DEF Typed, TypeOK, Of, WatcherPC

\* A step that changes nothing keeps the types.
LEMMA TypeStutter == Typed /\ UNCHANGED vars => Typed'
BY DEF Typed, Locals, TypeOK, vars, env, disk, watcher, tick, update, handlers, bounds, history, Of

\* In every reachable state each variable of the watcher, of the mirror and of
\* the deletes is of its kind, and an update only ever holds segments of the
\* drive it is about.
THEOREM TypeCorrect == Spec => []TypeOK
<1>1. Typed /\ [Next]_vars => Typed'
  BY TypeEnv, TypeWatch, TypeDelete, TypeRestart, TypeStutter DEF Next
<1> QED
  BY <1>1, TypeInit, PTL DEF Spec, Typed
-----------------------------------------------------------------------------
(* The mirror. MirrorExact says nothing of a drive while a thread is at     *)
(* work on it, so it is not inductive: Sync adds what holds at each point   *)
(* of an update and of a delete.                                            *)

\* A delete of drive r has unlinked the rollup and not yet popped the mirror.
Unlinked(r) == \E h \in Handler : dpc[h] \in {"thumbs", "pop"} /\ droute[h] = r

\* What the mirror and the rollup of drive r have to do with each other at
\* every point, while the drive has not parted.
Sync(r) ==
  LET H == Of(have, r)
      R == Of(rollup, r)
      At(pc) == wpc = pc /\ cur = r
  IN  r \notin Parted \cup bootq =>
        /\ r \notin unreadable
        /\ Updating(r) => ~Deleting(r)
        /\ At("bootput") => H = {} /\ loaded = R
        /\ At("parse") \/ At("load") => H = R
        /\ At("store") => H = R /\ loaded = (R \cup add) \ drop
        /\ At("forget") => R = H \ drop
        /\ At("mirror") => R = H \cup add
        /\ ~Updating(r) => IF Unlinked(r) THEN R = {} ELSE H = R

\* Until the bootstrap reaches a rollup, the mirror has nothing of its drive.
Booting ==
  /\ bootq # {} => wpc \in {"boot", "bootput"}
  /\ \A r \in bootq : Of(have, r) = {}
  /\ wpc = "bootput" => cur \notin bootq /\ cur \in Route

\* What is left to do is not in the mirror, and a fold is of one of them.
Backlog ==
  /\ todo \cap have = {}
  /\ todo # {} => wpc \in {"pick", "parse", "load", "store", "mirror", "end"}
  /\ add \subseteq todo
  /\ wpc \in {"load", "store"} /\ add = {} => todo = {}

\* An update drops only what has gone, and stores all the rest there is, if
\* the rollup could be read.
Careful ==
  /\ \A s \in drop : Gone(s)
  /\ wpc = "store" /\ cur \notin marred => Of(rollup, cur) \subseteq loaded \cup drop

MirrorInv == Typed /\ (\A r \in Route : Sync(r)) /\ Booting /\ Backlog /\ Careful
\* The initial state satisfies the invariant.
LEMMA MirrorInit == Init => MirrorInv
BY TypeInit DEF Init, MirrorInv, Sync, Booting, Backlog, Careful, Of, Updating,
  Unlinked

\* Every step of the watcher keeps the invariant.
LEMMA MirrorWatch == MirrorInv /\ Watch => MirrorInv'
<1> SUFFICES ASSUME MirrorInv, Watch PROVE MirrorInv'
  OBVIOUS
<1>0. Typed'
  BY TypeWatch DEF MirrorInv
<1> USE DEF MirrorInv, Typed, TypeOK, Locals
<1> USE DEF WatcherStep, env, disk, tick, update, handlers, bounds, history
<1>1. ASSUME NEW q \in Route, BootLoad(q) PROVE MirrorInv'
  <2>1. ASSUME NEW r \in Route PROVE Sync(r)'
    BY <1>1 DEF BootLoad, Hold, Parted, Sync, Of, Updating, Deleting, Unlinked, Booting, Backlog, Careful
  <2>2. Booting'
    BY <1>1 DEF BootLoad, Hold, Booting, Of, Backlog
  <2>3. Backlog'
    BY <1>1 DEF BootLoad, Hold, Backlog
  <2>4. Careful'
    BY <1>1 DEF BootLoad, Hold, Careful, Of, Gone
  <2> QED
    BY <1>0, <2>1, <2>2, <2>3, <2>4
<1>2. ASSUME NEW q \in Route, CleanKeep(q) PROVE MirrorInv'
  <2>1. ASSUME NEW r \in Route PROVE Sync(r)'
    BY <1>2 DEF CleanKeep, Parted, Sync, Of, Updating, Deleting, Unlinked, Booting, Backlog, Careful
  <2>2. Booting'
    BY <1>2 DEF CleanKeep, Booting, Of, Backlog
  <2>3. Backlog'
    BY <1>2 DEF CleanKeep, Backlog
  <2>4. Careful'
    BY <1>2 DEF CleanKeep, Careful, Of, Gone
  <2> QED
    BY <1>0, <2>1, <2>2, <2>3, <2>4
<1>3. ASSUME NEW q \in Route, CleanDrop(q) PROVE MirrorInv'
  <2>1. ASSUME NEW r \in Route PROVE Sync(r)'
    BY <1>3 DEF CleanDrop, Hold, Parted, Sync, Of, Updating, Deleting, Unlinked, Booting, Backlog, Careful
  <2>2. Booting'
    BY <1>3 DEF CleanDrop, Hold, Booting, Of, Backlog
  <2>3. Backlog'
    BY <1>3 DEF CleanDrop, Hold, Backlog
  <2>4. Careful'
    BY <1>3 DEF CleanDrop, Hold, Careful, Of, Gone
  <2> QED
    BY <1>0, <2>1, <2>2, <2>3, <2>4
<1>4. CASE BootPut
  <2>1. ASSUME NEW r \in Route PROVE Sync(r)'
    <3>1. /\ wpc = "bootput" /\ wpc' = "boot" /\ cur' = NoRoute
          /\ have' = (have \ Of(have, cur)) \cup loaded
          /\ UNCHANGED <<rollup, unreadable, history, bootq, dpc, droute>>
      BY <1>4 DEF BootPut
    <3>2. Of(have', r) = IF cur = r THEN loaded ELSE Of(have, r)
      BY <3>1 DEF Of
    <3>3. UNCHANGED <<Of(rollup, r), Deleting(r), Unlinked(r)>>
      BY <3>1 DEF Of, Deleting, Unlinked
    <3>4. Unlinked(r) => Deleting(r)
      BY DEF Unlinked, Deleting
    <3> QED
      BY <3>1, <3>2, <3>3, <3>4 DEF Parted, Sync, Updating
  <2>2. Booting'
    BY <1>4 DEF BootPut, Booting, Of, Backlog
  <2>3. Backlog'
    BY <1>4 DEF BootPut, Backlog
  <2>4. Careful'
    BY <1>4 DEF BootPut, Careful, Of, Gone
  <2> QED
    BY <1>0, <2>1, <2>2, <2>3, <2>4
<1>5. CASE BootDone
  <2>1. ASSUME NEW r \in Route PROVE Sync(r)'
    BY <1>5 DEF BootDone, Parted, Sync, Of, Updating, Deleting, Unlinked, Booting, Backlog, Careful
  <2>2. Booting'
    BY <1>5 DEF BootDone, Booting, Of, Backlog
  <2>3. Backlog'
    BY <1>5 DEF BootDone, Backlog
  <2>4. Careful'
    BY <1>5 DEF BootDone, Careful, Of, Gone
  <2> QED
    BY <1>0, <2>1, <2>2, <2>3, <2>4
<1>6. CASE Tick
  <2>1. ASSUME NEW r \in Route PROVE Sync(r)'
    BY <1>6 DEF Tick, Parted, Sync, Of, Updating, Deleting, Unlinked, Booting, Backlog, Careful
  <2>2. Booting'
    BY <1>6 DEF Tick, Booting, Of, Backlog
  <2>3. Backlog'
    BY <1>6 DEF Tick, Backlog
  <2>4. Careful'
    BY <1>6 DEF Tick, Careful, Of, Gone
  <2> QED
    BY <1>0, <2>1, <2>2, <2>3, <2>4
<1>7. CASE Scan
  <2>1. ASSUME NEW r \in Route PROVE Sync(r)'
    BY <1>7 DEF Scan, Finalized, Parted, Sync, Of, Updating, Deleting, Unlinked, Booting, Backlog, Careful
  <2>2. Booting'
    BY <1>7 DEF Scan, Finalized, Booting, Of, Backlog
  <2>3. Backlog'
    BY <1>7 DEF Scan, Finalized, Backlog
  <2>4. Careful'
    BY <1>7 DEF Scan, Finalized, Careful, Of, Gone
  <2> QED
    BY <1>0, <2>1, <2>2, <2>3, <2>4
<1>8. CASE ParseDone
  <2>1. ASSUME NEW r \in Route PROVE Sync(r)'
    BY <1>8 DEF ParseDone, Parted, Sync, Of, Updating, Deleting, Unlinked, Booting, Backlog, Careful
  <2>2. Booting'
    BY <1>8 DEF ParseDone, Booting, Of, Backlog
  <2>3. Backlog'
    BY <1>8 DEF ParseDone, Backlog
  <2>4. Careful'
    BY <1>8 DEF ParseDone, Careful, Of, Gone
  <2> QED
    BY <1>0, <2>1, <2>2, <2>3, <2>4
<1>9. CASE RollLoad
  <2>1. ASSUME NEW r \in Route PROVE Sync(r)'
    BY <1>9 DEF RollLoad, Parted, Sync, Of, Updating, Deleting, Unlinked, Booting, Backlog, Careful
  <2>2. Booting'
    BY <1>9 DEF RollLoad, Booting, Of, Backlog
  <2>3. Backlog'
    BY <1>9 DEF RollLoad, Backlog
  <2>4. Careful'
    BY <1>9 DEF RollLoad, Careful, Of, Gone
  <2> QED
    BY <1>0, <2>1, <2>2, <2>3, <2>4
<1>10. CASE RollStore
  <2>0. /\ wpc = "store" /\ wpc' = IF add = {} THEN "forget" ELSE "mirror"
        /\ rollup' = (rollup \ Of(rollup, cur)) \cup loaded
        /\ unreadable' = unreadable \ {cur}
        /\ UNCHANGED <<have, todo, bootq, history, cur, add, drop, dpc, droute>>
    BY <1>10 DEF RollStore, AfterStore
  <2>1. ASSUME NEW r \in Route PROVE Sync(r)'
    <3>1. UNCHANGED <<Deleting(r), Of(have, r)>>
      BY <2>0 DEF Deleting, Of
    <3>2. CASE cur = r
      <4>1. Of(rollup', r) = loaded
        BY <2>0, <3>2 DEF Of
      <4> QED
        BY <2>0, <3>1, <3>2, <4>1 DEF Parted, Sync, Updating
    <3>3. CASE cur # r
      <4>1. Of(rollup', r) = Of(rollup, r)
        BY <2>0, <3>3 DEF Of
      <4> QED
        BY <2>0, <3>1, <3>3, <4>1 DEF Parted, Sync, Updating, Deleting, Unlinked
    <3> QED
      BY <3>2, <3>3
  <2>2. Booting'
    BY <1>10 DEF RollStore, AfterStore, Booting, Of, Backlog
  <2>3. Backlog'
    BY <2>0 DEF Backlog
  <2>4. Careful'
    BY <1>10 DEF RollStore, AfterStore, Careful, Of, Gone
  <2> QED
    BY <1>0, <2>1, <2>2, <2>3, <2>4
<1>11. CASE RollFail
  <2>1. ASSUME NEW r \in Route PROVE Sync(r)'
    BY <1>11 DEF RollFail, Abandon, Fault, Parted, Sync, Of, Updating, Deleting, Unlinked, Booting, Backlog, Careful
  <2>2. Booting'
    BY <1>11 DEF RollFail, Abandon, Fault, Booting, Of, Backlog
  <2>3. Backlog'
    BY <1>11 DEF RollFail, Abandon, Fault, Backlog
  <2>4. Careful'
    BY <1>11 DEF RollFail, Abandon, Fault, Careful, Of, Gone
  <2> QED
    BY <1>0, <2>1, <2>2, <2>3, <2>4
<1>12. CASE CleanForget
  <2>1. ASSUME NEW r \in Route PROVE Sync(r)'
    <3>1. /\ wpc = "forget" /\ wpc' = "clean" /\ cur' = NoRoute
          /\ have' = have \ drop
          /\ UNCHANGED <<rollup, unreadable, history, bootq, dpc, droute>>
      BY <1>12 DEF CleanForget
    <3>2. Of(have', r) = IF cur = r THEN Of(have, r) \ drop ELSE Of(have, r)
      BY <3>1 DEF Of
    <3>3. UNCHANGED <<Of(rollup, r), Deleting(r), Unlinked(r)>>
      BY <3>1 DEF Of, Deleting, Unlinked
    <3>4. Unlinked(r) => Deleting(r)
      BY DEF Unlinked, Deleting
    <3> QED
      BY <3>1, <3>2, <3>3, <3>4 DEF Parted, Sync, Updating
  <2>2. Booting'
    BY <1>12 DEF CleanForget, Booting, Of, Backlog
  <2>3. Backlog'
    BY <1>12 DEF CleanForget, Backlog
  <2>4. Careful'
    BY <1>12 DEF CleanForget, Careful, Of, Gone
  <2> QED
    BY <1>0, <2>1, <2>2, <2>3, <2>4
<1>13. CASE HaveAdd
  <2>1. ASSUME NEW r \in Route PROVE Sync(r)'
    BY <1>13 DEF HaveAdd, Count, Parted, Sync, Of, Updating, Deleting, Unlinked, Booting, Backlog, Careful
  <2>2. Booting'
    BY <1>13 DEF HaveAdd, Count, Booting, Of, Backlog
  <2>3. Backlog'
    BY <1>13 DEF HaveAdd, Count, Backlog
  <2>4. Careful'
    BY <1>13 DEF HaveAdd, Count, Careful, Of, Gone
  <2> QED
    BY <1>0, <2>1, <2>2, <2>3, <2>4
<1>14. CASE TickEnd
  <2>1. ASSUME NEW r \in Route PROVE Sync(r)'
    BY <1>14 DEF TickEnd, Parted, Sync, Of, Updating, Deleting, Unlinked, Booting, Backlog, Careful
  <2>2. Booting'
    BY <1>14 DEF TickEnd, Booting, Of, Backlog
  <2>3. Backlog'
    BY <1>14 DEF TickEnd, Backlog
  <2>4. Careful'
    BY <1>14 DEF TickEnd, Careful, Of, Gone
  <2> QED
    BY <1>0, <2>1, <2>2, <2>3, <2>4
<1>15. ASSUME NEW q \in Segment, ParseNone(q) PROVE MirrorInv'
  <2>1. ASSUME NEW r \in Route PROVE Sync(r)'
    BY <1>15 DEF ParseNone, Count, Newest, Parted, Sync, Of, Updating, Deleting, Unlinked, Booting, Backlog, Careful
  <2>2. Booting'
    BY <1>15 DEF ParseNone, Count, Newest, Booting, Of, Backlog
  <2>3. Backlog'
    BY <1>15 DEF ParseNone, Count, Newest, Backlog
  <2>4. Careful'
    BY <1>15 DEF ParseNone, Count, Newest, Careful, Of, Gone
  <2> QED
    BY <1>0, <2>1, <2>2, <2>3, <2>4
<1>16. ASSUME NEW q \in Segment, ParseOpen(q) PROVE MirrorInv'
  <2>1. ASSUME NEW r \in Route PROVE Sync(r)'
    BY <1>16 DEF ParseOpen, Hold, Newest, Parted, Sync, Of, Updating, Deleting, Unlinked, Booting, Backlog, Careful
  <2>2. Booting'
    BY <1>16 DEF ParseOpen, Hold, Newest, Booting, Of, Backlog
  <2>3. Backlog'
    BY <1>16 DEF ParseOpen, Hold, Newest, Backlog
  <2>4. Careful'
    BY <1>16 DEF ParseOpen, Hold, Newest, Careful, Of, Gone
  <2> QED
    BY <1>0, <2>1, <2>2, <2>3, <2>4
<1>17. ASSUME NEW q \in Route, BootFail(q) PROVE MirrorInv'
  <2>1. ASSUME NEW r \in Route PROVE Sync(r)'
    BY <1>17 DEF BootFail, Mar, Parted, Sync, Of, Updating, Deleting, Unlinked, Booting, Backlog, Careful
  <2>2. Booting'
    BY <1>17 DEF BootFail, Mar, Booting, Of, Backlog
  <2>3. Backlog'
    BY <1>17 DEF BootFail, Mar, Backlog
  <2>4. Careful'
    BY <1>17 DEF BootFail, Mar, Careful, Of, Gone
  <2> QED
    BY <1>0, <2>1, <2>2, <2>3, <2>4
<1>18. CASE RollUnread
  <2>1. ASSUME NEW r \in Route PROVE Sync(r)'
    BY <1>18 DEF RollUnread, Mar, Parted, Sync, Of, Updating, Deleting, Unlinked, Booting, Backlog, Careful
  <2>2. Booting'
    BY <1>18 DEF RollUnread, Mar, Booting, Of, Backlog
  <2>3. Backlog'
    BY <1>18 DEF RollUnread, Mar, Backlog
  <2>4. Careful'
    BY <1>18 DEF RollUnread, Mar, Careful, Of, Gone
  <2> QED
    BY <1>0, <2>1, <2>2, <2>3, <2>4
<1>19. CASE RollStuck
  <2>1. ASSUME NEW r \in Route PROVE Sync(r)'
    BY <1>19 DEF RollStuck, AfterStore, Mar, Parted, Sync, Of, Updating, Deleting, Unlinked, Booting, Backlog, Careful
  <2>2. Booting'
    BY <1>19 DEF RollStuck, AfterStore, Mar, Booting, Of, Backlog
  <2>3. Backlog'
    BY <1>19 DEF RollStuck, AfterStore, Mar, Backlog
  <2>4. Careful'
    BY <1>19 DEF RollStuck, AfterStore, Mar, Careful, Of, Gone
  <2> QED
    BY <1>0, <2>1, <2>2, <2>3, <2>4
<1>20. CASE ForgetFail
  <2>1. ASSUME NEW r \in Route PROVE Sync(r)'
    BY <1>20 DEF ForgetFail, Abandon, Parted, Sync, Of, Updating, Deleting, Unlinked, Booting, Backlog, Careful
  <2>2. Booting'
    BY <1>20 DEF ForgetFail, Abandon, Booting, Of, Backlog
  <2>3. Backlog'
    BY <1>20 DEF ForgetFail, Abandon, Backlog
  <2>4. Careful'
    BY <1>20 DEF ForgetFail, Abandon, Careful, Of, Gone
  <2> QED
    BY <1>0, <2>1, <2>2, <2>3, <2>4
<1> QED
  BY <1>1, <1>2, <1>3, <1>4, <1>5, <1>6, <1>7, <1>8, <1>9, <1>10, <1>11, <1>12, <1>13, <1>14, <1>15, <1>16,
     <1>17, <1>18, <1>19, <1>20, Zenon DEF Watch

\* What loggerd, the disk deleter and the driver do keeps the invariant.
LEMMA MirrorEnv == MirrorInv /\ Env => MirrorInv'
<1> SUFFICES ASSUME MirrorInv, Env PROVE MirrorInv'
  OBVIOUS
<1>0. Typed'
  BY TypeEnv DEF MirrorInv
<1>1. /\ EnvStep
      /\ \A s \in Segment : Gone(s) => Gone(s)'
  BY DEF Env, Record, Write, Flush, Settle, Rotate, Toggle, SetDir, Gone,
         MirrorInv, Typed, TypeOK
<1> USE DEF EnvStep, disk, watcher, tick, update, handlers, bounds, history
<1>2. ASSUME NEW r \in Route PROVE Sync(r)'
  BY <1>1 DEF MirrorInv, Parted, Sync, Of, Updating, Deleting, Unlinked
<1>3. Booting' /\ Backlog'
  BY <1>1 DEF MirrorInv, Booting, Backlog, Of
<1>4. Careful'
  BY <1>1 DEF MirrorInv, Typed, TypeOK, Careful, Of
<1> QED
  BY <1>0, <1>2, <1>3, <1>4 DEF MirrorInv

\* Every step of a delete keeps the invariant.
LEMMA MirrorDelete == MirrorInv /\ Delete => MirrorInv'
<1> SUFFICES ASSUME MirrorInv, NEW h \in Handler,
                    DeleteGo(h) \/ \E r \in Deletable : DelCheck(h, r)
             PROVE  MirrorInv'
  BY DEF Delete
<1>0. Typed'
  BY TypeDelete DEF MirrorInv, Delete
<1> USE DEF MirrorInv, Typed, TypeOK
<1> USE DEF DeleteStep, env, disk, watcher, tick, update, bounds, history
<1>1. ASSUME NEW q \in Deletable, DelCheck(h, q) PROVE MirrorInv'
  <2>1. ASSUME NEW r \in Route PROVE Sync(r)'
    BY <1>1 DEF DelCheck, Parted, Sync, Of, Updating, Deleting, Unlinked
  <2>2. Booting' /\ Backlog' /\ Careful'
    BY <1>1 DEF DelCheck, Booting, Backlog, Careful, Of, Gone
  <2> QED
    BY <1>0, <2>1, <2>2
<1>2. ASSUME NEW s \in Segment, DelTree(h, s) PROVE MirrorInv'
  <2>1. ASSUME NEW r \in Route PROVE Sync(r)'
    BY <1>2 DEF DelTree, Parted, Sync, Of, Updating, Deleting, Unlinked
  <2>2. Booting' /\ Backlog' /\ Careful'
    BY <1>2 DEF DelTree, Booting, Backlog, Careful, Of, Gone
  <2> QED
    BY <1>0, <2>1, <2>2
<1>3. ASSUME NEW s \in Segment, DelTreeFail(h, s) PROVE MirrorInv'
  <2>1. ASSUME NEW r \in Route PROVE Sync(r)'
    BY <1>3 DEF DelTreeFail, Fault, Parted, Sync, Of, Updating, Deleting, Unlinked
  <2>2. Booting' /\ Backlog' /\ Careful'
    BY <1>3 DEF DelTreeFail, Fault, Booting, Backlog, Careful, Of, Gone
  <2> QED
    BY <1>0, <2>1, <2>2
<1>4. CASE DelUnlink(h)
  <2>1. ASSUME NEW r \in Route PROVE Sync(r)'
    BY <1>4 DEF DelUnlink, Parted, Sync, Of, Updating, Deleting, Unlinked
  <2>2. Booting' /\ Backlog' /\ Careful'
    BY <1>4 DEF DelUnlink, Booting, Backlog, Careful, Of, Gone
  <2> QED
    BY <1>0, <2>1, <2>2
<1>5. CASE DelThumbs(h)
  <2>1. ASSUME NEW r \in Route PROVE Sync(r)'
    BY <1>5 DEF DelThumbs, Parted, Sync, Of, Updating, Deleting, Unlinked
  <2>2. Booting' /\ Backlog' /\ Careful'
    BY <1>5 DEF DelThumbs, Booting, Backlog, Careful, Of, Gone
  <2> QED
    BY <1>0, <2>1, <2>2
<1>6. CASE DelPop(h)
  <2>1. ASSUME NEW r \in Route PROVE Sync(r)'
    <3>1. /\ dpc[h] = "pop" /\ dpc' = [dpc EXCEPT ![h] = "idle"]
          /\ have' = have \ Of(have, droute[h])
          /\ droute' = [droute EXCEPT ![h] = NoRoute]
          /\ UNCHANGED <<rollup, unreadable, history, bootq, wpc, cur, add, drop, loaded>>
      BY <1>6 DEF DelPop
    <3>2. CASE droute[h] = r
      <4>1. Of(have', r) = {} /\ Deleting(r)
        BY <3>1, <3>2 DEF Of, Deleting
      <4>2. r \notin Parted \cup bootq => ~Updating(r) /\ Of(rollup, r) = {}
        BY <3>1, <3>2, <4>1 DEF Parted, Sync, Unlinked
      <4>3. UNCHANGED Of(rollup, r)
        BY <3>1 DEF Of
      <4> QED
        BY <3>1, <4>1, <4>2, <4>3 DEF Parted, Sync, Updating
    <3>3. CASE droute[h] # r
      <4>1. Of(have', r) = Of(have, r)
        BY <3>1, <3>3 DEF Of
      <4>2. Deleting(r)' => Deleting(r)
        BY <3>1 DEF Deleting
      <4>3. Unlinked(r)' <=> Unlinked(r)
        BY <3>1, <3>3 DEF Unlinked
      <4>4. UNCHANGED <<Of(rollup, r), Parted, Updating(r)>>
        BY <3>1 DEF Of, Parted, Updating
      <4>5. UNCHANGED <<wpc, cur, add, drop, loaded, unreadable, bootq>>
        BY <3>1
      <4> QED
        BY <4>1, <4>2, <4>3, <4>4, <4>5 DEF Sync
    <3> QED
      BY <3>2, <3>3
  <2>2. Booting'
    BY <1>6 DEF DelPop, Booting, Of
  <2>3. Backlog' /\ Careful'
    BY <1>6 DEF DelPop, Backlog, Careful, Of, Gone
  <2> QED
    BY <1>0, <2>1, <2>2, <2>3
<1>7. CASE DelUnlinkFail(h)
  <2>1. ASSUME NEW r \in Route PROVE Sync(r)'
    BY <1>7 DEF DelUnlinkFail, Mar, Parted, Sync, Of, Updating, Deleting, Unlinked
  <2>2. Booting' /\ Backlog' /\ Careful'
    BY <1>7 DEF DelUnlinkFail, Mar, Booting, Backlog, Careful, Of, Gone
  <2> QED
    BY <1>0, <2>1, <2>2
<1>8. CASE DelThumbsFail(h)
  <2>1. ASSUME NEW r \in Route PROVE Sync(r)'
    BY <1>8 DEF DelThumbsFail, Fault, Parted, Sync, Of, Updating, Deleting, Unlinked
  <2>2. Booting' /\ Backlog' /\ Careful'
    BY <1>8 DEF DelThumbsFail, Fault, Booting, Backlog, Careful, Of, Gone
  <2> QED
    BY <1>0, <2>1, <2>2
<1> QED
  BY <1>1, <1>2, <1>3, <1>4, <1>5, <1>6, <1>7, <1>8, Zenon DEF DeleteGo

\* A restart keeps the invariant: what it forgets it will read again.
LEMMA MirrorRestart == ASSUME MirrorInv, NEW upgrade \in BOOLEAN, Restart(upgrade)
                       PROVE  MirrorInv'
<1>0. Typed'
  BY TypeRestart DEF MirrorInv
<1>1. /\ bootq' = {r \in Route : Of(rollup, r) # {}} \cup unreadable
      /\ rollup' \in {rollup, {}} /\ unreadable' \in {bootq', unreadable}
      /\ have' = {} /\ todo' = {} /\ wpc' = "boot" /\ cur' = NoRoute
      /\ add' = {} /\ drop' = {}
  BY DEF Restart
<1>2. ASSUME NEW r \in Route PROVE Sync(r)'
  BY <1>1 DEF Parted, Sync, Of, Updating, Unlinked
<1>3. Booting' /\ Backlog' /\ Careful'
  BY <1>1 DEF Booting, Backlog, Careful, Of
<1> QED
  BY <1>0, <1>2, <1>3 DEF MirrorInv

\* A step that changes nothing keeps the invariant.
LEMMA MirrorStutter == MirrorInv /\ UNCHANGED vars => MirrorInv'
<1> SUFFICES ASSUME MirrorInv, UNCHANGED vars PROVE MirrorInv'
  OBVIOUS
<1> USE DEF vars, env, disk, watcher, tick, update, handlers, bounds, history
<1>1. Typed'
  BY TypeStutter DEF MirrorInv
<1>2. ASSUME NEW r \in Route PROVE Sync(r)'
  BY DEF MirrorInv, Parted, Sync, Of, Updating, Deleting, Unlinked
<1>3. Booting' /\ Backlog' /\ Careful'
  BY DEF MirrorInv, Booting, Backlog, Careful, Of, Gone
<1> QED
  BY <1>1, <1>2, <1>3 DEF MirrorInv

LEMMA MirrorStep == MirrorInv /\ [Next]_vars => MirrorInv'
BY MirrorEnv, MirrorWatch, MirrorDelete, MirrorRestart, MirrorStutter DEF Next

LEMMA MirrorAlways == Spec => []MirrorInv
BY MirrorInit, MirrorStep, PTL DEF Spec

\* The RAM mirror and the rollups agree about every drive no thread is working
\* on, for as long as no delete has overlapped an update of that drive and no
\* failing file operation has spoilt it.
THEOREM MirrorCorrect == Spec => []MirrorExact
<1>1. MirrorInv => MirrorExact
  <2> SUFFICES ASSUME MirrorInv, NEW r \in Route \ (Parted \cup bootq),
                      ~Updating(r), ~Deleting(r)
               PROVE  r \notin unreadable /\ Of(have, r) = Of(rollup, r)
    BY DEF MirrorExact
  <2> QED
    BY DEF MirrorInv, Sync, Deleting, Unlinked
<1> QED
  BY <1>1, MirrorAlways, PTL

\* No segment that is already in the rollup is parsed and folded in again, but
\* of a drive that has parted.
THEOREM ParseOnceCorrect == Spec => []ParseOnce
<1>1. MirrorInv => ParseOnce
  <2> SUFFICES ASSUME MirrorInv, wpc \in {"parse", "load", "store"}, add # {},
                      cur \notin Parted
               PROVE  add \cap rollup = {} /\ drop = {}
    BY DEF ParseOnce
  <2>0. PICK s \in Segment : add = {s} /\ RouteOf[s] = cur
    BY DEF MirrorInv, Typed, TypeOK, Locals, Of
  <2>1. cur \in Route /\ bootq = {} /\ drop = {} /\ add \cap have = {}
    BY <2>0 DEF MirrorInv, Typed, Locals, Booting, Backlog
  <2>2. Of(have, cur) = Of(rollup, cur)
    BY <2>1 DEF MirrorInv, Sync
  <2> QED
    BY <2>1, <2>2 DEF MirrorInv, Typed, TypeOK, Of
<1> QED
  BY <1>1, MirrorAlways, PTL
\* A rollup only ever loses a segment whose recording has gone, or to a delete
\* of its drive, to an update of the rollup format or to a failing read.
THEOREM NoIndexLossCorrect == Spec => NoIndexLoss
<1> DEFINE Excused(s) == \/ Gone(s) \/ Deleting(RouteOf[s]) \/ restarts' # restarts
                         \/ RouteOf[s] \in marred'
<1>1. MirrorInv /\ [Next]_vars => \A s \in rollup \ rollup' : Excused(s)
  <2> SUFFICES ASSUME MirrorInv, [Next]_vars, NEW s \in rollup, s \notin rollup'
               PROVE  Excused(s)
    OBVIOUS
  <2>1. CASE Env \/ UNCHANGED vars
    BY <2>1 DEF Env, Record, Write, Flush, Settle, Rotate, Toggle, EnvStep, vars, disk
  <2>2. CASE Watch
    <3>1. RollStore \/ \E r \in Route : BootFail(r)
      BY <2>2 DEF Watch, BootLoad, BootPut, BootDone, Tick, CleanKeep, CleanDrop,
        Scan, ParseNone, ParseOpen, ParseDone, RollLoad, RollUnread, RollStuck,
        RollFail, CleanForget, ForgetFail, HaveAdd, TickEnd, disk
    <3>2. CASE RollStore
      <4>1. s \in Of(rollup, cur) \ loaded
        BY <3>2 DEF RollStore, Of
      <4>2. UNCHANGED marred /\ wpc = "store" /\ RouteOf[s] = cur
        BY <3>2, <4>1 DEF RollStore, history, Of
      <4> QED
        BY <4>1, <4>2 DEF MirrorInv, Careful
    <3>3. ASSUME NEW r \in Route, BootFail(r) PROVE Excused(s)
      BY <3>3 DEF BootFail, Mar, Of
    <3> QED
      BY <3>1, <3>2, <3>3
  <2>3. CASE Delete
    <3>1. PICK h \in Handler : DelUnlink(h)
      BY <2>3 DEF Delete, DeleteGo, DelCheck, DelTree, DelTreeFail, DelUnlinkFail,
        DelThumbs, DelThumbsFail, DelPop, disk
    <3> QED
      BY <3>1 DEF DelUnlink, Of, Deleting
  <2>4. CASE \E upgrade \in BOOLEAN : Restart(upgrade)
    BY <2>4 DEF Restart, MirrorInv, Typed, TypeOK
  <2> QED
    BY <2>1, <2>2, <2>3, <2>4 DEF Next
<1> QED
  BY <1>1, MirrorAlways, PTL DEF Spec, NoIndexLoss

-----------------------------------------------------------------------------
(* The thumbnails: a segment whose summary says so has its own from before  *)
(* it is folded in until after it is dropped.                               *)

\* Segment s has a thumbnail, or its drive has parted.
Seen(s) == s \in thumbs \/ RouteOf[s] \in Parted

Pictured ==
  restarts = 0 =>
    /\ bootq = {}
    /\ \A s \in rollup \cap pictured : Seen(s)
    /\ wpc \in {"load", "store"} => \A s \in shot : Seen(s)

\* A step that takes no thumbnail away and takes in nothing without one.
LEMMA PicturedKept ==
  ASSUME Pictured, thumbs \subseteq thumbs', raced \subseteq raced', marred \subseteq marred',
         restarts' = restarts, bootq' \subseteq bootq,
         rollup' \subseteq rollup, pictured' \subseteq pictured,
         wpc' \in {"load", "store"} =>
           shot' = {} \/ (wpc \in {"load", "store"} /\ shot' = shot)
  PROVE  Pictured'
BY DEF Pictured, Seen, Parted

LEMMA PicturedWatch == ASSUME MirrorInv, Pictured, Watch PROVE Pictured'
<1> USE DEF WatcherStep, disk, tick, update, history
<1>1. ASSUME NEW r \in Route, BootLoad(r) \/ CleanKeep(r) \/ CleanDrop(r) PROVE Pictured'
  BY <1>1, PicturedKept DEF BootLoad, CleanKeep, CleanDrop, Hold
<1>2. CASE BootPut \/ BootDone \/ Tick \/ Scan \/ TickEnd
  BY <1>2, PicturedKept DEF BootPut, BootDone, Tick, Scan, TickEnd
<1>3. ASSUME NEW s \in Segment, ParseNone(s) \/ ParseOpen(s) PROVE Pictured'
  BY <1>3, PicturedKept DEF ParseNone, ParseOpen, Hold, Count
<1>4. CASE ParseDone
  BY <1>4 DEF ParseDone, Pictured, Seen, Parted
<1>5. CASE RollLoad
  BY <1>5, PicturedKept DEF RollLoad
\* What the update listed before it was there already, or the drive has parted.
<1>6. CASE RollStore
  <2>1. /\ wpc = "store" /\ wpc' \in {"forget", "mirror"}
        /\ rollup' = (rollup \ Of(rollup, cur)) \cup loaded
        /\ pictured' = ((pictured \ add) \cup shot) \cap rollup'
        /\ UNCHANGED <<thumbs, bootq, raced, marred, restarts>>
    BY <1>6 DEF RollStore, AfterStore
  <2>2. ASSUME restarts = 0, NEW s \in loaded, s \in pictured \ add, s \notin rollup
        PROVE  RouteOf[s] \in Parted
    <3>1. RouteOf[s] = cur /\ cur \in Route
      BY <2>1 DEF MirrorInv, Typed, TypeOK, Locals, Of
    <3>2. bootq = {}
      BY <2>2 DEF Pictured
    <3>3. cur \notin Parted => loaded = (Of(rollup, cur) \cup add) \ drop
      BY <2>1, <3>1, <3>2 DEF MirrorInv, Sync
    <3> QED
      BY <2>2, <3>1, <3>3 DEF Of
  <2> QED
    BY <2>1, <2>2 DEF Pictured, Seen, Parted
<1>7. CASE RollFail
  BY <1>7, PicturedKept DEF RollFail, Abandon
<1>8. CASE HaveAdd
  BY <1>8, PicturedKept DEF HaveAdd, Count
\* What is dropped has left the rollup before its thumbnail goes.
<1>9. CASE CleanForget
  <2>1. /\ wpc = "forget" /\ wpc' = "clean" /\ thumbs' = thumbs \ drop
        /\ UNCHANGED <<rollup, pictured, bootq, raced, marred, restarts>>
    BY <1>9 DEF CleanForget
  <2>2. ASSUME restarts = 0, NEW s \in drop, s \in rollup PROVE RouteOf[s] \in Parted
    <3>1. s \in Segment /\ RouteOf[s] = cur /\ cur \in Route
      BY <2>2 DEF MirrorInv, Typed, TypeOK, Of
    <3>2. bootq = {}
      BY <2>2 DEF Pictured
    <3>3. cur \notin Parted => Of(rollup, cur) = Of(have, cur) \ drop
      BY <2>1, <3>1, <3>2 DEF MirrorInv, Sync
    <3> QED
      BY <2>2, <3>1, <3>3 DEF Of, MirrorInv, Typed, TypeOK
  <2> QED
    BY <2>1, <2>2 DEF Pictured, Seen, Parted
<1>10. ASSUME NEW r \in Route, BootFail(r) PROVE Pictured'
  BY <1>10, PicturedKept DEF BootFail, Mar
<1>11. CASE RollUnread \/ RollStuck
  BY <1>11, PicturedKept DEF RollUnread, RollStuck, AfterStore, Mar
<1>12. CASE ForgetFail
  <2>1. /\ wpc' = "tick" /\ marred' = marred \cup {cur}
        /\ UNCHANGED <<rollup, pictured, bootq, raced, restarts>>
    BY <1>12 DEF ForgetFail, Abandon
  <2>2. \A s \in thumbs \ thumbs' : RouteOf[s] = cur
    BY <1>12 DEF ForgetFail, MirrorInv, Typed, TypeOK, Of
  <2> QED
    BY <2>1, <2>2 DEF Pictured, Seen, Parted
<1> QED
  BY <1>1, <1>2, <1>3, <1>4, <1>5, <1>6, <1>7, <1>8, <1>9, <1>10, <1>11, <1>12,
     Zenon DEF Watch

LEMMA PicturedDelete == ASSUME MirrorInv, Pictured, Delete PROVE Pictured'
<1> PICK h \in Handler : DeleteGo(h) \/ \E r \in Deletable : DelCheck(h, r)
  BY DEF Delete
<1> USE DEF DeleteStep, disk, watcher, tick, update, bounds, history
<1>1. ASSUME NEW r \in Deletable, DelCheck(h, r) PROVE Pictured'
  BY <1>1, PicturedKept DEF DelCheck
<1>2. ASSUME NEW s \in Segment, DelTree(h, s) \/ DelTreeFail(h, s) PROVE Pictured'
  BY <1>2, PicturedKept DEF DelTree, DelTreeFail
<1>3. CASE DelUnlink(h) \/ DelUnlinkFail(h) \/ DelPop(h)
  BY <1>3, PicturedKept DEF DelUnlink, DelUnlinkFail, DelPop, Mar
\* The rollup went first.
<1>4. CASE DelThumbs(h) \/ DelThumbsFail(h)
  <2> DEFINE r == droute[h]
  <2>1. /\ dpc[h] = "thumbs" /\ thumbs \ Of(thumbs, r) \subseteq thumbs'
        /\ UNCHANGED <<rollup, pictured, bootq, wpc, shot, raced, marred, restarts>>
    BY <1>4 DEF DelThumbs, DelThumbsFail
  <2>2. ASSUME restarts = 0, r \in Route, r \notin Parted
        PROVE  Of(rollup, r) = {} /\ ~Updating(r)
    <3>1. Unlinked(r) /\ Deleting(r)
      BY <2>1 DEF Unlinked, Deleting
    <3> QED
      BY <2>2, <3>1 DEF MirrorInv, Sync, Pictured
  <2>3. ASSUME restarts = 0, NEW s \in Segment, RouteOf[s] = r, RouteOf[s] \notin Parted
        PROVE  /\ s \notin rollup
               /\ wpc \in {"load", "store"} => s \notin shot
    <3>1. r \in Route
      BY <2>3
    <3> QED
      BY <2>2, <2>3, <3>1 DEF Of, Updating, MirrorInv, Typed, TypeOK
  <2>4. rollup \subseteq Segment /\ shot \subseteq Segment
    BY DEF MirrorInv, Typed, TypeOK, Of
  <2> QED
    BY <2>1, <2>3, <2>4 DEF Pictured, Seen, Parted, Of
<1> QED
  BY <1>1, <1>2, <1>3, <1>4 DEF DeleteGo

\* No listed segment whose summary says it has a thumbnail lacks it, until its
\* drive has parted.
THEOREM ThumbFirstCorrect == Spec => []ThumbFirst
<1>1. Init => Pictured
  BY DEF Init, Pictured
<1>2. ASSUME MirrorInv, Pictured, [Next]_vars PROVE Pictured'
  <2>1. CASE Env \/ UNCHANGED vars
    <3>1. UNCHANGED <<rollup, pictured, thumbs, bootq, wpc, shot, raced, marred, restarts>>
      BY <2>1 DEF Env, Record, Write, Flush, Settle, Rotate, Toggle, EnvStep, vars,
        disk, watcher, update, bounds, history
    <3> QED
      BY <1>2, <3>1 DEF Pictured, Seen, Parted
  <2>2. CASE \E upgrade \in BOOLEAN : Restart(upgrade)
    <3>1. restarts' # 0
      BY <1>2, <2>2 DEF Restart, MirrorInv, Typed, TypeOK
    <3> QED
      BY <3>1 DEF Pictured
  <2> QED
    BY <1>2, <2>1, <2>2, PicturedWatch, PicturedDelete DEF Next
<1>3. Pictured => ThumbFirst
  BY DEF Pictured, Seen, ThumbFirst
<1> QED
  BY <1>1, <1>2, <1>3, MirrorInit, MirrorStep, PTL DEF Spec

-----------------------------------------------------------------------------
(* The progress shown to the app: what a tick has still to try is what the  *)
(* counts differ by.                                                        *)

ProgressInv ==
  /\ progress.indexed <= progress.total
  /\ ~progress.running => progress.indexed = progress.total
  /\ todo # {} \/ wpc = "end" => progress.total - progress.indexed = Cardinality(todo)
  /\ todo # {} => progress.running

\* One more segment tried keeps the counts right.
LEMMA CountProgress == ASSUME Typed, ProgressInv, NEW s \in todo, Count(s)
                       PROVE  ProgressInv'
<1>1. Cardinality(todo') = Cardinality(todo) - 1 /\ Cardinality(todo') \in Nat
  BY SegmentCount, FS_RemoveElement DEF Count, Typed, TypeOK
<1>2. /\ progress'.indexed = progress.indexed + 1
      /\ progress'.total = progress.total /\ progress'.running = progress.running
  BY DEF Count, Typed, TypeOK
<1> QED
  BY <1>1, <1>2 DEF ProgressInv, Typed, TypeOK

LEMMA ProgressStep == MirrorInv /\ ProgressInv /\ [Next]_vars => ProgressInv'
<1> SUFFICES ASSUME MirrorInv, ProgressInv, [Next]_vars PROVE ProgressInv'
  OBVIOUS
<1> USE DEF MirrorInv, Typed, TypeOK
<1>1. ASSUME UNCHANGED <<progress, todo>>, wpc' # "end" PROVE ProgressInv'
  BY <1>1 DEF ProgressInv
<1>2. ASSUME UNCHANGED <<progress, todo, wpc>> PROVE ProgressInv'
  BY <1>2 DEF ProgressInv
<1>3. CASE Env \/ Delete \/ UNCHANGED vars
  BY <1>2, <1>3 DEF Env, Record, Write, Flush, Settle, Rotate, Toggle, EnvStep,
    Delete, DeleteGo, DelCheck, DelTree, DelTreeFail, DelUnlink, DelUnlinkFail,
    DelThumbs, DelThumbsFail, DelPop, DeleteStep, vars, watcher, tick
<1>4. CASE Scan
  <2>1. /\ Cardinality(todo') \in Nat
        /\ Cardinality({s \in Segment : Exists(s)}) \in Nat
        /\ todo' = {} => Cardinality(todo') = 0
    BY <1>4, SegmentCount, FS_EmptySet DEF Scan
  <2>2. /\ progress'.total = Cardinality({s \in Segment : Exists(s)})
        /\ progress'.indexed = progress'.total - Cardinality(todo')
        /\ progress'.running => todo' # {}
        /\ todo' # {} => progress'.running
    BY <1>4 DEF Scan
  <2>3. progress'.total - progress'.indexed = Cardinality(todo')
    BY <2>1, <2>2
  <2>4. progress'.indexed <= progress'.total
    BY <2>1, <2>2
  <2>5. ~progress'.running => progress'.indexed = progress'.total
    BY <2>1, <2>2
  <2> QED
    BY <2>2, <2>3, <2>4, <2>5 DEF ProgressInv
<1>5. ASSUME NEW s \in Segment, ParseNone(s) PROVE ProgressInv'
  BY <1>5, CountProgress DEF ParseNone, Newest
<1>6. CASE HaveAdd
  BY <1>6, CountProgress DEF HaveAdd, Backlog
<1>7. CASE TickEnd
  <2>1. Cardinality(todo) \in Nat /\ (todo = {} => Cardinality(todo) = 0)
    BY SegmentCount, FS_EmptySet
  <2>2. /\ progress'.running => todo # {}
        /\ ~progress'.running => todo = {}
        /\ progress'.indexed = progress.indexed /\ progress'.total = progress.total
        /\ todo' = {} /\ wpc' = "tick" /\ wpc = "end"
    BY <1>7 DEF TickEnd
  <2>3. progress.total - progress.indexed = Cardinality(todo)
    BY <2>2 DEF ProgressInv
  <2>4. progress.indexed \in Int /\ progress.total \in Int
    OBVIOUS
  <2>5. progress'.indexed <= progress'.total
    BY <2>1, <2>2, <2>3, <2>4
  <2>6. ~progress'.running => progress'.indexed = progress'.total
    BY <2>1, <2>2, <2>3, <2>4
  <2> QED
    BY <2>2, <2>5, <2>6 DEF ProgressInv
<1>8. CASE RollFail \/ ForgetFail
  BY <1>8 DEF RollFail, ForgetFail, Abandon, ProgressInv
<1>9. CASE \E upgrade \in BOOLEAN : Restart(upgrade)
  BY <1>9 DEF Restart, ProgressInv
<1>10. CASE \/ \E r \in Route : BootLoad(r) \/ BootFail(r) \/ CleanKeep(r) \/ CleanDrop(r)
            \/ BootPut \/ BootDone \/ Tick \/ \E s \in Segment : ParseOpen(s)
            \/ ParseDone \/ RollLoad \/ RollUnread \/ RollStore \/ RollStuck \/ CleanForget
  BY <1>1, <1>2, <1>10 DEF BootLoad, BootFail, CleanKeep, CleanDrop, BootPut, BootDone,
    Tick, ParseOpen, ParseDone, RollLoad, RollUnread, RollStore, RollStuck, AfterStore,
    CleanForget, tick
<1> QED
  BY <1>3, <1>4, <1>5, <1>6, <1>7, <1>8, <1>9, <1>10, Zenon DEF Next, Watch

\* The progress never counts more segments than there are, and "not running"
\* means that all of them were tried.
THEOREM ProgressCorrect == Spec => []ProgressHonest
<1>1. Init => ProgressInv
  BY FS_EmptySet DEF Init, ProgressInv
<1>2. ProgressInv => ProgressHonest
  BY DEF ProgressInv, ProgressHonest
<1> QED
  BY <1>1, <1>2, ProgressStep, MirrorAlways, PTL DEF Spec
-----------------------------------------------------------------------------
(* Refinement. For the drives nobody deletes every step of Drives is a step *)
(* of DrivesIndex or leaves the catalog and the recordings alone.           *)

\* Deletes are only of deletable drives, and of nothing but their segments;
\* what is left to fold has been finished; and what is to be stored for a kept
\* drive was there before or is the segment to be folded in.
Targets ==
  /\ \A h \in Handler : dpc[h] # "idle" =>
       droute[h] \in Deletable /\ dleft[h] \subseteq Of(Segment, droute[h])
  /\ raced \subseteq Deletable
  /\ \A s \in todo : Finalized(s) \/ Gone(s)
  /\ wpc = "store" => /\ add \ drop \subseteq loaded
                      /\ cur \notin Deletable => loaded \subseteq Of(rollup, cur) \cup add

LEMMA TargetsStep == MirrorInv /\ Targets /\ [Next]_vars => Targets'
<1> SUFFICES ASSUME MirrorInv, Targets, [Next]_vars PROVE Targets'
  OBVIOUS
<1> USE DEF Targets, MirrorInv, Typed, TypeOK
<1> USE DEF env, disk, watcher, tick, update, handlers, bounds, history
<1>1. CASE Env
  <2>1. \A s \in Segment : Finalized(s) \/ Gone(s) => Finalized(s)' \/ Gone(s)'
    BY <1>1 DEF Env, Record, Write, Flush, Settle, Rotate, Toggle, SetDir,
      Finalized, Gone
  <2>2. EnvStep
    BY <1>1 DEF Env, Record, Write, Flush, Settle, Rotate, Toggle
  <2> QED
    BY <2>1, <2>2 DEF EnvStep, Of
<1>2. CASE Watch
  <2>1. UNCHANGED <<env, handlers>>
    BY <1>2 DEF Watch, WatcherStep, BootLoad, BootFail, BootPut, BootDone, Tick,
      CleanKeep, CleanDrop, Scan, ParseNone, ParseOpen, ParseDone, RollLoad, RollUnread,
      RollStore, RollStuck, RollFail, CleanForget, ForgetFail, HaveAdd, TickEnd
  <2>2. raced' \subseteq Deletable
    <3>1. raced' = raced \/ \E r \in Route : Deleting(r) /\ raced' = raced \cup {r}
      BY <1>2 DEF Watch, BootLoad, BootFail, BootPut, BootDone, Tick, CleanKeep,
        CleanDrop, Scan, ParseNone, ParseOpen, ParseDone, RollLoad, RollUnread,
        RollStore, RollStuck, RollFail, CleanForget, ForgetFail, HaveAdd, TickEnd,
        Hold, Mar
    <3> QED
      BY <3>1 DEF Deleting
  <2>3. \A s \in todo' : Finalized(s) \/ Gone(s)
    BY <1>2 DEF Watch, BootLoad, BootFail, BootPut, BootDone, Tick, CleanKeep,
      CleanDrop, Scan, ParseNone, ParseOpen, ParseDone, RollLoad, RollUnread, RollStore,
      RollStuck, RollFail, CleanForget, ForgetFail, Abandon, HaveAdd, TickEnd, Count
  <2>4. wpc' = "store" => RollLoad \/ RollUnread
    BY <1>2 DEF Watch, BootLoad, BootFail, BootPut, BootDone, Tick, CleanKeep,
      CleanDrop, Scan, ParseNone, ParseOpen, ParseDone, RollLoad, RollUnread, RollStore,
      RollStuck, AfterStore, RollFail, CleanForget, ForgetFail, Abandon, HaveAdd,
      TickEnd, Count
  <2>5. wpc' = "store" =>
          /\ add' \ drop' \subseteq loaded'
          /\ loaded' \subseteq Of(rollup', cur') \cup add'
    BY <2>4 DEF RollLoad, RollUnread
  <2> QED
    BY <2>1, <2>2, <2>3, <2>5 DEF Of, Finalized, Gone
<1>3. CASE Delete
  <2>1. PICK h \in Handler : DeleteGo(h) \/ \E r \in Deletable : DelCheck(h, r)
    BY <1>3 DEF Delete
  <2>2. ASSUME NEW r \in Deletable, DelCheck(h, r) PROVE Targets'
    <3>1. /\ \A g \in Handler : dpc'[g] # "idle" =>
               droute'[g] \in Deletable /\ dleft'[g] \subseteq Of(Segment, droute'[g])
          /\ raced' \subseteq Deletable
      BY <2>2 DEF DelCheck, Of
    <3> QED
      BY <2>2, <3>1 DEF DelCheck, DeleteStep, Finalized, Gone, Of
  <2>3. ASSUME NEW s \in Segment, DelTree(h, s) PROVE Targets'
    BY <2>3 DEF DelTree, Finalized, Gone, Of
  <2>4. ASSUME NEW s \in Segment, DelTreeFail(h, s) PROVE Targets'
    BY <2>4 DEF DelTreeFail, DeleteStep, Finalized, Gone, Of
  <2>5. CASE DelThumbs(h) \/ DelPop(h)
    BY <2>5 DEF DelThumbs, DelPop, DeleteStep, Finalized, Gone, Of
  <2>7. CASE DelUnlink(h)
    <3>1. cur \notin Deletable => UNCHANGED Of(rollup, cur)
      BY <2>7 DEF DelUnlink, DeleteStep, Of
    <3> QED
      BY <2>7, <3>1 DEF DelUnlink, DeleteStep, Finalized, Gone
  <2>6. CASE DelUnlinkFail(h) \/ DelThumbsFail(h)
    BY <2>6 DEF DelUnlinkFail, DelThumbsFail, Mar, DeleteStep, Finalized, Gone, Of
  <2> QED
    BY <2>1, <2>2, <2>3, <2>4, <2>5, <2>6, <2>7, Zenon DEF DeleteGo
<1>4. CASE \E upgrade \in BOOLEAN : Restart(upgrade)
  BY <1>4 DEF Restart, Finalized, Gone
<1>5. CASE UNCHANGED vars
  BY <1>5 DEF vars, Finalized, Gone, Of
<1> QED
  BY <1>1, <1>2, <1>3, <1>4, <1>5 DEF Next

\* What the update of a kept drive loses has gone, or the drive is marred.
LEMMA KeptStore ==
  ASSUME MirrorInv, Targets, RollStore, cur \in Route \ Deletable
  PROVE  \E S \in SUBSET Catalog :
           /\ Catalog' = (Catalog \ S) \cup add
           /\ \A s \in S : RouteOf[s] \in marred \/ (Gone(s) /\ add = {})
<1> DEFINE S == Of(rollup, cur) \ loaded
<1>1. /\ wpc = "store"
      /\ rollup' = (rollup \ Of(rollup, cur)) \cup loaded
  BY DEF RollStore
<1>2. add = {} \/ drop = {}
  BY DEF MirrorInv, Typed, Locals
<1>3. add \subseteq loaded /\ loaded \subseteq Of(rollup, cur) \cup add
  BY <1>1, <1>2 DEF Targets
<1>4. add \subseteq Kept /\ S \subseteq Catalog
      /\ Of(rollup, cur) \subseteq rollup \cap Kept
  BY DEF MirrorInv, Typed, TypeOK, Of, Kept, Catalog
<1>5. Catalog' = (Catalog \ S) \cup add
  <2>1. Catalog' = rollup' \cap Kept
    BY DEF Catalog, Kept
  <2>2. Catalog = rollup \cap Kept
    BY DEF Catalog
  <2> QED
    BY <1>1, <1>3, <1>4, <2>1, <2>2
<1>6. ASSUME NEW s \in S PROVE RouteOf[s] \in marred \/ (Gone(s) /\ add = {})
  <2>1. RouteOf[s] = cur
    BY DEF Of
  <2>2. cur \notin marred => s \in drop
    BY <1>1 DEF MirrorInv, Careful
  <2> QED
    BY <1>2, <2>1, <2>2 DEF MirrorInv, Careful
<1> QED
  BY <1>4, <1>5, <1>6

\* The abstract step each step of Drives is.
LEMMA IndexStep == MirrorInv /\ Targets /\ [Next]_vars => [Index!Next]_(Index!vars)
<1> SUFFICES ASSUME MirrorInv, Targets, [Next]_vars
             PROVE  Index!Next \/ UNCHANGED <<Life, Catalog, marred, restarts, faults>>
  BY DEF Index!vars
<1> USE DEF MirrorInv, Typed, TypeOK
<1>1. ASSUME UNCHANGED dir PROVE UNCHANGED Life
  BY <1>1 DEF Life, Gone, Finalized
<1>2. ASSUME UNCHANGED rollup PROVE UNCHANGED Catalog
  BY <1>2 DEF Catalog
<1>3. CASE UNCHANGED vars
  BY <1>1, <1>2, <1>3 DEF vars, env, disk, bounds, history
\* A failing file operation that spoils at most one drive.
<1>4. ASSUME faults' = faults + 1, UNCHANGED <<dir, rollup, restarts>>,
             UNCHANGED marred \/ \E r \in Route : marred' = marred \cup {r}
      PROVE  Index!Next
  BY <1>1, <1>2, <1>4 DEF Index!Mishap, Index!Next
<1>5. CASE Env
  <2>1. UNCHANGED <<Catalog, marred, restarts, faults>>
    BY <1>2, <1>5 DEF Env, Record, Write, Flush, Settle, Rotate, Toggle, EnvStep,
      disk, bounds, history
  <2>2. ASSUME NEW s \in Segment, Settle(s) PROVE Index!Finish(s)
    BY <2>1, <2>2 DEF Settle, SetDir, Life, Gone, Finalized, Index!Finish
  <2>3. ASSUME NEW s \in Segment, Rotate(s) PROVE Index!Lose(s)
    BY <2>1, <2>3 DEF Rotate, SetDir, Life, Gone, Finalized, Index!Lose
  <2>4. ASSUME NEW s \in Segment, Record(s) \/ Write(s) \/ Flush(s)
        PROVE  UNCHANGED Life
    BY <2>4 DEF Record, Write, Flush, SetDir, Life, Gone, Finalized
  <2>5. CASE Toggle
    BY <1>1, <2>1, <2>5 DEF Toggle
  <2> QED
    BY <1>5, <2>1, <2>2, <2>3, <2>4, <2>5 DEF Env, Index!Next
<1>6. CASE Watch
  <2>1. UNCHANGED <<dir, restarts, Life>>
    BY <1>1, <1>6 DEF Watch, WatcherStep, BootLoad, BootFail, BootPut, BootDone, Tick,
      CleanKeep, CleanDrop, Scan, ParseNone, ParseOpen, ParseDone, RollLoad, RollUnread,
      RollStore, RollStuck, RollFail, CleanForget, ForgetFail, HaveAdd, TickEnd, env
  <2>2. CASE RollStore /\ cur \in Route \ Deletable
    <3>1. UNCHANGED <<Life, marred, restarts, faults>>
      BY <2>1, <2>2 DEF RollStore, history
    <3>2. PICK S \in SUBSET Catalog :
             /\ Catalog' = (Catalog \ S) \cup add
             /\ \A s \in S : RouteOf[s] \in marred \/ (Gone(s) /\ add = {})
      BY <2>2, KeptStore
    <3>3. CASE add = {}
      <4>1. \A s \in Index!Sound(S) : Life[s] = "gone"
        BY <3>2 DEF Index!Sound, Life, Catalog
      <4>2. Index!GiveUp(S)
        BY <3>1, <3>2, <3>3, <4>1 DEF Index!GiveUp
      <4> QED
        BY <4>2 DEF Index!Next
    <3>4. CASE add # {}
      <4>1. PICK s \in Segment : add = {s}
        BY <3>4 DEF Locals
      <4>2. s \in Kept \cap (Segment \ Corrupt)
        BY <2>2, <4>1 DEF Kept, Of
      <4>3. Life[s] # "unfinished"
        BY <4>1, <4>2 DEF Backlog, Targets, Life
      <4>4. S \in SUBSET (Catalog \ Index!Sound(Catalog))
        BY <3>2, <3>4 DEF Index!Sound
      <4>5. Index!TakeIn(s)
        BY <3>1, <3>2, <4>1, <4>2, <4>3, <4>4 DEF Index!TakeIn
      <4> QED
        BY <4>2, <4>5 DEF Index!Next
    <3> QED
      BY <3>3, <3>4
  <2>3. CASE RollStore /\ cur \notin Route \ Deletable
    <3>1. loaded \cap Kept = {} /\ Of(rollup, cur) \cap Kept = {}
      BY <2>3 DEF Kept, Of
    <3> QED
      BY <2>1, <2>3, <3>1 DEF RollStore, Catalog, history
  <2>4. CASE RollFail
    BY <1>4, <2>1, <2>4 DEF RollFail, Abandon, Fault, disk, history
  <2>5. CASE RollUnread \/ RollStuck \/ ForgetFail
    <3>1. cur \in Route
      BY <2>5 DEF RollUnread, RollStuck, ForgetFail, Locals
    <3> QED
      BY <1>4, <2>1, <2>5, <3>1 DEF RollUnread, RollStuck, ForgetFail, Mar, Abandon,
        Fault, disk
  <2>6. ASSUME NEW r \in Route, BootFail(r) PROVE Index!Next
    <3>1. /\ faults' = faults + 1 /\ marred' = marred \cup {r}
          /\ rollup' \in {rollup, rollup \ Of(rollup, r)}
      BY <2>6 DEF BootFail, Mar, Fault
    <3>2. Catalog' \in {Catalog, {s \in Catalog : RouteOf[s] # r}}
      BY <3>1 DEF Catalog, Kept, Of
    <3> QED
      BY <2>1, <3>1, <3>2 DEF Index!Mishap, Index!Next
  <2>7. CASE \/ \E r \in Route : BootLoad(r) \/ CleanKeep(r) \/ CleanDrop(r)
             \/ BootPut \/ BootDone \/ Tick \/ Scan
             \/ \E s \in Segment : ParseNone(s) \/ ParseOpen(s)
             \/ ParseDone \/ RollLoad \/ CleanForget \/ HaveAdd \/ TickEnd
    BY <1>2, <2>1, <2>7 DEF BootLoad, BootPut, BootDone, Tick, CleanKeep, CleanDrop,
      Scan, ParseNone, ParseOpen, ParseDone, RollLoad, CleanForget, HaveAdd, TickEnd,
      Hold, disk, history
  <2> QED
    BY <1>6, <2>2, <2>3, <2>4, <2>5, <2>6, <2>7 DEF Watch
<1>7. CASE Delete
  <2>1. PICK h \in Handler : DeleteGo(h) \/ \E r \in Deletable : DelCheck(h, r)
    BY <1>7 DEF Delete
  <2>2. ASSUME NEW s \in Segment, DelTree(h, s)
        PROVE  Index!Next \/ UNCHANGED <<Life, Catalog, marred, restarts, faults>>
    <3>1. s \notin Kept
      BY <2>2 DEF DelTree, Targets, Kept, Of
    <3>2. UNCHANGED <<Catalog, marred, restarts, faults>>
      BY <1>2, <2>2 DEF DelTree, disk, bounds, history
    <3>3. Life' = [Life EXCEPT ![s] = "gone"]
      <4>1. dir' = [dir EXCEPT ![s] = "gone"]
        BY <2>2 DEF DelTree
      <4>2. ASSUME NEW t \in Segment
            PROVE  dir'[t] = IF t = s THEN "gone" ELSE dir[t]
        BY <4>1
      <4>3. Life' = [t \in Segment |-> IF t = s THEN "gone" ELSE Life[t]]
        BY <4>2 DEF Life, Gone, Finalized
      <4>4. [Life EXCEPT ![s] = "gone"] =
               [t \in Segment |-> IF t = s THEN "gone" ELSE Life[t]]
        BY DEF Life
      <4> QED
        BY <4>3, <4>4
    <3>4. CASE Life[s] = "gone"
      <4>1. [Life EXCEPT ![s] = "gone"] = Life
        BY <3>4 DEF Life
      <4> QED
        BY <3>2, <3>3, <4>1
    <3>5. CASE Life[s] # "gone"
      <4>1. Index!Lose(s)
        BY <3>1, <3>2, <3>3, <3>5 DEF Life, Index!Lose
      <4> QED
        BY <4>1 DEF Index!Next
    <3> QED
      BY <3>4, <3>5
  <2>3. CASE DelUnlink(h)
    <3>1. Of(rollup, droute[h]) \cap Kept = {}
      BY <2>3 DEF DelUnlink, Targets, Kept, Of
    <3> QED
      BY <1>1, <2>3, <3>1 DEF DelUnlink, DeleteStep, env, history, Catalog
  <2>4. CASE (\E r \in Deletable : DelCheck(h, r)) \/ DelThumbs(h) \/ DelPop(h)
    BY <1>1, <1>2, <2>4 DEF DelCheck, DelThumbs, DelPop, DeleteStep, env, disk, history
  <2>5. CASE (\E s \in Segment : DelTreeFail(h, s)) \/ DelThumbsFail(h)
    BY <1>4, <2>5 DEF DelTreeFail, DelThumbsFail, Fault, DeleteStep, env, disk, history
  <2>6. CASE DelUnlinkFail(h)
    <3>1. droute[h] \in Route
      BY <2>6 DEF DelUnlinkFail, Targets
    <3> QED
      BY <1>4, <2>6, <3>1 DEF DelUnlinkFail, Mar, Fault, DeleteStep, env, disk
  <2> QED
    BY <2>1, <2>2, <2>3, <2>4, <2>5, <2>6 DEF DeleteGo
<1>8. CASE \E upgrade \in BOOLEAN : Restart(upgrade)
  <2>1. UNCHANGED <<Life, faults>> /\ marred' = {} /\ restarts' = restarts + 1
    BY <1>1, <1>8 DEF Restart, env
  <2>2. rollup' \in {rollup, {}}
    BY <1>8 DEF Restart
  <2> QED
    BY <2>1, <2>2 DEF Catalog, Index!StartOver, Index!Next
<1> QED
  BY <1>3, <1>5, <1>6, <1>7, <1>8 DEF Next

\* For the drives nobody deletes, the index behaves as DrivesIndex promises,
\* whatever is deleted, fails or restarts beside it.
THEOREM IndexImplemented == Spec => ImplementsIndex
<1>1. Init => Targets
  BY DEF Init, Targets
<1>2. Init => Index!Init
  BY DEF Init, Index!Init, Life, Catalog, Gone, Finalized, Kept
<1> QED
  BY <1>1, <1>2, MirrorAlways, TargetsStep, IndexStep, PTL
  DEF Spec, ImplementsIndex, Index!Spec
=============================================================================
