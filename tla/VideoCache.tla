----------------------------- MODULE VideoCache -----------------------------
(***************************************************************************)
(* The video cache of sunnyconf: remux_mp4, prefetch_next, build_clip and  *)
(* _trim_cam_cache of src/daemon/drives.py and the handlers of             *)
(* src/daemon/server.py that serve what they return. One drive and one     *)
(* camera.                                                                 *)
(*                                                                         *)
(* Requests and prefetches run in threads of their own. Building is        *)
(* serialised by _remux_lock; the look-ups before it, the trim after it    *)
(* and the serving of a file are not. The files are kept as a sequence,    *)
(* the oldest first, which is the order of their mtimes. A file weighs as  *)
(* much as it has minutes.                                                 *)
(***************************************************************************)
EXTENDS Integers, FiniteSets, Sequences, SequencesExt

CONSTANTS
  N,            \* segments of the drive
  Recorded,     \* how many of them are there when the daemon starts
  Clip,         \* clips asked for: <<first, last>> minute of the timeline
  Handler,      \* HTTP threads
  Worker,       \* bound: prefetch threads alive at once
  Nobody,       \* holder of the lock when it is free
  Cap           \* cap_bytes of the trim, in minutes of video

ASSUME ThreadAssumption ==
  /\ IsFiniteSet(Handler \cup Worker) /\ Handler # {} /\ Worker # {}
  /\ Handler \cap Worker = {} /\ Nobody \notin Handler \cup Worker
ASSUME SizeAssumption ==
  /\ N \in Nat \ {0} /\ Recorded \in 0..N /\ Cap \in Nat
  /\ \A c \in Clip : c[1] \in Nat \ {0} /\ c[2] \in Nat /\ c[1] <= c[2]

VARIABLES
  video,        \* the camera file of each segment: none, recording, done, gone
  files,        \* cam_cache/*.mp4, oldest first
  lock,         \* _remux_lock
  pc,           \* where each thread is
  name,         \* the file it is after
  plan,         \* the segments that file is to hold
  made,         \* what it has muxed so far
  snap,         \* the files its trim has yet to look at, oldest first
  total,        \* the total its trim has worked out
  \* history, which no action reads
  goal,         \* all the segments that a thread's file stood for when it was
                \* planned; the files keep theirs
  owed,         \* files in the cache whose own trim was given up or thrown
                \* out of count
  fresh         \* files in the cache stored since a trim listed it, by trim

work == <<plan, made, goal>>
trim == <<snap, total>>
history == <<owed, fresh>>
vars == <<video, files, lock, pc, name, work, trim, history>>

Thread == Handler \cup Worker
Segment == 1..N
OfSegment(s) == [clip |-> FALSE, from |-> s, to |-> s]
OfClip(c) == [clip |-> TRUE, from |-> c[1], to |-> c[2]]
Name == {OfSegment(s) : s \in Segment} \cup {OfClip(c) : c \in Clip}
NoName == OfSegment(0)
Asked == Name \cup {OfSegment(N + 1)}

Here == {s \in Segment : video[s] \in {"recording", "done"}}
Names(fs) == {fs[i].name : i \in 1..Len(fs)}
Cached(n) == n \in Names(files)
Without(fs, n) ==
  IF n \in Names(fs) THEN RemoveAt(fs, CHOOSE i \in 1..Len(fs) : fs[i].name = n) ELSE fs

\* The minutes of video that the files named in S hold, and how many they are.
Stored(fs, S) ==
  UNION {{fs[i].name} \X (1..Len(fs[i].muxed)) : i \in {k \in 1..Len(fs) : fs[k].name \in S}}
Weight(fs, S) == Cardinality(Stored(fs, S))

\* The j-th of a set of numbers.
Nth(S, j) == CHOOSE i \in S : Cardinality({k \in S : k <= i}) = j

Init ==
  /\ video = [s \in Segment |-> IF s <= Recorded THEN "done" ELSE "none"]
  /\ files = <<>> /\ lock = Nobody
  /\ pc = [t \in Thread |-> "idle"] /\ name = [t \in Thread |-> NoName]
  /\ plan = [t \in Thread |-> <<>>] /\ made = [t \in Thread |-> <<>>]
  /\ goal = [t \in Thread |-> <<>>]
  /\ snap = [t \in Thread |-> <<>>] /\ total = [t \in Thread |-> 0]
  /\ owed = {} /\ fresh = [t \in Thread |-> {}]

Goto(t, l) == pc' = [pc EXCEPT ![t] = l]

\* Thread t is through: it forgets what it was after.
Quit(t) ==
  /\ Goto(t, "idle")
  /\ name' = [name EXCEPT ![t] = NoName]
  /\ plan' = [plan EXCEPT ![t] = <<>>] /\ made' = [made EXCEPT ![t] = <<>>]
  /\ goal' = [goal EXCEPT ![t] = <<>>]
  /\ snap' = [snap EXCEPT ![t] = <<>>] /\ total' = [total EXCEPT ![t] = 0]

\* The loop of a trim goes on.
Over(t) == snap[t] # <<>> /\ total[t] > Cap

-----------------------------------------------------------------------------
(* remux_mp4 and build_clip: look the file up, or build it.                 *)

\* The timeline of the drive: its segments in order, one a minute, over the gaps
\* where a segment was never recorded or has gone.
Timeline == [i \in 1..Cardinality(Here) |-> Nth(Here, i)]

\* The segments file n is made of: its own, or those at its minutes of the
\* timeline, the ones past the end left out.
Sources(n) ==
  IF n.clip
  THEN SubSeq(Timeline, n.from, IF n.to < Len(Timeline) THEN n.to ELSE Len(Timeline))
  ELSE IF n.from \in Here THEN <<n.from>> ELSE <<>>

\* GET /drives/<route>/video, GET or POST /drives/<route>/clip, or a prefetch
\* that gets to run.
Wanted(t, n) == \/ t \in Handler /\ pc[t] = "idle"
                \/ pc[t] = "start" /\ n = name[t]

\* There is no such segment, or the clip starts past the end: 404.
NoSource(t, n) ==
  /\ Wanted(t, n) /\ Sources(n) = <<>>
  /\ Quit(t)
  /\ UNCHANGED <<video, files, lock, history>>

Plan(t, n) ==
  /\ Wanted(t, n) /\ Sources(n) # <<>>
  /\ name' = [name EXCEPT ![t] = n]
  /\ plan' = [plan EXCEPT ![t] = Sources(n)]
  /\ goal' = [goal EXCEPT ![t] = Sources(n)]
  /\ Goto(t, "find")
  /\ UNCHANGED <<video, files, lock, made, trim, history>>

\* The first look, without the lock.
Find(t) ==
  /\ pc[t] = "find"
  /\ Goto(t, IF Cached(name[t]) THEN "serve" ELSE "lock")
  /\ UNCHANGED <<video, files, lock, name, work, trim, history>>

\* A clip is removed between exists() and stat(): the request ends there, 500.
LookRaises(t) ==
  /\ \/ pc[t] = "find"
     \/ pc[t] = "lock" /\ lock = Nobody
  /\ name[t].clip /\ Cached(name[t])
  /\ \E u \in Thread : pc[u] = "pop" /\ Over(u) /\ Head(snap[u]) = name[t]
  /\ Quit(t)
  /\ UNCHANGED <<video, files, lock, history>>

\* Mutant of Lock: no second look once the lock is held.
LockBlind(t) ==
  /\ pc[t] = "lock" /\ lock = Nobody
  /\ lock' = t /\ Goto(t, "mux")
  /\ UNCHANGED <<video, files, name, work, trim, history>>

\* The lock is taken and the cache looked at again; it is kept to build.
Lock(t) ==
  /\ pc[t] = "lock" /\ lock = Nobody
  /\ \/ Cached(name[t]) /\ Goto(t, "serve") /\ UNCHANGED lock
     \/ ~Cached(name[t]) /\ Goto(t, "mux") /\ lock' = t
  /\ UNCHANGED <<video, files, name, work, trim, history>>

\* Mutant of Mux: a segment that is gone by now is left out.
MuxSkipping(t) ==
  /\ pc[t] = "mux" /\ plan[t] # <<>>
  /\ LET s == Head(plan[t])
     IN  made' = [made EXCEPT ![t] =
                    IF s \in Here THEN Append(@, [seg |-> s, whole |-> video[s] = "done"])
                    ELSE @]
  /\ plan' = [plan EXCEPT ![t] = Tail(@)]
  /\ UNCHANGED <<video, files, lock, pc, name, goal, trim, history>>

\* The next segment is copied, up to where its recorder has got.
Mux(t) ==
  /\ pc[t] = "mux" /\ plan[t] # <<>>
  /\ LET s == Head(plan[t])
     IN  /\ s \in Here
         /\ made' = [made EXCEPT ![t] =
                       Append(@, [seg |-> s, whole |-> video[s] = "done"])]
  /\ plan' = [plan EXCEPT ![t] = Tail(@)]
  /\ UNCHANGED <<video, files, lock, pc, name, goal, trim, history>>

\* Mutant of MuxFails: the lock is not let go on the way out.
MuxFailsHolding(t) ==
  /\ pc[t] = "mux"
  /\ Quit(t)
  /\ UNCHANGED <<video, files, lock, history>>

\* Any exception: a segment is gone, has no frame yet or is damaged, the disk
\* is full. A .tmp may stay behind, which nothing looks at; the answer is 404.
MuxFails(t) ==
  /\ pc[t] = "mux"
  /\ lock' = Nobody
  /\ Quit(t)
  /\ UNCHANGED <<video, files, history>>

\* The file takes its name, and the lock is let go.
Store(t) ==
  /\ pc[t] = "mux" /\ plan[t] = <<>>
  /\ files' = Append(Without(files, name[t]),
                     [name |-> name[t], muxed |-> made[t], goal |-> goal[t]])
  /\ made' = [made EXCEPT ![t] = <<>>] /\ goal' = [goal EXCEPT ![t] = <<>>]
  /\ lock' = Nobody
  /\ owed' = owed \ {name[t]}
  /\ fresh' = [u \in Thread |-> fresh[u] \cup ({name[t]} \cap ToSet(snap[u]))]
  /\ Goto(t, "list")
  /\ UNCHANGED <<video, name, plan, trim>>

-----------------------------------------------------------------------------
(* _trim_cam_cache                                                          *)

\* The directory is listed ...
TrimList(t) ==
  /\ pc[t] = "list"
  /\ snap' = [snap EXCEPT ![t] = [i \in 1..Len(files) |-> files[i].name]]
  /\ Goto(t, "stat")
  /\ UNCHANGED <<video, files, lock, name, work, total, history>>

\* The files of the list by age.
Listed(t) ==
  LET at == {i \in 1..Len(files) : files[i].name \in ToSet(snap[t])}
  IN  [j \in 1..Cardinality(at) |-> files[Nth(at, j)].name]

\* Mutant of TrimStat: the newest file comes first.
TrimStatNewest(t) ==
  /\ pc[t] = "stat" /\ ToSet(snap[t]) \subseteq Names(files)
  /\ snap' = [snap EXCEPT ![t] = Reverse(Listed(t))]
  /\ total' = [total EXCEPT ![t] = Weight(files, ToSet(snap[t]))]
  /\ Goto(t, "pop")
  /\ UNCHANGED <<video, files, lock, name, work, history>>

\* ... sorted by age, and its sizes are summed.
TrimStat(t) ==
  /\ pc[t] = "stat" /\ ToSet(snap[t]) \subseteq Names(files)
  /\ snap' = [snap EXCEPT ![t] = Listed(t)]
  /\ total' = [total EXCEPT ![t] = Weight(files, ToSet(snap[t]))]
  /\ Goto(t, "pop")
  /\ UNCHANGED <<video, files, lock, name, work, history>>

\* What trim t took away is forgotten. If that was built again since t listed it,
\* t has subtracted a size it never added, and its own file is owed from then on.
Forget(t, n) ==
  /\ owed' = (owed \cup {m \in Names(files) : m = name[t] /\ n \in fresh[t]}) \ {n}
  /\ fresh' = [fresh EXCEPT ![t] = @ \ {n}]

\* Mutant of TrimPop: one file is removed, and the trim is over.
TrimPopOnce(t) ==
  /\ pc[t] = "pop" /\ Over(t) /\ Cached(Head(snap[t]))
  /\ files' = Without(files, Head(snap[t]))
  /\ snap' = [snap EXCEPT ![t] = <<>>]
  /\ total' = [total EXCEPT ![t] = @ - Weight(files, {Head(snap[t])})]
  /\ Forget(t, Head(snap[t]))
  /\ UNCHANGED <<video, lock, pc, name, work>>

\* While the total is above the cap, the next file is taken off and removed.
TrimPop(t) ==
  /\ pc[t] = "pop" /\ Over(t) /\ Cached(Head(snap[t]))
  /\ files' = Without(files, Head(snap[t]))
  /\ snap' = [snap EXCEPT ![t] = Tail(@)]
  /\ total' = [total EXCEPT ![t] = @ - Weight(files, {Head(snap[t])})]
  /\ Forget(t, Head(snap[t]))
  /\ UNCHANGED <<video, lock, pc, name, work>>

TrimOver(t) ==
  /\ snap' = [snap EXCEPT ![t] = <<>>] /\ total' = [total EXCEPT ![t] = 0]
  /\ fresh' = [fresh EXCEPT ![t] = {}]
  /\ Goto(t, "serve")

\* A file of the list is missing, removed by another trim: stat raises and
\* this trim is given up.
TrimGivesUp(t) ==
  /\ \/ pc[t] = "stat" /\ ~(ToSet(snap[t]) \subseteq Names(files))
     \/ pc[t] = "pop" /\ Over(t) /\ ~Cached(Head(snap[t]))
  /\ TrimOver(t)
  /\ owed' = owed \cup ({name[t]} \cap Names(files))
  /\ UNCHANGED <<video, files, lock, name, work>>

TrimDone(t) ==
  /\ pc[t] = "pop" /\ ~Over(t)
  /\ TrimOver(t)
  /\ UNCHANGED <<video, files, lock, name, work, owed>>

-----------------------------------------------------------------------------
(* What is done with the path remux_mp4 or build_clip returned.             *)

\* A prefetch drops it.
Warmed(w) ==
  /\ w \in Worker /\ pc[w] = "serve"
  /\ Quit(w)
  /\ UNCHANGED <<video, files, lock, history>>

\* A request for a segment starts a prefetch of the next one, whether there
\* is one or not.
Prefetch(h, w) ==
  /\ h \in Handler /\ pc[h] = "serve" /\ ~name[h].clip
  /\ w \in Worker /\ pc[w] = "idle"
  /\ pc' = [pc EXCEPT ![h] = "answer", ![w] = "start"]
  /\ name' = [name EXCEPT ![w] = OfSegment(name[h].from + 1)]
  /\ UNCHANGED <<video, files, lock, work, trim, history>>

\* The answer: the size of the file, and the file unless POST /clip asked. A
\* trim may have removed it before its size is taken (404, or 500) or before
\* it is opened (the answer ends after its headers). All of it only reads.
Answer(h) ==
  /\ h \in Handler
  /\ pc[h] = (IF name[h].clip THEN "serve" ELSE "answer")
  /\ Quit(h)
  /\ UNCHANGED <<video, files, lock, history>>

-----------------------------------------------------------------------------
(* The recorder and the deleter, which are not part of the daemon, and the  *)
(* manager, which restarts it.                                              *)

\* The recorder goes on to the next segment or to a later one: "routes can start
\* at --26 or have gaps" (drives.py:790-791).
Record(s) ==
  /\ \A r \in Segment : video[r] # "recording" /\ (r >= s => video[r] = "none")
  /\ video' = [video EXCEPT ![s] = "recording"]
  /\ UNCHANGED <<files, lock, pc, name, work, trim, history>>

Close(s) ==
  /\ video[s] = "recording"
  /\ video' = [video EXCEPT ![s] = "done"]
  /\ UNCHANGED <<files, lock, pc, name, work, trim, history>>

\* A segment goes, rotated away or deleted. They may go in any order: the deleter
\* of the disk passes over what is to be kept, and delete_route takes the
\* directories as strings sort and leaves those it cannot remove
\* (drives.py:521-531).
Lose(s) ==
  /\ video[s] = "done"
  /\ video' = [video EXCEPT ![s] = "gone"]
  /\ UNCHANGED <<files, lock, pc, name, work, trim, history>>

Trimming == {t \in Thread : pc[t] \in {"list", "stat", "pop"}}

\* The cache outlives the daemon; a trim that was due or under way does not.
Restart ==
  /\ owed' = owed \cup ({name[t] : t \in Trimming} \cap Names(files))
  /\ fresh' = [t \in Thread |-> {}]
  /\ lock' = Nobody
  /\ pc' = [t \in Thread |-> "idle"] /\ name' = [t \in Thread |-> NoName]
  /\ plan' = [t \in Thread |-> <<>>] /\ made' = [t \in Thread |-> <<>>]
  /\ goal' = [t \in Thread |-> <<>>]
  /\ snap' = [t \in Thread |-> <<>>] /\ total' = [t \in Thread |-> 0]
  /\ UNCHANGED <<video, files>>

-----------------------------------------------------------------------------
Build(t) == Find(t) \/ LookRaises(t) \/ Lock(t) \/ Mux(t) \/ MuxFails(t) \/ Store(t)
Trim(t) == TrimList(t) \/ TrimStat(t) \/ TrimPop(t) \/ TrimGivesUp(t) \/ TrimDone(t)
Serve(h) == (\E w \in Worker : Prefetch(h, w)) \/ Answer(h)

Next ==
  \/ \E t \in Thread, n \in Asked : NoSource(t, n) \/ Plan(t, n)
  \/ \E t \in Thread : Build(t) \/ Trim(t)
  \/ \E h \in Handler : Serve(h)
  \/ \E w \in Worker : Warmed(w)
  \/ \E s \in Segment : Record(s) \/ Close(s) \/ Lose(s)
  \/ Restart

Spec == Init /\ [][Next]_vars

-----------------------------------------------------------------------------
(* Properties                                                               *)

Location == {"idle", "start", "find", "lock", "mux", "list", "stat", "pop",
             "serve", "answer"}
Copy == [seg : Segment, whole : BOOLEAN]

\* Type invariant: the files are well formed, no name is there twice, and the
\* lock is held exactly while a thread muxes.
TypeOK ==
  /\ video \in [Segment -> {"none", "recording", "done", "gone"}]
  /\ \A i \in 1..Len(files) :
       files[i].name \in Name /\ files[i].muxed \in Seq(Copy) /\ files[i].goal \in Seq(Segment)
  /\ Cardinality(Names(files)) = Len(files)
  /\ lock \in Thread \cup {Nobody}
  /\ pc \in [Thread -> Location]
  /\ \A t \in Thread : pc[t] = "mux" <=> lock = t
  /\ name \in [Thread -> Asked \cup {NoName}]
  /\ \A t \in Thread : {plan[t], goal[t]} \subseteq Seq(Segment) /\ made[t] \in Seq(Copy)
  /\ \A t \in Thread : snap[t] \in Seq(Name) /\ total[t] \in Int
  /\ owed \subseteq Name /\ fresh \in [Thread -> SUBSET Name]

\* No file is built again while it is there: two requests that both missed it,
\* or a request and the prefetch of the same segment, cost one remux
\* (drives.py:689-693, 801-807).
BuildsMissing == lock # Nobody => ~Cached(name[lock])

Minutes(f) == [i \in 1..Len(f.muxed) |-> f.muxed[i].seg]

\* A file is all of what it stood for when its thread planned it, or it is not
\* in the cache: a segment that is deleted while a clip over it is being cut
\* leaves no clip without it, at either end or in between (drives.py:840-909).
\* Its segments are in order, and what there still is of the drive between its
\* first and its last is in it, however many gaps it spans and whatever was
\* recorded or deleted meanwhile.
AllOrNothing ==
  \A i \in 1..Len(files) :
    LET f == files[i]
        m == Minutes(f)
    IN  /\ m = f.goal /\ m # <<>>
        /\ \A j, k \in 1..Len(m) : j < k => m[j] < m[k]
        /\ {s \in Here : m[1] <= s /\ s <= m[Len(m)]} \subseteq ToSet(m)
        /\ ~f.name.clip => m = <<f.name.from>>

\* At any time, what the cache holds above its cap are files whose own trim is
\* still to come or under way, or was given up because another trim or a restart
\* was in its way, or thrown out of count by a file built again under it
\* (drives.py:625-636): trims that disturb each other leave a file too many each,
\* and whatever they leave the next undisturbed trim takes away.
CapHolds ==
  Weight(files, Names(files) \ (owed \cup {name[t] : t \in Trimming})) <= Cap

\* A trim takes the oldest file there is, but for a file that another trim
\* removed and a request built again since this trim listed the cache: that one
\* goes although it is the newest (drives.py:628-634).
TrimOldest ==
  [][\A n \in Names(files) \ Names(files') :
       \/ n = files[1].name
       \/ \E t \in Thread : snap[t] # <<>> /\ n = Head(snap[t]) /\ n \in fresh[t]]_vars

\* remux_mp4 makes "ONE HD segment -> faststart MP4" (drives.py:681): what is
\* cached for a segment that is no longer recorded is the whole of it.
CachedWhole ==
  \A i \in 1..Len(files) : \A j \in 1..Len(files[i].muxed) :
    LET m == files[i].muxed[j] IN m.whole \/ video[m.seg] = "recording"
=============================================================================
