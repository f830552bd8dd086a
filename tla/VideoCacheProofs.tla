--------------------------- MODULE VideoCacheProofs ---------------------------
(***************************************************************************)
(* Theorems about VideoCache, for any drive, clips, threads and cap.       *)
(***************************************************************************)
EXTENDS VideoCache, SequenceTheorems, FiniteSetTheorems, TLAPS

\* No name is there twice.
Distinct(fs) == \A i, j \in 1..Len(fs) : fs[i].name = fs[j].name => i = j

\* A file is removed: the others keep their order.
LEMMA WithoutPlaces ==
  ASSUME NEW S, NEW fs \in Seq(S), NEW n
  PROVE  /\ Without(fs, n) \in Seq(S)
         /\ \E g \in [1..Len(Without(fs, n)) -> 1..Len(fs)] :
              /\ \A j \in 1..Len(Without(fs, n)) : Without(fs, n)[j] = fs[g[j]]
              /\ \A j, l \in 1..Len(Without(fs, n)) : j < l => g[j] < g[l]
              /\ \A i \in 1..Len(fs) : fs[i].name # n => \E j \in 1..Len(Without(fs, n)) : g[j] = i
              /\ Distinct(fs) => \A j \in 1..Len(Without(fs, n)) : Without(fs, n)[j].name # n
<1> DEFINE w == Without(fs, n)
<1>0. Len(fs) \in Nat
  BY LenProperties
<1>1. CASE n \notin Names(fs)
  <2>1. w = fs
    BY <1>1 DEF Without
  <2> DEFINE g == [j \in 1..Len(fs) |-> j]
  <2>2. g \in [1..Len(w) -> 1..Len(fs)] /\ \A j \in 1..Len(w) : w[j] = fs[g[j]]
    BY <2>1
  <2>3. \A j, l \in 1..Len(w) : j < l => g[j] < g[l]
    BY <2>1
  <2>4. \A j \in 1..Len(w) : w[j].name # n
    BY <1>1, <2>1 DEF Names
  <2>5. \A i \in 1..Len(fs) : \E j \in 1..Len(w) : g[j] = i
    BY <2>1
  <2> QED
    BY <2>1, <2>2, <2>3, <2>4, <2>5
<1>2. CASE n \in Names(fs)
  <2>1. PICK i \in 1..Len(fs) : w = RemoveAt(fs, i) /\ fs[i].name = n
    BY <1>2 DEF Names, Without
  <2> DEFINE a == SubSeq(fs, 1, i - 1)
             b == SubSeq(fs, i + 1, Len(fs))
  <2>2. i \in 1..Len(fs)
    OBVIOUS
  <2>3. /\ a \in Seq(S) /\ Len(a) = i - 1
        /\ \A j \in 1..Len(a) : a[j] = fs[j]
    BY <1>0, <2>2
  <2>4. /\ b \in Seq(S) /\ Len(b) = Len(fs) - i
        /\ \A j \in 1..Len(b) : b[j] = fs[i + j]
    BY <1>0, <2>2
  <2>5. w = a \o b
    BY <2>1 DEF RemoveAt
  <2> HIDE DEF a, b, w
  <2>6. /\ w \in Seq(S) /\ Len(w) = Len(fs) - 1
        /\ \A j \in 1..(Len(a) + Len(b)) : w[j] = IF j <= Len(a) THEN a[j] ELSE b[j - Len(a)]
    <3>1. /\ w \in Seq(S) /\ Len(w) = Len(a) + Len(b)
          /\ \A j \in 1..(Len(a) + Len(b)) : w[j] = IF j <= Len(a) THEN a[j] ELSE b[j - Len(a)]
      BY <2>3, <2>4, <2>5, ConcatProperties
    <3>2. Len(w) = Len(fs) - 1
      BY <1>0, <2>2, <2>3, <2>4, <3>1
    <3> QED
      BY <3>1, <3>2
  <2> DEFINE g == [j \in 1..Len(w) |-> IF j < i THEN j ELSE j + 1]
  <2>7. g \in [1..Len(w) -> 1..Len(fs)] /\ \A j, l \in 1..Len(w) : j < l => g[j] < g[l]
    BY <1>0, <2>2, <2>6
  <2>8. ASSUME NEW j \in 1..Len(w)
        PROVE  w[j] = fs[g[j]] /\ g[j] # i
    <3>1. CASE j < i
      <4>1. j \in 1..Len(a) /\ j \in 1..(Len(a) + Len(b)) /\ j <= Len(a)
        BY <1>0, <2>2, <2>3, <2>4, <2>6, <3>1
      <4>2. w[j] = a[j]
        BY <2>6, <4>1
      <4> QED
        BY <2>3, <3>1, <4>1, <4>2
    <3>2. CASE ~(j < i)
      <4>1. /\ j - (i - 1) \in 1..Len(b) /\ i + (j - (i - 1)) = j + 1
            /\ j \in 1..(Len(a) + Len(b)) /\ ~(j <= Len(a)) /\ Len(a) = i - 1
        BY <1>0, <2>2, <2>3, <2>4, <2>6, <3>2
      <4>2. w[j] = b[j - (i - 1)]
        BY <2>6, <4>1
      <4>3. w[j] = fs[j + 1]
        BY <2>4, <4>1, <4>2
      <4> QED
        BY <2>2, <3>2, <4>3
    <3> QED
      BY <3>1, <3>2
  <2>9. ASSUME Distinct(fs), NEW j \in 1..Len(w)
        PROVE  w[j].name # n
    <3>1. g[j] \in 1..Len(fs)
      BY <2>7
    <3> QED
      BY <2>1, <2>2, <2>8, <2>9, <3>1 DEF Distinct
  <2>10. ASSUME NEW k \in 1..Len(fs), fs[k].name # n
         PROVE  \E j \in 1..Len(w) : g[j] = k
    <3>1. k # i
      BY <2>1, <2>10
    <3>2. CASE k < i
      <4>1. k \in 1..Len(w) /\ g[k] = k
        BY <1>0, <2>2, <2>6, <3>2
      <4> QED
        BY <4>1
    <3>3. CASE k > i
      <4>1. k - 1 \in 1..Len(w) /\ g[k - 1] = k
        BY <1>0, <2>2, <2>6, <3>3
      <4> QED
        BY <4>1
    <3> QED
      BY <1>0, <2>2, <3>1, <3>2, <3>3
  <2> HIDE DEF g
  <2> QED
    BY <2>6, <2>7, <2>8, <2>9, <2>10 DEF w
<1> QED
  BY <1>1, <1>2

\* It is the only one that may be missed.
LEMMA WithoutNames ==
  ASSUME NEW S, NEW fs \in Seq(S), NEW n
  PROVE  Without(fs, n) \in Seq(S) /\ Names(Without(fs, n)) \subseteq Names(fs)
<1> DEFINE w == Without(fs, n)
<1>1. PICK g \in [1..Len(w) -> 1..Len(fs)] : \A j \in 1..Len(w) : w[j] = fs[g[j]]
  BY WithoutPlaces
<1>2. w \in Seq(S)
  BY WithoutPlaces
<1> HIDE DEF w
<1>3. Names(w) \subseteq Names(fs)
  BY <1>1 DEF Names
<1> QED
  BY <1>2, <1>3 DEF w

-----------------------------------------------------------------------------
(* The lock.                                                                *)

\* The lock is held by the thread that muxes.
Held ==
  /\ lock \in Thread \cup {Nobody}
  /\ pc \in [Thread -> Location] /\ name = [t \in Thread |-> name[t]]
  /\ \A t \in Thread : pc[t] = "mux" <=> lock = t
  /\ \E S : files \in Seq(S)

LockInv == Held /\ BuildsMissing

LEMMA LockInit == Init => LockInv
<1> SUFFICES ASSUME Init PROVE LockInv
  OBVIOUS
<1>1. Nobody \notin Thread
  BY ThreadAssumption DEF Thread
<1>2. pc \in [Thread -> Location] /\ \A t \in Thread : pc[t] # "mux"
  BY DEF Init, Location
<1>3. files \in Seq({})
  BY DEF Init
<1>4. lock = Nobody /\ name = [t \in Thread |-> name[t]]
  BY DEF Init
<1> QED
  BY <1>1, <1>2, <1>3, <1>4 DEF LockInv, Held, BuildsMissing

\* A step of thread t, which holds the lock before and after it or neither.
LEMMA Keeps ==
  ASSUME LockInv, NEW t \in Thread, NEW l \in Location, NEW n,
         pc' = [pc EXCEPT ![t] = l], name' = [name EXCEPT ![t] = n], lock' = lock,
         pc[t] = "mux" <=> l = "mux", pc[t] = "mux" => n = name[t],
         files' = files \/ (\E m : files' = Without(files, m))
  PROVE  LockInv'
<1>1. pc \in [Thread -> Location] /\ name = [u \in Thread |-> name[u]]
  BY DEF LockInv, Held
<1>2. /\ pc'[t] = l /\ name'[t] = n /\ pc' \in [Thread -> Location] /\ name' = [u \in Thread |-> name'[u]]
      /\ \A u \in Thread \ {t} : pc'[u] = pc[u] /\ name'[u] = name[u]
  BY <1>1
<1>3. PICK S : files \in Seq(S)
  BY DEF LockInv, Held
<1>4. files' \in Seq(S) /\ Names(files') \subseteq Names(files)
  BY <1>3, WithoutNames
<1>5. \A u \in Thread : pc'[u] = "mux" <=> lock' = u
  BY <1>2 DEF LockInv, Held
<1>6. BuildsMissing'
  <2> SUFFICES ASSUME lock # Nobody PROVE name'[lock] \notin Names(files')
    BY DEF BuildsMissing, Cached
  <2>1. lock \in Thread /\ pc[lock] = "mux" /\ name[lock] \notin Names(files)
    BY DEF LockInv, Held, BuildsMissing, Cached
  <2>2. name'[lock] = name[lock]
    BY <1>2, <2>1
  <2> QED
    BY <1>4, <2>1, <2>2
<1> QED
  BY <1>2, <1>4, <1>5, <1>6 DEF LockInv, Held

\* A step of thread t that lets go of the lock, or finds it free and takes it.
LEMMA Passes ==
  ASSUME LockInv, NEW t \in Thread, NEW l \in Location, NEW n,
         pc' = [pc EXCEPT ![t] = l], name' = [name EXCEPT ![t] = n],
         lock \in {t, Nobody}, \E S : files' \in Seq(S),
         \/ l # "mux" /\ lock' = Nobody
         \/ l = "mux" /\ lock' = t /\ n \notin Names(files')
  PROVE  LockInv'
<1>1. pc \in [Thread -> Location] /\ name = [u \in Thread |-> name[u]] /\ Nobody \notin Thread
  BY ThreadAssumption DEF LockInv, Held, Thread
<1>2. /\ pc'[t] = l /\ name'[t] = n /\ pc' \in [Thread -> Location] /\ name' = [u \in Thread |-> name'[u]]
      /\ \A u \in Thread \ {t} : pc'[u] = pc[u]
  BY <1>1
<1>3. \A u \in Thread \ {t} : pc[u] # "mux"
  BY <1>1 DEF LockInv, Held
<1>4. \A u \in Thread : pc'[u] = "mux" <=> lock' = u
  BY <1>1, <1>2, <1>3
<1>5. BuildsMissing'
  BY <1>2 DEF BuildsMissing, Cached
<1> QED
  BY <1>2, <1>4, <1>5 DEF LockInv, Held

LEMMA LockStep == ASSUME LockInv, [Next]_vars PROVE LockInv'
<1> USE DEF Goto
<1>1. \A t \in Thread : pc[t] = "mux" <=> lock = t
  BY DEF LockInv, Held
<1>2. /\ lock \in Thread \cup {Nobody} /\ pc \in [Thread -> Location] /\ name = [t \in Thread |-> name[t]]
      /\ Nobody \notin Thread
  BY ThreadAssumption DEF LockInv, Held, Thread
<1>3. {"idle", "start", "find", "lock", "mux", "list", "stat", "pop", "serve", "answer"} \subseteq Location
  BY DEF Location
<1>4. \A t \in Thread : name = [name EXCEPT ![t] = name[t]] /\ pc = [pc EXCEPT ![t] = pc[t]]
  BY <1>2
<1>5. ASSUME NEW t \in Thread, Quit(t), lock' = lock, files' = files, pc[t] # "mux"
      PROVE  LockInv'
  BY <1>3, <1>5, Keeps DEF Quit
<1>6. ASSUME NEW t \in Thread, NEW l \in Location, pc' = [pc EXCEPT ![t] = l], name' = name, lock' = lock,
             files' = files, pc[t] # "mux", l # "mux"
      PROVE  LockInv'
  BY <1>4, <1>6, Keeps
<1>7. ASSUME NEW t \in Thread, NEW n, NoSource(t, n) \/ Plan(t, n)
      PROVE  LockInv'
  <2>1. pc[t] # "mux"
    BY <1>7 DEF NoSource, Plan, Wanted
  <2>2. CASE NoSource(t, n)
    BY <1>5, <2>1, <2>2 DEF NoSource
  <2>3. CASE Plan(t, n)
    BY <1>3, <2>1, <2>3, Keeps DEF Plan
  <2> QED
    BY <1>7, <2>2, <2>3
<1>8. ASSUME NEW t \in Thread, Build(t)
      PROVE  LockInv'
  <2>1. CASE Find(t)
    BY <1>3, <1>6, <2>1 DEF Find
  <2>2. CASE LookRaises(t)
    BY <1>5, <2>2 DEF LookRaises
  <2>3. CASE Lock(t) /\ Cached(name[t])
    BY <1>3, <1>6, <2>3 DEF Lock
  <2>4. CASE Lock(t) /\ ~Cached(name[t])
    <3>1. /\ lock = Nobody /\ lock' = t /\ pc' = [pc EXCEPT ![t] = "mux"] /\ files' = files
          /\ name' = [name EXCEPT ![t] = name[t]] /\ name[t] \notin Names(files')
      BY <1>4, <2>4 DEF Lock, Cached
    <3>2. \E S : files' \in Seq(S)
      BY <3>1 DEF LockInv, Held
    <3> QED
      BY <1>3, <3>1, <3>2, Passes
  <2>5. CASE Mux(t)
    <3>1. /\ pc' = [pc EXCEPT ![t] = pc[t]] /\ name' = [name EXCEPT ![t] = name[t]] /\ lock' = lock
          /\ files' = files /\ pc[t] \in Location
      BY <1>2, <1>4, <2>5 DEF Mux
    <3> QED
      BY <3>1, Keeps
  <2>6. CASE MuxFails(t)
    <3>1. lock = t /\ lock' = Nobody /\ files' = files
      BY <1>1, <2>6 DEF MuxFails
    <3>2. pc' = [pc EXCEPT ![t] = "idle"] /\ name' = [name EXCEPT ![t] = NoName]
      BY <2>6 DEF MuxFails, Quit
    <3>3. \E S : files' \in Seq(S)
      BY <3>1 DEF LockInv, Held
    <3> QED
      BY <1>3, <3>1, <3>2, <3>3, Passes
  <2>7. CASE Store(t)
    <3>1. /\ lock = t /\ lock' = Nobody /\ pc' = [pc EXCEPT ![t] = "list"]
          /\ name' = [name EXCEPT ![t] = name[t]]
      BY <1>1, <1>4, <2>7 DEF Store
    <3>2. \E S : files' \in Seq(S)
      <4>1. PICK S : files \in Seq(S)
        BY DEF LockInv, Held
      <4> DEFINE x == [name |-> name[t], muxed |-> made[t], goal |-> goal[t]]
      <4>2. files' = Append(Without(files, name[t]), x)
        BY <2>7 DEF Store
      <4>3. Without(files, name[t]) \in Seq(S \cup {x}) /\ x \in S \cup {x}
        BY <4>1, WithoutNames, SeqMonotonic
      <4> HIDE DEF x
      <4>4. files' \in Seq(S \cup {x})
        BY <4>2, <4>3, AppendProperties
      <4> QED
        BY <4>4
    <3> QED
      BY <1>3, <3>1, <3>2, Passes
  <2> QED
    BY <1>8, <2>1, <2>2, <2>3, <2>4, <2>5, <2>6, <2>7 DEF Build
<1>9. ASSUME NEW t \in Thread, Trim(t)
      PROVE  LockInv'
  <2>1. CASE TrimList(t) \/ TrimStat(t) \/ TrimGivesUp(t) \/ TrimDone(t)
    BY <1>3, <1>6, <2>1 DEF TrimList, TrimStat, TrimGivesUp, TrimDone, TrimOver
  <2>2. CASE TrimPop(t)
    <3>1. /\ pc' = [pc EXCEPT ![t] = "pop"] /\ name' = [name EXCEPT ![t] = name[t]] /\ lock' = lock
          /\ files' = Without(files, Head(snap[t])) /\ pc[t] = "pop"
      BY <1>4, <2>2 DEF TrimPop
    <3> QED
      BY <1>3, <3>1, Keeps
  <2> QED
    BY <1>9, <2>1, <2>2 DEF Trim
<1>10. ASSUME NEW h \in Handler, Serve(h)
       PROVE  LockInv'
  <2>1. h \in Thread
    BY DEF Thread
  <2>2. CASE Answer(h)
    BY <1>5, <2>1, <2>2 DEF Answer
  <2>3. ASSUME NEW w \in Worker, Prefetch(h, w)
        PROVE  LockInv'
    <3>1. w \in Thread /\ w # h
      BY ThreadAssumption DEF Thread
    <3>2. /\ pc' = [pc EXCEPT ![h] = "answer", ![w] = "start"] /\ lock' = lock /\ files' = files
          /\ pc[h] = "serve" /\ pc[w] = "idle"
          /\ name' = [name EXCEPT ![w] = OfSegment(name[h].from + 1)]
      BY <2>3 DEF Prefetch
    <3>3. /\ pc' \in [Thread -> Location] /\ name' = [t \in Thread |-> name'[t]]
          /\ \A t \in Thread \ {h, w} : pc'[t] = pc[t] /\ name'[t] = name[t]
          /\ pc'[h] = "answer" /\ pc'[w] = "start"
      BY <1>2, <1>3, <2>1, <3>1, <3>2
    <3>4. \A t \in Thread : pc'[t] = "mux" <=> lock' = t
      BY <1>1, <3>2, <3>3
    <3>5. lock # Nobody => name'[lock] = name[lock]
      BY <1>1, <1>2, <3>2, <3>3
    <3> QED
      BY <3>2, <3>3, <3>4, <3>5 DEF LockInv, Held, BuildsMissing, Cached
  <2> QED
    BY <1>10, <2>2, <2>3 DEF Serve
<1>11. ASSUME NEW w \in Worker, Warmed(w)
       PROVE  LockInv'
  BY <1>5, <1>11 DEF Warmed, Thread
<1>12. CASE (\E s \in Segment : Record(s) \/ Close(s) \/ Lose(s)) \/ UNCHANGED vars
  <2>1. lock' = lock /\ pc' = pc /\ name' = name /\ files' = files
    BY <1>12 DEF Record, Close, Lose, vars
  <2> QED
    BY <2>1 DEF LockInv, Held, BuildsMissing, Cached
<1>13. CASE Restart
  <2>1. /\ lock' = Nobody /\ files' = files /\ pc' = [t \in Thread |-> "idle"]
        /\ name' = [t \in Thread |-> NoName]
    BY <1>13 DEF Restart
  <2> QED
    BY <1>2, <1>3, <2>1 DEF LockInv, Held, BuildsMissing
<1> QED
  BY <1>7, <1>8, <1>9, <1>10, <1>11, <1>12, <1>13 DEF Next

\* No file is built again while it is there (remux_mp4, build_clip).
THEOREM BuildsMissingCorrect == Spec => []BuildsMissing
<1>1. LockInv => BuildsMissing
  BY DEF LockInv
<1> QED
  BY LockInit, LockStep, <1>1, PTL DEF Spec

-----------------------------------------------------------------------------
(* The timeline.                                                            *)

Kinds == video \in [Segment -> {"none", "recording", "done", "gone"}]

LEMMA KindsInit == Init => Kinds
  BY DEF Init, Kinds

\* Nth runs through a set of numbers from the least to the greatest.
LEMMA NthRuns ==
  ASSUME NEW n \in Nat, NEW H \in SUBSET (1..n)
  PROVE  /\ Cardinality(H) \in Nat
         /\ \A j \in 1..Cardinality(H) : Nth(H, j) \in H
         /\ \A i \in H : \E j \in 1..Cardinality(H) : Nth(H, j) = i
         /\ \A j, l \in 1..Cardinality(H) : j < l => Nth(H, j) < Nth(H, l)
<1> DEFINE c == Cardinality(H)
           r == [i \in H |-> Cardinality({k \in H : k <= i})]
<1>1. IsFiniteSet(H) /\ c \in Nat
  <2>1. IsFiniteSet(1..n)
    BY FS_Interval
  <2> QED
    BY <2>1, FS_Subset, FS_CardinalityType
<1>2. \A i \in H : i \in Nat
  OBVIOUS
<1>3. ASSUME NEW i \in H, NEW k \in H, i < k
      PROVE  r[i] < r[k] /\ r[i] \in 1..c
  <2> DEFINE A == {q \in H : q <= i}
             B == {q \in H : q <= k}
  <2>0. i \in Nat /\ k \in Nat /\ \A q \in H : q \in Nat
    BY <1>2
  <2>8. \A q \in A : q \in B
    BY <1>3, <2>0
  <2>9. i <= i /\ k <= k /\ ~(k <= i)
    BY <1>3, <2>0
  <2>1. A \in SUBSET H /\ B \in SUBSET H /\ A \in SUBSET B /\ k \in B /\ k \notin A /\ i \in A
    BY <2>8, <2>9
  <2>2. r[i] = Cardinality(A) /\ r[k] = Cardinality(B)
    OBVIOUS
  <2> HIDE DEF A, B
  <2>3. IsFiniteSet(A) /\ IsFiniteSet(B)
    BY <1>1, <2>1, FS_Subset
  <2>4. Cardinality(A) \in Nat /\ Cardinality(B) \in Nat
    BY <2>3, FS_CardinalityType
  <2>5. Cardinality(A) <= Cardinality(B) /\ Cardinality(A) # Cardinality(B)
    BY <2>1, <2>3, FS_Subset
  <2>6. Cardinality(A) # 0
    BY <2>1, <2>3, FS_EmptySet
  <2>7. Cardinality(A) <= c
    BY <1>1, <2>1, FS_Subset
  <2> QED
    BY <1>1, <2>2, <2>4, <2>5, <2>6, <2>7
<1>4. ASSUME NEW i \in H PROVE r[i] \in 1..c
  <2> DEFINE A == {q \in H : q <= i}
  <2>1. A \in SUBSET H /\ i \in A
    BY <1>2
  <2>2. r[i] = Cardinality(A)
    OBVIOUS
  <2> HIDE DEF A
  <2>3. IsFiniteSet(A) /\ Cardinality(A) <= c
    BY <1>1, <2>1, FS_Subset
  <2>4. Cardinality(A) \in Nat /\ Cardinality(A) # 0
    BY <2>1, <2>3, FS_CardinalityType, FS_EmptySet
  <2> QED
    BY <1>1, <2>2, <2>3, <2>4
<1>5. \A i, k \in H : i # k => r[i] # r[k]
  <2> TAKE i \in H, k \in H
  <2>1. \A a, b \in H : r[a] \in Nat
    BY <1>4
  <2>2. CASE i < k
    BY <1>3, <2>1, <2>2
  <2>3. CASE k < i
    BY <1>3, <2>1, <2>3
  <2>4. i < k \/ k < i \/ i = k
    BY <1>2
  <2> HIDE DEF r
  <2> QED
    BY <2>2, <2>3, <2>4
<1>6. \A i \in H : r[i] = Cardinality({k \in H : k <= i})
  OBVIOUS
<1>7. r = [i \in H |-> r[i]]
  OBVIOUS
<1> HIDE DEF c, r
<1>8. r \in Surjection(H, 1..c)
  <2>1. r \in [H -> 1..c]
    BY <1>4, <1>7
  <2>2. r \in Injection(H, 1..c)
    BY <1>5, <2>1 DEF Injection, IsInjective
  <2>3. IsFiniteSet(1..c) /\ Cardinality(1..c) = c
    BY <1>1, FS_Interval
  <2> QED
    BY <2>2, <2>3, FS_Injection DEF c
<1>9. \A j \in 1..c : Nth(H, j) \in H /\ r[Nth(H, j)] = j
  <2> TAKE j \in 1..c
  <2>1. PICK i \in H : r[i] = j
    BY <1>8 DEF Surjection
  <2> QED
    BY <1>6, <2>1 DEF Nth
<1>10. ASSUME NEW i \in H PROVE Nth(H, r[i]) = i
  BY <1>4, <1>5, <1>9
<1>11. ASSUME NEW j \in 1..c, NEW l \in 1..c, j < l PROVE Nth(H, j) < Nth(H, l)
  <2>1. Nth(H, j) \in H /\ Nth(H, l) \in H /\ r[Nth(H, j)] = j /\ r[Nth(H, l)] = l
    BY <1>9
  <2>5. Nth(H, j) \in Nat /\ Nth(H, l) \in Nat
    BY <1>2, <2>1
  <2>6. j \in Nat /\ l \in Nat
    BY <1>1
  <2>4. Nth(H, j) \in Nat /\ Nth(H, l) \in Nat /\ j \in Nat /\ l \in Nat
    BY <2>5, <2>6
  <2>2. CASE Nth(H, l) < Nth(H, j)
    <3>1. r[Nth(H, l)] < r[Nth(H, j)]
      BY <1>3, <2>1, <2>2
    <3>2. l < j
      BY <2>1, <3>1
    <3> QED
      BY <1>11, <2>4, <3>2
  <2>3. CASE Nth(H, l) = Nth(H, j)
    BY <1>11, <2>1, <2>3
  <2> QED
    BY <2>2, <2>3, <2>4
<1> QED
  BY <1>1, <1>4, <1>9, <1>10, <1>11 DEF c

\* The timeline has every segment there is, in order.
LEMMA TimelineRuns ==
  /\ Timeline \in Seq(Segment)
  /\ \A i \in 1..Len(Timeline) : Timeline[i] \in Here
  /\ \A i, j \in 1..Len(Timeline) : i < j => Timeline[i] < Timeline[j]
  /\ \A s \in Here : \E i \in 1..Len(Timeline) : Timeline[i] = s
<1>1. N \in Nat /\ Here \in SUBSET (1..N)
  BY SizeAssumption DEF Here, Segment
<1> DEFINE k == Cardinality(Here)
<1>2. /\ k \in Nat /\ \A j \in 1..k : Nth(Here, j) \in Here
      /\ \A i \in Here : \E j \in 1..k : Nth(Here, j) = i
      /\ \A j, l \in 1..k : j < l => Nth(Here, j) < Nth(Here, l)
  BY <1>1, NthRuns
<1>3. Timeline = [i \in 1..k |-> Nth(Here, i)]
  BY DEF Timeline
<1> HIDE DEF k
<1>4. Here \subseteq Segment
  BY DEF Here
<1>5. Timeline \in Seq(Segment) /\ Len(Timeline) = k /\ \A i \in 1..k : Timeline[i] = Nth(Here, i)
  BY <1>2, <1>3, <1>4
<1> QED
  BY <1>2, <1>5

\* g is what a file n may stand for when the camera files are v: segments in
\* order, all recorded at one time or other, with nothing left out between the
\* first and the last of them; for a segment just its own.
Stands(v, n, g) ==
  /\ g \in Seq(Segment) /\ g # <<>>
  /\ \A i, j \in 1..Len(g) : i < j => g[i] < g[j]
  /\ \A i \in 1..Len(g) : v[g[i]] # "none"
  /\ \A s \in Segment : v[s] \in {"recording", "done"} /\ g[1] <= s /\ s <= g[Len(g)] =>
       \E i \in 1..Len(g) : g[i] = s
  /\ ~n.clip => g = <<n.from>>

\* What is recorded later comes after it.
LEMMA StandsRecord ==
  ASSUME NEW n, NEW g, Kinds, Stands(video, n, g), NEW s \in Segment, Record(s)
  PROVE  Stands(video', n, g)
<1>1. /\ g \in Seq(Segment) /\ g # <<>> /\ Len(g) \in Nat \ {0}
      /\ \A i \in 1..Len(g) : g[i] \in Segment /\ video[g[i]] # "none"
      /\ \A i, j \in 1..Len(g) : i < j => g[i] < g[j]
      /\ \A r \in Segment : video[r] \in {"recording", "done"} /\ g[1] <= r /\ r <= g[Len(g)] =>
           \E i \in 1..Len(g) : g[i] = r
  BY DEF Stands
<1>2. /\ \A r \in Segment : r >= s => video[r] = "none"
      /\ \A r \in Segment \ {s} : video'[r] = video[r]
      /\ video'[s] = "recording"
  BY DEF Record, Kinds
<1>3. \A r \in Segment : r \in Nat
  BY DEF Segment
<1>4. g[Len(g)] \in Segment /\ video[g[Len(g)]] # "none"
  BY <1>1
<1>5. g[Len(g)] < s
  BY <1>2, <1>3, <1>4
<1>6. \A i \in 1..Len(g) : video'[g[i]] # "none"
  BY <1>1, <1>2
<1>7. ASSUME NEW r \in Segment, video'[r] \in {"recording", "done"}, g[1] <= r, r <= g[Len(g)]
      PROVE  \E i \in 1..Len(g) : g[i] = r
  <2>1. r # s
    BY <1>3, <1>4, <1>5, <1>7
  <2> QED
    BY <1>1, <1>2, <1>7, <2>1
<1> QED
  BY <1>6, <1>7 DEF Stands

\* No step makes it stand for something else.
LEMMA StandsStep ==
  ASSUME NEW n, NEW g, Kinds, Stands(video, n, g), [Next]_vars
  PROVE  Stands(video', n, g)
<1>1. ASSUME NEW s \in Segment, Close(s) \/ Lose(s) PROVE Stands(video', n, g)
  <2>1. /\ \A r \in Segment \ {s} : video'[r] = video[r]
        /\ video[s] \in {"recording", "done"} /\ video'[s] \in {"done", "gone"}
    BY <1>1 DEF Close, Lose, Kinds
  <2>2. \A r \in Segment : video[r] # "none" => video'[r] # "none"
    BY <2>1
  <2>3. \A r \in Segment : video'[r] \in {"recording", "done"} => video[r] \in {"recording", "done"}
    BY <2>1
  <2>4. \A i \in 1..Len(g) : g[i] \in Segment
    BY DEF Stands
  <2> QED
    BY <2>2, <2>3, <2>4 DEF Stands
<1>2. CASE video' = video
  BY <1>2
<1>3. ASSUME ~(\E s \in Segment : Record(s) \/ Close(s) \/ Lose(s)) PROVE video' = video
  BY <1>3 DEF Next, vars, Build, Trim, Serve, NoSource, Plan, Find, LookRaises, Lock, Mux, MuxFails,
     Store, TrimList, TrimStat, TrimPop, TrimGivesUp, TrimDone, Warmed, Prefetch, Answer, Restart
<1> QED
  BY <1>1, <1>2, <1>3, StandsRecord

LEMMA KindsStep == ASSUME Kinds, [Next]_vars PROVE Kinds'
<1>1. ASSUME NEW s \in Segment, Record(s) \/ Close(s) \/ Lose(s) PROVE Kinds'
  BY <1>1 DEF Kinds, Record, Close, Lose
<1>2. ASSUME ~(\E s \in Segment : Record(s) \/ Close(s) \/ Lose(s)) PROVE video' = video
  BY <1>2 DEF Next, vars, Build, Trim, Serve, NoSource, Plan, Find, LookRaises, Lock, Mux, MuxFails,
     Store, TrimList, TrimStat, TrimPop, TrimGivesUp, TrimDone, Warmed, Prefetch, Answer, Restart
<1> QED
  BY <1>1, <1>2 DEF Kinds

\* The sources of a file are what it stands for when it is planned.
LEMMA SourcesStand ==
  ASSUME Kinds, NEW n \in Asked, Sources(n) # <<>>
  PROVE  Stands(video, n, Sources(n))
<1>0. \A s \in Segment : s \in Nat /\ (s \in Here <=> video[s] \in {"recording", "done"})
  BY DEF Segment, Here
<1>1. CASE ~n.clip
  <2>1. n.from \in Here /\ Sources(n) = <<n.from>>
    BY <1>1 DEF Sources
  <2> DEFINE k == n.from
  <2>2. k \in Segment /\ video[k] # "none"
    BY <2>1 DEF Here
  <2> HIDE DEF k
  <2>3. <<k>> \in Seq(Segment) /\ Len(<<k>>) = 1 /\ <<k>>[1] = k /\ <<k>> # <<>>
    BY <2>2
  <2>4. \A s \in Segment : k <= s /\ s <= k => k = s
    BY <1>0, <2>2
  <2>5. Sources(n) = <<k>>
    BY <2>1 DEF k
  <2> DEFINE g == <<k>>
  <2>6. g \in Seq(Segment) /\ Len(g) = 1 /\ g[1] = k /\ g # <<>>
    BY <2>3
  <2> HIDE DEF g
  <2>7. \A i \in 1..Len(g) : i = 1
    BY <2>6
  <2>8. \A i, j \in 1..Len(g) : i < j => g[i] < g[j]
    BY <2>7
  <2>9. \A s \in Segment : g[1] <= s /\ s <= g[Len(g)] => \E i \in 1..Len(g) : g[i] = s
    BY <2>4, <2>6
  <2>10. \A i \in 1..Len(g) : video[g[i]] # "none"
    BY <2>2, <2>6, <2>7
  <2>11. g = <<n.from>>
    BY DEF g, k
  <2> QED
    BY <2>5, <2>6, <2>8, <2>9, <2>10, <2>11 DEF Stands, g
<1>2. CASE n.clip
  <2> DEFINE T == Timeline
             a == n.from
             b == IF n.to < Len(T) THEN n.to ELSE Len(T)
  <2>1. n \in {OfClip(c) : c \in Clip}
    BY <1>2 DEF Asked, Name, OfSegment
  <2>2. a \in Nat \ {0} /\ n.to \in Nat
    BY <2>1, SizeAssumption DEF OfClip
  <2>3. T \in Seq(Segment) /\ Len(T) \in Nat
    BY TimelineRuns
  <2>3a. /\ \A i \in 1..Len(T) : T[i] \in Here
         /\ \A i, j \in 1..Len(T) : i < j => T[i] < T[j]
         /\ \A s \in Here : \E i \in 1..Len(T) : T[i] = s
    BY TimelineRuns
  <2>4. Sources(n) = SubSeq(T, a, b)
    BY <1>2 DEF Sources
  <2> HIDE DEF T, a
  <2>5. b \in Nat /\ b <= Len(T)
    BY <2>2, <2>3
  <2> HIDE DEF b
  <2>6. a <= b
    BY <2>2, <2>3, <2>4, <2>5
  <2> DEFINE g == SubSeq(T, a, b)
  <2>7. /\ g \in Seq(Segment) /\ Len(g) = b - a + 1
        /\ \A i \in 1..(b - a + 1) : g[i] = T[a + i - 1]
    BY <2>2, <2>3, <2>5, <2>6, SubSeqProperties
  <2> HIDE DEF g
  <2>8. Len(g) \in Nat \ {0} /\ \A i \in 1..Len(g) : a + i - 1 \in 1..Len(T) /\ g[i] = T[a + i - 1]
    BY <2>2, <2>3, <2>5, <2>6, <2>7
  <2>9. ASSUME NEW i \in 1..Len(g), NEW j \in 1..Len(g), i < j PROVE g[i] < g[j]
    <3>1. a + i - 1 < a + j - 1
      BY <2>2, <2>8, <2>9
    <3>2. T[a + i - 1] < T[a + j - 1]
      BY <2>3a, <2>8, <3>1
    <3> QED
      BY <2>8, <3>2
  <2>10. \A i \in 1..Len(g) : g[i] \in Here
    BY <2>3a, <2>8
  <2>11. ASSUME NEW s \in Here, g[1] <= s, s <= g[Len(g)]
         PROVE  \E i \in 1..Len(g) : g[i] = s
    <3>1. PICK i \in 1..Len(T) : T[i] = s
      BY <2>3a
    <3>2. g[1] = T[a] /\ g[Len(g)] = T[b] /\ a \in 1..Len(T) /\ b \in 1..Len(T)
      BY <2>2, <2>3, <2>5, <2>6, <2>7
    <3>3. s \in Nat /\ T[a] \in Nat /\ T[b] \in Nat
      BY <2>3a, <3>2, <1>0 DEF Here
    <3>4. ~(i < a)
      <4>1. i < a => T[i] < T[a]
        BY <2>3a, <3>2
      <4> QED
        BY <2>11, <3>1, <3>2, <3>3, <4>1
    <3>5. ~(b < i)
      <4>1. b < i => T[b] < T[i]
        BY <2>3a, <3>2
      <4> QED
        BY <2>11, <3>1, <3>2, <3>3, <4>1
    <3>6. i - a + 1 \in 1..Len(g) /\ a + (i - a + 1) - 1 = i
      BY <2>2, <2>3, <2>5, <2>7, <3>4, <3>5
    <3> QED
      BY <2>8, <3>1, <3>6
  <2>12. g # <<>>
    BY <2>8
  <2>13. \A i \in 1..Len(g) : video[g[i]] # "none"
    BY <2>10 DEF Here
  <2>14. \A s \in Segment : video[s] \in {"recording", "done"} /\ g[1] <= s /\ s <= g[Len(g)] =>
           \E i \in 1..Len(g) : g[i] = s
    BY <1>0, <2>11
  <2>15. Sources(n) = g
    BY <2>4 DEF g
  <2>16. Stands(video, n, g)
    BY <1>2, <2>7, <2>9, <2>12, <2>13, <2>14 DEF Stands
  <2> QED
    BY <2>15, <2>16
<1> QED
  BY <1>1, <1>2

-----------------------------------------------------------------------------
(* All of a file or nothing.                                                *)

\* What is muxed and what is still planned make up what the file stands for.
Cut(done, todo, g) ==
  /\ done \in Seq(Copy) /\ todo \in Seq(Segment) /\ Len(g) = Len(done) + Len(todo)
  /\ \A j \in 1..Len(done) : done[j].seg = g[j]
  /\ \A j \in 1..Len(todo) : todo[j] = g[Len(done) + j]

Cutting ==
  /\ made = [t \in Thread |-> made[t]] /\ plan = [t \in Thread |-> plan[t]]
  /\ goal \in [Thread -> Seq(Segment)]
  /\ \A t \in Thread :
       /\ pc[t] \in {"find", "lock", "mux"} =>
            Cut(made[t], plan[t], goal[t]) /\ Stands(video, name[t], goal[t])
       /\ pc[t] # "mux" => made[t] = <<>>

\* A file in the cache is all of it.
Complete(v, f) ==
  f.muxed \in Seq(Copy) /\ Cut(f.muxed, <<>>, f.goal) /\ Stands(v, f.name, f.goal)
Filed == \A i \in 1..Len(files) : Complete(video, files[i])

CutInv == Held /\ Kinds /\ Cutting /\ Filed

\* The next segment of the plan is muxed.
LEMMA CutMux ==
  ASSUME NEW g, NEW done, NEW todo, Cut(done, todo, g), todo # <<>>, NEW w \in BOOLEAN
  PROVE  Cut(Append(done, [seg |-> Head(todo), whole |-> w]), Tail(todo), g)
<1> DEFINE x == [seg |-> Head(todo), whole |-> w]
           e == Append(done, x)
           u == Tail(todo)
<1>1. done \in Seq(Copy) /\ todo \in Seq(Segment) /\ Len(done) \in Nat /\ Len(todo) \in Nat \ {0}
  BY DEF Cut
<1>2. Head(todo) = todo[1] /\ Head(todo) \in Segment
  BY <1>1
<1>3. x \in Copy /\ x.seg = todo[1]
  BY <1>2 DEF Copy
<1> HIDE DEF x
<1>4. /\ e \in Seq(Copy) /\ Len(e) = Len(done) + 1 /\ e[Len(done) + 1] = x
      /\ \A j \in 1..Len(done) : e[j] = done[j]
  BY <1>1, <1>3
<1>5. /\ u \in Seq(Segment) /\ Len(u) = Len(todo) - 1
      /\ \A j \in 1..Len(u) : u[j] = todo[j + 1]
  BY <1>1
<1> HIDE DEF e, u
<1>6. Len(g) = Len(e) + Len(u)
  BY <1>1, <1>4, <1>5 DEF Cut
<1>7. ASSUME NEW j \in 1..Len(e) PROVE e[j].seg = g[j]
  <2>1. CASE j <= Len(done)
    BY <1>1, <1>4, <2>1 DEF Cut
  <2>2. CASE j = Len(done) + 1
    <3>1. todo[1] = g[Len(done) + 1]
      BY <1>1 DEF Cut
    <3> QED
      BY <1>3, <1>4, <2>2, <3>1
  <2> QED
    BY <1>1, <1>4, <2>1, <2>2
<1>8. ASSUME NEW j \in 1..Len(u) PROVE u[j] = g[Len(e) + j]
  <2>1. j + 1 \in 1..Len(todo) /\ u[j] = todo[j + 1]
    BY <1>1, <1>5
  <2>2. todo[j + 1] = g[Len(done) + (j + 1)]
    BY <2>1 DEF Cut
  <2>3. Len(done) + (j + 1) = Len(e) + j
    BY <1>1, <1>4
  <2> QED
    BY <2>1, <2>2, <2>3
<1> QED
  BY <1>4, <1>5, <1>6, <1>7, <1>8 DEF Cut, e, u, x

\* A file that is planned is to be all of it.
LEMMA CutPlan == ASSUME NEW g \in Seq(Segment) PROVE Cut(<<>>, g, g)
  BY DEF Cut

LEMMA CutInit == Init => CutInv
<1> SUFFICES ASSUME Init PROVE CutInv
  OBVIOUS
<1>1. Held /\ Kinds
  BY LockInit, KindsInit DEF LockInv
<1>2. Cutting
  BY DEF Init, Cutting
<1>3. Filed
  BY DEF Init, Filed
<1> QED
  BY <1>1, <1>2, <1>3 DEF CutInv

\* A step of thread t.
LEMMA CutMove ==
  ASSUME CutInv, NEW t \in Thread, NEW l \in Location, NEW n, NEW d, NEW p, NEW g \in Seq(Segment),
         pc' = [pc EXCEPT ![t] = l], name' = [name EXCEPT ![t] = n], video' = video,
         made' = [made EXCEPT ![t] = d], plan' = [plan EXCEPT ![t] = p],
         goal' = [goal EXCEPT ![t] = g],
         l \in {"find", "lock", "mux"} => Cut(d, p, g) /\ Stands(video, n, g),
         l # "mux" => d = <<>>
  PROVE  Cutting'
<1>1. /\ pc \in [Thread -> Location] /\ name = [u \in Thread |-> name[u]]
      /\ made = [u \in Thread |-> made[u]] /\ plan = [u \in Thread |-> plan[u]]
      /\ goal \in [Thread -> Seq(Segment)]
  BY DEF CutInv, Held, Cutting
<1>2. /\ pc'[t] = l /\ name'[t] = n /\ made'[t] = d /\ plan'[t] = p /\ goal'[t] = g
      /\ made' = [u \in Thread |-> made'[u]] /\ plan' = [u \in Thread |-> plan'[u]]
      /\ goal' \in [Thread -> Seq(Segment)]
      /\ \A u \in Thread \ {t} : /\ pc'[u] = pc[u] /\ name'[u] = name[u] /\ goal'[u] = goal[u]
                                 /\ made'[u] = made[u] /\ plan'[u] = plan[u]
  BY <1>1
<1>3. ASSUME NEW u \in Thread
      PROVE  /\ pc'[u] \in {"find", "lock", "mux"} =>
                  Cut(made'[u], plan'[u], goal'[u]) /\ Stands(video', name'[u], goal'[u])
             /\ pc'[u] # "mux" => made'[u] = <<>>
  <2>1. CASE u = t
    BY <1>2, <2>1
  <2>2. CASE u # t
    <3>1. /\ pc[u] \in {"find", "lock", "mux"} =>
               Cut(made[u], plan[u], goal[u]) /\ Stands(video, name[u], goal[u])
          /\ pc[u] # "mux" => made[u] = <<>>
      BY DEF CutInv, Cutting
    <3>2. /\ pc'[u] = pc[u] /\ name'[u] = name[u] /\ made'[u] = made[u] /\ plan'[u] = plan[u]
          /\ goal'[u] = goal[u]
      BY <1>2, <2>2
    <3> QED
      BY <3>1, <3>2
  <2> QED
    BY <2>1, <2>2
<1>4. (\A u \in Thread :
         /\ pc[u] \in {"find", "lock", "mux"} =>
              Cut(made[u], plan[u], goal[u]) /\ Stands(video, name[u], goal[u])
         /\ pc[u] # "mux" => made[u] = <<>>)'
  BY <1>3 DEF Cut, Stands
<1> QED
  BY <1>2, <1>4 DEF Cutting

\* What is left of the files after one is removed is as it was.
LEMMA FiledWithout ==
  ASSUME CutInv, NEW n
  PROVE  /\ \E S : Without(files, n) \in Seq(S)
         /\ \A i \in 1..Len(Without(files, n)) : Complete(video, Without(files, n)[i])
<1> DEFINE S == {files[i] : i \in 1..Len(files)}
<1>1. files \in Seq(S)
  <2>1. PICK R : files \in Seq(R)
    BY DEF CutInv, Held
  <2>2. files \in [1..Len(files) -> S] /\ Len(files) \in Nat
    BY <2>1
  <2> HIDE DEF S
  <2> QED
    BY <2>2
<1>2. \A f \in S : Complete(video, f)
  BY DEF CutInv, Filed
<1> HIDE DEF S
<1> DEFINE w == Without(files, n)
<1>3. w \in Seq(S)
  BY <1>1, WithoutNames
<1> HIDE DEF w
<1>4. \A i \in 1..Len(w) : w[i] \in S
  BY <1>3
<1> QED
  BY <1>2, <1>3, <1>4 DEF w

\* The files: only Store and TrimPop change them.
LEMMA CutFiles == ASSUME CutInv, [Next]_vars PROVE Filed'
<1>1. CASE files' = files
  <2>1. \A i \in 1..Len(files) : Complete(video', files[i])
    BY StandsStep DEF CutInv, Filed, Complete
  <2> QED
    BY <1>1, <2>1 DEF Filed, Complete, Cut, Stands
<1>2. ASSUME NEW t \in Thread, TrimPop(t) PROVE Filed'
  <2>1. files' = Without(files, Head(snap[t])) /\ video' = video
    BY <1>2 DEF TrimPop
  <2>2. \A i \in 1..Len(files') : Complete(video', files'[i])
    BY <2>1, FiledWithout
  <2> QED
    BY <2>2 DEF Filed, Complete, Cut, Stands
<1>3. ASSUME NEW t \in Thread, Store(t) PROVE Filed'
  <2> DEFINE w == Without(files, name[t])
             x == [name |-> name[t], muxed |-> made[t], goal |-> goal[t]]
  <2>1. files' = Append(w, x) /\ video' = video
    BY <1>3 DEF Store
  <2>2. Complete(video, x)
    <3>1. Cut(made[t], <<>>, goal[t]) /\ Stands(video, name[t], goal[t])
      BY <1>3 DEF Store, CutInv, Cutting
    <3> QED
      BY <3>1 DEF Complete, Cut
  <2>3. (\E S : w \in Seq(S)) /\ \A i \in 1..Len(w) : Complete(video, w[i])
    BY FiledWithout
  <2> HIDE DEF w, x
  <2>4. PICK S : w \in Seq(S)
    BY <2>3
  <2>5. w \in Seq(S \cup {x}) /\ x \in S \cup {x}
    BY <2>4, SeqMonotonic
  <2>6. /\ Len(Append(w, x)) = Len(w) + 1 /\ Append(w, x)[Len(w) + 1] = x /\ Len(w) \in Nat
        /\ \A i \in 1..Len(w) : Append(w, x)[i] = w[i]
    BY <2>5, AppendProperties
  <2>7. \A i \in 1..Len(files') : Complete(video', files'[i])
    BY <2>1, <2>2, <2>3, <2>6
  <2> QED
    BY <2>7 DEF Filed, Complete, Cut, Stands
<1>4. ASSUME ~(\E t \in Thread : TrimPop(t) \/ Store(t)) PROVE files' = files
  BY <1>4 DEF Next, vars, Build, Trim, Serve, NoSource, Plan, Find, LookRaises, Lock, Mux, MuxFails,
     TrimList, TrimStat, TrimGivesUp, TrimDone, Warmed, Prefetch, Answer, Record, Close, Lose, Restart
<1> QED
  BY <1>1, <1>2, <1>3, <1>4

\* The threads.
LEMMA CutThreads == ASSUME CutInv, [Next]_vars PROVE Cutting'
<1> USE DEF Goto
<1>1. /\ made = [u \in Thread |-> made[u]] /\ plan = [u \in Thread |-> plan[u]]
      /\ pc \in [Thread -> Location] /\ name = [u \in Thread |-> name[u]]
      /\ goal \in [Thread -> Seq(Segment)]
  BY DEF CutInv, Cutting, Held
<1>2. \A t \in Thread : /\ pc = [pc EXCEPT ![t] = pc[t]] /\ name = [name EXCEPT ![t] = name[t]]
                        /\ made = [made EXCEPT ![t] = made[t]] /\ plan = [plan EXCEPT ![t] = plan[t]]
                        /\ goal = [goal EXCEPT ![t] = goal[t]] /\ goal[t] \in Seq(Segment)
  BY <1>1
<1>3. {"idle", "start", "find", "lock", "mux", "list", "stat", "pop", "serve", "answer"} \subseteq Location
  BY DEF Location
<1>4. \A t \in Thread : /\ pc[t] \in {"find", "lock", "mux"} =>
                             Cut(made[t], plan[t], goal[t]) /\ Stands(video, name[t], goal[t])
                        /\ pc[t] # "mux" => made[t] = <<>>
  BY DEF CutInv, Cutting
<1>5. ASSUME NEW t \in Thread, Quit(t), video' = video PROVE Cutting'
  <2>1. <<>> \in Seq(Segment) /\ "idle" \notin {"find", "lock", "mux"}
    OBVIOUS
  <2> QED
    BY <1>3, <1>5, <2>1, CutMove DEF Quit
<1>6. ASSUME NEW t \in Thread, NEW l \in Location, pc' = [pc EXCEPT ![t] = l], name' = name,
             video' = video, made' = made, plan' = plan, goal' = goal, pc[t] # "mux",
             l \notin {"find", "lock", "mux"}
      PROVE  Cutting'
  <2>1. /\ name' = [name EXCEPT ![t] = name[t]] /\ made' = [made EXCEPT ![t] = made[t]]
        /\ plan' = [plan EXCEPT ![t] = plan[t]] /\ made[t] = <<>>
        /\ goal' = [goal EXCEPT ![t] = goal[t]] /\ goal[t] \in Seq(Segment)
    BY <1>2, <1>4, <1>6
  <2>2. l \in {"find", "lock", "mux"} => Cut(made[t], plan[t], goal[t]) /\ Stands(video, name[t], goal[t])
    BY <1>6
  <2>3. pc' = [pc EXCEPT ![t] = l] /\ video' = video /\ t \in Thread /\ l \in Location
    BY <1>6
  <2> QED
    BY <2>1, <2>2, <2>3, CutMove
<1>7. ASSUME NEW t \in Thread, NEW n \in Asked, NoSource(t, n) \/ Plan(t, n)
      PROVE  Cutting'
  <2>1. CASE NoSource(t, n)
    BY <1>5, <2>1 DEF NoSource
  <2>2. CASE Plan(t, n)
    <3>1. made[t] = <<>>
      BY <1>4, <2>2 DEF Plan, Wanted
    <3>2. Stands(video, n, Sources(n))
      BY <2>2, SourcesStand DEF Plan, CutInv
    <3>4. Sources(n) \in Seq(Segment)
      BY <3>2 DEF Stands
    <3>5. Cut(<<>>, Sources(n), Sources(n))
      BY <3>4, CutPlan
    <3>3. /\ pc' = [pc EXCEPT ![t] = "find"] /\ name' = [name EXCEPT ![t] = n] /\ video' = video
          /\ plan' = [plan EXCEPT ![t] = Sources(n)] /\ made' = [made EXCEPT ![t] = <<>>]
          /\ goal' = [goal EXCEPT ![t] = Sources(n)]
      BY <1>2, <2>2, <3>1 DEF Plan
    <3> QED
      BY <1>3, <3>2, <3>3, <3>4, <3>5, CutMove
  <2> QED
    BY <1>7, <2>1, <2>2
<1>8. ASSUME NEW t \in Thread, Build(t) PROVE Cutting'
  <2>1. CASE Find(t) \/ Lock(t)
    <3>1. PICK l \in {"lock", "mux", "serve"} : pc' = [pc EXCEPT ![t] = l]
      BY <2>1 DEF Find, Lock
    <3>2. Cut(made[t], plan[t], goal[t]) /\ Stands(video, name[t], goal[t]) /\ made[t] = <<>>
      BY <1>4, <2>1 DEF Find, Lock
    <3>3. /\ name' = [name EXCEPT ![t] = name[t]] /\ made' = [made EXCEPT ![t] = made[t]]
          /\ plan' = [plan EXCEPT ![t] = plan[t]] /\ goal' = [goal EXCEPT ![t] = goal[t]]
          /\ video' = video /\ goal[t] \in Seq(Segment)
      BY <1>2, <2>1 DEF Find, Lock, work
    <3> QED
      BY <1>3, <3>1, <3>2, <3>3, CutMove
  <2>2. CASE LookRaises(t)
    BY <1>5, <2>2 DEF LookRaises
  <2>3. CASE Mux(t)
    <3>1. PICK w \in BOOLEAN : made' = [made EXCEPT ![t] = Append(made[t], [seg |-> Head(plan[t]), whole |-> w])]
      BY <2>3 DEF Mux
    <3>2. /\ pc' = [pc EXCEPT ![t] = "mux"] /\ name' = [name EXCEPT ![t] = name[t]]
          /\ plan' = [plan EXCEPT ![t] = Tail(plan[t])] /\ pc[t] = "mux"
          /\ goal' = [goal EXCEPT ![t] = goal[t]] /\ video' = video /\ goal[t] \in Seq(Segment)
      BY <1>2, <2>3 DEF Mux
    <3>3. Cut(made[t], plan[t], goal[t]) /\ Stands(video, name[t], goal[t]) /\ plan[t] # <<>>
      BY <1>4, <2>3, <3>2 DEF Mux
    <3>4. Cut(Append(made[t], [seg |-> Head(plan[t]), whole |-> w]), Tail(plan[t]), goal[t])
      BY <3>3, CutMux
    <3> QED
      BY <1>3, <3>1, <3>2, <3>3, <3>4, CutMove
  <2>4. CASE MuxFails(t)
    BY <1>5, <2>4 DEF MuxFails
  <2>5. CASE Store(t)
    <3>1. /\ pc' = [pc EXCEPT ![t] = "list"] /\ made' = [made EXCEPT ![t] = <<>>]
          /\ name' = [name EXCEPT ![t] = name[t]] /\ plan' = [plan EXCEPT ![t] = plan[t]]
          /\ goal' = [goal EXCEPT ![t] = <<>>] /\ video' = video
      BY <1>2, <2>5 DEF Store
    <3>2. <<>> \in Seq(Segment) /\ "list" \notin {"find", "lock", "mux"}
      OBVIOUS
    <3> QED
      BY <1>3, <3>1, <3>2, CutMove
  <2> QED
    BY <1>8, <2>1, <2>2, <2>3, <2>4, <2>5 DEF Build
<1>9. ASSUME NEW t \in Thread, Trim(t) PROVE Cutting'
  <2>1. CASE TrimList(t) \/ TrimStat(t) \/ TrimGivesUp(t) \/ TrimDone(t)
    BY <1>3, <1>6, <2>1 DEF TrimList, TrimStat, TrimGivesUp, TrimDone, TrimOver, work
  <2>2. CASE TrimPop(t)
    <3>1. /\ pc' = [pc EXCEPT ![t] = "pop"] /\ name' = name /\ made' = made /\ plan' = plan
          /\ goal' = goal /\ video' = video /\ pc[t] = "pop"
      BY <1>2, <2>2 DEF TrimPop, work
    <3> QED
      BY <1>3, <1>6, <3>1
  <2> QED
    BY <1>9, <2>1, <2>2 DEF Trim
<1>10. ASSUME NEW h \in Handler, Serve(h) PROVE Cutting'
  <2>1. h \in Thread
    BY DEF Thread
  <2>2. CASE Answer(h)
    BY <1>5, <2>1, <2>2 DEF Answer
  <2>3. ASSUME NEW w \in Worker, Prefetch(h, w) PROVE Cutting'
    <3>1. w \in Thread /\ w # h
      BY ThreadAssumption DEF Thread
    <3>2. /\ pc' = [pc EXCEPT ![h] = "answer", ![w] = "start"] /\ made' = made /\ plan' = plan
          /\ goal' = goal /\ video' = video
          /\ name' = [name EXCEPT ![w] = OfSegment(name[h].from + 1)]
          /\ pc[h] = "serve" /\ pc[w] = "idle"
      BY <2>3 DEF Prefetch, work
    <3>3. /\ pc'[h] = "answer" /\ pc'[w] = "start"
          /\ \A u \in Thread \ {h, w} : pc'[u] = pc[u] /\ name'[u] = name[u]
      BY <1>1, <2>1, <3>1, <3>2
    <3>4. ASSUME NEW u \in Thread
          PROVE  /\ pc'[u] \in {"find", "lock", "mux"} =>
                      Cut(made'[u], plan'[u], goal'[u]) /\ Stands(video', name'[u], goal'[u])
                 /\ pc'[u] # "mux" => made'[u] = <<>>
      BY <1>4, <3>2, <3>3
    <3>5. (\A u \in Thread :
             /\ pc[u] \in {"find", "lock", "mux"} =>
                  Cut(made[u], plan[u], goal[u]) /\ Stands(video, name[u], goal[u])
             /\ pc[u] # "mux" => made[u] = <<>>)'
      BY <3>4 DEF Cut, Stands
    <3> QED
      BY <1>1, <3>2, <3>5 DEF Cutting
  <2> QED
    BY <1>10, <2>2, <2>3 DEF Serve
<1>11. ASSUME NEW w \in Worker, Warmed(w) PROVE Cutting'
  BY <1>5, <1>11 DEF Warmed, Thread
<1>12. CASE (\E s \in Segment : Record(s) \/ Close(s) \/ Lose(s)) \/ UNCHANGED vars
  <2>1. pc' = pc /\ name' = name /\ made' = made /\ plan' = plan /\ goal' = goal
    BY <1>12 DEF Record, Close, Lose, vars, work
  <2>2. \A u \in Thread :
          /\ pc'[u] \in {"find", "lock", "mux"} =>
               Cut(made'[u], plan'[u], goal'[u]) /\ Stands(video', name'[u], goal'[u])
          /\ pc'[u] # "mux" => made'[u] = <<>>
    BY <1>4, <2>1, StandsStep DEF CutInv
  <2>3. (\A u \in Thread :
           /\ pc[u] \in {"find", "lock", "mux"} =>
                Cut(made[u], plan[u], goal[u]) /\ Stands(video, name[u], goal[u])
           /\ pc[u] # "mux" => made[u] = <<>>)'
    BY <2>2 DEF Cut, Stands
  <2> QED
    BY <1>1, <2>1, <2>3 DEF Cutting
<1>13. CASE Restart
  BY <1>13 DEF Restart, Cutting
<1> QED
  BY <1>7, <1>8, <1>9, <1>10, <1>11, <1>12, <1>13 DEF Next

\* A file is all of what it stood for when its thread planned it, or it is not in
\* the cache, over gaps in the drive too: a segment that is deleted while a clip
\* over it is being cut leaves no clip without it (remux_mp4, build_clip).
THEOREM AllOrNothingCorrect == Spec => []AllOrNothing
<1>1. CutInv => AllOrNothing
  <2> SUFFICES ASSUME CutInv, NEW i \in 1..Len(files)
               PROVE  LET f == files[i]
                          m == Minutes(f)
                      IN  /\ m = f.goal /\ m # <<>>
                          /\ \A j, k \in 1..Len(m) : j < k => m[j] < m[k]
                          /\ {s \in Here : m[1] <= s /\ s <= m[Len(m)]} \subseteq ToSet(m)
                          /\ ~f.name.clip => m = <<f.name.from>>
    BY DEF AllOrNothing
  <2> DEFINE f == files[i]
             q == f.muxed
             g == f.goal
  <2>1. q \in Seq(Copy) /\ Cut(q, <<>>, g) /\ Stands(video, f.name, g) /\ Len(q) \in Nat
    BY DEF CutInv, Filed, Complete
  <2>4. Minutes(f) = [j \in 1..Len(q) |-> q[j].seg]
    BY DEF Minutes
  <2> HIDE DEF f, q, g
  <2>2. g \in Seq(Segment) /\ Len(g) = Len(q) /\ \A j \in 1..Len(q) : q[j].seg = g[j]
    BY <2>1 DEF Cut, Stands
  <2>3. Minutes(f) = g
    BY <2>1, <2>2, <2>4
  <2>5. /\ g # <<>> /\ \A j, k \in 1..Len(g) : j < k => g[j] < g[k]
        /\ ~f.name.clip => g = <<f.name.from>>
    BY <2>1 DEF Stands
  <2>6. {s \in Here : g[1] <= s /\ s <= g[Len(g)]} \subseteq ToSet(g)
    BY <2>1 DEF Stands, Here, ToSet
  <2> QED
    BY <2>3, <2>5, <2>6 DEF f, g
<1>2. LockInv /\ CutInv /\ [Next]_vars => (LockInv /\ CutInv)'
  BY LockStep, KindsStep, CutFiles, CutThreads DEF CutInv, LockInv
<1> QED
  BY LockInit, CutInit, <1>1, <1>2, PTL DEF Spec

-----------------------------------------------------------------------------
(* What files weigh.                                                        *)

Sized(fs) == (\E S : fs \in Seq(S)) /\ \A i \in 1..Len(fs) : Len(fs[i].muxed) \in Nat

LEMMA StoredOf ==
  ASSUME NEW fs, NEW S
  PROVE  /\ \A p \in Stored(fs, S) : p[1] \in S \cap Names(fs)
         /\ \A i \in 1..Len(fs) : fs[i].name \in S =>
              {fs[i].name} \X (1..Len(fs[i].muxed)) \subseteq Stored(fs, S)
         /\ \A p \in Stored(fs, S) : \E i \in 1..Len(fs) :
              fs[i].name \in S /\ p \in {fs[i].name} \X (1..Len(fs[i].muxed))
  BY DEF Stored, Names

LEMMA StoredFinite ==
  ASSUME NEW fs, Sized(fs), NEW S
  PROVE  IsFiniteSet(Stored(fs, S)) /\ Weight(fs, S) \in Nat
<1> DEFINE K == {k \in 1..Len(fs) : fs[k].name \in S}
           f == [i \in K |-> {fs[i].name} \X (1..Len(fs[i].muxed))]
           T == {f[i] : i \in K}
<1>1. Len(fs) \in Nat /\ \A i \in K : Len(fs[i].muxed) \in Nat
  BY DEF Sized
<1>2. IsFiniteSet(K)
  <2>1. IsFiniteSet(1..Len(fs)) /\ K \in SUBSET (1..Len(fs))
    BY <1>1, FS_Interval
  <2> QED
    BY <2>1, FS_Subset
<1>3. \A i \in K : IsFiniteSet(f[i])
  <2> SUFFICES ASSUME NEW i \in K PROVE IsFiniteSet(f[i])
    OBVIOUS
  <2> DEFINE m == Len(fs[i].muxed)
  <2>3. m \in Int
    BY <1>1
  <2> HIDE DEF m
  <2>4. IsFiniteSet(1..m)
    BY <2>3, FS_Interval
  <2>1. IsFiniteSet({fs[i].name}) /\ IsFiniteSet(1..Len(fs[i].muxed))
    BY <2>4, FS_Singleton DEF m
  <2>2. IsFiniteSet({fs[i].name} \X (1..Len(fs[i].muxed)))
    BY <2>1, FS_Product
  <2> QED
    BY <2>2
<1>4. Stored(fs, S) = UNION T
  BY DEF Stored
<1> HIDE DEF K, f
<1>5. f \in [K -> T]
  BY DEF f
<1>6. f \in Surjection(K, T)
  BY <1>5 DEF Surjection
<1> HIDE DEF T
<1>7. IsFiniteSet(T)
  BY <1>2, <1>6, FS_Surjection
<1>8. \A U \in T : IsFiniteSet(U)
  BY <1>3 DEF T
<1>9. IsFiniteSet(UNION T)
  BY <1>7, <1>8, FS_UNION
<1> QED
  BY <1>4, <1>9, FS_CardinalityType DEF Weight

\* More names weigh more.
LEMMA Heavier ==
  ASSUME NEW fs, Sized(fs), NEW S, NEW T, S \cap Names(fs) \subseteq T
  PROVE  Weight(fs, S) <= Weight(fs, T)
<1>1. Stored(fs, S) \subseteq Stored(fs, T)
  <2> SUFFICES ASSUME NEW p \in Stored(fs, S) PROVE p \in Stored(fs, T)
    OBVIOUS
  <2>1. PICK i \in 1..Len(fs) : fs[i].name \in S /\ p \in {fs[i].name} \X (1..Len(fs[i].muxed))
    BY StoredOf
  <2>2. fs[i].name \in T
    BY <2>1 DEF Names
  <2> QED
    BY <2>1, <2>2, StoredOf
<1> QED
  BY <1>1, StoredFinite, FS_Subset DEF Weight

\* One name weighs its share.
LEMMA Share ==
  ASSUME NEW fs, Sized(fs), NEW S, NEW n \in S
  PROVE  Weight(fs, S) = Weight(fs, S \ {n}) + Weight(fs, {n})
<1> DEFINE A == Stored(fs, S \ {n})
           B == Stored(fs, {n})
<1>1. IsFiniteSet(A) /\ IsFiniteSet(B) /\ Cardinality(A) \in Nat /\ Cardinality(B) \in Nat
  BY StoredFinite DEF Weight
<1>2. A \cap B = {}
  BY StoredOf
<1>3. Stored(fs, S) = A \cup B
  BY DEF Stored
<1> HIDE DEF A, B
<1>4. Cardinality(A \cup B) = Cardinality(A) + Cardinality(B) - Cardinality(A \cap B)
  BY <1>1, FS_Union
<1>5. Cardinality(A \cup B) = Cardinality(A) + Cardinality(B)
  BY <1>1, <1>2, <1>4, FS_EmptySet
<1> QED
  BY <1>3, <1>5 DEF Weight, A, B

\* Removing a file takes its weight away.
LEMMA Lighter ==
  ASSUME NEW fs, Sized(fs), Distinct(fs), NEW n, NEW S
  PROVE  /\ Sized(Without(fs, n))
         /\ Weight(Without(fs, n), S) <= Weight(fs, S \ {n})
<1> DEFINE w == Without(fs, n)
<1>1. PICK R : fs \in Seq(R)
  BY DEF Sized
<1>2. PICK g \in [1..Len(w) -> 1..Len(fs)] :
        \A j \in 1..Len(w) : w[j] = fs[g[j]] /\ w[j].name # n
  BY <1>1, WithoutPlaces
<1>3. w \in Seq(R)
  BY <1>1, WithoutPlaces
<1> HIDE DEF w
<1>4. Sized(w)
  BY <1>2, <1>3 DEF Sized
<1>5. Stored(w, S) \subseteq Stored(fs, S \ {n})
  <2> SUFFICES ASSUME NEW p \in Stored(w, S) PROVE p \in Stored(fs, S \ {n})
    OBVIOUS
  <2>1. PICK j \in 1..Len(w) : w[j].name \in S /\ p \in {w[j].name} \X (1..Len(w[j].muxed))
    BY StoredOf
  <2>2. PICK i \in 1..Len(fs) : i = g[j]
    BY <1>2
  <2>3. fs[i] = w[j] /\ fs[i].name \in S \ {n}
    BY <1>2, <2>1, <2>2
  <2>4. p \in {fs[i].name} \X (1..Len(fs[i].muxed))
    BY <2>1, <2>3
  <2> QED
    BY <2>3, <2>4, StoredOf
<1>6. IsFiniteSet(Stored(fs, S \ {n}))
  BY StoredFinite
<1>7. Weight(w, S) <= Weight(fs, S \ {n})
  BY <1>5, <1>6, FS_Subset DEF Weight
<1> QED
  BY <1>4, <1>7 DEF w

\* A file that is added at the end.
LEMMA Appended ==
  ASSUME NEW fs, Sized(fs), NEW x, Len(x.muxed) \in Nat
  PROVE  /\ Sized(Append(fs, x))
         /\ Len(Append(fs, x)) = Len(fs) + 1 /\ Append(fs, x)[Len(fs) + 1] = x /\ Len(fs) \in Nat
         /\ \A i \in 1..Len(fs) : Append(fs, x)[i] = fs[i]
         /\ Names(Append(fs, x)) = Names(fs) \cup {x.name}
         /\ \A S : x.name \notin S => Weight(Append(fs, x), S) = Weight(fs, S)
<1> DEFINE a == Append(fs, x)
<1>1. PICK R : fs \in Seq(R)
  BY DEF Sized
<1>2. fs \in Seq(R \cup {x}) /\ x \in R \cup {x}
  BY <1>1, SeqMonotonic
<1>3. /\ a \in Seq(R \cup {x}) /\ Len(a) = Len(fs) + 1 /\ a[Len(fs) + 1] = x /\ Len(fs) \in Nat
      /\ \A i \in 1..Len(fs) : a[i] = fs[i]
  BY <1>2, AppendProperties
<1> HIDE DEF a
<1>4. Sized(a)
  <2>1. \A i \in 1..Len(a) : i \in 1..Len(fs) \/ i = Len(fs) + 1
    BY <1>3
  <2>2. \A i \in 1..Len(a) : Len(a[i].muxed) \in Nat
    BY <1>3, <2>1 DEF Sized
  <2> QED
    BY <1>3, <2>2 DEF Sized
<1>5. Names(a) = Names(fs) \cup {x.name}
  <2>1. 1..Len(a) = (1..Len(fs)) \cup {Len(fs) + 1}
    BY <1>3
  <2> QED
    BY <1>3, <2>1 DEF Names
<1>6. ASSUME NEW S, x.name \notin S
      PROVE  Stored(a, S) = Stored(fs, S)
  <2>1. ASSUME NEW p \in Stored(fs, S) PROVE p \in Stored(a, S)
    <3>1. PICK i \in 1..Len(fs) : fs[i].name \in S /\ p \in {fs[i].name} \X (1..Len(fs[i].muxed))
      BY StoredOf
    <3>2. i \in 1..Len(a) /\ a[i] = fs[i]
      BY <1>3
    <3> QED
      BY <3>1, <3>2, StoredOf
  <2>2. ASSUME NEW p \in Stored(a, S) PROVE p \in Stored(fs, S)
    <3>1. PICK i \in 1..Len(a) : a[i].name \in S /\ p \in {a[i].name} \X (1..Len(a[i].muxed))
      BY StoredOf
    <3>2. i # Len(fs) + 1
      BY <1>3, <1>6, <3>1
    <3>3. i \in 1..Len(fs) /\ a[i] = fs[i]
      BY <1>3, <3>2
    <3> QED
      BY <3>1, <3>3, StoredOf
  <2> QED
    BY <2>1, <2>2
<1>7. \A S : x.name \notin S => Weight(a, S) = Weight(fs, S)
  BY <1>6 DEF Weight
<1> QED
  BY <1>3, <1>4, <1>5, <1>7 DEF a

-----------------------------------------------------------------------------
(* Sorting what is listed.                                                  *)

\* The files of a list by age: all of them that are there, each once.
LEMMA ListedSorted ==
  ASSUME \E S : files \in Seq(S), Distinct(files), NEW t \in Thread
  PROVE  /\ Listed(t) \in Seq(Names(files))
         /\ ToSet(Listed(t)) = ToSet(snap[t]) \cap Names(files)
         /\ \A a, b \in 1..Len(Listed(t)), i, j \in 1..Len(files) :
              a < b /\ files[i].name = Listed(t)[a] /\ files[j].name = Listed(t)[b] => i < j
         /\ \A a, b \in 1..Len(Listed(t)) : Listed(t)[a] = Listed(t)[b] => a = b
<1> DEFINE at == {i \in 1..Len(files) : files[i].name \in ToSet(snap[t])}
           c == Cardinality(at)
           q == [j \in 1..c |-> files[Nth(at, j)].name]
<1>1. Len(files) \in Nat /\ at \in SUBSET (1..Len(files))
  OBVIOUS
<1>2. Listed(t) = q
  BY DEF Listed
<1>3. \A i \in at : i \in 1..Len(files) /\ files[i].name \in ToSet(snap[t])
  OBVIOUS
<1>4. \A i \in 1..Len(files) : files[i].name \in ToSet(snap[t]) => i \in at
  OBVIOUS
<1> HIDE DEF at
<1>5. /\ c \in Nat
      /\ \A j \in 1..c : Nth(at, j) \in at
      /\ \A i \in at : \E j \in 1..c : Nth(at, j) = i
      /\ \A j, l \in 1..c : j < l => Nth(at, j) < Nth(at, l)
  BY <1>1, NthRuns
<1>6. \A j \in 1..c : q[j] = files[Nth(at, j)].name
  OBVIOUS
<1>7. q = [j \in 1..c |-> q[j]]
  OBVIOUS
<1> HIDE DEF c, q
<1>8. \A j \in 1..c : q[j] \in Names(files)
  BY <1>3, <1>5, <1>6 DEF Names
<1>9. q \in Seq(Names(files)) /\ Len(q) = c
  BY <1>5, <1>7, <1>8
<1>10. ToSet(q) = {q[j] : j \in 1..c}
  BY <1>7 DEF ToSet
<1>11. ToSet(q) = ToSet(snap[t]) \cap Names(files)
  <2>1. ASSUME NEW m \in ToSet(q) PROVE m \in ToSet(snap[t]) \cap Names(files)
    <3>1. PICK j \in 1..c : m = q[j]
      BY <1>10, <2>1
    <3> QED
      BY <1>3, <1>5, <1>6, <1>8, <3>1
  <2>2. ASSUME NEW m \in ToSet(snap[t]) \cap Names(files) PROVE m \in ToSet(q)
    <3>1. PICK i \in 1..Len(files) : m = files[i].name
      BY <2>2 DEF Names
    <3>2. i \in at
      BY <1>4, <2>2, <3>1
    <3>3. PICK j \in 1..c : Nth(at, j) = i
      BY <1>5, <3>2
    <3> QED
      BY <1>6, <1>10, <3>1, <3>3
  <2> QED
    BY <2>1, <2>2
<1>12. \A a \in 1..c, i \in 1..Len(files) : files[i].name = q[a] => i = Nth(at, a)
  BY <1>3, <1>5, <1>6 DEF Distinct
<1>13. ASSUME NEW a \in 1..c, NEW b \in 1..c, q[a] = q[b] PROVE a = b
  <2>1. Nth(at, a) \in 1..Len(files) /\ files[Nth(at, a)].name = q[b]
    BY <1>3, <1>5, <1>6, <1>13
  <2>2. Nth(at, a) = Nth(at, b)
    BY <1>12, <2>1
  <2>3. Nth(at, a) \in Nat /\ a \in Nat /\ b \in Nat
    BY <1>1, <1>5, <2>1
  <2>4. ~(a < b) /\ ~(b < a)
    BY <1>5, <2>2, <2>3
  <2> QED
    BY <2>3, <2>4
<1> QED
  BY <1>2, <1>5, <1>9, <1>11, <1>12, <1>13

\* What is left of a list of which the first name is taken.
LEMMA TailOf ==
  ASSUME NEW S, NEW q \in Seq(S), q # <<>>, \A a, b \in 1..Len(q) : q[a] = q[b] => a = b
  PROVE  /\ Tail(q) \in Seq(S) /\ Len(Tail(q)) = Len(q) - 1 /\ Len(q) \in Nat \ {0}
         /\ \A a \in 1..Len(Tail(q)) : Tail(q)[a] = q[a + 1] /\ a + 1 \in 1..Len(q)
         /\ Head(q) = q[1] /\ Head(q) \in ToSet(q)
         /\ ToSet(Tail(q)) = ToSet(q) \ {Head(q)}
         /\ \A a, b \in 1..Len(Tail(q)) : Tail(q)[a] = Tail(q)[b] => a = b
<1> DEFINE r == Tail(q)
<1>1. /\ r \in Seq(S) /\ Len(r) = Len(q) - 1 /\ Len(q) \in Nat \ {0} /\ Head(q) = q[1]
      /\ \A a \in 1..Len(r) : r[a] = q[a + 1]
  OBVIOUS
<1>2. ToSet(r) = {r[a] : a \in 1..Len(r)} /\ ToSet(q) = {q[a] : a \in 1..Len(q)}
  <2>1. DOMAIN r = 1..Len(r) /\ DOMAIN q = 1..Len(q)
    BY <1>1
  <2> QED
    BY <2>1 DEF ToSet
<1> HIDE DEF r
<1>3. \A a \in 1..Len(r) : a + 1 \in 1..Len(q) /\ a \in Nat
  BY <1>1
<1>4. 1 \in 1..Len(q) /\ \A a \in 1..Len(q) : a # 1 => a - 1 \in 1..Len(r) /\ (a - 1) + 1 = a
  BY <1>1
<1>5. ToSet(r) = ToSet(q) \ {Head(q)}
  <2>1. ASSUME NEW m \in ToSet(r) PROVE m \in ToSet(q) \ {Head(q)}
    <3>1. PICK a \in 1..Len(r) : m = r[a]
      BY <1>2, <2>1
    <3>2. m = q[a + 1] /\ a + 1 # 1 /\ a + 1 \in 1..Len(q)
      BY <1>1, <1>3, <3>1
    <3> QED
      BY <1>1, <1>2, <1>4, <3>2
  <2>2. ASSUME NEW m \in ToSet(q) \ {Head(q)} PROVE m \in ToSet(r)
    <3>1. PICK a \in 1..Len(q) : m = q[a]
      BY <1>2, <2>2
    <3>2. a # 1
      BY <1>1, <2>2, <3>1
    <3>3. m = r[a - 1]
      BY <1>1, <1>4, <3>1, <3>2
    <3> QED
      BY <1>2, <1>4, <3>2, <3>3
  <2> QED
    BY <2>1, <2>2
<1>6. Head(q) \in ToSet(q)
  BY <1>1, <1>2, <1>4
<1>7. \A a, b \in 1..Len(r) : r[a] = r[b] => a = b
  <2> SUFFICES ASSUME NEW a \in 1..Len(r), NEW b \in 1..Len(r), r[a] = r[b] PROVE a = b
    OBVIOUS
  <2>1. q[a + 1] = q[b + 1] /\ a + 1 \in 1..Len(q) /\ b + 1 \in 1..Len(q)
    BY <1>1, <1>3
  <2>2. a + 1 = b + 1 /\ a \in Nat /\ b \in Nat
    BY <1>3, <2>1
  <2> QED
    BY <2>2
<1> QED
  BY <1>1, <1>3, <1>5, <1>6, <1>7 DEF r

-----------------------------------------------------------------------------
(* Types.                                                                   *)

TypedFiles ==
  /\ Distinct(files) /\ Names(files) \subseteq Name
  /\ owed \subseteq Name

\* What a thread at l has: the name n it is after, the list q its trim is at, and
\* what of that list is built again.
Fits(l, n, q, again) ==
  /\ l \in {"find", "lock", "mux", "list", "stat", "pop", "serve"} => n \in Name
  /\ l \notin {"stat", "pop"} => q = <<>> /\ again = {}
  /\ \A a, b \in 1..Len(q) : q[a] = q[b] => a = b

TypedThreads ==
  /\ name \in [Thread -> Asked \cup {NoName}] /\ plan \in [Thread -> Seq(Segment)]
  /\ snap \in [Thread -> Seq(Name)] /\ total \in [Thread -> Int]
  /\ fresh \in [Thread -> SUBSET Name]
  /\ \A t \in Thread : Fits(pc[t], name[t], snap[t], fresh[t])

TypeInv == LockInv /\ CutInv /\ TypedFiles /\ TypedThreads

LEMMA TypeInit == Init => TypedFiles /\ TypedThreads
<1> SUFFICES ASSUME Init PROVE TypedFiles /\ TypedThreads
  OBVIOUS
<1>1. TypedFiles
  BY DEF Init, TypedFiles, Distinct, Names
<1>2. TypedThreads
  BY DEF Init, TypedThreads, Fits
<1> QED
  BY <1>1, <1>2

\* The files can be weighed.
LEMMA FilesSized == CutInv => Sized(files)
  BY DEF CutInv, Held, Filed, Complete, Sized

\* What is stored was missing, and comes last.
LEMMA StoreAppends ==
  ASSUME LockInv, NEW t \in Thread, Store(t)
  PROVE  /\ name[t] \notin Names(files)
         /\ files' = Append(files, [name |-> name[t], muxed |-> made[t], goal |-> goal[t]])
<1>1. lock = t /\ t # Nobody
  BY ThreadAssumption DEF LockInv, Held, Store, Thread
<1>2. name[t] \notin Names(files)
  BY <1>1 DEF LockInv, BuildsMissing, Cached
<1> QED
  BY <1>2 DEF Store, Without

\* A step of thread t.
LEMMA TypeMove ==
  ASSUME TypeInv, NEW t \in Thread, NEW l, NEW n \in Asked \cup {NoName},
         NEW p \in Seq(Segment), NEW q \in Seq(Name), NEW x \in Int,
         pc' = [pc EXCEPT ![t] = l], name' = [name EXCEPT ![t] = n],
         plan' = [plan EXCEPT ![t] = p], snap' = [snap EXCEPT ![t] = q],
         total' = [total EXCEPT ![t] = x], fresh' \in [Thread -> SUBSET Name],
         Fits(l, n, q, fresh'[t]),
         \A u \in Thread \ {t} : pc[u] \notin {"stat", "pop"} => fresh'[u] = {}
  PROVE  TypedThreads'
<1>1. /\ pc \in [Thread -> Location] /\ name \in [Thread -> Asked \cup {NoName}]
      /\ plan \in [Thread -> Seq(Segment)] /\ snap \in [Thread -> Seq(Name)]
      /\ total \in [Thread -> Int]
  BY DEF TypeInv, LockInv, Held, TypedThreads
<1>2. /\ name' \in [Thread -> Asked \cup {NoName}] /\ plan' \in [Thread -> Seq(Segment)]
      /\ snap' \in [Thread -> Seq(Name)] /\ total' \in [Thread -> Int]
  BY <1>1
<1>3. /\ pc'[t] = l /\ name'[t] = n /\ snap'[t] = q
      /\ \A u \in Thread \ {t} : pc'[u] = pc[u] /\ name'[u] = name[u] /\ snap'[u] = snap[u]
  BY <1>1
<1>4. \A u \in Thread : Fits(pc'[u], name'[u], snap'[u], fresh'[u])
  <2> TAKE u \in Thread
  <2>1. CASE u = t
    BY <1>3, <2>1
  <2>2. CASE u # t
    <3>1. Fits(pc[u], name[u], snap[u], fresh[u])
      BY DEF TypeInv, TypedThreads
    <3>2. pc'[u] = pc[u] /\ name'[u] = name[u] /\ snap'[u] = snap[u]
      BY <1>3, <2>2
    <3>3. pc[u] \notin {"stat", "pop"} => fresh'[u] = {}
      BY <2>2
    <3> QED
      BY <3>1, <3>2, <3>3 DEF Fits
  <2> QED
    BY <2>1, <2>2
<1>5. (\A u \in Thread : Fits(pc[u], name[u], snap[u], fresh[u]))'
  BY <1>4 DEF Fits
<1> QED
  BY <1>2, <1>5 DEF TypedThreads

\* The files: only Store and TrimPop change them.
LEMMA TypeFiles == ASSUME TypeInv, [Next]_vars PROVE TypedFiles'
<1>1. Sized(files) /\ Distinct(files) /\ Names(files) \subseteq Name /\ owed \subseteq Name
  BY FilesSized DEF TypeInv, TypedFiles
<1>2. ASSUME NEW t \in Thread, TrimPop(t) PROVE TypedFiles'
  <2> DEFINE n == Head(snap[t])
             w == Without(files, n)
  <2>1. files' = w /\ owed' \subseteq owed \cup Names(files)
    BY <1>2 DEF TrimPop, Forget
  <2>2. PICK S : files \in Seq(S)
    BY <1>1 DEF Sized
  <2> HIDE DEF n
  <2>3. PICK g \in [1..Len(w) -> 1..Len(files)] :
          /\ \A j \in 1..Len(w) : w[j] = files[g[j]]
          /\ \A j, l \in 1..Len(w) : j < l => g[j] < g[l]
    BY <2>2, WithoutPlaces
  <2>4. w \in Seq(S) /\ Names(w) \subseteq Names(files)
    BY <2>2, WithoutNames
  <2> HIDE DEF w
  <2>5. Distinct(w)
    <3> SUFFICES ASSUME NEW j \in 1..Len(w), NEW l \in 1..Len(w), w[j].name = w[l].name
                 PROVE  j = l
      BY DEF Distinct
    <3>3. g[j] \in 1..Len(files) /\ g[l] \in 1..Len(files)
      BY <2>3
    <3>4. files[g[j]].name = files[g[l]].name
      BY <2>3
    <3>1. g[j] = g[l] /\ g[j] \in 1..Len(files)
      BY <1>1, <3>3, <3>4 DEF Distinct
    <3>2. ~(j < l) /\ ~(l < j) /\ j \in Nat /\ l \in Nat
      BY <2>3, <2>4, <3>1
    <3> QED
      BY <3>2
  <2> QED
    BY <1>1, <2>1, <2>4, <2>5 DEF TypedFiles, Distinct, Names
<1>3. ASSUME NEW t \in Thread, Store(t) PROVE TypedFiles'
  <2> DEFINE x == [name |-> name[t], muxed |-> made[t], goal |-> goal[t]]
             a == Append(files, x)
  <2>1. name[t] \notin Names(files) /\ files' = a
    BY <1>3, StoreAppends DEF TypeInv
  <2>2. name[t] \in Name
    BY <1>3 DEF Store, TypeInv, TypedThreads, Fits
  <2>3. Len(x.muxed) \in Nat
    BY <1>3 DEF Store, TypeInv, CutInv, Cutting, Cut
  <2>4. x.name = name[t]
    OBVIOUS
  <2> HIDE DEF x
  <2>5. /\ Len(a) = Len(files) + 1 /\ a[Len(files) + 1] = x /\ Len(files) \in Nat
        /\ \A i \in 1..Len(files) : a[i] = files[i]
        /\ Names(a) = Names(files) \cup {x.name}
    BY <1>1, <2>3, Appended
  <2> HIDE DEF a
  <2>9. \A i \in 1..Len(a) : i = Len(files) + 1 \/ i \in 1..Len(files)
    BY <2>5
  <2>6. \A i \in 1..Len(a) : i = Len(files) + 1 \/ (i \in 1..Len(files) /\ a[i].name # name[t])
    <3>1. \A i \in 1..Len(files) : a[i].name \in Names(files)
      BY <2>5 DEF Names
    <3> QED
      BY <2>1, <2>9, <3>1
  <2>7. Distinct(a)
    <3> SUFFICES ASSUME NEW i \in 1..Len(a), NEW j \in 1..Len(a), a[i].name = a[j].name
                 PROVE  i = j
      BY DEF Distinct
    <3>1. CASE i \in 1..Len(files) /\ j \in 1..Len(files)
      BY <1>1, <2>5, <3>1 DEF Distinct
    <3>2. CASE i = Len(files) + 1 \/ j = Len(files) + 1
      BY <2>4, <2>5, <2>6, <3>2
    <3> QED
      BY <2>6, <3>1, <3>2
  <2>8. owed' \subseteq owed
    BY <1>3 DEF Store
  <2> QED
    BY <1>1, <2>1, <2>2, <2>4, <2>5, <2>7, <2>8 DEF TypedFiles, Distinct, Names
<1>4. ASSUME ~(\E t \in Thread : TrimPop(t) \/ Store(t))
      PROVE  files' = files /\ owed' \subseteq owed \cup Names(files)
  BY <1>4 DEF Next, vars, history, Build, Trim, Serve, NoSource, Plan, Find, LookRaises, Lock, Mux, MuxFails,
     TrimList, TrimStat, TrimGivesUp, TrimDone, Warmed, Prefetch, Answer, Record, Close, Lose, Restart
<1>5. CASE files' = files /\ owed' \subseteq owed \cup Names(files)
  BY <1>1, <1>5 DEF TypedFiles, Distinct, Names
<1> QED
  BY <1>2, <1>3, <1>4, <1>5

\* A segment past the end has no file: what has one is a name of the drive's.
LEMMA SourcesName == ASSUME NEW n \in Asked, Sources(n) # <<>> PROVE n \in Name
<1>1. N + 1 \notin Segment
  BY SizeAssumption DEF Segment
<1>2. N + 1 \notin Here
  BY <1>1 DEF Here
<1>3. CASE n = OfSegment(N + 1)
  BY <1>2, <1>3 DEF Sources, OfSegment
<1> QED
  BY <1>3 DEF Asked

\* The threads.
LEMMA TypeThreads == ASSUME TypeInv, [Next]_vars PROVE TypedThreads'
<1> USE DEF Goto
<1>1. /\ pc \in [Thread -> Location] /\ name \in [Thread -> Asked \cup {NoName}]
      /\ plan \in [Thread -> Seq(Segment)] /\ snap \in [Thread -> Seq(Name)]
      /\ total \in [Thread -> Int] /\ fresh \in [Thread -> SUBSET Name]
  BY DEF TypeInv, LockInv, Held, TypedThreads
<1>2. \A t \in Thread :
        /\ name = [name EXCEPT ![t] = name[t]] /\ plan = [plan EXCEPT ![t] = plan[t]]
        /\ snap = [snap EXCEPT ![t] = snap[t]] /\ total = [total EXCEPT ![t] = total[t]]
        /\ pc = [pc EXCEPT ![t] = pc[t]]
        /\ name[t] \in Asked \cup {NoName} /\ plan[t] \in Seq(Segment) /\ snap[t] \in Seq(Name)
        /\ total[t] \in Int /\ fresh[t] \in SUBSET Name
  BY <1>1
<1>3. \A t \in Thread : Fits(pc[t], name[t], snap[t], fresh[t])
  BY DEF TypeInv, TypedThreads
<1>4. \A t \in Thread : pc[t] \notin {"stat", "pop"} => snap[t] = <<>> /\ fresh[t] = {}
  BY <1>3 DEF Fits
<1>5. Sized(files) /\ Distinct(files) /\ Names(files) \subseteq Name
  BY FilesSized DEF TypeInv, TypedFiles
<1>6. <<>> \in Seq(Segment) /\ <<>> \in Seq(Name) /\ 0 \in Int /\ NoName \in Asked \cup {NoName}
  OBVIOUS
<1>7. ASSUME NEW t \in Thread, Quit(t), pc[t] \notin {"stat", "pop"}, fresh' = fresh
      PROVE  TypedThreads'
  <2>1. Fits("idle", NoName, <<>>, fresh'[t])
    BY <1>4, <1>7 DEF Fits
  <2>2. fresh' \in [Thread -> SUBSET Name] /\ \A u \in Thread \ {t} : pc[u] \notin {"stat", "pop"} => fresh'[u] = {}
    BY <1>1, <1>4, <1>7
  <2> QED
    BY <1>6, <1>7, <2>1, <2>2, TypeMove DEF Quit
\* A step of a thread that is not at its trim and does not get to it.
<1>8. ASSUME NEW t \in Thread, NEW l, NEW n \in Asked \cup {NoName}, NEW p \in Seq(Segment),
             pc' = [pc EXCEPT ![t] = l], name' = [name EXCEPT ![t] = n], plan' = [plan EXCEPT ![t] = p],
             snap' = snap, total' = total, fresh' = fresh, pc[t] \notin {"stat", "pop"},
             l \in {"find", "lock", "mux", "list", "serve"} => n \in Name, l \notin {"stat", "pop"}
      PROVE  TypedThreads'
  <2>4. snap[t] = <<>> /\ fresh'[t] = {} /\ \A a, b \in 1..Len(<<>>) : a = b
    BY <1>4, <1>8
  <2>1. Fits(l, n, snap[t], fresh'[t])
    BY <1>8, <2>4 DEF Fits
  <2>2. fresh' \in [Thread -> SUBSET Name] /\ \A u \in Thread \ {t} : pc[u] \notin {"stat", "pop"} => fresh'[u] = {}
    BY <1>1, <1>4, <1>8
  <2>3. snap' = [snap EXCEPT ![t] = snap[t]] /\ total' = [total EXCEPT ![t] = total[t]]
    BY <1>2, <1>8
  <2> QED
    BY <1>2, <1>8, <2>1, <2>2, <2>3, TypeMove
\* A step of a trim.
<1>9. ASSUME NEW t \in Thread, NEW l \in {"stat", "pop", "serve"}, NEW q \in Seq(Name), NEW x \in Int,
             pc' = [pc EXCEPT ![t] = l], name' = name, plan' = plan,
             snap' = [snap EXCEPT ![t] = q], total' = [total EXCEPT ![t] = x],
             fresh' \in [Thread -> SUBSET Name], \A u \in Thread \ {t} : fresh'[u] = fresh[u],
             pc[t] \in {"list", "stat", "pop"}, l = "serve" => q = <<>> /\ fresh'[t] = {},
             \A a, b \in 1..Len(q) : q[a] = q[b] => a = b
      PROVE  TypedThreads'
  <2>1. name[t] \in Name
    BY <1>3, <1>9 DEF Fits
  <2>2. Fits(l, name[t], q, fresh'[t])
    BY <1>9, <2>1 DEF Fits
  <2>3. name' = [name EXCEPT ![t] = name[t]] /\ plan' = [plan EXCEPT ![t] = plan[t]]
    BY <1>2, <1>9
  <2>4. \A u \in Thread \ {t} : pc[u] \notin {"stat", "pop"} => fresh'[u] = {}
    BY <1>4, <1>9
  <2>5. name[t] \in Asked \cup {NoName} /\ plan[t] \in Seq(Segment)
    BY <1>2
  <2> QED
    BY <1>9, <2>2, <2>3, <2>4, <2>5, TypeMove
<1>10. ASSUME NEW t \in Thread, NEW n \in Asked, NoSource(t, n) \/ Plan(t, n)
       PROVE  TypedThreads'
  <2>1. pc[t] \notin {"stat", "pop"} /\ fresh' = fresh
    BY <1>10 DEF NoSource, Plan, Wanted, history
  <2>2. CASE NoSource(t, n)
    BY <1>7, <2>1, <2>2 DEF NoSource
  <2>3. CASE Plan(t, n)
    <3>1. Sources(n) \in Seq(Segment) /\ n \in Name
      <4>1. Sources(n) # <<>> /\ Kinds
        BY <2>3 DEF Plan, TypeInv, CutInv
      <4> QED
        BY <4>1, SourcesStand, SourcesName DEF Stands
    <3>2. /\ pc' = [pc EXCEPT ![t] = "find"] /\ name' = [name EXCEPT ![t] = n]
          /\ plan' = [plan EXCEPT ![t] = Sources(n)] /\ snap' = snap /\ total' = total
          /\ n \in Asked \cup {NoName}
      BY <2>3 DEF Plan, trim
    <3>3. "find" \notin {"stat", "pop"}
      OBVIOUS
    <3> QED
      BY <1>8, <2>1, <3>1, <3>2, <3>3, Zenon
  <2> QED
    BY <1>10, <2>2, <2>3
<1>11. ASSUME NEW t \in Thread, Find(t) \/ LookRaises(t) \/ Lock(t) \/ Mux(t) \/ MuxFails(t)
       PROVE  TypedThreads'
  <2>1. pc[t] \in {"find", "lock", "mux"} /\ fresh' = fresh
    BY <1>11 DEF Find, LookRaises, Lock, Mux, MuxFails, history
  <2>2. name[t] \in Name
    BY <1>3, <2>1 DEF Fits
  <2>3. CASE LookRaises(t) \/ MuxFails(t)
    BY <1>7, <2>1, <2>3 DEF LookRaises, MuxFails
  <2>4. CASE Find(t) \/ Lock(t)
    <3>1. PICK l \in {"serve", "lock", "mux"} : pc' = [pc EXCEPT ![t] = l]
      BY <2>4 DEF Find, Lock
    <3>2. /\ name' = [name EXCEPT ![t] = name[t]] /\ plan' = [plan EXCEPT ![t] = plan[t]]
          /\ snap' = snap /\ total' = total
      BY <1>2, <2>4 DEF Find, Lock, work, trim
    <3> QED
      BY <1>2, <1>8, <2>1, <2>2, <3>1, <3>2
  <2>5. CASE Mux(t)
    <3>1. Tail(plan[t]) \in Seq(Segment)
      BY <1>2, <2>5 DEF Mux
    <3>2. /\ name' = [name EXCEPT ![t] = name[t]] /\ plan' = [plan EXCEPT ![t] = Tail(plan[t])]
          /\ snap' = snap /\ total' = total /\ pc' = [pc EXCEPT ![t] = pc[t]]
      BY <1>2, <2>5 DEF Mux, trim
    <3> QED
      BY <1>2, <1>8, <2>1, <2>2, <3>1, <3>2
  <2> QED
    BY <1>11, <2>3, <2>4, <2>5
<1>12. ASSUME NEW t \in Thread, Store(t) PROVE TypedThreads'
  <2>1. name[t] \in Name /\ pc[t] = "mux"
    BY <1>3, <1>12 DEF Fits, Store
  <2>2. fresh' = [u \in Thread |-> fresh[u] \cup ({name[t]} \cap ToSet(snap[u]))]
    BY <1>12 DEF Store
  <2>3. fresh' \in [Thread -> SUBSET Name]
    BY <1>1, <2>1, <2>2
  <2>4. \A u \in Thread : pc[u] \notin {"stat", "pop"} => fresh'[u] = {}
    <3> SUFFICES ASSUME NEW u \in Thread, pc[u] \notin {"stat", "pop"} PROVE fresh'[u] = {}
      OBVIOUS
    <3>1. ToSet(snap[u]) = {} /\ fresh[u] = {}
      BY <1>4 DEF ToSet
    <3> QED
      BY <2>2, <3>1
  <2>5. Fits("list", name[t], snap[t], fresh'[t])
    BY <1>4, <2>1, <2>4 DEF Fits
  <2>6. /\ name' = [name EXCEPT ![t] = name[t]] /\ plan' = [plan EXCEPT ![t] = plan[t]]
        /\ snap' = [snap EXCEPT ![t] = snap[t]] /\ total' = [total EXCEPT ![t] = total[t]]
        /\ pc' = [pc EXCEPT ![t] = "list"]
    BY <1>2, <1>12 DEF Store, trim
  <2> QED
    BY <1>2, <2>3, <2>4, <2>5, <2>6, TypeMove
<1>13. ASSUME NEW t \in Thread, Trim(t) PROVE TypedThreads'
  <2>1. CASE TrimList(t)
    <3> DEFINE q == [i \in 1..Len(files) |-> files[i].name]
    <3>1. Len(files) \in Nat /\ \A i \in 1..Len(files) : files[i].name \in Name
      BY <1>5 DEF Sized, Names
    <3>2. q \in Seq(Name) /\ Len(q) = Len(files)
      BY <3>1
    <3>3. \A a, b \in 1..Len(q) : q[a] = q[b] => a = b
      BY <1>5, <3>2 DEF Distinct
    <3>4. /\ pc[t] = "list" /\ pc' = [pc EXCEPT ![t] = "stat"] /\ name' = name /\ plan' = plan
          /\ snap' = [snap EXCEPT ![t] = q] /\ total' = [total EXCEPT ![t] = total[t]] /\ fresh' = fresh
      BY <1>2, <2>1 DEF TrimList, work, history
    <3> HIDE DEF q
    <3> QED
      BY <1>1, <1>2, <1>9, <3>2, <3>3, <3>4
  <2>2. CASE TrimStat(t)
    <3> DEFINE q == Listed(t)
    <3>1. q \in Seq(Names(files)) /\ \A a, b \in 1..Len(q) : q[a] = q[b] => a = b
      <4>1. \E S : files \in Seq(S)
        BY <1>5 DEF Sized
      <4> QED
        BY <1>5, <4>1, ListedSorted
    <3>2. Weight(files, ToSet(snap[t])) \in Int
      BY <1>5, StoredFinite
    <3>3. /\ pc[t] = "stat" /\ pc' = [pc EXCEPT ![t] = "pop"] /\ name' = name /\ plan' = plan
          /\ snap' = [snap EXCEPT ![t] = q] /\ total' = [total EXCEPT ![t] = Weight(files, ToSet(snap[t]))]
          /\ fresh' = fresh
      BY <2>2 DEF TrimStat, work, history
    <3> HIDE DEF q
    <3>4. q \in Seq(Name)
      BY <1>5, <3>1, SeqMonotonic
    <3> QED
      BY <1>1, <1>9, <3>1, <3>2, <3>3, <3>4
  <2>3. CASE TrimPop(t)
    <3> DEFINE q == Tail(snap[t])
               x == total[t] - Weight(files, {Head(snap[t])})
    <3>1. /\ pc[t] = "pop" /\ snap[t] # <<>> /\ name' = name /\ plan' = plan
          /\ snap' = [snap EXCEPT ![t] = q] /\ total' = [total EXCEPT ![t] = x]
          /\ fresh' = [fresh EXCEPT ![t] = fresh[t] \ {Head(snap[t])}]
          /\ pc' = [pc EXCEPT ![t] = "pop"]
      BY <1>2, <2>3 DEF TrimPop, Over, Forget, work
    <3>2. \A a, b \in 1..Len(snap[t]) : snap[t][a] = snap[t][b] => a = b
      BY <1>3 DEF Fits
    <3>3. q \in Seq(Name) /\ \A a, b \in 1..Len(q) : q[a] = q[b] => a = b
      BY <1>2, <3>1, <3>2, TailOf
    <3>4. x \in Int
      BY <1>2, <1>5, StoredFinite
    <3> HIDE DEF q, x
    <3>5. fresh' \in [Thread -> SUBSET Name] /\ \A u \in Thread \ {t} : fresh'[u] = fresh[u]
      BY <1>1, <3>1
    <3> QED
      BY <1>9, <3>1, <3>3, <3>4, <3>5
  <2>4. CASE TrimGivesUp(t) \/ TrimDone(t)
    <3>1. pc[t] \in {"stat", "pop"} /\ TrimOver(t) /\ name' = name /\ plan' = plan
      BY <2>4 DEF TrimGivesUp, TrimDone, work
    <3>2. /\ pc' = [pc EXCEPT ![t] = "serve"] /\ snap' = [snap EXCEPT ![t] = <<>>]
          /\ total' = [total EXCEPT ![t] = 0] /\ fresh' = [fresh EXCEPT ![t] = {}]
      BY <3>1 DEF TrimOver
    <3>3. fresh' \in [Thread -> SUBSET Name] /\ fresh'[t] = {} /\ \A u \in Thread \ {t} : fresh'[u] = fresh[u]
      BY <1>1, <3>2
    <3>4. \A a, b \in 1..Len(<<>>) : <<>>[a] = <<>>[b] => a = b
      OBVIOUS
    <3> QED
      BY <1>6, <1>9, <3>1, <3>2, <3>3, <3>4
  <2> QED
    BY <1>13, <2>1, <2>2, <2>3, <2>4 DEF Trim
<1>14. ASSUME NEW h \in Handler, Serve(h) PROVE TypedThreads'
  <2>1. h \in Thread
    BY DEF Thread
  <2>2. CASE Answer(h)
    BY <1>7, <2>1, <2>2 DEF Answer, history
  <2>3. ASSUME NEW w \in Worker, Prefetch(h, w) PROVE TypedThreads'
    <3>1. w \in Thread /\ w # h
      BY ThreadAssumption DEF Thread
    <3> DEFINE n == OfSegment(name[h].from + 1)
    <3>2. /\ pc' = [pc EXCEPT ![h] = "answer", ![w] = "start"] /\ name' = [name EXCEPT ![w] = n]
          /\ pc[h] = "serve" /\ pc[w] = "idle" /\ ~name[h].clip
          /\ plan' = plan /\ snap' = snap /\ total' = total /\ fresh' = fresh
      BY <2>3 DEF Prefetch, work, trim, history
    <3>3. n \in Asked
      <4>1. name[h] \in Name
        BY <1>3, <2>1, <3>2 DEF Fits
      <4>2. PICK s \in Segment : name[h] = OfSegment(s)
        BY <3>2, <4>1 DEF Name, OfClip
      <4>3. n = OfSegment(s + 1) /\ s + 1 \in Nat
        BY <4>2, SizeAssumption DEF OfSegment, Segment
      <4>4. s + 1 \in Segment \/ s + 1 = N + 1
        BY SizeAssumption DEF Segment
      <4> QED
        BY <4>3, <4>4 DEF Asked, Name
    <3> HIDE DEF n
    <3>4. /\ pc'[h] = "answer" /\ pc'[w] = "start" /\ name' \in [Thread -> Asked \cup {NoName}]
          /\ \A u \in Thread \ {w} : name'[u] = name[u]
          /\ \A u \in Thread \ {h, w} : pc'[u] = pc[u]
      BY <1>1, <2>1, <3>1, <3>2, <3>3
    <3>5. \A u \in Thread : Fits(pc'[u], name'[u], snap'[u], fresh'[u])
      <4> TAKE u \in Thread
      <4>1. CASE u \in {h, w}
        BY <1>4, <2>1, <3>1, <3>2, <3>4, <4>1 DEF Fits
      <4>2. CASE u \notin {h, w}
        BY <1>3, <3>2, <3>4, <4>2 DEF Fits
      <4> QED
        BY <4>1, <4>2
    <3>6. (\A u \in Thread : Fits(pc[u], name[u], snap[u], fresh[u]))'
      BY <3>5 DEF Fits
    <3> QED
      BY <1>1, <3>2, <3>4, <3>6 DEF TypedThreads
  <2> QED
    BY <1>14, <2>2, <2>3 DEF Serve
<1>15. ASSUME NEW w \in Worker, Warmed(w) PROVE TypedThreads'
  BY <1>7, <1>15 DEF Warmed, Thread, history
<1>16. CASE (\E s \in Segment : Record(s) \/ Close(s) \/ Lose(s)) \/ UNCHANGED vars
  <2>1. pc' = pc /\ name' = name /\ plan' = plan /\ snap' = snap /\ total' = total /\ fresh' = fresh
    BY <1>16 DEF Record, Close, Lose, vars, work, trim, history
  <2>2. (\A u \in Thread : Fits(pc[u], name[u], snap[u], fresh[u]))'
    BY <1>3, <2>1 DEF Fits
  <2> QED
    BY <1>1, <2>1, <2>2 DEF TypedThreads
<1>17. CASE Restart
  BY <1>17 DEF Restart, TypedThreads, Fits
<1> QED
  BY <1>10, <1>11, <1>12, <1>13, <1>14, <1>15, <1>16, <1>17 DEF Next, Build

LEMMA TypeStep == TypeInv /\ [Next]_vars => TypeInv'
  BY LockStep, KindsStep, CutFiles, CutThreads, TypeFiles, TypeThreads DEF TypeInv, CutInv, LockInv

\* Names that differ are as many as the files.
LEMMA DistinctCount ==
  ASSUME NEW fs, Distinct(fs), Len(fs) \in Nat
  PROVE  Cardinality(Names(fs)) = Len(fs)
<1> DEFINE f == [i \in 1..Len(fs) |-> fs[i].name]
<1>1. f \in Surjection(1..Len(fs), Names(fs))
  BY DEF Names, Surjection
<1>2. f \in Injection(1..Len(fs), Names(fs))
  BY <1>1 DEF Distinct, Injection, Surjection, IsInjective
<1> DEFINE m == Len(fs)
<1> HIDE DEF f, m
<1>3. m \in Nat
  BY DEF m
<1>4. IsFiniteSet(1..m) /\ Cardinality(1..m) = m
  BY <1>3, FS_Interval
<1>5. f \in Surjection(1..m, Names(fs)) /\ f \in Injection(1..m, Names(fs))
  BY <1>1, <1>2 DEF m
<1>6. Cardinality(Names(fs)) = Cardinality(1..m)
  BY <1>4, <1>5, FS_Surjection
<1> QED
  BY <1>4, <1>6 DEF m

\* The variables keep their types, whatever the threads, the recorder and the
\* deleter do and whenever the daemon is restarted.
THEOREM TypeCorrect == Spec => []TypeOK
<1>1. TypeInv => TypeOK
  <2> SUFFICES ASSUME TypeInv PROVE TypeOK
    OBVIOUS
  <2>1. video \in [Segment -> {"none", "recording", "done", "gone"}]
    BY DEF TypeInv, CutInv, Kinds
  <2>2. /\ \A i \in 1..Len(files) :
             files[i].name \in Name /\ files[i].muxed \in Seq(Copy) /\ files[i].goal \in Seq(Segment)
        /\ Cardinality(Names(files)) = Len(files)
    <3>1. Len(files) \in Nat
      BY FilesSized DEF TypeInv, Sized
    <3> QED
      BY <3>1, DistinctCount DEF TypeInv, TypedFiles, CutInv, Filed, Complete, Stands, Names
  <2>3. /\ lock \in Thread \cup {Nobody} /\ pc \in [Thread -> Location]
        /\ \A t \in Thread : pc[t] = "mux" <=> lock = t
    BY DEF TypeInv, LockInv, Held
  <2>4. \A t \in Thread : made[t] \in Seq(Copy)
    <3> TAKE t \in Thread
    <3>1. CASE pc[t] = "mux"
      BY <3>1 DEF TypeInv, CutInv, Cutting, Cut
    <3>2. CASE pc[t] # "mux"
      <4>1. made[t] = <<>> /\ <<>> \in Seq(Copy)
        BY <3>2 DEF TypeInv, CutInv, Cutting
      <4> QED
        BY <4>1
    <3> QED
      BY <3>1, <3>2
  <2>5. /\ name \in [Thread -> Asked \cup {NoName}]
        /\ \A t \in Thread : {plan[t], goal[t]} \subseteq Seq(Segment)
        /\ \A t \in Thread : snap[t] \in Seq(Name) /\ total[t] \in Int
        /\ owed \subseteq Name /\ fresh \in [Thread -> SUBSET Name]
    BY DEF TypeInv, CutInv, Cutting, TypedFiles, TypedThreads
  <2> QED
    BY <2>1, <2>2, <2>3, <2>4, <2>5 DEF TypeOK
<1>2. Init => TypeInv
  BY LockInit, CutInit, TypeInit DEF TypeInv
<1> QED
  BY <1>1, <1>2, TypeStep, PTL DEF Spec

-----------------------------------------------------------------------------
(* Which steps are a trim's.                                                *)

\* The steps that store a file or move a trim on.
Moves(t) == Store(t) \/ TrimList(t) \/ TrimStat(t) \/ TrimPop(t) \/ TrimGivesUp(t) \/ TrimDone(t)

\* No trim moves, none starts, and the files stay as they are.
Calm ==
  /\ files' = files /\ owed' = owed
  /\ \A u \in Thread :
       IF pc[u] \in {"list", "stat", "pop"}
       THEN /\ pc'[u] = pc[u] /\ name'[u] = name[u] /\ snap'[u] = snap[u]
            /\ total'[u] = total[u] /\ fresh'[u] = fresh[u]
       ELSE pc'[u] \notin {"list", "stat", "pop"}

LEMMA Apart ==
  ASSUME TypeInv, [Next]_vars
  PROVE  (\E t \in Thread : Moves(t)) \/ Restart \/ Calm
<1> USE DEF Goto
<1>1. /\ pc \in [Thread -> Location] /\ name \in [Thread -> Asked \cup {NoName}]
      /\ snap \in [Thread -> Seq(Name)] /\ total \in [Thread -> Int]
      /\ fresh \in [Thread -> SUBSET Name]
  BY DEF TypeInv, LockInv, Held, TypedThreads
<1>2. ASSUME NEW t \in Thread, NEW l, NEW n, NEW q, NEW x, l \notin {"list", "stat", "pop"},
             pc[t] \notin {"list", "stat", "pop"},
             files' = files, owed' = owed, fresh' = fresh, pc' = [pc EXCEPT ![t] = l],
             name' = [name EXCEPT ![t] = n], snap' = [snap EXCEPT ![t] = q],
             total' = [total EXCEPT ![t] = x]
      PROVE  Calm
  <2>1. /\ pc'[t] = l
        /\ \A u \in Thread \ {t} : /\ pc'[u] = pc[u] /\ name'[u] = name[u] /\ snap'[u] = snap[u]
                                   /\ total'[u] = total[u] /\ fresh'[u] = fresh[u]
    BY <1>1, <1>2
  <2> QED
    BY <1>2, <2>1 DEF Calm
<1>3. \A t \in Thread :
        /\ name = [name EXCEPT ![t] = name[t]] /\ snap = [snap EXCEPT ![t] = snap[t]]
        /\ total = [total EXCEPT ![t] = total[t]] /\ pc = [pc EXCEPT ![t] = pc[t]]
  BY <1>1
<1>4. ASSUME NEW t \in Thread, Quit(t), pc[t] \notin {"list", "stat", "pop"}, files' = files, UNCHANGED history
      PROVE  Calm
  BY <1>2, <1>4 DEF Quit, history
<1>5. ASSUME NEW t \in Thread, NEW n \in Asked, NoSource(t, n) \/ Plan(t, n)
      PROVE  Calm
  <2>1. pc[t] \in {"idle", "start"}
    BY <1>5 DEF NoSource, Plan, Wanted
  <2>2. CASE NoSource(t, n)
    BY <1>4, <2>1, <2>2 DEF NoSource
  <2>3. CASE Plan(t, n)
    <3>1. /\ pc' = [pc EXCEPT ![t] = "find"] /\ name' = [name EXCEPT ![t] = n]
          /\ snap' = [snap EXCEPT ![t] = snap[t]] /\ total' = [total EXCEPT ![t] = total[t]]
          /\ files' = files /\ owed' = owed /\ fresh' = fresh
      BY <1>3, <2>3 DEF Plan, trim, history
    <3>2. "find" \notin {"list", "stat", "pop"} /\ pc[t] \notin {"list", "stat", "pop"}
      BY <2>1
    <3> QED
      BY <1>2, <3>1, <3>2
  <2> QED
    BY <1>5, <2>2, <2>3
<1>6. ASSUME NEW t \in Thread, Find(t) \/ LookRaises(t) \/ Lock(t) \/ Mux(t) \/ MuxFails(t)
      PROVE  Calm
  <2>1. pc[t] \in {"find", "lock", "mux"}
    BY <1>6 DEF Find, LookRaises, Lock, Mux, MuxFails
  <2>2. CASE LookRaises(t) \/ MuxFails(t)
    BY <1>4, <2>1, <2>2 DEF LookRaises, MuxFails
  <2>3. CASE Find(t) \/ Lock(t) \/ Mux(t)
    <3>1. PICK l \in {"serve", "lock", "mux"} : pc' = [pc EXCEPT ![t] = l]
      BY <1>3, <2>3 DEF Find, Lock, Mux
    <3>2. /\ files' = files /\ owed' = owed /\ fresh' = fresh
          /\ name' = [name EXCEPT ![t] = name[t]] /\ snap' = [snap EXCEPT ![t] = snap[t]]
          /\ total' = [total EXCEPT ![t] = total[t]]
      BY <1>3, <2>3 DEF Find, Lock, Mux, work, trim, history
    <3>3. l \notin {"list", "stat", "pop"} /\ pc[t] \notin {"list", "stat", "pop"}
      BY <2>1
    <3> QED
      BY <1>2, <3>1, <3>2, <3>3
  <2> QED
    BY <1>6, <2>2, <2>3
<1>7. ASSUME NEW h \in Handler, Serve(h) PROVE Calm
  <2>1. h \in Thread
    BY DEF Thread
  <2>2. CASE Answer(h)
    BY <1>4, <2>1, <2>2 DEF Answer
  <2>3. ASSUME NEW w \in Worker, Prefetch(h, w) PROVE Calm
    <3>1. w \in Thread /\ w # h
      BY ThreadAssumption DEF Thread
    <3>2. /\ pc' = [pc EXCEPT ![h] = "answer", ![w] = "start"]
          /\ name' = [name EXCEPT ![w] = OfSegment(name[h].from + 1)]
          /\ pc[h] = "serve" /\ pc[w] = "idle" /\ snap' = snap /\ total' = total /\ fresh' = fresh
          /\ files' = files /\ owed' = owed
      BY <2>3 DEF Prefetch, trim, history
    <3>3. /\ pc'[h] = "answer" /\ pc'[w] = "start"
          /\ \A u \in Thread \ {h, w} : pc'[u] = pc[u] /\ name'[u] = name[u]
      BY <1>1, <2>1, <3>1, <3>2
    <3> QED
      BY <3>2, <3>3 DEF Calm
  <2> QED
    BY <1>7, <2>2, <2>3 DEF Serve
<1>8. ASSUME NEW w \in Worker, Warmed(w) PROVE Calm
  BY <1>4, <1>8 DEF Warmed, Thread
<1>9. CASE (\E s \in Segment : Record(s) \/ Close(s) \/ Lose(s)) \/ UNCHANGED vars
  <2>1. /\ pc' = pc /\ name' = name /\ snap' = snap /\ total' = total /\ fresh' = fresh
        /\ files' = files /\ owed' = owed
    BY <1>9 DEF Record, Close, Lose, vars, trim, history
  <2> QED
    BY <2>1 DEF Calm
<1> QED
  BY <1>5, <1>6, <1>7, <1>8, <1>9 DEF Next, Build, Trim, Moves

-----------------------------------------------------------------------------
(* The oldest file first.                                                   *)

\* The files of trim t's list that are as they were when it listed them.
Counted(t) == ToSet(snap[t]) \ fresh[t]

\* Whatever is older than a name of C is of C.
Closed(fs, C) ==
  \A i, j \in 1..Len(fs) : i < j /\ fs[j].name \in C => fs[i].name \in C

\* A list is by age, but for what is built again.
ByAge(fs, q, again) ==
  \A a, b \in 1..Len(q), i, j \in 1..Len(fs) :
    /\ a < b /\ fs[i].name = q[a] /\ fs[j].name = q[b]
    /\ q[a] \notin again /\ q[b] \notin again
    => i < j

Ordered ==
  \A t \in Thread :
    /\ Closed(files, Counted(t))
    /\ pc[t] = "pop" => ByAge(files, snap[t], fresh[t])

OrderInv == TypeInv /\ Ordered

LEMMA OrderWithout ==
  ASSUME NEW fs, Sized(fs), Distinct(fs), NEW n
  PROVE  /\ \A C : Closed(fs, C) => Closed(Without(fs, n), C \ {n}) /\ Closed(Without(fs, n), C)
         /\ \A q, again : ByAge(fs, q, again) => ByAge(Without(fs, n), q, again)
<1> DEFINE w == Without(fs, n)
<1>1. PICK R : fs \in Seq(R)
  BY DEF Sized
<1>2. PICK g \in [1..Len(w) -> 1..Len(fs)] :
        /\ \A j \in 1..Len(w) : w[j] = fs[g[j]]
        /\ \A j, l \in 1..Len(w) : j < l => g[j] < g[l]
        /\ \A j \in 1..Len(w) : w[j].name # n
  BY <1>1, WithoutPlaces
<1>3. w \in Seq(R)
  BY <1>1, WithoutPlaces
<1> HIDE DEF w
<1>4. ASSUME NEW C, Closed(fs, C) PROVE Closed(w, C \ {n}) /\ Closed(w, C)
  <2>1. ASSUME NEW i \in 1..Len(w), NEW j \in 1..Len(w), i < j, w[j].name \in C
        PROVE  w[i].name \in C /\ w[i].name # n
    <3>1. g[i] < g[j] /\ g[i] \in 1..Len(fs) /\ g[j] \in 1..Len(fs)
      BY <1>2, <2>1
    <3>2. fs[g[j]].name \in C
      BY <1>2, <2>1
    <3>3. fs[g[i]].name \in C
      BY <1>4, <3>1, <3>2 DEF Closed
    <3> QED
      BY <1>2, <3>3
  <2> QED
    BY <2>1 DEF Closed
<1>5. ASSUME NEW q, NEW again, ByAge(fs, q, again) PROVE ByAge(w, q, again)
  <2> SUFFICES ASSUME NEW a \in 1..Len(q), NEW b \in 1..Len(q), NEW i \in 1..Len(w), NEW j \in 1..Len(w),
                      a < b, w[i].name = q[a], w[j].name = q[b], q[a] \notin again, q[b] \notin again
               PROVE  i < j
    BY DEF ByAge
  <2>1. g[i] \in 1..Len(fs) /\ g[j] \in 1..Len(fs) /\ fs[g[i]].name = q[a] /\ fs[g[j]].name = q[b]
    BY <1>2
  <2>2. g[i] < g[j]
    BY <1>5, <2>1 DEF ByAge
  <2>3. i \in Nat /\ j \in Nat /\ g[i] \in Nat /\ g[j] \in Nat
    BY <1>1, <1>3, <2>1
  <2>4. ~(j < i) /\ i # j
    BY <1>2, <2>2, <2>3
  <2> QED
    BY <2>3, <2>4
<1> QED
  BY <1>4, <1>5 DEF w

LEMMA OrderAppend ==
  ASSUME NEW fs, Sized(fs), NEW x, Len(x.muxed) \in Nat, x.name \notin Names(fs)
  PROVE  /\ \A C : Closed(fs, C) => Closed(Append(fs, x), C \ {x.name})
         /\ \A S, q, again : q \in Seq(S) /\ ByAge(fs, q, again)
              => ByAge(Append(fs, x), q, again \cup ({x.name} \cap ToSet(q)))
<1> DEFINE e == Append(fs, x)
<1>1. /\ Len(e) = Len(fs) + 1 /\ e[Len(fs) + 1] = x /\ Len(fs) \in Nat
      /\ \A i \in 1..Len(fs) : e[i] = fs[i]
  BY Appended
<1> HIDE DEF e
<1>2. \A i \in 1..Len(e) : i \in 1..Len(fs) \/ i = Len(fs) + 1
  BY <1>1
<1>3. \A i \in 1..Len(fs) : fs[i].name # x.name
  BY DEF Names
<1>4. ASSUME NEW C, Closed(fs, C) PROVE Closed(e, C \ {x.name})
  <2> SUFFICES ASSUME NEW i \in 1..Len(e), NEW j \in 1..Len(e), i < j, e[j].name \in C \ {x.name}
               PROVE  e[i].name \in C \ {x.name}
    BY DEF Closed
  <2>1. j \in 1..Len(fs)
    BY <1>1, <1>2
  <2>2. i \in 1..Len(fs)
    BY <1>1, <1>2, <2>1
  <2>3. fs[i].name \in C
    BY <1>1, <1>4, <2>1, <2>2 DEF Closed
  <2> QED
    BY <1>1, <1>3, <2>2, <2>3
<1>5. ASSUME NEW S, NEW q, NEW again, q \in Seq(S), ByAge(fs, q, again)
      PROVE  ByAge(e, q, again \cup ({x.name} \cap ToSet(q)))
  <2> SUFFICES ASSUME NEW a \in 1..Len(q), NEW b \in 1..Len(q), NEW i \in 1..Len(e), NEW j \in 1..Len(e),
                      a < b, e[i].name = q[a], e[j].name = q[b],
                      q[a] \notin again \cup ({x.name} \cap ToSet(q)),
                      q[b] \notin again \cup ({x.name} \cap ToSet(q))
               PROVE  i < j
    BY DEF ByAge
  <2>1. q[a] \in ToSet(q) /\ q[b] \in ToSet(q)
    <3>1. DOMAIN q = 1..Len(q)
      BY <1>5
    <3> QED
      BY <3>1 DEF ToSet
  <2>2. q[a] # x.name /\ q[b] # x.name
    BY <2>1
  <2>3. i \in 1..Len(fs) /\ j \in 1..Len(fs)
    BY <1>1, <1>2, <2>2
  <2> QED
    BY <1>1, <1>5, <2>3 DEF ByAge
<1> QED
  BY <1>4, <1>5 DEF e

LEMMA OrderInit == Init => Ordered
<1> SUFFICES ASSUME Init PROVE Ordered
  OBVIOUS
<1>1. files = <<>> /\ \A t \in Thread : pc[t] = "idle"
  BY DEF Init
<1>2. \A C : Closed(<<>>, C)
  BY DEF Closed
<1> QED
  BY <1>1, <1>2 DEF Ordered

LEMMA OrderStep == ASSUME OrderInv, [Next]_vars PROVE Ordered'
<1>1. /\ Sized(files) /\ Distinct(files) /\ TypeInv
      /\ pc \in [Thread -> Location] /\ snap \in [Thread -> Seq(Name)] /\ fresh \in [Thread -> SUBSET Name]
  BY FilesSized DEF OrderInv, TypeInv, TypedFiles, TypedThreads, LockInv, Held
<1>2. TypeInv'
  BY TypeStep DEF OrderInv
<1>3. \A u \in Thread : /\ Closed(files, Counted(u))
                        /\ pc[u] = "pop" => ByAge(files, snap[u], fresh[u])
  BY DEF OrderInv, Ordered
<1>4. \A u \in Thread : pc'[u] \notin {"stat", "pop"} => Closed(files', Counted(u)')
  <2> SUFFICES ASSUME NEW u \in Thread, pc'[u] \notin {"stat", "pop"} PROVE Closed(files', Counted(u)')
    OBVIOUS
  <2>1. snap'[u] = <<>>
    BY <1>2 DEF TypeInv, TypedThreads, Fits
  <2>2. Counted(u)' = {}
    BY <2>1 DEF Counted, ToSet
  <2> QED
    BY <2>2 DEF Closed
\* A thread that the step leaves alone, and the files too.
<1>5. ASSUME NEW u \in Thread, files' = files, pc'[u] = pc[u], snap'[u] = snap[u], fresh'[u] = fresh[u]
      PROVE  Closed(files', Counted(u)') /\ (pc'[u] = "pop" => ByAge(files', snap'[u], fresh'[u]))
  BY <1>3, <1>5 DEF Counted
<1>6. ASSUME \A u \in Thread : /\ Closed(files', Counted(u)')
                               /\ pc'[u] = "pop" => ByAge(files', snap'[u], fresh'[u])
      PROVE  Ordered'
  <2>1. (\A u \in Thread : /\ Closed(files, Counted(u))
                           /\ pc[u] = "pop" => ByAge(files, snap[u], fresh[u]))'
    BY <1>6 DEF Closed, ByAge
  <2> QED
    BY <2>1 DEF Ordered
<1>7. CASE Calm
  <2>1. ASSUME NEW u \in Thread
        PROVE  Closed(files', Counted(u)') /\ (pc'[u] = "pop" => ByAge(files', snap'[u], fresh'[u]))
    <3>1. CASE pc[u] \in {"list", "stat", "pop"}
      BY <1>5, <1>7, <3>1 DEF Calm
    <3>2. CASE pc[u] \notin {"list", "stat", "pop"}
      <4>1. pc'[u] \notin {"list", "stat", "pop"}
        BY <1>7, <3>2 DEF Calm
      <4> QED
        BY <1>4, <4>1
    <3> QED
      BY <3>1, <3>2
  <2> QED
    BY <1>6, <2>1
<1>8. CASE Restart
  <2>1. \A u \in Thread : pc'[u] = "idle"
    BY <1>8 DEF Restart
  <2> QED
    BY <1>4, <1>6, <2>1
<1>9. ASSUME NEW t \in Thread, Store(t) PROVE Ordered'
  <2> DEFINE x == [name |-> name[t], muxed |-> made[t], goal |-> goal[t]]
  <2>1. x.name \notin Names(files) /\ files' = Append(files, x)
    BY <1>1, <1>9, StoreAppends DEF TypeInv
  <2>2. Len(x.muxed) \in Nat
    BY <1>1, <1>9 DEF Store, TypeInv, CutInv, Cutting, Cut
  <2> HIDE DEF x
  <2>3. /\ \A C : Closed(files, C) => Closed(files', C \ {x.name})
        /\ \A S, q, again : q \in Seq(S) /\ ByAge(files, q, again)
             => ByAge(files', q, again \cup ({x.name} \cap ToSet(q)))
    BY <1>1, <2>1, <2>2, OrderAppend
  <2>4. /\ snap' = snap /\ fresh' = [u \in Thread |-> fresh[u] \cup ({x.name} \cap ToSet(snap[u]))]
        /\ pc' = [pc EXCEPT ![t] = "list"]
    BY <1>9 DEF Store, trim, Goto, x
  <2>5. ASSUME NEW u \in Thread
        PROVE  Closed(files', Counted(u)') /\ (pc'[u] = "pop" => ByAge(files', snap'[u], fresh'[u]))
    <3>1. /\ fresh'[u] = fresh[u] \cup ({x.name} \cap ToSet(snap[u])) /\ snap'[u] = snap[u]
          /\ pc'[u] = "pop" => pc[u] = "pop"
      BY <1>1, <2>4
    <3>2. Counted(u)' = Counted(u) \ {x.name}
      BY <3>1 DEF Counted
    <3>3. Closed(files', Counted(u)')
      BY <1>3, <2>3, <3>2
    <3>4. snap[u] \in Seq(Name)
      BY <1>1
    <3> QED
      BY <1>3, <2>3, <3>1, <3>3, <3>4
  <2> QED
    BY <1>6, <2>5
<1>10. ASSUME NEW t \in Thread, TrimList(t) PROVE Ordered'
  <2>1. /\ files' = files /\ fresh' = fresh /\ pc' = [pc EXCEPT ![t] = "stat"] /\ pc[t] = "list"
        /\ snap' = [snap EXCEPT ![t] = [i \in 1..Len(files) |-> files[i].name]]
    BY <1>10 DEF TrimList, history, Goto
  <2>2. /\ pc'[t] = "stat" /\ fresh[t] = {} /\ snap'[t] = [i \in 1..Len(files) |-> files[i].name]
        /\ \A u \in Thread \ {t} : pc'[u] = pc[u] /\ snap'[u] = snap[u]
    BY <1>1, <2>1 DEF TypeInv, TypedThreads, Fits
  <2>3. Counted(t)' = Names(files)
    <3>1. ToSet(snap'[t]) = Names(files)
      BY <2>2 DEF ToSet, Names
    <3> QED
      BY <2>1, <2>2, <3>1 DEF Counted
  <2>4. Closed(files', Counted(t)')
    BY <2>1, <2>3 DEF Closed, Names
  <2> QED
    BY <1>5, <1>6, <2>1, <2>2, <2>4
<1>11. ASSUME NEW t \in Thread, TrimStat(t) PROVE Ordered'
  <2>1. /\ files' = files /\ fresh' = fresh /\ pc' = [pc EXCEPT ![t] = "pop"] /\ pc[t] = "stat"
        /\ snap' = [snap EXCEPT ![t] = Listed(t)] /\ ToSet(snap[t]) \subseteq Names(files)
    BY <1>11 DEF TrimStat, history, Goto
  <2>2. /\ pc'[t] = "pop" /\ snap'[t] = Listed(t)
        /\ \A u \in Thread \ {t} : pc'[u] = pc[u] /\ snap'[u] = snap[u]
    BY <1>1, <2>1
  <2>3. /\ ToSet(Listed(t)) = ToSet(snap[t]) \cap Names(files)
        /\ \A a, b \in 1..Len(Listed(t)), i, j \in 1..Len(files) :
             a < b /\ files[i].name = Listed(t)[a] /\ files[j].name = Listed(t)[b] => i < j
    <3>1. \E S : files \in Seq(S)
      BY <1>1 DEF Sized
    <3> QED
      BY <1>1, <3>1, ListedSorted
  <2>4. Counted(t)' = Counted(t)
    BY <2>1, <2>2, <2>3 DEF Counted
  <2>5. ByAge(files', snap'[t], fresh'[t])
    BY <2>1, <2>2, <2>3 DEF ByAge
  <2> QED
    BY <1>3, <1>5, <1>6, <2>1, <2>2, <2>4, <2>5
<1>12. ASSUME NEW t \in Thread, TrimPop(t) PROVE Ordered'
  <2> DEFINE n == Head(snap[t])
             q == snap[t]
  <2>1. /\ files' = Without(files, n) /\ fresh' = [fresh EXCEPT ![t] = fresh[t] \ {n}] /\ pc' = pc
        /\ snap' = [snap EXCEPT ![t] = Tail(q)] /\ q # <<>> /\ pc[t] = "pop"
    BY <1>12 DEF TrimPop, Forget, Over
  <2>2. /\ fresh'[t] = fresh[t] \ {n} /\ snap'[t] = Tail(q) /\ q \in Seq(Name)
        /\ \A u \in Thread \ {t} : fresh'[u] = fresh[u] /\ snap'[u] = snap[u]
    BY <1>1, <2>1
  <2>3. \A a, b \in 1..Len(q) : q[a] = q[b] => a = b
    BY <1>1 DEF TypeInv, TypedThreads, Fits
  <2> HIDE DEF q
  <2>4. /\ \A a \in 1..Len(Tail(q)) : Tail(q)[a] = q[a + 1] /\ a + 1 \in 1..Len(q)
        /\ Tail(q) \in Seq(Name) /\ Len(Tail(q)) = Len(q) - 1 /\ Len(q) \in Nat \ {0}
        /\ Head(q) = q[1] /\ ToSet(Tail(q)) = ToSet(q) \ {Head(q)}
    BY <2>1, <2>2, <2>3, TailOf
  <2>5. n = q[1] /\ ToSet(Tail(q)) = ToSet(q) \ {n}
    BY <2>4 DEF q
  <2> HIDE DEF n
  <2>6. /\ \A C : Closed(files, C) => Closed(files', C \ {n}) /\ Closed(files', C)
        /\ \A r, again : ByAge(files, r, again) => ByAge(files', r, again)
    BY <1>1, <2>1, OrderWithout
  <2>7. Counted(t)' = Counted(t) \ {n}
    BY <2>2, <2>5 DEF Counted, q
  <2>8. ByAge(files', Tail(q), fresh[t] \ {n})
    <3>1. ByAge(files', q, fresh[t])
      BY <1>3, <2>1, <2>6 DEF q
    <3> SUFFICES ASSUME NEW a \in 1..Len(Tail(q)), NEW b \in 1..Len(Tail(q)),
                        NEW i \in 1..Len(files'), NEW j \in 1..Len(files'),
                        a < b, files'[i].name = Tail(q)[a], files'[j].name = Tail(q)[b],
                        Tail(q)[a] \notin fresh[t] \ {n}, Tail(q)[b] \notin fresh[t] \ {n}
                 PROVE  i < j
      BY DEF ByAge
    <3>2. /\ a + 1 \in 1..Len(q) /\ b + 1 \in 1..Len(q) /\ a + 1 < b + 1 /\ a + 1 # 1 /\ b + 1 # 1
          /\ Tail(q)[a] = q[a + 1] /\ Tail(q)[b] = q[b + 1] /\ 1 \in 1..Len(q)
      BY <2>4
    <3>3. q[a + 1] # n /\ q[b + 1] # n
      BY <2>3, <2>5, <3>2
    <3>4. q[a + 1] \notin fresh[t] /\ q[b + 1] \notin fresh[t]
      BY <3>2, <3>3
    <3> QED
      BY <3>1, <3>2, <3>4 DEF ByAge
  <2>9. ASSUME NEW u \in Thread \ {t}
        PROVE  Closed(files', Counted(u)') /\ (pc'[u] = "pop" => ByAge(files', snap'[u], fresh'[u]))
    <3>1. Counted(u)' = Counted(u)
      BY <2>2 DEF Counted
    <3> QED
      BY <1>3, <2>1, <2>2, <2>6, <3>1
  <2>10. Closed(files', Counted(t)') /\ (pc'[t] = "pop" => ByAge(files', snap'[t], fresh'[t]))
    BY <1>3, <2>2, <2>6, <2>7, <2>8
  <2> QED
    BY <1>6, <2>9, <2>10
<1>13. ASSUME NEW t \in Thread, TrimGivesUp(t) \/ TrimDone(t) PROVE Ordered'
  <2>1. /\ files' = files /\ pc' = [pc EXCEPT ![t] = "serve"] /\ snap' = [snap EXCEPT ![t] = <<>>]
        /\ fresh' = [fresh EXCEPT ![t] = {}]
    BY <1>13 DEF TrimGivesUp, TrimDone, TrimOver, Goto
  <2>2. /\ pc'[t] = "serve"
        /\ \A u \in Thread \ {t} : pc'[u] = pc[u] /\ snap'[u] = snap[u] /\ fresh'[u] = fresh[u]
    BY <1>1, <2>1
  <2> QED
    BY <1>4, <1>5, <1>6, <2>1, <2>2
<1> QED
  BY <1>1, <1>7, <1>8, <1>9, <1>10, <1>11, <1>12, <1>13, Apart DEF Moves

\* A trim takes the oldest file there is, but for one that another trim removed and a
\* request built again since this trim listed the cache (_trim_cam_cache).
THEOREM TrimOldestCorrect == Spec => TrimOldest
<1> DEFINE A == \A n \in Names(files) \ Names(files') :
                  \/ n = files[1].name
                  \/ \E t \in Thread : snap[t] # <<>> /\ n = Head(snap[t]) /\ n \in fresh[t]
<1>1. ASSUME OrderInv, [Next]_vars PROVE [A]_vars
  <2> SUFFICES ASSUME NEW n \in Names(files) \ Names(files')
               PROVE  \/ n = files[1].name
                      \/ \E t \in Thread : snap[t] # <<>> /\ n = Head(snap[t]) /\ n \in fresh[t]
    OBVIOUS
  <2>1. Sized(files) /\ Distinct(files) /\ TypeInv /\ snap \in [Thread -> Seq(Name)]
    BY <1>1, FilesSized DEF OrderInv, TypeInv, TypedFiles, TypedThreads
  <2>2. PICK t \in Thread : TrimPop(t)
    <3>1. ASSUME NEW t \in Thread, Store(t) PROVE FALSE
      <4> DEFINE x == [name |-> name[t], muxed |-> made[t], goal |-> goal[t]]
      <4>1. files' = Append(files, x)
        BY <2>1, <3>1, StoreAppends DEF TypeInv
      <4>2. Len(x.muxed) \in Nat
        BY <2>1, <3>1 DEF Store, TypeInv, CutInv, Cutting, Cut
      <4> HIDE DEF x
      <4>3. Names(files) \subseteq Names(files')
        BY <2>1, <4>1, <4>2, Appended
      <4> QED
        BY <4>3
    <3>2. files' # files
      OBVIOUS
    <3> QED
      BY <1>1, <2>1, <3>1, <3>2, Apart
      DEF Moves, Calm, Restart, TrimList, TrimStat, TrimGivesUp, TrimDone
  <2> DEFINE q == snap[t]
             h == Head(q)
  <2>3. files' = Without(files, h) /\ q # <<>> /\ pc[t] = "pop"
    BY <2>2 DEF TrimPop, Over
  <2>4. n = h
    <3> DEFINE w == Without(files, h)
    <3>1. PICK R : files \in Seq(R)
      BY <2>1 DEF Sized
    <3>2. PICK i \in 1..Len(files) : files[i].name = n
      BY DEF Names
    <3> HIDE DEF h
    <3>3. PICK g \in [1..Len(w) -> 1..Len(files)] :
            /\ \A j \in 1..Len(w) : w[j] = files[g[j]]
            /\ \A k \in 1..Len(files) : files[k].name # h => \E j \in 1..Len(w) : g[j] = k
      BY <3>1, WithoutPlaces
    <3> HIDE DEF w
    <3>4. ASSUME n # h PROVE FALSE
      <4>1. PICK j \in 1..Len(w) : g[j] = i
        BY <3>2, <3>3, <3>4
      <4>2. w[j].name = n
        BY <3>2, <3>3, <4>1
      <4>3. n \in Names(w)
        BY <4>2 DEF Names
      <4> QED
        BY <2>3, <4>3 DEF w
    <3> QED
      BY <3>4
  <2>5. CASE h \in fresh[t]
    BY <2>3, <2>4, <2>5
  <2>6. CASE h \notin fresh[t]
    <3>1. q \in Seq(Name) /\ \A a, b \in 1..Len(q) : q[a] = q[b] => a = b
      BY <2>1 DEF TypeInv, TypedThreads, Fits
    <3>2. Closed(files, Counted(t)) /\ ByAge(files, q, fresh[t])
      BY <1>1, <2>3 DEF OrderInv, Ordered
    <3>3. Counted(t) = ToSet(q) \ fresh[t]
      BY DEF Counted
    <3> HIDE DEF q
    <3>4. h = q[1] /\ h \in ToSet(q) /\ 1 \in 1..Len(q) /\ Len(q) \in Nat
      BY <2>3, <3>1, TailOf
    <3> HIDE DEF h
    <3>5. PICK p \in 1..Len(files) : files[p].name = h
      BY <2>4 DEF Names
    <3>6. Len(files) \in Nat /\ 1 \in 1..Len(files)
      BY <2>1, <3>5 DEF Sized
    <3>7. CASE p # 1
      <4>1. files[1].name \in Counted(t)
        BY <2>6, <3>2, <3>3, <3>4, <3>5, <3>6, <3>7 DEF Closed
      <4>2. DOMAIN q = 1..Len(q)
        BY <3>1
      <4>3. PICK b \in 1..Len(q) : files[1].name = q[b]
        BY <3>3, <4>1, <4>2 DEF ToSet
      <4>4. files[1].name # h
        BY <2>1, <3>5, <3>6, <3>7 DEF Distinct
      <4>5. b # 1
        BY <3>4, <4>3, <4>4
      <4>6. 1 < b
        BY <3>4, <4>5
      <4>7. q[1] \notin fresh[t] /\ q[b] \notin fresh[t]
        BY <2>6, <3>3, <3>4, <4>1, <4>3
      <4>8. p < 1
        BY <3>2, <3>4, <3>5, <3>6, <4>3, <4>6, <4>7 DEF ByAge
      <4> QED
        BY <3>5, <3>6, <4>8
    <3> QED
      BY <2>4, <3>5, <3>7
  <2> QED
    BY <2>5, <2>6
<1>2. Init => OrderInv
  BY LockInit, CutInit, TypeInit, OrderInit DEF OrderInv, TypeInv
<1>3. OrderInv /\ [Next]_vars => OrderInv'
  BY TypeStep, OrderStep DEF OrderInv
<1>4. Spec => [][A]_vars
  BY <1>1, <1>2, <1>3, PTL DEF Spec
<1> QED
  BY <1>4 DEF TrimOldest

-----------------------------------------------------------------------------
(* The cap.                                                                 *)

Upto(fs, k) == {fs[i].name : i \in 1..k}

\* Trim t has yet to list, or has listed name n, counts it, and has counted no less
\* than there is of what it counts.
Due(t, n) ==
  \/ pc[t] = "list"
  \/ pc[t] = "stat" /\ n \in Counted(t)
  \/ pc[t] = "pop" /\ n \in Counted(t) /\ Weight(files, Counted(t)) <= total[t]

\* The same after a step.
DueNext(t, n) ==
  \/ pc'[t] = "list"
  \/ pc'[t] = "stat" /\ n \in Counted(t)'
  \/ pc'[t] = "pop" /\ n \in Counted(t)' /\ Weight(files', Counted(t)') <= total'[t]

\* Every file is owed, or the files up to it are within the cap, or its own trim is
\* still due.
Capped ==
  \A k \in 1..Len(files) :
    \/ files[k].name \in owed
    \/ Weight(files, Upto(files, k)) <= Cap
    \/ \E t \in Thread : name[t] = files[k].name /\ Due(t, files[k].name)

CapInv == OrderInv /\ Capped

\* What a trim that counts the file at k counts is all there is up to it.
LEMMA UptoCounted ==
  ASSUME NEW fs, Len(fs) \in Nat, NEW C, Closed(fs, C), NEW k \in 1..Len(fs), fs[k].name \in C
  PROVE  Upto(fs, k) \subseteq C
<1> SUFFICES ASSUME NEW i \in 1..k PROVE fs[i].name \in C
  BY DEF Upto
<1>1. i \in 1..Len(fs) /\ (i < k \/ i = k)
  OBVIOUS
<1> QED
  BY <1>1 DEF Closed

\* Removing a file leaves no more before the others.
LEMMA UptoWithout ==
  ASSUME NEW fs, Sized(fs), Distinct(fs), NEW n
  PROVE  \A j \in 1..Len(Without(fs, n)) : \E k \in 1..Len(fs) :
           /\ Without(fs, n)[j] = fs[k] /\ fs[k].name # n
           /\ Upto(Without(fs, n), j) \subseteq Upto(fs, k)
<1> DEFINE w == Without(fs, n)
<1>1. PICK R : fs \in Seq(R)
  BY DEF Sized
<1>2. PICK g \in [1..Len(w) -> 1..Len(fs)] :
        /\ \A j \in 1..Len(w) : w[j] = fs[g[j]]
        /\ \A j, l \in 1..Len(w) : j < l => g[j] < g[l]
        /\ \A j \in 1..Len(w) : w[j].name # n
  BY <1>1, WithoutPlaces
<1>3. Len(w) \in Nat /\ Len(fs) \in Nat
  BY <1>1, WithoutPlaces, LenProperties
<1> HIDE DEF w
<1> SUFFICES ASSUME NEW j \in 1..Len(w)
             PROVE  \E k \in 1..Len(fs) :
                      w[j] = fs[k] /\ fs[k].name # n /\ Upto(w, j) \subseteq Upto(fs, k)
  BY DEF w
<1>4. g[j] \in 1..Len(fs) /\ w[j] = fs[g[j]] /\ fs[g[j]].name # n
  BY <1>2
<1>5. Upto(w, j) \subseteq Upto(fs, g[j])
  <2> SUFFICES ASSUME NEW l \in 1..j PROVE w[l].name \in Upto(fs, g[j])
    BY DEF Upto
  <2>1. l \in 1..Len(w) /\ (l < j \/ l = j)
    BY <1>3
  <2>2. g[l] \in 1..Len(fs) /\ w[l] = fs[g[l]] /\ (g[l] < g[j] \/ g[l] = g[j])
    BY <1>2, <2>1
  <2>3. g[l] \in 1..g[j]
    BY <1>3, <1>4, <2>2
  <2> QED
    BY <2>2, <2>3 DEF Upto
<1> QED
  BY <1>4, <1>5

\* A step that leaves the files alone and forgives nothing: a trim that was due is
\* due still, or its file is owed, or the files up to it are within the cap.
LEMMA CapKept ==
  ASSUME CapInv, files' = files, owed \subseteq owed',
         \A k \in 1..Len(files), u \in Thread :
           name[u] = files[k].name /\ Due(u, files[k].name)
             => \/ name'[u] = files[k].name /\ DueNext(u, files[k].name)
                \/ files[k].name \in owed'
                \/ Weight(files, Upto(files, k)) <= Cap
  PROVE  Capped'
<1>1. \A k \in 1..Len(files') :
        \/ files'[k].name \in owed'
        \/ Weight(files', Upto(files', k)) <= Cap
        \/ \E u \in Thread : name'[u] = files'[k].name /\ DueNext(u, files'[k].name)
  BY DEF CapInv, Capped
<1> QED
  BY <1>1 DEF Capped, Due, DueNext, Counted

\* A trim that the step leaves alone.
LEMMA DueKept ==
  ASSUME NEW u \in Thread, NEW n, Due(u, n), pc'[u] = pc[u],
         snap'[u] = snap[u], total'[u] = total[u], fresh'[u] = fresh[u],
         Weight(files', Counted(u)) <= Weight(files, Counted(u)) \/ files' = files,
         Weight(files, Counted(u)) \in Nat, Weight(files', Counted(u)) \in Nat, total[u] \in Int
  PROVE  DueNext(u, n)
<1>1. Counted(u)' = Counted(u)
  BY DEF Counted
<1>2. Weight(files', Counted(u)) <= Weight(files, Counted(u))
  OBVIOUS
<1>3. Weight(files, Counted(u)) <= total[u] => Weight(files', Counted(u)') <= total'[u]
  BY <1>1, <1>2
<1> QED
  BY <1>1, <1>3 DEF Due, DueNext

LEMMA CapStep == ASSUME CapInv, [Next]_vars PROVE Capped'
<1>1. /\ Sized(files) /\ Distinct(files) /\ TypeInv /\ OrderInv /\ Len(files) \in Nat
      /\ pc \in [Thread -> Location] /\ snap \in [Thread -> Seq(Name)] /\ fresh \in [Thread -> SUBSET Name]
      /\ total \in [Thread -> Int] /\ name \in [Thread -> Asked \cup {NoName}]
  BY FilesSized DEF CapInv, OrderInv, TypeInv, TypedFiles, TypedThreads, LockInv, Held, Sized
<1>2. /\ \A S : Weight(files, S) \in Nat
      /\ \A S, T : S \cap Names(files) \subseteq T => Weight(files, S) <= Weight(files, T)
      /\ \A S : \A n \in S : Weight(files, S) = Weight(files, S \ {n}) + Weight(files, {n})
  BY <1>1, StoredFinite, Heavier, Share
<1>3. \A u \in Thread : Closed(files, Counted(u))
  BY <1>1 DEF OrderInv, Ordered
<1>4. \A u \in Thread : \A n : Due(u, n) => pc[u] \in {"list", "stat", "pop"}
  BY DEF Due, DueNext
<1>5. Cap \in Nat /\ \A u \in Thread : total[u] \in Int
  BY <1>1, SizeAssumption
\* A thread that the step leaves alone, as it does the files.
<1>6. ASSUME NEW u \in Thread, NEW n, Due(u, n), files' = files, pc'[u] = pc[u],
             snap'[u] = snap[u], total'[u] = total[u], fresh'[u] = fresh[u]
      PROVE  DueNext(u, n)
  BY <1>2, <1>5, <1>6, DueKept
<1>7. CASE Calm
  <2>1. \A k \in 1..Len(files), u \in Thread :
          name[u] = files[k].name /\ Due(u, files[k].name)
            => name'[u] = files[k].name /\ DueNext(u, files[k].name)
    BY <1>4, <1>6, <1>7 DEF Calm
  <2> QED
    BY <1>7, <2>1, CapKept DEF Calm
<1>8. CASE Restart
  <2>1. files' = files /\ owed' = owed \cup ({name[t] : t \in Trimming} \cap Names(files))
    BY <1>8 DEF Restart
  <2>2. \A k \in 1..Len(files), u \in Thread :
          name[u] = files[k].name /\ Due(u, files[k].name) => files[k].name \in owed'
    BY <1>4, <2>1 DEF Trimming, Names
  <2> QED
    BY <2>1, <2>2, CapKept
<1>9. ASSUME NEW t \in Thread, TrimList(t) PROVE Capped'
  <2>1. /\ files' = files /\ owed' = owed /\ fresh' = fresh /\ name' = name /\ total' = total
        /\ pc' = [pc EXCEPT ![t] = "stat"] /\ pc[t] = "list"
        /\ snap' = [snap EXCEPT ![t] = [i \in 1..Len(files) |-> files[i].name]]
    BY <1>9 DEF TrimList, work, history, Goto
  <2>2. /\ pc'[t] = "stat" /\ fresh[t] = {} /\ snap'[t] = [i \in 1..Len(files) |-> files[i].name]
        /\ \A u \in Thread \ {t} : pc'[u] = pc[u] /\ snap'[u] = snap[u]
    BY <1>1, <2>1 DEF TypeInv, TypedThreads, Fits
  <2>3. Counted(t)' = Names(files)
    <3>1. ToSet(snap'[t]) = Names(files)
      BY <2>2 DEF ToSet, Names
    <3> QED
      BY <2>1, <2>2, <3>1 DEF Counted
  <2>4. ASSUME NEW k \in 1..Len(files), NEW u \in Thread, Due(u, files[k].name)
        PROVE  DueNext(u, files[k].name)
    <3>1. CASE u = t
      BY <2>2, <2>3, <3>1 DEF Due, DueNext, Names
    <3>2. CASE u # t
      BY <1>6, <2>1, <2>2, <2>4, <3>2
    <3> QED
      BY <3>1, <3>2
  <2> QED
    BY <2>1, <2>4, CapKept
<1>10. ASSUME NEW t \in Thread, TrimStat(t) PROVE Capped'
  <2>1. /\ files' = files /\ owed' = owed /\ fresh' = fresh /\ name' = name
        /\ pc' = [pc EXCEPT ![t] = "pop"] /\ pc[t] = "stat"
        /\ snap' = [snap EXCEPT ![t] = Listed(t)] /\ ToSet(snap[t]) \subseteq Names(files)
        /\ total' = [total EXCEPT ![t] = Weight(files, ToSet(snap[t]))]
    BY <1>10 DEF TrimStat, work, history, Goto
  <2>2. /\ pc'[t] = "pop" /\ snap'[t] = Listed(t) /\ total'[t] = Weight(files, ToSet(snap[t]))
        /\ \A u \in Thread \ {t} : pc'[u] = pc[u] /\ snap'[u] = snap[u] /\ total'[u] = total[u]
    BY <1>1, <2>1
  <2>3. Counted(t)' = Counted(t)
    <3>1. \E S : files \in Seq(S)
      BY <1>1 DEF Sized
    <3>2. ToSet(Listed(t)) = ToSet(snap[t]) \cap Names(files)
      BY <1>1, <3>1, ListedSorted
    <3> QED
      BY <2>1, <2>2, <3>2 DEF Counted
  <2>4. Weight(files', Counted(t)') <= total'[t]
    <3>1. Counted(t) \cap Names(files) \subseteq ToSet(snap[t])
      BY DEF Counted
    <3>2. Weight(files, Counted(t)) <= Weight(files, ToSet(snap[t]))
      BY <1>2, <3>1
    <3> QED
      BY <2>1, <2>2, <2>3, <3>2
  <2>5. ASSUME NEW k \in 1..Len(files), NEW u \in Thread, Due(u, files[k].name)
        PROVE  DueNext(u, files[k].name)
    <3>1. CASE u = t
      <4>1. files[k].name \in Counted(t)'
        BY <2>1, <2>3, <2>5, <3>1 DEF Due, DueNext
      <4> QED
        BY <2>2, <2>4, <3>1, <4>1 DEF Due, DueNext
    <3>2. CASE u # t
      BY <1>6, <2>1, <2>2, <2>5, <3>2
    <3> QED
      BY <3>1, <3>2
  <2> QED
    BY <2>1, <2>5, CapKept
<1>11. ASSUME NEW t \in Thread, TrimGivesUp(t) \/ TrimDone(t) PROVE Capped'
  <2>1. /\ files' = files /\ owed \subseteq owed' /\ pc' = [pc EXCEPT ![t] = "serve"] /\ name' = name
        /\ snap' = [snap EXCEPT ![t] = <<>>] /\ fresh' = [fresh EXCEPT ![t] = {}]
        /\ total' = [total EXCEPT ![t] = 0]
    BY <1>11 DEF TrimGivesUp, TrimDone, TrimOver, Goto, work
  <2>2. \A u \in Thread \ {t} : /\ pc'[u] = pc[u] /\ snap'[u] = snap[u]
                                /\ fresh'[u] = fresh[u] /\ total'[u] = total[u]
    BY <1>1, <2>1
  <2>3. ASSUME NEW k \in 1..Len(files), name[t] = files[k].name, Due(t, files[k].name)
        PROVE  files[k].name \in owed' \/ Weight(files, Upto(files, k)) <= Cap
    <3>1. CASE TrimGivesUp(t)
      BY <2>3, <3>1 DEF TrimGivesUp, Names
    <3>2. CASE TrimDone(t)
      <4>1. pc[t] = "pop" /\ ~Over(t)
        BY <3>2 DEF TrimDone
      <4>2. files[k].name \in Counted(t) /\ Weight(files, Counted(t)) <= total[t]
        BY <2>3, <4>1 DEF Due, DueNext
      <4>3. snap[t] # <<>>
        BY <4>2 DEF Counted, ToSet
      <4>4. total[t] <= Cap
        BY <1>5, <4>1, <4>3 DEF Over
      <4>5. Upto(files, k) \subseteq Counted(t)
        BY <1>1, <1>3, <4>2, UptoCounted
      <4>6. Weight(files, Upto(files, k)) <= Weight(files, Counted(t))
        BY <1>2, <4>5
      <4> QED
        BY <1>2, <1>5, <4>2, <4>4, <4>6
    <3> QED
      BY <1>11, <3>1, <3>2
  <2>4. \A k \in 1..Len(files), u \in Thread :
          name[u] = files[k].name /\ Due(u, files[k].name)
            => \/ name'[u] = files[k].name /\ DueNext(u, files[k].name)
               \/ files[k].name \in owed'
               \/ Weight(files, Upto(files, k)) <= Cap
    <3> TAKE k \in 1..Len(files), u \in Thread
    <3>1. CASE u = t
      BY <2>3, <3>1
    <3>2. CASE u # t
      BY <1>6, <2>1, <2>2, <3>2
    <3> QED
      BY <3>1, <3>2
  <2> QED
    BY <2>1, <2>4, CapKept
<1>12. ASSUME NEW t \in Thread, Store(t) PROVE Capped'
  <2> DEFINE x == [name |-> name[t], muxed |-> made[t], goal |-> goal[t]]
             m == name[t]
             e == Append(files, x)
  <2>1. m \notin Names(files) /\ files' = e
    BY <1>1, <1>12, StoreAppends DEF TypeInv
  <2>2. Len(x.muxed) \in Nat /\ x.name = m
    BY <1>1, <1>12 DEF Store, TypeInv, CutInv, Cutting, Cut
  <2> HIDE DEF x
  <2>3. /\ Sized(e) /\ Len(e) = Len(files) + 1 /\ e[Len(files) + 1] = x
        /\ \A i \in 1..Len(files) : e[i] = files[i]
        /\ \A S : m \notin S => Weight(e, S) = Weight(files, S)
    BY <1>1, <2>2, Appended
  <2>4. /\ pc' = [pc EXCEPT ![t] = "list"] /\ pc[t] = "mux" /\ name' = name /\ snap' = snap /\ total' = total
        /\ owed' = owed \ {m} /\ fresh' = [u \in Thread |-> fresh[u] \cup ({m} \cap ToSet(snap[u]))]
    BY <1>12 DEF Store, trim, Goto
  <2>5. /\ pc'[t] = "list"
        /\ \A u \in Thread \ {t} : /\ pc'[u] = pc[u] /\ snap'[u] = snap[u] /\ total'[u] = total[u]
                                   /\ fresh'[u] = fresh[u] \cup ({m} \cap ToSet(snap[u]))
    BY <1>1, <2>4
  <2> HIDE DEF e, m
  <2>6. ASSUME NEW u \in Thread \ {t}, NEW n, n # m, Due(u, n)
        PROVE  DueNext(u, n)
    <3>1. Counted(u)' = Counted(u) \ {m}
      BY <2>5 DEF Counted
    <3>2. Weight(e, Counted(u) \ {m}) = Weight(files, Counted(u) \ {m})
      BY <2>3
    <3>3. Weight(files, Counted(u) \ {m}) <= Weight(files, Counted(u))
      BY <1>2
    <3>4. Weight(files, Counted(u)) <= total[u] => Weight(files', Counted(u)') <= total'[u]
      BY <1>2, <1>5, <2>1, <2>5, <3>1, <3>2, <3>3
    <3> QED
      BY <2>5, <2>6, <3>1, <3>4 DEF Due, DueNext
  <2>7. ASSUME NEW k \in 1..Len(e)
        PROVE  \/ e[k].name \in owed'
               \/ Weight(e, Upto(e, k)) <= Cap
               \/ \E u \in Thread : name'[u] = e[k].name /\ DueNext(u, e[k].name)
    <3>1. CASE k = Len(files) + 1
      <4>1. name'[t] = e[k].name
        BY <2>2, <2>3, <2>4, <3>1 DEF m
      <4>2. DueNext(t, e[k].name)
        BY <2>5 DEF Due, DueNext
      <4> QED
        BY <4>1, <4>2
    <3>2. CASE k # Len(files) + 1
      <4>1. k \in 1..Len(files) /\ e[k] = files[k]
        BY <1>1, <2>3, <3>2
      <4>2. \A i \in 1..k : i \in 1..Len(files) /\ e[i] = files[i]
        BY <1>1, <2>3, <4>1
      <4>3. Upto(e, k) = Upto(files, k) /\ m \notin Upto(files, k) /\ files[k].name # m
        BY <2>1, <4>1, <4>2 DEF Upto, Names
      <4>4. Weight(e, Upto(e, k)) = Weight(files, Upto(files, k))
        BY <2>3, <4>3
      <4>5. CASE files[k].name \in owed
        BY <2>4, <4>1, <4>3, <4>5
      <4>6. CASE Weight(files, Upto(files, k)) <= Cap
        BY <4>4, <4>6
      <4>7. ASSUME NEW u \in Thread, name[u] = files[k].name, Due(u, files[k].name)
            PROVE  name'[u] = e[k].name /\ DueNext(u, e[k].name)
        <5>1. u # t
          BY <1>4, <2>4, <4>7
        <5> QED
          BY <2>4, <2>6, <4>1, <4>3, <4>7, <5>1
      <4> QED
        BY <4>1, <4>5, <4>6, <4>7 DEF CapInv, Capped
    <3> QED
      BY <3>1, <3>2
  <2> QED
    BY <2>1, <2>7 DEF Capped, Due, DueNext, Counted
<1>13. ASSUME NEW t \in Thread, TrimPop(t) PROVE Capped'
  <2> DEFINE n == Head(snap[t])
             w == Without(files, n)
  <2>1. /\ files' = w /\ pc' = pc /\ name' = name /\ pc[t] = "pop" /\ snap[t] # <<>>
        /\ snap' = [snap EXCEPT ![t] = Tail(snap[t])]
        /\ total' = [total EXCEPT ![t] = total[t] - Weight(files, {n})]
        /\ fresh' = [fresh EXCEPT ![t] = fresh[t] \ {n}]
        /\ owed' = (owed \cup {m \in Names(files) : m = name[t] /\ n \in fresh[t]}) \ {n}
    BY <1>13 DEF TrimPop, Over, Forget, work
  <2>2. /\ snap'[t] = Tail(snap[t]) /\ total'[t] = total[t] - Weight(files, {n}) /\ fresh'[t] = fresh[t] \ {n}
        /\ \A u \in Thread \ {t} : snap'[u] = snap[u] /\ total'[u] = total[u] /\ fresh'[u] = fresh[u]
    BY <1>1, <2>1
  <2>3. ToSet(Tail(snap[t])) = ToSet(snap[t]) \ {n} /\ n \in ToSet(snap[t])
    <3>1. snap[t] \in Seq(Name) /\ \A a, b \in 1..Len(snap[t]) : snap[t][a] = snap[t][b] => a = b
      BY <1>1 DEF TypeInv, TypedThreads, Fits
    <3> QED
      BY <2>1, <3>1, TailOf
  <2> HIDE DEF n
  <2>5. \A j \in 1..Len(w) : \E k \in 1..Len(files) :
          w[j] = files[k] /\ files[k].name # n /\ Upto(w, j) \subseteq Upto(files, k)
    BY <1>1, UptoWithout
  <2>6. Sized(w) /\ \A S : Weight(w, S) <= Weight(files, S \ {n})
    BY <1>1, Lighter
  <2>7. Len(w) \in Nat /\ \A S : Weight(w, S) \in Nat
    BY <2>6, StoredFinite DEF Sized
  <2> HIDE DEF w
  <2>8. \A S : Weight(w, S) <= Weight(files, S)
    <3> TAKE S
    <3>1. Weight(files, S \ {n}) <= Weight(files, S)
      BY <1>2
    <3>2. Weight(w, S) <= Weight(files, S \ {n})
      BY <2>6
    <3>3. Weight(w, S) \in Nat /\ Weight(files, S \ {n}) \in Nat /\ Weight(files, S) \in Nat
      BY <1>2, <2>7
    <3> QED
      BY <3>1, <3>2, <3>3
  <2>9. ASSUME NEW m, m # n, Due(t, m), n \notin fresh[t]
        PROVE  DueNext(t, m)
    <3>1. Counted(t)' = Counted(t) \ {n} /\ n \in Counted(t)
      BY <2>2, <2>3, <2>9 DEF Counted
    <3>2. m \in Counted(t) /\ Weight(files, Counted(t)) <= total[t]
      BY <2>1, <2>9 DEF Due, DueNext
    <3>3. Weight(files, Counted(t)) = Weight(files, Counted(t) \ {n}) + Weight(files, {n})
      BY <1>2, <3>1
    <3>4. Weight(w, Counted(t) \ {n}) <= Weight(files, Counted(t) \ {n})
      BY <2>8
    <3>5. Weight(w, Counted(t) \ {n}) <= total[t] - Weight(files, {n})
      BY <1>2, <1>5, <2>7, <3>2, <3>3, <3>4
    <3>6. Weight(files', Counted(t)') <= total'[t]
      BY <2>1, <2>2, <3>1, <3>5
    <3> QED
      BY <2>1, <2>9, <3>1, <3>2, <3>6 DEF Due, DueNext
  <2>10. ASSUME NEW j \in 1..Len(w)
         PROVE  \/ w[j].name \in owed'
                \/ Weight(w, Upto(w, j)) <= Cap
                \/ \E u \in Thread : name'[u] = w[j].name /\ DueNext(u, w[j].name)
    <3>1. PICK k \in 1..Len(files) :
            w[j] = files[k] /\ files[k].name # n /\ Upto(w, j) \subseteq Upto(files, k)
      BY <2>5
    <3>2. w[j].name # n
      BY <3>1
    <3>3. CASE files[k].name \in owed
      BY <2>1, <3>1, <3>2, <3>3
    <3>4. CASE Weight(files, Upto(files, k)) <= Cap
      <4>1. Weight(w, Upto(w, j)) <= Weight(files, Upto(w, j))
        BY <2>8
      <4>2. Weight(files, Upto(w, j)) <= Weight(files, Upto(files, k))
        BY <1>2, <3>1
      <4>3. /\ Weight(w, Upto(w, j)) \in Nat /\ Weight(files, Upto(w, j)) \in Nat
            /\ Weight(files, Upto(files, k)) \in Nat
        BY <1>2, <2>7
      <4> QED
        BY <1>5, <3>4, <4>1, <4>2, <4>3
    <3>5. ASSUME NEW u \in Thread, name[u] = files[k].name, Due(u, files[k].name)
          PROVE  \/ w[j].name \in owed'
                 \/ name'[u] = w[j].name /\ DueNext(u, w[j].name)
      <4>1. CASE u # t
        <5>1. DueNext(u, files[k].name)
          BY <1>2, <1>5, <2>1, <2>2, <2>7, <2>8, <3>5, <4>1, DueKept
        <5> QED
          BY <2>1, <3>1, <3>5, <5>1
      <4>2. CASE u = t /\ n \notin fresh[t]
        BY <2>1, <2>9, <3>1, <3>2, <3>5, <4>2
      <4>3. CASE u = t /\ n \in fresh[t]
        <5>1. files[k].name \in Names(files)
          BY <3>1 DEF Names
        <5> QED
          BY <2>1, <3>1, <3>2, <3>5, <4>3, <5>1
      <4> QED
        BY <4>1, <4>2, <4>3
    <3> QED
      BY <3>1, <3>3, <3>4, <3>5 DEF CapInv, Capped
  <2> QED
    BY <2>1, <2>10 DEF Capped, Due, DueNext, Counted
<1> QED
  BY <1>1, <1>7, <1>8, <1>9, <1>10, <1>11, <1>12, <1>13, Apart DEF Moves

\* At any time, what the cache holds above its cap are files whose own trim is still
\* to come or under way, or was given up, cut short by a restart or thrown out of
\* count by a file built again under it (_trim_cam_cache).
THEOREM CapHoldsCorrect == Spec => []CapHolds
<1>1. CapInv => CapHolds
  <2> SUFFICES ASSUME CapInv PROVE CapHolds
    OBVIOUS
  <2> DEFINE S == Names(files) \ (owed \cup {name[t] : t \in Trimming})
             K == {i \in 1..Len(files) : files[i].name \in S}
             c == Cardinality(K)
  <2>1. Sized(files) /\ Len(files) \in Nat /\ Cap \in Nat
    BY FilesSized, SizeAssumption DEF CapInv, OrderInv, TypeInv, Sized
  <2>2. CASE S = {}
    <3>1. Stored(files, {}) = {}
      BY DEF Stored
    <3>2. Weight(files, {}) = 0
      BY <3>1, FS_EmptySet DEF Weight
    <3> QED
      BY <2>1, <2>2, <3>2 DEF CapHolds
  <2>3. CASE S # {}
    <3>1. K \in SUBSET (1..Len(files)) /\ \A i \in K : i \in 1..Len(files) /\ files[i].name \in S
      OBVIOUS
    <3>2. \A n \in S : \E i \in K : files[i].name = n
      BY DEF Names
    <3>3. CapHolds <=> Weight(files, S) <= Cap
      BY DEF CapHolds
    <3>4. \A n \in S : n \notin owed /\ \A t \in Trimming : name[t] # n
      OBVIOUS
    <3> HIDE DEF K, S
    <3>5. /\ c \in Nat
          /\ \A j \in 1..c : Nth(K, j) \in K
          /\ \A i \in K : \E j \in 1..c : Nth(K, j) = i
          /\ \A j, l \in 1..c : j < l => Nth(K, j) < Nth(K, l)
      BY <2>1, <3>1, NthRuns
    <3> HIDE DEF c
    <3>6. c \in 1..c
      BY <2>3, <3>2, <3>5
    <3> DEFINE k == Nth(K, c)
    <3>7. k \in K /\ k \in 1..Len(files) /\ files[k].name \in S
      BY <3>1, <3>5, <3>6
    <3>8. S \subseteq Upto(files, k)
      <4> SUFFICES ASSUME NEW n \in S PROVE n \in Upto(files, k)
        OBVIOUS
      <4>1. PICK i \in K : files[i].name = n
        BY <3>2
      <4>2. PICK j \in 1..c : Nth(K, j) = i
        BY <3>5
      <4>3. j < c \/ j = c
        BY <3>5
      <4>4. i < k \/ i = k
        BY <3>5, <3>6, <4>2, <4>3
      <4>5. i \in 1..k
        BY <2>1, <3>1, <3>7, <4>4
      <4> QED
        BY <4>1, <4>5 DEF Upto
    <3> HIDE DEF k
    <3>9. Weight(files, Upto(files, k)) <= Cap
      <4>1. ASSUME NEW t \in Thread, name[t] = files[k].name, Due(t, files[k].name) PROVE FALSE
        BY <3>4, <3>7, <4>1 DEF Due, Trimming
      <4>2. files[k].name \notin owed
        BY <3>4, <3>7
      <4> QED
        BY <3>7, <4>1, <4>2 DEF CapInv, Capped
    <3>10. Weight(files, S) <= Weight(files, Upto(files, k))
      BY <2>1, <3>8, Heavier
    <3>11. Weight(files, S) \in Nat /\ Weight(files, Upto(files, k)) \in Nat
      BY <2>1, StoredFinite
    <3> QED
      BY <2>1, <3>3, <3>9, <3>10, <3>11
  <2> QED
    BY <2>2, <2>3
<1>2. Init => CapInv
  <2>1. Init => Capped
    BY DEF Init, Capped
  <2> QED
    BY <2>1, LockInit, CutInit, TypeInit, OrderInit DEF CapInv, OrderInv, TypeInv
<1>3. CapInv /\ [Next]_vars => CapInv'
  BY TypeStep, OrderStep, CapStep DEF CapInv, OrderInv
<1> QED
  BY <1>1, <1>2, <1>3, PTL DEF Spec
=============================================================================
