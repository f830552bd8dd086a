-------------------------------- MODULE Clock --------------------------------
(***************************************************************************)
(* The times of one drive: _reanchor and its call in _update_route_file,   *)
(* and live_status, of src/daemon/drives.py.                               *)
(*                                                                         *)
(* Times are whole minutes from the true start of the drive, so that       *)
(* segment s really starts at s. What its qlog says is true to a few       *)
(* minutes when its first fix was a good one, far off when the GPS         *)
(* receiver was cold, and as wrong as the clock was when the drive began   *)
(* when there was no fix. The clock of the device may be far behind, or a  *)
(* little, and be set at any moment.                                       *)
(***************************************************************************)
EXTENDS Integers, FiniteSets

CONSTANTS
  N,          \* segments of the drive
  Window,     \* minutes within which anchors agree (5)
  Late,       \* how late a good anchor may be
  Cold,       \* how early a cold receiver says the drive began
  Lags,       \* how far behind a clock may be that has lost its time
  Day,        \* the longest live drive, in minutes (24 * 60)
  MaxTime     \* bound: minutes

ASSUME TimeAssumption ==
  /\ N \in Nat /\ Window \in Nat /\ Late \in 0..Window /\ Day \in Nat /\ MaxTime \in 0..Day
  /\ Cold \in Nat /\ Cold > Window /\ Lags \in SUBSET Nat

VARIABLES
  log,        \* what the qlog of each segment holds: none, good, late or cold
  lag,        \* how far behind the clock of this device is without its time
  behind,     \* how far behind it was when the drive began
  low,        \* the segments below have rotated away
  listed,     \* the segments of the rollup
  start,      \* their start_unix
  t,          \* the time, which is also the monotonic clock
  wall,       \* how far the clock is off by now
  first,      \* _live_first_seen: the clock and the monotonic clock, or Unseen
  fooled      \* history, which no action reads: at some update of this rollup the cold
              \* anchors among those listed were more than the good ones

rollup == <<listed, start, fooled>>
vars == <<log, lag, behind, low, rollup, t, wall, first>>

Seg == 0..(N - 1)
Unseen == [wall |-> 0, mono |-> -1]
Abs(x) == IF x < 0 THEN -x ELSE x
Near(x, y) == Abs(x - y) <= Window

Good(S) == {s \in S : log[s] \in {"good", "late"}}
Bogus(S) == {s \in S : log[s] = "cold"}
Anchored(S) == Good(S) \cup Bogus(S)

Init ==
  /\ log \in [Seg -> {"none", "good", "late", "cold"}] /\ lag \in Lags /\ behind \in {0, lag}
  /\ low = 0 /\ listed = {} /\ start = [s \in Seg |-> 0] /\ fooled = FALSE
  /\ t = 0 /\ wall = -behind /\ first = Unseen

-----------------------------------------------------------------------------
(* _reanchor: f gives the starts of the segments in L.                      *)

\* The start of the drive that s implies.
Vote(f, s) == f[s] - s

Backers(L, f, s) == Cardinality({u \in Anchored(L) : Near(Vote(f, u), Vote(f, s))})

\* Mutant of Beats: ties go to the earlier epoch.
BeatsEarly(L, f, s, u) ==
  \/ Backers(L, f, s) > Backers(L, f, u)
  \/ Backers(L, f, s) = Backers(L, f, u) /\ Vote(f, s) <= Vote(f, u)

\* More backers, then the later epoch.
Beats(L, f, s, u) ==
  \/ Backers(L, f, s) > Backers(L, f, u)
  \/ Backers(L, f, s) = Backers(L, f, u) /\ Vote(f, s) >= Vote(f, u)

Best(L, f) == CHOOSE s \in Anchored(L) : \A u \in Anchored(L) : Beats(L, f, s, u)

\* Mutant of Cluster: anchors outside the winning cluster are left alone.
ClusterAll(L, f, best) == Anchored(L)

Cluster(L, f, best) == {s \in Anchored(L) : Near(Vote(f, s), Vote(f, best))}

\* sorted(cluster)[len(cluster) // 2]
Median(C, f) ==
  LET Below(v) == Cardinality({s \in C : Vote(f, s) < v})
      Upto(v) == Cardinality({s \in C : Vote(f, s) <= v})
      half == Cardinality(C) \div 2
  IN  CHOOSE v \in {Vote(f, s) : s \in C} : Below(v) <= half /\ half < Upto(v)

Reanchor(L, f) ==
  IF Anchored(L) = {} THEN f
  ELSE LET C == Cluster(L, f, Best(L, f))
           m == Median(C, f)
       IN  [s \in Seg |-> IF s \in L \ C THEN m + s ELSE f[s]]

-----------------------------------------------------------------------------
\* _parse_segment: GPS, or the clock the drive began with.
Parsed(s) == s + CASE log[s] = "good" -> 0 [] log[s] = "late" -> Late
                   [] log[s] = "cold" -> -Cold [] OTHER -> -behind

\* The rollup lists L, with times f before they are vetted.
Store(L, f) ==
  /\ listed' = L
  /\ start' = LET g == Reanchor(L, f) IN [s \in Seg |-> IF s \in L THEN g[s] ELSE 0]
  /\ fooled' = (L # {} /\ (fooled \/ Cardinality(Bogus(L)) > Cardinality(Good(L))))

\* A segment that is complete is folded in.
Fold(s) ==
  /\ s >= low /\ s < t /\ s \notin listed
  /\ Store(listed \cup {s}, [start EXCEPT ![s] = Parsed(s)])
  /\ UNCHANGED <<log, lag, behind, low, t, wall, first>>

\* Mutant of Rotate: what rotates away stays listed.
RotateKeep ==
  /\ low \in listed /\ low' = low + 1
  /\ UNCHANGED <<log, lag, behind, rollup, t, wall, first>>

\* The oldest segment rotates away, and is dropped.
Rotate ==
  /\ low \in listed /\ low' = low + 1
  /\ Store(listed \ {low}, start)
  /\ UNCHANGED <<log, lag, behind, t, wall, first>>

\* An upgrade retires the rollup; a restart also forgets when a drive was seen.
Restart ==
  /\ first' = Unseen
  /\ \/ UNCHANGED rollup
     \/ Store({}, start)
  /\ UNCHANGED <<log, lag, behind, low, t, wall>>

-----------------------------------------------------------------------------
(* live_status                                                              *)

\* Somebody looks at the live drive for the first time.
Look ==
  /\ first = Unseen /\ t > 0
  /\ first' = [wall |-> t + wall, mono |-> t]
  /\ UNCHANGED <<log, lag, behind, low, rollup, t, wall>>

\* start_unix of the summary.
Summary == CHOOSE v \in {start[s] : s \in listed} : \A s \in listed : v <= start[s]
Started == IF listed # {} THEN Summary ELSE first.wall

\* Mutant of Believed: a start in the future is believed.
BelievedAhead(e) == e < Day

\* The clock-skew guard.
Believed(e) == 0 <= e /\ e < Day

\* What a request is told.
Elapsed ==
  LET e == t + wall - Started
  IN  IF Believed(e) THEN e ELSE t - first.mono

Pass ==
  /\ t < MaxTime /\ t' = t + 1
  /\ UNCHANGED <<log, lag, behind, low, rollup, wall, first>>

\* NTP, or a clock that loses its time.
ClockStep ==
  /\ wall' \in {0, -lag} \ {wall}
  /\ UNCHANGED <<log, lag, behind, low, rollup, t, first>>

Next ==
  \/ \E s \in Seg : Fold(s)
  \/ Rotate \/ Restart \/ Look \/ Pass \/ ClockStep

Spec == Init /\ [][Next]_vars

-----------------------------------------------------------------------------
(* Properties.                                                              *)

TypeOK ==
  /\ log \in [Seg -> {"none", "good", "late", "cold"}] /\ lag \in Lags /\ behind \in {0, lag}
  /\ low \in 0..N /\ listed \subseteq Seg /\ \A s \in listed : s >= low
  /\ start \in [Seg -> Int] /\ fooled \in BOOLEAN
  /\ t \in 0..MaxTime /\ wall \in {0, -lag} /\ first \in [wall : Int, mono : -1..MaxTime]

\* A drive with an anchor has one timeline, whatever its segments said and in
\* whatever order they came: they lie at most two windows apart (_reanchor).
OneTimeline ==
  Anchored(listed) # {} =>
    \A s, u \in listed : Abs(Vote(start, s) - Vote(start, u)) <= 2 * Window

\* Unless the cold anchors were once more than the good ones, the timeline is
\* the true one, also after the good anchors that gave it have rotated away or
\* were outnumbered by re-based ones (_reanchor, _update_route_file).
TrueTimeline ==
  Anchored(listed) # {} /\ ~fooled => \A s \in listed : Near(Vote(start, s), 0)

\* "the largest cluster of votes agreeing within 5 min wins": with more good
\* anchors than cold ones, the times are true (the docstring of _reanchor).
LargestWins ==
  Cardinality(Good(listed)) > Cardinality(Bogus(listed)) =>
    \A s \in listed : Near(Vote(start, s), 0)

\* Every error a source of time can have, of a cold receiver or of a clock that
\* has lost its time, and every difference of two, is more than a day.
FarOff == Cold > Day /\ lag > Day /\ Abs(lag - Cold) > Day

\* The clock is right by now, and so is the start the card works with: a
\* timeline that was never carried by cold anchors, or the first look.
Settled ==
  /\ wall = 0
  /\ IF listed # {} THEN Anchored(listed) # {} /\ ~fooled ELSE first.wall = first.mono

\* The live card shows no more than the drive has lasted, and no less than the
\* time since somebody first looked or since the first segment listed: through
\* every step of the clock, cold anchors and restarts while all errors are
\* beyond a day, which the guard catches; and errors of any size, those below a
\* day too, which the guard lets through, no longer show once the clock and the
\* timeline are right (live_status).
LiveHonest ==
  first # Unseen /\ (FarOff \/ Settled) =>
    /\ Elapsed \in 0..t
    /\ \/ Elapsed >= t - first.mono
       \/ \E s \in listed : Elapsed >= t - s - 2 * Window
==============================================================================
