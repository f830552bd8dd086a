----------------------------- MODULE DrivesIndex -----------------------------
(***************************************************************************)
(* What the drives index promises the app, without the threads, the files  *)
(* and the mirror that keep it: a catalog of finished recordings, which    *)
(* takes them in one at a time and gives one up only when its recording    *)
(* has gone or a mishap with a file has spoilt the drive. Only a start of  *)
(* the daemon, which may be an update to a new rollup format, empties it.  *)
(* Module Drives implements it for the drives nobody deletes.              *)
(***************************************************************************)
EXTENDS Naturals

CONSTANTS
  Recorded,    \* recordings
  Kept,        \* those the catalog is about; the others may be deleted
  Readable,    \* those whose log can be read
  Drive,       \* drives
  DriveOf      \* the drive of each recording

VARIABLES
  life,        \* what has become of each recording
  catalog,     \* the recordings the app is shown
  spoilt,      \* drives a mishap has spoilt since the last start
  starts,      \* how often the daemon was started anew
  mishaps      \* how often a file operation failed

vars == <<life, catalog, spoilt, starts, mishaps>>

Sound(S) == {s \in S : DriveOf[s] \notin spoilt}

Init ==
  /\ life = [s \in Recorded |-> "unfinished"]
  /\ catalog = {} /\ spoilt = {} /\ starts = 0 /\ mishaps = 0

Finish(s) ==
  /\ life[s] = "unfinished"
  /\ life' = [life EXCEPT ![s] = "finished"]
  /\ UNCHANGED <<catalog, spoilt, starts, mishaps>>

\* A delete may take a recording before it is finished.
Lose(s) ==
  /\ life[s] = "finished" \/ (life[s] = "unfinished" /\ s \notin Kept)
  /\ life' = [life EXCEPT ![s] = "gone"]
  /\ UNCHANGED <<catalog, spoilt, starts, mishaps>>

\* A recording may go between being read and being shown. A spoilt drive may
\* lose the recordings it had shown to the one it takes in.
TakeIn(s) ==
  /\ s \in Kept \cap Readable
  /\ life[s] # "unfinished"
  /\ \E S \in SUBSET (catalog \ Sound(catalog)) : catalog' = (catalog \ S) \cup {s}
  /\ UNCHANGED <<life, spoilt, starts, mishaps>>

GiveUp(S) ==
  /\ \A s \in Sound(S) : life[s] = "gone"
  /\ catalog' = catalog \ S
  /\ UNCHANGED <<life, spoilt, starts, mishaps>>

\* A failing file operation may spoil the drive it is about, whose recordings
\* may all be lost with it.
Mishap ==
  /\ mishaps' = mishaps + 1
  /\ \/ UNCHANGED <<catalog, spoilt>>
     \/ \E d \in Drive : /\ spoilt' = spoilt \cup {d}
                         /\ catalog' \in {catalog, {s \in catalog : DriveOf[s] # d}}
  /\ UNCHANGED <<life, starts>>

\* A start mends what was spoilt; one with a new rollup format starts over.
StartOver ==
  /\ starts' = starts + 1
  /\ spoilt' = {}
  /\ catalog' \in {catalog, {}}
  /\ UNCHANGED <<life, mishaps>>

Next ==
  \/ \E s \in Recorded : Finish(s) \/ Lose(s) \/ TakeIn(s)
  \/ \E S \in SUBSET catalog : GiveUp(S)
  \/ Mishap \/ StartOver

Spec == Init /\ [][Next]_vars
=============================================================================
