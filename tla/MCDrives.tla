------------------------------ MODULE MCDrives ------------------------------
(***************************************************************************)
(* Small instances of Drives for TLC: two or three segments, in one drive  *)
(* or in two, of which the first is the older one.                         *)
(***************************************************************************)
EXTENDS Drives

TwoSegments == 1..2
ThreeSegments == 1..3

\* two in one drive; three in one; two in one drive and a third in the next
SameDrive == [s \in TwoSegments |-> 1]
LongDrive == [s \in ThreeSegments |-> 1]
TwoDrives == [s \in ThreeSegments |-> IF s = 3 THEN 2 ELSE 1]
=============================================================================
