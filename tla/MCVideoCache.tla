---------------------------- MODULE MCVideoCache ----------------------------
(* A small instance of VideoCache: clips over two minutes of the timeline.  *)
EXTENDS VideoCache

Clips == {<<1, 2>>}
=============================================================================
