--------------------------- MODULE MCWatchChannel ---------------------------
(* Two mining threads for TLC. *)
EXTENDS WatchChannel

CONSTANTS r1, r2
=============================================================================
