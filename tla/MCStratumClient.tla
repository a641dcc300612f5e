-------------------------- MODULE MCStratumClient --------------------------
(* Two good tasks, one that cannot be used, and two job ids in turn. *)
EXTENDS StratumClient

CONSTANTS t1, t2, bad
=============================================================================
