------------------------------ MODULE MCMobile ------------------------------
(* An instance of Mobile for TLC: two starts, so that a session can follow  *)
(* another or overlap it.                                                  *)
EXTENDS Mobile
=============================================================================
