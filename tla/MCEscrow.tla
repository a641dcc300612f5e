------------------------------ MODULE MCEscrow ------------------------------
(* Small instances of Escrow for TLC. *)
EXTENDS Escrow, TLC

CONSTANTS b1, x1, x2, q1

\* One block with one escrow output, and one whose multi-blue mergeset pays two.
OneOutput == b1 :> <<x1>>
TwoOutputs == b1 :> <<x1, x2>>

\* What the previous session left in the state file.
NothingCarried == <<>>
InferenceCarried == <<q1>>
=============================================================================
