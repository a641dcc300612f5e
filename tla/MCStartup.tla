----------------------------- MODULE MCStartup -----------------------------
(* An instance of Startup for TLC: two models of the current lineup, an     *)
(* NVIDIA, an AMD and a mixed machine, a package with one or both binaries. *)
EXTENDS Startup

TwoModels == <<"gguf", "sharded">>
TheirParts == [gguf    |-> <<"tokenizer", "weights1">>,
               sharded |-> <<"tokenizer", "weights1", "weights2">>]
TheirWeights == {"weights1", "weights2"}

Rig(n, o, l, w, x) == [nvidia |-> n, other |-> o, listed |-> l, workers |-> w, linux |-> x]
SomeRigs == {Rig(TRUE, FALSE, TRUE, TRUE, TRUE), Rig(TRUE, FALSE, FALSE, FALSE, FALSE),
             Rig(TRUE, TRUE, TRUE, TRUE, TRUE)}
SomePackages == {{}, {"nvidia"}, {"nvidia", "amd"}}
=============================================================================
