--------------------------- MODULE MCMinerWorkers ---------------------------
(* A CPU worker next to a GPU's, launched in that order. *)
EXTENDS MinerWorkers

CONSTANTS cpu, gpu

Launched == <<cpu, gpu>>
TwoRigs == {cpu :> "cpu" @@ gpu :> k : k \in {"plugin", "walk"}}
=============================================================================
