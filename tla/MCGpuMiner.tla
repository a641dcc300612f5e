----------------------------- MODULE MCGpuMiner -----------------------------
(* Instances of GpuMiner for TLC.                                          *)
EXTENDS GpuMiner, TLC

\* Megabytes, after the comments of models.rs.
Sizes == [m \in PomModels |->
    CASE m = "qwen3-1.7b" -> 1050        [] m = "gemma-3-4b" -> 2500
      [] m = "dolphin-llama3-8b" -> 4900 [] m = "qwen3-32b" -> 19500
      [] m = "llama-3.3-70b-q2" -> 26100 [] m = "llama-3.3-70b" -> 42500]

\* A large and a small card: two models whose tiers never share a tier, before or after H2.  On the
\* small one the engine's copy leaves no room for another.
LargeAndSmall == 0 :> 32000 @@ 1 :> 8000
\* Two models at neighbouring tiers: after H2 one has the number the other had before.
Neighbours == 0 :> 6000 @@ 1 :> 12000
=============================================================================
