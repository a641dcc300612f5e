------------------------------- MODULE Lineup -------------------------------
(***************************************************************************)
(* The models the miner knows, the Proof-of-Model tier each one is at a    *)
(* block score, and the assignment of models to GPUs at start-up           *)
(* (src/src/models.rs, src/src/main.rs).                                   *)
(*                                                                         *)
(* A block score is a number of which only the order with respect to the   *)
(* activation scores matters.  VRAM is in megabytes, as in the source.     *)
(***************************************************************************)
EXTENDS Integers, Sequences

CONSTANTS
    OPOI_V2_ACTIVATION_DAA,      \* the uncensored lineup (and Proof of Model) starts
    VERY_LIGHT_ACTIVATION_DAA    \* H2: five tiers instead of four

ASSUME ActivationOrder ==
    /\ OPOI_V2_ACTIVATION_DAA \in Nat
    /\ VERY_LIGHT_ACTIVATION_DAA \in Nat
    /\ OPOI_V2_ACTIVATION_DAA < VERY_LIGHT_ACTIVATION_DAA

NoModel == "none"
NoTier == -1

-----------------------------------------------------------------------------
(* Tier indices.                                                           *)

FiveTiers == <<"qwen3-1.7b", "gemma-3-4b", "dolphin-llama3-8b", "qwen3-32b", "llama-3.3-70b-q2">>
FourTiers == <<"gemma-3-4b", "dolphin-llama3-8b", "qwen3-32b", "llama-3.3-70b">>

PomModels == {FiveTiers[i] : i \in 1..5} \cup {FourTiers[i] : i \in 1..4}

is_pom_model(m) == m \in PomModels

TierTable(daa) == IF daa >= VERY_LIGHT_ACTIVATION_DAA THEN FiveTiers ELSE FourTiers

pom_tier_index(m, daa) ==
    LET table == TierTable(daa)
    IN  IF \E i \in DOMAIN table : table[i] = m
        THEN (CHOOSE i \in DOMAIN table : table[i] = m) - 1
        ELSE NoTier

\* The five flags of the command line, by rank.
tier_rank == [VeryLight |-> 0, Light |-> 1, Default |-> 2, High |-> 3, VeryHigh |-> 4]
HardwareTiers == DOMAIN tier_rank

LegacyLadder == <<"tinyllama", "deepseek-r1-8b", "deepseek-r1-32b", "llama-3.3-70b-official">>

specs_for(daa, tier) ==
    IF daa < OPOI_V2_ACTIVATION_DAA
    THEN SubSeq(LegacyLadder, 1, IF tier = "VeryLight" THEN 1 ELSE tier_rank[tier])
    ELSE LET h2 == daa >= VERY_LIGHT_ACTIVATION_DAA IN
         CASE tier = "VeryLight" -> <<IF h2 THEN "qwen3-1.7b" ELSE "gemma-3-4b">>
           [] tier = "Light"     -> <<"gemma-3-4b">>
           [] tier = "Default"   -> <<"dolphin-llama3-8b">>
           [] tier = "High"      -> <<"qwen3-32b">>
           [] tier = "VeryHigh"  -> <<IF h2 THEN "llama-3.3-70b-q2" ELSE "llama-3.3-70b">>

-----------------------------------------------------------------------------
(* The assignment of a model to each GPU at start-up.                      *)

\* The VRAM a tier is assigned from, largest tier first.
POM_TIER_LADDER == << <<"VeryHigh", 30000>>, <<"High", 24000>>, <<"Default", 8000>>,
                      <<"Light", 5000>>, <<"VeryLight", 2000>> >>

\* The model of the highest tier under the ceiling that the VRAM holds.
Pick(ceiling, vram) ==
    LET fits == {i \in DOMAIN POM_TIER_LADDER :
                    /\ tier_rank[POM_TIER_LADDER[i][1]] <= tier_rank[ceiling]
                    /\ POM_TIER_LADDER[i][2] <= vram}
    IN  IF fits = {} THEN NoModel
        ELSE LET best == CHOOSE i \in fits : \A j \in fits : i <= j
             IN  specs_for(VERY_LIGHT_ACTIVATION_DAA, POM_TIER_LADDER[best][1])[1]

assign_pom_tiers(ceiling, vram) ==
    IF DOMAIN vram = {}      \* no device enumerated: the ceiling's model on device 0
    THEN [d \in {0} |-> specs_for(VERY_LIGHT_ACTIVATION_DAA, ceiling)[1]]
    ELSE [d \in DOMAIN vram |-> Pick(ceiling, vram[d])]

\* What is served: the union of the assignments, or the ceiling's model if no GPU got one.
lineup_from_assignments(assigned, ceiling) ==
    LET union == {assigned[d] : d \in DOMAIN assigned} \ {NoModel}
    IN  IF union = {} THEN {specs_for(VERY_LIGHT_ACTIVATION_DAA, ceiling)[1]} ELSE union
=============================================================================
