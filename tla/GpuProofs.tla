------------------------------ MODULE GpuProofs ------------------------------
(***************************************************************************)
(* For any number of GPUs of any size, any ceiling, scores and number of   *)
(* inference tasks: an installed miner walks the model its GPU is          *)
(* assigned, the loads announced to the watchdog are those that go on, and *)
(* a block proves the tier it claims where no two served models share a    *)
(* tier number.                                                            *)
(***************************************************************************)
EXTENDS GpuMiner, FiniteSetTheorems, WellFoundedInduction, TLAPS

-----------------------------------------------------------------------------
(* Numbers and tiers.                                                      *)

LEMMA Least ==
    ASSUME NEW S, S \subseteq Nat, S # {}
    PROVE  \E n \in S : \A k \in S : n <= k
<1>1. PICK n \in S : \A k \in S : <<k, n>> \notin OpToRel(<, Nat)
  BY NatLessThanWellFounded, WFMin, Zenon
<1>2. ASSUME NEW k \in S PROVE ~(k < n)
  <2>1. <<k, n>> \in Nat \X Nat /\ <<k, n>>[1] = k /\ <<k, n>>[2] = n OBVIOUS
  <2>2. <<k, n>> \in {p \in Nat \X Nat : p[1] < p[2]} <=> k < n BY <2>1
  <2>3. QED BY <1>1, <2>2 DEF OpToRel
<1>3. QED BY <1>2

\* A tier number is the place of the model in a table of four or five.
LEMMA TierIndexType ==
    ASSUME NEW x, NEW s PROVE pom_tier_index(x, s) \in Tiers \cup {NoTier}
<1>1. DOMAIN TierTable(s) \subseteq 1..5 BY DEF TierTable, FiveTiers, FourTiers
<1>2. CASE \E i \in DOMAIN TierTable(s) : TierTable(s)[i] = x
  BY <1>1, <1>2 DEF pom_tier_index, Tiers
<1>3. CASE ~\E i \in DOMAIN TierTable(s) : TierTable(s)[i] = x
  BY <1>3 DEF pom_tier_index
<1>4. QED BY <1>2, <1>3

\* NoModel is at no tier.
LEMMA NoModelIsNone == NoModel \notin PomModels
BY DEF NoModel, PomModels, FiveTiers, FourTiers

LEMMA NoTierIsNone == NoTier \notin Tiers /\ NoTier \in Int
BY DEF NoTier, Tiers

\* The model a flag stands for after the fork.
LEMMA SpecIsModel ==
    ASSUME NEW t \in HardwareTiers PROVE specs_for(VERY_LIGHT_ACTIVATION_DAA, t)[1] \in PomModels
<1>1. VERY_LIGHT_ACTIVATION_DAA >= VERY_LIGHT_ACTIVATION_DAA
      /\ ~(VERY_LIGHT_ACTIVATION_DAA < OPOI_V2_ACTIVATION_DAA)
  BY ActivationOrder
<1>2. t \in {"VeryLight", "Light", "Default", "High", "VeryHigh"} BY DEF HardwareTiers, tier_rank
<1>3. specs_for(VERY_LIGHT_ACTIVATION_DAA, t)[1] \in
          {"qwen3-1.7b", "gemma-3-4b", "dolphin-llama3-8b", "qwen3-32b", "llama-3.3-70b-q2"}
  BY <1>1, <1>2 DEF specs_for
<1>4. QED BY <1>3 DEF PomModels, FiveTiers

LEMMA PickIsModel ==
    ASSUME NEW ceiling \in HardwareTiers, NEW vram \in Nat
    PROVE  Pick(ceiling, vram) \in PomModels \cup {NoModel}
<1> DEFINE fits == {i \in DOMAIN POM_TIER_LADDER :
                      /\ tier_rank[POM_TIER_LADDER[i][1]] <= tier_rank[ceiling]
                      /\ POM_TIER_LADDER[i][2] <= vram}
           best == CHOOSE i \in fits : \A j \in fits : i <= j
<1>1. CASE fits = {} BY <1>1 DEF Pick
<1>2. CASE fits # {}
  <2>1. fits \subseteq 1..5 /\ fits \subseteq Nat BY DEF POM_TIER_LADDER
  <2>2. best \in fits
    <3> HIDE DEF fits
    <3>1. \E i \in fits : \A j \in fits : i <= j BY <1>2, <2>1, Least
    <3>2. QED BY <3>1
  <2>3. POM_TIER_LADDER[best][1] \in HardwareTiers
    <3> HIDE DEF best, fits
    <3>1. best \in 1..5 BY <2>1, <2>2
    <3>2. QED BY <3>1 DEF POM_TIER_LADDER, HardwareTiers, tier_rank
  <2>4. Pick(ceiling, vram) = specs_for(VERY_LIGHT_ACTIVATION_DAA, POM_TIER_LADDER[best][1])[1]
    BY <1>2 DEF Pick
  <2> HIDE DEF best
  <2>5. QED BY <2>3, <2>4, SpecIsModel
<1>3. QED BY <1>1, <1>2

\* What a GPU is assigned is served, and what is served is a model of the proof.
LEMMA AssignedIsServed ==
    /\ Assigned \in [Devices -> PomModels \cup {NoModel}]
    /\ \A d \in Devices : Assigned[d] # NoModel => Assigned[d] \in Served
    /\ Served \subseteq PomModels /\ Served # {}
<1>1. Devices # {} /\ Ceiling \in HardwareTiers /\ VramMb \in [Devices -> Nat] BY GpuAssumption
<1>2. Assigned = [d \in Devices |-> Pick(Ceiling, VramMb[d])]
  BY <1>1 DEF Assigned, assign_pom_tiers, Devices
<1>3. Assigned \in [Devices -> PomModels \cup {NoModel}] BY <1>1, <1>2, PickIsModel
<1>4. DOMAIN Assigned = Devices BY <1>2
<1> DEFINE union == {Assigned[d] : d \in Devices} \ {NoModel}
<1>5. Served = IF union = {} THEN {specs_for(VERY_LIGHT_ACTIVATION_DAA, Ceiling)[1]} ELSE union
  BY <1>4 DEF Served, lineup_from_assignments
<1>6. union \subseteq PomModels BY <1>3
<1>7. \A d \in Devices : Assigned[d] # NoModel => Assigned[d] \in union OBVIOUS
<1>8. specs_for(VERY_LIGHT_ACTIVATION_DAA, Ceiling)[1] \in PomModels BY <1>1, SpecIsModel
<1> HIDE DEF union
<1>9. QED BY <1>3, <1>5, <1>6, <1>7, <1>8

\* The GPU that mines a model is one of the machine's.
LEMMA DeviceIsDevice == ASSUME NEW x PROVE device_for_model(x) \in Devices
<1> DEFINE ds == {d \in Devices : tiers[d] = x}
<1>1. CASE ds = {} BY <1>1, GpuAssumption DEF device_for_model
<1>2. CASE ds # {}
  <2>1. ds \subseteq Nat /\ ds \subseteq Devices BY GpuAssumption
  <2> HIDE DEF ds
  <2>2. \E d \in ds : \A e \in ds : d <= e BY <1>2, <2>1, Least
  <2>3. (CHOOSE d \in ds : \A e \in ds : d <= e) \in ds BY <2>2
  <2>4. QED BY <1>2, <2>1, <2>3 DEF device_for_model, ds
<1>3. QED BY <1>1, <1>2

-----------------------------------------------------------------------------
(* What holds between two steps.                                           *)

\* What the thread of GPU d knows while it rebuilds its miner stays true until it is
\* done: nobody else moves the GPU to another model, bans one on it, or takes the tensors
\* it is about to install.
InOrder(d) ==
    /\ tiers[d] \in Served \cup {NoModel}
    /\ at[d] # "top" => job[d] \in FirstDaa..LastDaa
    /\ at[d] \in Building => d \notin installed
    /\ at[d] \in Building \ {"ensure"} =>
          /\ want[d].model = tiers[d]
          /\ want[d].tier = current_tier(d, job[d]) /\ want[d].tier # NoTier
          /\ <<d, tiers[d]>> \notin banned
    /\ weights[d].model = NoModel <=> weights[d].kind = "none"
    /\ at[d] = "load" => weights[d].model \in {NoModel, want[d].model}
    /\ at[d] = "guard" => weights[d].model = want[d].model
    /\ d \notin installed /\ at[d] \notin {"load", "guard"} => weights[d].model = NoModel
    /\ d \in installed => /\ weights[d].model = tiers[d] /\ tiers[d] # NoModel
                          /\ <<d, tiers[d]>> \notin banned

\* The slot of a tier holds the index of a served model that is at that tier at some score.
IndexServed ==
    \A t \in Tiers : index[t] # NoModel =>
        index[t] \in Served /\ \E s \in FirstDaa..LastDaa : pom_tier_index(index[t], s) = t

IInv == TypeOK /\ (\A d \in Devices : InOrder(d)) /\ IndexServed /\ LoadingIsExact

Loads == {d \in Devices : at[d] \in Building}

LEMMA LoadsFinite == IsFiniteSet(Loads) /\ Cardinality(Loads) \in Nat
<1>1. Loads \subseteq Devices /\ IsFiniteSet(Devices) BY GpuAssumption DEF Loads
<1>2. QED BY <1>1, FS_Subset, FS_CardinalityType

\* One thread moves: the count follows it in and out of a rebuild.
LEMMA LoadsMove ==
    ASSUME TypeOK, LoadingIsExact, NEW d \in Devices, NEW place, at' = [at EXCEPT ![d] = place],
           loading' = IF place \in Building
                      THEN IF at[d] \in Building THEN loading ELSE loading + 1
                      ELSE IF at[d] \in Building THEN loading - 1 ELSE loading
    PROVE  LoadingIsExact' /\ loading' \in Nat
<1>1. loading = Cardinality(Loads) BY DEF LoadingIsExact, Loads
<1>2. Loads' = IF place \in Building THEN Loads \cup {d} ELSE Loads \ {d}
  BY DEF Loads, TypeOK
<1>3. d \in Loads <=> at[d] \in Building BY DEF Loads
<1>4. Cardinality(Loads') = loading'
  <2>1. CASE place \in Building
    BY <1>1, <1>2, <1>3, <2>1, LoadsFinite, FS_AddElement
  <2>2. CASE place \notin Building
    BY <1>1, <1>2, <1>3, <2>2, LoadsFinite, FS_RemoveElement
  <2>3. QED BY <2>1, <2>2
<1>5. loading' \in Nat
  <2>1. Loads' \subseteq Devices /\ IsFiniteSet(Devices) BY GpuAssumption DEF Loads
  <2>2. QED BY <1>4, <2>1, FS_Subset, FS_CardinalityType
<1>6. QED BY <1>4, <1>5 DEF LoadingIsExact, Loads

\* A GPU whose row of the tables a step leaves alone stays in order.
LEMMA Untouched ==
    ASSUME NEW d \in Devices, InOrder(d),
           tiers'[d] = tiers[d], job'[d] = job[d], at'[d] = at[d], want'[d] = want[d],
           weights'[d].model = weights[d].model,
           weights'[d].kind = "none" <=> weights[d].kind = "none",
           d \in installed' <=> d \in installed,
           \A x : <<d, x>> \in banned' <=> <<d, x>> \in banned
    PROVE  InOrder(d)'
<1>1. current_tier(d, job[d])' = current_tier(d, job[d]) BY DEF current_tier
<1>2. QED BY <1>1 DEF InOrder

\* So a step of one thread has its own row to keep in order.
LEMMA OneRow ==
    ASSUME IInv, NEW d \in Devices, UNCHANGED <<tiers, banned>>,
           at' = [at EXCEPT ![d] = at'[d]], job' = [job EXCEPT ![d] = job'[d]],
           want' = [want EXCEPT ![d] = want'[d]], weights' = [weights EXCEPT ![d] = weights'[d]],
           \A e \in Devices \ {d} : e \in installed' <=> e \in installed,
           InOrder(d)'
    PROVE  \A e \in Devices : InOrder(e)'
<1> SUFFICES ASSUME NEW e \in Devices, e # d PROVE InOrder(e)' OBVIOUS
<1>1. InOrder(e) BY DEF IInv
<1>2. /\ at'[e] = at[e] /\ job'[e] = job[e] /\ want'[e] = want[e] /\ weights'[e] = weights[e]
  BY DEF IInv, TypeOK
<1>3. QED BY <1>1, <1>2, Untouched

-----------------------------------------------------------------------------
(* The first state and the steps.                                          *)

\* A downgrade moves the GPU to a served model, or not at all.
LEMMA DowngradeIsServed ==
    ASSUME TypeOK, NEW d \in Devices, NEW x, NEW s
    PROVE  /\ downgrade_after_oom(d, x, s) = [tiers EXCEPT ![d] = downgrade_after_oom(d, x, s)[d]]
           /\ downgrade_after_oom(d, x, s)[d] \in {tiers[d]} \cup Served
<1> DEFINE small == Smaller(d, x, s)
           best == CHOOSE q \in small : \A r \in small : pom_tier_index(r, s) <= pom_tier_index(q, s)
<1>1. CASE pom_tier_index(x, s) = NoTier \/ small = {}
  BY <1>1 DEF downgrade_after_oom, TypeOK
<1>2. CASE ~(pom_tier_index(x, s) = NoTier \/ small = {})
  <2>1. downgrade_after_oom(d, x, s) = [tiers EXCEPT ![d] = best]
    BY <1>2 DEF downgrade_after_oom
  <2>2. best \in Served
    <3> DEFINE gaps == {4 - pom_tier_index(q, s) : q \in small}
    <3>1. small \subseteq Served BY DEF Smaller
    <3>2. \A q : pom_tier_index(q, s) \in -1..4 BY TierIndexType DEF Tiers, NoTier
    <3> HIDE DEF small
    <3>3. gaps \subseteq Nat /\ gaps # {} BY <1>2, <3>2
    <3>4. PICK g \in gaps : \A k \in gaps : g <= k BY <3>3, Least
    <3>5. PICK q \in small : g = 4 - pom_tier_index(q, s) BY <3>4
    <3>6. \A r \in small : pom_tier_index(r, s) <= pom_tier_index(q, s)
      <4>1. TAKE r \in small
      <4>2. 4 - pom_tier_index(q, s) <= 4 - pom_tier_index(r, s) BY <3>4, <3>5
      <4>3. QED BY <3>2, <4>2
    <3>7. best \in small BY <3>5, <3>6
    <3>8. QED BY <3>1, <3>7
  <2> HIDE DEF best
  <2>3. QED BY <2>1, <2>2 DEF TypeOK
<1>3. QED BY <1>1, <1>2

LEMMA InitInvariant == ASSUME Init PROVE IInv
<1> USE DEF Init
<1>1. TypeOK
  <2>1. NoModel \in PomModels \cup {NoModel} /\ NoTier \in Tiers \cup {NoTier} OBVIOUS
  <2>2. daa \in FirstDaa..LastDaa /\ 0 \in Devices BY GpuAssumption
  <2>3. tiers \in [Devices -> PomModels \cup {NoModel}] BY AssignedIsServed
  <2>4. loading \in Nat /\ banned \subseteq Devices \X PomModels /\ installed \subseteq Devices OBVIOUS
  <2>5. job \in [Devices -> {0} \cup FirstDaa..LastDaa] OBVIOUS
  <2>6. want \in [Devices -> [model : PomModels \cup {NoModel}, tier : Tiers \cup {NoTier}]]
    BY <2>1 DEF NoWant
  <2>7. weights \in [Devices -> [model : PomModels \cup {NoModel}, kind : {"none", "own", "shared"}]]
    BY <2>1 DEF NoWeights
  <2>8. sent \in [Devices -> [tier : Tiers \cup {NoTier}, daa : {0} \cup FirstDaa..LastDaa,
                             index : PomModels \cup {NoModel}]]
    BY <2>1 DEF NoBlock
  <2>9. inf \in [Inferences -> [at : {"idle", "lock", "evict", "load", "generate"},
                               model : PomModels \cup {NoModel}, dev : Devices]]
    BY <2>1, <2>2 DEF Idle
  <2>10. engine \in [model : PomModels \cup {NoModel}, dev : Devices] BY <2>1, <2>2 DEF NoEngine
  <2>11. index \in [Tiers -> PomModels \cup {NoModel}] OBVIOUS
  <2>12. at \in [Devices -> Building \cup {"top", "mine", "walk", "found"}] OBVIOUS
  <2>13. QED
    BY <2>2, <2>3, <2>4, <2>5, <2>6, <2>7, <2>8, <2>9, <2>10, <2>11, <2>12 DEF TypeOK
<1>2. ASSUME NEW d \in Devices PROVE InOrder(d)
  <2>1. tiers[d] \in Served \cup {NoModel} BY AssignedIsServed
  <2>2. QED BY <2>1 DEF InOrder, Building, NoWeights
<1>3. IndexServed BY DEF IndexServed
<1>4. LoadingIsExact
  <2>1. {d \in Devices : at[d] \in Building} = {} BY DEF Building
  <2>2. QED BY <2>1, FS_EmptySet DEF LoadingIsExact
<1>5. QED BY <1>1, <1>2, <1>3, <1>4 DEF IInv

\* The steps of a thread that only move it along, or change its job.
LEMMA MineInvariant == ASSUME IInv, NEW d \in Devices, Mine(d) PROVE IInv'
<1> USE DEF IInv, tables, locks
<1>0. InOrder(d) OBVIOUS
<1>1. /\ UNCHANGED <<daa, tiers, banned, index, engine, poisoned, inf, want, weights, installed>>
      /\ at' = [at EXCEPT ![d] = at'[d]] /\ job' = [job EXCEPT ![d] = job'[d]]
  BY DEF Mine, TakeJob, CheckInstalled, StartWalk, EndWalk, BuildBlock, GetChanged, GoTo, TypeOK
<1>2. job'[d] \in {0} \cup FirstDaa..LastDaa
  BY DEF Mine, TakeJob, CheckInstalled, StartWalk, EndWalk, BuildBlock, GetChanged, GoTo, TypeOK
<1>3. at'[d] \in Building \cup {"top", "mine", "walk", "found"}
  BY DEF Mine, TakeJob, CheckInstalled, StartWalk, EndWalk, BuildBlock, GetChanged, GoTo, TypeOK, Building
<1>4. /\ at[d] \notin Building
      /\ loading' = IF at'[d] \in Building THEN loading + 1 ELSE loading
      /\ at'[d] \in Building => at'[d] = "ensure" /\ d \notin installed
  BY DEF Mine, TakeJob, CheckInstalled, StartWalk, EndWalk, BuildBlock, GetChanged, GoTo, TypeOK, Building
<1>5. at'[d] # "top" => job'[d] \in FirstDaa..LastDaa
  BY <1>0 DEF Mine, TakeJob, CheckInstalled, StartWalk, EndWalk, BuildBlock, GoTo, TypeOK, InOrder
<1>6. LoadingIsExact' /\ loading' \in Nat BY <1>1, <1>4, LoadsMove
<1>7. /\ minersLock' \in Devices \cup {Free} /\ indexLock' \in Devices \cup {Free}
      /\ engineLock' \in Inferences \cup {Free}
  BY DEF Mine, TakeJob, CheckInstalled, StartWalk, EndWalk, BuildBlock, GetChanged, GoTo, TypeOK
<1>8. sent' \in [Devices -> [tier : Tiers \cup {NoTier}, daa : {0} \cup FirstDaa..LastDaa,
                             index : PomModels \cup {NoModel}]]
  <2>1. CASE \E b \in BOOLEAN : BuildBlock(d, b)
    <3>1. current_tier(d, job[d]) \in Tiers \cup {NoTier} BY TierIndexType DEF current_tier
    <3>2. current_tier(d, job[d]) # NoTier => index[current_tier(d, job[d])] \in PomModels \cup {NoModel}
      BY <3>1 DEF TypeOK
    <3>3. job[d] \in {0} \cup FirstDaa..LastDaa BY DEF TypeOK
    <3> DEFINE t == current_tier(d, job[d])
               block == [tier |-> t, daa |-> job[d], index |-> index[t]]
    <3>4. UNCHANGED sent \/ (t # NoTier /\ sent' = [sent EXCEPT ![d] = block])
      BY <2>1 DEF BuildBlock
    <3> HIDE DEF t
    <3>5. t # NoTier => block \in [tier : Tiers \cup {NoTier}, daa : {0} \cup FirstDaa..LastDaa,
                                   index : PomModels \cup {NoModel}]
      BY <3>1, <3>2, <3>3 DEF t
    <3> HIDE DEF block
    <3>6. QED BY <3>4, <3>5 DEF TypeOK
  <2>2. CASE TakeJob(d)
    <3>1. NoBlock \in [tier : Tiers \cup {NoTier}, daa : {0} \cup FirstDaa..LastDaa,
                      index : PomModels \cup {NoModel}]
      BY DEF NoBlock
    <3>2. QED BY <2>2, <3>1 DEF TakeJob, TypeOK
  <2>3. CASE UNCHANGED sent BY <2>3 DEF TypeOK
  <2>4. QED BY <2>1, <2>2, <2>3 DEF Mine, CheckInstalled, StartWalk, EndWalk
<1>9. TypeOK'
  <2>1. job' \in [Devices -> {0} \cup FirstDaa..LastDaa] BY <1>1, <1>2 DEF TypeOK
  <2>2. at' \in [Devices -> Building \cup {"top", "mine", "walk", "found"}] BY <1>1, <1>3 DEF TypeOK
  <2>3. QED BY <1>1, <1>6, <1>7, <1>8, <2>1, <2>2 DEF TypeOK
<1>10. InOrder(d)'
  <2>1. CASE at'[d] \in Building
    BY <1>0, <1>1, <1>4, <1>5, <2>1 DEF InOrder, Building
  <2>2. CASE at'[d] \notin Building
    BY <1>0, <1>1, <1>4, <1>5, <2>2 DEF InOrder, Building
  <2>3. QED BY <2>1, <2>2
<1>11. \A e \in Devices : InOrder(e)'
  <2>1. want' = [want EXCEPT ![d] = want'[d]] /\ weights' = [weights EXCEPT ![d] = weights'[d]]
    BY <1>1 DEF TypeOK
  <2>2. QED BY <1>1, <1>10, <2>1, OneRow
<1>12. IndexServed' BY <1>1 DEF IndexServed
<1>13. QED BY <1>6, <1>9, <1>11, <1>12

\* The shape of the state after a step of a rebuild.
LEMMA RebuildShape ==
    ASSUME TypeOK, NEW d \in Devices,
           UNCHANGED <<daa, engine, poisoned, inf, job, sent, minersLock, engineLock>>,
           tiers' \in [Devices -> PomModels \cup {NoModel}], banned' \subseteq Devices \X PomModels,
           index' \in [Tiers -> PomModels \cup {NoModel}], installed' \subseteq Devices,
           loading' \in Nat, indexLock' \in Devices \cup {Free},
           at' = [at EXCEPT ![d] = at'[d]], at'[d] \in Building \cup {"mine"},
           want' = [want EXCEPT ![d] = want'[d]],
           want'[d] \in [model : PomModels \cup {NoModel}, tier : Tiers \cup {NoTier}],
           weights' = [weights EXCEPT ![d] = weights'[d]],
           weights'[d] \in [model : PomModels \cup {NoModel}, kind : {"none", "own", "shared"}]
    PROVE  TypeOK'
<1>1. at' \in [Devices -> Building \cup {"top", "mine", "walk", "found"}] BY DEF TypeOK
<1>2. want' \in [Devices -> [model : PomModels \cup {NoModel}, tier : Tiers \cup {NoTier}]]
  BY DEF TypeOK
<1>3. weights' \in [Devices -> [model : PomModels \cup {NoModel}, kind : {"none", "own", "shared"}]]
  BY DEF TypeOK
<1>4. QED BY <1>1, <1>2, <1>3 DEF TypeOK

\* ensure_installed up to the index: what is read is what the row says.
LEMMA ReadInvariant == ASSUME IInv, NEW d \in Devices, ReadTier(d) \/ LockIndex(d) PROVE IInv'
<1> USE DEF IInv, tables, locks
<1>0. InOrder(d) OBVIOUS
<1>1. /\ UNCHANGED <<daa, tiers, banned, index, engine, poisoned, inf, weights, installed, job,
                     sent, minersLock, engineLock>>
      /\ at' = [at EXCEPT ![d] = at'[d]] /\ want' = [want EXCEPT ![d] = want'[d]]
      /\ at[d] \in {"ensure", "index"}
  BY DEF ReadTier, LockIndex, Return, GoTo, TypeOK
<1>2. /\ at'[d] \in {"mine", "index", "build", "share"}
      /\ loading' = IF at'[d] \in Building THEN loading ELSE loading - 1
      /\ indexLock' \in Devices \cup {Free}
  BY DEF ReadTier, LockIndex, Return, GoTo, TypeOK, Building
<1>3. at'[d] \in Building => /\ want'[d].model = tiers[d]
                             /\ want'[d].tier = current_tier(d, job[d]) /\ want'[d].tier # NoTier
                             /\ <<d, tiers[d]>> \notin banned
  BY <1>0 DEF ReadTier, LockIndex, Return, GoTo, TypeOK, Building, InOrder
<1>4. want'[d] \in [model : PomModels \cup {NoModel}, tier : Tiers \cup {NoTier}]
  <2>1. current_tier(d, job[d]) \in Tiers \cup {NoTier} BY TierIndexType DEF current_tier
  <2>2. tiers[d] \in PomModels \cup {NoModel} BY DEF TypeOK
  <2>3. want'[d] \in {want[d], NoWant, [model |-> tiers[d], tier |-> current_tier(d, job[d])]}
    BY DEF ReadTier, LockIndex, Return, TypeOK
  <2>4. QED BY <2>1, <2>2, <2>3 DEF NoWant, TypeOK
<1>5. LoadingIsExact' /\ loading' \in Nat BY <1>1, <1>2, LoadsMove DEF Building
<1>6. TypeOK'
  <2>1. weights' = [weights EXCEPT ![d] = weights'[d]] /\ weights'[d] = weights[d]
    BY <1>1 DEF TypeOK
  <2>2. at'[d] \in Building \cup {"mine"} BY <1>2 DEF Building
  <2>3. /\ weights'[d] \in [model : PomModels \cup {NoModel}, kind : {"none", "own", "shared"}]
        /\ tiers' \in [Devices -> PomModels \cup {NoModel}] /\ banned' \subseteq Devices \X PomModels
        /\ index' \in [Tiers -> PomModels \cup {NoModel}] /\ installed' \subseteq Devices
    BY <1>1, <2>1 DEF TypeOK
  <2>4. QED BY <1>1, <1>2, <1>4, <1>5, <2>1, <2>2, <2>3, RebuildShape
<1>7. current_tier(d, job[d])' = current_tier(d, job[d]) BY <1>1 DEF current_tier
<1>8. InOrder(d)' BY <1>0, <1>1, <1>2, <1>3, <1>7 DEF InOrder, Building
<1>9. \A e \in Devices : InOrder(e)'
  <2>1. job' = [job EXCEPT ![d] = job'[d]] /\ weights' = [weights EXCEPT ![d] = weights'[d]]
    BY <1>1 DEF TypeOK
  <2>2. QED BY <1>1, <1>8, <2>1, OneRow
<1>10. IndexServed' BY <1>1 DEF IndexServed
<1>11. QED BY <1>5, <1>6, <1>9, <1>10

\* The index of a tier is built of the model the GPU is assigned, at the score of its job.
LEMMA BuildInvariant == ASSUME IInv, NEW d \in Devices, BuildIndex(d) \/ BuildFails(d) PROVE IInv'
<1> USE DEF IInv, tables, locks
<1>0. InOrder(d) OBVIOUS
<1>1. /\ UNCHANGED <<daa, tiers, banned, engine, poisoned, inf, weights, installed, job,
                     sent, minersLock, engineLock>>
      /\ at' = [at EXCEPT ![d] = at'[d]] /\ want' = [want EXCEPT ![d] = want'[d]]
      /\ at[d] = "build" /\ indexLock' = Free
  BY DEF BuildIndex, BuildFails, Return, GoTo, TypeOK
<1>2. \/ at'[d] = "share" /\ loading' = loading /\ want'[d] = want[d]
         /\ index' = [index EXCEPT ![want[d].tier] = want[d].model]
      \/ at'[d] = "mine" /\ loading' = loading - 1 /\ want'[d] = NoWant /\ index' = index
  BY DEF BuildIndex, BuildFails, Return, GoTo, TypeOK
<1>3. /\ want[d].model = tiers[d] /\ tiers[d] \in Served /\ want[d].tier \in Tiers
      /\ job[d] \in FirstDaa..LastDaa /\ want[d].tier = pom_tier_index(tiers[d], job[d])
  <2>1. at[d] \in Building \ {"ensure"} /\ at[d] # "top" BY <1>1 DEF Building
  <2>2. tiers[d] # NoModel BY <1>0, <2>1 DEF InOrder, current_tier
  <2>3. QED BY <1>0, <2>1, <2>2 DEF InOrder, current_tier, TypeOK
<1>4. want'[d] \in [model : PomModels \cup {NoModel}, tier : Tiers \cup {NoTier}]
  BY <1>2 DEF NoWant, TypeOK
<1>5. LoadingIsExact' /\ loading' \in Nat BY <1>1, <1>2, LoadsMove DEF Building
<1>6. index' \in [Tiers -> PomModels \cup {NoModel}] BY <1>2, <1>3, AssignedIsServed DEF TypeOK
<1>7. TypeOK'
  <2>1. weights' = [weights EXCEPT ![d] = weights'[d]] /\ weights'[d] = weights[d]
    BY <1>1 DEF TypeOK
  <2>2. at'[d] \in Building \cup {"mine"} /\ indexLock' \in Devices \cup {Free}
    BY <1>1, <1>2 DEF Building
  <2>3. /\ weights'[d] \in [model : PomModels \cup {NoModel}, kind : {"none", "own", "shared"}]
        /\ tiers' \in [Devices -> PomModels \cup {NoModel}] /\ banned' \subseteq Devices \X PomModels
        /\ installed' \subseteq Devices
    BY <1>1, <2>1 DEF TypeOK
  <2>4. QED BY <1>1, <1>4, <1>5, <1>6, <2>1, <2>2, <2>3, RebuildShape
<1>8. InOrder(d)'
  <2>1. current_tier(d, job[d])' = current_tier(d, job[d]) BY <1>1 DEF current_tier
  <2>2. QED BY <1>0, <1>1, <1>2, <2>1 DEF InOrder, Building
<1>9. \A e \in Devices : InOrder(e)'
  <2>1. job' = [job EXCEPT ![d] = job'[d]] /\ weights' = [weights EXCEPT ![d] = weights'[d]]
    BY <1>1 DEF TypeOK
  <2>2. QED BY <1>1, <1>8, <2>1, OneRow
<1>10. IndexServed'
  <2> SUFFICES ASSUME NEW t \in Tiers, index'[t] # NoModel
               PROVE  index'[t] \in Served /\ \E s \in FirstDaa..LastDaa : pom_tier_index(index'[t], s) = t
    BY DEF IndexServed
  <2>1. CASE index'[t] = index[t] BY <2>1 DEF IndexServed
  <2>2. CASE index'[t] # index[t]
    <3>1. t = want[d].tier /\ index'[t] = tiers[d] BY <1>2, <1>3, <2>2 DEF TypeOK
    <3>2. QED BY <1>3, <3>1
  <2>3. QED BY <2>1, <2>2
<1>11. QED BY <1>5, <1>7, <1>9, <1>10

\* The weights of the miner being built are the assigned model's.
LEMMA WeightsInvariant ==
    ASSUME IInv, NEW d \in Devices, ShareWeights(d) \/ LoadMiner(d) \/ GuardAndInstall(d)
    PROVE  IInv'
<1> USE DEF IInv, tables, locks
<1>0. InOrder(d) OBVIOUS
<1>1. /\ UNCHANGED <<daa, tiers, banned, index, engine, poisoned, inf, job, sent, minersLock,
                     indexLock, engineLock>>
      /\ at' = [at EXCEPT ![d] = at'[d]] /\ want' = [want EXCEPT ![d] = want'[d]]
      /\ weights' = [weights EXCEPT ![d] = weights'[d]]
      /\ \A e \in Devices \ {d} : e \in installed' <=> e \in installed
      /\ installed' \subseteq Devices
      /\ at[d] \in Building \ {"ensure"}
  BY DEF ShareWeights, LoadMiner, GuardAndInstall, Return, GoTo, TypeOK, Building
<1>2. want[d].model \in PomModels /\ want[d].model = tiers[d] /\ want[d].model # NoModel
      /\ d \notin installed /\ <<d, tiers[d]>> \notin banned
  <2>1. want[d].model = tiers[d] /\ tiers[d] # NoModel
    BY <1>0, <1>1 DEF InOrder, current_tier
  <2>2. QED BY <1>0, <1>1, <2>1, NoModelIsNone DEF InOrder, TypeOK, Building
<1>3. \/ /\ at'[d] = "load" /\ loading' = loading /\ want'[d] = want[d] /\ installed' = installed
         /\ weights'[d] \in {weights[d], [model |-> want[d].model, kind |-> "shared"]}
         /\ weights[d].model = NoModel
      \/ /\ at'[d] = "guard" /\ loading' = loading /\ want'[d] = want[d] /\ installed' = installed
         /\ weights'[d].model = want[d].model
         /\ weights'[d] \in {weights[d], [model |-> want[d].model, kind |-> "own"]}
      \/ /\ at'[d] = "mine" /\ loading' = loading - 1 /\ want'[d] = NoWant
         /\ at[d] = "guard" /\ weights[d].model = want[d].model
         /\ \/ installed' = installed \cup {d} /\ weights'[d] = weights[d]
            \/ installed' = installed /\ weights'[d] = NoWeights
  <2>1. CASE ShareWeights(d)
    BY <1>0, <1>2, <2>1 DEF ShareWeights, GoTo, TypeOK, InOrder, Building
  <2>2. CASE LoadMiner(d)
    BY <1>0, <2>2 DEF LoadMiner, GoTo, TypeOK, InOrder, Building
  <2>3. CASE GuardAndInstall(d)
    BY <1>0, <2>3 DEF GuardAndInstall, Return, GoTo, TypeOK, InOrder, Building
  <2>4. QED BY <2>1, <2>2, <2>3
<1>4. want'[d] \in [model : PomModels \cup {NoModel}, tier : Tiers \cup {NoTier}]
  BY <1>3 DEF NoWant, TypeOK
<1>5. weights'[d] \in [model : PomModels \cup {NoModel}, kind : {"none", "own", "shared"}]
  BY <1>2, <1>3 DEF NoWeights, TypeOK
<1>6. LoadingIsExact' /\ loading' \in Nat BY <1>1, <1>3, LoadsMove DEF Building
<1>7. TypeOK'
  <2>1. at'[d] \in Building \cup {"mine"} BY <1>3 DEF Building
  <2>2. /\ tiers' \in [Devices -> PomModels \cup {NoModel}] /\ banned' \subseteq Devices \X PomModels
        /\ index' \in [Tiers -> PomModels \cup {NoModel}] /\ indexLock' \in Devices \cup {Free}
    BY <1>1 DEF TypeOK
  <2>3. QED BY <1>1, <1>4, <1>5, <1>6, <2>1, <2>2, RebuildShape
<1>8. weights'[d].model = NoModel <=> weights'[d].kind = "none"
  BY <1>0, <1>2, <1>3 DEF InOrder, NoWeights
<1>9. InOrder(d)'
  <2>1. current_tier(d, job[d])' = current_tier(d, job[d]) BY <1>1 DEF current_tier
  <2>2. QED BY <1>0, <1>1, <1>2, <1>3, <1>8, <2>1 DEF InOrder, Building, NoWeights
<1>10. \A e \in Devices : InOrder(e)'
  <2>1. job' = [job EXCEPT ![d] = job'[d]] BY <1>1 DEF TypeOK
  <2>2. QED BY <1>1, <1>9, <2>1, OneRow
<1>11. IndexServed' BY <1>1 DEF IndexServed
<1>12. QED BY <1>6, <1>7, <1>10, <1>11

\* A load that does not fit: the GPU is moved and the model banned while there is nothing
\* of it on the GPU.
LEMMA LoadFailsInvariant == ASSUME IInv, NEW d \in Devices, LoadFails(d) PROVE IInv'
<1> USE DEF IInv
<1>0. InOrder(d) OBVIOUS
<1>1. /\ UNCHANGED <<daa, index, installed, engine, poisoned, inf, weights, job, sent, minersLock,
                     indexLock, engineLock>>
      /\ at' = [at EXCEPT ![d] = "mine"] /\ at'[d] = "mine" /\ at[d] = "load"
      /\ want' = [want EXCEPT ![d] = NoWant] /\ want'[d] = NoWant
      /\ loading' = loading - 1
      /\ banned' = banned \cup {<<d, want[d].model>>} /\ weights[d] = NoWeights
  BY DEF LoadFails, Return, GoTo, TypeOK, locks
<1>2. tiers' = [tiers EXCEPT ![d] = tiers'[d]] /\ tiers'[d] \in {tiers[d]} \cup Served
  BY DowngradeIsServed DEF LoadFails
<1>3. tiers[d] \in Served /\ want[d].model = tiers[d] /\ d \notin installed /\ job[d] \in FirstDaa..LastDaa
  BY <1>0, <1>1 DEF InOrder, current_tier, Building
<1>4. LoadingIsExact' /\ loading' \in Nat BY <1>1, LoadsMove DEF Building
<1>5. TypeOK'
  <2>1. tiers' \in [Devices -> PomModels \cup {NoModel}] BY <1>2, AssignedIsServed DEF TypeOK
  <2>2. banned' \subseteq Devices \X PomModels BY <1>1, <1>3, AssignedIsServed DEF TypeOK
  <2>3. want'[d] \in [model : PomModels \cup {NoModel}, tier : Tiers \cup {NoTier}]
    BY <1>1 DEF NoWant
  <2>4. /\ weights' = [weights EXCEPT ![d] = weights'[d]]
        /\ weights'[d] \in [model : PomModels \cup {NoModel}, kind : {"none", "own", "shared"}]
        /\ index' \in [Tiers -> PomModels \cup {NoModel}] /\ installed' \subseteq Devices
        /\ indexLock' \in Devices \cup {Free}
    BY <1>1 DEF TypeOK
  <2>5. at' = [at EXCEPT ![d] = at'[d]] /\ want' = [want EXCEPT ![d] = want'[d]] BY <1>1
  <2>6. QED BY <1>1, <1>4, <2>1, <2>2, <2>3, <2>4, <2>5, RebuildShape
<1>6. ASSUME NEW e \in Devices PROVE InOrder(e)'
  <2>1. CASE e = d
    <3>1. tiers'[d] \in Served \cup {NoModel} /\ job'[d] = job[d] /\ weights'[d] = NoWeights
          /\ d \notin installed'
      BY <1>1, <1>2, <1>3
    <3>2. QED BY <1>1, <1>3, <2>1, <3>1 DEF InOrder, Building, NoWeights
  <2>2. CASE e # d
    <3>1. /\ tiers'[e] = tiers[e] /\ at'[e] = at[e] /\ want'[e] = want[e]
      BY <1>1, <1>2, <2>2 DEF TypeOK
    <3>2. \A x : <<e, x>> \in banned' <=> <<e, x>> \in banned BY <1>1, <2>2
    <3>3. QED BY <1>1, <3>1, <3>2, Untouched
  <2>3. QED BY <2>1, <2>2
<1>7. IndexServed' BY <1>1 DEF IndexServed
<1>8. QED BY <1>4, <1>5, <1>6, <1>7

\* What an engine that goes leaves to a miner keeps its model.
LEMMA OrphanedKeeps ==
    ASSUME NEW w \in [Devices -> [model : PomModels \cup {NoModel}, kind : {"none", "own", "shared"}]]
    PROVE  /\ Orphaned(w) \in [Devices -> [model : PomModels \cup {NoModel}, kind : {"none", "own", "shared"}]]
           /\ \A e \in Devices : /\ Orphaned(w)[e].model = w[e].model
                                 /\ Orphaned(w)[e].kind = "none" <=> w[e].kind = "none"
<1>1. ASSUME NEW e \in Devices
      PROVE  /\ Orphaned(w)[e] \in [model : PomModels \cup {NoModel}, kind : {"none", "own", "shared"}]
             /\ Orphaned(w)[e].model = w[e].model
             /\ Orphaned(w)[e].kind = "none" <=> w[e].kind = "none"
  BY DEF Orphaned
<1>2. Orphaned(w) = [e \in Devices |-> Orphaned(w)[e]] BY DEF Orphaned
<1>3. QED BY <1>1, <1>2

\* An inference: it takes the installed miner of one GPU away, whole, and moves no thread.
LEMMA InferInvariant ==
    ASSUME IInv, NEW i \in Inferences, Infer(i) \/ \E x \in Served : Ask(i, x)
    PROVE  IInv'
<1> USE DEF IInv, tables, locks
<1>1. /\ UNCHANGED <<daa, tiers, banned, index, loading, at, job, want, sent, minersLock, indexLock>>
  BY DEF Infer, LockEngine, Evict, LoadEngine, Generate, GenerateFails, GeneratePanics, EngineFails, Ask
<1> DEFINE w == [weights EXCEPT ![inf[i].dev] = IF inf[i].dev \in installed THEN NoWeights ELSE @]
           Task == [at : {"idle", "lock", "evict", "load", "generate"},
                    model : PomModels \cup {NoModel}, dev : Devices]
<1>2. \/ UNCHANGED <<installed, weights>>
      \/ installed' = installed /\ weights' = Orphaned(weights)
      \/ installed' = installed \ {inf[i].dev} /\ weights' = Orphaned(w)
  BY DEF Infer, LockEngine, Evict, LoadEngine, Generate, GenerateFails, GeneratePanics, EngineFails, Ask
<1>3. inf[i].dev \in Devices /\ inf[i].model \in PomModels \cup {NoModel} BY DEF TypeOK
<1>4. NoWeights \in [model : PomModels \cup {NoModel}, kind : {"none", "own", "shared"}]
  BY DEF NoWeights
<1>5. w \in [Devices -> [model : PomModels \cup {NoModel}, kind : {"none", "own", "shared"}]]
  BY <1>3, <1>4 DEF TypeOK
<1>a. /\ inf[i].dev \in installed => w[inf[i].dev] = NoWeights
      /\ \A e \in Devices : ~(e = inf[i].dev /\ e \in installed) => w[e] = weights[e]
  BY <1>3 DEF TypeOK
<1> HIDE DEF w
<1>6. weights' \in [Devices -> [model : PomModels \cup {NoModel}, kind : {"none", "own", "shared"}]]
  BY <1>2, <1>5, OrphanedKeeps DEF TypeOK
<1>7. /\ engine' \in [model : PomModels \cup {NoModel}, dev : Devices]
      /\ poisoned' \in BOOLEAN /\ engineLock' \in Inferences \cup {Free}
  <2>1. NoEngine \in [model : PomModels \cup {NoModel}, dev : Devices]
    BY GpuAssumption DEF NoEngine
  <2>2. engine' \in {engine, NoEngine, [model |-> inf[i].model, dev |-> inf[i].dev]}
    BY DEF Infer, LockEngine, Evict, LoadEngine, Generate, GenerateFails, GeneratePanics, EngineFails, Ask
  <2>3. engineLock' \in {engineLock, Free, i}
    BY DEF Infer, LockEngine, Evict, LoadEngine, Generate, GenerateFails, GeneratePanics, EngineFails, Ask
  <2>4. poisoned' \in BOOLEAN
    BY DEF Infer, LockEngine, Evict, LoadEngine, Generate, GenerateFails, GeneratePanics, EngineFails, Ask,
           TypeOK
  <2>5. QED BY <1>3, <2>1, <2>2, <2>3, <2>4 DEF TypeOK
<1>8. inf' \in [Inferences -> Task]
  <2>1. Idle \in Task /\ inf[i] \in Task /\ inf \in [Inferences -> Task]
    BY GpuAssumption DEF Idle, TypeOK
  <2>2. ASSUME NEW x \in Served PROVE [at |-> "lock", model |-> x, dev |-> 0] \in Task
    BY AssignedIsServed, GpuAssumption
  <2>3. ASSUME NEW place \in {"evict", "load", "generate"}, NEW e \in Devices
        PROVE  [inf[i] EXCEPT !.at = place] \in Task /\ [inf[i] EXCEPT !.at = place, !.dev = e] \in Task
    BY <2>1
  <2> HIDE DEF Task
  <2>4. CASE \E x \in Served : Ask(i, x) BY <2>1, <2>2, <2>4 DEF Ask
  <2>5. CASE LockEngine(i)
    <3>1. \E r \in Task : inf' = [inf EXCEPT ![i] = r]
      BY <2>1, <2>3, <2>5, DeviceIsDevice, GpuAssumption DEF LockEngine
    <3>2. QED BY <2>1, <3>1
  <2>6. CASE Evict(i) \/ LoadEngine(i)
    <3>1. \E r \in Task : inf' = [inf EXCEPT ![i] = r]
      BY <2>1, <2>3, <2>6, GpuAssumption DEF Evict, LoadEngine
    <3>2. QED BY <2>1, <3>1
  <2>7. CASE inf' = [inf EXCEPT ![i] = Idle] BY <2>1, <2>7
  <2>8. QED
    BY <2>4, <2>5, <2>6, <2>7 DEF Infer, Generate, GenerateFails, GeneratePanics, EngineFails
<1>9. installed' \subseteq Devices BY <1>2 DEF TypeOK
<1>10. TypeOK' BY <1>1, <1>6, <1>7, <1>8, <1>9 DEF TypeOK
<1>11. ASSUME NEW e \in Devices PROVE InOrder(e)'
  <2>1. InOrder(e) OBVIOUS
  <2>2. CASE UNCHANGED <<installed, weights>> BY <1>1, <2>1, <2>2, Untouched
  <2>3. CASE installed' = installed /\ weights' = Orphaned(weights)
    BY <1>1, <2>1, <2>3, OrphanedKeeps, Untouched DEF TypeOK
  <2>4. CASE installed' = installed \ {inf[i].dev} /\ weights' = Orphaned(w)
    <3>0. weights'[e].model = w[e].model /\ (weights'[e].kind = "none" <=> w[e].kind = "none")
      BY <1>5, <2>4, OrphanedKeeps
    <3>1. CASE e = inf[i].dev /\ e \in installed
      <4>1. w[e] = NoWeights BY <1>a, <3>1
      <4>2. weights'[e].model = NoModel /\ weights'[e].kind = "none" /\ e \notin installed'
        BY <2>4, <3>0, <3>1, <4>1 DEF NoWeights
      <4>3. at[e] \notin Building BY <2>1, <3>1 DEF InOrder
      <4>4. QED BY <1>1, <2>1, <4>2, <4>3 DEF InOrder, Building
    <3>2. CASE ~(e = inf[i].dev /\ e \in installed)
      <4>1. w[e] = weights[e] /\ (e \in installed' <=> e \in installed) BY <1>a, <2>4, <3>2
      <4>2. QED BY <1>1, <2>1, <3>0, <4>1, Untouched
    <3>3. QED BY <3>1, <3>2
  <2>5. QED BY <1>2, <2>2, <2>3, <2>4
<1>12. IndexServed' /\ LoadingIsExact' BY <1>1 DEF IndexServed, LoadingIsExact
<1>13. QED BY <1>10, <1>11, <1>12

LEMMA StepInvariant == ASSUME IInv, [Next]_vars PROVE IInv'
<1>1. CASE AdvanceDaa
  <2>1. /\ UNCHANGED <<tiers, banned, index, installed, loading, engine, poisoned, minersLock, indexLock,
                       engineLock, at, job, want, weights, sent, inf>>
        /\ daa' \in FirstDaa..LastDaa
    BY <1>1, GpuAssumption DEF AdvanceDaa, locks, IInv, TypeOK
  <2>2. TypeOK' BY <2>1 DEF IInv, TypeOK
  <2>3. IndexServed' /\ LoadingIsExact' BY <2>1 DEF IInv, IndexServed, LoadingIsExact
  <2>4. \A d \in Devices : InOrder(d)' BY <2>1, Untouched DEF IInv
  <2>5. QED BY <2>2, <2>3, <2>4 DEF IInv
<1>2. CASE UNCHANGED vars
  <2>1. UNCHANGED <<daa, tiers, banned, index, installed, loading, engine, poisoned, minersLock, indexLock,
                    engineLock, at, job, want, weights, sent, inf>>
    BY <1>2 DEF vars, tables, locks
  <2>2. TypeOK' BY <2>1 DEF IInv, TypeOK
  <2>3. IndexServed' /\ LoadingIsExact' BY <2>1 DEF IInv, IndexServed, LoadingIsExact
  <2>4. \A d \in Devices : InOrder(d)' BY <2>1, Untouched DEF IInv
  <2>5. QED BY <2>2, <2>3, <2>4 DEF IInv
<1>3. CASE \E d \in Devices : Ensure(d) \/ Mine(d)
  BY <1>3, MineInvariant, ReadInvariant, BuildInvariant, WeightsInvariant, LoadFailsInvariant DEF Ensure
<1>4. CASE \E i \in Inferences : Infer(i) \/ \E x \in Served : Ask(i, x) BY <1>4, InferInvariant
<1>5. QED BY <1>1, <1>2, <1>3, <1>4 DEF Next

\* The state of the miners and of the engine rests on one inductive invariant.
THEOREM GpuInvariant == Spec => []IInv
<1>1. Init => IInv BY InitInvariant
<1>2. IInv /\ [Next]_vars => IInv' BY StepInvariant
<1>3. QED BY <1>1, <1>2, PTL DEF Spec

\* An installed miner walks the model its GPU is assigned, not banned there, whatever an
\* inference evicted and whatever did not fit (ensure_installed_inner, downgrade_after_oom).
THEOREM GpuMinerIsAssigned == Spec => []MinerIsAssigned
<1>1. IInv => MinerIsAssigned BY DEF IInv, TypeOK, InOrder, MinerIsAssigned
<1>2. QED BY <1>1, GpuInvariant, PTL

\* LOADING is the number of rebuilds that go on: each way out of ensure_installed counts
\* once.
THEOREM GpuLoadingIsExact == Spec => []LoadingIsExact
<1>1. IInv => LoadingIsExact BY DEF IInv
<1>2. QED BY <1>1, GpuInvariant, PTL

-----------------------------------------------------------------------------
(* The blocks.                                                             *)

\* No two served models are ever at one tier number.
NumbersAreOwn ==
    \A x, y \in Served : \A r, s \in FirstDaa..LastDaa :
        pom_tier_index(x, r) = pom_tier_index(y, s) /\ pom_tier_index(x, r) # NoTier => x = y

BlocksProve == IInv /\ BlockProvesItsTier

LEMMA BlockStep == ASSUME NumbersAreOwn, BlocksProve, [Next]_vars PROVE BlocksProve'
<1>1. IInv' BY StepInvariant DEF BlocksProve
<1>2. ASSUME NEW d \in Devices, sent'[d] # NoBlock
      PROVE  pom_tier_index(sent'[d].index, sent'[d].daa) = sent'[d].tier
  <2>1. CASE sent'[d] = sent[d] BY <1>2, <2>1 DEF BlocksProve, BlockProvesItsTier
  <2>2. CASE sent'[d] # sent[d]
    <3>1. PICK e \in Devices : TakeJob(e) \/ \E b \in BOOLEAN : BuildBlock(e, b)
      BY <2>2 DEF Next, vars, AdvanceDaa, Ensure, Mine, Infer, ReadTier, LockIndex, BuildIndex, BuildFails,
                  ShareWeights, LoadMiner, LoadFails, GuardAndInstall, CheckInstalled, StartWalk, EndWalk,
                  LockEngine, Evict, LoadEngine, Generate, GenerateFails, GeneratePanics, EngineFails, Ask
    <3>2. e = d BY <2>2, <3>1 DEF TakeJob, BuildBlock, BlocksProve, IInv, TypeOK
    <3>3. PICK b \in BOOLEAN : BuildBlock(d, b)
      <4>1. CASE TakeJob(d)
        <5>1. sent'[d] = NoBlock BY <4>1 DEF TakeJob, BlocksProve, IInv, TypeOK
        <5>2. QED BY <1>2, <5>1
      <4>2. QED BY <3>1, <3>2, <4>1
    <3> DEFINE t == current_tier(d, job[d])
    <3>4. /\ t # NoTier /\ index[t] # NoModel
          /\ sent'[d] = [tier |-> t, daa |-> job[d], index |-> index[t]]
      BY <2>2, <3>3 DEF BuildBlock, BlocksProve, IInv, TypeOK
    <3>5. t = pom_tier_index(tiers[d], job[d]) /\ tiers[d] \in Served /\ job[d] \in FirstDaa..LastDaa
      BY <3>3, <3>4 DEF current_tier, BlocksProve, IInv, InOrder, BuildBlock
    <3>6. t \in Tiers BY <3>4, <3>5, TierIndexType
    <3>7. PICK s \in FirstDaa..LastDaa : index[t] \in Served /\ pom_tier_index(index[t], s) = t
      BY <3>4, <3>6 DEF BlocksProve, IInv, IndexServed
    <3>8. index[t] = tiers[d] BY <3>4, <3>5, <3>7 DEF NumbersAreOwn
    <3> HIDE DEF t
    <3>9. QED BY <3>4, <3>5, <3>8
  <2>3. QED BY <2>1, <2>2
<1>3. QED BY <1>1, <1>2 DEF BlocksProve, BlockProvesItsTier

\* After the fork the numbers are one table's places: any lineup meets the hypothesis.
LEMMA AfterTheFork == ASSUME VERY_LIGHT_ACTIVATION_DAA <= FirstDaa PROVE NumbersAreOwn
<1> SUFFICES ASSUME NEW x \in Served, NEW y \in Served, NEW r \in FirstDaa..LastDaa, NEW s \in FirstDaa..LastDaa,
                    pom_tier_index(x, r) = pom_tier_index(y, s), pom_tier_index(x, r) # NoTier
             PROVE  x = y
  BY DEF NumbersAreOwn
<1>1. TierTable(r) = FiveTiers /\ TierTable(s) = FiveTiers
  BY GpuAssumption, ActivationOrder DEF TierTable
<1>2. ASSUME NEW z, NEW q, TierTable(q) = FiveTiers, pom_tier_index(z, q) # NoTier
      PROVE  /\ pom_tier_index(z, q) + 1 \in DOMAIN FiveTiers
             /\ FiveTiers[pom_tier_index(z, q) + 1] = z
  <2> DEFINE i == CHOOSE j \in DOMAIN FiveTiers : FiveTiers[j] = z
  <2>1. (\E j \in DOMAIN FiveTiers : FiveTiers[j] = z) /\ pom_tier_index(z, q) = i - 1
    BY <1>2 DEF pom_tier_index
  <2>2. i \in DOMAIN FiveTiers /\ FiveTiers[i] = z BY <2>1
  <2> HIDE DEF i
  <2>3. DOMAIN FiveTiers = 1..5 BY DEF FiveTiers
  <2>4. pom_tier_index(z, q) + 1 = i BY <2>1, <2>2, <2>3
  <2>5. QED BY <2>2, <2>4
<1>3. QED BY <1>1, <1>2

\* The tier a block claims is that of the model its proof was built over, at its own score,
\* where no two served models are ever at one number (the PoM loop of miner.rs).
THEOREM GpuBlockProvesItsTier == ASSUME NumbersAreOwn PROVE Spec => []BlockProvesItsTier
<1>1. Init => BlocksProve
  BY InitInvariant DEF Init, BlocksProve, BlockProvesItsTier
<1>2. BlocksProve /\ [Next]_vars => BlocksProve' BY BlockStep
<1>3. BlocksProve => BlockProvesItsTier BY DEF BlocksProve
<1>4. QED BY <1>1, <1>2, <1>3, PTL DEF Spec

\* Once the chain is past the fork, so does every block of every rig.
THEOREM GpuBlocksAfterTheFork ==
    ASSUME VERY_LIGHT_ACTIVATION_DAA <= FirstDaa PROVE Spec => []BlockProvesItsTier
BY AfterTheFork, GpuBlockProvesItsTier
=============================================================================
