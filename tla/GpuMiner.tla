------------------------------ MODULE GpuMiner ------------------------------
(***************************************************************************)
(* The CUDA Proof-of-Model miners, one per GPU, and the inference engine   *)
(* that shares the GPUs with them (src/src/pom_gpu.rs, src/src/slm.rs, the *)
(* possession indices of src/src/pom.rs and the PoM loop of                *)
(* src/src/miner.rs).                                                      *)
(*                                                                         *)
(* A mining thread walks the weights of its GPU's model.  When its miner   *)
(* is gone it reloads it: it makes sure the host index of the tier exists, *)
(* then either borrows the tensors the inference engine holds on that GPU  *)
(* or loads a copy of its own.  A load that does not fit bans the model on *)
(* that GPU and moves the GPU to a smaller one.  An inference holds the    *)
(* engine's lock from start to end; to load its model it first takes the   *)
(* miner of the GPU that mines the model away.                             *)
(*                                                                         *)
(* Every step below is what happens under one lock, or the part of a load  *)
(* that other threads may overtake.                                        *)
(***************************************************************************)
EXTENDS Lineup, FiniteSets

CONSTANTS
    VramMb,          \* VramMb[d]: the memory of GPU d, for every CUDA ordinal
    SizeMb,          \* SizeMb[m]: what one copy of model m takes
    Ceiling,         \* the tier flag of the command line
    FirstDaa,        \* the score of the chain when the miner starts
    LastDaa,         \* a bound on the score
    Solo,            \* the client works for a node, not for a pool
    Inferences,      \* blocking tasks that may run an inference at a time
    Free             \* nobody holds the lock

Devices == DOMAIN VramMb
Assigned == assign_pom_tiers(Ceiling, VramMb)
Served == lineup_from_assignments(Assigned, Ceiling)
Tiers == 0..4

ASSUME GpuAssumption ==
    /\ Devices \subseteq Nat /\ IsFiniteSet(Devices)
    /\ 0 \in Devices
    /\ VramMb \in [Devices -> Nat]
    /\ SizeMb \in [PomModels -> Nat]
    /\ Ceiling \in HardwareTiers
    /\ FirstDaa \in Nat /\ LastDaa \in Nat
    /\ OPOI_V2_ACTIVATION_DAA <= FirstDaa /\ FirstDaa <= LastDaa
    /\ Solo \in BOOLEAN
    /\ Free \notin Devices \cup Inferences
    /\ Devices \cap Inferences = {}

VARIABLES
    \* the process-wide tables
    daa,             \* the score of the latest template
    tiers,           \* MINING_TIERS: the model GPU d is to mine
    banned,          \* OOM_BANLIST
    index,           \* POM_INDICES: the model whose index a tier's slot holds
    installed,       \* the keys of MINERS
    loading,         \* LOADING
    engine,          \* ENGINE: the resident model and its GPU
    poisoned,        \* a thread panicked while it held ENGINE
    \* the locks that are held over several steps
    minersLock, indexLock, engineLock,
    \* each GPU's mining thread
    at,              \* where it stands
    job,             \* the score of the job it has, or 0
    want,            \* the model and tier ensure_installed_inner has read
    weights,         \* the tensors its miner (or the one it builds) keeps alive
    sent,            \* the last block it sent: its tier, score and index
    \* each inference task
    inf
tables == <<daa, tiers, banned, index>>
locks == <<minersLock, indexLock, engineLock>>
vars == <<tables, installed, loading, engine, poisoned, locks, at, job, want, weights, sent, inf>>

-----------------------------------------------------------------------------
(* Data.                                                                   *)

NoWeights == [model |-> NoModel, kind |-> "none"]
NoEngine == [model |-> NoModel, dev |-> 0]
NoWant == [model |-> NoModel, tier |-> NoTier]
NoBlock == [tier |-> NoTier, daa |-> 0, index |-> NoModel]
Idle == [at |-> "idle", model |-> NoModel, dev |-> 0]

Building == {"ensure", "index", "build", "share", "load", "guard"}

\* The memory of a GPU: the engine's model, and the miner's if it is a copy of its own.
Size(m) == IF m = NoModel THEN 0 ELSE SizeMb[m]
OnEngine(d) == IF engine.dev = d THEN Size(engine.model) ELSE 0
OnMiner(d) == IF weights[d].kind = "own" THEN Size(weights[d].model) ELSE 0
Fits(d, m) == OnEngine(d) + OnMiner(d) + SizeMb[m] <= VramMb[d]

\* What was borrowed from the engine is the miner's alone once the engine drops it.
Orphaned(w) == [d \in Devices |-> IF w[d].kind = "shared" THEN [w[d] EXCEPT !.kind = "own"] ELSE w[d]]

\* Faulty variant: the tier of the score at which the miner started.
current_tierFrozen(d, score) == IF tiers[d] = NoModel THEN NoTier ELSE pom_tier_index(tiers[d], FirstDaa)

current_tier(d, score) == IF tiers[d] = NoModel THEN NoTier ELSE pom_tier_index(tiers[d], score)

device_for_model(m) ==
    LET ds == {d \in Devices : tiers[d] = m}
    IN  IF ds = {} THEN 0 ELSE CHOOSE d \in ds : \A e \in ds : d <= e

\* Downgrade: the largest served tier below the failed one that is not banned there.
Smaller(d, m, score) ==
    {s \in Served : /\ is_pom_model(s)
                    /\ pom_tier_index(s, score) # NoTier
                    /\ pom_tier_index(s, score) < pom_tier_index(m, score)
                    /\ <<d, s>> \notin banned}
downgrade_after_oom(d, m, score) ==
    IF pom_tier_index(m, score) = NoTier \/ Smaller(d, m, score) = {} THEN tiers
    ELSE [tiers EXCEPT ![d] = CHOOSE s \in Smaller(d, m, score) :
              \A r \in Smaller(d, m, score) : pom_tier_index(r, score) <= pom_tier_index(s, score)]

-----------------------------------------------------------------------------
Init ==
    /\ daa = FirstDaa
    /\ tiers = Assigned
    /\ banned = {}
    /\ index = [t \in Tiers |-> NoModel]
    /\ installed = {}
    /\ loading = 0
    /\ engine = NoEngine
    /\ poisoned = FALSE
    /\ minersLock = Free /\ indexLock = Free /\ engineLock = Free
    /\ at = [d \in Devices |-> "top"]
    /\ job = [d \in Devices |-> 0]
    /\ want = [d \in Devices |-> NoWant]
    /\ weights = [d \in Devices |-> NoWeights]
    /\ sent = [d \in Devices |-> NoBlock]
    /\ inf = [i \in Inferences |-> Idle]

\* The chain moves on.
AdvanceDaa ==
    /\ daa < LastDaa
    /\ daa' = daa + 1
    /\ UNCHANGED <<tiers, banned, index, installed, loading, engine, poisoned, locks,
                   at, job, want, weights, sent, inf>>

GoTo(d, place) == at' = [at EXCEPT ![d] = place]

\* ensure_installed returns: one load less, and on to the batch in any case.
Return(d) ==
    /\ loading' = loading - 1
    /\ want' = [want EXCEPT ![d] = NoWant]
    /\ GoTo(d, "mine")

-----------------------------------------------------------------------------
(* The mining thread of GPU d.                                             *)

\* Without a job it waits for the latest template.
TakeJob(d) ==
    /\ at[d] = "top" /\ job[d] = 0
    /\ job' = [job EXCEPT ![d] = daa]
    /\ sent' = [sent EXCEPT ![d] = NoBlock]
    /\ UNCHANGED <<tables, installed, loading, engine, poisoned, locks, at, want, weights, inf>>

\* get_changed after a batch without a winner: the latest template, a pause, or no news.
GetChanged(d) == \E j \in {job[d], daa, 0} : job' = [job EXCEPT ![d] = j]

\* is_installed: mine at once, or rebuild the miner first.
CheckInstalled(d) ==
    /\ at[d] = "top" /\ job[d] # 0
    /\ minersLock = Free
    /\ IF d \in installed
       THEN GoTo(d, "mine") /\ UNCHANGED loading
       ELSE GoTo(d, "ensure") /\ loading' = loading + 1
    /\ UNCHANGED <<tables, installed, engine, poisoned, locks, job, want, weights, sent, inf>>

\* Faulty variant: refusing forgets the load that was announced.
ReadTierLeaks(d) ==
    /\ at[d] = "ensure"
    /\ LET t == current_tier(d, job[d])
           refuse == t = NoTier \/ <<d, tiers[d]>> \in banned
       IN  IF refuse
           THEN GoTo(d, "mine") /\ UNCHANGED want
           ELSE /\ GoTo(d, IF index[t] = NoModel THEN "index" ELSE "share")
                /\ want' = [want EXCEPT ![d] = [model |-> tiers[d], tier |-> t]]
    /\ UNCHANGED <<tables, installed, loading, engine, poisoned, locks, job, weights, sent, inf>>

\* ensure_installed_inner up to the first lock: no tier, no index of it at this score,
\* or a banned model, and it gives up.
ReadTier(d) ==
    /\ at[d] = "ensure"
    /\ LET t == current_tier(d, job[d])
           refuse == t = NoTier \/ <<d, tiers[d]>> \in banned
       IN  IF refuse
           THEN Return(d)
           ELSE /\ GoTo(d, IF index[t] = NoModel THEN "index" ELSE "share")
                /\ want' = [want EXCEPT ![d] = [model |-> tiers[d], tier |-> t]]
                /\ UNCHANGED loading
    /\ UNCHANGED <<tables, installed, engine, poisoned, locks, job, weights, sent, inf>>

\* index_build_lock, and the second look at the slot under it.
LockIndex(d) ==
    /\ at[d] = "index" /\ indexLock = Free
    /\ IF index[want[d].tier] = NoModel
       THEN GoTo(d, "build") /\ indexLock' = d
       ELSE GoTo(d, "share") /\ UNCHANGED indexLock
    /\ UNCHANGED <<tables, installed, loading, engine, poisoned, minersLock, engineLock,
                   job, want, weights, sent, inf>>

\* WeightIndex::build_from_gguf and set_index.
BuildIndex(d) ==
    /\ at[d] = "build"
    /\ index' = [index EXCEPT ![want[d].tier] = want[d].model]
    /\ indexLock' = Free
    /\ GoTo(d, "share")
    /\ UNCHANGED <<daa, tiers, banned, installed, loading, engine, poisoned, minersLock,
                   engineLock, job, want, weights, sent, inf>>

\* Faulty variant: a build that fails keeps the lock.
BuildFailsLocked(d) ==
    /\ at[d] = "build"
    /\ Return(d)
    /\ UNCHANGED <<tables, installed, engine, poisoned, locks, job, weights, sent, inf>>

\* The build failed on the file.
BuildFails(d) ==
    /\ at[d] = "build"
    /\ indexLock' = Free
    /\ Return(d)
    /\ UNCHANGED <<tables, installed, engine, poisoned, minersLock, engineLock,
                   job, weights, sent, inf>>

\* pom_shared: waits for the engine, and borrows its tensors if it holds this very
\* model on this GPU.  A poisoned engine lends nothing.
ShareWeights(d) ==
    /\ at[d] = "share" /\ engineLock = Free
    /\ IF ~poisoned /\ engine.model = want[d].model /\ engine.dev = d
       THEN weights' = [weights EXCEPT ![d] = [model |-> want[d].model, kind |-> "shared"]]
       ELSE UNCHANGED weights
    /\ GoTo(d, "load")
    /\ UNCHANGED <<tables, installed, loading, engine, poisoned, locks, job, want, sent, inf>>

\* load_shared has its tensors; load allocates them, and they must fit.
LoadMiner(d) ==
    /\ at[d] = "load"
    /\ \/ weights[d].model = want[d].model /\ UNCHANGED weights
       \/ /\ weights[d] = NoWeights
          /\ Fits(d, want[d].model)
          /\ weights' = [weights EXCEPT ![d] = [model |-> want[d].model, kind |-> "own"]]
    /\ GoTo(d, "guard")
    /\ UNCHANGED <<tables, installed, loading, engine, poisoned, locks, job, want, sent, inf>>

\* Faulty variant: a load that fails is not the end.
LoadFailsFallsThrough(d) ==
    /\ at[d] = "load"
    /\ weights[d] = NoWeights
    /\ ~Fits(d, want[d].model)
    /\ banned' = banned \cup {<<d, want[d].model>>}
    /\ tiers' = downgrade_after_oom(d, want[d].model, job[d])
    /\ GoTo(d, "guard")
    /\ UNCHANGED <<daa, index, installed, loading, engine, poisoned, locks, job, want, weights, sent, inf>>

\* A load that fails, or panics, bans the model on this GPU and downgrades it.
LoadFails(d) ==
    /\ at[d] = "load"
    /\ weights[d] = NoWeights
    /\ ~Fits(d, want[d].model)
    /\ banned' = banned \cup {<<d, want[d].model>>}
    /\ tiers' = downgrade_after_oom(d, want[d].model, job[d])
    /\ Return(d)
    /\ UNCHANGED <<daa, index, installed, engine, poisoned, locks, job, weights, sent, inf>>

\* The number of chunks gathered must be the index's; two models never have the same.
GuardAndInstall(d) ==
    /\ at[d] = "guard"
    /\ minersLock = Free
    /\ IF index[want[d].tier] = want[d].model
       THEN installed' = installed \cup {d} /\ UNCHANGED weights
       ELSE weights' = [weights EXCEPT ![d] = NoWeights] /\ UNCHANGED installed
    /\ Return(d)
    /\ UNCHANGED <<tables, engine, poisoned, locks, job, sent, inf>>

\* mine: MINERS stays locked for the whole batch.
StartWalk(d) ==
    /\ at[d] = "mine"
    /\ minersLock = Free
    /\ IF d \in installed
       THEN minersLock' = d /\ GoTo(d, "walk") /\ UNCHANGED job
       ELSE GoTo(d, "top") /\ GetChanged(d) /\ UNCHANGED minersLock
    /\ UNCHANGED <<tables, installed, loading, engine, poisoned, indexLock, engineLock,
                   want, weights, sent, inf>>

EndWalk(d) ==
    /\ at[d] = "walk"
    /\ minersLock' = Free
    /\ \/ GoTo(d, "found") /\ UNCHANGED job
       \/ GoTo(d, "top") /\ GetChanged(d)
    /\ UNCHANGED <<tables, installed, loading, engine, poisoned, indexLock, engineLock,
                   want, weights, sent, inf>>

\* A winning nonce: the tier at the job's score, that tier's index, and the host's walk
\* over it.  Over another model's index the walk may or may not meet the target.  A block
\* for a node ends the job, a share for a pool does not.
BuildBlock(d, lucky) ==
    /\ at[d] = "found"
    /\ LET t == current_tier(d, job[d])
           over == IF t = NoTier THEN NoModel ELSE index[t]
       IN  IF over # NoModel /\ (over = tiers[d] \/ lucky)
           THEN /\ sent' = [sent EXCEPT ![d] = [tier |-> t, daa |-> job[d], index |-> over]]
                /\ job' = [job EXCEPT ![d] = IF Solo THEN 0 ELSE @]
           ELSE UNCHANGED <<sent, job>>
    /\ GoTo(d, "top")
    /\ UNCHANGED <<tables, installed, loading, engine, poisoned, locks, want, weights, inf>>

-----------------------------------------------------------------------------
(* An inference task: load_and_run_inference.                              *)

Ask(i, m) ==
    /\ inf[i].at = "idle"
    /\ inf' = [inf EXCEPT ![i] = [at |-> "lock", model |-> m, dev |-> 0]]
    /\ UNCHANGED <<tables, installed, loading, engine, poisoned, locks, at, job, want, weights, sent>>

\* The engine's lock; a poisoned one is recovered by dropping the engine.  The GPU that
\* mines the model is looked up when a load is needed.
LockEngine(i) ==
    /\ inf[i].at = "lock" /\ engineLock = Free
    /\ engineLock' = i
    /\ IF poisoned
       THEN engine' = NoEngine /\ weights' = Orphaned(weights)
       ELSE UNCHANGED <<engine, weights>>
    /\ inf' = [inf EXCEPT ![i] = IF engine'.model = inf[i].model THEN [@ EXCEPT !.at = "generate"]
                                 ELSE [@ EXCEPT !.at = "evict", !.dev = device_for_model(inf[i].model)]]
    /\ UNCHANGED <<tables, installed, loading, poisoned, minersLock, indexLock, at, job, want, sent>>

\* uninstall(dev), then the engine lets go of the model it has.
Evict(i) ==
    /\ inf[i].at = "evict" /\ minersLock = Free
    /\ installed' = installed \ {inf[i].dev}
    /\ weights' = Orphaned([weights EXCEPT ![inf[i].dev] =
                               IF inf[i].dev \in installed THEN NoWeights ELSE @])
    /\ engine' = NoEngine
    /\ inf' = [inf EXCEPT ![i].at = "load"]
    /\ UNCHANGED <<tables, loading, poisoned, locks, at, job, want, sent>>

LoadEngine(i) ==
    /\ inf[i].at = "load"
    /\ Fits(inf[i].dev, inf[i].model)
    /\ engine' = [model |-> inf[i].model, dev |-> inf[i].dev]
    /\ inf' = [inf EXCEPT ![i].at = "generate"]
    /\ UNCHANGED <<tables, installed, loading, poisoned, locks, at, job, want, weights, sent>>

\* The model does not fit: an error, or a panic with the lock held.
EngineFails(i, panics) ==
    /\ inf[i].at = "load"
    /\ ~Fits(inf[i].dev, inf[i].model)
    /\ poisoned' = (poisoned \/ panics)
    /\ engineLock' = Free
    /\ inf' = [inf EXCEPT ![i] = Idle]
    /\ UNCHANGED <<tables, installed, loading, engine, minersLock, indexLock,
                   at, job, want, weights, sent>>

\* The answer, or an empty one.
Generate(i) ==
    /\ inf[i].at = "generate"
    /\ engineLock' = Free
    /\ inf' = [inf EXCEPT ![i] = Idle]
    /\ UNCHANGED <<tables, installed, loading, engine, poisoned, minersLock, indexLock,
                   at, job, want, weights, sent>>

\* Faulty variant: an error keeps the engine's lock.
GenerateFailsLocked(i) ==
    /\ inf[i].at = "generate"
    /\ engine' = NoEngine
    /\ weights' = Orphaned(weights)
    /\ inf' = [inf EXCEPT ![i] = Idle]
    /\ UNCHANGED <<tables, installed, loading, poisoned, locks, at, job, want, sent>>

\* An error drops the answer and the engine.
GenerateFails(i) ==
    /\ inf[i].at = "generate"
    /\ engine' = NoEngine
    /\ weights' = Orphaned(weights)
    /\ engineLock' = Free
    /\ inf' = [inf EXCEPT ![i] = Idle]
    /\ UNCHANGED <<tables, installed, loading, poisoned, minersLock, indexLock, at, job, want, sent>>

\* A panic poisons the lock; the handler finds it poisoned and leaves the engine.
GeneratePanics(i) ==
    /\ inf[i].at = "generate"
    /\ poisoned' = TRUE
    /\ engineLock' = Free
    /\ inf' = [inf EXCEPT ![i] = Idle]
    /\ UNCHANGED <<tables, installed, loading, engine, minersLock, indexLock,
                   at, job, want, weights, sent>>

-----------------------------------------------------------------------------
Ensure(d) ==
    \/ ReadTier(d) \/ LockIndex(d) \/ BuildIndex(d) \/ BuildFails(d) \/ ShareWeights(d)
    \/ LoadMiner(d) \/ LoadFails(d) \/ GuardAndInstall(d)

Mine(d) ==
    \/ TakeJob(d) \/ CheckInstalled(d) \/ StartWalk(d)
    \/ EndWalk(d) \/ \E b \in BOOLEAN : BuildBlock(d, b)

Infer(i) ==
    \/ LockEngine(i) \/ Evict(i) \/ LoadEngine(i) \/ Generate(i) \/ GenerateFails(i) \/ GeneratePanics(i)
    \/ \E b \in BOOLEAN : EngineFails(i, b)

Next ==
    \/ AdvanceDaa
    \/ \E d \in Devices : Ensure(d) \/ Mine(d)
    \/ \E i \in Inferences : Infer(i) \/ \E m \in Served : Ask(i, m)

Spec == Init /\ [][Next]_vars

\* A thread that can take a step takes it; a lock that is released again and again is
\* had in the end; batches end; the chain goes on.
\* A thread stands at one step at a time, so its steps that wait for a lock are one case
\* and the others another.
WorkerFairness(d) ==
    /\ WF_vars(\/ TakeJob(d) \/ ReadTier(d) \/ BuildIndex(d) \/ BuildFails(d)
               \/ LoadMiner(d) \/ LoadFails(d)
               \/ EndWalk(d) \/ \E b \in BOOLEAN : BuildBlock(d, b))
    /\ SF_vars(CheckInstalled(d) \/ StartWalk(d) \/ LockIndex(d) \/ ShareWeights(d) \/ GuardAndInstall(d))

InferenceFairness(i) ==
    /\ WF_vars(\/ LoadEngine(i) \/ Generate(i) \/ GenerateFails(i) \/ GeneratePanics(i)
               \/ \E b \in BOOLEAN : EngineFails(i, b))
    /\ SF_vars(LockEngine(i) \/ Evict(i))

FairSpec ==
    /\ Spec
    /\ \A d \in Devices : WorkerFairness(d)
    /\ \A i \in Inferences : InferenceFairness(i)

-----------------------------------------------------------------------------
(* Properties.                                                             *)

\* Every table, lock and thread holds a value it may hold.
TypeOK ==
    /\ daa \in FirstDaa..LastDaa
    /\ tiers \in [Devices -> PomModels \cup {NoModel}]
    /\ banned \subseteq Devices \X PomModels
    /\ index \in [Tiers -> PomModels \cup {NoModel}]
    /\ installed \subseteq Devices
    /\ loading \in Nat
    /\ engine \in [model : PomModels \cup {NoModel}, dev : Devices]
    /\ poisoned \in BOOLEAN
    /\ minersLock \in Devices \cup {Free}
    /\ indexLock \in Devices \cup {Free}
    /\ engineLock \in Inferences \cup {Free}
    /\ at \in [Devices -> Building \cup {"top", "mine", "walk", "found"}]
    /\ job \in [Devices -> {0} \cup FirstDaa..LastDaa]
    /\ want \in [Devices -> [model : PomModels \cup {NoModel}, tier : Tiers \cup {NoTier}]]
    /\ weights \in [Devices -> [model : PomModels \cup {NoModel}, kind : {"none", "own", "shared"}]]
    /\ sent \in [Devices -> [tier : Tiers \cup {NoTier}, daa : {0} \cup FirstDaa..LastDaa,
                             index : PomModels \cup {NoModel}]]
    /\ inf \in [Inferences -> [at : {"idle", "lock", "evict", "load", "generate"},
                               model : PomModels \cup {NoModel}, dev : Devices]]

\* An installed miner walks the model its GPU is assigned, which was never banned there:
\* a downgrade in the middle of a rebuild leaves no miner of the old model behind.
MinerIsAssigned ==
    \A d \in installed :
        /\ weights[d].model = tiers[d]
        /\ tiers[d] # NoModel
        /\ <<d, tiers[d]>> \notin banned

\* The stall watchdog is told of a load exactly while one goes on: no early return, failed
\* load or refused gather leaks a count.
LoadingIsExact == loading = Cardinality({d \in Devices : at[d] \in Building})

\* The tier a block claims is the tier, at the block's score, of the model whose index its
\* proof was built over, whatever the score was when index and miner were built.  (Where
\* two served models have one number, before and after the fork, a nonce that wins by
\* chance over the other one's index breaks it: see the README.)
BlockProvesItsTier ==
    \A d \in Devices : sent[d] # NoBlock =>
        pom_tier_index(sent[d].index, sent[d].daa) = sent[d].tier

\* An inference that was asked for ends, with an answer or without: mining batches and
\* miner rebuilds that hold the locks it needs do not keep it out for ever.
InferenceEnds == \A i \in Inferences : inf[i].at # "idle" ~> inf[i].at = "idle"

\* A rebuild ends, and with it the watchdog's truce.
RebuildEnds == \A d \in Devices : at[d] \in Building ~> at[d] \notin Building

(* What the documentation says and the code does not give: TLC refutes what follows, at the
   constants the README names. *)

\* "Recomputed per block (not frozen at index-build time) so the tier reindexing at the
\* very-light hardfork (H2) is applied at the exact boundary": a GPU with a winning nonce
\* has the index of its model under the tier of the block (pom_gpu.rs:408-410).
WinnerHasIndex ==
    \A d \in Devices : at[d] = "found" =>
        LET t == current_tier(d, job[d]) IN t # NoTier /\ index[t] = tiers[d]
=============================================================================
