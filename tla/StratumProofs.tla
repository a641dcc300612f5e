--------------------------- MODULE StratumProofs ---------------------------
(***************************************************************************)
(* For any tasks, jobs and parameters, through any number of connections:  *)
(* every share that awaits its answer is in the table under its own job,   *)
(* the guard of the one inference is exact, a CID goes with a share of its *)
(* own job only, and whom a job is mined for follows the counter.          *)
(***************************************************************************)
EXTENDS StratumClient, FiniteSetTheorems, TLAPS

\* Ids are handed out once in a connection, the first two to the registration.
IdsAreFresh ==
    /\ conn = "up" \/ held # {} => nextId >= 2
    /\ sending.job \in Jobs \/ sending = NoShare
    /\ sending # NoShare => sending.id \in 2..(nextId - 1)
    /\ \A m \in owed :
          /\ m.id < nextId
          /\ m.kind = "share" => m.id >= 2 /\ m.job \in Jobs
          /\ sending # NoShare => m.id # sending.id
    /\ \A m, n \in owed : m.id = n.id => m = n

\* The task in the slot is the one that came with its job, while that job is mined.
SlotIsOfItsJob ==
    slot.job \in Jobs /\ slot.job \in held \cup {sending.job} => taskOf[slot.job] = slot.task

\* Nothing is mined for a dev fund that is not there.
DevIsThere == payee = "dev" => DevPercent > 0

IInv ==
    /\ TypeOK
    /\ IsFiniteSet(results)
    /\ IdsAreFresh
    /\ SharesArePending
    /\ GuardIsExact
    /\ SlotIsOfItsJob
    /\ DevIsThere

-----------------------------------------------------------------------------

\* The constants.
LEMMA Constants ==
    /\ Garbled \notin Tasks /\ NoTask \notin Tasks /\ Challenge \notin Tasks
    /\ NoJob \notin Jobs
    /\ Cycle \in Nat \ {0} /\ DevPercent \in 0..(Cycle - 1)
    /\ MaxResults \in Nat \ {0} /\ MaxShares \in Nat
BY StratumAssumption

\* The start.
LEMMA InitInvariant == ASSUME Init PROVE IInv
<1>1. IsFiniteSet(results) /\ Cardinality(results) <= MaxResults
  BY Constants, FS_EmptySet DEF Init
<1>2. TypeOK
  <2>1. DOMAIN pending = {} BY DEF Init
  <2>2. NoSlot \in [job : Jobs \cup {NoJob}, task : Tasks \cup {NoTask}] BY DEF NoSlot
  <2>3. NoShare \in [id : 0..(1 + MaxShares), job : Jobs \cup {NoJob}]
    BY Constants DEF NoShare
  <2>4. nextId \in 0..(2 + MaxShares) BY Constants DEF Init
  <2>5. taskOf \in [Jobs -> Tasks \cup {NoTask, Garbled}] BY DEF Init
  <2>6. QED BY <1>1, <2>1, <2>2, <2>3, <2>4, <2>5 DEF Init, TypeOK
<1>3. IdsAreFresh /\ SharesArePending BY DEF Init, IdsAreFresh, SharesArePending
<1>4. GuardIsExact /\ SlotIsOfItsJob /\ DevIsThere
  BY Constants DEF Init, GuardIsExact, SlotIsOfItsJob, NoSlot, DevIsThere
<1>5. QED BY <1>1, <1>2, <1>3, <1>4 DEF IInv

\* The cache keeps to its limit.
LEMMA CacheBounded ==
    ASSUME NEW t \in Tasks, IsFiniteSet(results), results \subseteq Tasks,
           Cardinality(results) <= MaxResults
    PROVE  /\ Cached(t) \subseteq Tasks /\ IsFiniteSet(Cached(t))
           /\ Cardinality(Cached(t)) <= MaxResults
<1>1. IsFiniteSet({t}) /\ Cardinality({t}) = 1 BY FS_Singleton
<1>2. Cardinality(results) \in Nat BY FS_CardinalityType
<1>3. /\ IsFiniteSet(results \cup {t})
      /\ Cardinality(results \cup {t}) \in {Cardinality(results), Cardinality(results) + 1}
  BY FS_AddElement
<1>4. CASE Cardinality(results) >= MaxResults BY <1>1, <1>4, Constants DEF Cached
<1>5. CASE ~(Cardinality(results) >= MaxResults) BY <1>2, <1>3, <1>5, Constants DEF Cached
<1>6. QED BY <1>4, <1>5

\* A new connection.
LEMMA ConnectKeeps == ASSUME IInv, Connect PROVE IInv'
<1> DEFINE register == {Message(0, "subscribe", NoJob, NoTask),
                        Message(1, "authorize", NoJob, NoTask)}
<1>1. /\ Message(0, "subscribe", NoJob, NoTask).id = 0
      /\ Message(1, "authorize", NoJob, NoTask).id = 1
      /\ Message(0, "subscribe", NoJob, NoTask).kind # "share"
      /\ Message(1, "authorize", NoJob, NoTask).kind # "share"
  BY DEF Message
<1>2. IsFiniteSet(results') /\ Cardinality(results') <= MaxResults
  BY Constants, FS_EmptySet DEF Connect
<1>3. TypeOK'
  <2>1. register \subseteq [id : 0..(1 + MaxShares), kind : {"subscribe", "authorize", "share"},
                            job : Jobs \cup {NoJob}, cid : Tasks \cup {NoTask}]
    BY Constants DEF Message
  <2>2. /\ ctr' \in 0..(Cycle - 1)
        /\ DOMAIN pending' \subseteq 2..(1 + MaxShares)
        /\ \A i \in DOMAIN pending' : pending'[i] \in Jobs
        /\ taskOf' \in [Jobs -> Tasks \cup {NoTask, Garbled}]
    BY DEF Connect, IInv, TypeOK
  <2>3. /\ conn' \in {"down", "up", "dead"} /\ payee' \in {"dev", "own"}
        /\ nextId' \in 0..(2 + MaxShares)
        /\ slot' \in [job : Jobs \cup {NoJob}, task : Tasks \cup {NoTask}]
        /\ results' \subseteq Tasks /\ inProgress' \subseteq Tasks
        /\ flag' \in BOOLEAN /\ running' \subseteq Tasks \cup {Challenge}
        /\ told' \in Jobs \cup {NoJob} /\ held' \subseteq Jobs
        /\ sending' \in [id : 0..(1 + MaxShares), job : Jobs \cup {NoJob}]
    <3>1. NoSlot \in [job : Jobs \cup {NoJob}, task : Tasks \cup {NoTask}] BY DEF NoSlot
    <3>2. NoShare \in [id : 0..(1 + MaxShares), job : Jobs \cup {NoJob}]
      BY Constants DEF NoShare
    <3>3. nextId' \in 0..(2 + MaxShares) BY Constants DEF Connect
    <3>4. payee' \in {"dev", "own"} BY DEF Connect
    <3>5. QED BY <3>1, <3>2, <3>3, <3>4 DEF Connect
  <2>4. owed' = register BY DEF Connect
  <2>5. QED BY <1>2, <2>1, <2>2, <2>3, <2>4 DEF TypeOK
<1>4. IdsAreFresh' /\ SharesArePending'
  <2>1. /\ nextId' = 2 /\ sending' = NoShare
        /\ \A m \in owed' : m.id \in {0, 1} /\ m.kind # "share"
        /\ \A m, n \in owed' : m.id = n.id => m = n
    BY <1>1 DEF Connect
  <2>2. QED BY <2>1 DEF IdsAreFresh, SharesArePending
<1>5. GuardIsExact' /\ SlotIsOfItsJob' /\ DevIsThere'
  BY Constants DEF Connect, GuardIsExact, SlotIsOfItsJob, NoSlot, DevIsThere, DevTurn
<1>6. QED BY <1>2, <1>3, <1>4, <1>5 DEF IInv

\* A job that is no longer mined, and the end of a connection.
LEMMA QuietKeeps == ASSUME IInv, Disconnect \/ CatchUp \/ UNCHANGED vars PROVE IInv'
<1>1. /\ UNCHANGED <<ctr, payee, taskOf, shares, tasks, told>>
      /\ held' \subseteq held /\ conn' \in {conn, "down"}
  BY DEF Disconnect, CatchUp, vars, miners, shares, tasks
<1>2. TypeOK' BY <1>1 DEF IInv, TypeOK, shares, tasks
<1>3. IsFiniteSet(results)' BY <1>1 DEF IInv, tasks
<1>4. IdsAreFresh' /\ SharesArePending'
  BY <1>1 DEF IInv, IdsAreFresh, SharesArePending, shares
<1>5. GuardIsExact' /\ SlotIsOfItsJob' /\ DevIsThere'
  BY <1>1 DEF IInv, GuardIsExact, SlotIsOfItsJob, DevIsThere, shares, tasks
<1>6. QED BY <1>2, <1>3, <1>4, <1>5 DEF IInv

\* What is left to show of a step on inferences that leaves the shares alone.
LEMMA SharesStand ==
    ASSUME IInv, UNCHANGED shares, held' # {} => held # {} \/ conn = "up",
           conn' = "up" => conn = "up"
    PROVE  IdsAreFresh' /\ SharesArePending'
BY DEF IInv, IdsAreFresh, SharesArePending, shares

\* A notification.
LEMMA NotifyKeeps ==
    ASSUME IInv, NEW j \in Jobs, NEW t \in Tasks \cup {NoTask, Garbled}, Notify(j, t)
    PROVE  IInv'
<1>1. /\ conn = "up" /\ j \notin held /\ j # sending.job
      /\ ctr' = (ctr + 1) % Cycle /\ taskOf' = [taskOf EXCEPT ![j] = t]
      /\ UNCHANGED <<conn, payee, shares>> /\ results' = results
  BY DEF Notify, Listening, HandleAiTask, tasks
<1>2. held' \in {held, held \cup {j}} /\ told' \in {j, NoJob}
  BY DEF Notify, HandleAiTask, Mine, Pause
<1>3. \/ UNCHANGED <<slot, held>>
      \/ slot' = NoSlot
      \/ slot' = [job |-> j, task |-> t] /\ t \in Tasks
  BY DEF Notify, HandleAiTask, tasks, Pause
<1>4. \/ UNCHANGED <<inProgress, flag, running>>
      \/ /\ t \in Tasks /\ flag = FALSE
         /\ flag' = TRUE /\ running' = running \cup {t} /\ inProgress' = inProgress \cup {t}
  <2>1. flag \in BOOLEAN BY DEF IInv, TypeOK
  <2>2. QED BY <2>1 DEF Notify, HandleAiTask, Start, tasks
<1>5. TypeOK'
  <2>1. ctr' \in 0..(Cycle - 1) BY <1>1, Constants DEF IInv, TypeOK
  <2>2. /\ slot' \in [job : Jobs \cup {NoJob}, task : Tasks \cup {NoTask}]
        /\ told' \in Jobs \cup {NoJob} /\ held' \subseteq Jobs
    BY <1>2, <1>3 DEF IInv, TypeOK, NoSlot
  <2>3. /\ inProgress' \subseteq Tasks /\ flag' \in BOOLEAN
        /\ running' \subseteq Tasks \cup {Challenge}
    BY <1>4 DEF IInv, TypeOK
  <2>4. taskOf' \in [Jobs -> Tasks \cup {NoTask, Garbled}] BY <1>1 DEF IInv, TypeOK
  <2>5. QED BY <1>1, <2>1, <2>2, <2>3, <2>4 DEF IInv, TypeOK, shares
<1>6. GuardIsExact'
  <2>1. CASE UNCHANGED <<inProgress, flag, running>> BY <2>1 DEF IInv, GuardIsExact
  <2>2. CASE /\ t \in Tasks /\ flag = FALSE
             /\ flag' = TRUE /\ running' = running \cup {t} /\ inProgress' = inProgress \cup {t}
    <3>1. running = {} /\ inProgress = {} BY <2>2 DEF IInv, GuardIsExact
    <3>2. running' = {t} /\ inProgress' = {t} /\ flag' = TRUE BY <2>2, <3>1
    <3>3. QED BY <3>2 DEF GuardIsExact
  <2>3. QED BY <1>4, <2>1, <2>2
<1>7. SlotIsOfItsJob'
  <2>1. CASE UNCHANGED <<slot, held>>
    <3>1. slot.job \in held \cup {sending.job} => slot.job # j BY <1>1
    <3>2. QED BY <1>1, <2>1, <3>1 DEF IInv, TypeOK, SlotIsOfItsJob, shares
  <2>2. CASE slot' = NoSlot BY <2>2, Constants DEF SlotIsOfItsJob, NoSlot
  <2>3. CASE slot' = [job |-> j, task |-> t]
    <3>1. taskOf'[j] = t BY <1>1 DEF IInv, TypeOK
    <3>2. QED BY <2>3, <3>1 DEF SlotIsOfItsJob
  <2>4. QED BY <1>3, <2>1, <2>2, <2>3
<1>8. IdsAreFresh' /\ SharesArePending' BY <1>1, SharesStand
<1>9. QED BY <1>1, <1>5, <1>6, <1>7, <1>8 DEF IInv, DevIsThere

\* Challenges, and the ends of inferences.
LEMMA InferenceKeeps ==
    ASSUME IInv, HandleChallenge \/ Inference
    PROVE  IInv'
<1>1. /\ UNCHANGED <<ctr, conn, payee, taskOf, shares, slot, held>>
      /\ told' \in {told, NoJob}
  BY DEF HandleChallenge, Pause, Dismiss, Inference, StoreResult, EndInference, miners
<1>2. IdsAreFresh' /\ SharesArePending' /\ SlotIsOfItsJob' /\ DevIsThere'
  <2>1. SlotIsOfItsJob' /\ DevIsThere' BY <1>1 DEF IInv, SlotIsOfItsJob, DevIsThere, shares
  <2>2. QED BY <1>1, <2>1, SharesStand
<1>3. /\ results' \subseteq Tasks /\ IsFiniteSet(results') /\ Cardinality(results') <= MaxResults
  BY CacheBounded DEF HandleChallenge, Inference, StoreResult, EndInference, IInv, TypeOK
<1>4. /\ inProgress' \subseteq Tasks /\ flag' \in BOOLEAN
      /\ running' \subseteq Tasks \cup {Challenge} /\ GuardIsExact'
  <2>1. CASE UNCHANGED <<inProgress, flag, running>>
    BY <2>1 DEF IInv, TypeOK, GuardIsExact
  <2>2. CASE HandleChallenge /\ Start(Challenge)
    <3>1. running = {} /\ inProgress = {} BY <2>2 DEF HandleChallenge, IInv, TypeOK, GuardIsExact
    <3>2. running' = {Challenge} /\ inProgress' = {} /\ flag' = TRUE
      BY <2>2, <3>1 DEF HandleChallenge, Start
    <3>3. QED BY <3>2 DEF GuardIsExact
  <2>3. CASE \E t \in Tasks : StoreResult(t)
    <3>1. inProgress' \subseteq inProgress /\ UNCHANGED <<flag, running>>
      BY <2>3 DEF StoreResult
    <3>2. QED BY <3>1 DEF IInv, TypeOK, GuardIsExact
  <2>4. CASE \E what \in Tasks \cup {Challenge} : EndInference(what)
    <3> PICK what \in Tasks \cup {Challenge} : EndInference(what) BY <2>4
    <3>1. /\ what \in running /\ what \notin inProgress /\ running' = running \ {what}
          /\ flag' = FALSE /\ inProgress' = inProgress
      BY DEF EndInference
    <3>2. running' = {} /\ inProgress' = {} BY <3>1 DEF IInv, GuardIsExact
    <3>3. QED BY <3>1, <3>2 DEF GuardIsExact
  <2>5. QED BY <2>1, <2>2, <2>3, <2>4 DEF HandleChallenge, Dismiss, Inference
<1>5. TypeOK' BY <1>1, <1>3, <1>4 DEF IInv, TypeOK, shares
<1>6. QED BY <1>2, <1>3, <1>4, <1>5 DEF IInv

\* A share on its way to the pool.
LEMMA ShareKeeps ==
    ASSUME IInv, SubmitShare \/ \E j \in Jobs : TakeShare(j)
    PROVE  IInv'
<1>1. /\ UNCHANGED <<ctr, conn, payee, taskOf, tasks, miners>>
      /\ IsFiniteSet(results') /\ GuardIsExact' /\ DevIsThere'
  BY DEF SubmitShare, TakeShare, IInv, GuardIsExact, DevIsThere, tasks
<1>2. CASE SubmitShare
  <2> DEFINE m == Message(sending.id, "share", sending.job, CidFor(sending.job))
  <2>1. /\ m.id = sending.id /\ m.kind = "share" /\ m.job = sending.job
        /\ m.cid = CidFor(sending.job) /\ owed' = owed \cup {m} /\ sending' = NoShare
        /\ sending # NoShare /\ UNCHANGED <<pending, nextId>>
    BY <1>2 DEF SubmitShare, Message
  <2>2. m \in [id : 0..(1 + MaxShares), kind : {"subscribe", "authorize", "share"},
               job : Jobs \cup {NoJob}, cid : Tasks \cup {NoTask}]
    BY DEF Message, CidFor, IInv, TypeOK
  <2>3. /\ sending.id \in 2..(nextId - 1) /\ sending.job \in Jobs /\ nextId \in Nat
        /\ \A n \in owed : n.id # sending.id
        /\ sending.id \in DOMAIN pending /\ pending[sending.id] = sending.job
    BY <2>1 DEF IInv, TypeOK, IdsAreFresh, SharesArePending
  <2> HIDE DEF m
  <2>4. TypeOK'
    <3>1. sending' \in [id : 0..(1 + MaxShares), job : Jobs \cup {NoJob}]
      BY <2>1, Constants DEF NoShare
    <3>2. QED BY <1>1, <2>1, <2>2, <3>1 DEF IInv, TypeOK, tasks, miners
  <2>5. IdsAreFresh'
    <3>1. \A n \in owed' :
             /\ n.id < nextId
             /\ n.kind = "share" => n.id >= 2 /\ n.job \in Jobs
      BY <2>1, <2>3 DEF IInv, IdsAreFresh
    <3>2. \A n, o \in owed' : n.id = o.id => n = o BY <2>1, <2>3 DEF IInv, IdsAreFresh
    <3>3. QED BY <1>1, <2>1, <3>1, <3>2 DEF IInv, IdsAreFresh, miners
  <2>6. SharesArePending' BY <2>1, <2>3 DEF IInv, SharesArePending
  <2>7. SlotIsOfItsJob'
    <3>1. sending'.job = NoJob BY <2>1 DEF NoShare
    <3>2. QED BY <1>1, <3>1, Constants DEF IInv, SlotIsOfItsJob, tasks, miners
  <2>8. QED BY <1>1, <2>4, <2>5, <2>6, <2>7 DEF IInv
<1>3. CASE \E j \in Jobs : TakeShare(j)
  <2> PICK j \in Jobs : TakeShare(j) BY <1>3
  <2>1. /\ j \in held /\ nextId < 2 + MaxShares /\ nextId' = nextId + 1
        /\ sending' = [id |-> nextId, job |-> j] /\ owed' = owed
        /\ pending' = [i \in DOMAIN pending \cup {nextId} |-> IF i = nextId THEN j ELSE pending[i]]
    BY DEF TakeShare, Enter
  <2>2. nextId \in Nat /\ nextId >= 2 /\ nextId \in 2..(1 + MaxShares)
    BY <2>1, Constants DEF IInv, TypeOK, IdsAreFresh
  <2>3. \A m \in owed : m.id \in Nat /\ m.id < nextId BY DEF IInv, TypeOK, IdsAreFresh
  <2>4. TypeOK'
    <3>1. /\ DOMAIN pending' \subseteq 2..(1 + MaxShares)
          /\ \A i \in DOMAIN pending' : pending'[i] \in Jobs
      BY <2>1, <2>2 DEF IInv, TypeOK
    <3>2. /\ nextId' \in 0..(2 + MaxShares)
          /\ sending' \in [id : 0..(1 + MaxShares), job : Jobs \cup {NoJob}]
      BY <2>1, <2>2, Constants
    <3>3. QED BY <1>1, <2>1, <3>1, <3>2 DEF IInv, TypeOK, tasks, miners
  <2>5. IdsAreFresh'
    <3>1. sending'.id = nextId /\ sending'.job = j BY <2>1
    <3>2. /\ nextId' >= 2 /\ sending'.id \in 2..(nextId' - 1)
      BY <2>1, <2>2, <3>1
    <3>3. \A m \in owed' : /\ m.id < nextId' /\ m.id # sending'.id
                           /\ m.kind = "share" => m.id >= 2 /\ m.job \in Jobs
      BY <2>1, <2>2, <2>3, <3>1 DEF IInv, IdsAreFresh
    <3>4. \A m, n \in owed' : m.id = n.id => m = n BY <2>1 DEF IInv, IdsAreFresh
    <3>5. QED BY <3>1, <3>2, <3>3, <3>4 DEF IdsAreFresh
  <2>6. SharesArePending' BY <2>1, <2>3 DEF IInv, SharesArePending
  <2>7. SlotIsOfItsJob'
    <3>1. sending'.job \in held BY <2>1
    <3>2. QED BY <1>1, <3>1 DEF IInv, SlotIsOfItsJob, tasks, miners
  <2>8. QED BY <1>1, <2>4, <2>5, <2>6, <2>7 DEF IInv
<1>4. QED BY <1>2, <1>3

\* An answer of the pool.
LEMMA AnswerKeeps ==
    ASSUME IInv, NEW m \in owed, Accepted(m) \/ Refused(m)
    PROVE  IInv'
<1>1. /\ UNCHANGED <<ctr, payee, taskOf, tasks, miners, nextId, sending>>
      /\ owed' = owed \ {m} /\ conn = "up" /\ conn' \in {conn, "dead"}
  BY DEF Accepted, Refused, Listening
<1>2. pending' = [i \in DOMAIN pending \ {m.id} |-> pending[i]]
  BY DEF Accepted, Refused, Settle, Restrict
<1>3. TypeOK' BY <1>1, <1>2 DEF IInv, TypeOK, tasks, miners
<1>4. IdsAreFresh' BY <1>1 DEF IInv, IdsAreFresh, miners
<1>5. SharesArePending'
  <2>1. ASSUME NEW n \in owed', n.kind = "share"
        PROVE  n.id \in DOMAIN pending' /\ pending'[n.id] = n.job
    <3>1. n \in owed /\ n.id # m.id BY <1>1 DEF IInv, IdsAreFresh
    <3>2. QED BY <1>2, <2>1, <3>1 DEF IInv, SharesArePending
  <2>2. sending # NoShare => m.id # sending.id BY DEF IInv, IdsAreFresh
  <2>3. QED BY <1>1, <1>2, <2>1, <2>2 DEF IInv, SharesArePending
<1>6. IsFiniteSet(results)' /\ GuardIsExact' /\ SlotIsOfItsJob' /\ DevIsThere'
  BY <1>1 DEF IInv, GuardIsExact, SlotIsOfItsJob, DevIsThere, tasks, miners
<1>7. QED BY <1>3, <1>4, <1>5, <1>6 DEF IInv

\* Every step.
LEMMA StepInvariant == ASSUME IInv, [Next]_vars PROVE IInv'
BY ConnectKeeps, QuietKeeps, NotifyKeeps, InferenceKeeps, ShareKeeps, AnswerKeeps DEF Next

-----------------------------------------------------------------------------

\* The shape of the state (stratum.rs); the cache of results keeps to its limit.
THEOREM StratumTypeOK == Spec => []TypeOK
<1>1. IInv => TypeOK BY DEF IInv
<1>2. QED BY <1>1, InitInvariant, StepInvariant, PTL DEF Spec

\* shares_pending: a share that awaits its answer is in the table, under its own job.
THEOREM StratumSharesArePending == Spec => []SharesArePending
<1>1. IInv => SharesArePending BY DEF IInv
<1>2. QED BY <1>1, InitInvariant, StepInvariant, PTL DEF Spec

\* challenge_in_flight and in_progress: they say what runs, one inference at most.
THEOREM StratumGuardIsExact == Spec => []GuardIsExact
<1>1. IInv => GuardIsExact BY DEF IInv
<1>2. QED BY <1>1, InitInvariant, StepInvariant, PTL DEF Spec

\* create_block_channel: the CID of a share is of the task that came with its job.
THEOREM StratumCidIsOfItsJob == Spec => CidIsOfItsJob
<1>1. ASSUME IInv, [Next]_vars
      PROVE  [\A m \in owed' \ owed : m.cid # NoTask => m.cid = taskOf[m.job]]_vars
  <2> SUFFICES ASSUME NEW m \in owed' \ owed, m.cid # NoTask PROVE m.cid = taskOf[m.job]
    OBVIOUS
  <2>1. CASE Connect BY <2>1 DEF Connect, Message
  <2>2. CASE SubmitShare
    <3>1. m = Message(sending.id, "share", sending.job, CidFor(sending.job)) /\ sending # NoShare
      BY <2>2 DEF SubmitShare
    <3>2. m.job = sending.job /\ m.cid = CidFor(sending.job) BY <3>1 DEF Message
    <3>3. sending.job \in Jobs BY <1>1, <3>1 DEF IInv, IdsAreFresh
    <3>4. slot.job = sending.job /\ m.cid = slot.task BY <3>2 DEF CidFor
    <3>5. QED BY <3>2, <3>3, <3>4, <1>1 DEF IInv, SlotIsOfItsJob
  <2>3. CASE ~(Connect \/ SubmitShare)
    <3>1. owed' \subseteq owed
      BY <1>1, <2>3 DEF Next, Disconnect, Notify, HandleChallenge, Inference, StoreResult,
            EndInference, TakeShare, CatchUp, Accepted, Refused, shares, vars
    <3>2. QED BY <3>1
  <2>4. QED BY <2>1, <2>2, <2>3
<1>2. QED BY <1>1, InitInvariant, StepInvariant, PTL DEF Spec, CidIsOfItsJob

\* handle_message: a refused share never ends the process.
THEOREM StratumSharesNeverKill == Spec => SharesNeverKill
<1>1. ASSUME IInv, [Next]_vars
      PROVE  [conn # "dead" /\ conn' = "dead" => \A m \in owed \ owed' : m.kind # "share"]_vars
  <2> SUFFICES ASSUME conn # "dead", conn' = "dead", NEW n \in owed \ owed'
               PROVE  n.kind # "share"
    OBVIOUS
  <2>1. PICK m \in owed : Refused(m)
    BY <1>1 DEF Next, Connect, Disconnect, Notify, HandleChallenge, Inference, StoreResult,
          EndInference, TakeShare, SubmitShare, CatchUp, Accepted, vars
  <2>2. n = m /\ m.id \notin DOMAIN pending BY <2>1 DEF Refused
  <2>3. QED BY <1>1, <2>2 DEF IInv, SharesArePending
<1>2. QED BY <1>1, InitInvariant, StepInvariant, PTL DEF Spec, SharesNeverKill

\* register and listen: whom a job is mined for follows the counter.
THEOREM StratumJobsGoToPayee == Spec => JobsGoToPayee
<1>1. ASSUME IInv, [Next]_vars
      PROVE  [ctr' # ctr => payee = IF DevTurn THEN "dev" ELSE "own"]_vars
  <2> SUFFICES ASSUME ctr' # ctr PROVE payee = IF DevTurn THEN "dev" ELSE "own"
    OBVIOUS
  <2>1. Listening
    BY <1>1 DEF Next, Connect, Disconnect, Notify, HandleChallenge, Inference, StoreResult,
          EndInference, TakeShare, SubmitShare, CatchUp, Accepted, Refused, vars
  <2>2. payee \in {"dev", "own"} /\ ctr \in Nat /\ DevPercent \in Nat
    BY <1>1, Constants DEF IInv, TypeOK
  <2>3. QED BY <1>1, <2>1, <2>2 DEF Listening, SwitchDue, DevTurn, IInv, DevIsThere
<1>2. QED BY <1>1, InitInvariant, StepInvariant, PTL DEF Spec, JobsGoToPayee
=============================================================================
