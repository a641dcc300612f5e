--------------------------- MODULE StratumClient ---------------------------
(***************************************************************************)
(* The client of a mining pool (src/src/client/stratum.rs), connection     *)
(* after connection.  One task handles the pool's messages, another        *)
(* submits the blocks the miners find as shares, a blocking task at a time *)
(* runs an inference for an AiTask or a challenge.                         *)
(*                                                                         *)
(* The counter that shares the time between miner and dev fund and the     *)
(* table of pending shares outlive a connection; all else is made anew.    *)
(* Data: a task is its stable_id, with its result's CID if it has one; a   *)
(* job is its id.  A message is handled as the pool sends it: it queues no *)
(* state but the answers it owes.                                          *)
(***************************************************************************)
EXTENDS Naturals, FiniteSets, Functions

CONSTANTS
    Tasks,
    Unusable,   \* tasks without a stable_id or with a bad model id
    Garbled,    \* a task that does not parse
    NoTask,
    Challenge,  \* what runs for a challenge
    Jobs,
    NoJob,
    DevPercent, \* devfund_percent; 0: no dev fund
    Cycle,      \* the counter's period, 10 000
    MaxResults, \* MAX_INFERENCE_CACHE_SIZE
    MaxShares   \* bound: shares per connection

ASSUME StratumAssumption ==
    /\ Unusable \subseteq Tasks
    /\ Garbled \notin Tasks /\ NoTask \notin Tasks /\ Challenge \notin Tasks
    /\ NoJob \notin Jobs
    /\ Cycle \in Nat \ {0} /\ DevPercent \in 0..(Cycle - 1)
    /\ MaxResults \in Nat \ {0} /\ MaxShares \in Nat

VARIABLES
    ctr,        \* block_template_ctr
    pending,    \* shares_pending: ids to jobs
    conn,       \* the connection; "dead": the process has panicked
    payee,      \* mining_dev: whom this connection mines for
    nextId,     \* last_stratum_id
    slot,       \* current_task_slot
    results,    \* tasks with a CID in the cache
    inProgress, \* tasks in the cache's in_progress
    flag,       \* challenge_in_flight
    running,    \* blocking tasks of this connection
    told,       \* what the miners were last told
    held,       \* jobs the miners may still find blocks for
    sending,    \* the share in the hands of the submitting task
    taskOf,     \* the task the pool sent with each job
    owed        \* messages the pool has not answered

shares == <<pending, nextId, sending, owed>>
tasks == <<slot, results, inProgress, flag, running>>
miners == <<told, held>>
vars == <<ctr, conn, payee, taskOf, shares, tasks, miners>>

NoSlot == [job |-> NoJob, task |-> NoTask]
NoShare == [id |-> 0, job |-> NoJob]
Message(id, kind, job, cid) == [id |-> id, kind |-> kind, job |-> job, cid |-> cid]

\* Nothing is mined for the dev fund unless add_devfund was called.
DevTurn == DevPercent > 0 /\ ctr <= DevPercent

-----------------------------------------------------------------------------
(* Connections *)

\* Faulty variant: registering and listening disagree on the last job of its turn.
SwitchDueEarly ==
    \/ payee = "own" /\ ctr <= DevPercent
    \/ payee = "dev" /\ ctr >= DevPercent

\* The time for the other payee has come: listen returns before it reads.
SwitchDue ==
    \/ payee = "own" /\ ctr <= DevPercent
    \/ payee = "dev" /\ ctr > DevPercent

Listening == conn = "up" /\ ~SwitchDue

\* connect and register, with a new MinerManager.
Connect ==
    /\ conn = "down"
    /\ conn' = "up"
    /\ payee' = IF DevTurn THEN "dev" ELSE "own"
    /\ nextId' = 2
    /\ owed' = {Message(0, "subscribe", NoJob, NoTask), Message(1, "authorize", NoJob, NoTask)}
    /\ sending' = NoShare
    /\ slot' = NoSlot /\ results' = {} /\ inProgress' = {}
    /\ flag' = FALSE /\ running' = {}
    /\ told' = NoJob /\ held' = {}
    /\ UNCHANGED <<ctr, pending, taskOf>>

\* listen returns, or fails: a message that cannot be used, a pool that refuses the
\* worker, a connection that breaks.  Blocking tasks run on, for nobody.
Disconnect ==
    /\ conn = "up"
    /\ conn' = "down"
    /\ UNCHANGED <<ctr, payee, taskOf, shares, tasks, miners>>

-----------------------------------------------------------------------------
(* Jobs and inferences *)

\* process_block, with a job or without.
Mine(j) == told' = j /\ held' = held \cup {j}
Pause == told' = NoJob /\ UNCHANGED held

Start(what) ==
    /\ flag' = TRUE
    /\ running' = running \cup {what}

\* What handle_ai_task refuses besides what is already in flight.
Handled(t) == t \in Unusable \cup results \cup inProgress

\* The model's files may be there or not at each look (ready).
HandleAiTask(j, t, ready) ==
    /\ slot' = [job |-> j, task |-> t]
    /\ IF Handled(t) \/ ~ready \/ flag
       THEN Mine(j) /\ UNCHANGED <<results, inProgress, flag, running>>
       ELSE /\ Pause
            /\ Start(t)
            /\ inProgress' = inProgress \cup {t}
            /\ UNCHANGED results

\* mining.notify.  The pool numbers a job afresh as long as the old one is mined.
Notify(j, t) ==
    /\ Listening
    /\ j \notin held \cup {told, sending.job}
    /\ ctr' = (ctr + 1) % Cycle
    /\ taskOf' = [taskOf EXCEPT ![j] = t]
    /\ \/ Pause /\ UNCHANGED tasks  \* no model is left
       \/ /\ t \in {NoTask, Garbled}
          /\ slot' = NoSlot
          /\ Mine(j)
          /\ UNCHANGED <<results, inProgress, flag, running>>
       \/ /\ t \in Tasks
          /\ \E ready \in BOOLEAN : HandleAiTask(j, t, ready)
    /\ UNCHANGED <<conn, payee, shares>>

\* Faulty variant: a model that is missing leaves the flag up.
DismissLeaky == flag' = TRUE /\ UNCHANGED <<running, miners>>

\* A challenge for a missing model is answered at once.
Dismiss == UNCHANGED <<flag, running, miners>>

\* handle_challenge.  One that finds another inference in flight is dropped.
HandleChallenge ==
    /\ Listening /\ ~flag
    /\ \E ready \in BOOLEAN :
          IF ready THEN Start(Challenge) /\ Pause ELSE Dismiss
    /\ UNCHANGED <<ctr, conn, payee, taskOf, shares, slot, results, inProgress>>

\* A full cache is cleared.
Cached(t) == IF Cardinality(results) >= MaxResults THEN {t} ELSE results \cup {t}

\* run_inference_and_upload, with a CID or without.
StoreResult(t) ==
    /\ conn = "up" /\ t \in running \cap inProgress
    /\ inProgress' = inProgress \ {t}
    /\ results' \in {results, Cached(t)}
    /\ UNCHANGED <<ctr, conn, payee, taskOf, shares, slot, flag, running, miners>>

\* The blocking task clears the flag and ends; a challenge's goes on to answer.
EndInference(what) ==
    /\ conn = "up"
    /\ what \in running \ inProgress
    /\ running' = running \ {what}
    /\ flag' = FALSE
    /\ UNCHANGED <<ctr, conn, payee, taskOf, shares, slot, results, inProgress, miners>>

-----------------------------------------------------------------------------
(* Shares *)

\* Faulty variant: an id that is in the table keeps its job.
EnterOnce(id, j) ==
    pending' = [i \in DOMAIN pending \cup {id} |-> IF i \in DOMAIN pending THEN pending[i] ELSE j]

Enter(id, j) ==
    pending' = [i \in DOMAIN pending \cup {id} |-> IF i = id THEN j ELSE pending[i]]

\* The submitting task has a block of job j, from miners that hold that job; also while
\* the manager is dropped, when listen has returned.
TakeShare(j) ==
    /\ conn # "dead" /\ sending = NoShare
    /\ j \in held
    /\ nextId < 2 + MaxShares
    /\ nextId' = nextId + 1
    /\ sending' = [id |-> nextId, job |-> j]
    /\ Enter(nextId, j)
    /\ UNCHANGED <<ctr, conn, payee, taskOf, tasks, miners, owed>>

\* Faulty variant: the task of the moment is taken for the share's.
CidForAny(j) == IF slot.task \in results THEN slot.task ELSE NoTask

\* The CID that goes with a share of job j: its task is the one in the slot, and done.
CidFor(j) == IF slot.job = j /\ slot.task \in results THEN slot.task ELSE NoTask

SubmitShare ==
    /\ conn # "dead" /\ sending # NoShare
    /\ owed' = owed \cup {Message(sending.id, "share", sending.job, CidFor(sending.job))}
    /\ sending' = NoShare
    /\ UNCHANGED <<ctr, conn, payee, taskOf, tasks, miners, pending, nextId>>

\* The miners leave a job for a later one.
CatchUp ==
    /\ conn = "up"
    /\ \E j \in held \ {told} : held' = held \ {j}
    /\ UNCHANGED <<ctr, conn, payee, taskOf, shares, tasks, told>>

Settle(id) == pending' = Restrict(pending, DOMAIN pending \ {id})

Accepted(m) ==
    /\ Listening /\ m \in owed
    /\ owed' = owed \ {m}
    /\ Settle(m.id)
    /\ UNCHANGED <<ctr, conn, payee, taskOf, tasks, miners, nextId, sending>>

\* An error answer must find a pending share: if it does not, as when the pool refuses
\* the subscription or the worker, the client's task panics, and with it the process.
\* (Some of the error codes end the connection: see Disconnect.)
Refused(m) ==
    /\ Listening /\ m \in owed
    /\ owed' = owed \ {m}
    /\ Settle(m.id)
    /\ conn' = IF m.id \in DOMAIN pending THEN conn ELSE "dead"
    /\ UNCHANGED <<ctr, payee, taskOf, tasks, miners, nextId, sending>>

-----------------------------------------------------------------------------

Init ==
    /\ ctr \in 0..(Cycle - 1)
    /\ pending = [i \in {} |-> NoJob]
    /\ conn = "down" /\ payee = "own"
    /\ nextId = 0 /\ sending = NoShare /\ owed = {}
    /\ slot = NoSlot /\ results = {} /\ inProgress = {}
    /\ flag = FALSE /\ running = {}
    /\ told = NoJob /\ held = {}
    /\ taskOf = [j \in Jobs |-> NoTask]

Inference ==
    \/ \E t \in Tasks : StoreResult(t)
    \/ \E what \in Tasks \cup {Challenge} : EndInference(what)

Next ==
    \/ Connect \/ Disconnect
    \/ \E j \in Jobs, t \in Tasks \cup {NoTask, Garbled} : Notify(j, t)
    \/ HandleChallenge
    \/ Inference
    \/ \E j \in Jobs : TakeShare(j)
    \/ SubmitShare
    \/ CatchUp
    \/ \E m \in owed : Accepted(m) \/ Refused(m)

Spec == Init /\ [][Next]_vars

\* The loop of main connects again, miners leave old jobs, the submitting task runs, and
\* a pool that is listened to goes on sending jobs.
FairSpec ==
    /\ Spec
    /\ WF_vars(Connect) /\ WF_vars(conn = "up" /\ SwitchDue /\ Disconnect)
    /\ WF_vars(CatchUp) /\ WF_vars(SubmitShare)
    /\ SF_vars(\E j \in Jobs, t \in Tasks \cup {NoTask, Garbled} : Notify(j, t))

-----------------------------------------------------------------------------
(* Properties *)

\* The shape of the state.
TypeOK ==
    /\ ctr \in 0..(Cycle - 1)
    /\ DOMAIN pending \subseteq 2..(1 + MaxShares)
    /\ \A i \in DOMAIN pending : pending[i] \in Jobs
    /\ conn \in {"down", "up", "dead"} /\ payee \in {"dev", "own"}
    /\ nextId \in 0..(2 + MaxShares)
    /\ slot \in [job : Jobs \cup {NoJob}, task : Tasks \cup {NoTask}]
    /\ results \subseteq Tasks /\ inProgress \subseteq Tasks
    /\ Cardinality(results) <= MaxResults
    /\ flag \in BOOLEAN /\ running \subseteq Tasks \cup {Challenge}
    /\ told \in Jobs \cup {NoJob} /\ held \subseteq Jobs
    /\ sending \in [id : 0..(1 + MaxShares), job : Jobs \cup {NoJob}]
    /\ taskOf \in [Jobs -> Tasks \cup {NoTask, Garbled}]
    /\ owed \subseteq [id : 0..(1 + MaxShares), kind : {"subscribe", "authorize", "share"},
                       job : Jobs \cup {NoJob}, cid : Tasks \cup {NoTask}]

\* The table of pending shares outlives a connection and the ids do not: still every
\* share the pool has to answer is found there, under its own job.
SharesArePending ==
    /\ \A m \in owed : m.kind = "share" => m.id \in DOMAIN pending /\ pending[m.id] = m.job
    /\ sending # NoShare =>
          sending.id \in DOMAIN pending /\ pending[sending.id] = sending.job

\* challenge_in_flight and in_progress say what runs, at most one inference: a flag that
\* stayed up would end all inference.
GuardIsExact ==
    /\ flag <=> running # {}
    /\ inProgress \subseteq running
    /\ \A a, b \in running : a = b

\* A share that carries a CID carries the one of the task that came with its job.
CidIsOfItsJob ==
    [][\A m \in owed' \ owed : m.cid # NoTask => m.cid = taskOf[m.job]]_vars

\* "a rejected share/block is logged but never fatal": only an answer to the registration
\* may end the process.
SharesNeverKill ==
    [][conn # "dead" /\ conn' = "dead" => \A m \in owed \ owed' : m.kind # "share"]_vars

\* A job that is mined goes to the dev fund exactly when it is the dev fund's turn.
JobsGoToPayee ==
    [][ctr' # ctr => payee = IF DevTurn THEN "dev" ELSE "own"]_vars

\* The client gets on with its jobs, whoever they are mined for.
JobsGoOn ==
    \A n \in 0..(Cycle - 1) : ctr = n ~> (ctr # n \/ conn = "dead")
=============================================================================
