------------------------------- MODULE Mobile -------------------------------
(***************************************************************************)
(* The miner inside a phone app (src/src/ios.rs; src/src/android.rs is the  *)
(* same behind JNI): a handful of exported functions called from the app's  *)
(* threads, which share process-wide statics.  A start that succeeds spawns *)
(* a session: an asynchronous loop that talks to the node or to the pool    *)
(* and a blocking worker thread that mines, joined by a coalescing job      *)
(* channel (see WatchChannel) and a bounded channel of found blocks.        *)
(*                                                                         *)
(* Sessions are numbered in the order of their starts and jobs in the order *)
(* in which a session receives them.                                       *)
(***************************************************************************)
EXTENDS Naturals, FiniteSets, Folds, Functions

CONSTANTS
    MaxStarts,     \* bound: calls of start
    MaxJobs,       \* bound: jobs received by all sessions together
    SUBMIT_CAP     \* capacity of the channel of found blocks

ASSUME MobileAssumption ==
    MaxStarts \in Nat \ {0} /\ MaxJobs \in Nat /\ SUBMIT_CAP \in Nat \ {0}

Sessions == 1..MaxStarts
Launch == 0                  \* the call of initialize at the app's launch
Callers == {Launch} \cup Sessions
Nobody == MaxStarts + 1
NoJob == 0

VARIABLES
    RUNNING, STOP_TX, INSTALLED_OK,   \* the statics
    DOWNLOAD_LOCK,  \* the caller that holds it
    stopped,        \* the value of the channel in STOP_TX
    ok,             \* the model's .ok sentinel
    starts,         \* calls of start that took RUNNING
    call,           \* where each exported call is
    pool,           \* whether a session speaks to a pool
    loop,           \* where each session's loop is
    version,        \* the job channel: number of the last job sent
    seen,           \* version the worker last observed
    worker, job,    \* where the worker is and the job it mines
    found,          \* blocks in the submit channel
    forwarder,      \* whether the submit forwarder runs
    wins            \* how often each job of a session was won

statics == <<RUNNING, STOP_TX, INSTALLED_OK, stopped>>
download == <<DOWNLOAD_LOCK, ok>>
calls == <<starts, call, pool>>
mining == <<seen, worker, job, wins>>
submit == <<found, forwarder>>
vars == <<statics, download, calls, loop, version, mining, submit>>

Live == {"connect", "run", "join"}

TypeOK ==
    /\ RUNNING \in BOOLEAN /\ INSTALLED_OK \in BOOLEAN /\ stopped \in BOOLEAN /\ ok \in BOOLEAN
    /\ STOP_TX \in 0..MaxStarts
    /\ DOWNLOAD_LOCK \in Callers \cup {Nobody}
    /\ starts \in 0..MaxStarts
    /\ call \in [Callers -> {"idle", "stop_tx", "lock", "write", "spawn", "done"}]
    /\ pool \in [Sessions -> BOOLEAN]
    /\ loop \in [Sessions -> Live \cup {"none", "end"}]
    /\ version \in [Sessions -> 0..MaxJobs]
    /\ seen \in [Sessions -> 0..MaxJobs] /\ job \in [Sessions -> 0..MaxJobs]
    /\ worker \in [Sessions -> {"none", "top", "wait", "clone", "load", "mine", "submit", "end"}]
    /\ found \in [Sessions -> 0..SUBMIT_CAP] /\ forwarder \in [Sessions -> BOOLEAN]
    /\ wins \in [Sessions -> [1..MaxJobs -> Nat]]

Init ==
    /\ RUNNING = FALSE /\ STOP_TX = 0 /\ INSTALLED_OK = FALSE
    /\ stopped = FALSE
    /\ DOWNLOAD_LOCK = Nobody /\ ok \in BOOLEAN
    /\ starts = 0 /\ call = [c \in Callers |-> "idle"] /\ pool = [s \in Sessions |-> FALSE]
    /\ loop = [s \in Sessions |-> "none"]
    /\ version = [s \in Sessions |-> NoJob]
    /\ seen = version /\ job = version /\ worker = [s \in Sessions |-> "none"]
    /\ wins = [s \in Sessions |-> [j \in 1..MaxJobs |-> 0]]
    /\ found = version /\ forwarder = [s \in Sessions |-> FALSE]

At(c, pc) == call[c] = pc
Goes(c, pc) == call' = [call EXCEPT ![c] = pc]
LoopAt(s, pc) == loop[s] = pc
LoopGoes(s, pc) == loop' = [loop EXCEPT ![s] = pc]
WorkerAt(s, pc) == worker[s] = pc
WorkerGoes(s, pc) == worker' = [worker EXCEPT ![s] = pc]

-----------------------------------------------------------------------------
(* The exported functions.                                                 *)

keryx_miner_initialize ==
    /\ At(Launch, "idle") /\ Goes(Launch, "lock")
    /\ UNCHANGED <<statics, download, starts, pool, loop, version, mining, submit>>

\* The app calls connect with the address and then start.  A start is refused
\* while another one holds RUNNING.
keryx_miner_start(p) ==
    /\ ~RUNNING /\ starts < MaxStarts
    /\ RUNNING' = TRUE
    /\ starts' = starts + 1 /\ Goes(starts', "stop_tx")
    /\ pool' = [pool EXCEPT ![starts'] = p]
    /\ UNCHANGED <<STOP_TX, INSTALLED_OK, stopped, download, loop, version, mining, submit>>

\* The session gets a stop version, whose sender is kept only if STOP_TX is
\* still empty and dropped if not.
SetStop(s) ==
    /\ At(s, "stop_tx") /\ Goes(s, "lock")
    /\ STOP_TX' = IF STOP_TX = 0 THEN s ELSE STOP_TX
    /\ UNCHANGED <<RUNNING, INSTALLED_OK, stopped, download, starts, pool, loop, version, mining,
                   submit>>

After(c) == IF c = Launch THEN "done" ELSE "spawn"

\* Faulty variant: the guard is dropped at once, so that nothing is locked.
AcquireUnlocked(c) ==
    /\ At(c, "lock")
    /\ Goes(c, IF ok THEN After(c) ELSE "write")
    /\ UNCHANGED <<statics, download, starts, pool, loop, version, mining, submit>>

\* download_model: under the lock, a complete model is taken as it is.
Acquire(c) ==
    /\ At(c, "lock") /\ DOWNLOAD_LOCK = Nobody
    /\ IF ok
       THEN Goes(c, After(c)) /\ UNCHANGED DOWNLOAD_LOCK
       ELSE Goes(c, "write") /\ DOWNLOAD_LOCK' = c
    /\ UNCHANGED <<statics, ok, starts, pool, loop, version, mining, submit>>

Downloaded(c) ==
    /\ At(c, "write") /\ Goes(c, After(c))
    /\ ok' = TRUE /\ DOWNLOAD_LOCK' = Nobody
    /\ UNCHANGED <<statics, starts, pool, loop, version, mining, submit>>

\* Faulty variant: a start whose download fails leaves the miner marked as running.
DownloadFailsRunning(c) ==
    /\ At(c, "write") /\ Goes(c, "done")
    /\ DOWNLOAD_LOCK' = Nobody
    /\ UNCHANGED <<statics, ok, starts, pool, loop, version, mining, submit>>

\* The start, or the call at launch, returns FALSE.
DownloadFails(c) ==
    /\ At(c, "write") /\ Goes(c, "done")
    /\ DOWNLOAD_LOCK' = Nobody
    /\ RUNNING' = IF c = Launch THEN RUNNING ELSE FALSE
    /\ UNCHANGED <<STOP_TX, INSTALLED_OK, stopped, ok, starts, pool, loop, version, mining, submit>>

Spawn(s) ==
    /\ At(s, "spawn") /\ Goes(s, "done")
    /\ LoopGoes(s, "connect")
    /\ UNCHANGED <<statics, download, starts, pool, version, mining, submit>>

\* The app shows its stop button as long as the last status said running,
\* also while a start still downloads.  The stop reaches the session in STOP_TX
\* only.
keryx_miner_stop ==
    /\ starts > 0
    /\ RUNNING' = FALSE
    /\ stopped' = (stopped \/ STOP_TX # 0)
    /\ UNCHANGED <<STOP_TX, INSTALLED_OK, download, calls, loop, version, mining,
                   submit>>

-----------------------------------------------------------------------------
(* A session's loop: mining_loop or stratum_mining_loop.                   *)

quiet == <<download, calls>>

\* The end of a session's thread.
Exit(s) == LoopGoes(s, "end") /\ RUNNING' = FALSE

\* The runtime, the connection or the stream cannot be had.
ConnectFails(s) ==
    /\ LoopAt(s, "connect") /\ Exit(s)
    /\ UNCHANGED <<STOP_TX, INSTALLED_OK, stopped, quiet, version, mining, submit>>

\* Connected, and subscribed to templates (solo) or authorised (pool); the
\* worker and the forwarder are spawned.
Opened(s) ==
    /\ LoopAt(s, "connect") /\ LoopGoes(s, "run")
    /\ WorkerGoes(s, "top")
    /\ forwarder' = [forwarder EXCEPT ![s] = TRUE]
    /\ UNCHANGED <<statics, quiet, version, seen, job, wins, found>>

OpenStream(s) == ~pool[s] /\ Opened(s)
Handshake(s) == pool[s] /\ Opened(s)

Received == FoldFunctionOnSet(+, 0, version, Sessions)

\* A job is sent to the worker, in place of the one in the channel.
Send(s) ==
    /\ LoopAt(s, "run") /\ Received < MaxJobs
    /\ version' = [version EXCEPT ![s] = @ + 1]
    /\ UNCHANGED <<statics, quiet, loop, mining, submit>>

\* A template from the node; a notify from the pool, whose difficulty and
\* nonce range of the moment go into the job.
GetBlockTemplateResponse(s) == ~pool[s] /\ Send(s)
MiningNotify(s) == pool[s] /\ Send(s)

\* The stream is closed or fails.
Lost(s) ==
    /\ LoopAt(s, "run") /\ LoopGoes(s, "join")
    /\ UNCHANGED <<statics, quiet, version, mining, submit>>

\* stop_rx has changed and holds TRUE.  A session whose sender was dropped
\* finds an error there and FALSE in the version, and goes on.
SeeStop(s) ==
    /\ LoopAt(s, "run") /\ STOP_TX = s /\ stopped
    /\ LoopGoes(s, "join")
    /\ UNCHANGED <<statics, quiet, version, mining, submit>>

\* The job sender is dropped when the loop is left.
Closed(s) == loop[s] \in {"join", "end"}

\* The worker has ended: so does the thread, its runtime and the forwarder.
Join(s) ==
    /\ LoopAt(s, "join") /\ WorkerAt(s, "end")
    /\ Exit(s)
    /\ forwarder' = [forwarder EXCEPT ![s] = FALSE]
    /\ UNCHANGED <<STOP_TX, INSTALLED_OK, stopped, quiet, version, mining, found>>

\* Found blocks go to the node, whether it still listens or not.
SubmitBlock(s) ==
    /\ ~pool[s] /\ forwarder[s] /\ found[s] > 0
    /\ found' = [found EXCEPT ![s] = @ - 1]
    /\ UNCHANGED <<statics, quiet, loop, version, mining, forwarder>>

\* A share goes to the pool; the forwarder stops when the connection is gone.
SubmitShare(s) ==
    /\ pool[s] /\ forwarder[s] /\ found[s] > 0
    /\ found' = [found EXCEPT ![s] = @ - 1]
    /\ forwarder' \in {forwarder, [forwarder EXCEPT ![s] = FALSE]}
    /\ UNCHANGED <<statics, quiet, loop, version, mining>>

-----------------------------------------------------------------------------
(* A session's worker: mining_worker.                                      *)

rest == <<statics, quiet, loop, version>>

\* Faulty variant: RUNNING is not looked at between two rounds.
TopUnchecked(s) ==
    /\ WorkerAt(s, "top")
    /\ WorkerGoes(s, IF job[s] = NoJob THEN "wait" ELSE IF ~INSTALLED_OK THEN "load" ELSE "mine")
    /\ UNCHANGED <<rest, seen, job, wins, submit>>

Top(s) ==
    /\ WorkerAt(s, "top")
    /\ WorkerGoes(s, IF ~RUNNING THEN "end"
                     ELSE IF job[s] = NoJob THEN "wait"
                     ELSE IF ~INSTALLED_OK THEN "load" ELSE "mine")
    /\ UNCHANGED <<rest, seen, job, wins, submit>>

\* get_changed: a version that has not been observed is noted, and the job is
\* cloned after that (Clone); or the worker goes on with the job it has.
Newest(s) ==
    IF version[s] = seen[s] THEN UNCHANGED seen /\ WorkerGoes(s, "top")
    ELSE seen' = [seen EXCEPT ![s] = version[s]] /\ WorkerGoes(s, "clone")

\* The job of the moment, which may be newer than the version noted.
Clone(s) ==
    /\ WorkerAt(s, "clone") /\ WorkerGoes(s, "top")
    /\ job' = [job EXCEPT ![s] = version[s]]
    /\ UNCHANGED <<rest, seen, wins, submit>>

\* wait_for_change: the end of the channel comes before what is left in it.
Wait(s) ==
    /\ WorkerAt(s, "wait")
    /\ \/ Closed(s) /\ WorkerGoes(s, "end") /\ UNCHANGED seen
       \/ ~Closed(s) /\ version[s] # seen[s] /\ Newest(s)
    /\ UNCHANGED <<rest, job, wins, submit>>

\* The index and the weights are loaded once for the process.  A failure is
\* retried with the newest job; here the end of the channel is not looked at.
LoadFails(s) ==
    /\ WorkerAt(s, "load")
    /\ IF Closed(s) THEN UNCHANGED seen /\ WorkerGoes(s, "top") ELSE Newest(s)
    /\ UNCHANGED <<rest, job, wins, submit>>

Load(s) ==
    /\ WorkerAt(s, "load") /\ WorkerGoes(s, "mine")
    /\ INSTALLED_OK' = TRUE
    /\ UNCHANGED <<RUNNING, STOP_TX, stopped, quiet, loop, version, seen, job, wins,
                   submit>>

\* A batch without a winner: the newest job, or the same one further on.
Batch(s) ==
    /\ WorkerAt(s, "mine")
    /\ IF Closed(s) THEN WorkerGoes(s, "end") /\ UNCHANGED seen ELSE Newest(s)
    /\ UNCHANGED <<rest, job, wins, submit>>

\* Faulty variant: the job is not given up after a winner.
WinAndGoOn(s) ==
    /\ WorkerAt(s, "mine")
    /\ wins' = [wins EXCEPT ![s][job[s]] = @ + 1]
    /\ WorkerGoes(s, "submit")
    /\ UNCHANGED <<rest, seen, job, submit>>

\* A winner consumes the job.
Win(s) ==
    /\ WorkerAt(s, "mine")
    /\ wins' = [wins EXCEPT ![s][job[s]] = @ + 1]
    /\ job' = [job EXCEPT ![s] = NoJob]
    /\ WorkerGoes(s, "submit")
    /\ UNCHANGED <<rest, seen, submit>>

\* generate_block_if_pom does not confirm the winner.
Discard(s) ==
    /\ WorkerAt(s, "mine")
    /\ job' = [job EXCEPT ![s] = NoJob]
    /\ WorkerGoes(s, "top")
    /\ UNCHANGED <<rest, seen, wins, submit>>

\* blocking_send: waits for room, or fails without a forwarder.
Submit(s) ==
    /\ WorkerAt(s, "submit") /\ WorkerGoes(s, "top")
    /\ \/ forwarder[s] /\ found[s] < SUBMIT_CAP /\ found' = [found EXCEPT ![s] = @ + 1]
       \/ ~forwarder[s] /\ UNCHANGED found
    /\ UNCHANGED <<rest, seen, job, wins, forwarder>>

-----------------------------------------------------------------------------
User == \/ keryx_miner_initialize \/ keryx_miner_stop
        \/ \E p \in BOOLEAN : keryx_miner_start(p)

\* A call goes on until it returns; a download is bounded by its attempts.
CallStep(c) ==
    \/ Acquire(c) \/ Downloaded(c) \/ DownloadFails(c)
    \/ c \in Sessions /\ (SetStop(c) \/ Spawn(c))

LoopStep(s) ==
    \/ ConnectFails(s) \/ OpenStream(s) \/ Handshake(s)
    \/ SeeStop(s) \/ Join(s)

Peer(s) == GetBlockTemplateResponse(s) \/ MiningNotify(s) \/ Lost(s)

Forward(s) == SubmitBlock(s) \/ SubmitShare(s)

WorkerStep(s) ==
    \/ Top(s) \/ Wait(s) \/ Clone(s) \/ LoadFails(s) \/ Load(s)
    \/ Batch(s) \/ Win(s) \/ Discard(s) \/ Submit(s)

Next ==
    \/ User
    \/ \E c \in Callers : CallStep(c)
    \/ \E s \in Sessions : LoopStep(s) \/ Peer(s) \/ WorkerStep(s) \/ Forward(s)

Spec == Init /\ [][Next]_vars

\* Threads and tasks go on.  Nothing is assumed of the app, of the node or of
\* the outcome of a load or a batch; the connection takes what is forwarded.
FairSpec ==
    /\ Spec
    /\ \A c \in Callers : WF_vars(CallStep(c))
    /\ \A s \in Sessions : /\ WF_vars(LoopStep(s)) /\ WF_vars(WorkerStep(s))
                           /\ WF_vars(Forward(s))

-----------------------------------------------------------------------------
(* Properties.                                                             *)

\* The download at launch and the one of a start never write the same file
\* at once (the reason DOWNLOAD_LOCK is there).
OneWriter == Cardinality({c \in Callers : At(c, "write")}) <= 1

\* A job is won at most twice: once, and once more if it was sent between the
\* two steps in which the channel handed it out.  In particular a found block
\* is not mined on.
AtMostTwice == \A s \in Sessions : \A j \in 1..MaxJobs : wins[s][j] <= 2

\* What the status tells: a miner that runs has a call or a session behind
\* it, so that a start is refused only while there is one.
RunningIsBacked ==
    RUNNING => \E s \in Sessions : call[s] \notin {"idle", "done"} \/ loop[s] \in Live

\* Nothing is left of a start: it failed, or its session has ended.
Over(s) == At(s, "done") /\ loop[s] \in {"none", "end"}

\* A stop that reaches a session's channel ends the session, whatever its
\* worker is doing, unless the user starts the miner again meanwhile.
SignalledStops == stopped ~> (RUNNING \/ (STOP_TX # 0 /\ Over(STOP_TX)))

(* What the documentation says and the code does not give: TLC refutes what follows, at the
   constants the README names. *)

\* After a second start too a stop ends the session, so that "the user can
\* reconnect with a different address after a Stop" (src/src/ios.rs:35).
LaterStopEnds == (starts > 1 /\ ~RUNNING) ~> (RUNNING \/ \A s \in Sessions : s = starts => Over(s))
=============================================================================
