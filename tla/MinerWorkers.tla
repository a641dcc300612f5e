---------------------------- MODULE MinerWorkers ----------------------------
(***************************************************************************)
(* The mining threads and their manager (src/src/miner.rs).  The client's  *)
(* task publishes jobs and pauses through the watch channel; each worker   *)
(* mines what it holds, hands the blocks it finds to the client through a  *)
(* bounded channel, and looks at the watch channel every so often.         *)
(*                                                                         *)
(* CPU workers hash, plugin workers hash or walk the model on a GPU, walk  *)
(* workers (Metal, Vulkan) only walk.  The watch channel is used as        *)
(* WatchChannel shows it to work: the id is read first, the value after.   *)
(* Data: a job is its number on the channel and whether the proof of model *)
(* is active at its DAA score; nonces are left out.                        *)
(***************************************************************************)
EXTENDS Naturals, Sequences, FiniteSets, SequencesExt

CONSTANTS
    Workers,
    Rigs,         \* rigs: what kind each worker is
    Handles,      \* all of them, in the order they were launched
    NoJob,
    AsyncWorkers, \* threads of the async runtime (tokio_worker_threads)
    MaxVersion    \* bound: values published before the closing one

Kinds == {"cpu", "plugin", "walk"}
Jobs == [ver : 1..MaxVersion, pom : BOOLEAN]

\* A walk worker is only launched when no plugin is.
ASSUME WorkersAssumption ==
    /\ Rigs \subseteq [Workers -> Kinds]
    /\ \A rig \in Rigs, v, w \in Workers : rig[v] = "plugin" => rig[w] # "walk"
    /\ Handles \in Seq(Workers)
    /\ \A w \in Workers : \E i \in 1..Len(Handles) : Handles[i] = w
    /\ AsyncWorkers \in Nat \ {0}
    /\ MaxVersion \in Nat \ {0}
    /\ NoJob \notin Jobs

VARIABLES
    kind,      \* the workers of this rig
    published, \* block_channel: a command, with its job if it is one
    version,   \* the channel's id
    synced,    \* is_synced
    pool,      \* the jobs are a pool's (PartialBlock), not a node's (FullBlock)
    handles,   \* handles left to join
    closing,   \* the manager is being dropped
    at,        \* where each worker is
    job,       \* its state, gone with the thread
    seen,      \* its receiver's last_observed
    wins,      \* the last job it found a full block for, and how many
    blocks,    \* blocks in the channel to the client's forwarding task
    linked     \* that task is running

manager == <<published, version, synced, pool, handles, closing>>
worker == <<at, job, seen, wins>>
link == <<blocks, linked>>
vars == <<kind, manager, worker, link>>

Full == ~pool
Alive == {w \in Workers : at[w] # "done"}

\* A GPU that walks the model: the proof of model branch of the GPU loops.
Walking(w) == kind[w] # "cpu" /\ job[w] # NoJob /\ job[w].pom

\* Walk workers have no other work.
Mining(w) == at[w] = "top" /\ job[w] # NoJob /\ (kind[w] = "walk" => Walking(w))

-----------------------------------------------------------------------------
(* The client's task *)

Command(cmd, j) == [cmd |-> cmd, job |-> j]

Publish(command) ==
    /\ published' = command
    /\ version' = version + 1

\* process_block.  With no receiver left, or no header in the block, it fails, which ends
\* listen: see Drop.
ProcessJob(pom) ==
    /\ ~closing /\ Alive # {} /\ version < MaxVersion
    /\ Publish(Command("job", [ver |-> version + 1, pom |-> pom]))
    /\ synced' = TRUE
    /\ UNCHANGED <<kind, pool, handles, closing, worker, link>>

ProcessNone ==
    /\ ~closing /\ Alive # {} /\ version < MaxVersion
    /\ synced
    /\ Publish(Command("none", NoJob))
    /\ synced' = FALSE
    /\ UNCHANGED <<kind, pool, handles, closing, worker, link>>

\* listen has returned, for whatever reason, and the manager goes out of scope.
Drop ==
    /\ ~closing
    /\ closing' = TRUE
    /\ IF Alive # {} THEN Publish(Command("close", NoJob)) ELSE UNCHANGED <<published, version>>
    /\ UNCHANGED <<kind, synced, pool, handles, worker, link>>

Join ==
    /\ closing /\ handles # <<>>
    /\ at[Last(handles)] = "done"
    /\ handles' = Front(handles)
    /\ UNCHANGED <<kind, published, version, synced, pool, closing, worker, link>>

\* The freeze handler, for a worker that has not ended a second after its join began.
KillFrozen ==
    /\ closing /\ handles # <<>>
    /\ at[Last(handles)] # "done"
    /\ at' = [at EXCEPT ![Last(handles)] = "done"]
    /\ job' = [job EXCEPT ![Last(handles)] = NoJob]
    /\ UNCHANGED <<kind, manager, seen, wins, link>>

-----------------------------------------------------------------------------
(* The workers *)

\* Faulty variant: only an idle worker looks.
LookIdle(w) ==
    /\ at[w] = "top" /\ job[w] = NoJob
    /\ version # seen[w]
    /\ seen' = [seen EXCEPT ![w] = version]
    /\ at' = [at EXCEPT ![w] = "clone"]
    /\ UNCHANGED <<kind, manager, job, wins, link>>

\* The first half of wait_for_change, for an idle worker, and of get_changed, for one that
\* mines: it comes to it after 128 nonces, or a GPU batch without a winner.
Look(w) ==
    /\ at[w] = "top" /\ (job[w] = NoJob \/ Mining(w))
    /\ version # seen[w]
    /\ seen' = [seen EXCEPT ![w] = version]
    /\ at' = [at EXCEPT ![w] = "clone"]
    /\ UNCHANGED <<kind, manager, job, wins, link>>

\* Faulty variant of the second half: a closing worker waits for more.

TakeNoClose(w) ==
    /\ at[w] = "clone"
    /\ at' = [at EXCEPT ![w] = "top"]
    /\ job' = [job EXCEPT ![w] =
                  IF published.cmd = "job" THEN published.job
                  ELSE IF Walking(w) THEN @ ELSE NoJob]
    /\ UNCHANGED <<kind, manager, seen, wins, link>>

\* The second half: the value of the moment.  A GPU that walks the model goes on with
\* its job when it is told to pause.
Take(w) ==
    /\ at[w] = "clone"
    /\ at' = [at EXCEPT ![w] = IF published.cmd = "close" THEN "done" ELSE "top"]
    /\ job' = [job EXCEPT ![w] =
                  IF published.cmd = "job" THEN published.job
                  ELSE IF published.cmd = "none" /\ Walking(w) THEN @ ELSE NoJob]
    /\ UNCHANGED <<kind, manager, seen, wins, link>>

\* A walk worker drops a job from before the proof of model.
Skip(w) ==
    /\ kind[w] = "walk"
    /\ at[w] = "top" /\ job[w] # NoJob /\ ~job[w].pom
    /\ job' = [job EXCEPT ![w] = NoJob]
    /\ UNCHANGED <<kind, manager, at, seen, wins, link>>

\* A nonce that wins, with its block built.
Find(w) ==
    /\ Mining(w)
    /\ at' = [at EXCEPT ![w] = "send"]
    /\ UNCHANGED <<kind, manager, job, seen, wins, link>>

\* A plugin's results cannot be read back, or are wrong.
Crash(w) ==
    /\ kind[w] = "plugin" /\ Mining(w) /\ ~Walking(w)
    /\ at' = [at EXCEPT ![w] = "done"]
    /\ job' = [job EXCEPT ![w] = NoJob]
    /\ UNCHANGED <<kind, manager, seen, wins, link>>

Count(h, ver) == IF h.ver = ver THEN [h EXCEPT !.won = @ + 1] ELSE [ver |-> ver, won |-> 1]

\* Faulty variants: the worker goes on with the job of a full block; it does not wait for
\* room in the channel.
SendKeep(w) ==
    /\ at[w] = "send"
    /\ IF linked THEN blocks < 1 /\ blocks' = blocks + 1 ELSE UNCHANGED blocks
    /\ wins' = IF Full THEN [wins EXCEPT ![w] = Count(@, job[w].ver)] ELSE wins
    /\ at' = [at EXCEPT ![w] = "top"]
    /\ UNCHANGED <<kind, manager, job, seen, linked>>

\* blocking_send, which waits for room unless the other end is gone; the job of a full
\* block is done with.
Send(w) ==
    /\ at[w] = "send"
    /\ IF linked THEN blocks < 1 /\ blocks' = blocks + 1 ELSE UNCHANGED blocks
    /\ IF Full
       THEN /\ job' = [job EXCEPT ![w] = NoJob]
            /\ wins' = [wins EXCEPT ![w] = Count(@, job[w].ver)]
       ELSE UNCHANGED <<job, wins>>
    /\ at' = [at EXCEPT ![w] = "top"]
    /\ UNCHANGED <<kind, manager, seen, linked>>

-----------------------------------------------------------------------------
(* The client's forwarding task *)

\* Drop blocks the thread it runs on: with one thread nothing else runs meanwhile.
Forward ==
    /\ linked /\ blocks > 0
    /\ closing => AsyncWorkers > 1
    /\ blocks' = blocks - 1
    /\ UNCHANGED <<kind, manager, worker, linked>>

LinkBreaks ==
    /\ linked
    /\ closing => AsyncWorkers > 1
    /\ linked' = FALSE /\ blocks' = 0
    /\ UNCHANGED <<kind, manager, worker>>

-----------------------------------------------------------------------------

Init ==
    /\ kind \in Rigs
    /\ published = Command("none", NoJob) /\ version = 1
    /\ synced = TRUE
    /\ pool \in BOOLEAN
    /\ handles = Handles /\ closing = FALSE
    /\ at = [w \in Workers |-> "top"]
    /\ job = [w \in Workers |-> NoJob]
    /\ seen = [w \in Workers |-> 0]
    /\ wins = [w \in Workers |-> [ver |-> 0, won |-> 0]]
    /\ blocks = 0 /\ linked = TRUE

\* client_main starts over once every handle is joined, with a manager and a channel of
\* its own.
Restart ==
    /\ closing /\ handles = <<>>
    /\ published' = Command("none", NoJob) /\ version' = 1
    /\ synced' = TRUE
    /\ handles' = Handles /\ closing' = FALSE
    /\ at' = [w \in Workers |-> "top"]
    /\ job' = [w \in Workers |-> NoJob]
    /\ seen' = [w \in Workers |-> 0]
    /\ wins' = [w \in Workers |-> [ver |-> 0, won |-> 0]]
    /\ blocks' = 0 /\ linked' = TRUE
    /\ UNCHANGED <<kind, pool>>

Step(w) ==
    \/ Look(w)
    \/ Take(w)
    \/ Skip(w)
    \/ Find(w)
    \/ Crash(w)
    \/ Send(w)

Next ==
    \/ \E pom \in BOOLEAN : ProcessJob(pom)
    \/ ProcessNone
    \/ Drop
    \/ Join
    \/ KillFrozen
    \/ \E w \in Workers : Step(w)
    \/ Forward
    \/ LinkBreaks
    \/ Restart

Spec == Init /\ [][Next]_vars

\* Threads run; every worker comes to look, between winning batches if need be; senders
\* are served in turn.  Nothing depends on the freeze handler.
FairSpec ==
    /\ Spec
    /\ \A w \in Workers :
          /\ WF_vars(Take(w)) /\ WF_vars(Skip(w))
          /\ SF_vars(Look(w)) /\ SF_vars(Send(w))
    /\ WF_vars(Forward)
    /\ WF_vars(Join)

-----------------------------------------------------------------------------
(* Properties *)

\* The shape of the state; no receiver is ahead of the channel.
TypeOK ==
    /\ published \in [cmd : {"job", "none", "close"}, job : Jobs \cup {NoJob}]
    /\ published.cmd = "job" <=> published.job # NoJob
    /\ kind \in Rigs
    /\ version \in 1..(MaxVersion + 1)
    /\ {synced, pool, closing, linked} \subseteq BOOLEAN
    /\ handles \in Seq(Workers)
    /\ at \in [Workers -> {"top", "clone", "send", "done"}]
    /\ job \in [Workers -> Jobs \cup {NoJob}]
    /\ seen \in [Workers -> 0..version]
    /\ wins \in [Workers -> [ver : 0..MaxVersion, won : Nat]]
    /\ \A w \in Workers :
          /\ at[w] = "send" => job[w] # NoJob
          /\ at[w] = "done" => job[w] = NoJob
    /\ blocks \in 0..1

\* process_block(None) does nothing when is_synced is down: the workers have been told
\* to pause already.
PauseIsTold == ~synced /\ ~closing => published.cmd = "none"

\* A worker finds at most two blocks for one template: one, and a second when the
\* template was handed to it under the id of the one before.
AtMostTwice == \A w \in Workers : wins[w].won <= 2

\* Stale work ends: a worker that is behind the channel catches up with it, whatever it
\* is doing.
NewsReaches ==
    \A w \in Workers : seen[w] < version ~> (seen[w] = version \/ at[w] = "done")

\* A manager that is dropped ends all its workers, even those that are handing in a block.
WorkersEnd == closing ~> handles = <<>>

(* What the documentation says and the code does not give: TLC refutes what follows, at the
   constants the README names. *)

\* "Pause GPU mining while any inference is in flight": a pause that lasts stops every worker.
PauseStopsMining ==
    \A w \in Workers : published.cmd = "none" ~>
        (published.cmd # "none" \/ job[w] = NoJob)
=============================================================================
