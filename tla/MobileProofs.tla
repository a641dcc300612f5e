---------------------------- MODULE MobileProofs ----------------------------
(***************************************************************************)
(* For any number of starts, of jobs and any capacity of the submit        *)
(* channel: one writer of the model's file, at most two wins of a job, and *)
(* a status that is never left at "running" by a call or a session that    *)
(* ended.                                                                  *)
(***************************************************************************)
EXTENDS Mobile, FiniteSetTheorems, TLAPS

LEMMA Starts == Sessions \subseteq Nat \ {0} /\ Launch \notin Sessions /\ Nobody \notin Callers
BY MobileAssumption DEF Sessions, Launch, Nobody, Callers

-----------------------------------------------------------------------------
(* The download lock.                                                      *)

\* Whoever writes the file holds the lock.
WritersLock ==
    /\ call \in [Callers -> {"idle", "stop_tx", "lock", "write", "spawn", "done"}]
    /\ starts \in 0..MaxStarts
    /\ \A c \in Callers : At(c, "write") => DOWNLOAD_LOCK = c

LEMMA WritersLockInit == ASSUME Init PROVE WritersLock
BY MobileAssumption DEF Init, WritersLock, At

LEMMA WritersLockStep == ASSUME WritersLock, [Next]_vars PROVE WritersLock'
<1> USE Starts DEF WritersLock, At, Goes
<1>1. CASE UNCHANGED <<call, starts, DOWNLOAD_LOCK>> BY <1>1
<1>2. CASE keryx_miner_initialize BY <1>2 DEF keryx_miner_initialize, Launch, Callers, download
<1>3. ASSUME NEW p \in BOOLEAN, keryx_miner_start(p) PROVE WritersLock'
  <2>1. starts' \in Sessions /\ starts' \in 0..MaxStarts
    BY <1>3, MobileAssumption DEF keryx_miner_start, Sessions
  <2>2. QED BY <1>3, <2>1 DEF keryx_miner_start, Callers, download
<1>4. ASSUME NEW c \in Callers, CallStep(c) PROVE WritersLock'
  <2>1. CASE Acquire(c) BY <2>1 DEF Acquire, After
  <2>2. CASE Downloaded(c) BY <2>2 DEF Downloaded, After
  <2>3. CASE DownloadFails(c) BY <2>3 DEF DownloadFails
  <2>4. CASE SetStop(c) BY <2>4 DEF SetStop, download
  <2>5. CASE Spawn(c) BY <2>5 DEF Spawn, download
  <2>6. QED BY <1>4, <2>1, <2>2, <2>3, <2>4, <2>5 DEF CallStep
<1>5. ASSUME NEW s \in Sessions, LoopStep(s) \/ Peer(s) \/ WorkerStep(s) \/ Forward(s)
      PROVE  UNCHANGED <<call, starts, DOWNLOAD_LOCK>>
  BY <1>5 DEF LoopStep, ConnectFails, OpenStream, Handshake, Opened, SeeStop, Join,
     Peer, GetBlockTemplateResponse, MiningNotify, Send, Lost,
     WorkerStep, Top, Wait, Clone, LoadFails, Load, Batch, Win, Discard, Submit,
     Forward, SubmitBlock, SubmitShare, rest, quiet, download, calls
<1>6. keryx_miner_stop => UNCHANGED <<call, starts, DOWNLOAD_LOCK>>
  BY DEF keryx_miner_stop, download, calls
<1>7. UNCHANGED vars => UNCHANGED <<call, starts, DOWNLOAD_LOCK>>
  BY DEF vars, download, calls
<1>8. QED BY <1>1, <1>2, <1>3, <1>4, <1>5, <1>6, <1>7 DEF Next, User

LEMMA WritersLockOne == ASSUME WritersLock PROVE OneWriter
<1> DEFINE W == {c \in Callers : At(c, "write")}
<1>1. W \subseteq {DOWNLOAD_LOCK} BY DEF WritersLock
<1>2. IsFiniteSet({DOWNLOAD_LOCK}) /\ Cardinality({DOWNLOAD_LOCK}) = 1 BY FS_Singleton
<1>3. Cardinality(W) <= 1 BY <1>1, <1>2, FS_Subset
<1>4. QED BY <1>3 DEF OneWriter

\* The download at launch and those of the starts never write the model's file at once.
THEOREM MobileOneWriter == Spec => []OneWriter
<1>1. Init => WritersLock BY WritersLockInit
<1>2. WritersLock /\ [Next]_vars => WritersLock' BY WritersLockStep
<1>3. WritersLock => OneWriter BY WritersLockOne
<1>4. QED BY <1>1, <1>2, <1>3, PTL DEF Spec

-----------------------------------------------------------------------------
(* The status.                                                             *)

\* What RUNNING stands for.
Backed(s) == call[s] \notin {"idle", "done"} \/ loop[s] \in Live

StatusInv ==
    /\ WritersLock
    /\ loop \in [Sessions -> Live \cup {"none", "end"}]
    /\ RunningIsBacked

LEMMA StatusStep == ASSUME StatusInv, [Next]_vars PROVE StatusInv'
<1>1. WritersLock' BY WritersLockStep DEF StatusInv
<1> USE Starts DEF StatusInv, RunningIsBacked, At, Goes, LoopAt, LoopGoes, Live
<1> DEFINE Same == UNCHANGED <<call, loop>> /\ (RUNNING' => RUNNING)
<1>2. CASE Same BY <1>1, <1>2
<1>3. CASE keryx_miner_initialize
  BY <1>1, <1>3 DEF keryx_miner_initialize, statics, WritersLock
<1>4. ASSUME NEW p \in BOOLEAN, keryx_miner_start(p) PROVE StatusInv'
  <2>1. starts' \in Sessions
    BY <1>4, MobileAssumption DEF keryx_miner_start, Sessions, WritersLock
  <2>2. call'[starts'] = "stop_tx" BY <1>4, <2>1 DEF keryx_miner_start, WritersLock, Callers
  <2>3. QED BY <1>1, <1>4, <2>1, <2>2 DEF keryx_miner_start
<1>5. ASSUME NEW c \in Callers, CallStep(c) PROVE StatusInv'
  <2> USE DEF WritersLock
  <2>1. CASE Acquire(c)
    <3>1. UNCHANGED <<RUNNING, loop>> /\ \E pc \in {"done", "spawn", "write"} : Goes(c, pc)
      BY <2>1 DEF Acquire, After, statics
    <3>2. c \in Sessions => call'[c] \in {"spawn", "write"} BY <2>1 DEF Acquire, After
    <3>3. \A s \in Sessions : Backed(s) => Backed(s)' BY <3>1, <3>2 DEF Backed
    <3>4. QED BY <1>1, <3>1, <3>3 DEF Backed
  <2>2. CASE Downloaded(c) BY <1>1, <2>2 DEF Downloaded, After, statics
  <2>3. CASE DownloadFails(c)
    <3>1. CASE c = Launch BY <1>1, <2>3, <3>1 DEF DownloadFails
    <3>2. CASE c # Launch BY <1>1, <2>3, <3>2 DEF DownloadFails
    <3>3. QED BY <3>1, <3>2
  <2>4. CASE c \in Sessions /\ SetStop(c) BY <1>1, <2>4 DEF SetStop, statics
  <2>5. CASE c \in Sessions /\ Spawn(c) BY <1>1, <2>5 DEF Spawn, statics
  <2>6. QED BY <1>5, <2>1, <2>2, <2>3, <2>4, <2>5 DEF CallStep
<1>6. ASSUME NEW s \in Sessions, LoopStep(s) PROVE StatusInv'
  <2> USE DEF quiet, calls
  <2>1. CASE ConnectFails(s) BY <1>1, <2>1 DEF ConnectFails, Exit
  <2>2. CASE Opened(s) BY <1>1, <2>2 DEF Opened, statics
  <2>3. CASE SeeStop(s) BY <1>1, <2>3 DEF SeeStop, statics
  <2>4. CASE Join(s) BY <1>1, <2>4 DEF Join, Exit
  <2>5. QED BY <1>6, <2>1, <2>2, <2>3, <2>4 DEF LoopStep, OpenStream, Handshake
<1>7. ASSUME NEW s \in Sessions, Lost(s) PROVE StatusInv'
  BY <1>1, <1>7 DEF Lost, statics, quiet, calls
<1>8. ASSUME NEW s \in Sessions, Peer(s) \/ WorkerStep(s) \/ Forward(s), ~Lost(s) PROVE Same
  BY <1>8 DEF Peer, GetBlockTemplateResponse, MiningNotify, Send,
     WorkerStep, Top, Wait, Clone, LoadFails, Load, Batch, Win, Discard, Submit,
     Forward, SubmitBlock, SubmitShare, rest, quiet, calls, statics
<1>9. keryx_miner_stop => Same BY DEF keryx_miner_stop, calls
<1>10. UNCHANGED vars => Same BY DEF vars, statics, calls
<1>11. QED BY <1>2, <1>3, <1>4, <1>5, <1>6, <1>7, <1>8, <1>9, <1>10 DEF Next, User

\* A miner that says it runs has a call or a session behind it, so that the user can
\* always start again in the end.
THEOREM MobileRunningIsBacked == Spec => []RunningIsBacked
<1>1. Init => StatusInv BY WritersLockInit DEF Init, StatusInv, RunningIsBacked, Live
<1>2. StatusInv /\ [Next]_vars => StatusInv' BY StatusStep
<1>3. StatusInv => RunningIsBacked BY DEF StatusInv
<1>4. QED BY <1>1, <1>2, <1>3, PTL DEF Spec

-----------------------------------------------------------------------------
(* Wins.                                                                   *)

\* What job j of session s has been good for: its wins, and one that may still come of
\* it while the worker mines it.
Uses(s, j) == wins[s][j] + IF job[s] = j THEN 1 ELSE 0

\* A job reaches the worker once before its version is noted, and once when it is.
HandedOut(s, j) ==
    /\ Uses(s, j) <= 2
    /\ seen[s] = j /\ WorkerAt(s, "clone") => Uses(s, j) <= 1
    /\ seen[s] < j => Uses(s, j) <= 1
    /\ seen[s] < j /\ WorkerAt(s, "clone") => Uses(s, j) = 0
    /\ version[s] < j => Uses(s, j) = 0

WinsShape ==
    /\ version \in [Sessions -> Nat] /\ seen \in [Sessions -> Nat] /\ job \in [Sessions -> Nat]
    /\ worker \in [Sessions -> {"none", "top", "wait", "clone", "load", "mine", "submit", "end"}]
    /\ wins \in [Sessions -> [1..MaxJobs -> Nat]]
    /\ \A s \in Sessions : seen[s] <= version[s]

WinsInv == WinsShape /\ \A s \in Sessions : \A j \in 1..MaxJobs : HandedOut(s, j)

\* A step of a session leaves the others alone.
LEMMA WinsOfOthers ==
    ASSUME WinsInv, WinsShape', NEW s \in Sessions,
           \A r \in Sessions \ {s} : /\ version'[r] = version[r] /\ seen'[r] = seen[r]
                                     /\ job'[r] = job[r] /\ worker'[r] = worker[r]
                                     /\ wins'[r] = wins[r],
           \A j \in 1..MaxJobs : HandedOut(s, j)'
    PROVE  WinsInv'
BY DEF WinsInv, HandedOut, Uses, WorkerAt

\* A worker that neither notes a version nor takes a job nor wins.
LEMMA WorkerMoves ==
    ASSUME WinsInv, NEW s \in Sessions, UNCHANGED <<version, seen, job, wins>>,
           ~WorkerAt(s, "clone"),
           NEW pc \in {"top", "wait", "load", "mine", "submit", "end"}, WorkerGoes(s, pc)
    PROVE  WinsInv'
<1>1. WinsShape' BY DEF WinsInv, WinsShape, WorkerAt, WorkerGoes
<1>2. \A j \in 1..MaxJobs : HandedOut(s, j)'
  BY DEF WinsInv, WinsShape, HandedOut, Uses, WorkerAt, WorkerGoes
<1>3. QED BY <1>1, <1>2, WinsOfOthers DEF WinsInv, WinsShape, WorkerGoes

\* A worker that is behind notes the version, and is to take the job.
LEMMA WorkerNotes ==
    ASSUME WinsInv, NEW s \in Sessions, UNCHANGED <<version, job, wins>>,
           ~WorkerAt(s, "clone"), Newest(s)
    PROVE  WinsInv'
<1>1. CASE version[s] = seen[s]
  <2>1. UNCHANGED seen /\ WorkerGoes(s, "top") BY <1>1 DEF Newest
  <2>2. QED BY <2>1, WorkerMoves
<1>2. CASE version[s] # seen[s]
  <2>1. seen' = [seen EXCEPT ![s] = version[s]] /\ worker' = [worker EXCEPT ![s] = "clone"]
    BY <1>2 DEF Newest, WorkerGoes
  <2>2. WinsShape' BY <2>1 DEF WinsInv, WinsShape, WorkerAt
  <2>3. seen[s] < version[s] BY <1>2 DEF WinsInv, WinsShape
  <2>4. \A j \in 1..MaxJobs : HandedOut(s, j)'
    BY <2>1, <2>3 DEF WinsInv, WinsShape, HandedOut, Uses, WorkerAt
  <2>5. QED BY <2>1, <2>2, <2>4, WinsOfOthers DEF WinsInv, WinsShape
<1>3. QED BY <1>1, <1>2

\* Each step keeps to what HandedOut allows.
LEMMA WinsStep == ASSUME WinsInv, [Next]_vars PROVE WinsInv'
<1> USE MobileAssumption DEF NoJob
<1> DEFINE Same == UNCHANGED <<version, seen, job, worker, wins>>
<1>1. CASE Same BY <1>1 DEF WinsInv, WinsShape, HandedOut, Uses, WorkerAt
<1>2. ASSUME NEW s \in Sessions, LoopAt(s, "connect"), Opened(s) PROVE WinsInv'
  <2>1. /\ worker' = [worker EXCEPT ![s] = "top"]
        /\ UNCHANGED <<version, seen, job, wins>>
    BY <1>2 DEF Opened, WorkerGoes
  <2>2. WinsShape' BY <2>1 DEF WinsInv, WinsShape, WorkerAt
  <2>3. \A j \in 1..MaxJobs : HandedOut(s, j)'
    BY <2>1 DEF WinsInv, WinsShape, HandedOut, Uses, WorkerAt
  <2>4. QED BY <2>1, <2>2, <2>3, WinsOfOthers DEF WinsInv, WinsShape
<1>3. ASSUME NEW s \in Sessions, Send(s) PROVE WinsInv'
  <2>1. /\ version' = [version EXCEPT ![s] = @ + 1]
        /\ UNCHANGED <<seen, job, worker, wins>>
    BY <1>3 DEF Send, mining
  <2>2. WinsShape' BY <2>1 DEF WinsInv, WinsShape, WorkerAt
  <2>3. \A j \in 1..MaxJobs : HandedOut(s, j)'
    BY <2>1 DEF WinsInv, WinsShape, HandedOut, Uses, WorkerAt
  <2>4. QED BY <2>1, <2>2, <2>3, WinsOfOthers DEF WinsInv, WinsShape
<1>4. ASSUME NEW s \in Sessions, WorkerStep(s) PROVE WinsInv'
  <2>1. UNCHANGED version
    BY <1>4 DEF WorkerStep, Top, Wait, Clone, LoadFails, Load, Batch, Win, Discard, Submit, rest
  <2>2. CASE Top(s)
    <3>1. /\ UNCHANGED <<seen, job, wins>> /\ ~WorkerAt(s, "clone")
          /\ \E pc \in {"end", "wait", "load", "mine"} : WorkerGoes(s, pc)
      BY <2>2 DEF Top, WorkerAt
    <3>2. QED BY <2>1, <3>1, WorkerMoves
  <2>3. CASE Wait(s) \/ LoadFails(s) \/ Batch(s)
    <3>1. /\ UNCHANGED <<job, wins>> /\ ~WorkerAt(s, "clone")
          /\ \/ Newest(s)
             \/ UNCHANGED seen /\ \E pc \in {"end", "top"} : WorkerGoes(s, pc)
      BY <2>3 DEF Wait, LoadFails, Batch, WorkerAt
    <3>2. QED BY <2>1, <3>1, WorkerMoves, WorkerNotes
  <2>4. CASE Load(s) \/ Submit(s)
    <3>1. /\ UNCHANGED <<seen, job, wins>> /\ ~WorkerAt(s, "clone")
          /\ \E pc \in {"mine", "top"} : WorkerGoes(s, pc)
      BY <2>4 DEF Load, Submit, WorkerAt, rest
    <3>2. QED BY <2>1, <3>1, WorkerMoves
  <2>5. CASE Clone(s)
    <3>1. /\ job' = [job EXCEPT ![s] = version[s]] /\ worker' = [worker EXCEPT ![s] = "top"]
          /\ WorkerAt(s, "clone") /\ UNCHANGED <<seen, wins>>
      BY <2>5 DEF Clone, WorkerGoes
    <3>2. WinsShape' BY <2>1, <3>1 DEF WinsInv, WinsShape
    <3>3. \A j \in 1..MaxJobs : HandedOut(s, j)'
      BY <2>1, <3>1 DEF WinsInv, WinsShape, HandedOut, Uses, WorkerAt
    <3>4. QED BY <2>1, <3>1, <3>2, <3>3, WinsOfOthers DEF WinsInv, WinsShape
  <2>6. CASE Win(s)
    <3>1. /\ wins' = [wins EXCEPT ![s][job[s]] = @ + 1] /\ job' = [job EXCEPT ![s] = 0]
          /\ worker' = [worker EXCEPT ![s] = "submit"]
          /\ WorkerAt(s, "mine") /\ UNCHANGED seen
      BY <2>6 DEF Win, WorkerGoes
    <3>2. /\ wins'[s] \in [1..MaxJobs -> Nat]
          /\ \A j \in 1..MaxJobs : wins'[s][j] = wins[s][j] + IF j = job[s] THEN 1 ELSE 0
      <4>1. wins[s] \in [1..MaxJobs -> Nat] BY DEF WinsInv, WinsShape
      <4>2. wins'[s] = [wins[s] EXCEPT ![job[s]] = @ + 1] BY <3>1 DEF WinsInv, WinsShape
      <4>3. CASE job[s] \in 1..MaxJobs BY <4>1, <4>2, <4>3
      <4>4. CASE job[s] \notin 1..MaxJobs
        <5>1. wins'[s] = wins[s] BY <4>1, <4>2, <4>4
        <5>2. \A j \in 1..MaxJobs : j # job[s] /\ wins[s][j] \in Nat BY <4>1, <4>4
        <5>3. QED BY <4>1, <5>1, <5>2
      <4>5. QED BY <4>3, <4>4
    <3>3. WinsShape' BY <2>1, <3>1, <3>2 DEF WinsInv, WinsShape
    <3>4. \A j \in 1..MaxJobs : HandedOut(s, j)'
      <4> SUFFICES ASSUME NEW j \in 1..MaxJobs PROVE HandedOut(s, j)'
        OBVIOUS
      <4>1. Uses(s, j)' = Uses(s, j) BY <3>1, <3>2 DEF Uses, WinsInv, WinsShape
      <4>2. QED BY <2>1, <3>1, <4>1 DEF WinsInv, WinsShape, HandedOut, WorkerAt
    <3>5. QED BY <2>1, <3>1, <3>3, <3>4, WinsOfOthers DEF WinsInv, WinsShape
  <2>7. CASE Discard(s)
    <3>1. /\ job' = [job EXCEPT ![s] = 0] /\ worker' = [worker EXCEPT ![s] = "top"]
          /\ WorkerAt(s, "mine") /\ UNCHANGED <<seen, wins>>
      BY <2>7 DEF Discard, WorkerGoes
    <3>2. WinsShape' BY <2>1, <3>1 DEF WinsInv, WinsShape
    <3>3. \A j \in 1..MaxJobs : HandedOut(s, j)'
      <4> SUFFICES ASSUME NEW j \in 1..MaxJobs PROVE HandedOut(s, j)'
        OBVIOUS
      <4>1. wins[s][j] \in Nat BY DEF WinsInv, WinsShape
      <4>2. Uses(s, j)' = wins[s][j] BY <3>1 DEF Uses, WinsInv, WinsShape
      <4>3. Uses(s, j)' \in Nat /\ Uses(s, j)' <= Uses(s, j) BY <4>1, <4>2 DEF Uses
      <4>4. QED BY <2>1, <3>1, <4>1, <4>2, <4>3 DEF WinsInv, WinsShape, HandedOut, WorkerAt, Uses
    <3>4. QED BY <2>1, <3>1, <3>2, <3>3, WinsOfOthers DEF WinsInv, WinsShape
  <2>8. QED BY <1>4, <2>2, <2>3, <2>4, <2>5, <2>6, <2>7 DEF WorkerStep
<1>5. ASSUME NEW s \in Sessions, LoopStep(s), ~Opened(s) PROVE Same
  BY <1>5 DEF LoopStep, ConnectFails, OpenStream, Handshake, SeeStop, Join, mining
<1>6. ASSUME NEW s \in Sessions, Lost(s) \/ Forward(s) PROVE Same
  BY <1>6 DEF Lost, Forward, SubmitBlock, SubmitShare, mining
<1>7. ASSUME NEW c \in Callers, CallStep(c) PROVE Same
  BY <1>7 DEF CallStep, Acquire, Downloaded, DownloadFails, SetStop, Spawn, mining
<1>8. User => Same
  BY DEF User, keryx_miner_initialize, keryx_miner_stop, keryx_miner_start, mining
<1>9. UNCHANGED vars => Same BY DEF vars, mining
<1>10. QED
  BY <1>1, <1>2, <1>3, <1>4, <1>5, <1>6, <1>7, <1>8, <1>9
     DEF Next, Peer, GetBlockTemplateResponse, MiningNotify, Opened

LEMMA WinsInit == ASSUME Init PROVE WinsInv
BY MobileAssumption DEF Init, WinsInv, WinsShape, HandedOut, Uses, WorkerAt, NoJob

\* A worker wins at most two blocks on one job although the channel may hand it the same
\* job twice, and a pool's shares do not make it mine on.
THEOREM MobileAtMostTwice == Spec => []AtMostTwice
<1>1. Init => WinsInv BY WinsInit
<1>2. WinsInv /\ [Next]_vars => WinsInv' BY WinsStep
<1>3. WinsInv => AtMostTwice
  <2> SUFFICES ASSUME WinsInv, NEW s \in Sessions, NEW j \in 1..MaxJobs PROVE wins[s][j] <= 2
    BY DEF AtMostTwice
  <2>1. wins[s][j] \in Nat BY DEF WinsInv, WinsShape
  <2>2. wins[s][j] <= Uses(s, j) /\ Uses(s, j) <= 2 BY <2>1 DEF WinsInv, HandedOut, Uses
  <2>3. QED BY <2>1, <2>2 DEF Uses
<1>4. QED BY <1>1, <1>2, <1>3, PTL DEF Spec
=============================================================================
