---------------------------- MODULE WorkerProofs ----------------------------
(***************************************************************************)
(* The mining threads, for any rig and any number of jobs: the manager's   *)
(* is_synced never hides a pause the workers have not been told of, and a  *)
(* worker finds at most two blocks for one template, although the channel  *)
(* can hand it the same template twice.                                    *)
(*                                                                         *)
(* Their watch channel, for any number of threads and of values sent: a    *)
(* thread never holds an older value than its id says, never sleeps        *)
(* through a value, and the channel is a register.                         *)
(***************************************************************************)
EXTENDS MinerWorkers, WatchChannel, TLAPS

\* A job goes by the number it was published under.
JobIsNumbered == published.cmd = "job" => published.job.ver = version

\* Nobody holds, or has won, a job that is yet to be published.
NotAhead ==
    \A w \in Workers :
        /\ seen[w] <= version
        /\ wins[w].ver <= version
        /\ job[w] # NoJob => job[w].ver <= version

\* A worker about to take a value has seen an id no smaller than the job it won last.
TakesOnwards == \A w \in Workers : at[w] = "clone" => wins[w].ver <= seen[w]

\* It holds a job it has won only a second time, and then knows the job's id.
HeldAgain ==
    \A w \in Workers :
        job[w] # NoJob /\ job[w].ver = wins[w].ver => wins[w].won <= 1 /\ wins[w].ver <= seen[w]

\* With two wins it knows the job's id, and takes only what came later.
WonTwice ==
    \A w \in Workers :
        wins[w].won = 2 =>
            /\ wins[w].ver <= seen[w]
            /\ at[w] = "clone" => wins[w].ver < seen[w]

\* Until the manager is dropped there is a number left to close under.
RoomToClose == ~closing => version <= MaxVersion

WinsFollow == NotAhead /\ TakesOnwards /\ HeldAgain /\ WonTwice /\ AtMostTwice

IInv == TypeOK /\ PauseIsTold /\ JobIsNumbered /\ RoomToClose /\ WinsFollow

-----------------------------------------------------------------------------

\* The constants.
LEMMA Constants == MaxVersion \in Nat \ {0} /\ NoJob \notin Jobs /\ Handles \in Seq(Workers)
BY WorkersAssumption

\* What is left to join ends with a worker.
LEMMA HandlesLeft ==
    ASSUME handles \in Seq(Workers), handles # <<>>
    PROVE  Last(handles) \in Workers /\ Front(handles) \in Seq(Workers)
BY DEF Last, Front

\* The commands are well formed.
LEMMA Commands ==
    ASSUME NEW j \in Jobs
    PROVE  /\ Command("job", j) \in [cmd : {"job", "none", "close"}, job : Jobs \cup {NoJob}]
           /\ Command("none", NoJob) \in [cmd : {"job", "none", "close"}, job : Jobs \cup {NoJob}]
           /\ Command("close", NoJob) \in [cmd : {"job", "none", "close"}, job : Jobs \cup {NoJob}]
           /\ Command("job", j).cmd = "job" /\ Command("job", j).job = j /\ j # NoJob
           /\ Command("none", NoJob).cmd = "none" /\ Command("none", NoJob).job = NoJob
           /\ Command("close", NoJob).cmd = "close" /\ Command("close", NoJob).job = NoJob
BY Constants DEF Command

\* There is a job.
LEMMA AJob == [ver |-> 1, pom |-> TRUE] \in Jobs
BY Constants DEF Jobs

\* The state before anything is published.
LEMMA InitInvariant == ASSUME Init PROVE IInv
<1>1. TypeOK
  <2>1. /\ published \in [cmd : {"job", "none", "close"}, job : Jobs \cup {NoJob}]
        /\ published.cmd # "job" /\ published.job = NoJob
    BY AJob, Commands DEF Init
  <2>2. {synced, pool, closing, linked} \subseteq BOOLEAN
    BY DEF Init
  <2>3. /\ kind \in Rigs /\ version \in 1..(MaxVersion + 1)
        /\ handles \in Seq(Workers) /\ blocks \in 0..1
    BY Constants DEF Init
  <2>4. /\ at \in [Workers -> {"top", "clone", "send", "done"}]
        /\ job \in [Workers -> Jobs \cup {NoJob}]
        /\ seen \in [Workers -> 0..version]
        /\ wins \in [Workers -> [ver : 0..MaxVersion, won : Nat]]
    BY Constants DEF Init
  <2>5. \A w \in Workers :
           /\ at[w] = "send" => job[w] # NoJob
           /\ at[w] = "done" => job[w] = NoJob
    BY Constants DEF Init
  <2>6. QED BY <2>1, <2>2, <2>3, <2>4, <2>5 DEF TypeOK
<1>2. PauseIsTold /\ JobIsNumbered /\ RoomToClose
  BY Constants DEF Init, Command, PauseIsTold, JobIsNumbered, RoomToClose
<1>3. WinsFollow
  BY Constants DEF Init, WinsFollow, NotAhead, TakesOnwards, HeldAgain, WonTwice, AtMostTwice
<1>4. QED BY <1>1, <1>2, <1>3 DEF IInv

\* The versions are numbers.
LEMMA Numbers ==
    ASSUME TypeOK
    PROVE  /\ version \in Nat /\ MaxVersion \in Nat
           /\ \A w \in Workers :
                 /\ seen[w] \in Nat /\ wins[w].ver \in Nat /\ wins[w].won \in Nat
                 /\ job[w] # NoJob => job[w] \in Jobs /\ job[w].ver \in Nat
BY Constants DEF TypeOK, Jobs

\* What the workers have won stands when the channel moves on.
LEMMA WinsStand ==
    ASSUME IInv, UNCHANGED worker, version' \in Nat, version <= version'
    PROVE  WinsFollow'
<1>1. TypeOK BY DEF IInv
<1>2. NotAhead' BY <1>1, Numbers DEF IInv, WinsFollow, NotAhead, worker
<1>3. TakesOnwards' /\ HeldAgain' /\ WonTwice' /\ AtMostTwice'
  BY DEF IInv, WinsFollow, TakesOnwards, HeldAgain, WonTwice, AtMostTwice, worker
<1>4. QED BY <1>2, <1>3 DEF WinsFollow

\* A step that leaves the workers alone keeps the shape of the state if it does so for
\* the variables of the manager and of the link.
LEMMA ShapeStands ==
    ASSUME TypeOK, UNCHANGED <<kind, worker>>, version' \in 1..(MaxVersion + 1),
           version <= version',
           published' \in [cmd : {"job", "none", "close"}, job : Jobs \cup {NoJob}],
           published'.cmd = "job" <=> published'.job # NoJob,
           {synced', pool', closing', linked'} \subseteq BOOLEAN,
           handles' \in Seq(Workers), blocks' \in 0..1
    PROVE  TypeOK'
<1>1. \A w \in Workers :
         /\ at'[w] = "send" => job'[w] # NoJob
         /\ at'[w] = "done" => job'[w] = NoJob
  BY DEF TypeOK, worker
<1>2. /\ at' \in [Workers -> {"top", "clone", "send", "done"}]
      /\ job' \in [Workers -> Jobs \cup {NoJob}]
      /\ wins' \in [Workers -> [ver : 0..MaxVersion, won : Nat]]
      /\ kind' \in Rigs
  BY DEF TypeOK, worker
<1>3. seen' \in [Workers -> 0..version']
  <2>1. 0..version \subseteq 0..version' BY DEF TypeOK
  <2>2. QED BY <2>1 DEF TypeOK, worker
<1>4. QED BY <1>1, <1>2, <1>3 DEF TypeOK

\* The steps of the client's task, and the forwarding of blocks.
LEMMA ManagerKeeps ==
    ASSUME IInv, \/ \E pom \in BOOLEAN : ProcessJob(pom)
                 \/ ProcessNone \/ Drop \/ Join \/ Forward \/ LinkBreaks
    PROVE  IInv'
<1>0. TypeOK /\ version \in Nat /\ MaxVersion \in Nat BY Numbers DEF IInv
<1>1. CASE \E pom \in BOOLEAN : ProcessJob(pom)
  <2> PICK pom \in BOOLEAN : ProcessJob(pom) BY <1>1
  <2> DEFINE j == [ver |-> version + 1, pom |-> pom]
  <2>1. j \in Jobs /\ j.ver = version' BY <1>0 DEF ProcessJob, Publish, Jobs
  <2>2. published' = Command("job", j) BY DEF ProcessJob, Publish
  <2> HIDE DEF j
  <2>3. /\ UNCHANGED <<kind, pool, handles, closing, worker, link>> /\ synced' = TRUE
        /\ version' = version + 1 /\ version < MaxVersion
    BY DEF ProcessJob, Publish
  <2>4. TypeOK'
    <3>1. {synced', pool', closing', linked'} \subseteq BOOLEAN BY <1>0, <2>3 DEF TypeOK, link
    <3>2. handles' \in Seq(Workers) /\ blocks' \in 0..1 BY <1>0, <2>3 DEF TypeOK, link
    <3>3. version' \in 1..(MaxVersion + 1) BY <1>0, <2>3
    <3>4. QED BY <1>0, <2>1, <2>2, <2>3, <3>1, <3>2, <3>3, Commands, ShapeStands
  <2>5. WinsFollow' BY <1>0, <2>3, WinsStand
  <2>6. PauseIsTold' /\ JobIsNumbered' /\ RoomToClose'
    BY <1>0, <2>1, <2>2, <2>3, Commands DEF PauseIsTold, JobIsNumbered, RoomToClose
  <2>7. QED BY <2>4, <2>5, <2>6 DEF IInv
<1>2. CASE ProcessNone \/ (Drop /\ Alive # {})
  <2>1. \/ published' = Command("none", NoJob) /\ closing' = closing /\ version < MaxVersion
        \/ published' = Command("close", NoJob) /\ closing' = TRUE /\ version <= MaxVersion
    BY <1>2 DEF ProcessNone, Drop, Publish, IInv, RoomToClose
  <2>2. /\ UNCHANGED <<kind, pool, handles, worker, link>> /\ synced' \in {synced, FALSE}
        /\ version' = version + 1
    BY <1>2 DEF ProcessNone, Drop, Publish
  <2>3. TypeOK'
    <3>1. {synced', pool', closing', linked'} \subseteq BOOLEAN
      BY <1>0, <2>1, <2>2 DEF TypeOK, link
    <3>2. handles' \in Seq(Workers) /\ blocks' \in 0..1 BY <1>0, <2>2 DEF TypeOK, link
    <3>3. version' \in 1..(MaxVersion + 1) BY <1>0, <2>1, <2>2
    <3>4. published' \in [cmd : {"job", "none", "close"}, job : Jobs \cup {NoJob}]
      BY <2>1, AJob, Commands
    <3>5. published'.cmd # "job" /\ published'.job = NoJob BY <2>1, AJob, Commands
    <3>6. QED BY <1>0, <2>2, <3>1, <3>2, <3>3, <3>4, <3>5, ShapeStands
  <2>4. WinsFollow' BY <1>0, <2>2, WinsStand
  <2>5. PauseIsTold' /\ JobIsNumbered' /\ RoomToClose'
    BY <1>0, <2>1, <2>2, AJob, Commands DEF PauseIsTold, JobIsNumbered, RoomToClose
  <2>6. QED BY <2>3, <2>4, <2>5 DEF IInv
<1>3. CASE Join \/ Forward \/ LinkBreaks \/ (Drop /\ Alive = {})
  <2>1. /\ UNCHANGED <<kind, published, version, synced, pool, worker>>
        /\ closing' \in {closing, TRUE} /\ linked' \in {linked, FALSE}
    BY <1>3 DEF Join, Forward, LinkBreaks, Drop, manager, link
  <2>2. handles' \in Seq(Workers)
    BY <1>0, <1>3, HandlesLeft DEF Join, Forward, LinkBreaks, Drop, manager, TypeOK
  <2>3. blocks' \in 0..1
    BY <1>0, <1>3 DEF Join, Forward, LinkBreaks, Drop, link, TypeOK
  <2>4. closing => closing' = TRUE BY <1>0, <2>1 DEF TypeOK
  <2>5. TypeOK'
    <3>1. {synced', pool', closing', linked'} \subseteq BOOLEAN BY <1>0, <2>1 DEF TypeOK
    <3>2. /\ version' \in 1..(MaxVersion + 1) /\ version <= version'
          /\ published' \in [cmd : {"job", "none", "close"}, job : Jobs \cup {NoJob}]
          /\ published'.cmd = "job" <=> published'.job # NoJob
      BY <1>0, <2>1 DEF TypeOK
    <3>3. QED BY <1>0, <2>1, <2>2, <2>3, <3>1, <3>2, ShapeStands
  <2>6. WinsFollow' BY <1>0, <2>1, WinsStand
  <2>7. PauseIsTold' /\ JobIsNumbered' /\ RoomToClose'
    BY <2>1, <2>4 DEF IInv, PauseIsTold, JobIsNumbered, RoomToClose
  <2>8. QED BY <2>5, <2>6, <2>7 DEF IInv
<1>4. QED BY <1>1, <1>2, <1>3

\* Starting over is starting.
LEMMA RestartKeeps == ASSUME IInv, Restart PROVE IInv'
<1>1. TypeOK'
  <2>1. /\ published' \in [cmd : {"job", "none", "close"}, job : Jobs \cup {NoJob}]
        /\ published'.cmd # "job" /\ published'.job = NoJob
    BY AJob, Commands DEF Restart
  <2>2. {synced', pool', closing', linked'} \subseteq BOOLEAN
    BY DEF Restart, IInv, TypeOK
  <2>3. /\ kind' \in Rigs /\ version' \in 1..(MaxVersion + 1)
        /\ handles' \in Seq(Workers) /\ blocks' \in 0..1
    BY Constants DEF Restart, IInv, TypeOK
  <2>4. /\ at' \in [Workers -> {"top", "clone", "send", "done"}]
        /\ job' \in [Workers -> Jobs \cup {NoJob}]
        /\ seen' \in [Workers -> 0..version']
        /\ wins' \in [Workers -> [ver : 0..MaxVersion, won : Nat]]
    BY Constants DEF Restart
  <2>5. \A w \in Workers :
           /\ at'[w] = "send" => job'[w] # NoJob
           /\ at'[w] = "done" => job'[w] = NoJob
    BY Constants DEF Restart
  <2>6. QED BY <2>1, <2>2, <2>3, <2>4, <2>5 DEF TypeOK
<1>2. PauseIsTold' /\ JobIsNumbered' /\ RoomToClose'
  BY Constants DEF Restart, Command, PauseIsTold, JobIsNumbered, RoomToClose
<1>3. WinsFollow'
  BY Constants DEF Restart, WinsFollow, NotAhead, TakesOnwards, HeldAgain, WonTwice, AtMostTwice
<1>4. QED BY <1>1, <1>2, <1>3 DEF IInv

\* What a step must see to for the worker that takes it: it comes to be at p, with job j,
\* having seen o and with h to its credit.
Sound(p, j, o, h) ==
    /\ p \in {"top", "clone", "send", "done"} /\ j \in Jobs \cup {NoJob}
    /\ o \in 0..version /\ h \in [ver : 0..MaxVersion, won : Nat]
    /\ p = "send" => j # NoJob
    /\ p = "done" => j = NoJob
    /\ h.ver <= version /\ h.won <= 2
    /\ j # NoJob => j.ver <= version
    /\ p = "clone" => h.ver <= o
    /\ j # NoJob /\ j.ver = h.ver => h.won <= 1 /\ h.ver <= o
    /\ h.won = 2 => h.ver <= o /\ (p = "clone" => h.ver < o)

LEMMA IsSound ==
    ASSUME IInv, NEW w \in Workers
    PROVE  Sound(at[w], job[w], seen[w], wins[w])
BY DEF IInv, TypeOK, WinsFollow, NotAhead, TakesOnwards, HeldAgain, WonTwice, AtMostTwice, Sound

\* The others keep what they have.
LEMMA StepOfOne ==
    ASSUME IInv, NEW w \in Workers, UNCHANGED <<kind, manager, linked>>, blocks' \in 0..1,
           at' = [at EXCEPT ![w] = at'[w]], job' = [job EXCEPT ![w] = job'[w]],
           seen' = [seen EXCEPT ![w] = seen'[w]], wins' = [wins EXCEPT ![w] = wins'[w]],
           Sound(at'[w], job'[w], seen'[w], wins'[w])
    PROVE  IInv'
<1>1. ASSUME NEW v \in Workers
      PROVE  Sound(at'[v], job'[v], seen'[v], wins'[v])
  <2>1. CASE v = w BY <2>1
  <2>2. CASE v # w
    <3>1. at'[v] = at[v] /\ job'[v] = job[v] /\ seen'[v] = seen[v] /\ wins'[v] = wins[v]
      BY <2>2 DEF IInv, TypeOK
    <3>2. QED BY <3>1, IsSound
  <2>3. QED BY <2>1, <2>2
<1>2. PauseIsTold' /\ JobIsNumbered' /\ RoomToClose'
  BY DEF IInv, PauseIsTold, JobIsNumbered, RoomToClose, manager
<1>3. WinsFollow'
  BY <1>1 DEF Sound, WinsFollow, NotAhead, TakesOnwards, HeldAgain, WonTwice, AtMostTwice, manager
<1>4. TypeOK'
  <2>1. at' \in [Workers -> {"top", "clone", "send", "done"}]
    BY <1>1 DEF Sound, IInv, TypeOK
  <2>2. job' \in [Workers -> Jobs \cup {NoJob}]
    BY <1>1 DEF Sound, IInv, TypeOK
  <2>3. /\ seen' \in [Workers -> 0..version']
        /\ wins' \in [Workers -> [ver : 0..MaxVersion, won : Nat]]
    BY <1>1 DEF Sound, IInv, TypeOK, manager
  <2>6. \A v \in Workers :
           /\ at'[v] = "send" => job'[v] # NoJob
           /\ at'[v] = "done" => job'[v] = NoJob
    BY <1>1 DEF Sound
  <2>4. /\ published' \in [cmd : {"job", "none", "close"}, job : Jobs \cup {NoJob}]
        /\ published'.cmd = "job" <=> published'.job # NoJob
        /\ kind' \in Rigs /\ version' \in 1..(MaxVersion + 1) /\ handles' \in Seq(Workers)
        /\ {synced', pool', closing', linked'} \subseteq BOOLEAN
    BY DEF IInv, TypeOK, manager
  <2>5. QED BY <2>1, <2>2, <2>3, <2>4, <2>6 DEF TypeOK
<1>5. QED BY <1>2, <1>3, <1>4 DEF IInv

\* A thread that ends leaves its job.
LEMMA EndKeeps ==
    ASSUME IInv, NEW w \in Workers,
           at' = [at EXCEPT ![w] = "done"], job' = [job EXCEPT ![w] = NoJob],
           UNCHANGED <<kind, manager, seen, wins, link>>
    PROVE  IInv'
<1>1. Sound(at[w], job[w], seen[w], wins[w]) BY IsSound
<1>2. /\ at'[w] = "done" /\ job'[w] = NoJob /\ seen'[w] = seen[w] /\ wins'[w] = wins[w]
      /\ at' = [at EXCEPT ![w] = at'[w]] /\ job' = [job EXCEPT ![w] = job'[w]]
      /\ seen' = [seen EXCEPT ![w] = seen'[w]] /\ wins' = [wins EXCEPT ![w] = wins'[w]]
      /\ linked' = linked /\ blocks' \in 0..1
  BY DEF IInv, TypeOK, link
<1>3. Sound(at'[w], job'[w], seen'[w], wins'[w])
  <2>1. NoJob \in Jobs \cup {NoJob} OBVIOUS
  <2>2. QED BY <1>1, <1>2, <2>1 DEF Sound
<1>4. QED BY <1>2, <1>3, StepOfOne

\* The steps of a worker on the channel.
LEMMA ChannelKeeps ==
    ASSUME IInv, NEW w \in Workers, Look(w) \/ Take(w)
    PROVE  IInv'
<1>0. /\ version \in Nat /\ seen[w] \in Nat /\ seen[w] <= version
      /\ wins[w].ver \in Nat /\ wins[w].won \in Nat
  BY Numbers DEF IInv, WinsFollow, NotAhead
<1>1. Sound(at[w], job[w], seen[w], wins[w]) BY IsSound
<1>2. /\ at' = [at EXCEPT ![w] = at'[w]] /\ job' = [job EXCEPT ![w] = job'[w]]
      /\ seen' = [seen EXCEPT ![w] = seen'[w]] /\ wins' = [wins EXCEPT ![w] = wins'[w]]
      /\ UNCHANGED <<kind, manager, linked>> /\ blocks' \in 0..1 /\ wins'[w] = wins[w]
  BY DEF Look, Take, IInv, TypeOK, link
<1>3. CASE Look(w)
  <2>1. at'[w] = "clone" /\ seen'[w] = version /\ job'[w] = job[w] /\ version # seen[w]
    BY <1>3 DEF Look, IInv, TypeOK
  <2>2. Sound(at'[w], job'[w], seen'[w], wins'[w]) BY <1>0, <1>1, <1>2, <2>1 DEF Sound
  <2>3. QED BY <1>2, <2>2, StepOfOne
<1>4. CASE Take(w)
  <2>1. published.cmd = "job" => published.job \in Jobs /\ published.job.ver = version
    BY Constants DEF IInv, TypeOK, JobIsNumbered
  <2>2. at[w] = "clone" /\ seen'[w] = seen[w] BY <1>4 DEF Take
  <2>3. \/ at'[w] \in {"top", "done"} /\ job'[w] = NoJob
        \/ at'[w] = "top" /\ job'[w] = job[w]
        \/ at'[w] = "top" /\ job'[w] = published.job /\ published.cmd = "job"
    BY <1>4 DEF Take, IInv, TypeOK
  <2>4. Sound(at'[w], job'[w], seen'[w], wins'[w])
    <3>1. CASE at'[w] \in {"top", "done"} /\ job'[w] = NoJob
      BY <1>0, <1>1, <1>2, <2>2, <3>1 DEF Sound
    <3>2. CASE at'[w] = "top" /\ job'[w] = job[w]
      BY <1>0, <1>1, <1>2, <2>2, <3>2 DEF Sound
    <3>3. CASE at'[w] = "top" /\ job'[w] = published.job /\ published.cmd = "job"
      <4>1. job'[w] \in Jobs /\ job'[w].ver = version BY <2>1, <3>3
      <4>2. version = wins[w].ver => wins[w].won <= 1 /\ wins[w].ver <= seen[w]
        BY <1>0, <1>1, <2>2 DEF Sound
      <4>3. QED BY <1>0, <1>1, <1>2, <2>2, <3>3, <4>1, <4>2 DEF Sound
    <3>4. QED BY <2>3, <3>1, <3>2, <3>3
  <2>5. QED BY <1>2, <2>4, StepOfOne
<1>5. QED BY <1>3, <1>4

\* The steps of a worker on its job.
LEMMA JobKeeps ==
    ASSUME IInv, NEW w \in Workers, Skip(w) \/ Find(w) \/ Crash(w) \/ Send(w)
    PROVE  IInv'
<1>0. /\ version \in Nat /\ seen[w] \in Nat
      /\ wins[w].ver \in Nat /\ wins[w].won \in Nat
  BY Numbers DEF IInv
<1>1. Sound(at[w], job[w], seen[w], wins[w]) BY IsSound
<1>2. CASE Crash(w) BY <1>2, EndKeeps DEF Crash
<1>3. CASE Skip(w) \/ Find(w)
  <2>1. /\ at' = [at EXCEPT ![w] = at'[w]] /\ job' = [job EXCEPT ![w] = job'[w]]
        /\ seen' = [seen EXCEPT ![w] = seen'[w]] /\ wins' = [wins EXCEPT ![w] = wins'[w]]
        /\ UNCHANGED <<kind, manager, linked>> /\ blocks' \in 0..1
        /\ wins'[w] = wins[w] /\ seen'[w] = seen[w] /\ job[w] # NoJob
        /\ \/ at'[w] = "top" /\ job'[w] = NoJob
           \/ at'[w] = "send" /\ job'[w] = job[w]
    BY <1>3 DEF Skip, Find, Mining, IInv, TypeOK, link
  <2>2. Sound(at'[w], job'[w], seen'[w], wins'[w]) BY <1>0, <1>1, <2>1 DEF Sound
  <2>3. QED BY <2>1, <2>2, StepOfOne
<1>4. CASE Send(w)
  <2>1. job[w] \in Jobs /\ job[w].ver \in 1..MaxVersion /\ job[w].ver <= version
    BY <1>1, <1>4 DEF Send, Sound, Jobs
  <2>2. /\ at' = [at EXCEPT ![w] = at'[w]] /\ job' = [job EXCEPT ![w] = job'[w]]
        /\ seen' = [seen EXCEPT ![w] = seen'[w]] /\ wins' = [wins EXCEPT ![w] = wins'[w]]
        /\ UNCHANGED <<kind, manager, linked>> /\ at'[w] = "top" /\ seen'[w] = seen[w]
    BY <1>4 DEF Send, IInv, TypeOK
  <2>3. blocks' \in 0..1 BY <1>4 DEF Send, IInv, TypeOK
  <2>4. CASE Full
    <3>1. job'[w] = NoJob /\ wins'[w] = Count(wins[w], job[w].ver)
      BY <1>4, <2>4 DEF Send, IInv, TypeOK
    <3>2. \/ wins'[w] = [ver |-> job[w].ver, won |-> 1]
          \/ /\ wins[w].ver = job[w].ver
             /\ wins'[w] = [ver |-> wins[w].ver, won |-> wins[w].won + 1]
      BY <1>1, <3>1 DEF Count, Sound
    <3>3. CASE /\ wins[w].ver = job[w].ver
               /\ wins'[w] = [ver |-> wins[w].ver, won |-> wins[w].won + 1]
      <4>1. wins[w].won <= 1 /\ wins[w].ver <= seen[w]
        BY <1>1, <1>4, <3>3 DEF Sound, Send
      <4>2. Sound(at'[w], job'[w], seen'[w], wins'[w])
        BY <1>0, <1>1, <2>1, <2>2, <3>1, <3>3, <4>1 DEF Sound
      <4>3. QED BY <2>2, <2>3, <4>2, StepOfOne
    <3>4. CASE wins'[w] = [ver |-> job[w].ver, won |-> 1]
      <4>1. Sound(at'[w], job'[w], seen'[w], wins'[w])
        BY <1>0, <1>1, <2>1, <2>2, <3>1, <3>4 DEF Sound
      <4>2. QED BY <2>2, <2>3, <4>1, StepOfOne
    <3>5. QED BY <3>2, <3>3, <3>4
  <2>5. CASE ~Full
    <3>1. job'[w] = job[w] /\ wins'[w] = wins[w] BY <1>4, <2>5 DEF Send
    <3>2. Sound(at'[w], job'[w], seen'[w], wins'[w]) BY <1>1, <2>2, <3>1 DEF Sound
    <3>3. QED BY <2>2, <2>3, <3>2, StepOfOne
  <2>6. QED BY <2>4, <2>5
<1>5. QED BY <1>2, <1>3, <1>4

\* Every step.
LEMMA StepInvariant == ASSUME IInv, [Next]_vars PROVE IInv'
<1>1. CASE KillFrozen
  <2>1. Last(handles) \in Workers BY <1>1, HandlesLeft DEF KillFrozen, IInv, TypeOK
  <2>2. QED BY <1>1, <2>1, EndKeeps DEF KillFrozen
<1>2. CASE \E w \in Workers : Step(w)
  BY <1>2, ChannelKeeps, JobKeeps DEF Step
<1>3. CASE UNCHANGED vars
  <2>1. PauseIsTold' /\ JobIsNumbered' /\ RoomToClose'
    BY <1>3 DEF vars, manager, IInv, PauseIsTold, JobIsNumbered, RoomToClose
  <2>2. TypeOK' BY <1>3 DEF vars, manager, worker, link, IInv, TypeOK
  <2>3. WinsFollow'
    BY <1>3 DEF vars, manager, worker, IInv, WinsFollow, NotAhead, TakesOnwards, HeldAgain,
                WonTwice, AtMostTwice
  <2>4. QED BY <2>1, <2>2, <2>3 DEF IInv
<1>4. QED BY <1>1, <1>2, <1>3, ManagerKeeps, RestartKeeps DEF Next

\* The shape of the state (miner.rs).
THEOREM WorkersTypeOK == Spec => []TypeOK
<1>1. Init => IInv BY InitInvariant
<1>2. IInv /\ [Next]_vars => IInv' BY StepInvariant
<1>3. IInv => TypeOK BY DEF IInv
<1>4. QED BY <1>1, <1>2, <1>3, PTL DEF Spec

\* process_block(None) may do nothing when is_synced is down: the workers have been told.
THEOREM WorkersPauseIsTold == Spec => []PauseIsTold
<1>1. Init => IInv BY InitInvariant
<1>2. IInv /\ [Next]_vars => IInv' BY StepInvariant
<1>3. IInv => PauseIsTold BY DEF IInv
<1>4. QED BY <1>1, <1>2, <1>3, PTL DEF Spec

\* A worker finds at most two blocks for one template of the node.
THEOREM WorkersAtMostTwice == Spec => []AtMostTwice
<1>1. Init => IInv BY InitInvariant
<1>2. IInv /\ [Next]_vars => IInv' BY StepInvariant
<1>3. IInv => AtMostTwice BY DEF IInv, WinsFollow
<1>4. QED BY <1>1, <1>2, <1>3, PTL DEF Spec

-----------------------------------------------------------------------------
(* The watch channel.                                                      *)

\* What the sender is about to write has room.
RoomToSend == sender = "send" => value <= MaxSends

\* No receiver is ahead of the channel.
NoneAhead == \A r \in Receivers : last[r] <= id /\ handed[r] <= value

\* The mutex is held within the wait only, and always once a sleep is over.
MutexIsHeld ==
    \A r \in Receivers :
        /\ mutex = r => stage[r] \in {"check", "compare", "clone", "recheck", "reload"}
        /\ stage[r] \in {"recheck", "reload"} => mutex = r

\* Only wait_for_change takes the mutex.
WaitsInCall ==
    \A r \in Receivers :
        mutex = r \/ stage[r] \in {"lock", "asleep", "relock"} => call[r] = "wait_for_change"

\* A thread about to sleep keeps a dropped sender from waking the sleepers without it.
DropWaits ==
    \A r \in Receivers : stage[r] = "compare" /\ mutex = r => alive \/ sender = "drop"

ChannelInv ==
    /\ ChannelShape
    /\ RoomToSend
    /\ NoneAhead
    /\ NeverBehindItsId
    /\ MutexIsHeld
    /\ WaitsInCall
    /\ DropWaits
    /\ NoLostWakeup

-----------------------------------------------------------------------------

LEMMA ChannelStarts == ASSUME ChannelInit PROVE ChannelInv
<1> USE WatchAssumption DEF ChannelInit
<1>1. ChannelShape
  <2>1. alive = (sender \notin {"drop", "gone"}) OBVIOUS
  <2>2. value \in 1..(MaxSends + 1) /\ id = IF sender = "written" THEN value - 1 ELSE value
    OBVIOUS
  <2>3. QED BY <2>1, <2>2 DEF ChannelShape, Stage
<1>2. RoomToSend /\ NoneAhead /\ NeverBehindItsId BY DEF RoomToSend, NoneAhead, NeverBehindItsId
<1>3. MutexIsHeld /\ WaitsInCall /\ DropWaits /\ NoLostWakeup
  BY DEF MutexIsHeld, WaitsInCall, DropWaits, NoLostWakeup, Asleep
<1>4. QED BY <1>1, <1>2, <1>3 DEF ChannelInv

\* The id is a number no smaller than any a receiver remembers.
LEMMA Versions ==
    ASSUME ChannelInv
    PROVE  /\ value \in Nat /\ id \in Nat /\ id <= value
           /\ \A r \in Receivers : last[r] \in Nat /\ handed[r] \in Nat
BY WatchAssumption DEF ChannelInv, ChannelShape

\* The steps of the sender.
LEMMA SenderKeeps ==
    ASSUME ChannelInv, SendValue \/ DropSender \/ SenderStep
    PROVE  ChannelInv'
<1> USE WatchAssumption DEF ChannelInv
<1>0. value \in Nat /\ id \in Nat /\ id <= value BY Versions
<1>1. CASE SendValue
  BY <1>1, <1>0 DEF SendValue, shared, ChannelShape, Stage, RoomToSend, NoneAhead, NeverBehindItsId,
                    MutexIsHeld, WaitsInCall, DropWaits, NoLostWakeup, Asleep, Live
<1>2. CASE DropSender
  BY <1>2, <1>0 DEF DropSender, ChannelShape, Stage, RoomToSend, NoneAhead, NeverBehindItsId,
                    MutexIsHeld, WaitsInCall, DropWaits, NoLostWakeup, Asleep
<1>3. CASE ReplaceValue
  <2>1. ChannelShape' BY <1>3, <1>0 DEF ReplaceValue, ChannelShape, RoomToSend
  <2>2. NoneAhead' BY <1>3, <1>0, Versions DEF ReplaceValue, NoneAhead
  <2>3. QED
    BY <1>3, <2>1, <2>2 DEF ReplaceValue, RoomToSend, NeverBehindItsId, MutexIsHeld,
                            WaitsInCall, DropWaits, NoLostWakeup, Asleep, ChannelShape
<1>4. CASE IncrementId
  <2>1. ChannelShape' BY <1>4, <1>0 DEF IncrementId, ChannelShape
  <2>2. NoneAhead' BY <1>4, <1>0, Versions DEF IncrementId, NoneAhead
  <2>3. QED
    BY <1>4, <2>1, <2>2 DEF IncrementId, RoomToSend, NeverBehindItsId, MutexIsHeld,
                            WaitsInCall, DropWaits, NoLostWakeup, Asleep, ChannelShape
<1>5. CASE WakeUpThreads
  <2>1. ChannelShape' BY <1>5, <1>0 DEF WakeUpThreads, shared, ChannelShape, Stage
  <2>2. NoneAhead' BY <1>5 DEF WakeUpThreads, shared, NoneAhead
  <2>3. NeverBehindItsId' BY <1>5 DEF WakeUpThreads, shared, NeverBehindItsId, ChannelShape
  <2>4. MutexIsHeld' /\ WaitsInCall' /\ DropWaits'
    BY <1>5 DEF WakeUpThreads, shared, MutexIsHeld, WaitsInCall, DropWaits, ChannelShape
  <2>5. NoLostWakeup' BY <1>5 DEF WakeUpThreads, NoLostWakeup, Asleep, ChannelShape
  <2>6. QED BY <1>5, <2>1, <2>2, <2>3, <2>4, <2>5 DEF WakeUpThreads, RoomToSend
<1>6. QED BY <1>1, <1>2, <1>3, <1>4, <1>5 DEF SenderStep

\* The steps of a receiver in get_changed_internal.
LEMMA CallKeeps ==
    ASSUME ChannelInv, NEW r \in Receivers,
           CheckAlive(r) \/ CompareId(r) \/ CloneValue(r)
    PROVE  ChannelInv'
<1> USE WatchAssumption DEF ChannelInv, shared
<1>0. /\ value \in Nat /\ id \in Nat /\ id <= value
      /\ \A q \in Receivers : last[q] \in Nat /\ handed[q] \in Nat
  BY Versions
<1>1. CASE CheckAlive(r)
  <2> USE DEF CheckAlive, Move, Release
  <2>1. ChannelShape' BY <1>1 DEF ChannelShape, Stage
  <2>2. RoomToSend' /\ NoneAhead' /\ NeverBehindItsId'
    BY <1>1 DEF RoomToSend, NoneAhead, NeverBehindItsId, ChannelShape
  <2>3. MutexIsHeld' /\ WaitsInCall' BY <1>1 DEF MutexIsHeld, WaitsInCall, ChannelShape
  <2>4. DropWaits' BY <1>1 DEF DropWaits, ChannelShape
  <2>5. NoLostWakeup' BY <1>1 DEF NoLostWakeup, Asleep, ChannelShape
  <2>6. QED BY <2>1, <2>2, <2>3, <2>4, <2>5
<1>2. CASE CompareId(r)
  <2> USE DEF CompareId, Move
  <2>1. ChannelShape' BY <1>2, <1>0 DEF ChannelShape, Stage
  <2>2. RoomToSend' /\ NoneAhead' BY <1>2, <1>0 DEF RoomToSend, NoneAhead, ChannelShape
  <2>3. NeverBehindItsId' BY <1>2 DEF NeverBehindItsId, ChannelShape
  <2>4. MutexIsHeld'
    <3>1. CASE UNCHANGED mutex
      BY <1>2, <3>1 DEF MutexIsHeld, WaitsInCall, ChannelShape
    <3>2. CASE mutex = r /\ mutex' = Nobody /\ stage' = [stage EXCEPT ![r] = "asleep"]
      <4>1. \A q \in Receivers : stage[q] \in {"recheck", "reload"} => q = r
        BY <3>2 DEF MutexIsHeld
      <4>2. QED BY <1>2, <3>2, <4>1 DEF MutexIsHeld, WaitsInCall, ChannelShape
    <3>3. QED BY <1>2, <3>1, <3>2
  <2>5. WaitsInCall' BY <1>2 DEF WaitsInCall, ChannelShape
  <2>6. DropWaits' BY <1>2 DEF DropWaits, ChannelShape
  <2>7. NoLostWakeup' BY <1>2 DEF NoLostWakeup, Asleep, DropWaits, ChannelShape
  <2>8. QED BY <2>1, <2>2, <2>3, <2>4, <2>5, <2>6, <2>7
<1>3. CASE CloneValue(r)
  <2> USE DEF CloneValue, Move, Release
  <2>1. ChannelShape' BY <1>3 DEF ChannelShape, Stage
  <2>2. RoomToSend' /\ NoneAhead' BY <1>3, <1>0 DEF RoomToSend, NoneAhead, ChannelShape
  <2>3. NeverBehindItsId' BY <1>3, <1>0 DEF NeverBehindItsId, NoneAhead, ChannelShape
  <2>4. MutexIsHeld' /\ WaitsInCall' BY <1>3 DEF MutexIsHeld, WaitsInCall, ChannelShape
  <2>5. DropWaits' BY <1>3 DEF DropWaits, ChannelShape
  <2>6. NoLostWakeup' BY <1>3 DEF NoLostWakeup, Asleep, ChannelShape
  <2>7. QED BY <2>1, <2>2, <2>3, <2>4, <2>5, <2>6
<1>4. QED BY <1>1, <1>2, <1>3

\* The steps of a receiver around its sleep, and in and out of its calls.
LEMMA WaitKeeps ==
    ASSUME ChannelInv, NEW r \in Receivers,
           \/ \E f \in {"get_changed", "wait_for_change"} : Call(r, f)
           \/ Lock(r) \/ WakeSpuriously(r) \/ Relock(r) \/ RecheckAlive(r) \/ LoadId(r)
           \/ Leave(r)
    PROVE  ChannelInv'
<1> USE WatchAssumption DEF ChannelInv, shared, Move, Release
<1>0. /\ value \in Nat /\ id \in Nat /\ id <= value
      /\ \A q \in Receivers : last[q] \in Nat /\ handed[q] \in Nat
  BY Versions
<1>a. /\ UNCHANGED <<value, id, alive, sender, handed>>
      /\ stage' \in [Receivers -> Stage]
      /\ call' \in [Receivers -> {"get_changed", "wait_for_change"}]
      /\ mutex' \in Receivers \cup {Nobody}
  BY DEF Call, Lock, WakeSpuriously, Relock, RecheckAlive, LoadId, Leave, ChannelShape, Stage
<1>1. CASE LoadId(r)
  <2> USE DEF LoadId
  <2>1. ChannelShape' BY <1>1, <1>0, <1>a DEF ChannelShape
  <2>2. RoomToSend' /\ NoneAhead' BY <1>1, <1>0 DEF RoomToSend, NoneAhead, ChannelShape
  <2>3. NeverBehindItsId' BY <1>1 DEF NeverBehindItsId, ChannelShape
  <2>4. MutexIsHeld' /\ WaitsInCall' /\ DropWaits'
    BY <1>1 DEF MutexIsHeld, WaitsInCall, DropWaits, ChannelShape
  <2>5. NoLostWakeup' BY <1>1 DEF NoLostWakeup, Asleep, ChannelShape
  <2>6. QED BY <2>1, <2>2, <2>3, <2>4, <2>5
<1>2. CASE ~LoadId(r)
  <2> USE DEF Call, Lock, WakeSpuriously, Relock, RecheckAlive, Leave
  <2>0. UNCHANGED last BY <1>2
  <2>1. ChannelShape' BY <2>0, <1>a DEF ChannelShape
  <2>2. RoomToSend' /\ NoneAhead' BY <2>0, <1>a DEF RoomToSend, NoneAhead
  <2>3. NeverBehindItsId' BY <1>2, <2>0 DEF NeverBehindItsId, ChannelShape
  <2>4. MutexIsHeld' /\ WaitsInCall' BY <1>2 DEF MutexIsHeld, WaitsInCall, ChannelShape
  <2>5. DropWaits' BY <1>2 DEF DropWaits, MutexIsHeld, WaitsInCall, ChannelShape
  <2>6. NoLostWakeup' BY <1>2 DEF NoLostWakeup, Asleep, ChannelShape
  <2>7. QED BY <2>1, <2>2, <2>3, <2>4, <2>5, <2>6
<1>3. QED BY <1>1, <1>2

LEMMA ChannelStepKeeps == ASSUME ChannelInv, [ChannelNext]_channelVars PROVE ChannelInv'
<1>1. CASE ChannelNext BY <1>1, SenderKeeps, CallKeeps, WaitKeeps DEF ChannelNext, InCall
<1>2. CASE UNCHANGED channelVars
  BY <1>2 DEF channelVars, shared, ChannelInv, ChannelShape, RoomToSend, NoneAhead, NeverBehindItsId, MutexIsHeld,
              WaitsInCall, DropWaits, NoLostWakeup, Asleep
<1>3. QED BY <1>1, <1>2

LEMMA ChannelInvariant == ChannelSpec => []ChannelInv
BY ChannelStarts, ChannelStepKeeps, PTL DEF ChannelSpec

-----------------------------------------------------------------------------

\* The id of the channel follows its value, and the flag its sender, whatever the
\* interleaving (replace_value, drop_sender).
THEOREM ChannelTypeOK == ChannelSpec => []ChannelShape
<1>1. ChannelInv => ChannelShape BY DEF ChannelInv
<1>2. QED BY <1>1, ChannelInvariant, PTL

\* No thread is left with a replaced job while its id says that it has the last one
\* (get_changed_internal).
THEOREM ChannelNeverBehind == ChannelSpec => []NeverBehindItsId
<1>1. ChannelInv => NeverBehindItsId BY DEF ChannelInv
<1>2. QED BY <1>1, ChannelInvariant, PTL

\* No thread sleeps through a value or the end of the sender (wait_for_change,
\* wake_up_threads), condition variables that wake for no reason included.
THEOREM ChannelNoLostWakeup == ChannelSpec => []NoLostWakeup
<1>1. ChannelInv => NoLostWakeup BY DEF ChannelInv
<1>2. QED BY <1>1, ChannelInvariant, PTL

LEMMA RegisterStep ==
    ASSUME ChannelInv, [ChannelNext]_channelVars
    PROVE  [Register!Next]_<<value, handed, alive>>
<1> USE DEF Register!Next, Register!Publish, Register!Deliver, Register!Close
<1>1. CASE ReplaceValue BY <1>1 DEF ReplaceValue, ChannelInv, ChannelShape
<1>2. CASE DropSender BY <1>2 DEF DropSender, ChannelInv, ChannelShape
<1>3. CASE \E r \in Receivers : CloneValue(r) BY <1>3 DEF CloneValue, shared
<1>4. ASSUME [ChannelNext]_channelVars, ~ReplaceValue, ~DropSender, ~\E r \in Receivers : CloneValue(r)
      PROVE  UNCHANGED <<value, handed, alive>>
  BY <1>4 DEF ChannelNext, SenderStep, InCall, channelVars, shared, SendValue, IncrementId, WakeUpThreads, Call,
              CheckAlive, CompareId, Lock, Relock, WakeSpuriously, RecheckAlive, LoadId, Leave
<1>5. QED BY <1>1, <1>2, <1>3, <1>4

\* The channel implements the register: every receiver is handed the value of the
\* moment, and nothing after the sender is gone is published.
THEOREM ChannelImplementsRegister == ChannelSpec => ChannelIsRegister
<1>1. ChannelInit => Register!Init BY DEF ChannelInit, Register!Init
<1>2. ChannelInv /\ [ChannelNext]_channelVars => [Register!Next]_<<value, handed, alive>> BY RegisterStep
<1>3. QED
  BY <1>1, <1>2, ChannelInvariant, PTL DEF ChannelSpec, ChannelIsRegister, Register!Spec
=============================================================================
