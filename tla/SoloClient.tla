----------------------------- MODULE SoloClient -----------------------------
(***************************************************************************)
(* The client of a keryx node when mining solo (src/src/client/grpc.rs):   *)
(* it scans blocks and templates for AiRequests, runs one inference at a   *)
(* time, answers the node's challenges, and tells the mining threads when  *)
(* to mine.  What it does for escrow claims is in Escrow.                  *)
(*                                                                         *)
(* One task reads the node's messages and a timer, a handler at a time; a  *)
(* scan takes a step per transaction.  Inferences run in tasks of their    *)
(* own.  Data: a request is its stable id, and stands for the transactions *)
(* that carry its payload.                                                 *)
(***************************************************************************)
EXTENDS Integers, Sequences, FiniteSets, Functions

CONSTANTS
    Requests,
    Paid,              \* requests with an inference_reward
    Models,
    ModelOf,           \* ModelOf[r]: the model that r asks for
    Fragile,           \* models whose files may go missing and come back
    NoRequest,
    TxLists,           \* the AiRequests a block or a template may carry, in order
    MineWhenNotSynced, \* mine_when_not_synced
    MaxQueue,          \* MAX_AI_QUEUE_SIZE
    MaxSeen,           \* MAX_AI_SEEN_IDS
    MaxTemplates,      \* bound: template requests without an answer
    MaxFetches,        \* bound: GetBlock requests without an answer
    MaxChallenges,     \* bound: challenges issued
    MaxReconnects      \* bound

ASSUME SoloAssumption ==
    /\ Paid \subseteq Requests
    /\ ModelOf \in [Requests -> Models]
    /\ Fragile \subseteq Models
    /\ NoRequest \notin Requests
    /\ TxLists \subseteq Seq(Requests)
    /\ MineWhenNotSynced \in BOOLEAN
    /\ {MaxQueue, MaxSeen, MaxTemplates} \subseteq Nat \ {0}
    /\ {MaxFetches, MaxChallenges, MaxReconnects} \subseteq Nat

VARIABLES
    queue,       \* ai_request_queue
    seen,        \* ai_seen_prefixes
    txids,       \* requests with an entry in ai_request_txids
    inference,   \* inference_rx: the request, and what its task has sent
    challenge,   \* challenge_inference_rx, and the flag opoi_challenge_active
    pom,         \* last_known_daa has reached POM_ACTIVATION_DAA
    told,        \* what the mining threads were last told
    doing,       \* what the handler is in, if not waiting for a message
    todo,        \* transactions left to scan
    ready,       \* models whose files are complete
    asked,       \* template requests without an answer
    fetches,     \* GetBlock requests without an answer
    news,        \* a NewBlockTemplate notification is on its way
    registered,  \* notifications are registered for
    synced,      \* the node is synced
    issued,      \* challenges issued
    reconnects,
    answers,     \* AiResponses submitted for each request over this connection
    tracked      \* requests whose escrow was handed to the watcher

lists == <<queue, seen, txids>>
node == <<ready, synced, issued, reconnects>>
wire == <<asked, fetches, news, registered>>
outcome == <<answers, tracked>>
vars == <<lists, inference, challenge, pom, told, doing, todo, node, wire, outcome>>

NoTask == [id |-> NoRequest, out |-> "none"]
NoChallenge == [out |-> "none", active |-> FALSE]
Ended == {"text", "nothing"}

Listening == doing = "listen"

-----------------------------------------------------------------------------
(* Pieces of the handlers *)

\* client_get_block_template takes the result of a challenge that has ended.
Harvest(c) == IF c.out \in Ended THEN NoChallenge ELSE c

GetTemplate == asked' = asked + 1 /\ challenge' = Harvest(challenge)

\* poll_inference, when the task has ended: nothing is answered without a text, nor if
\* the upload of the text fails; an answer hands the request's escrow to the watcher.
PollInference ==
    /\ inference.out \in Ended
    /\ inference' = NoTask
    /\ \/ UNCHANGED <<answers, tracked, txids>>
       \/ /\ inference.out = "text"
          /\ answers' = [answers EXCEPT ![inference.id] = @ + 1]
          /\ tracked' = tracked \cup ({inference.id} \cap txids)
          /\ txids' = txids \ {inference.id}

\* try_start_inference: a request whose model is gone is discarded.
TryStart ==
    IF inference # NoTask \/ queue = <<>>
    THEN UNCHANGED <<queue, inference>>
    ELSE /\ queue' = Tail(queue)
         /\ inference' = IF ModelOf[Head(queue)] \in ready
                         THEN [id |-> Head(queue), out |-> "running"] ELSE inference

-----------------------------------------------------------------------------
(* The scan of a block or a template, a transaction at a time *)

\* The oldest request gives way when the queue is full.
Enqueue(r) ==
    LET q == Append(queue, r) IN IF Len(q) > MaxQueue THEN Tail(q) ELSE q

\* Too many ids: only those of the queue are kept.
Remember(r, q) ==
    LET s == seen \cup {r} IN IF Cardinality(s) > MaxSeen THEN Range(q) ELSE s

\* Faulty variants: a request is known by the queue alone; the txid is taken from the
\* node, which does not fill it in for a template.
ScanTxQueueOnly ==
    /\ ~Listening /\ todo # <<>>
    /\ todo' = Tail(todo)
    /\ IF ModelOf[Head(todo)] \notin ready
       THEN UNCHANGED lists
       ELSE /\ txids' = txids \cup ({Head(todo)} \cap Paid)
            /\ IF Head(todo) \in Range(queue)
               THEN UNCHANGED <<queue, seen>>
               ELSE /\ queue' = Enqueue(Head(todo))
                    /\ seen' = Remember(Head(todo), queue')
    /\ UNCHANGED <<inference, challenge, pom, told, doing, node, wire, outcome>>

ScanTxNodeId ==
    /\ ~Listening /\ todo # <<>>
    /\ todo' = Tail(todo)
    /\ IF ModelOf[Head(todo)] \notin ready
       THEN UNCHANGED lists
       ELSE /\ txids' = IF doing = "block" THEN txids \cup ({Head(todo)} \cap Paid) ELSE txids
            /\ IF Head(todo) \in seen
               THEN UNCHANGED <<queue, seen>>
               ELSE /\ queue' = Enqueue(Head(todo))
                    /\ seen' = Remember(Head(todo), queue')
    /\ UNCHANGED <<inference, challenge, pom, told, doing, node, wire, outcome>>

ScanTx ==
    /\ ~Listening /\ todo # <<>>
    /\ todo' = Tail(todo)
    /\ IF ModelOf[Head(todo)] \notin ready
       THEN UNCHANGED lists
       ELSE /\ txids' = txids \cup ({Head(todo)} \cap Paid)
            /\ IF Head(todo) \in seen
               THEN UNCHANGED <<queue, seen>>
               ELSE /\ queue' = Enqueue(Head(todo))
                    /\ seen' = Remember(Head(todo), queue')
    /\ UNCHANGED <<inference, challenge, pom, told, doing, node, wire, outcome>>

-----------------------------------------------------------------------------
(* Handlers *)

GetInfoResponse ==
    /\ Listening /\ ~registered
    /\ asked < MaxTemplates
    /\ registered' = TRUE
    /\ GetTemplate
    /\ UNCHANGED <<lists, inference, pom, told, doing, todo, node, fetches, news, outcome>>

\* A block, from anyone, comes with a new template; its transactions may be absent.
BlockAdded(txs) ==
    /\ Listening /\ registered
    /\ doing' = "block" /\ todo' = txs
    /\ news' = TRUE
    /\ UNCHANGED <<lists, inference, challenge, pom, told, node, asked, fetches, registered,
                   outcome>>

BareBlockAdded ==
    /\ Listening /\ registered
    /\ fetches < MaxFetches
    /\ fetches' = fetches + 1
    /\ news' = TRUE
    /\ UNCHANGED <<lists, inference, challenge, pom, told, doing, todo, node, asked, registered,
                   outcome>>

GetBlockResponse ==
    /\ Listening /\ fetches > 0
    /\ fetches' = fetches - 1
    /\ \/ UNCHANGED <<doing, todo>>     \* an error
       \/ doing' = "block" /\ todo' \in TxLists
    /\ UNCHANGED <<lists, inference, challenge, pom, told, node, asked, news, registered, outcome>>

EndBlock ==
    /\ doing = "block" /\ todo = <<>>
    /\ TryStart
    /\ doing' = "listen"
    /\ UNCHANGED <<seen, txids, challenge, pom, told, todo, node, wire, outcome>>

NewBlockTemplate ==
    /\ Listening /\ news
    /\ asked < MaxTemplates
    /\ news' = FALSE
    /\ GetTemplate
    /\ UNCHANGED <<lists, inference, pom, told, doing, todo, node, fetches, registered, outcome>>

\* A challenge for a ready model starts an inference, unless one is in flight or the
\* proof of model has made challenges void.
Challenged(issue) ==
    IF issue /\ challenge.out = "none" /\ ~pom'
    THEN [out |-> "running", active |-> TRUE] ELSE challenge

\* The answer to a template request, up to the scan.
GetBlockTemplateResponse(issue) ==
    /\ Listening /\ asked > 0
    /\ issue => issued < MaxChallenges /\ ready # {}
    /\ issued' = IF issue THEN issued + 1 ELSE issued
    /\ pom' \in {pom, TRUE}
    /\ \/ /\ PollInference              \* a finished inference is answered; ask again
          /\ challenge' = Harvest(Challenged(issue))
          /\ UNCHANGED <<told, doing, todo, asked>>
       \/ /\ inference.out \notin Ended
          /\ ready = {}
          /\ challenge' = Challenged(issue)
          /\ asked' = asked - 1
          /\ told' = "none"
          /\ UNCHANGED <<txids, inference, doing, todo, outcome>>
       \/ /\ inference.out \notin Ended
          /\ ready # {}
          /\ challenge' = Challenged(issue)
          /\ asked' = asked - 1
          /\ doing' = "template" /\ todo' \in TxLists
          /\ UNCHANGED <<txids, inference, told, outcome>>
    /\ UNCHANGED <<queue, seen, ready, synced, reconnects, fetches, news, registered>>

\* After the scan: the template is mined, unless an inference needs the GPU.
EndTemplate ==
    /\ doing = "template" /\ todo = <<>>
    /\ TryStart
    /\ doing' = "listen"
    /\ told' = IF inference' = NoTask /\ challenge.out = "none" /\ (synced \/ MineWhenNotSynced)
               THEN "job" ELSE "none"
    /\ UNCHANGED <<seen, txids, challenge, pom, todo, node, wire, outcome>>

\* Faulty variant: the timer sees to challenges only.
TickForChallenge ==
    /\ Listening
    /\ asked < MaxTemplates
    /\ challenge.out # "none"
    /\ GetTemplate
    /\ UNCHANGED <<lists, inference, outcome, pom, told, doing, todo, node, fetches, news,
                   registered>>

\* The timer of listen, every 200 ms.
Tick ==
    /\ Listening
    /\ asked < MaxTemplates
    /\ \/ PollInference
       \/ /\ inference.out \notin Ended
          /\ challenge.out # "none"
          /\ UNCHANGED <<inference, txids, outcome>>
    /\ GetTemplate
    /\ UNCHANGED <<queue, seen, pom, told, doing, todo, node, fetches, news, registered>>

-----------------------------------------------------------------------------
(* The inference tasks, the model files and the node *)

InferenceEnds ==
    /\ inference.out = "running"
    /\ \E out \in Ended : inference' = [inference EXCEPT !.out = out]
    /\ UNCHANGED <<lists, challenge, pom, told, doing, todo, node, wire, outcome>>

ChallengeEnds ==
    /\ challenge.out = "running"
    /\ \E out \in Ended : challenge' = [challenge EXCEPT !.out = out]
    /\ UNCHANGED <<lists, inference, pom, told, doing, todo, node, wire, outcome>>

FilesChange ==
    /\ Listening
    /\ ready' \in SUBSET Models
    /\ Models \ Fragile \subseteq ready'
    /\ UNCHANGED <<lists, inference, challenge, pom, told, doing, todo, synced, issued,
                   reconnects, wire, outcome>>

\* A node that has caught up announces a template.
SyncChanges ==
    /\ synced' = ~synced
    /\ news' = (news \/ (synced' /\ registered))
    /\ UNCHANGED <<lists, inference, challenge, pom, told, doing, todo, ready, issued, reconnects,
                   asked, fetches, registered, outcome>>

\* The stream ends, or an answer is an error: client_main starts over, with a new
\* handler and new mining threads.
Reconnect ==
    /\ Listening
    /\ reconnects < MaxReconnects
    /\ reconnects' = reconnects + 1
    /\ queue' = <<>> /\ seen' = {} /\ txids' = {}
    /\ inference' = NoTask /\ challenge' = NoChallenge
    /\ pom' = FALSE
    /\ told' = "none"
    /\ asked' = 0 /\ fetches' = 0 /\ news' = FALSE /\ registered' = FALSE
    /\ answers' = [r \in Requests |-> 0] /\ tracked' = {}
    /\ UNCHANGED <<doing, todo, ready, synced, issued>>

-----------------------------------------------------------------------------

Init ==
    /\ queue = <<>> /\ seen = {} /\ txids = {}
    /\ inference = NoTask /\ challenge = NoChallenge
    /\ pom = FALSE
    /\ told = "none"
    /\ doing = "listen" /\ todo = <<>>
    /\ ready = Models /\ synced = TRUE
    /\ asked = 0 /\ fetches = 0 /\ news = FALSE /\ registered = FALSE
    /\ issued = 0 /\ reconnects = 0
    /\ answers = [r \in Requests |-> 0] /\ tracked = {}

Response == \E issue \in BOOLEAN : GetBlockTemplateResponse(issue)
Block == BareBlockAdded \/ \E txs \in TxLists : BlockAdded(txs)

Next ==
    \/ GetInfoResponse
    \/ Block
    \/ GetBlockResponse
    \/ ScanTx
    \/ EndBlock
    \/ NewBlockTemplate
    \/ Response
    \/ EndTemplate
    \/ Tick
    \/ InferenceEnds
    \/ ChallengeEnds
    \/ FilesChange
    \/ SyncChanges
    \/ Reconnect

Spec == Init /\ [][Next]_vars

\* A handler runs to its end, and so does an inference.  Messages and the timer wait
\* for the handler before them and are taken in turn; the node answers.  A miner that
\* has a job finds a block in the end; nobody else need ever find one.
FairSpec ==
    /\ Spec
    /\ WF_vars(ScanTx) /\ WF_vars(EndBlock) /\ WF_vars(EndTemplate)
    /\ WF_vars(InferenceEnds) /\ WF_vars(ChallengeEnds)
    /\ SF_vars(GetInfoResponse) /\ SF_vars(GetBlockResponse) /\ SF_vars(Response)
    /\ SF_vars(NewBlockTemplate)
    /\ SF_vars(Tick)
    /\ SF_vars(told = "job" /\ Block)

-----------------------------------------------------------------------------
(* Properties *)

Out == {"none", "running"} \cup Ended

\* The shape of the state; the flag is up exactly while a challenge is in flight.
TypeOK ==
    /\ queue \in Seq(Requests) /\ Len(queue) <= MaxQueue
    /\ seen \subseteq Requests /\ txids \subseteq Paid /\ tracked \subseteq Paid
    /\ inference \in [id : Requests \cup {NoRequest}, out : Out]
    /\ inference.id = NoRequest <=> inference.out = "none"
    /\ challenge.out \in Out /\ challenge.active = (challenge.out # "none")
    /\ pom \in BOOLEAN /\ told \in {"job", "none"}
    /\ doing \in {"listen", "block", "template"} /\ todo \in Seq(Requests)
    /\ Models \ Fragile \subseteq ready /\ ready \subseteq Models
    /\ asked \in 0..MaxTemplates /\ fetches \in 0..MaxFetches
    /\ {news, registered, synced} \subseteq BOOLEAN
    /\ issued \in 0..MaxChallenges /\ reconnects \in 0..MaxReconnects
    /\ answers \in [Requests -> Nat]

\* Every answer to a request that pays has its escrow tracked.  The request was
\* queued from a block or from a template, whichever came first.
EscrowFollowsAnswer == \A r \in Paid : answers[r] > 0 => r \in tracked

\* Each request is taken in once, run alone, and answered at most once.
Life ==
    [r \in Requests |->
        IF inference.id = r THEN 2
        ELSE IF r \in Range(queue) THEN 1
        ELSE IF r \in seen THEN 3 ELSE 0]
Requested == INSTANCE RequestLife WITH life <- Life
LifeFollowed == Requested!Spec

\* Mining that was stopped stays stopped as long as an inference is in flight ("Pause
\* GPU mining while any inference is in flight").
NoJobWhileInferring ==
    [][told = "none" /\ told' = "job" => inference' = NoTask /\ challenge'.out = "none"]_vars

\* Mining resumes, even if nobody else finds a block, as long as the node is synced
\* ("without this timer [...] mining would deadlock").
MiningResumes == told = "none" ~> (told = "job" \/ ~synced)
=============================================================================
