----------------------------- MODULE SoloProofs -----------------------------
(***************************************************************************)
(* For any requests, models and bounds: the client's state keeps its shape *)
(* and mining does not resume during an inference.  As long as the seen    *)
(* set is never cleared, each request lives as RequestLife has it, and     *)
(* every paying answer is tracked.                                         *)
(***************************************************************************)
EXTENDS SoloClient, FiniteSetTheorems, TLAPS

Distinct(s) == \A j, k \in DOMAIN s : s[j] = s[k] => j = k

-----------------------------------------------------------------------------
(* The queue *)

LEMMA Members ==
    ASSUME NEW s \in Seq(Requests)
    PROVE  /\ Range(s) \subseteq Requests /\ DOMAIN s = 1..Len(s) /\ Len(s) \in Nat
           /\ \A r : r \in Range(s) <=> \E k \in 1..Len(s) : s[k] = r
BY DEF Range

\* The head of a queue without duplicates is not in its tail.
LEMMA HeadLeaves ==
    ASSUME NEW s \in Seq(Requests), s # <<>>, Distinct(s)
    PROVE  /\ Tail(s) \in Seq(Requests) /\ Distinct(Tail(s)) /\ Len(Tail(s)) <= Len(s)
           /\ Head(s) \in Range(s) /\ Range(Tail(s)) = Range(s) \ {Head(s)}
<1>1. /\ Tail(s) \in Seq(Requests) /\ Len(Tail(s)) = Len(s) - 1 /\ Len(s) \in Nat \ {0}
      /\ Head(s) = s[1] /\ DOMAIN s = 1..Len(s) /\ DOMAIN Tail(s) = 1..(Len(s) - 1)
      /\ \A k \in 1..(Len(s) - 1) : Tail(s)[k] = s[k + 1]
  OBVIOUS
<1>2. Distinct(Tail(s)) BY <1>1 DEF Distinct
<1>3. Head(s) \in Range(s) BY <1>1 DEF Range
<1>4. Range(Tail(s)) \subseteq Range(s) \ {Head(s)} BY <1>1 DEF Range, Distinct
<1>5. ASSUME NEW r \in Range(s), r # Head(s) PROVE r \in Range(Tail(s))
  <2>1. PICK k \in 1..Len(s) : s[k] = r BY <1>1, <1>5 DEF Range
  <2>2. k - 1 \in 1..(Len(s) - 1) /\ Tail(s)[k - 1] = r BY <1>1, <1>5, <2>1
  <2>3. QED BY <1>1, <2>2 DEF Range
<1>6. QED BY <1>1, <1>2, <1>3, <1>4, <1>5

LEMMA LastJoins ==
    ASSUME NEW s \in Seq(Requests), NEW r \in Requests, Distinct(s), r \notin Range(s)
    PROVE  /\ Append(s, r) \in Seq(Requests) /\ Distinct(Append(s, r))
           /\ Len(Append(s, r)) = Len(s) + 1 /\ Range(Append(s, r)) = Range(s) \cup {r}
           /\ Append(s, r)[Len(s) + 1] = r
<1>1. /\ Append(s, r) \in Seq(Requests) /\ Len(Append(s, r)) = Len(s) + 1 /\ Len(s) \in Nat
      /\ DOMAIN s = 1..Len(s) /\ DOMAIN Append(s, r) = 1..(Len(s) + 1)
      /\ Append(s, r)[Len(s) + 1] = r
      /\ \A k \in 1..Len(s) : Append(s, r)[k] = s[k]
  OBVIOUS
<1>2. \A k \in 1..Len(s) : s[k] # r BY <1>1 DEF Range
<1>3. Distinct(Append(s, r)) BY <1>1, <1>2 DEF Distinct
<1>4. Range(Append(s, r)) \subseteq Range(s) \cup {r} BY <1>1 DEF Range
<1>5. Range(s) \cup {r} \subseteq Range(Append(s, r))
  <2>1. r \in Range(Append(s, r)) BY <1>1 DEF Range
  <2>2. ASSUME NEW q \in Range(s) PROVE q \in Range(Append(s, r))
    <3>1. PICK k \in 1..Len(s) : s[k] = q BY <1>1 DEF Range
    <3>2. k \in 1..(Len(s) + 1) /\ Append(s, r)[k] = q BY <1>1, <3>1
    <3>3. QED BY <1>1, <3>2 DEF Range
  <2>3. QED BY <2>1, <2>2
<1>6. QED BY <1>1, <1>3, <1>4, <1>5

\* A request that is enqueued is in the queue, and at most the oldest one leaves it.
LEMMA Enqueued ==
    ASSUME NEW r \in Requests, queue \in Seq(Requests), Len(queue) <= MaxQueue, Distinct(queue),
           r \notin Range(queue)
    PROVE  /\ Enqueue(r) \in Seq(Requests) /\ Len(Enqueue(r)) <= MaxQueue
           /\ Distinct(Enqueue(r)) /\ r \in Range(Enqueue(r))
           /\ Range(Enqueue(r)) \subseteq Range(queue) \cup {r}
<1> DEFINE q == Append(queue, r)
<1>1. /\ q \in Seq(Requests) /\ Distinct(q) /\ Len(q) = Len(queue) + 1
      /\ Range(q) = Range(queue) \cup {r} /\ q[Len(queue) + 1] = r
  BY LastJoins
<1>2. MaxQueue \in Nat \ {0} /\ Len(queue) \in Nat BY SoloAssumption
<1>3. CASE Len(q) <= MaxQueue
  <2>1. Enqueue(r) = q BY <1>1, <1>2, <1>3 DEF Enqueue
  <2>2. QED BY <1>1, <1>3, <2>1
<1>4. CASE Len(q) > MaxQueue
  <2>1. q # <<>> /\ Enqueue(r) = Tail(q) BY <1>1, <1>2, <1>4 DEF Enqueue
  <2>2. /\ Tail(q) \in Seq(Requests) /\ Distinct(Tail(q))
        /\ Range(Tail(q)) = Range(q) \ {Head(q)}
    BY <1>1, <2>1, HeadLeaves
  <2>3. Len(Tail(q)) = Len(queue) BY <1>1, <1>2, <2>1
  <2>4. Head(q) # r
    <3>1. Head(q) = q[1] /\ 1 \in DOMAIN q /\ Len(queue) + 1 \in DOMAIN q /\ Len(queue) # 0
      BY <1>1, <1>2, <1>4
    <3>2. QED BY <1>1, <1>2, <3>1 DEF Distinct
  <2>5. QED BY <1>1, <2>1, <2>2, <2>3, <2>4
<1>5. QED BY <1>1, <1>2, <1>3, <1>4
-----------------------------------------------------------------------------
(* The shape of the state *)

LEMMA Bounds ==
    /\ MaxQueue \in Nat \ {0} /\ MaxTemplates \in Nat \ {0}
    /\ MaxFetches \in Nat /\ MaxChallenges \in Nat /\ MaxReconnects \in Nat
    /\ TxLists \subseteq Seq(Requests) /\ NoRequest \notin Requests
BY SoloAssumption

LEMMA TasksEnd ==
    ASSUME TypeOK
    PROVE  /\ NoTask \in [id : Requests \cup {NoRequest}, out : Out]
           /\ Harvest(challenge).out \in Out
           /\ Harvest(challenge).active = (Harvest(challenge).out # "none")
           /\ \A issue : /\ Challenged(issue).out \in Out
                         /\ Challenged(issue).active = (Challenged(issue).out # "none")
                         /\ Harvest(Challenged(issue)).out \in Out
                         /\ Harvest(Challenged(issue)).active
                              = (Harvest(Challenged(issue)).out # "none")
BY DEF TypeOK, NoTask, Out, Ended, Harvest, Challenged, NoChallenge

LEMMA StartTypes ==
    ASSUME TypeOK, TryStart
    PROVE  /\ queue' \in Seq(Requests) /\ Len(queue') <= MaxQueue
           /\ inference' \in [id : Requests \cup {NoRequest}, out : Out]
           /\ inference'.id = NoRequest <=> inference'.out = "none"
<1>1. CASE inference # NoTask \/ queue = <<>> BY <1>1 DEF TryStart, TypeOK
<1>2. CASE ~(inference # NoTask \/ queue = <<>>)
  <2>1. /\ Tail(queue) \in Seq(Requests) /\ Len(Tail(queue)) = Len(queue) - 1
        /\ Head(queue) \in Requests /\ Len(queue) \in Nat
    BY <1>2 DEF TypeOK
  <2>2. queue' = Tail(queue) /\ Len(queue) <= MaxQueue BY <1>2 DEF TryStart, TypeOK
  <2>3. inference' = [id |-> Head(queue), out |-> "running"] \/ inference' = inference
    BY <1>2 DEF TryStart
  <2>4. queue' \in Seq(Requests) /\ Len(queue') <= MaxQueue BY <2>1, <2>2, Bounds
  <2>5. QED BY <2>1, <2>3, <2>4, Bounds DEF TypeOK, Out
<1>3. QED BY <1>1, <1>2

LEMMA PollTypes ==
    ASSUME TypeOK, PollInference
    PROVE  /\ inference' \in [id : Requests \cup {NoRequest}, out : Out]
           /\ inference'.id = NoRequest <=> inference'.out = "none"
           /\ txids' \subseteq Paid /\ tracked' \subseteq Paid
           /\ answers' \in [Requests -> Nat]
<1>1. inference' = NoTask /\ inference.id \in Requests
  BY DEF PollInference, TypeOK, Ended
<1>2. inference' \in [id : Requests \cup {NoRequest}, out : Out]
      /\ (inference'.id = NoRequest <=> inference'.out = "none")
  BY <1>1 DEF NoTask, Out
<1>3. txids' \subseteq Paid /\ tracked' \subseteq Paid BY DEF PollInference, TypeOK
<1>4. answers' \in [Requests -> Nat]
  <2>1. answers \in [Requests -> Nat] BY DEF TypeOK
  <2>2. answers[inference.id] + 1 \in Nat BY <1>1, <2>1
  <2>3. answers' = answers \/ answers' = [answers EXCEPT ![inference.id] = answers[inference.id] + 1]
    BY DEF PollInference
  <2>4. QED BY <2>1, <2>2, <2>3
<1>5. QED BY <1>2, <1>3, <1>4

LEMMA ScanTypes ==
    ASSUME TypeOK, ScanTx
    PROVE  TypeOK'
<1> DEFINE r == Head(todo)
<1>1. r \in Requests /\ todo' \in Seq(Requests) BY DEF ScanTx, TypeOK
<1>2. queue' \in Seq(Requests) /\ Len(queue') <= MaxQueue
  <2>1. CASE UNCHANGED queue BY <2>1 DEF TypeOK
  <2>2. CASE queue' = Enqueue(r)
    <3>1. /\ Append(queue, r) \in Seq(Requests) /\ Len(Append(queue, r)) = Len(queue) + 1
          /\ Len(queue) \in Nat /\ MaxQueue \in Nat
      <4>1. queue \in Seq(Requests) BY DEF TypeOK
      <4>2. QED BY <1>1, <4>1, Bounds
    <3>2. /\ Tail(Append(queue, r)) \in Seq(Requests)
          /\ Len(Tail(Append(queue, r))) = Len(queue)
      BY <3>1
    <3>3. Len(queue) <= MaxQueue BY DEF TypeOK
    <3>4. CASE Len(Append(queue, r)) > MaxQueue
      <4>1. queue' = Tail(Append(queue, r)) BY <2>2, <3>4 DEF Enqueue
      <4>2. QED BY <3>2, <3>3, <4>1
    <3>5. CASE ~(Len(Append(queue, r)) > MaxQueue)
      <4>1. queue' = Append(queue, r) BY <2>2, <3>5 DEF Enqueue
      <4>2. QED BY <3>1, <3>5, <4>1
    <3>6. QED BY <3>4, <3>5
  <2>3. QED BY <2>1, <2>2 DEF ScanTx, lists
<1>3. seen' \subseteq Requests
  <2>1. CASE UNCHANGED seen BY <2>1 DEF TypeOK
  <2>2. CASE seen' = Remember(r, queue')
    <3>1. Range(queue') \subseteq Requests BY <1>2, Members
    <3>2. QED BY <1>1, <2>2, <3>1 DEF Remember, TypeOK
  <2>3. QED BY <2>1, <2>2 DEF ScanTx, lists
<1>4. txids' \subseteq Paid BY DEF ScanTx, lists, TypeOK
<1>5. QED BY <1>1, <1>2, <1>3, <1>4 DEF ScanTx, TypeOK, node, wire, outcome

LEMMA ResponseTypes ==
    ASSUME TypeOK, NEW issue \in BOOLEAN, GetBlockTemplateResponse(issue)
    PROVE  TypeOK'
<1> USE Bounds DEF GetBlockTemplateResponse
<1>1. issued' \in 0..MaxChallenges /\ pom' \in BOOLEAN /\ asked' \in 0..MaxTemplates
  <2>1. issued' \in 0..MaxChallenges BY DEF TypeOK
  <2>2. pom' \in BOOLEAN BY DEF TypeOK
  <2>3. asked' = asked \/ asked' = asked - 1 OBVIOUS
  <2>4. asked' \in 0..MaxTemplates BY <2>3 DEF TypeOK
  <2>5. QED BY <2>1, <2>2, <2>4
<1>2. challenge'.out \in Out /\ challenge'.active = (challenge'.out # "none") BY TasksEnd
<1>3. told' \in {"job", "none"} /\ doing' \in {"listen", "block", "template"}
      /\ todo' \in Seq(Requests)
  BY DEF TypeOK
<1>4. /\ inference' \in [id : Requests \cup {NoRequest}, out : Out]
      /\ inference'.id = NoRequest <=> inference'.out = "none"
      /\ txids' \subseteq Paid /\ tracked' \subseteq Paid
      /\ answers' \in [Requests -> Nat]
  BY PollTypes DEF TypeOK, outcome
<1>5. UNCHANGED <<queue, seen, ready, synced, reconnects, fetches, news, registered>> OBVIOUS
<1>6. QED BY <1>1, <1>2, <1>3, <1>4, <1>5 DEF TypeOK

LEMMA TickTypes == ASSUME TypeOK, Tick PROVE TypeOK'
<1> USE Bounds DEF Tick, GetTemplate
<1>1. asked' \in 0..MaxTemplates BY DEF TypeOK
<1>2. challenge'.out \in Out /\ challenge'.active = (challenge'.out # "none") BY TasksEnd
<1>3. /\ inference' \in [id : Requests \cup {NoRequest}, out : Out]
      /\ inference'.id = NoRequest <=> inference'.out = "none"
      /\ txids' \subseteq Paid /\ tracked' \subseteq Paid
      /\ answers' \in [Requests -> Nat]
  BY PollTypes DEF TypeOK, outcome
<1>4. QED BY <1>1, <1>2, <1>3 DEF TypeOK, node

LEMMA TypeStep == ASSUME TypeOK, [Next]_vars PROVE TypeOK'
<1> USE Bounds DEF lists, node, wire, outcome
<1>1. CASE GetInfoResponse
  <2>1. asked' \in 0..MaxTemplates BY <1>1 DEF GetInfoResponse, GetTemplate, TypeOK
  <2>2. challenge'.out \in Out /\ challenge'.active = (challenge'.out # "none")
    BY <1>1, TasksEnd DEF GetInfoResponse, GetTemplate
  <2>3. QED BY <1>1, <2>1, <2>2 DEF GetInfoResponse, TypeOK
<1>2. CASE Block
  <2>1. CASE BareBlockAdded BY <2>1 DEF BareBlockAdded, TypeOK
  <2>2. CASE \E txs \in TxLists : BlockAdded(txs) BY <2>2 DEF BlockAdded, TypeOK
  <2>3. QED BY <1>2, <2>1, <2>2 DEF Block
<1>3. CASE GetBlockResponse BY <1>3 DEF GetBlockResponse, TypeOK
<1>4. CASE ScanTx BY <1>4, ScanTypes
<1>5. CASE EndBlock BY <1>5, StartTypes DEF EndBlock, TypeOK
<1>6. CASE NewBlockTemplate
  <2>1. asked' \in 0..MaxTemplates BY <1>6 DEF NewBlockTemplate, GetTemplate, TypeOK
  <2>2. challenge'.out \in Out /\ challenge'.active = (challenge'.out # "none")
    BY <1>6, TasksEnd DEF NewBlockTemplate, GetTemplate
  <2>3. QED BY <1>6, <2>1, <2>2 DEF NewBlockTemplate, TypeOK
<1>7. CASE Response BY <1>7, ResponseTypes DEF Response
<1>8. CASE EndTemplate BY <1>8, StartTypes DEF EndTemplate, TypeOK
<1>9. CASE Tick BY <1>9, TickTypes
<1>10. CASE InferenceEnds
  <2>1. PICK out \in Ended : inference' = [inference EXCEPT !.out = out]
    BY <1>10 DEF InferenceEnds
  <2>2. inference' \in [id : Requests \cup {NoRequest}, out : Out]
        /\ (inference'.id = NoRequest <=> inference'.out = "none")
    BY <1>10, <2>1 DEF InferenceEnds, TypeOK, Out, Ended
  <2>3. QED BY <1>10, <2>2 DEF InferenceEnds, TypeOK
<1>11. CASE ChallengeEnds
  <2>1. PICK out \in Ended : challenge' = [challenge EXCEPT !.out = out]
    BY <1>11 DEF ChallengeEnds
  <2>2. QED BY <1>11, <2>1 DEF ChallengeEnds, TypeOK, Out, Ended
<1>12. CASE FilesChange BY <1>12 DEF FilesChange, TypeOK
<1>13. CASE SyncChanges BY <1>13 DEF SyncChanges, TypeOK
<1>14. CASE Reconnect
  <2>1. /\ queue' \in Seq(Requests) /\ Len(queue') = 0 /\ seen' \subseteq Requests
        /\ txids' \subseteq Paid /\ tracked' \subseteq Paid /\ answers' \in [Requests -> Nat]
    BY <1>14 DEF Reconnect
  <2>2. /\ inference' \in [id : Requests \cup {NoRequest}, out : Out]
        /\ inference'.id = NoRequest /\ inference'.out = "none"
        /\ challenge'.out \in Out /\ challenge'.active = (challenge'.out # "none")
    BY <1>14 DEF Reconnect, NoTask, NoChallenge, Out
  <2>3. /\ Len(queue') <= MaxQueue /\ asked' \in 0..MaxTemplates /\ fetches' \in 0..MaxFetches
        /\ reconnects' \in 0..MaxReconnects
    <3>1. Len(queue') <= MaxQueue BY <2>1
    <3>2. asked' = 0 /\ fetches' = 0 /\ reconnects' = reconnects + 1 /\ reconnects < MaxReconnects
      BY <1>14 DEF Reconnect
    <3>3. reconnects' \in 0..MaxReconnects BY <3>2 DEF TypeOK
    <3>4. QED BY <3>1, <3>2, <3>3
  <2>5. /\ pom' \in BOOLEAN /\ told' \in {"job", "none"}
        /\ {news', registered', synced'} \subseteq BOOLEAN
    BY <1>14 DEF Reconnect, TypeOK
  <2>4. UNCHANGED <<doing, todo, ready, issued>> BY <1>14 DEF Reconnect
  <2>6. QED BY <2>1, <2>2, <2>3, <2>4, <2>5 DEF TypeOK
<1>15. CASE UNCHANGED vars BY <1>15 DEF vars, TypeOK
<1>16. QED
  BY <1>1, <1>2, <1>3, <1>4, <1>5, <1>6, <1>7, <1>8, <1>9, <1>10, <1>11, <1>12, <1>13, <1>14,
     <1>15 DEF Next

LEMMA InitTypes == ASSUME Init PROVE TypeOK
<1>1. /\ queue \in Seq(Requests) /\ Len(queue) <= MaxQueue /\ seen \subseteq Requests
      /\ txids \subseteq Paid /\ tracked \subseteq Paid /\ answers \in [Requests -> Nat]
  BY Bounds DEF Init
<1>2. /\ inference \in [id : Requests \cup {NoRequest}, out : Out]
      /\ inference.id = NoRequest /\ inference.out = "none"
      /\ challenge.out \in Out /\ challenge.active = (challenge.out # "none")
  BY DEF Init, NoTask, NoChallenge, Out
<1>3. Models \ Fragile \subseteq ready /\ ready \subseteq Models BY DEF Init
<1>4. /\ asked \in 0..MaxTemplates /\ fetches \in 0..MaxFetches
      /\ issued \in 0..MaxChallenges /\ reconnects \in 0..MaxReconnects
  <2>1. asked = 0 /\ fetches = 0 /\ issued = 0 /\ reconnects = 0 BY DEF Init
  <2>2. QED BY <2>1, Bounds
<1>5. /\ pom \in BOOLEAN /\ told \in {"job", "none"} /\ todo \in Seq(Requests)
      /\ doing \in {"listen", "block", "template"}
      /\ {news, registered, synced} \subseteq BOOLEAN
  <2>1. todo \in Seq(Requests) BY DEF Init
  <2>2. /\ pom = FALSE /\ news = FALSE /\ registered = FALSE /\ synced = TRUE
        /\ told = "none" /\ doing = "listen"
    BY DEF Init
  <2>3. QED BY <2>1, <2>2
<1>6. QED BY <1>1, <1>2, <1>3, <1>4, <1>5 DEF TypeOK

\* The queue is bounded, at most one inference runs, and the flag opoi_challenge_active is
\* up exactly while a challenge is in flight.
THEOREM SoloTypeOK == Spec => []TypeOK
<1>1. Init => TypeOK BY InitTypes
<1>2. TypeOK /\ [Next]_vars => TypeOK' BY TypeStep
<1>3. QED BY <1>1, <1>2, PTL DEF Spec

\* A job is given to stopped mining threads by a template only, and only when no
\* inference is in flight after it (handle_message).
THEOREM SoloNoJobWhileInferring == Spec => NoJobWhileInferring
<1>1. ASSUME [Next]_vars, told = "none", told' = "job"
      PROVE  inference' = NoTask /\ challenge'.out = "none"
  <2>1. CASE EndTemplate BY <1>1, <2>1 DEF EndTemplate
  <2>2. CASE ~EndTemplate
    <3>1. told' = told \/ told' = "none"
      BY <1>1, <2>2
         DEF Next, vars, lists, node, wire, outcome, GetInfoResponse, Block, BareBlockAdded,
             BlockAdded, GetBlockResponse, ScanTx, EndBlock, NewBlockTemplate, Response,
             GetBlockTemplateResponse, Tick, InferenceEnds, ChallengeEnds, FilesChange,
             SyncChanges, Reconnect
    <3>2. QED BY <1>1, <3>1
  <2>3. QED BY <2>1, <2>2
<1>2. [Next]_vars
        => [told = "none" /\ told' = "job" => inference' = NoTask /\ challenge'.out = "none"]_vars
  BY <1>1
<1>3. QED BY <1>2, PTL DEF Spec, NoJobWhileInferring

-----------------------------------------------------------------------------
(* The life of a request, as long as the seen set is never cleared *)

NoEviction == IsFiniteSet(Requests) /\ Cardinality(Requests) <= MaxSeen

\* What is queued or in flight is known, once, and has its transaction recorded.
WorkKnown ==
    /\ Distinct(queue)
    /\ Range(queue) \subseteq seen
    /\ inference.id # NoRequest => inference.id \in seen /\ inference.id \notin Range(queue)
    /\ \A r \in Paid : r \in Range(queue) \/ inference.id = r => r \in txids

\* What is answered is over.
AnsweredIsOver ==
    \A r \in Requests : answers[r] > 0 => r \in seen /\ r \notin Range(queue) /\ inference.id # r

AnsweredOnce == \A r \in Requests : answers[r] <= 1

LInv ==
    /\ TypeOK
    /\ WorkKnown
    /\ AnsweredIsOver
    /\ AnsweredOnce
    /\ EscrowFollowsAnswer

LEMMA NothingForgotten ==
    ASSUME NoEviction, TypeOK, NEW r \in Requests, NEW q
    PROVE  Remember(r, q) = seen \cup {r}
<1> DEFINE s == seen \cup {r}
<1>1. s \subseteq Requests /\ IsFiniteSet(Requests) BY DEF TypeOK, NoEviction
<1>2. Cardinality(s) <= Cardinality(Requests) BY <1>1, FS_Subset
<1>3. Cardinality(s) \in Nat /\ Cardinality(Requests) \in Nat /\ MaxSeen \in Nat
  BY <1>1, FS_Subset, FS_CardinalityType, SoloAssumption
<1>4. ~(Cardinality(s) > MaxSeen) BY <1>2, <1>3 DEF NoEviction
<1>5. QED BY <1>4 DEF Remember

\* What a scan does to the lists.
LEMMA ScanEffect ==
    ASSUME NoEviction, LInv, ScanTx
    PROVE  /\ Distinct(queue') /\ Range(queue') \subseteq seen'
           /\ seen \subseteq seen' /\ txids \subseteq txids'
           /\ \A r \in Requests :
                 /\ r \in Range(queue') /\ r \notin Range(queue)
                       => r \notin seen /\ (r \in Paid => r \in txids')
                 /\ r \in seen' /\ r \notin seen => r \in Range(queue')
<1> DEFINE r == Head(todo)
<1>1. r \in Requests BY DEF ScanTx, LInv, TypeOK
<1>2. CASE UNCHANGED <<queue, seen>>
  BY <1>2 DEF ScanTx, lists, LInv, WorkKnown
<1>3. CASE ~UNCHANGED <<queue, seen>>
  <2>1. /\ r \notin seen /\ queue' = Enqueue(r) /\ seen' = Remember(r, queue')
        /\ txids' = txids \cup ({r} \cap Paid)
    BY <1>3 DEF ScanTx, lists
  <2>2. seen' = seen \cup {r} BY <1>1, <2>1, NothingForgotten DEF LInv
  <2>3. /\ queue \in Seq(Requests) /\ Len(queue) <= MaxQueue /\ Distinct(queue)
        /\ Range(queue) \subseteq seen
    BY DEF LInv, TypeOK, WorkKnown
  <2>4. /\ Distinct(queue') /\ r \in Range(queue')
        /\ Range(queue') \subseteq Range(queue) \cup {r}
    BY <1>1, <2>1, <2>3, Enqueued
  <2>5. QED BY <2>1, <2>2, <2>3, <2>4
<1>4. QED BY <1>2, <1>3

\* What starting an inference does.
LEMMA StartEffect ==
    ASSUME LInv, TryStart
    PROVE  \/ UNCHANGED <<queue, inference>>
           \/ \E h \in Requests :
                 /\ h \in Range(queue) /\ inference = NoTask
                 /\ Distinct(queue') /\ Range(queue') = Range(queue) \ {h}
                 /\ inference' = [id |-> h, out |-> "running"] \/ inference' = inference
<1>1. CASE inference # NoTask \/ queue = <<>> BY <1>1 DEF TryStart
<1>2. CASE inference = NoTask /\ queue # <<>>
  <2>1. queue \in Seq(Requests) /\ Distinct(queue) BY DEF LInv, TypeOK, WorkKnown
  <2>2. /\ Distinct(Tail(queue)) /\ Head(queue) \in Range(queue)
        /\ Range(Tail(queue)) = Range(queue) \ {Head(queue)}
    BY <1>2, <2>1, HeadLeaves
  <2>3. Head(queue) \in Requests BY <2>1, <2>2, Members
  <2>4. /\ queue' = Tail(queue)
        /\ inference' = [id |-> Head(queue), out |-> "running"] \/ inference' = inference
    BY <1>2 DEF TryStart
  <2>5. QED BY <1>2, <2>2, <2>3, <2>4
<1>3. QED BY <1>1, <1>2

\* What the end of an inference does.
LEMMA PollEffect ==
    ASSUME LInv, PollInference
    PROVE  /\ inference.id \in Requests /\ inference' = NoTask
           /\ \/ UNCHANGED <<answers, tracked, txids>>
              \/ /\ answers' = [answers EXCEPT ![inference.id] = @ + 1]
                 /\ answers[inference.id] = 0
                 /\ tracked' = tracked \cup ({inference.id} \cap txids)
                 /\ txids' = txids \ {inference.id}
<1>1. inference.id \in Requests BY DEF LInv, TypeOK, PollInference, Ended
<1>2. answers[inference.id] = 0
  BY <1>1 DEF LInv, TypeOK, AnsweredIsOver
<1>3. QED BY <1>1, <1>2 DEF PollInference

\* Every step is one of these.
LEMMA LifeSteps ==
    ASSUME [Next]_vars
    PROVE  \/ UNCHANGED <<lists, outcome>> /\ inference'.id = inference.id
           \/ ScanTx
           \/ TryStart /\ UNCHANGED <<seen, txids, outcome>>
           \/ PollInference /\ UNCHANGED <<queue, seen>>
           \/ Reconnect
<1> USE DEF lists, node, wire, outcome
<1>1. CASE InferenceEnds BY <1>1 DEF InferenceEnds
<1>2. CASE EndBlock BY <1>2 DEF EndBlock
<1>3. CASE EndTemplate BY <1>3 DEF EndTemplate
<1>4. CASE Response BY <1>4 DEF Response, GetBlockTemplateResponse
<1>5. CASE Tick BY <1>5 DEF Tick
<1>6. CASE GetInfoResponse \/ Block \/ GetBlockResponse \/ NewBlockTemplate
  BY <1>6 DEF GetInfoResponse, Block, BareBlockAdded, BlockAdded, GetBlockResponse,
              NewBlockTemplate
<1>7. CASE ChallengeEnds \/ FilesChange \/ SyncChanges
  BY <1>7 DEF ChallengeEnds, FilesChange, SyncChanges
<1>8. CASE UNCHANGED vars BY <1>8 DEF vars
<1>9. QED BY <1>1, <1>2, <1>3, <1>4, <1>5, <1>6, <1>7, <1>8 DEF Next
LEMMA LifeInit == ASSUME Init PROVE LInv
<1>1. TypeOK BY InitTypes
<1>2. WorkKnown
  <2>1. Distinct(<<>>) /\ Range(<<>>) = {} BY DEF Distinct, Range
  <2>2. QED BY <2>1, SoloAssumption DEF Init, WorkKnown, NoTask
<1>3. AnsweredIsOver /\ AnsweredOnce /\ EscrowFollowsAnswer
  BY SoloAssumption DEF Init, AnsweredIsOver, AnsweredOnce, EscrowFollowsAnswer
<1>4. QED BY <1>1, <1>2, <1>3 DEF LInv

LEMMA LifeStep == ASSUME NoEviction, LInv, [Next]_vars PROVE LInv'
<1> USE DEF WorkKnown, AnsweredIsOver, AnsweredOnce, EscrowFollowsAnswer
<1>0. TypeOK' BY TypeStep DEF LInv
<1>p. Paid \subseteq Requests /\ NoRequest \notin Requests /\ answers \in [Requests -> Nat]
  BY SoloAssumption DEF LInv, TypeOK
<1>1. CASE UNCHANGED <<lists, outcome>> /\ inference'.id = inference.id
  BY <1>0, <1>1 DEF LInv, lists, outcome
<1>2. CASE ScanTx
  <2>1. UNCHANGED <<inference, answers, tracked>> BY <1>2 DEF ScanTx, outcome
  <2>2. /\ Distinct(queue') /\ Range(queue') \subseteq seen'
        /\ seen \subseteq seen' /\ txids \subseteq txids'
        /\ \A r \in Requests : r \in Range(queue') /\ r \notin Range(queue)
                                  => r \notin seen /\ (r \in Paid => r \in txids')
    BY <1>2, ScanEffect
  <2>3. inference.id # NoRequest => inference.id \in Requests BY DEF LInv, TypeOK
  <2>4. WorkKnown' BY <1>p, <2>1, <2>2, <2>3 DEF LInv
  <2>5. AnsweredIsOver' BY <2>1, <2>2 DEF LInv
  <2>6. AnsweredOnce' /\ EscrowFollowsAnswer' BY <2>1 DEF LInv
  <2>7. QED BY <1>0, <2>4, <2>5, <2>6 DEF LInv
<1>3. CASE TryStart /\ UNCHANGED <<seen, txids, outcome>>
  <2>1. CASE UNCHANGED <<queue, inference>> BY <1>0, <1>3, <2>1 DEF LInv, outcome
  <2>2. CASE ~UNCHANGED <<queue, inference>>
    <3>1. PICK h \in Requests :
            /\ h \in Range(queue) /\ inference = NoTask
            /\ Distinct(queue') /\ Range(queue') = Range(queue) \ {h}
            /\ inference' = [id |-> h, out |-> "running"] \/ inference' = inference
      BY <1>3, <2>2, StartEffect
    <3>2. inference'.id = h \/ inference'.id = NoRequest BY <3>1 DEF NoTask
    <3>3. WorkKnown' BY <1>3, <1>p, <3>1, <3>2 DEF LInv
    <3>4. AnsweredIsOver' BY <1>3, <1>p, <3>1, <3>2 DEF LInv, outcome
    <3>5. AnsweredOnce' /\ EscrowFollowsAnswer' BY <1>3 DEF LInv, outcome
    <3>6. QED BY <1>0, <3>3, <3>4, <3>5 DEF LInv
  <2>3. QED BY <2>1, <2>2
<1>4. CASE PollInference /\ UNCHANGED <<queue, seen>>
  <2>1. inference.id \in Requests /\ inference'.id = NoRequest
    BY <1>4, PollEffect DEF NoTask
  <2>2. CASE UNCHANGED <<answers, tracked, txids>>
    BY <1>0, <1>4, <1>p, <2>1, <2>2 DEF LInv
  <2>3. CASE /\ answers' = [answers EXCEPT ![inference.id] = @ + 1]
             /\ answers[inference.id] = 0
             /\ tracked' = tracked \cup ({inference.id} \cap txids)
             /\ txids' = txids \ {inference.id}
    <3>1. /\ answers'[inference.id] = 1
          /\ \A r \in Requests : r # inference.id => answers'[r] = answers[r]
      BY <1>p, <2>1, <2>3
    <3>2. WorkKnown' BY <1>4, <1>p, <2>1, <2>3 DEF LInv
    <3>3. AnsweredIsOver' BY <1>4, <1>p, <2>1, <3>1 DEF LInv
    <3>4. AnsweredOnce' BY <3>1 DEF LInv
    <3>5. EscrowFollowsAnswer' BY <1>p, <2>3, <3>1 DEF LInv
    <3>6. QED BY <1>0, <3>2, <3>3, <3>4, <3>5 DEF LInv
  <2>4. QED BY <1>4, <2>2, <2>3, PollEffect
<1>5. CASE Reconnect
  <2>1. /\ queue' = <<>> /\ seen' = {} /\ txids' = {} /\ inference'.id = NoRequest
        /\ \A r \in Requests : answers'[r] = 0
    BY <1>5 DEF Reconnect, NoTask
  <2>2. Distinct(queue') /\ Range(queue') = {} BY <2>1 DEF Distinct, Range
  <2>3. QED BY <1>0, <1>p, <2>1, <2>2 DEF LInv
<1>6. QED BY <1>1, <1>2, <1>3, <1>4, <1>5, LifeSteps

\* Every paying answer has its escrow tracked, wherever its request was found
\* (scan_txs_for_ai_requests, poll_inference).
THEOREM SoloEscrowFollows ==
    ASSUME NoEviction
    PROVE  Spec => []EscrowFollowsAnswer
<1>1. LInv => EscrowFollowsAnswer BY DEF LInv
<1>2. Init => LInv BY LifeInit
<1>3. LInv /\ [Next]_vars => LInv' BY LifeStep
<1>4. QED BY <1>1, <1>2, <1>3, PTL DEF Spec

LEMMA LifeStages ==
    ASSUME LInv
    PROVE  /\ Life \in [Requests -> 0..3]
           /\ \A r \in Requests :
                 /\ Life[r] = 2 <=> inference.id = r
                 /\ Life[r] = 1 <=> r \in Range(queue)
                 /\ Life[r] = 3 <=> r \in seen /\ r \notin Range(queue) /\ inference.id # r
                 /\ Life[r] = 0 <=> r \notin seen
BY SoloAssumption DEF LInv, WorkKnown, Life

LEMMA LifeStagesNext ==
    ASSUME LInv'
    PROVE  /\ Life' \in [Requests -> 0..3]
           /\ \A r \in Requests :
                 /\ Life'[r] = 2 <=> inference'.id = r
                 /\ Life'[r] = 1 <=> r \in Range(queue')
                 /\ Life'[r] = 3 <=> r \in seen' /\ r \notin Range(queue') /\ inference'.id # r
                 /\ Life'[r] = 0 <=> r \notin seen'
BY SoloAssumption DEF LInv, WorkKnown, Life

LEMMA Advances ==
    ASSUME LInv, LInv',
           \A r \in Requests : Life[r] <= Life'[r],
           \A r \in Requests :
              \/ answers'[r] = answers[r]
              \/ answers'[r] = answers[r] + 1 /\ Life[r] = 2 /\ Life'[r] = 3
    PROVE  Requested!Advance
<1>1. Life' \in [Requests -> 0..3] /\ \A r \in Requests : Life'[r] = 2 <=> inference'.id = r
  BY LifeStagesNext
<1>2. answers' \in [Requests -> Nat] BY DEF LInv, TypeOK
<1>3. QED BY <1>1, <1>2 DEF Requested!Advance

LEMMA RequestedStep ==
    ASSUME NoEviction, LInv, [Next]_vars
    PROVE  [Requested!Next]_<<Life, answers>>
<1>0. LInv' BY LifeStep
<1>1. CASE UNCHANGED <<lists, outcome>> /\ inference'.id = inference.id
  BY <1>1 DEF Life, lists, outcome
<1>2. CASE ScanTx
  <2>1. UNCHANGED <<inference, answers>> BY <1>2 DEF ScanTx, outcome
  <2>2. /\ Range(queue') \subseteq seen' /\ seen \subseteq seen'
        /\ \A r \in Requests :
              /\ r \in Range(queue') /\ r \notin Range(queue) => r \notin seen
              /\ r \in seen' /\ r \notin seen => r \in Range(queue')
    BY <1>2, ScanEffect
  <2>3. ASSUME NEW r \in Requests PROVE Life[r] <= Life'[r]
    <3>1. Life[r] \in 0..3 /\ Life'[r] \in 0..3 BY <1>0, LifeStages, LifeStagesNext
    <3>2. CASE r \notin seen
      <4>1. Life[r] = 0 BY <3>2, LifeStages
      <4>2. QED BY <3>1, <4>1
    <3>3. CASE inference.id = r
      <4>1. Life[r] = 2 /\ Life'[r] = 2 BY <1>0, <2>1, <3>3, LifeStages, LifeStagesNext
      <4>2. QED BY <4>1
    <3>4. CASE r \in Range(queue)
      <4>1. Life[r] = 1 /\ r \in seen' BY <2>2, <3>4, LifeStages DEF LInv, WorkKnown
      <4>2. Life'[r] # 0 BY <1>0, <4>1, LifeStagesNext
      <4>3. QED BY <3>1, <4>1, <4>2
    <3>5. CASE r \in seen /\ inference.id # r /\ r \notin Range(queue)
      <4>1. r \in seen' /\ inference'.id # r /\ r \notin Range(queue') BY <2>1, <2>2, <3>5
      <4>2. Life[r] = 3 /\ Life'[r] = 3 BY <1>0, <3>5, <4>1, LifeStages, LifeStagesNext
      <4>3. QED BY <4>2
    <3>6. QED BY <3>2, <3>3, <3>4, <3>5
  <2>4. Requested!Advance BY <1>0, <2>1, <2>3, Advances
  <2>5. QED BY <2>4 DEF Requested!Next
<1>3. CASE TryStart /\ UNCHANGED <<seen, txids, outcome>>
  <2>1. CASE UNCHANGED <<queue, inference>> BY <1>3, <2>1 DEF Life, outcome
  <2>2. CASE ~UNCHANGED <<queue, inference>>
    <3>1. PICK h \in Requests :
            /\ h \in Range(queue) /\ inference = NoTask
            /\ Range(queue') = Range(queue) \ {h}
            /\ inference' = [id |-> h, out |-> "running"] \/ inference' = inference
      BY <1>3, <2>2, StartEffect
    <3>2. inference.id = NoRequest /\ (inference'.id = h \/ inference'.id = NoRequest)
      BY <3>1 DEF NoTask
    <3>3. NoRequest \notin Requests /\ h \in seen BY <3>1, Bounds DEF LInv, WorkKnown
    <3>4. ASSUME NEW r \in Requests PROVE Life[r] <= Life'[r]
      <4>1. Life[r] \in 0..3 /\ Life'[r] \in 0..3 BY <1>0, LifeStages, LifeStagesNext
      <4>2. CASE r = h
        <5>1. Life[r] = 1 BY <3>1, <4>2, LifeStages
        <5>2. Life'[r] # 0 BY <1>0, <1>3, <3>3, <4>2, LifeStagesNext
        <5>3. QED BY <4>1, <5>1, <5>2
      <4>3. CASE r # h
        <5>1. inference.id # r /\ inference'.id # r /\ (r \in Range(queue') <=> r \in Range(queue))
          BY <3>1, <3>2, <3>3, <4>3
        <5>2. Life'[r] = Life[r]
          BY <1>0, <1>3, <4>1, <5>1, LifeStages, LifeStagesNext
        <5>3. QED BY <4>1, <5>2
      <4>4. QED BY <4>2, <4>3
    <3>5. Requested!Advance BY <1>0, <1>3, <3>4, Advances DEF outcome
    <3>6. QED BY <3>5 DEF Requested!Next
  <2>3. QED BY <2>1, <2>2
<1>4. CASE PollInference /\ UNCHANGED <<queue, seen>>
  <2>1. inference.id \in Requests /\ inference'.id = NoRequest /\ NoRequest \notin Requests
    BY <1>4, PollEffect, Bounds DEF NoTask
  <2>2. Life[inference.id] = 2 /\ Life'[inference.id] = 3
    <3>1. inference.id \in seen' /\ inference.id \notin Range(queue')
      BY <1>4, <2>1 DEF LInv, WorkKnown
    <3>2. QED BY <1>0, <2>1, <3>1, LifeStages, LifeStagesNext
  <2>3. \A r \in Requests : Life[r] \in 0..3 /\ Life'[r] \in 0..3
    BY <1>0, LifeStages, LifeStagesNext
  <2>4. \A r \in Requests : r # inference.id => Life'[r] = Life[r]
    BY <1>0, <1>4, <2>1, <2>3, LifeStages, LifeStagesNext
  <2>5. \A r \in Requests : Life[r] <= Life'[r] BY <2>2, <2>3, <2>4
  <2>6. \A r \in Requests :
           \/ answers'[r] = answers[r]
           \/ answers'[r] = answers[r] + 1 /\ Life[r] = 2 /\ Life'[r] = 3
    <3>1. CASE UNCHANGED answers BY <3>1
    <3>2. CASE answers' = [answers EXCEPT ![inference.id] = @ + 1]
      BY <2>1, <2>2, <3>2 DEF LInv, TypeOK
    <3>3. QED BY <1>4, <3>1, <3>2, PollEffect
  <2>7. Requested!Advance BY <1>0, <2>5, <2>6, Advances
  <2>8. QED BY <2>7 DEF Requested!Next
<1>5. CASE Reconnect
  <2>1. seen' = {} /\ answers' = [r \in Requests |-> 0] BY <1>5 DEF Reconnect
  <2>2. \A r \in Requests : Life'[r] = 0 BY <1>0, <2>1, LifeStagesNext
  <2>3. Life' = [r \in Requests |-> 0] BY <1>0, <2>2, LifeStagesNext
  <2>4. QED BY <2>1, <2>3 DEF Requested!Next, Requested!Reconnect
<1>6. QED BY <1>1, <1>2, <1>3, <1>4, <1>5, LifeSteps

\* Over a connection each request is taken in once, run alone, and answered at most
\* once (scan_txs_for_ai_requests, try_start_inference, poll_inference).
THEOREM SoloImplementsRequestLife ==
    ASSUME NoEviction
    PROVE  Spec => LifeFollowed
<1>1. ASSUME Init PROVE Requested!Init
  <2>1. LInv /\ seen = {} BY <1>1, LifeInit DEF Init
  <2>2. \A r \in Requests : Life[r] = 0 BY <2>1, LifeStages
  <2>3. Life = [r \in Requests |-> 0] BY <2>1, <2>2, LifeStages
  <2>4. QED BY <1>1, <2>3 DEF Init, Requested!Init
<1>2. Init => LInv BY LifeInit
<1>3. LInv /\ [Next]_vars => LInv' BY LifeStep
<1>4. LInv /\ [Next]_vars => [Requested!Next]_<<Life, answers>> BY RequestedStep
<1>5. QED BY <1>1, <1>2, <1>3, <1>4, PTL DEF Spec, LifeFollowed, Requested!Spec
=============================================================================
