------------------------------- MODULE Escrow -------------------------------
(***************************************************************************)
(* The escrow auto-claim module of the miner (src/src/escrow.rs), with the *)
(* part of the gRPC client that drives it (src/src/client/grpc.rs) and the *)
(* node at the other end of the stream.                                    *)
(*                                                                         *)
(* The watcher scans every block the node announces for coinbase outputs   *)
(* locked to the miner's escrow script, waits for the CSV window to pass,  *)
(* submits one claim transaction at a time and reads the node's answer.    *)
(* What it tracks is written to a state file now and then; every           *)
(* reconnection builds a new watcher from that file.                       *)
(*                                                                         *)
(* Data: an escrow output (txid, output_index) is an outpoint; which block *)
(* holds it, and whether it is an inference escrow, follow from the        *)
(* outpoint.  Keys, scripts, sighashes and addresses are left out.         *)
(***************************************************************************)
EXTENDS Integers, Sequences, FiniteSets

CONSTANTS
    Blocks,          \* blocks whose coinbase pays this miner's escrow script
    Requests,        \* outputs[1] of the AiRequests this miner may answer
    Outputs,         \* Outputs[b]: the escrow outputs of b's coinbase, in order
    Dust,            \* outpoints whose amount does not exceed CLAIM_FEE_SOMPI
    Carried,         \* outpoints the state file of the previous session lists
    Plain,           \* a block that pays this miner nothing
    AiTx,            \* an AiResponse transaction on the wire
    NoClaim,         \* pending_claim_txid = None
    Window,          \* CHALLENGE_WINDOW_BLOCKS
    Margin,          \* the + 10 of find_claim
    NodeLag,         \* how far the node's blue score may trail the DAA score
    BlockLag,        \* how far behind the tip an announced block may be
    OrphanCooldown,  \* ORPHAN_RETRY_COOLDOWN_BLOCKS
    SeqLockCooldown, \* SEQ_LOCK_RETRY_COOLDOWN_BLOCKS
    MaxOrphanRetries,\* MAX_ORPHAN_RETRIES
    CompactEvery,    \* COMPACT_EVERY_BLOCKS
    MaxScore,        \* bound: DAA scores saturate here
    MaxWire,         \* bound: an AiResponse is sent while fewer are on the wire
    MaxRestarts,     \* bound: reconnections and process restarts
    Saves            \* bound: the outcomes considered for a save of the state file

Coinbases == UNION {{Outputs[b][k] : k \in DOMAIN Outputs[b]} : b \in Blocks}
Outpoints == Coinbases \cup Requests

ASSUME DataAssumption ==
    /\ Outputs \in [Blocks -> Seq(Coinbases)]
    /\ \A b, c \in Blocks : \A j \in DOMAIN Outputs[b] : \A k \in DOMAIN Outputs[c] :
          Outputs[b][j] = Outputs[c][k] => b = c /\ j = k
    /\ Coinbases \cap Requests = {}
    /\ IsFiniteSet(Coinbases)
    /\ Dust \subseteq Outpoints
    /\ Carried \in Seq(Outpoints)
    /\ \A j, k \in DOMAIN Carried : Carried[j] = Carried[k] => j = k
    /\ Plain \notin Blocks
    /\ AiTx \notin Outpoints
    /\ NoClaim \notin Outpoints

ASSUME ParameterAssumption ==
    /\ {Window, Margin, NodeLag, BlockLag, OrphanCooldown, SeqLockCooldown} \subseteq Nat
    /\ {MaxOrphanRetries, CompactEvery, MaxScore} \subseteq Nat \ {0}
    /\ {MaxWire, MaxRestarts} \subseteq Nat
    /\ "skip" \in Saves /\ Saves \subseteq {"skip", "saved", "failed", "torn"}

VARIABLES
    \* the watcher, in memory
    entries,              \* state.entries
    outpoint_set,         \* outpoints tracked, for dedup
    block_index,          \* block -> positions in entries
    pending,              \* pending_claim_txid and pending_claim_output_index
    last_daa_score,
    blocks_since_compact,
    dirty,
    \* the state file
    disk,
    \* the stream, in submission order: transactions not yet judged, then answers
    submits,
    replies,
    \* the node
    chain_daa,            \* DAA score of the tip
    born,                 \* score at which an outpoint was confirmed, 0 before
    red,                  \* blocks in the red set
    spent,                \* outpoints whose claim the node accepted
    restarts              \* reconnections so far

memory == <<entries, outpoint_set, block_index, dirty>>
watcher == <<memory, pending, last_daa_score, blocks_since_compact>>
wire == <<submits, replies>>
node == <<chain_daa, born, red, spent>>
vars == <<watcher, disk, wire, node, restarts>>

-----------------------------------------------------------------------------
(* Entries *)

NewEntry(o, d) == [o |-> o, confirm |-> d, claimed |-> FALSE, slashed |-> FALSE,
                   retries |-> 0, retry_after |-> 0]

\* What compact drops and find_claim skips.
Done(e) == e.claimed \/ e.slashed

\* The block that holds an outpoint; an inference escrow has block_hash "".
InBlock(o, b) == \E k \in DOMAIN Outputs[b] : Outputs[b][k] = o

Tracked(es) == {es[i].o : i \in DOMAIN es}

\* rebuild_indexes: the two lookup tables that a list of entries determines.
IndexOf(es) == [b \in Blocks |-> {i \in DOMAIN es : InBlock(es[i].o, b)}]

\* The ways to list the positions K of a sequence in order: there is one.
Picks(K) ==
    {f \in [1..Cardinality(K) -> K] :
        /\ \A j, k \in DOMAIN f : j < k => f[j] < f[k]
        /\ \A p \in K : \E k \in DOMAIN f : f[k] = p}

\* A score some blocks later; scores saturate at MaxScore.
Later(d, n) == IF d + n > MaxScore THEN MaxScore ELSE d + n

-----------------------------------------------------------------------------
(* Persistence.  A write replaces the file in place, so one that is cut    *)
(* short leaves a file that load_state cannot parse and takes as empty.    *)

\* Faulty variant: dirty is reset even when the debounce skips the write.
MaybeFlushForgetful(es, unsaved, how) ==
    /\ dirty' = FALSE
    /\ how \in {"skip", "saved"}
    /\ disk' = IF how = "saved" /\ unsaved THEN es ELSE disk

\* maybe_flush after the entries became es: "skip" is the debounce, and dirty
\* is cleared whether or not the write succeeded.
MaybeFlush(es, unsaved, how) ==
    IF unsaved /\ how # "skip"
    THEN /\ dirty' = FALSE
         /\ disk' = CASE how = "saved" -> es
                      [] how = "failed" -> disk
                      [] how = "torn" -> <<>>
    ELSE dirty' = unsaved /\ how = "skip" /\ UNCHANGED disk

\* EscrowWatcher::new with load_state: a watcher built from the file.
LoadFrom(es) ==
    /\ entries' = es
    /\ outpoint_set' = Tracked(es)
    /\ block_index' = IndexOf(es)
    /\ pending' = NoClaim
    /\ last_daa_score' = 0
    /\ blocks_since_compact' = 0
    /\ dirty' = FALSE

-----------------------------------------------------------------------------
(* Claiming *)

\* Faulty variant: the margin over the CSV window counts, the window does not.
EligibleEarly(e, d) == ~Done(e) /\ d >= Later(e.confirm, Margin) /\ d >= e.retry_after

Eligible(e, d) ==
    /\ ~Done(e)
    /\ d >= Later(e.confirm, Window + Margin)
    /\ d >= e.retry_after

\* Inference escrows go first, then coinbase escrows, each in list order.
Due(es, d) == {i \in DOMAIN es : Eligible(es[i], d)}
DueInference(es, d) == {i \in Due(es, d) : es[i].o \in Requests}
Preferred(es, d) == IF DueInference(es, d) # {} THEN DueInference(es, d) ELSE Due(es, d)
FirstDue(es, d) == {i \in Preferred(es, d) : \A j \in Preferred(es, d) : i <= j}

\* find_claim, and the client that submits what it returns.  An entry too
\* small to pay the fee makes build_claim_tx fail, which leaves it as it is.
FindClaim(es, d) ==
    IF pending = NoClaim /\ \E i \in FirstDue(es, d) : es[i].o \notin Dust
    THEN \E i \in FirstDue(es, d) :
            /\ pending' = es[i].o
            /\ submits' = Append(submits, es[i].o)
    ELSE UNCHANGED <<pending, submits>>

-----------------------------------------------------------------------------
(* handle_block: the node announces block b, with DAA score d, whose       *)
(* mergeset puts the blocks reds in the red set.  The periodic compaction, *)
(* the red-set slashing, the scan for new outputs, the search for a claim  *)
(* and the debounced save are one call.  Bare is a block without a         *)
(* readable coinbase: the code returns before the search and the save.     *)

OutputsOf(b) == IF b \in Blocks THEN Outputs[b] ELSE <<>>

CompactionDue == blocks_since_compact + 1 >= CompactEvery

\* compact: the positions that stay.
Live == IF CompactionDue THEN {i \in DOMAIN entries : ~Done(entries[i])} ELSE DOMAIN entries

Slash(es, hit) ==
    [i \in DOMAIN es |->
        IF i \in hit /\ ~Done(es[i]) THEN [es[i] EXCEPT !.slashed = TRUE] ELSE es[i]]

\* The handler once the entries are compacted to kept, set and index.
Scan(kept, set, index, unsaved, b, d, reds, bare, how) ==
    \E g \in Picks({k \in DOMAIN OutputsOf(b) : OutputsOf(b)[k] \notin set}) :
        LET slashed == Slash(kept, UNION {index[r] : r \in reds})
            fresh == [k \in DOMAIN g |-> NewEntry(OutputsOf(b)[g[k]], d)]
            after == slashed \o fresh
            changed == unsaved \/ slashed # kept \/ fresh # <<>>
        IN /\ entries' = after
           /\ outpoint_set' = set \cup Tracked(fresh)
           /\ block_index' = [c \in Blocks |->
                 IF c = b THEN index[c] \cup (Len(slashed) + 1)..Len(after) ELSE index[c]]
           /\ IF bare THEN dirty' = changed /\ UNCHANGED <<disk, pending, submits>>
                      ELSE FindClaim(after, d) /\ MaybeFlush(after, changed, how)

\* compact rebuilds the lookup tables, but only if it dropped an entry.
ScanBlock(b, d, reds, bare, how) ==
    IF Live = DOMAIN entries
    THEN Scan(entries, outpoint_set, block_index, dirty, b, d, reds, bare, how)
    ELSE \E f \in Picks(Live) :
            LET kept == [k \in DOMAIN f |-> entries[f[k]]]
            IN Scan(kept, Tracked(kept), IndexOf(kept), TRUE, b, d, reds, bare, how)

HandleBlock(b, d, reds, bare, how) ==
    \* the node announces a block once, no block matures before it is blue
    /\ \A k \in DOMAIN OutputsOf(b) : born[OutputsOf(b)[k]] = 0
    /\ \A r \in reds : r # b /\ \A o \in spent : ~InBlock(o, r)
    /\ chain_daa <= d + BlockLag
    /\ ScanBlock(b, d, reds, bare, how)
    /\ last_daa_score' = d
    /\ blocks_since_compact' = IF CompactionDue THEN 0 ELSE blocks_since_compact + 1
    /\ chain_daa' = IF d > chain_daa THEN d ELSE chain_daa
    /\ born' = [o \in Outpoints |-> IF b \in Blocks /\ InBlock(o, b) THEN d ELSE born[o]]
    /\ red' = red \cup reds
    /\ UNCHANGED <<spent, replies, restarts>>

\* A block announced by the node: one score past the tip at most.
BlockAdded ==
    \E d \in 1..Later(chain_daa, 1), reds \in SUBSET Blocks, how \in Saves :
        \/ \E b \in Blocks \cup {Plain} : HandleBlock(b, d, reds, FALSE, how)
        \/ HandleBlock(Plain, d, reds, TRUE, "skip")

-----------------------------------------------------------------------------
(* The node judges submissions in order.                                   *)

InRed(o) == \E b \in red : InBlock(o, b)

\* A claim the node knows spent, off the selected chain or not there yet is turned
\* down; otherwise the CSV window decides, on a blue score that may trail.
Verdicts(t) ==
    CASE t = AiTx -> {"ok", "rejected"}
      [] t \in spent -> {"rejected", "orphan"}
      [] t # AiTx /\ t \notin spent /\ (InRed(t) \/ born[t] = 0) -> {"orphan"}
      [] OTHER -> {"orphan"}
            \cup {v \in {"ok"} : chain_daa >= Later(born[t], Window)}
            \cup {v \in {"sequence lock"} : chain_daa < Later(born[t], Window + NodeLag)}

NodeAnswer ==
    /\ submits # <<>>
    /\ \E v \in Verdicts(Head(submits)) :
        /\ replies' = Append(replies, v)
        /\ spent' = IF v = "ok" /\ Head(submits) # AiTx THEN spent \cup {Head(submits)} ELSE spent
    /\ submits' = Tail(submits)
    /\ UNCHANGED <<watcher, disk, chain_daa, born, red, restarts>>

-----------------------------------------------------------------------------
(* The SubmitTransactionResponse arm of handle_message with                *)
(* on_submit_response: whatever transaction the answer is about, it is     *)
(* taken as the answer to the pending claim when there is one.             *)

\* Faulty variants: a later retry answer revives a slashed entry; every answer but
\* a rejection is taken for an acceptance; every rejection is final.
AnsweredReviving(e, v) ==
    CASE v = "ok" -> [e EXCEPT !.claimed = TRUE]
      [] v = "rejected" -> [e EXCEPT !.slashed = TRUE]
      [] v \in {"orphan", "sequence lock"} ->
            [e EXCEPT !.slashed = FALSE, !.retry_after = Later(last_daa_score, OrphanCooldown)]

AnsweredTrusting(e, v) ==
    IF v = "rejected" THEN [e EXCEPT !.slashed = TRUE] ELSE [e EXCEPT !.claimed = TRUE]

AnsweredImpatient(e, v) ==
    IF v = "ok" THEN [e EXCEPT !.claimed = TRUE] ELSE [e EXCEPT !.slashed = TRUE]

Answered(e, v) ==
    CASE v = "ok" -> [e EXCEPT !.claimed = TRUE]
      [] v = "sequence lock" -> [e EXCEPT !.retry_after = Later(last_daa_score, SeqLockCooldown)]
      [] v = "rejected" -> [e EXCEPT !.slashed = TRUE]
      [] v = "orphan" /\ e.retries + 1 >= MaxOrphanRetries ->
            [e EXCEPT !.retries = @ + 1, !.slashed = TRUE]
      [] v = "orphan" /\ e.retries + 1 < MaxOrphanRetries ->
            [e EXCEPT !.retries = @ + 1, !.retry_after = Later(last_daa_score, OrphanCooldown)]

\* Faulty variant: a claim to be retried stays the pending one.
OnSubmitResponseKeeping(v, how) ==
    LET after == [i \in DOMAIN entries |->
                    IF entries[i].o = pending THEN Answered(entries[i], v) ELSE entries[i]]
    IN /\ entries' = after
       /\ pending' = IF v \in {"orphan", "sequence lock"} THEN pending ELSE NoClaim
       /\ MaybeFlush(after, TRUE, how)
       /\ UNCHANGED <<outpoint_set, block_index>>

OnSubmitResponse(v, how) ==
    LET after == [i \in DOMAIN entries |->
                    IF entries[i].o = pending THEN Answered(entries[i], v) ELSE entries[i]]
    IN /\ entries' = after
       /\ pending' = NoClaim
       /\ MaybeFlush(after, TRUE, how)
       /\ UNCHANGED <<outpoint_set, block_index>>

HandleReply(how) ==
    /\ replies # <<>>
    /\ replies' = Tail(replies)
    /\ \/ pending # NoClaim /\ OnSubmitResponse(Head(replies), how)
       \/ pending = NoClaim /\ how = "skip" /\ UNCHANGED <<memory, pending, disk>>
    /\ UNCHANGED <<last_daa_score, blocks_since_compact, submits, node, restarts>>

-----------------------------------------------------------------------------
(* The end of poll_inference: the AiResponse is submitted, and             *)
(* track_inference_escrow records the request's escrow, if it has one.     *)

\* Faulty variant: the new escrow is not entered in the dedup set.
TrackInferenceEscrowTwice(q, d, how) ==
    IF q \in Requests /\ q \notin outpoint_set
    THEN /\ entries' = Append(entries, NewEntry(q, d))
         /\ UNCHANGED <<outpoint_set, block_index>>
         /\ MaybeFlush(entries', TRUE, how)
    ELSE how = "skip" /\ UNCHANGED <<memory, disk>>

TrackInferenceEscrow(q, d, how) ==
    IF q \in Requests /\ q \notin outpoint_set
    THEN /\ entries' = Append(entries, NewEntry(q, d))
         /\ outpoint_set' = outpoint_set \cup {q}
         /\ UNCHANGED block_index
         /\ MaybeFlush(entries', TRUE, how)
    ELSE how = "skip" /\ UNCHANGED <<memory, disk>>

\* d is last_known_daa, the highest score of a template on this connection: 0 before
\* the first one, and not the score at which the request is confirmed.
AnswerInference(q, d, how) ==
    /\ Len(submits) + Len(replies) < MaxWire
    /\ d <= chain_daa
    /\ submits' = Append(submits, AiTx)
    /\ TrackInferenceEscrow(q, d, how)
    /\ UNCHANGED <<pending, last_daa_score, blocks_since_compact, replies, node, restarts>>

\* A request seen in a template is confirmed later, before or after its answer.
RequestMined ==
    /\ \E q \in Requests : born[q] = 0 /\ born' = [born EXCEPT ![q] = chain_daa]
    /\ UNCHANGED <<watcher, disk, wire, chain_daa, red, spent, restarts>>

-----------------------------------------------------------------------------
(* A lost stream, or the process stopping at any point: what is on the     *)
(* wire is gone and a new watcher starts from the file.                    *)

Reconnect ==
    /\ restarts < MaxRestarts
    /\ restarts' = restarts + 1
    /\ LoadFrom(disk)
    /\ submits' = <<>> /\ replies' = <<>>
    /\ UNCHANGED <<disk, node>>

\* --recover-escrow, run between two sessions: the file is rewritten with the
\* coinbase escrows the public API lists as claimable, in the API's order.
Claimable == {o \in Coinbases : born[o] > 0 /\ o \notin spent /\ ~InRed(o)}

Orders(S) == {f \in [1..Cardinality(S) -> S] : \A j, k \in DOMAIN f : f[j] = f[k] => j = k}

Recover ==
    /\ restarts < MaxRestarts
    /\ restarts' = restarts + 1
    /\ \E f \in Orders(Claimable) :
        LET recovered == [k \in DOMAIN f |-> NewEntry(f[k], born[f[k]])]
        IN disk' = recovered /\ LoadFrom(recovered)
    /\ submits' = <<>> /\ replies' = <<>>
    /\ UNCHANGED node

-----------------------------------------------------------------------------

Init ==
    /\ disk = [k \in DOMAIN Carried |-> NewEntry(Carried[k], 1)]
    /\ entries = disk
    /\ outpoint_set = Tracked(disk)
    /\ block_index = IndexOf(disk)
    /\ pending = NoClaim
    /\ last_daa_score = 0
    /\ blocks_since_compact = 0
    /\ dirty = FALSE
    /\ submits = <<>>
    /\ replies = <<>>
    /\ chain_daa = 1
    /\ born = [o \in Outpoints |-> IF \E k \in DOMAIN Carried : Carried[k] = o THEN 1 ELSE 0]
    /\ red = {}
    /\ spent = {}
    /\ restarts = 0

Next ==
    \/ BlockAdded
    \/ NodeAnswer
    \/ \E how \in Saves : HandleReply(how)
    \/ \E q \in Requests \cup {Plain}, d \in 0..MaxScore, how \in Saves : AnswerInference(q, d, how)
    \/ RequestMined
    \/ Reconnect
    \/ Recover

Spec == Init /\ [][Next]_vars

\* The node keeps announcing blocks while the score grows and answers what it
\* is sent; the client's loop reads what the stream delivers.  Nothing makes
\* the stream break, an inference finish or a save come due.
NextBlock == \E how \in Saves : HandleBlock(Plain, Later(chain_daa, 1), {}, FALSE, how)

FairSpec ==
    /\ Spec
    /\ WF_vars(NextBlock)
    /\ WF_vars(NodeAnswer)
    /\ WF_vars(\E how \in Saves : HandleReply(how))

-----------------------------------------------------------------------------
(* Properties *)

\* The shape of the state: scores saturate, retries stop at the limit.
Score == 0..MaxScore
LogEntry == [o : Outpoints, confirm : Score, claimed : BOOLEAN, slashed : BOOLEAN,
             retries : 0..MaxOrphanRetries, retry_after : Score]
Verdict == {"ok", "orphan", "sequence lock", "rejected"}

TypeOK ==
    /\ entries \in Seq(LogEntry)
    /\ outpoint_set \subseteq Outpoints
    /\ block_index \in [Blocks -> SUBSET Nat]
    /\ pending \in Outpoints \cup {NoClaim}
    /\ last_daa_score \in Score
    /\ blocks_since_compact \in 0..(CompactEvery - 1)
    /\ dirty \in BOOLEAN
    /\ disk \in Seq(LogEntry)
    /\ submits \in Seq(Outpoints \cup {AiTx})
    /\ replies \in Seq(Verdict)
    /\ chain_daa \in Score \ {0}
    /\ born \in [Outpoints -> Score]
    /\ red \subseteq Blocks
    /\ spent \subseteq Outpoints
    /\ restarts \in 0..MaxRestarts

\* The two lookup tables always agree with the list they index: an outpoint is
\* listed once, the dedup set holds the listed outpoints and no other, and the
\* positions kept for a block are those of its entries.  With one stale position
\* after a compaction, a red block would slash the escrow of another block.
IndexesExact ==
    /\ \A i, j \in DOMAIN entries : entries[i].o = entries[j].o => i = j
    /\ outpoint_set = {entries[i].o : i \in DOMAIN entries}
    /\ \A b \in Blocks :
          block_index[b] = {i \in DOMAIN entries :
                              entries[i].o \in {Outputs[b][k] : k \in DOMAIN Outputs[b]}}

\* The claim of a block reward is on the wire only once it is mature, with the margin
\* to spare: the chain is Window + Margin past the score that confirmed the outpoint,
\* so a node whose blue score trails by Margin at most never answers "sequence lock".
\* (An inference escrow counts from the answer, and may be early.)
ClaimsAreMature ==
    \A k \in DOMAIN submits :
        submits[k] \in Coinbases => chain_daa >= Later(born[submits[k]], Window + Margin)

\* Within a session a finished entry stays finished: no answer, red block or
\* later inference makes the watcher claim it again.
DoneIsFinal ==
    [][restarts' = restarts =>
         \A i \in DOMAIN entries : \A j \in DOMAIN entries' :
            entries[i].o = entries'[j].o /\ Done(entries[i]) => Done(entries'[j])]_vars

\* Of the claims, one at most is unanswered, and it is the pending one.
OneClaimInFlight ==
    /\ Len(submits) + Len(replies) = IF pending = NoClaim THEN 0 ELSE 1
    /\ \A k \in DOMAIN submits : submits[k] = pending

\* An escrow the watcher, or the file, holds for claimed was paid: the node
\* accepted a claim that spends it ("Called when a SubmitTransactionResponse
\* arrives for a pending claim TX").
ClaimedIsPaid ==
    /\ \A i \in DOMAIN entries : entries[i].claimed => entries[i].o \in spent
    /\ \A i \in DOMAIN disk : disk[i].claimed => disk[i].o \in spent

\* The watcher gives an escrow up only when nothing was left to gain: it was
\* spent, its block went red, or the node called its claim an orphan too often.
SlashedIsHopeless ==
    \A i \in DOMAIN entries :
        entries[i].slashed => \/ entries[i].o \in spent
                             \/ InRed(entries[i].o)
                             \/ entries[i].retries >= MaxOrphanRetries

\* Whenever no change waits to be saved, the file is the watcher's memory.
CleanMeansSaved == ~dirty => disk = entries

Unsettled(o) == \E i \in DOMAIN entries : entries[i].o = o /\ ~Done(entries[i])

\* Every tracked escrow that can pay the fee is settled in the end: claimed,
\* given up, or forgotten by a restart.
EscrowsSettle == \A o \in Outpoints \ Dust : Unsettled(o) ~> ~Unsettled(o)

(* What the documentation says and the code does not give: TLC refutes what follows, at the
   constants the README names. *)

\* An unfinished escrow that is both in memory and in the file does not vanish
\* from the file ("State is persisted to escrow_state.json so claims survive
\* miner restarts").
SavedEscrowsStaySaved ==
    [][\A i \in DOMAIN disk : \A j \in DOMAIN entries' :
         disk[i].o = entries'[j].o /\ ~Done(entries'[j])
            => \E k \in DOMAIN disk' : disk'[k].o = disk[i].o]_vars
=============================================================================
