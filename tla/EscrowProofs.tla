---------------------------- MODULE EscrowProofs ----------------------------
(***************************************************************************)
(* Proofs about Escrow, for every value of its constants: the shape of the *)
(* state, and the exactness of the two lookup tables; then its claims: a   *)
(* finished entry stays finished, the file holds what a clean watcher      *)
(* holds, and, as long as no AiResponse shares the wire with the claims    *)
(* (MaxWire = 0), one claim is in flight and its answer is read as what it *)
(* is.                                                                     *)
(***************************************************************************)
EXTENDS Escrow, FiniteSetTheorems, SequenceTheorems, TLAPS

-----------------------------------------------------------------------------
(* Sequences *)

\* A function on 1..n with values in S is a sequence over S of length n.
LEMMA FunctionIsSeq ==
    ASSUME NEW S, NEW n \in Nat, NEW f \in [1..n -> S]
    PROVE  f \in Seq(S) /\ Len(f) = n /\ DOMAIN f = 1..n
<1>1. f \in Seq(S)
    BY SeqDef
<1>2. DOMAIN f = 1..n
    OBVIOUS
<1> QED
    BY <1>1, <1>2, LenProperties

\* Positions of a sequence: how many of them there are, and what listing them
\* in order selects.
LEMMA PicksType ==
    ASSUME NEW n \in Nat, NEW K \in SUBSET (1..n), NEW f \in Picks(K)
    PROVE  /\ Cardinality(K) \in Nat
           /\ f \in [1..Cardinality(K) -> K]
           /\ \A j, k \in DOMAIN f : j < k => f[j] < f[k]
           /\ \A p \in K : \E k \in DOMAIN f : f[k] = p
           /\ \A j, k \in DOMAIN f : f[j] = f[k] => j = k
<1>1. IsFiniteSet(K)
    <2>1. IsFiniteSet(1..n)
        BY FS_Interval
    <2> QED
        BY <2>1, FS_Subset
<1>2. Cardinality(K) \in Nat
    BY <1>1, FS_CardinalityType
<1>3. /\ f \in [1..Cardinality(K) -> K]
      /\ \A j, k \in DOMAIN f : j < k => f[j] < f[k]
      /\ \A p \in K : \E k \in DOMAIN f : f[k] = p
    BY DEF Picks
<1>4. ASSUME NEW j \in DOMAIN f, NEW k \in DOMAIN f, f[j] = f[k]
      PROVE  j = k
    <2>1. j \in Nat /\ k \in Nat /\ f[j] \in 1..n /\ f[k] \in 1..n
        <3>1. DOMAIN f = 1..Cardinality(K)
            BY <1>3
        <3>2. f[j] \in K /\ f[k] \in K
            BY <1>3, <3>1
        <3>3. j \in 1..Cardinality(K) /\ k \in 1..Cardinality(K)
            BY <3>1
        <3>4. j \in Nat /\ k \in Nat
            BY <1>2, <3>3
        <3>5. f[j] \in 1..n /\ f[k] \in 1..n
            BY <3>2
        <3> QED
            BY <3>4, <3>5
    <2>2. ~(f[j] < f[k]) /\ ~(f[k] < f[j])
        BY <1>4, <2>1
    <2>3. ~(j < k) /\ ~(k < j)
        BY <1>3, <2>2
    <2> QED
        BY <2>1, <2>3
<1> QED
    BY <1>2, <1>3, <1>4

-----------------------------------------------------------------------------
(* Entries *)

\* Saturating addition stays a score and grows with its arguments.
LEMMA LaterType ==
    ASSUME NEW d \in Score, NEW n \in Nat
    PROVE  Later(d, n) \in Score /\ d <= Later(d, n)
BY ParameterAssumption DEF Later, Score

LEMMA LaterMonotone ==
    ASSUME NEW c \in Score, NEW d \in Score, c <= d, NEW m \in Nat, NEW n \in Nat, m <= n
    PROVE  Later(c, m) <= Later(d, n)
BY ParameterAssumption DEF Later, Score

LEMMA NewEntryType ==
    ASSUME NEW o \in Outpoints, NEW d \in Score
    PROVE  NewEntry(o, d) \in LogEntry
BY ParameterAssumption DEF NewEntry, LogEntry, Score

LEMMA OutputsType ==
    ASSUME NEW b \in Blocks
    PROVE  /\ Outputs[b] \in Seq(Coinbases)
           /\ Outputs[b] \in Seq(Outpoints)
           /\ \A k \in DOMAIN Outputs[b] : Outputs[b][k] \in Outpoints /\ InBlock(Outputs[b][k], b)
<1>1. Outputs[b] \in Seq(Coinbases)
    BY DataAssumption
<1>2. Coinbases \subseteq Outpoints
    BY DEF Outpoints
<1>3. Outputs[b] \in Seq(Outpoints)
    BY <1>1, <1>2, SeqMonotonic
<1>4. ASSUME NEW k \in DOMAIN Outputs[b]
      PROVE  Outputs[b][k] \in Outpoints /\ InBlock(Outputs[b][k], b)
    BY DEF Coinbases, Outpoints, InBlock
<1> QED
    BY <1>1, <1>3, <1>4

\* An outpoint is in one block.
LEMMA OneBlock ==
    ASSUME NEW o, NEW b \in Blocks, NEW c \in Blocks, InBlock(o, b), InBlock(o, c)
    PROVE  b = c
BY DataAssumption DEF InBlock

\* Slashing changes the slashed flag of the entries it hits and nothing else.
LEMMA SlashType ==
    ASSUME NEW es \in Seq(LogEntry), NEW hit
    PROVE  /\ Slash(es, hit) \in Seq(LogEntry)
           /\ Len(Slash(es, hit)) = Len(es)
           /\ DOMAIN Slash(es, hit) = DOMAIN es
           /\ \A i \in DOMAIN es :
                \/ Slash(es, hit)[i] = es[i]
                \/ /\ i \in hit /\ ~Done(es[i])
                   /\ Slash(es, hit)[i] = [es[i] EXCEPT !.slashed = TRUE]
           /\ \A i \in DOMAIN es : Slash(es, hit)[i].o = es[i].o
<1>1. es \in [1..Len(es) -> LogEntry] /\ Len(es) \in Nat /\ DOMAIN es = 1..Len(es)
    BY LenProperties
<1>2. \A e \in LogEntry : /\ [e EXCEPT !.slashed = TRUE] \in LogEntry
                          /\ [e EXCEPT !.slashed = TRUE].o = e.o
    BY DEF LogEntry
<1>3. Slash(es, hit) \in [1..Len(es) -> LogEntry]
    BY <1>1, <1>2 DEF Slash
<1>4. \A i \in DOMAIN es :
        \/ Slash(es, hit)[i] = es[i]
        \/ i \in hit /\ ~Done(es[i]) /\ Slash(es, hit)[i] = [es[i] EXCEPT !.slashed = TRUE]
    BY DEF Slash
<1>5. \A i \in DOMAIN es : Slash(es, hit)[i].o = es[i].o
    BY <1>1, <1>2, <1>4
<1> QED
    BY <1>1, <1>3, <1>4, <1>5, FunctionIsSeq

\* A verdict on a claim keeps the entry's outpoint and never revives it.
LEMMA AnsweredType ==
    ASSUME NEW e \in LogEntry, NEW v \in Verdict, last_daa_score \in Score, e.retries < MaxOrphanRetries
    PROVE  /\ Answered(e, v) \in LogEntry
           /\ Answered(e, v).o = e.o
           /\ Answered(e, v).confirm = e.confirm
           /\ Done(e) => Done(Answered(e, v))
<1>1. Later(last_daa_score, OrphanCooldown) \in Score /\ Later(last_daa_score, SeqLockCooldown) \in Score
    BY LaterType, ParameterAssumption
<1>2. MaxOrphanRetries \in Nat /\ e.retries \in Nat
    BY ParameterAssumption DEF LogEntry
<1>3. CASE v = "ok"
    BY <1>3 DEF Answered, LogEntry, Done
<1>4. CASE v = "sequence lock"
    BY <1>1, <1>4 DEF Answered, LogEntry, Done
<1>5. CASE v = "rejected"
    BY <1>5 DEF Answered, LogEntry, Done
<1>6. e.retries + 1 \in 0..MaxOrphanRetries
    BY <1>2
<1>7. CASE v = "orphan" /\ e.retries + 1 >= MaxOrphanRetries
    <2>1. Answered(e, v) = [e EXCEPT !.retries = @ + 1, !.slashed = TRUE]
        BY <1>2, <1>7 DEF Answered
    <2> QED
        BY <1>6, <2>1 DEF LogEntry, Done
<1>8. CASE v = "orphan" /\ e.retries + 1 < MaxOrphanRetries
    <2>1. Answered(e, v) = [e EXCEPT !.retries = @ + 1,
                                     !.retry_after = Later(last_daa_score, OrphanCooldown)]
        BY <1>2, <1>8 DEF Answered
    <2> QED
        BY <1>1, <1>6, <2>1 DEF LogEntry, Done
<1>9. e.retries + 1 >= MaxOrphanRetries \/ e.retries + 1 < MaxOrphanRetries
    BY <1>2
<1>10. v \in {"ok", "orphan", "sequence lock", "rejected"}
    BY DEF Verdict
<1> QED
    BY <1>3, <1>4, <1>5, <1>7, <1>8, <1>9, <1>10

\* Only "ok" claims an entry; a rejection, or the last retry, slashes it.
LEMMA AnsweredEffect ==
    ASSUME NEW e \in LogEntry, NEW v \in Verdict, e.retries < MaxOrphanRetries
    PROVE  /\ Answered(e, v).retries >= MaxOrphanRetries => Answered(e, v).slashed
           /\ Answered(e, v).claimed => e.claimed \/ v = "ok"
           /\ Answered(e, v).slashed =>
                 e.slashed \/ v = "rejected" \/ Answered(e, v).retries >= MaxOrphanRetries
<1> DEFINE a == Answered(e, v)
<1>1. MaxOrphanRetries \in Nat /\ e.retries \in Nat
    BY ParameterAssumption DEF LogEntry
<1>2. v \in {"ok", "orphan", "sequence lock", "rejected"}
    BY DEF Verdict
<1>3. \/ v = "ok" /\ a.retries = e.retries /\ a.slashed = e.slashed
      \/ v = "sequence lock" /\ a.retries = e.retries /\ a.claimed = e.claimed
                             /\ a.slashed = e.slashed
      \/ v = "rejected" /\ a.retries = e.retries /\ a.claimed = e.claimed
      \/ e.retries + 1 >= MaxOrphanRetries /\ a.retries = e.retries + 1 /\ a.claimed = e.claimed
            /\ a.slashed = TRUE
      \/ e.retries + 1 < MaxOrphanRetries /\ a.retries = e.retries + 1 /\ a.claimed = e.claimed
            /\ a.slashed = e.slashed
    <2>1. CASE v = "ok"
        BY <2>1 DEF Answered, LogEntry
    <2>2. CASE v = "sequence lock"
        BY <2>2 DEF Answered, LogEntry
    <2>3. CASE v = "rejected"
        BY <2>3 DEF Answered, LogEntry
    <2>4. CASE v = "orphan" /\ e.retries + 1 >= MaxOrphanRetries
        <3>1. a = [e EXCEPT !.retries = @ + 1, !.slashed = TRUE]
            BY <1>1, <2>4 DEF Answered
        <3> QED
            BY <2>4, <3>1 DEF LogEntry
    <2>5. CASE v = "orphan" /\ e.retries + 1 < MaxOrphanRetries
        <3>1. a = [e EXCEPT !.retries = @ + 1,
                            !.retry_after = Later(last_daa_score, OrphanCooldown)]
            BY <1>1, <2>5 DEF Answered
        <3> QED
            BY <2>5, <3>1 DEF LogEntry
    <2>6. e.retries + 1 >= MaxOrphanRetries \/ e.retries + 1 < MaxOrphanRetries
        BY <1>1
    <2> QED
        BY <1>2, <2>1, <2>2, <2>3, <2>4, <2>5, <2>6
<1> HIDE DEF a
<1>4. ~(e.retries >= MaxOrphanRetries)
    BY <1>1
<1>5. e.retries + 1 < MaxOrphanRetries => ~(e.retries + 1 >= MaxOrphanRetries)
    BY <1>1
<1>6. /\ a.retries >= MaxOrphanRetries => a.slashed
      /\ a.claimed => e.claimed \/ v = "ok"
      /\ a.slashed => e.slashed \/ v = "rejected" \/ a.retries >= MaxOrphanRetries
    BY <1>3, <1>4, <1>5
<1> QED
    BY <1>6 DEF a

-----------------------------------------------------------------------------
(* The lookup tables *)

\* An outpoint is listed once.
Distinct(es) == \A i, j \in DOMAIN es : es[i].o = es[j].o => i = j

\* The tables set and index are those of the list es.
Exact(es, set, index) == Distinct(es) /\ set = Tracked(es) /\ index = IndexOf(es)

LEMMA ExactIsIndexesExact ==
    ASSUME block_index \in [Blocks -> SUBSET Nat]
    PROVE  IndexesExact <=> Exact(entries, outpoint_set, block_index)
<1> DEFINE At(b) == {i \in DOMAIN entries : InBlock(entries[i].o, b)}
<1>1. ASSUME NEW b \in Blocks
      PROVE  {i \in DOMAIN entries : entries[i].o \in {Outputs[b][k] : k \in DOMAIN Outputs[b]}}
                = At(b)
    <2>1. \A o : o \in {Outputs[b][k] : k \in DOMAIN Outputs[b]} <=> InBlock(o, b)
        BY DEF InBlock
    <2> QED
        BY <2>1
<1>2. IndexOf(entries) = [b \in Blocks |-> At(b)]
    BY DEF IndexOf
<1> HIDE DEF At
<1>3. (\A b \in Blocks : block_index[b] = At(b)) <=> block_index = IndexOf(entries)
    BY <1>2
<1> QED
    BY <1>1, <1>3 DEF IndexesExact, Exact, Distinct, Tracked

\* Compaction keeps entries of the list, each once.
LEMMA CompactType ==
    ASSUME NEW es \in Seq(LogEntry), Distinct(es),
           NEW K \in SUBSET DOMAIN es, NEW f \in Picks(K)
    PROVE  /\ [k \in DOMAIN f |-> es[f[k]]] \in Seq(LogEntry)
           /\ Distinct([k \in DOMAIN f |-> es[f[k]]])
           /\ \A k \in DOMAIN f : f[k] \in DOMAIN es
<1>1. es \in [1..Len(es) -> LogEntry] /\ Len(es) \in Nat /\ DOMAIN es = 1..Len(es)
    BY LenProperties
<1>2. /\ Cardinality(K) \in Nat
      /\ f \in [1..Cardinality(K) -> K]
      /\ \A j, k \in DOMAIN f : f[j] = f[k] => j = k
    BY <1>1, PicksType
<1>3. \A k \in DOMAIN f : f[k] \in DOMAIN es
    BY <1>2
<1>4. [k \in DOMAIN f |-> es[f[k]]] \in [1..Cardinality(K) -> LogEntry]
    BY <1>1, <1>2, <1>3
<1>5. Distinct([k \in DOMAIN f |-> es[f[k]]])
    BY <1>2, <1>3 DEF Distinct
<1> QED
    BY <1>2, <1>3, <1>4, <1>5, FunctionIsSeq

\* Slashing leaves the tables exact.
LEMMA SlashExact ==
    ASSUME NEW es \in Seq(LogEntry), NEW set, NEW index, NEW hit, Exact(es, set, index)
    PROVE  Exact(Slash(es, hit), set, index)
<1>1. /\ DOMAIN Slash(es, hit) = DOMAIN es
      /\ \A i \in DOMAIN es : Slash(es, hit)[i].o = es[i].o
    BY SlashType
<1>2. Distinct(Slash(es, hit))
    BY <1>1 DEF Exact, Distinct
<1>3. Tracked(Slash(es, hit)) = Tracked(es)
    BY <1>1 DEF Tracked
<1>4. IndexOf(Slash(es, hit)) = IndexOf(es)
    BY <1>1 DEF IndexOf
<1> QED
    BY <1>2, <1>3, <1>4 DEF Exact

\* The scan of block b appends the outputs not tracked yet, each once, and indexes
\* them under the block; the tables stay exact.
Extends(es, set, index, b, d, fresh) ==
    /\ fresh \in Seq(LogEntry)
    /\ es \o fresh \in Seq(LogEntry)
    /\ \A j \in DOMAIN (es \o fresh) :
         \/ j \in DOMAIN es /\ (es \o fresh)[j] = es[j]
         \/ \E k \in DOMAIN OutputsOf(b) :
               /\ (es \o fresh)[j] = NewEntry(OutputsOf(b)[k], d)
               /\ OutputsOf(b)[k] \notin set
    /\ Exact(es \o fresh, set \cup Tracked(fresh),
             [c \in Blocks |-> IF c = b THEN index[c] \cup (Len(es) + 1)..Len(es \o fresh)
                                       ELSE index[c]])

LEMMA ExtendExact ==
    ASSUME NEW es \in Seq(LogEntry), NEW set, NEW index, Exact(es, set, index),
           NEW b \in Blocks \cup {Plain}, NEW d \in Score,
           NEW g \in Picks({k \in DOMAIN OutputsOf(b) : OutputsOf(b)[k] \notin set}),
           NEW fresh, fresh = [k \in DOMAIN g |-> NewEntry(OutputsOf(b)[g[k]], d)]
    PROVE  Extends(es, set, index, b, d, fresh)
<1> DEFINE K == {k \in DOMAIN OutputsOf(b) : OutputsOf(b)[k] \notin set}
           after == es \o fresh
<1>1. /\ OutputsOf(b) \in Seq(Outpoints)
      /\ \A k \in DOMAIN OutputsOf(b) : /\ OutputsOf(b)[k] \in Outpoints
                                        /\ b \in Blocks /\ InBlock(OutputsOf(b)[k], b)
    BY OutputsType, EmptySeq DEF OutputsOf
<1>2. /\ DOMAIN OutputsOf(b) = 1..Len(OutputsOf(b)) /\ Len(OutputsOf(b)) \in Nat
      /\ DOMAIN es = 1..Len(es) /\ Len(es) \in Nat
    BY <1>1, LenProperties
<1>3. /\ Cardinality(K) \in Nat
      /\ g \in [1..Cardinality(K) -> K]
      /\ \A j, k \in DOMAIN g : g[j] = g[k] => j = k
    <2>1. K \in SUBSET (1..Len(OutputsOf(b)))
        BY <1>2
    <2> HIDE DEF K
    <2> QED
        BY <1>2, <2>1, PicksType DEF K
<1>4. \A k \in DOMAIN g : /\ g[k] \in DOMAIN OutputsOf(b)
                          /\ OutputsOf(b)[g[k]] \notin set
                          /\ OutputsOf(b)[g[k]] \in Outpoints
                          /\ NewEntry(OutputsOf(b)[g[k]], d) \in LogEntry
    BY <1>1, <1>3, NewEntryType
<1>5. /\ fresh \in Seq(LogEntry) /\ Len(fresh) = Cardinality(K)
      /\ DOMAIN fresh = DOMAIN g /\ DOMAIN fresh = 1..Cardinality(K)
    <2>1. fresh \in [1..Cardinality(K) -> LogEntry]
        BY <1>3, <1>4
    <2> QED
        BY <1>3, <2>1, FunctionIsSeq
<1>6. \A k \in DOMAIN fresh : /\ fresh[k].o = OutputsOf(b)[g[k]]
                              /\ fresh[k].o \notin set
                              /\ b \in Blocks /\ InBlock(fresh[k].o, b)
    BY <1>1, <1>4, <1>5 DEF NewEntry
<1>7. \A j, k \in DOMAIN fresh : fresh[j].o = fresh[k].o => j = k
    <2>1. \A j, k \in DOMAIN OutputsOf(b) : OutputsOf(b)[j] = OutputsOf(b)[k] => j = k
        BY <1>1, DataAssumption DEF OutputsOf
    <2> QED
        BY <1>3, <1>4, <1>5, <1>6, <2>1
<1> HIDE DEF K
<1>8. /\ after \in Seq(LogEntry) /\ Len(after) = Len(es) + Len(fresh)
      /\ \A j \in 1..Len(es) + Len(fresh) :
            after[j] = IF j <= Len(es) THEN es[j] ELSE fresh[j - Len(es)]
    BY <1>5, ConcatProperties
<1>9. DOMAIN after = 1..Len(after) /\ Len(fresh) \in Nat
    BY <1>3, <1>5, <1>8, LenProperties
<1>10. \A j \in DOMAIN after :
            \/ j \in DOMAIN es /\ after[j] = es[j]
            \/ /\ j > Len(es) /\ j - Len(es) \in DOMAIN fresh
               /\ after[j] = fresh[j - Len(es)]
    BY <1>2, <1>3, <1>5, <1>8, <1>9
<1>11. \A k \in DOMAIN fresh : Len(es) + k \in DOMAIN after /\ after[Len(es) + k] = fresh[k]
    BY <1>2, <1>3, <1>5, <1>8, <1>9
<1>12. \A j \in DOMAIN es : j \in DOMAIN after /\ after[j] = es[j] /\ es[j].o \in set
    BY <1>2, <1>3, <1>5, <1>8, <1>9 DEF Exact, Tracked
<1> HIDE DEF after
<1>13. Distinct(after)
    <2> SUFFICES ASSUME NEW i \in DOMAIN after, NEW j \in DOMAIN after, after[i].o = after[j].o
                 PROVE  i = j
        BY DEF Distinct
    <2>1. CASE i \in DOMAIN es /\ j \in DOMAIN es
        BY <1>12, <2>1 DEF Exact, Distinct
    <2>2. ASSUME NEW k \in DOMAIN after
          PROVE  after[k].o \in set <=> k \in DOMAIN es
        <3>1. CASE k \in DOMAIN es
            BY <1>12, <3>1
        <3>2. CASE k \notin DOMAIN es
            <4>1. k - Len(es) \in DOMAIN fresh /\ after[k] = fresh[k - Len(es)]
                BY <1>10, <3>2
            <4>2. fresh[k - Len(es)].o \notin set
                BY <1>6, <4>1
            <4> QED
                BY <3>2, <4>1, <4>2
        <3> QED
            BY <3>1, <3>2
    <2>3. CASE i \notin DOMAIN es /\ j \notin DOMAIN es
        <3>1. /\ i - Len(es) \in DOMAIN fresh /\ after[i] = fresh[i - Len(es)]
              /\ j - Len(es) \in DOMAIN fresh /\ after[j] = fresh[j - Len(es)]
            BY <1>10, <2>3
        <3>2. i - Len(es) = j - Len(es)
            BY <1>7, <3>1
        <3>3. i \in Int /\ j \in Int /\ Len(es) \in Int
            BY <1>2, <1>9
        <3> QED
            BY <3>2, <3>3
    <2> QED
        BY <2>1, <2>2, <2>3
<1>14. set \cup Tracked(fresh) = Tracked(after)
    <2>1. \A x \in set \cup Tracked(fresh) : x \in Tracked(after)
        BY <1>11, <1>12 DEF Exact, Tracked
    <2>2. \A x \in Tracked(after) : x \in set \cup Tracked(fresh)
        BY <1>10, <1>12 DEF Tracked
    <2> QED
        BY <2>1, <2>2
<1>15. [c \in Blocks |-> IF c = b THEN index[c] \cup (Len(es) + 1)..Len(after) ELSE index[c]]
            = IndexOf(after)
    <2> SUFFICES ASSUME NEW c \in Blocks
                 PROVE  (IF c = b THEN index[c] \cup (Len(es) + 1)..Len(after) ELSE index[c])
                            = {i \in DOMAIN after : InBlock(after[i].o, c)}
        BY DEF IndexOf
    <2>1. index[c] = {i \in DOMAIN es : InBlock(es[i].o, c)}
        BY DEF Exact, IndexOf
    <2>2. \A i \in DOMAIN after : InBlock(after[i].o, c) =>
                i \in index[c] \/ (c = b /\ i \in (Len(es) + 1)..Len(after))
        BY <1>2, <1>6, <1>8, <1>9, <1>10, <2>1, OneBlock
    <2>3. \A i \in index[c] : i \in DOMAIN after /\ InBlock(after[i].o, c)
        BY <1>12, <2>1
    <2>4. ASSUME c = b, NEW i \in (Len(es) + 1)..Len(after)
          PROVE  i \in DOMAIN after /\ InBlock(after[i].o, c)
        <3>1. i \in DOMAIN after /\ i \notin DOMAIN es
            BY <1>2, <1>8, <1>9
        <3> QED
            BY <1>6, <1>10, <2>4, <3>1
    <2> QED
        BY <2>2, <2>3, <2>4
<1>16. ASSUME NEW j \in DOMAIN after
       PROVE  \/ j \in DOMAIN es /\ after[j] = es[j]
              \/ \E k \in DOMAIN OutputsOf(b) :
                    /\ after[j] = NewEntry(OutputsOf(b)[k], d)
                    /\ OutputsOf(b)[k] \notin set
    BY <1>4, <1>5, <1>10
<1> QED
    BY <1>5, <1>8, <1>13, <1>14, <1>15, <1>16 DEF Exact, after, Extends

-----------------------------------------------------------------------------
(* What a block does *)

\* An entry after a block: as it was, or slashed with a red block.
Aged(e, f, reds) ==
    \/ f = e
    \/ ~Done(e) /\ f = [e EXCEPT !.slashed = TRUE] /\ \E r \in reds : InBlock(e.o, r)

\* The claim of one entry that is due, or nothing.
Claims(es, d) ==
    \/ UNCHANGED <<pending, submits>>
    \/ /\ pending = NoClaim
       /\ \E i \in DOMAIN es : /\ Eligible(es[i], d)
                               /\ pending' = es[i].o
                               /\ submits' = Append(submits, es[i].o)

LEMMA FindClaimEffect ==
    ASSUME NEW es, NEW d, FindClaim(es, d)
    PROVE  Claims(es, d)
<1>1. \A i \in FirstDue(es, d) : i \in DOMAIN es /\ Eligible(es[i], d)
    BY DEF FirstDue, Preferred, DueInference, Due
<1>2. CASE pending = NoClaim /\ \E i \in FirstDue(es, d) : es[i].o \notin Dust
    BY <1>1, <1>2 DEF FindClaim, Claims
<1>3. CASE ~(pending = NoClaim /\ \E i \in FirstDue(es, d) : es[i].o \notin Dust)
    BY <1>3 DEF FindClaim, Claims
<1> QED
    BY <1>2, <1>3

\* A save of es leaves the file as it was, equal to es, or torn; with no failed
\* saves, a clean watcher has saved.
Flushes(es, unsaved) ==
    /\ dirty' \in BOOLEAN
    /\ disk' = disk \/ disk' = es \/ disk' = <<>>
    /\ Saves \subseteq {"skip", "saved"} /\ dirty' = FALSE
            => disk' = es \/ (unsaved = FALSE /\ disk' = disk)

LEMMA MaybeFlushEffect ==
    ASSUME NEW es, NEW unsaved \in BOOLEAN, NEW how \in Saves, MaybeFlush(es, unsaved, how)
    PROVE  Flushes(es, unsaved)
<1>1. how \in {"skip", "saved", "failed", "torn"}
    BY ParameterAssumption
<1>2. CASE unsaved /\ how # "skip"
    <2>1. dirty' = FALSE
        BY <1>2 DEF MaybeFlush
    <2>2. \/ how = "saved" /\ disk' = es
          \/ how = "failed" /\ disk' = disk
          \/ how = "torn" /\ disk' = <<>>
        BY <1>1, <1>2 DEF MaybeFlush
    <2> QED
        BY <2>1, <2>2 DEF Flushes
<1>3. CASE ~(unsaved /\ how # "skip")
    <2>1. dirty' = unsaved /\ disk' = disk
        BY <1>3 DEF MaybeFlush
    <2> QED
        BY <2>1 DEF Flushes
<1> QED
    BY <1>2, <1>3

\* What the scan of block b makes of the entries that compaction left.
ScannedFrom(kept, set, unsaved, b, d, reds) ==
    /\ entries' \in Seq(LogEntry)
    /\ Exact(entries', outpoint_set', block_index')
    /\ \A j \in DOMAIN entries' :
         \/ \E i \in DOMAIN kept : Aged(kept[i], entries'[j], reds)
         \/ \E k \in DOMAIN OutputsOf(b) :
               entries'[j] = NewEntry(OutputsOf(b)[k], d) /\ OutputsOf(b)[k] \notin set
    /\ Claims(entries', d)
    /\ Flushes(entries', unsaved \/ entries' # kept)

\* The scan of a block after compaction, whatever compaction left.
LEMMA ScanKeptEffect ==
    ASSUME NEW kept \in Seq(LogEntry), NEW set, NEW index, NEW unsaved \in BOOLEAN,
           Exact(kept, set, index),
           NEW b \in Blocks \cup {Plain}, NEW d \in Score, NEW reds \in SUBSET Blocks,
           NEW bare \in BOOLEAN, NEW how \in Saves,
           Scan(kept, set, index, unsaved, b, d, reds, bare, how)
    PROVE  ScannedFrom(kept, set, unsaved, b, d, reds)
<1> DEFINE slashed == Slash(kept, UNION {index[r] : r \in reds})
<1> PICK g \in Picks({k \in DOMAIN OutputsOf(b) : OutputsOf(b)[k] \notin set}) :
        LET fresh == [k \in DOMAIN g |-> NewEntry(OutputsOf(b)[g[k]], d)]
            after == slashed \o fresh
            changed == unsaved \/ slashed # kept \/ fresh # <<>>
        IN /\ entries' = after
           /\ outpoint_set' = set \cup Tracked(fresh)
           /\ block_index' = [c \in Blocks |->
                 IF c = b THEN index[c] \cup (Len(slashed) + 1)..Len(after) ELSE index[c]]
           /\ IF bare THEN dirty' = changed /\ UNCHANGED <<disk, pending, submits>>
                      ELSE FindClaim(after, d) /\ MaybeFlush(after, changed, how)
    BY DEF Scan
<1> DEFINE fresh == [k \in DOMAIN g |-> NewEntry(OutputsOf(b)[g[k]], d)]
           after == slashed \o fresh
           changed == unsaved \/ slashed # kept \/ fresh # <<>>
<1>1. /\ slashed \in Seq(LogEntry)
      /\ DOMAIN slashed = DOMAIN kept
      /\ \A i \in DOMAIN kept :
            \/ slashed[i] = kept[i]
            \/ /\ i \in UNION {index[r] : r \in reds} /\ ~Done(kept[i])
               /\ slashed[i] = [kept[i] EXCEPT !.slashed = TRUE]
    BY SlashType
<1>2. Exact(slashed, set, index)
    BY SlashExact
<1>3. \A i \in DOMAIN kept : Aged(kept[i], slashed[i], reds)
    <2>1. \A r \in reds : \A i \in index[r] : InBlock(kept[i].o, r)
        BY DEF Exact, IndexOf
    <2>2. \A i \in UNION {index[r] : r \in reds} : \E r \in reds : InBlock(kept[i].o, r)
        BY <2>1
    <2> QED
        BY <1>1, <2>2 DEF Aged
<1> HIDE DEF slashed
<1>4. /\ fresh \in Seq(LogEntry)
      /\ after \in Seq(LogEntry)
      /\ \A j \in DOMAIN after :
            \/ j \in DOMAIN slashed /\ after[j] = slashed[j]
            \/ \E k \in DOMAIN OutputsOf(b) :
                  after[j] = NewEntry(OutputsOf(b)[k], d) /\ OutputsOf(b)[k] \notin set
      /\ Exact(after, set \cup Tracked(fresh),
               [c \in Blocks |-> IF c = b THEN index[c] \cup (Len(slashed) + 1)..Len(after)
                                          ELSE index[c]])
    <2>1. fresh = [k \in DOMAIN g |-> NewEntry(OutputsOf(b)[g[k]], d)]
        OBVIOUS
    <2> HIDE DEF fresh
    <2>2. slashed \in Seq(LogEntry)
        BY <1>1
    <2>3. Extends(slashed, set, index, b, d, fresh)
        BY <1>2, <2>1, <2>2, ExtendExact
    <2> QED
        BY <2>3 DEF Extends
<1>5. entries' = after
    OBVIOUS
<1>6. Exact(entries', outpoint_set', block_index')
    <2>1. /\ outpoint_set' = set \cup Tracked(fresh)
          /\ block_index' = [c \in Blocks |->
                IF c = b THEN index[c] \cup (Len(slashed) + 1)..Len(after) ELSE index[c]]
        OBVIOUS
    <2> QED
        BY <1>4, <1>5, <2>1
<1>7. changed = (unsaved \/ after # kept)
    <2>1. (fresh = <<>> /\ slashed = kept) => after = kept
        BY <1>1, ConcatEmptySeq
    <2>2. after = kept => (fresh = <<>> /\ slashed = kept)
        <3> HAVE after = kept
        <3>1. Len(slashed) = Len(kept) /\ Len(kept) \in Nat
            BY <1>1, LenProperties
        <3>2. Len(after) = Len(slashed) + Len(fresh) /\ Len(fresh) \in Nat
            BY <1>1, <1>4, ConcatProperties, LenProperties
        <3>3. fresh = <<>>
            BY <1>4, <3>1, <3>2, EmptySeq
        <3> QED
            BY <1>1, <3>3, ConcatEmptySeq
    <2> QED
        BY <2>1, <2>2
<1> HIDE DEF fresh, after
<1>8. Claims(after, d) /\ Flushes(after, changed)
    <2>1. CASE bare
        <3>1. dirty' = changed /\ UNCHANGED <<disk, pending, submits>>
            BY <2>1 DEF after, fresh
        <3> QED
            BY <3>1 DEF Claims, Flushes
    <2>2. CASE ~bare
        <3>1. FindClaim(after, d) /\ MaybeFlush(after, changed, how)
            BY <2>2 DEF after, fresh
        <3> HIDE DEF changed
        <3>2. changed \in BOOLEAN
            BY DEF changed
        <3> QED
            BY <3>1, <3>2, FindClaimEffect, MaybeFlushEffect
    <2> QED
        BY <2>1, <2>2
<1>9. ASSUME NEW j \in DOMAIN after
      PROVE  \/ \E i \in DOMAIN kept : Aged(kept[i], after[j], reds)
             \/ \E k \in DOMAIN OutputsOf(b) :
                   after[j] = NewEntry(OutputsOf(b)[k], d) /\ OutputsOf(b)[k] \notin set
    BY <1>1, <1>3, <1>4
<1> QED
    BY <1>4, <1>5, <1>6, <1>7, <1>8, <1>9 DEF Claims, Flushes, ScannedFrom

Scanned(b, d, reds) ==
    /\ entries' \in Seq(LogEntry)
    /\ Exact(entries', outpoint_set', block_index')
    /\ \A j \in DOMAIN entries' :
         \/ \E i \in DOMAIN entries : Aged(entries[i], entries'[j], reds)
         \/ \E k \in DOMAIN OutputsOf(b) : entries'[j] = NewEntry(OutputsOf(b)[k], d)
    /\ Claims(entries', d)
    /\ Flushes(entries', dirty \/ entries' # entries)

LEMMA ScanEffect ==
    ASSUME entries \in Seq(LogEntry), dirty \in BOOLEAN,
           Exact(entries, outpoint_set, block_index),
           NEW b \in Blocks \cup {Plain}, NEW d \in Score, NEW reds \in SUBSET Blocks,
           NEW bare \in BOOLEAN, NEW how \in Saves,
           ScanBlock(b, d, reds, bare, how)
    PROVE  Scanned(b, d, reds)
<1>1. CASE Live = DOMAIN entries
    <2>1. Scan(entries, outpoint_set, block_index, dirty, b, d, reds, bare, how)
        BY <1>1 DEF ScanBlock
    <2>2. ScannedFrom(entries, outpoint_set, dirty, b, d, reds)
        BY <2>1, ScanKeptEffect
    <2> QED
        BY <2>2 DEF Scanned, ScannedFrom
<1>2. CASE Live # DOMAIN entries
    <2>1. PICK f \in Picks(Live) :
            Scan([k \in DOMAIN f |-> entries[f[k]]], Tracked([k \in DOMAIN f |-> entries[f[k]]]),
                 IndexOf([k \in DOMAIN f |-> entries[f[k]]]), TRUE, b, d, reds, bare, how)
        BY <1>2 DEF ScanBlock
    <2> DEFINE kept == [k \in DOMAIN f |-> entries[f[k]]]
    <2>2. Live \in SUBSET DOMAIN entries
        BY DEF Live
    <2>3. /\ kept \in Seq(LogEntry) /\ Distinct(kept)
          /\ \A k \in DOMAIN kept : f[k] \in DOMAIN entries /\ kept[k] = entries[f[k]]
        BY <2>2, CompactType DEF Exact
    <2>4. Scan(kept, Tracked(kept), IndexOf(kept), TRUE, b, d, reds, bare, how)
        BY <2>1
    <2> HIDE DEF kept
    <2>5. Exact(kept, Tracked(kept), IndexOf(kept))
        BY <2>3 DEF Exact
    <2>6. ScannedFrom(kept, Tracked(kept), TRUE, b, d, reds)
        BY <2>3, <2>4, <2>5, ScanKeptEffect
    <2>7. Flushes(entries', dirty \/ entries' # entries)
        BY <2>6 DEF Flushes, ScannedFrom
    <2>8. \A j \in DOMAIN entries' :
             \/ \E i \in DOMAIN entries : Aged(entries[i], entries'[j], reds)
             \/ \E k \in DOMAIN OutputsOf(b) : entries'[j] = NewEntry(OutputsOf(b)[k], d)
        <3> SUFFICES ASSUME NEW j \in DOMAIN entries',
                            ~ \E k \in DOMAIN OutputsOf(b) : entries'[j] = NewEntry(OutputsOf(b)[k], d)
                     PROVE  \E i \in DOMAIN entries : Aged(entries[i], entries'[j], reds)
            OBVIOUS
        <3>1. PICK k \in DOMAIN kept : Aged(kept[k], entries'[j], reds)
            BY <2>6 DEF ScannedFrom
        <3>2. f[k] \in DOMAIN entries /\ kept[k] = entries[f[k]]
            BY <2>3
        <3> QED
            BY <3>1, <3>2
    <2> QED
        BY <2>6, <2>7, <2>8 DEF Scanned, ScannedFrom
<1> QED
    BY <1>1, <1>2

LEMMA AgedFields ==
    ASSUME NEW e \in LogEntry, NEW f \in LogEntry, NEW reds, Aged(e, f, reds)
    PROVE  /\ f.o = e.o /\ f.confirm = e.confirm /\ f.retries = e.retries
           /\ f.claimed = e.claimed
           /\ e.slashed => f.slashed
           /\ Done(e) => Done(f)
           /\ f.slashed => e.slashed \/ \E r \in reds : InBlock(e.o, r)
BY DEF Aged, LogEntry, Done

-----------------------------------------------------------------------------
(* The inductive invariant.  TypeOK alone is not one: that retries stop at *)
(* the limit needs that an entry at the limit is slashed, that no such     *)
(* entry is claimed, and all of it for the file a restart reads.           *)

\* A list of entries, in memory or in the file: an outpoint is listed once and
\* given up at the limit, and a block reward's confirmation score is no earlier
\* than its birth.
Sound(es, births) ==
    /\ Distinct(es)
    /\ \A i \in DOMAIN es :
          /\ es[i].o \in Coinbases => births[es[i].o] > 0 /\ births[es[i].o] <= es[i].confirm
          /\ es[i].retries >= MaxOrphanRetries => es[i].slashed

\* The entry of the pending claim may be answered once more.
PendingOpen ==
    \A i \in DOMAIN entries : entries[i].o = pending => entries[i].retries < MaxOrphanRetries

\* A claim on the wire of a block reward spends an output that exists.
ClaimsAreBorn == \A k \in DOMAIN submits : submits[k] \in Coinbases => born[submits[k]] > 0

IInv ==
    /\ TypeOK
    /\ Exact(entries, outpoint_set, block_index)
    /\ Sound(entries, born)
    /\ Sound(disk, born)
    /\ PendingOpen
    /\ ClaimsAreBorn
    /\ ClaimsAreMature

\* A list stays sound while births only go from 0 to a score.
LEMMA SoundLater ==
    ASSUME NEW es \in Seq(LogEntry), NEW births, NEW later, Sound(es, births),
           \A o \in Coinbases : births[o] > 0 => later[o] = births[o]
    PROVE  Sound(es, later)
BY DEF Sound

LEMMA EmptySound ==
    ASSUME NEW births
    PROVE  <<>> \in Seq(LogEntry) /\ Sound(<<>>, births)
BY EmptySeq DEF Sound, Distinct

LEMMA EntriesType ==
    ASSUME NEW es \in Seq(LogEntry)
    PROVE  /\ DOMAIN es = 1..Len(es) /\ Len(es) \in Nat
           /\ \A i \in DOMAIN es :
                 /\ i \in Nat
                 /\ es[i] \in LogEntry
                 /\ es[i].o \in Outpoints /\ es[i].confirm \in Score /\ es[i].retries \in Nat
                 /\ es[i].claimed \in BOOLEAN /\ es[i].slashed \in BOOLEAN
           /\ Tracked(es) \subseteq Outpoints
           /\ IndexOf(es) \in [Blocks -> SUBSET Nat]
<1>1. DOMAIN es = 1..Len(es) /\ Len(es) \in Nat
    BY LenProperties
<1>2. \A i \in DOMAIN es : i \in Nat /\ es[i] \in LogEntry
    BY <1>1, ElementOfSeq
<1>3. \A i \in DOMAIN es :
        /\ es[i].o \in Outpoints /\ es[i].confirm \in Score /\ es[i].retries \in Nat
        /\ es[i].claimed \in BOOLEAN /\ es[i].slashed \in BOOLEAN
    BY <1>2, ParameterAssumption, SMTT(30) DEF LogEntry
<1>4. Tracked(es) \subseteq Outpoints
    BY <1>3 DEF Tracked
<1>5. IndexOf(es) \in [Blocks -> SUBSET Nat]
    BY <1>2 DEF IndexOf
<1> QED
    BY <1>1, <1>2, <1>3, <1>4, <1>5

-----------------------------------------------------------------------------
(* Each action preserves it *)

LEMMA BlockStep ==
    ASSUME IInv,
           NEW b \in Blocks \cup {Plain}, NEW d \in Score \ {0}, NEW reds \in SUBSET Blocks,
           NEW bare \in BOOLEAN, NEW how \in Saves,
           HandleBlock(b, d, reds, bare, how)
    PROVE  IInv'
<1>1. /\ \A k \in DOMAIN OutputsOf(b) : born[OutputsOf(b)[k]] = 0
      /\ ScanBlock(b, d, reds, bare, how)
      /\ last_daa_score' = d
      /\ blocks_since_compact' = IF CompactionDue THEN 0 ELSE blocks_since_compact + 1
      /\ chain_daa' = IF d > chain_daa THEN d ELSE chain_daa
      /\ born' = [o \in Outpoints |-> IF b \in Blocks /\ InBlock(o, b) THEN d ELSE born[o]]
      /\ red' = red \cup reds
      /\ UNCHANGED <<spent, replies, restarts>>
    BY DEF HandleBlock
<1>2. Scanned(b, d, reds)
    BY <1>1, ScanEffect DEF IInv, TypeOK
<1>3. d \in Nat /\ d > 0 /\ d \in Score
    BY ParameterAssumption DEF Score
<1>4. chain_daa \in Score /\ chain_daa' \in Score \ {0} /\ chain_daa <= chain_daa' /\ d <= chain_daa'
    BY <1>1, <1>3, ParameterAssumption DEF IInv, TypeOK, Score
<1>5. \A o \in Coinbases : o \in Outpoints /\ (born[o] > 0 => born'[o] = born[o])
    <2>1. \A o : InBlock(o, b) /\ b \in Blocks => born[o] = 0
        BY <1>1 DEF InBlock, OutputsOf
    <2> QED
        BY <1>1, <2>1 DEF Outpoints
<1>6. born' \in [Outpoints -> Score]
    BY <1>1, <1>3 DEF IInv, TypeOK
<1>7. \A k \in DOMAIN OutputsOf(b) :
        /\ OutputsOf(b)[k] \in Outpoints
        /\ born'[OutputsOf(b)[k]] = d
    <2>1. CASE b \in Blocks
        BY <1>1, <2>1, OutputsType DEF OutputsOf
    <2>2. CASE b \notin Blocks
        BY <2>2, EmptySeq DEF OutputsOf
    <2> QED
        BY <2>1, <2>2
<1>8. entries' \in Seq(LogEntry)
    BY <1>2 DEF Scanned
<1>9. Sound(entries', born')
    <2>1. Distinct(entries')
        BY <1>2 DEF Scanned, Exact
    <2>2. ASSUME NEW j \in DOMAIN entries', NEW i \in DOMAIN entries,
                 Aged(entries[i], entries'[j], reds)
          PROVE  /\ entries'[j].o \in Coinbases =>
                        born'[entries'[j].o] > 0 /\ born'[entries'[j].o] <= entries'[j].confirm
                 /\ entries'[j].retries >= MaxOrphanRetries => entries'[j].slashed
        <3>1. entries[i] \in LogEntry /\ entries'[j] \in LogEntry /\ entries[i].o \in Outpoints
            BY <1>8, EntriesType DEF IInv, TypeOK
        <3>2. /\ entries[i].o \in Coinbases =>
                    born[entries[i].o] > 0 /\ born[entries[i].o] <= entries[i].confirm
              /\ entries[i].retries >= MaxOrphanRetries => entries[i].slashed
            BY DEF IInv, Sound
        <3> QED
            BY <1>5, <2>2, <3>1, <3>2, AgedFields
    <2>3. ASSUME NEW j \in DOMAIN entries', NEW k \in DOMAIN OutputsOf(b),
                 entries'[j] = NewEntry(OutputsOf(b)[k], d)
          PROVE  /\ entries'[j].o \in Coinbases =>
                        born'[entries'[j].o] > 0 /\ born'[entries'[j].o] <= entries'[j].confirm
                 /\ entries'[j].retries >= MaxOrphanRetries => entries'[j].slashed
        BY <1>3, <1>7, <2>3, ParameterAssumption DEF NewEntry
    <2> QED
        BY <1>2, <2>1, <2>2, <2>3 DEF Sound, Scanned
<1>10. disk' \in Seq(LogEntry) /\ Sound(disk', born')
    <2>1. disk' = disk \/ disk' = entries' \/ disk' = <<>>
        BY <1>2 DEF Scanned, Flushes
    <2>2. Sound(disk, born')
        BY <1>5, SoundLater DEF IInv, TypeOK
    <2> QED
        BY <1>8, <1>9, <2>1, <2>2, EmptySound DEF IInv, TypeOK
<1>11. \/ UNCHANGED <<pending, submits>>
       \/ /\ pending = NoClaim
          /\ \E i \in DOMAIN entries' : /\ Eligible(entries'[i], d)
                                        /\ pending' = entries'[i].o
                                        /\ submits' = Append(submits, entries'[i].o)
    BY <1>2 DEF Scanned, Claims
<1>12. pending' \in Outpoints \cup {NoClaim} /\ submits' \in Seq(Outpoints \cup {AiTx})
    <2>1. CASE UNCHANGED <<pending, submits>>
        BY <2>1 DEF IInv, TypeOK
    <2>2. ASSUME NEW i \in DOMAIN entries', pending' = entries'[i].o,
                 submits' = Append(submits, entries'[i].o)
          PROVE  pending' \in Outpoints \cup {NoClaim} /\ submits' \in Seq(Outpoints \cup {AiTx})
        <3>1. entries'[i].o \in Outpoints
            BY <1>8, EntriesType
        <3> QED
            BY <2>2, <3>1, AppendProperties DEF IInv, TypeOK
    <2> QED
        BY <1>11, <2>1, <2>2
<1>13. TypeOK'
    <2>1. dirty' \in BOOLEAN
        BY <1>2 DEF Scanned, Flushes
    <2>2. outpoint_set' \subseteq Outpoints /\ block_index' \in [Blocks -> SUBSET Nat]
        BY <1>2, <1>8, EntriesType DEF Scanned, Exact
    <2>3. blocks_since_compact' \in 0..(CompactEvery - 1)
        <3>1. /\ CompactEvery \in Nat /\ CompactEvery > 0
              /\ blocks_since_compact \in 0..(CompactEvery - 1)
            BY ParameterAssumption, SMTT(30) DEF IInv, TypeOK
        <3> QED
            BY <1>1, <3>1 DEF CompactionDue
    <2>4. red' \subseteq Blocks
        BY <1>1 DEF IInv, TypeOK
    <2> QED
        BY <1>1, <1>3, <1>4, <1>6, <1>8, <1>10, <1>12, <2>1, <2>2, <2>3, <2>4 DEF IInv, TypeOK
<1>14. PendingOpen'
    <2> SUFFICES ASSUME NEW j \in DOMAIN entries', entries'[j].o = pending'
                 PROVE  entries'[j].retries < MaxOrphanRetries
        BY DEF PendingOpen
    <2>1. ASSUME NEW i \in DOMAIN entries', Eligible(entries'[i], d), pending' = entries'[i].o
          PROVE  entries'[j].retries < MaxOrphanRetries
        <3>1. i = j
            BY <1>9, <2>1 DEF Sound, Distinct
        <3>2. ~entries'[j].slashed
            BY <2>1, <3>1 DEF Eligible, Done
        <3>3. entries'[j].retries \in Nat
            BY <1>8, EntriesType
        <3> QED
            BY <1>9, <3>2, <3>3, ParameterAssumption DEF Sound
    <2>2. CASE pending' = pending
        <3>1. ASSUME NEW i \in DOMAIN entries, Aged(entries[i], entries'[j], reds)
              PROVE  entries'[j].retries < MaxOrphanRetries
            <4>1. entries[i] \in LogEntry /\ entries'[j] \in LogEntry
                BY <1>8, EntriesType DEF IInv, TypeOK
            <4> QED
                BY <2>2, <3>1, <4>1, AgedFields DEF IInv, PendingOpen
        <3>2. ASSUME NEW k \in DOMAIN OutputsOf(b), entries'[j] = NewEntry(OutputsOf(b)[k], d)
              PROVE  entries'[j].retries < MaxOrphanRetries
            BY <3>2, ParameterAssumption DEF NewEntry
        <3> QED
            BY <1>2, <3>1, <3>2 DEF Scanned
    <2> QED
        BY <1>11, <2>1, <2>2
<1>15. ClaimsAreBorn' /\ ClaimsAreMature'
    <2> SUFFICES ASSUME NEW k \in DOMAIN submits', submits'[k] \in Coinbases
                 PROVE  /\ born'[submits'[k]] > 0
                        /\ chain_daa' >= Later(born'[submits'[k]], Window + Margin)
        BY DEF ClaimsAreBorn, ClaimsAreMature
    <2>0. Window + Margin \in Nat
        BY ParameterAssumption
    <2>1. ASSUME NEW o \in Coinbases, born[o] > 0, chain_daa >= Later(born[o], Window + Margin)
          PROVE  born'[o] > 0 /\ chain_daa' >= Later(born'[o], Window + Margin)
        <3>1. Later(born[o], Window + Margin) \in Score
            BY <1>5, <2>0, LaterType DEF IInv, TypeOK
        <3> QED
            BY <1>4, <1>5, <2>1, <3>1, ParameterAssumption DEF Score
    <2>2. \A n \in DOMAIN submits : submits[n] \in Coinbases =>
             born[submits[n]] > 0 /\ chain_daa >= Later(born[submits[n]], Window + Margin)
        BY DEF IInv, ClaimsAreBorn, ClaimsAreMature
    <2>3. CASE submits' = submits
        BY <2>1, <2>2, <2>3
    <2>4. ASSUME NEW i \in DOMAIN entries', Eligible(entries'[i], d),
                 submits' = Append(submits, entries'[i].o)
          PROVE  /\ born'[submits'[k]] > 0
                 /\ chain_daa' >= Later(born'[submits'[k]], Window + Margin)
        <3>1. entries'[i].o \in Outpoints /\ entries'[i].confirm \in Score
            BY <1>8, EntriesType
        <3>2. \/ k \in DOMAIN submits /\ submits'[k] = submits[k]
              \/ submits'[k] = entries'[i].o
            <4>1. submits \in Seq(Outpoints \cup {AiTx}) /\ submits' \in Seq(Outpoints \cup {AiTx})
                BY <1>12 DEF IInv, TypeOK
            <4>2. /\ Len(submits') = Len(submits) + 1 /\ Len(submits) \in Nat
                  /\ \A n \in 1..Len(submits) : submits'[n] = submits[n]
                  /\ submits'[Len(submits) + 1] = entries'[i].o
                BY <2>4, <3>1, <4>1, AppendProperties, LenProperties
            <4>3. DOMAIN submits = 1..Len(submits) /\ DOMAIN submits' = 1..Len(submits')
                BY <4>1, LenProperties
            <4> QED
                BY <4>2, <4>3
        <3> SUFFICES ASSUME submits'[k] = entries'[i].o, entries'[i].o \in Coinbases
                     PROVE  /\ born'[submits'[k]] > 0
                            /\ chain_daa' >= Later(born'[submits'[k]], Window + Margin)
            BY <2>1, <2>2, <3>2
        <3>3. born'[entries'[i].o] > 0 /\ born'[entries'[i].o] <= entries'[i].confirm
            BY <1>9 DEF Sound
        <3>4. d >= Later(entries'[i].confirm, Window + Margin)
            BY <2>4 DEF Eligible
        <3>5. Later(born'[entries'[i].o], Window + Margin)
                    <= Later(entries'[i].confirm, Window + Margin)
            BY <1>6, <2>0, <3>1, <3>3, LaterMonotone
        <3>6. /\ Later(born'[entries'[i].o], Window + Margin) \in Score
              /\ Later(entries'[i].confirm, Window + Margin) \in Score
            BY <1>6, <2>0, <3>1, LaterType
        <3>7. chain_daa' >= Later(born'[entries'[i].o], Window + Margin)
            BY <1>3, <1>4, <3>4, <3>5, <3>6, ParameterAssumption DEF Score
        <3> QED
            BY <3>3, <3>7
    <2> QED
        BY <1>11, <2>3, <2>4
<1> QED
    BY <1>2, <1>9, <1>10, <1>13, <1>14, <1>15 DEF IInv, Scanned

\* The part of the invariant about the wire does not see the watcher's memory.
LEMMA WireStep ==
    ASSUME ClaimsAreBorn, ClaimsAreMature, UNCHANGED <<submits, chain_daa, born>>
    PROVE  ClaimsAreBorn' /\ ClaimsAreMature'
BY DEF ClaimsAreBorn, ClaimsAreMature

LEMMA ReplyStep ==
    ASSUME IInv, NEW how \in Saves, HandleReply(how)
    PROVE  IInv'
<1> DEFINE v == Head(replies)
           after == [i \in DOMAIN entries |->
                        IF entries[i].o = pending THEN Answered(entries[i], v) ELSE entries[i]]
<1>1. /\ replies # <<>> /\ replies' = Tail(replies)
      /\ UNCHANGED <<last_daa_score, blocks_since_compact, submits, node, restarts>>
    BY DEF HandleReply
<1>2. v \in Verdict /\ replies' \in Seq(Verdict)
    BY <1>1, HeadTailProperties DEF IInv, TypeOK
<1> HIDE DEF v
<1>3. ClaimsAreBorn' /\ ClaimsAreMature'
    BY <1>1, WireStep DEF IInv, node
<1>4. CASE pending # NoClaim /\ OnSubmitResponse(v, how)
    <2>1. /\ entries' = after
          /\ pending' = NoClaim
          /\ MaybeFlush(after, TRUE, how)
          /\ UNCHANGED <<outpoint_set, block_index>>
        BY <1>4 DEF OnSubmitResponse
    <2>2. \A i \in DOMAIN entries :
            /\ entries[i] \in LogEntry
            /\ entries[i].o = pending => entries[i].retries < MaxOrphanRetries
        BY EntriesType DEF IInv, TypeOK, PendingOpen
    <2>3. \A i \in DOMAIN entries :
            /\ after[i] \in LogEntry
            /\ after[i].o = entries[i].o /\ after[i].confirm = entries[i].confirm
            /\ after[i].retries >= MaxOrphanRetries => after[i].slashed
        <3> SUFFICES ASSUME NEW i \in DOMAIN entries
                     PROVE  /\ after[i] \in LogEntry
                            /\ after[i].o = entries[i].o /\ after[i].confirm = entries[i].confirm
                            /\ after[i].retries >= MaxOrphanRetries => after[i].slashed
            OBVIOUS
        <3>1. CASE entries[i].o = pending
            BY <1>2, <2>2, <3>1, AnsweredType, AnsweredEffect DEF IInv, TypeOK
        <3>2. CASE entries[i].o # pending
            BY <2>2, <3>2 DEF IInv, Sound
        <3> QED
            BY <3>1, <3>2
    <2>4. DOMAIN after = DOMAIN entries
        OBVIOUS
    <2>5. after \in Seq(LogEntry)
        <3>1. after \in [1..Len(entries) -> LogEntry] /\ Len(entries) \in Nat
            BY <2>3, LenProperties DEF IInv, TypeOK
        <3> QED
            BY <3>1, FunctionIsSeq
    <2> HIDE DEF after
    <2>6. Sound(after, born)
        BY <2>3, <2>4 DEF IInv, Sound, Distinct
    <2>7. Exact(after, outpoint_set, block_index)
        <3>1. Tracked(after) = Tracked(entries) /\ IndexOf(after) = IndexOf(entries)
            BY <2>3, <2>4 DEF Tracked, IndexOf
        <3> QED
            BY <2>6, <3>1 DEF IInv, Exact, Sound
    <2>8. Flushes(after, TRUE)
        BY <2>1, MaybeFlushEffect
    <2>9. disk' \in Seq(LogEntry) /\ Sound(disk', born) /\ dirty' \in BOOLEAN
        BY <2>5, <2>6, <2>8, EmptySound DEF Flushes, IInv, TypeOK
    <2>10. PendingOpen'
        <3>1. \A i \in DOMAIN after : after[i].o \in Outpoints
            BY <2>5, EntriesType
        <3> QED
            BY <2>1, <3>1, DataAssumption DEF PendingOpen
    <2>11. TypeOK'
        BY <1>1, <1>2, <2>1, <2>5, <2>9 DEF IInv, TypeOK, node
    <2>12. Exact(entries', outpoint_set', block_index')
        BY <2>1, <2>7
    <2>13. Sound(entries', born') /\ Sound(disk', born')
        BY <1>1, <2>1, <2>6, <2>9 DEF node
    <2> QED
        BY <1>1, <1>3, <2>10, <2>11, <2>12, <2>13 DEF IInv, node
<1>5. CASE UNCHANGED <<memory, pending, disk>>
    <2>1. TypeOK'
        BY <1>1, <1>2, <1>5 DEF IInv, TypeOK, node, memory
    <2> QED
        BY <1>1, <1>3, <1>5, <2>1 DEF IInv, PendingOpen, node, memory
<1> QED
    BY <1>4, <1>5 DEF HandleReply, v

LEMMA NodeAnswerStep ==
    ASSUME IInv, NodeAnswer
    PROVE  IInv'
<1>1. /\ submits # <<>>
      /\ submits' = Tail(submits)
      /\ UNCHANGED <<watcher, disk, chain_daa, born, red, restarts>>
    BY DEF NodeAnswer
<1>2. PICK v \in Verdicts(Head(submits)) :
        /\ replies' = Append(replies, v)
        /\ spent' = IF v = "ok" /\ Head(submits) # AiTx THEN spent \cup {Head(submits)} ELSE spent
    BY DEF NodeAnswer
<1>3. /\ submits \in Seq(Outpoints \cup {AiTx}) /\ Head(submits) \in Outpoints \cup {AiTx}
      /\ submits' \in Seq(Outpoints \cup {AiTx}) /\ Len(submits) \in Nat
      /\ Len(submits') = Len(submits) - 1
      /\ \A i \in 1..Len(submits') : submits'[i] = submits[i + 1]
    BY <1>1, HeadTailProperties, LenProperties DEF IInv, TypeOK
<1>4. v \in Verdict
    BY DEF Verdicts, Verdict
<1>5. TypeOK'
    <2>1. replies' \in Seq(Verdict)
        BY <1>2, <1>4, AppendProperties DEF IInv, TypeOK
    <2>2. spent' \subseteq Outpoints
        BY <1>2, <1>3 DEF IInv, TypeOK
    <2> QED
        BY <1>1, <1>3, <2>1, <2>2 DEF IInv, TypeOK, watcher, memory
<1>6. ClaimsAreBorn' /\ ClaimsAreMature'
    <2>1. \A k \in DOMAIN submits' : k + 1 \in DOMAIN submits /\ submits'[k] = submits[k + 1]
        BY <1>3, LenProperties
    <2> QED
        BY <1>1, <2>1 DEF IInv, ClaimsAreBorn, ClaimsAreMature
<1> QED
    BY <1>1, <1>5, <1>6 DEF IInv, PendingOpen, watcher, memory

LEMMA InferenceStep ==
    ASSUME IInv, NEW q \in Requests \cup {Plain}, NEW d \in Score, NEW how \in Saves,
           AnswerInference(q, d, how)
    PROVE  IInv'
<1>1. /\ submits' = Append(submits, AiTx)
      /\ TrackInferenceEscrow(q, d, how)
      /\ UNCHANGED <<pending, last_daa_score, blocks_since_compact, replies, node, restarts>>
    BY DEF AnswerInference
<1>2. UNCHANGED <<chain_daa, born, red, spent>>
    BY <1>1 DEF node
<1>3. q \in Requests => q \in Outpoints /\ q \notin Coinbases
    BY DataAssumption DEF Outpoints
<1>4. AiTx \notin Coinbases
    BY DataAssumption DEF Outpoints
<1>5. /\ submits \in Seq(Outpoints \cup {AiTx}) /\ submits' \in Seq(Outpoints \cup {AiTx})
      /\ \A k \in DOMAIN submits' :
            submits'[k] # AiTx => k \in DOMAIN submits /\ submits'[k] = submits[k]
    <2>1. submits \in Seq(Outpoints \cup {AiTx}) /\ AiTx \in Outpoints \cup {AiTx}
        BY DEF IInv, TypeOK
    <2>2. /\ submits' \in Seq(Outpoints \cup {AiTx})
          /\ Len(submits') = Len(submits) + 1
          /\ \A i \in 1..Len(submits) : submits'[i] = submits[i]
          /\ submits'[Len(submits) + 1] = AiTx
        BY <1>1, <2>1, AppendProperties
    <2>3. DOMAIN submits = 1..Len(submits) /\ Len(submits) \in Nat /\ DOMAIN submits' = 1..Len(submits')
        BY <2>1, <2>2, LenProperties
    <2> QED
        BY <2>1, <2>2, <2>3
<1>6. ClaimsAreBorn' /\ ClaimsAreMature'
    BY <1>2, <1>4, <1>5 DEF IInv, ClaimsAreBorn, ClaimsAreMature
<1>7. Sound(entries, born') /\ Sound(disk, born')
    BY <1>2 DEF IInv
<1>8. CASE q \in Requests /\ q \notin outpoint_set
    <2> DEFINE e == NewEntry(q, d)
               after == Append(entries, e)
    <2>1. /\ entries' = after
          /\ outpoint_set' = outpoint_set \cup {q}
          /\ block_index' = block_index
          /\ MaybeFlush(entries', TRUE, how)
        BY <1>1, <1>8 DEF TrackInferenceEscrow
    <2>2. /\ e \in LogEntry
          /\ e.o = q /\ e.retries < MaxOrphanRetries /\ ~(e.retries >= MaxOrphanRetries)
        BY <1>3, <1>8, NewEntryType, ParameterAssumption DEF NewEntry
    <2>4. \A i \in DOMAIN entries : entries[i].o # q
        BY <1>8 DEF IInv, Exact, Tracked
    <2> HIDE DEF e
    <2>5. /\ after \in Seq(LogEntry)
          /\ DOMAIN after = 1..Len(entries) + 1 /\ DOMAIN entries = 1..Len(entries)
          /\ Len(entries) \in Nat
          /\ \A i \in DOMAIN entries : after[i] = entries[i]
          /\ after[Len(entries) + 1] = e
        <3>1. entries \in Seq(LogEntry)
            BY DEF IInv, TypeOK
        <3>2. /\ after \in Seq(LogEntry)
              /\ Len(after) = Len(entries) + 1
              /\ \A i \in 1..Len(entries) : after[i] = entries[i]
              /\ after[Len(entries) + 1] = e
            BY <2>2, <3>1, AppendProperties
        <3> QED
            BY <3>1, <3>2, LenProperties
    <2> HIDE DEF after
    <2>6. \A i \in DOMAIN after : \/ i \in DOMAIN entries /\ after[i] = entries[i]
                                  \/ i = Len(entries) + 1 /\ after[i] = e
        BY <2>5
    <2>7. Sound(after, born')
        <3>1. Distinct(after)
            BY <1>7, <2>2, <2>4, <2>6 DEF Sound, Distinct
        <3> QED
            BY <1>3, <1>7, <1>8, <2>2, <2>6, <3>1 DEF Sound
    <2>8. Exact(after, outpoint_set \cup {q}, block_index)
        <3>1. Tracked(after) = Tracked(entries) \cup {q}
            <4>1. \A i \in DOMAIN entries : i \in DOMAIN after
                BY <2>5
            <4>2. Len(entries) + 1 \in DOMAIN after
                BY <2>5
            <4> QED
                BY <2>2, <2>5, <2>6, <4>1, <4>2 DEF Tracked
        <3>2. IndexOf(after) = IndexOf(entries)
            <4>1. \A b \in Blocks : ~InBlock(q, b)
                BY <1>8, OutputsType, DataAssumption DEF InBlock, Coinbases
            <4>2. \A i : i \in DOMAIN entries => i \in DOMAIN after
                BY <2>5
            <4>3. \A b \in Blocks : {i \in DOMAIN after : InBlock(after[i].o, b)}
                                        = {i \in DOMAIN entries : InBlock(entries[i].o, b)}
                <5> SUFFICES ASSUME NEW b \in Blocks, NEW i
                             PROVE  i \in DOMAIN after /\ InBlock(after[i].o, b)
                                        <=> i \in DOMAIN entries /\ InBlock(entries[i].o, b)
                    OBVIOUS
                <5>1. CASE i \in DOMAIN entries
                    BY <2>5, <4>2, <5>1
                <5>2. CASE i \notin DOMAIN entries
                    BY <2>2, <2>6, <4>1, <5>2
                <5> QED
                    BY <5>1, <5>2
            <4> QED
                BY <4>3 DEF IndexOf
        <3> QED
            BY <2>7, <3>1, <3>2 DEF Exact, IInv, Sound
    <2>9. Flushes(after, TRUE)
        BY <2>1, MaybeFlushEffect
    <2>10. disk' \in Seq(LogEntry) /\ Sound(disk', born') /\ dirty' \in BOOLEAN
        BY <1>7, <2>5, <2>7, <2>9, EmptySound DEF Flushes, IInv, TypeOK
    <2>11. PendingOpen'
        BY <1>1, <2>1, <2>2, <2>6 DEF IInv, PendingOpen
    <2>12. outpoint_set' \subseteq Outpoints
        BY <1>3, <1>8, <2>1 DEF IInv, TypeOK
    <2>13. TypeOK'
        BY <1>1, <1>2, <1>5, <2>1, <2>5, <2>10, <2>12 DEF IInv, TypeOK
    <2>14. Exact(entries', outpoint_set', block_index') /\ Sound(entries', born')
        BY <2>1, <2>7, <2>8
    <2> QED
        BY <1>6, <2>10, <2>11, <2>13, <2>14 DEF IInv
<1>9. CASE ~(q \in Requests /\ q \notin outpoint_set)
    <2>1. UNCHANGED <<memory, disk>>
        BY <1>1, <1>9 DEF TrackInferenceEscrow
    <2>2. TypeOK'
        BY <1>1, <1>2, <1>5, <2>1 DEF IInv, TypeOK, memory
    <2> QED
        BY <1>1, <1>6, <1>7, <2>1, <2>2 DEF IInv, PendingOpen, memory
<1> QED
    BY <1>8, <1>9

LEMMA MinedStep ==
    ASSUME IInv, RequestMined
    PROVE  IInv'
<1>1. UNCHANGED <<watcher, disk, wire, chain_daa, red, spent, restarts>>
    BY DEF RequestMined
<1>2. PICK q \in Requests : born' = [born EXCEPT ![q] = chain_daa]
    BY DEF RequestMined
<1>3. born' \in [Outpoints -> Score] /\ \A o \in Coinbases : born'[o] = born[o]
    <2>1. chain_daa \in Score /\ born \in [Outpoints -> Score]
        BY DEF IInv, TypeOK
    <2>2. \A o \in Coinbases : o \in Outpoints /\ o # q
        BY DataAssumption DEF Outpoints
    <2> QED
        BY <1>2, <2>1, <2>2
<1>4. TypeOK'
    BY <1>1, <1>3 DEF IInv, TypeOK, watcher, memory, wire
<1>5. Sound(entries', born') /\ Sound(disk', born')
    BY <1>1, <1>3 DEF IInv, Sound, watcher, memory
<1>6. ClaimsAreBorn' /\ ClaimsAreMature'
    BY <1>1, <1>3 DEF IInv, ClaimsAreBorn, ClaimsAreMature, wire
<1> QED
    BY <1>1, <1>4, <1>5, <1>6 DEF IInv, PendingOpen, watcher, memory

\* A watcher built from a sound list.
LEMMA LoadStep ==
    ASSUME IInv, NEW es, LoadFrom(es), disk' = es, es \in Seq(LogEntry), Sound(es, born),
           submits' = <<>>, replies' = <<>>, restarts' \in 0..MaxRestarts, UNCHANGED node
    PROVE  IInv'
<1>1. /\ entries' = es /\ outpoint_set' = Tracked(es) /\ block_index' = IndexOf(es)
      /\ pending' = NoClaim /\ last_daa_score' = 0 /\ blocks_since_compact' = 0 /\ dirty' = FALSE
    BY DEF LoadFrom
<1>2. \A i \in DOMAIN es : es[i].o \in Outpoints
    BY EntriesType
<1>3. TypeOK'
    <2>1. <<>> \in Seq(Outpoints \cup {AiTx}) /\ <<>> \in Seq(Verdict)
        BY EmptySeq
    <2>2. 0 \in Score /\ 0 \in 0..(CompactEvery - 1)
        BY ParameterAssumption DEF Score
    <2> QED
        BY <1>1, <2>1, <2>2, EntriesType DEF IInv, TypeOK, node
<1>4. Exact(entries', outpoint_set', block_index') /\ Sound(entries', born') /\ Sound(disk', born')
    BY <1>1 DEF Exact, Sound, node
<1>5. PendingOpen'
    BY <1>1, <1>2, DataAssumption DEF PendingOpen
<1>6. ClaimsAreBorn' /\ ClaimsAreMature'
    BY EmptySeq DEF ClaimsAreBorn, ClaimsAreMature
<1> QED
    BY <1>3, <1>4, <1>5, <1>6 DEF IInv

LEMMA ReconnectStep ==
    ASSUME IInv, Reconnect
    PROVE  IInv'
<1>1. restarts' \in 0..MaxRestarts
    <2>1. MaxRestarts \in Nat /\ restarts \in 0..MaxRestarts
        BY ParameterAssumption DEF IInv, TypeOK
    <2> QED
        BY <2>1 DEF Reconnect
<1> QED
    BY <1>1, LoadStep DEF Reconnect, IInv, TypeOK

\* The list --recover-escrow writes.
LEMMA RecoveredSound ==
    ASSUME IInv, NEW f \in Orders(Claimable), NEW recovered,
           recovered = [k \in DOMAIN f |-> NewEntry(f[k], born[f[k]])]
    PROVE  /\ recovered \in Seq(LogEntry) /\ Sound(recovered, born)
           /\ \A i \in DOMAIN recovered : ~recovered[i].claimed /\ ~recovered[i].slashed
<1>1. Claimable \in SUBSET Coinbases
    BY DEF Claimable
<1>2. Cardinality(Claimable) \in Nat
    <2>1. IsFiniteSet(Claimable)
        BY <1>1, DataAssumption, FS_Subset
    <2> QED
        BY <2>1, FS_CardinalityType
<1>3. /\ f \in [1..Cardinality(Claimable) -> Claimable]
      /\ \A j, k \in DOMAIN f : f[j] = f[k] => j = k
    BY DEF Orders
<1>4. \A k \in DOMAIN f : f[k] \in Outpoints /\ born[f[k]] > 0 /\ born[f[k]] \in Score
    BY <1>1, <1>3 DEF Claimable, Outpoints, IInv, TypeOK
<1>5. \A k \in DOMAIN f : recovered[k] \in LogEntry
    BY <1>4, NewEntryType
<1>6. recovered \in Seq(LogEntry)
    <2>1. recovered \in [1..Cardinality(Claimable) -> LogEntry]
        BY <1>3, <1>5
    <2> QED
        BY <1>2, <2>1, FunctionIsSeq
<1>7. \A k \in DOMAIN f :
        /\ recovered[k].o = f[k] /\ recovered[k].confirm = born[f[k]] /\ recovered[k].retries = 0
        /\ recovered[k].claimed = FALSE /\ recovered[k].slashed = FALSE
    BY DEF NewEntry
<1>8. DOMAIN recovered = DOMAIN f
    OBVIOUS
<1>9. Sound(recovered, born)
    <2>1. ~(0 >= MaxOrphanRetries)
        BY ParameterAssumption
    <2>2. \A k \in DOMAIN f : born[f[k]] <= born[f[k]]
        BY <1>4, ParameterAssumption DEF Score
    <2> QED
        BY <1>3, <1>4, <1>7, <1>8, <2>1, <2>2 DEF Sound, Distinct
<1> QED
    BY <1>6, <1>7, <1>8, <1>9

LEMMA RecoverStep ==
    ASSUME IInv, Recover
    PROVE  IInv'
<1>1. restarts' \in 0..MaxRestarts
    <2>1. MaxRestarts \in Nat /\ restarts \in 0..MaxRestarts
        BY ParameterAssumption DEF IInv, TypeOK
    <2> QED
        BY <2>1 DEF Recover
<1>2. PICK f \in Orders(Claimable) :
        /\ disk' = [k \in DOMAIN f |-> NewEntry(f[k], born[f[k]])]
        /\ LoadFrom([k \in DOMAIN f |-> NewEntry(f[k], born[f[k]])])
    BY DEF Recover
<1> DEFINE recovered == [k \in DOMAIN f |-> NewEntry(f[k], born[f[k]])]
<1>3. recovered \in Seq(LogEntry) /\ Sound(recovered, born)
    BY RecoveredSound
<1>4. LoadFrom(recovered) /\ disk' = recovered
    BY <1>2
<1>5. submits' = <<>> /\ replies' = <<>> /\ UNCHANGED node
    BY DEF Recover
<1> HIDE DEF recovered
<1> QED
    BY <1>1, <1>3, <1>4, <1>5, LoadStep

-----------------------------------------------------------------------------
(* The theorems *)

LEMMA InitIInv == Init => IInv
<1> SUFFICES ASSUME Init PROVE IInv
    OBVIOUS
<1>1. /\ disk = [k \in DOMAIN Carried |-> NewEntry(Carried[k], 1)]
      /\ entries = disk /\ outpoint_set = Tracked(disk) /\ block_index = IndexOf(disk)
      /\ pending = NoClaim /\ last_daa_score = 0 /\ blocks_since_compact = 0 /\ dirty = FALSE
      /\ submits = <<>> /\ replies = <<>> /\ chain_daa = 1
      /\ born = [o \in Outpoints |-> IF \E k \in DOMAIN Carried : Carried[k] = o THEN 1 ELSE 0]
      /\ red = {} /\ spent = {} /\ restarts = 0
    BY DEF Init
<1>2. 0 \in Score /\ 1 \in Score /\ 0 \in 0..(CompactEvery - 1) /\ 0 \in 0..MaxRestarts
    BY ParameterAssumption DEF Score
<1>3. /\ Carried \in [1..Len(Carried) -> Outpoints] /\ Len(Carried) \in Nat
      /\ DOMAIN Carried = 1..Len(Carried)
      /\ \A j, k \in DOMAIN Carried : Carried[j] = Carried[k] => j = k
    BY DataAssumption, LenProperties
<1>4. \A k \in DOMAIN Carried :
        /\ disk[k] \in LogEntry
        /\ disk[k].o = Carried[k] /\ disk[k].confirm = 1 /\ disk[k].retries = 0
        /\ born[Carried[k]] = 1
    BY <1>1, <1>2, <1>3, NewEntryType DEF NewEntry
<1>5. disk \in Seq(LogEntry)
    <2>1. disk \in [1..Len(Carried) -> LogEntry]
        BY <1>1, <1>3, <1>4
    <2> QED
        BY <1>3, <2>1, FunctionIsSeq
<1>6. DOMAIN disk = DOMAIN Carried
    BY <1>1
<1>7. Sound(disk, born)
    <2>1. ~(0 >= MaxOrphanRetries)
        BY ParameterAssumption
    <2> QED
        BY <1>3, <1>4, <1>6, <2>1 DEF Sound, Distinct
<1>8. born \in [Outpoints -> Score]
    BY <1>1, <1>2
<1>9. TypeOK
    <2>1. <<>> \in Seq(Outpoints \cup {AiTx}) /\ <<>> \in Seq(Verdict)
        BY EmptySeq
    <2>2. Tracked(disk) \subseteq Outpoints /\ IndexOf(disk) \in [Blocks -> SUBSET Nat]
        BY <1>5, EntriesType
    <2>3. entries \in Seq(LogEntry) /\ submits \in Seq(Outpoints \cup {AiTx}) /\ replies \in Seq(Verdict)
        BY <1>1, <1>5, <2>1
    <2>4. outpoint_set \subseteq Outpoints /\ block_index \in [Blocks -> SUBSET Nat]
        BY <1>1, <2>2
    <2>5. /\ last_daa_score \in Score /\ chain_daa \in Score \ {0}
          /\ blocks_since_compact \in 0..(CompactEvery - 1) /\ restarts \in 0..MaxRestarts
        <3>1. /\ last_daa_score = 0 /\ chain_daa = 1
              /\ blocks_since_compact = 0 /\ restarts = 0
            BY <1>1
        <3> QED
            BY <1>2, <3>1
    <2>6. /\ pending \in Outpoints \cup {NoClaim} /\ dirty \in BOOLEAN
          /\ red \subseteq Blocks /\ spent \subseteq Outpoints
        BY <1>1
    <2> QED
        BY <1>5, <1>8, <2>3, <2>4, <2>5, <2>6 DEF TypeOK
<1>10. PendingOpen
    <2>1. \A i \in DOMAIN disk : disk[i].o \in Outpoints
        BY <1>5, EntriesType
    <2> QED
        BY <1>1, <2>1, DataAssumption DEF PendingOpen
<1>11. ClaimsAreBorn /\ ClaimsAreMature
    BY <1>1 DEF ClaimsAreBorn, ClaimsAreMature
<1>12. Exact(entries, outpoint_set, block_index) /\ Sound(entries, born)
    BY <1>1, <1>7 DEF Exact, Sound
<1> QED
    BY <1>7, <1>9, <1>10, <1>11, <1>12 DEF IInv

\* The scores BlockAdded announces.
LEMMA AnnouncedScore ==
    ASSUME IInv, NEW d \in 1..Later(chain_daa, 1)
    PROVE  d \in Score \ {0}
<1>1. Later(chain_daa, 1) \in Score
    BY LaterType DEF IInv, TypeOK
<1> QED
    BY <1>1, ParameterAssumption DEF Score

LEMMA NextIInv == IInv /\ [Next]_vars => IInv'
<1> SUFFICES ASSUME IInv, [Next]_vars PROVE IInv'
    OBVIOUS
<1>1. CASE BlockAdded
    <2>1. PICK d \in 1..Later(chain_daa, 1), reds \in SUBSET Blocks, how \in Saves :
            \/ \E b \in Blocks \cup {Plain} : HandleBlock(b, d, reds, FALSE, how)
            \/ HandleBlock(Plain, d, reds, TRUE, "skip")
        BY <1>1 DEF BlockAdded
    <2>2. d \in Score \ {0}
        BY AnnouncedScore
    <2>3. "skip" \in Saves
        BY ParameterAssumption
    <2> QED
        BY <2>1, <2>2, <2>3, BlockStep
<1>2. CASE NodeAnswer
    BY <1>2, NodeAnswerStep
<1>3. CASE \E how \in Saves : HandleReply(how)
    BY <1>3, ReplyStep
<1>4. CASE \E q \in Requests \cup {Plain}, d \in 0..MaxScore, how \in Saves :
                AnswerInference(q, d, how)
    BY <1>4, InferenceStep DEF Score
<1>5. CASE Reconnect
    BY <1>5, ReconnectStep
<1>6. CASE Recover
    BY <1>6, RecoverStep
<1>7. CASE RequestMined
    BY <1>7, MinedStep
<1>8. CASE UNCHANGED vars
    BY <1>8 DEF IInv, TypeOK, PendingOpen, ClaimsAreBorn, ClaimsAreMature,
                vars, watcher, memory, wire, node
<1> QED
    BY <1>1, <1>2, <1>3, <1>4, <1>5, <1>6, <1>7, <1>8 DEF Next

\* Everything below rests on one inductive invariant.
THEOREM EscrowInvariant == Spec => []IInv
BY InitIInv, NextIInv, PTL DEF Spec

\* The watcher's state, the file and the wire keep their shape: in particular no
\* entry is retried past MAX_ORPHAN_RETRIES (on_submit_response).
THEOREM EscrowTypes == Spec => []TypeOK
<1>1. IInv => TypeOK
    BY DEF IInv
<1> QED
    BY <1>1, EscrowInvariant, PTL

\* The dedup set and the per-block index of handle_block always agree with the
\* list, through scans, compactions, inference escrows and restarts.
THEOREM EscrowTables == Spec => []IndexesExact
<1>1. IInv => IndexesExact
    BY ExactIsIndexesExact DEF IInv, TypeOK
<1> QED
    BY <1>1, EscrowInvariant, PTL

\* find_claim never submits before the CSV window and its margin have passed.
THEOREM EscrowMaturity == Spec => []ClaimsAreMature
<1>1. IInv => ClaimsAreMature
    BY DEF IInv
<1> QED
    BY <1>1, EscrowInvariant, PTL

-----------------------------------------------------------------------------
(* Finished entries *)

FinishedStays ==
    restarts' = restarts =>
        \A i \in DOMAIN entries : \A j \in DOMAIN entries' :
            entries[i].o = entries'[j].o /\ Done(entries[i]) => Done(entries'[j])

LEMMA BlockFinishes ==
    ASSUME IInv,
           NEW b \in Blocks \cup {Plain}, NEW d \in Score \ {0}, NEW reds \in SUBSET Blocks,
           NEW bare \in BOOLEAN, NEW how \in Saves,
           HandleBlock(b, d, reds, bare, how)
    PROVE  FinishedStays
<1> SUFFICES ASSUME NEW i \in DOMAIN entries, NEW j \in DOMAIN entries',
                    entries[i].o = entries'[j].o, Done(entries[i])
             PROVE  Done(entries'[j])
    BY DEF FinishedStays
<1>1. Scanned(b, d, reds)
    BY ScanEffect DEF HandleBlock, IInv, TypeOK
<1>2. entries' \in Seq(LogEntry) /\ entries \in Seq(LogEntry)
    BY <1>1 DEF Scanned, IInv, TypeOK
<1>3. ASSUME NEW h \in DOMAIN entries, Aged(entries[h], entries'[j], reds)
      PROVE  Done(entries'[j])
    <2>1. entries[h] \in LogEntry /\ entries'[j] \in LogEntry
        BY <1>2, EntriesType
    <2>2. entries'[j].o = entries[h].o /\ (Done(entries[h]) => Done(entries'[j]))
        BY <1>3, <2>1, AgedFields
    <2>3. h = i
        BY <2>2 DEF IInv, Sound, Distinct
    <2> QED
        BY <2>2, <2>3
<1>4. ASSUME NEW k \in DOMAIN OutputsOf(b), entries'[j] = NewEntry(OutputsOf(b)[k], d)
      PROVE  FALSE
    <2>1. entries[i].o = OutputsOf(b)[k] /\ entries[i].o \in Coinbases
        BY <1>4, EmptySeq DEF NewEntry, OutputsOf, Coinbases
    <2>2. born[OutputsOf(b)[k]] = 0
        BY DEF HandleBlock
    <2> QED
        BY <2>1, <2>2 DEF IInv, Sound
<1> QED
    BY <1>1, <1>3, <1>4 DEF Scanned

LEMMA ReplyFinishes ==
    ASSUME IInv, NEW how \in Saves, HandleReply(how)
    PROVE  FinishedStays
<1> SUFFICES ASSUME NEW i \in DOMAIN entries, NEW j \in DOMAIN entries',
                    entries[i].o = entries'[j].o, Done(entries[i])
             PROVE  Done(entries'[j])
    BY DEF FinishedStays
<1>1. Head(replies) \in Verdict
    BY HeadTailProperties DEF HandleReply, IInv, TypeOK
<1>2. \A k \in DOMAIN entries :
        /\ entries[k] \in LogEntry
        /\ entries[k].o = pending => entries[k].retries < MaxOrphanRetries
    BY EntriesType DEF IInv, TypeOK, PendingOpen
<1>3. \A k, h \in DOMAIN entries : entries[k].o = entries[h].o => k = h
    BY DEF IInv, Sound, Distinct
<1>4. CASE OnSubmitResponse(Head(replies), how)
    <2>1. entries' = [k \in DOMAIN entries |->
                        IF entries[k].o = pending THEN Answered(entries[k], Head(replies))
                                                  ELSE entries[k]]
        BY <1>4 DEF OnSubmitResponse
    <2>2. j \in DOMAIN entries
        BY <2>1
    <2>3. CASE entries[j].o = pending
        <3>1. entries'[j] = Answered(entries[j], Head(replies))
            BY <2>1, <2>2, <2>3
        <3>2. /\ entries'[j].o = entries[j].o
              /\ Done(entries[j]) => Done(entries'[j])
            BY <1>1, <1>2, <2>2, <2>3, <3>1, AnsweredType DEF IInv, TypeOK
        <3> QED
            BY <1>3, <2>2, <3>2
    <2>4. CASE entries[j].o # pending
        BY <1>3, <2>1, <2>2, <2>4
    <2> QED
        BY <2>3, <2>4
<1>5. CASE UNCHANGED memory
    BY <1>3, <1>5 DEF memory
<1> QED
    BY <1>4, <1>5 DEF HandleReply, memory

LEMMA InferenceFinishes ==
    ASSUME IInv, NEW q \in Requests \cup {Plain}, NEW d \in Score, NEW how \in Saves,
           AnswerInference(q, d, how)
    PROVE  FinishedStays
<1> SUFFICES ASSUME NEW i \in DOMAIN entries, NEW j \in DOMAIN entries',
                    entries[i].o = entries'[j].o, Done(entries[i])
             PROVE  Done(entries'[j])
    BY DEF FinishedStays
<1>1. \A k, h \in DOMAIN entries : entries[k].o = entries[h].o => k = h
    BY DEF IInv, Sound, Distinct
<1>2. CASE q \in Requests /\ q \notin outpoint_set
    <2>1. entries' = Append(entries, NewEntry(q, d))
        BY <1>2 DEF AnswerInference, TrackInferenceEscrow
    <2>2. NewEntry(q, d) \in LogEntry
        BY <1>2, NewEntryType DEF IInv, TypeOK, Outpoints
    <2>3. (j \in DOMAIN entries /\ entries'[j] = entries[j]) \/ entries'[j] = NewEntry(q, d)
        <3>1. entries \in Seq(LogEntry)
            BY DEF IInv, TypeOK
        <3>2. /\ entries' \in Seq(LogEntry) /\ Len(entries') = Len(entries) + 1
              /\ \A k \in 1..Len(entries) : entries'[k] = entries[k]
              /\ entries'[Len(entries) + 1] = NewEntry(q, d)
            BY <2>1, <2>2, <3>1, AppendProperties
        <3>3. /\ DOMAIN entries = 1..Len(entries) /\ Len(entries) \in Nat
              /\ DOMAIN entries' = 1..Len(entries')
            BY <3>1, <3>2, LenProperties
        <3>4. j \in 1..Len(entries) \/ j = Len(entries) + 1
            BY <3>2, <3>3
        <3> QED
            BY <3>2, <3>3, <3>4
    <2>4. entries[i].o # q
        BY <1>2 DEF IInv, Exact, Tracked
    <2> QED
        BY <1>1, <2>3, <2>4 DEF NewEntry
<1>3. CASE UNCHANGED memory
    BY <1>1, <1>3 DEF memory
<1> QED
    BY <1>2, <1>3 DEF AnswerInference, TrackInferenceEscrow, memory

LEMMA NextFinishes == IInv /\ [Next]_vars => [FinishedStays]_vars
<1> SUFFICES ASSUME IInv, Next PROVE FinishedStays
    OBVIOUS
<1>1. CASE BlockAdded
    <2>1. PICK d \in 1..Later(chain_daa, 1), reds \in SUBSET Blocks, how \in Saves :
            \/ \E b \in Blocks \cup {Plain} : HandleBlock(b, d, reds, FALSE, how)
            \/ HandleBlock(Plain, d, reds, TRUE, "skip")
        BY <1>1 DEF BlockAdded
    <2>2. d \in Score \ {0} /\ "skip" \in Saves
        BY AnnouncedScore, ParameterAssumption
    <2> QED
        BY <2>1, <2>2, BlockFinishes
<1>2. CASE NodeAnswer
    BY <1>2 DEF NodeAnswer, watcher, memory, FinishedStays, IInv, Sound, Distinct
<1>3. CASE \E how \in Saves : HandleReply(how)
    BY <1>3, ReplyFinishes
<1>4. CASE \E q \in Requests \cup {Plain}, d \in 0..MaxScore, how \in Saves :
                AnswerInference(q, d, how)
    BY <1>4, InferenceFinishes DEF Score
<1>5. CASE Reconnect \/ Recover
    <2>1. restarts' = restarts + 1 /\ restarts \in Nat
        BY <1>5 DEF Reconnect, Recover, IInv, TypeOK
    <2> QED
        BY <2>1 DEF FinishedStays
<1>6. CASE RequestMined
    BY <1>6 DEF RequestMined, watcher, memory, FinishedStays, IInv, Sound, Distinct
<1> QED
    BY <1>1, <1>2, <1>3, <1>4, <1>5, <1>6 DEF Next

\* Within a session nothing revives an entry that is claimed or slashed: not an
\* answer that comes after the red block (on_submit_response), not a scan or an
\* inference that meets its outpoint again (handle_block, track_inference_escrow).
THEOREM EscrowFinality == Spec => DoneIsFinal
<1>1. IInv /\ [Next]_vars => [FinishedStays]_vars
    BY NextFinishes
<1>2. Spec => [][FinishedStays]_vars
    BY <1>1, EscrowInvariant, PTL DEF Spec
<1> QED
    BY <1>2 DEF DoneIsFinal, FinishedStays

-----------------------------------------------------------------------------
(* The state file *)

LEMMA NextSaves ==
    ASSUME Saves \subseteq {"skip", "saved"}, IInv, CleanMeansSaved, [Next]_vars
    PROVE  CleanMeansSaved'
<1>1. CASE BlockAdded
    <2>1. PICK d \in 1..Later(chain_daa, 1), reds \in SUBSET Blocks, how \in Saves,
               b \in Blocks \cup {Plain}, bare \in BOOLEAN : HandleBlock(b, d, reds, bare, how)
        <3>1. "skip" \in Saves
            BY ParameterAssumption
        <3> QED
            BY <1>1, <3>1 DEF BlockAdded
    <2>2. d \in Score \ {0}
        BY AnnouncedScore
    <2>3. Scanned(b, d, reds)
        BY <2>1, <2>2, ScanEffect DEF HandleBlock, IInv, TypeOK
    <2> QED
        BY <2>3 DEF Scanned, Flushes, CleanMeansSaved
<1>2. CASE NodeAnswer
    BY <1>2 DEF NodeAnswer, watcher, memory, CleanMeansSaved
<1>3. ASSUME NEW how \in Saves, HandleReply(how)
      PROVE  CleanMeansSaved'
    <2>1. CASE OnSubmitResponse(Head(replies), how)
        <3> DEFINE after == [k \in DOMAIN entries |->
                                IF entries[k].o = pending
                                THEN Answered(entries[k], Head(replies)) ELSE entries[k]]
        <3>1. entries' = after /\ MaybeFlush(after, TRUE, how)
            BY <2>1 DEF OnSubmitResponse
        <3> HIDE DEF after
        <3>2. Flushes(after, TRUE)
            BY <3>1, MaybeFlushEffect
        <3> QED
            BY <3>1, <3>2 DEF Flushes, CleanMeansSaved
    <2>2. CASE UNCHANGED <<memory, pending, disk>>
        BY <2>2 DEF memory, CleanMeansSaved
    <2> QED
        BY <1>3, <2>1, <2>2 DEF HandleReply
<1>4. ASSUME NEW q \in Requests \cup {Plain}, NEW d \in 0..MaxScore, NEW how \in Saves,
             AnswerInference(q, d, how)
      PROVE  CleanMeansSaved'
    <2>1. CASE MaybeFlush(entries', TRUE, how)
        <3>1. Flushes(entries', TRUE)
            BY <2>1, MaybeFlushEffect
        <3> QED
            BY <3>1 DEF Flushes, CleanMeansSaved
    <2>2. CASE UNCHANGED <<memory, disk>>
        BY <2>2 DEF memory, CleanMeansSaved
    <2> QED
        BY <1>4, <2>1, <2>2 DEF AnswerInference, TrackInferenceEscrow
<1>5. CASE Reconnect
    BY <1>5 DEF Reconnect, LoadFrom, CleanMeansSaved
<1>6. CASE Recover
    BY <1>6 DEF Recover, LoadFrom, CleanMeansSaved
<1>7. CASE RequestMined
    BY <1>7 DEF RequestMined, watcher, memory, CleanMeansSaved
<1>8. CASE UNCHANGED vars
    BY <1>8 DEF vars, watcher, memory, CleanMeansSaved
<1> QED
    BY <1>1, <1>2, <1>3, <1>4, <1>5, <1>6, <1>7, <1>8 DEF Next

\* When no save fails, a watcher that is not dirty has its entries in the file, so
\* what a crash can lose (maybe_flush) is only what came after the last debounce.
THEOREM EscrowSaves ==
    ASSUME Saves \subseteq {"skip", "saved"}
    PROVE  Spec => []CleanMeansSaved
<1>1. Init => CleanMeansSaved
    BY DEF Init, CleanMeansSaved
<1>2. IInv /\ CleanMeansSaved /\ [Next]_vars => CleanMeansSaved'
    BY NextSaves
<1> QED
    BY <1>1, <1>2, EscrowInvariant, PTL DEF Spec

-----------------------------------------------------------------------------
(* Claims and answers, with nothing else on the wire                       *)

\* An answer that settles the pending claim is about a spent output.
AnswersSpent ==
    \A k \in DOMAIN replies : replies[k] \in {"ok", "rejected"} => pending \in spent

\* A list of entries that claims and gives up for a reason.
Justified(es, paid, reds) ==
    \A i \in DOMAIN es :
        /\ es[i].claimed => es[i].o \in paid
        /\ es[i].slashed => \/ es[i].o \in paid
                            \/ \E b \in reds : InBlock(es[i].o, b)
                            \/ es[i].retries >= MaxOrphanRetries

ClaimInv ==
    /\ OneClaimInFlight
    /\ AnswersSpent
    /\ Justified(entries, spent, red)
    /\ Justified(disk, spent, red)

\* A reason stays one.
LEMMA JustifiedLater ==
    ASSUME NEW es, NEW paid, NEW reds, NEW more, NEW redder, Justified(es, paid, reds),
           paid \subseteq more, reds \subseteq redder
    PROVE  Justified(es, more, redder)
BY DEF Justified

LEMMA EmptyJustified ==
    ASSUME NEW paid, NEW reds
    PROVE  Justified(<<>>, paid, reds)
BY DEF Justified

LEMMA FlushedJustified ==
    ASSUME NEW es, NEW unsaved, Flushes(es, unsaved), NEW paid, NEW reds,
           Justified(es, paid, reds), Justified(disk, paid, reds)
    PROVE  Justified(disk', paid, reds)
BY EmptyJustified DEF Flushes

\* What OneClaimInFlight says of the two ends of the wire.
LEMMA OneOnTheWire ==
    ASSUME TypeOK, OneClaimInFlight
    PROVE  /\ Len(submits) \in Nat /\ Len(replies) \in Nat
           /\ DOMAIN submits = 1..Len(submits) /\ DOMAIN replies = 1..Len(replies)
           /\ submits # <<>> => /\ Len(submits) = 1 /\ Len(replies) = 0 /\ pending # NoClaim
                                /\ Head(submits) = pending
           /\ replies # <<>> => Len(submits) = 0 /\ Len(replies) = 1 /\ pending # NoClaim
<1>1. /\ Len(submits) \in Nat /\ Len(replies) \in Nat
      /\ DOMAIN submits = 1..Len(submits) /\ DOMAIN replies = 1..Len(replies)
      /\ submits # <<>> => Len(submits) > 0
      /\ replies # <<>> => Len(replies) > 0
    BY LenProperties, EmptySeq DEF TypeOK
<1>2. Len(submits) + Len(replies) = IF pending = NoClaim THEN 0 ELSE 1
    BY DEF OneClaimInFlight
<1>3. submits # <<>> => Head(submits) = submits[1]
    OBVIOUS
<1>4. submits # <<>> => /\ Len(submits) = 1 /\ Len(replies) = 0 /\ pending # NoClaim
                        /\ Head(submits) = pending
    BY <1>1, <1>2, <1>3 DEF OneClaimInFlight
<1>5. replies # <<>> => Len(submits) = 0 /\ Len(replies) = 1 /\ pending # NoClaim
    BY <1>1, <1>2
<1> QED
    BY <1>1, <1>4, <1>5

LEMMA BlockClaims ==
    ASSUME IInv, ClaimInv,
           NEW b \in Blocks \cup {Plain}, NEW d \in Score \ {0}, NEW reds \in SUBSET Blocks,
           NEW bare \in BOOLEAN, NEW how \in Saves,
           HandleBlock(b, d, reds, bare, how)
    PROVE  ClaimInv'
<1>1. /\ Scanned(b, d, reds)
      /\ red' = red \cup reds /\ spent' = spent /\ replies' = replies
    BY ScanEffect DEF HandleBlock, IInv, TypeOK
<1>2. entries' \in Seq(LogEntry) /\ entries \in Seq(LogEntry)
    BY <1>1 DEF Scanned, IInv, TypeOK
<1>3. Justified(entries', spent', red')
    <2> SUFFICES ASSUME NEW j \in DOMAIN entries'
                 PROVE  /\ entries'[j].claimed => entries'[j].o \in spent'
                        /\ entries'[j].slashed =>
                              \/ entries'[j].o \in spent'
                              \/ \E r \in red' : InBlock(entries'[j].o, r)
                              \/ entries'[j].retries >= MaxOrphanRetries
        BY DEF Justified
    <2>1. ASSUME NEW i \in DOMAIN entries, Aged(entries[i], entries'[j], reds)
          PROVE  /\ entries'[j].claimed => entries'[j].o \in spent'
                 /\ entries'[j].slashed =>
                       \/ entries'[j].o \in spent'
                       \/ \E r \in red' : InBlock(entries'[j].o, r)
                       \/ entries'[j].retries >= MaxOrphanRetries
        <3>1. entries[i] \in LogEntry /\ entries'[j] \in LogEntry
            BY <1>2, EntriesType
        <3>2. /\ entries'[j].o = entries[i].o /\ entries'[j].retries = entries[i].retries
              /\ entries'[j].claimed = entries[i].claimed
              /\ entries'[j].slashed =>
                    entries[i].slashed \/ \E r \in reds : InBlock(entries[i].o, r)
            BY <2>1, <3>1, AgedFields
        <3>3. /\ entries[i].claimed => entries[i].o \in spent
              /\ entries[i].slashed => \/ entries[i].o \in spent
                                       \/ \E r \in red : InBlock(entries[i].o, r)
                                       \/ entries[i].retries >= MaxOrphanRetries
            BY DEF ClaimInv, Justified
        <3> QED
            BY <1>1, <3>2, <3>3
    <2>2. ASSUME NEW k \in DOMAIN OutputsOf(b), entries'[j] = NewEntry(OutputsOf(b)[k], d)
          PROVE  entries'[j].claimed = FALSE /\ entries'[j].slashed = FALSE
        BY <2>2 DEF NewEntry
    <2> QED
        BY <1>1, <2>1, <2>2 DEF Scanned
<1>4. Justified(disk', spent', red')
    <2>1. Justified(disk, spent', red')
        BY <1>1, JustifiedLater DEF ClaimInv
    <2>2. disk' = disk \/ disk' = entries' \/ disk' = <<>>
        BY <1>1 DEF Scanned, Flushes
    <2> QED
        BY <1>3, <2>1, <2>2, EmptyJustified
<1>5. OneClaimInFlight' /\ AnswersSpent'
    <2>1. CASE UNCHANGED <<pending, submits>>
        BY <1>1, <2>1 DEF ClaimInv, OneClaimInFlight, AnswersSpent
    <2>2. ASSUME pending = NoClaim, NEW i \in DOMAIN entries', pending' = entries'[i].o,
                 submits' = Append(submits, entries'[i].o)
          PROVE  OneClaimInFlight' /\ AnswersSpent'
        <3>1. entries'[i].o \in Outpoints
            BY <1>2, EntriesType
        <3>2. pending' # NoClaim
            BY <2>2, <3>1, DataAssumption
        <3>3. submits = <<>> /\ replies = <<>> /\ Len(submits) = 0 /\ Len(replies) = 0
            BY <2>2, OneOnTheWire, EmptySeq DEF ClaimInv, IInv
        <3>4. /\ submits' \in Seq(Outpoints \cup {AiTx}) /\ Len(submits') = 1
              /\ submits'[1] = pending'
            <4>1. submits \in Seq(Outpoints \cup {AiTx}) /\ entries'[i].o \in Outpoints \cup {AiTx}
                BY <3>1 DEF IInv, TypeOK
            <4> QED
                BY <2>2, <3>3, <4>1, AppendProperties
        <3>5. DOMAIN submits' = 1..1
            BY <3>4, LenProperties
        <3> QED
            BY <1>1, <3>2, <3>3, <3>4, <3>5 DEF OneClaimInFlight, AnswersSpent
    <2> QED
        BY <1>1, <2>1, <2>2 DEF Scanned, Claims
<1> QED
    BY <1>3, <1>4, <1>5 DEF ClaimInv

LEMMA NodeAnswerClaims ==
    ASSUME IInv, ClaimInv, NodeAnswer
    PROVE  ClaimInv'
<1>1. /\ submits # <<>> /\ submits' = Tail(submits)
      /\ UNCHANGED <<watcher, disk, chain_daa, born, red, restarts>>
    BY DEF NodeAnswer
<1>2. PICK v \in Verdicts(Head(submits)) :
        /\ replies' = Append(replies, v)
        /\ spent' = IF v = "ok" /\ Head(submits) # AiTx THEN spent \cup {Head(submits)} ELSE spent
    BY DEF NodeAnswer
<1>3. /\ Len(submits) = 1 /\ Len(replies) = 0 /\ pending # NoClaim /\ Head(submits) = pending
    BY <1>1, OneOnTheWire DEF ClaimInv, IInv
<1>4. v \in Verdict
    BY DEF Verdicts, Verdict
<1>5. pending # AiTx
    BY <1>3, DataAssumption DEF IInv, TypeOK
<1>6. v \in {"ok", "rejected"} => pending \in spent'
    <2>1. CASE v = "ok"
        BY <1>2, <1>3, <1>5, <2>1
    <2>2. CASE v = "rejected"
        <3>1. pending \in spent
            BY <1>3, <1>5, <2>2 DEF Verdicts
        <3> QED
            BY <1>2, <3>1
    <2> QED
        BY <2>1, <2>2
<1>7. /\ submits' \in Seq(Outpoints \cup {AiTx}) /\ Len(submits') = 0
      /\ DOMAIN submits' = 1..Len(submits')
    BY <1>1, <1>3, HeadTailProperties, LenProperties DEF IInv, TypeOK
<1>8. /\ replies' \in Seq(Verdict) /\ Len(replies') = 1 /\ replies'[1] = v
      /\ DOMAIN replies' = 1..Len(replies')
    <2>1. replies \in Seq(Verdict)
        BY DEF IInv, TypeOK
    <2>2. /\ replies' \in Seq(Verdict) /\ Len(replies') = Len(replies) + 1
          /\ replies'[Len(replies) + 1] = v
        BY <1>2, <1>4, <2>1, AppendProperties
    <2> QED
        BY <1>3, <2>2, LenProperties
<1>9. OneClaimInFlight'
    BY <1>1, <1>3, <1>7, <1>8 DEF OneClaimInFlight, watcher
<1>10. AnswersSpent'
    BY <1>1, <1>6, <1>8 DEF AnswersSpent, watcher
<1>11. Justified(entries', spent', red') /\ Justified(disk', spent', red')
    <2>1. spent \subseteq spent'
        BY <1>2
    <2> QED
        BY <1>1, <2>1, JustifiedLater DEF ClaimInv, watcher, memory
<1> QED
    BY <1>9, <1>10, <1>11 DEF ClaimInv

LEMMA ReplyClaims ==
    ASSUME IInv, ClaimInv, NEW how \in Saves, HandleReply(how)
    PROVE  ClaimInv'
<1> DEFINE v == Head(replies)
           after == [i \in DOMAIN entries |->
                        IF entries[i].o = pending THEN Answered(entries[i], v) ELSE entries[i]]
<1>1. /\ replies # <<>> /\ replies' = Tail(replies)
      /\ UNCHANGED <<last_daa_score, blocks_since_compact, submits, node, restarts>>
    BY DEF HandleReply
<1>2. /\ Len(submits) = 0 /\ Len(replies) = 1 /\ pending # NoClaim
      /\ DOMAIN submits = 1..0 /\ DOMAIN replies = 1..1
    BY <1>1, OneOnTheWire DEF ClaimInv, IInv
<1>3. v \in Verdict /\ replies' \in Seq(Verdict) /\ Len(replies') = 0 /\ v = replies[1]
    BY <1>1, <1>2, HeadTailProperties DEF IInv, TypeOK
<1>4. v \in {"ok", "rejected"} => pending \in spent
    BY <1>2, <1>3 DEF ClaimInv, AnswersSpent
<1>5. /\ entries' = after /\ pending' = NoClaim
      /\ MaybeFlush(after, TRUE, how)
    BY <1>2 DEF HandleReply, OnSubmitResponse
<1> HIDE DEF v
<1>6. Justified(after, spent, red)
    <2> SUFFICES ASSUME NEW i \in DOMAIN entries
                 PROVE  /\ after[i].claimed => after[i].o \in spent
                        /\ after[i].slashed => \/ after[i].o \in spent
                                               \/ \E b \in red : InBlock(after[i].o, b)
                                               \/ after[i].retries >= MaxOrphanRetries
        BY DEF Justified
    <2>1. entries[i] \in LogEntry
        BY EntriesType DEF IInv, TypeOK
    <2>2. /\ entries[i].claimed => entries[i].o \in spent
          /\ entries[i].slashed => \/ entries[i].o \in spent
                                   \/ \E b \in red : InBlock(entries[i].o, b)
                                   \/ entries[i].retries >= MaxOrphanRetries
        BY DEF ClaimInv, Justified
    <2>3. CASE entries[i].o # pending
        BY <2>2, <2>3
    <2>4. CASE entries[i].o = pending
        <3>1. entries[i].retries < MaxOrphanRetries /\ ~(entries[i].retries >= MaxOrphanRetries)
            <4>1. entries[i].retries < MaxOrphanRetries
                BY <2>4 DEF IInv, PendingOpen
            <4>2. entries[i].retries \in Nat /\ MaxOrphanRetries \in Nat
                BY <2>1, ParameterAssumption DEF LogEntry
            <4> QED
                BY <4>1, <4>2
        <3>2. /\ Answered(entries[i], v).o = entries[i].o
              /\ Answered(entries[i], v).claimed => entries[i].claimed \/ v = "ok"
              /\ Answered(entries[i], v).slashed =>
                    \/ entries[i].slashed \/ v = "rejected"
                    \/ Answered(entries[i], v).retries >= MaxOrphanRetries
            BY <1>3, <2>1, <3>1, AnsweredType, AnsweredEffect DEF IInv, TypeOK
        <3>3. after[i] = Answered(entries[i], v)
            BY <2>4
        <3> HIDE DEF after
        <3> QED
            BY <1>4, <2>2, <2>4, <3>1, <3>2, <3>3
    <2> QED
        BY <2>3, <2>4
<1> HIDE DEF after
<1>7. Justified(entries', spent', red') /\ Justified(disk', spent', red')
    <2>1. Flushes(after, TRUE)
        BY <1>5, MaybeFlushEffect
    <2>2. disk' = disk \/ disk' = after \/ disk' = <<>>
        BY <2>1 DEF Flushes
    <2> QED
        BY <1>1, <1>5, <1>6, <2>2, EmptyJustified DEF ClaimInv, node
<1>8. OneClaimInFlight' /\ AnswersSpent'
    <2>1. DOMAIN replies' = 1..0 /\ DOMAIN submits' = 1..0
        BY <1>1, <1>2, <1>3, LenProperties
    <2> QED
        BY <1>1, <1>2, <1>3, <1>5, <2>1 DEF OneClaimInFlight, AnswersSpent
<1> QED
    BY <1>7, <1>8 DEF ClaimInv

\* A watcher built from a justified list, with nothing on the wire.
LEMMA LoadClaims ==
    ASSUME NEW es, LoadFrom(es), disk' = es, Justified(es, spent, red),
           submits' = <<>>, replies' = <<>>, UNCHANGED node
    PROVE  ClaimInv'
<1>1. entries' = es /\ pending' = NoClaim
    BY DEF LoadFrom
<1>2. OneClaimInFlight' /\ AnswersSpent'
    BY <1>1, EmptySeq DEF OneClaimInFlight, AnswersSpent
<1> QED
    BY <1>1, <1>2 DEF ClaimInv, node

LEMMA NextClaims ==
    ASSUME MaxWire = 0, IInv, ClaimInv, [Next]_vars
    PROVE  ClaimInv'
<1>1. CASE BlockAdded
    <2>1. PICK d \in 1..Later(chain_daa, 1), reds \in SUBSET Blocks, how \in Saves,
               b \in Blocks \cup {Plain}, bare \in BOOLEAN : HandleBlock(b, d, reds, bare, how)
        <3>1. "skip" \in Saves
            BY ParameterAssumption
        <3> QED
            BY <1>1, <3>1 DEF BlockAdded
    <2>2. d \in Score \ {0}
        BY AnnouncedScore
    <2> QED
        BY <2>1, <2>2, BlockClaims
<1>2. CASE NodeAnswer
    BY <1>2, NodeAnswerClaims
<1>3. CASE \E how \in Saves : HandleReply(how)
    BY <1>3, ReplyClaims
<1>4. ASSUME NEW q \in Requests \cup {Plain}, NEW d \in 0..MaxScore, NEW how \in Saves,
             AnswerInference(q, d, how)
      PROVE  FALSE
    <2>1. Len(submits) + Len(replies) < 0
        BY <1>4 DEF AnswerInference
    <2>2. Len(submits) \in Nat /\ Len(replies) \in Nat
        BY LenProperties DEF IInv, TypeOK
    <2> QED
        BY <2>1, <2>2
<1>5. CASE Reconnect
    <2>1. Justified(disk, spent, red) /\ disk' = disk
        BY <1>5 DEF Reconnect, ClaimInv
    <2> QED
        BY <1>5, <2>1, LoadClaims DEF Reconnect
<1>6. CASE Recover
    <2>1. PICK f \in Orders(Claimable) :
            /\ disk' = [k \in DOMAIN f |-> NewEntry(f[k], born[f[k]])]
            /\ LoadFrom([k \in DOMAIN f |-> NewEntry(f[k], born[f[k]])])
        BY <1>6 DEF Recover
    <2> DEFINE recovered == [k \in DOMAIN f |-> NewEntry(f[k], born[f[k]])]
    <2>2. \A i \in DOMAIN recovered : ~recovered[i].claimed /\ ~recovered[i].slashed
        BY RecoveredSound
    <2>3. disk' = recovered /\ LoadFrom(recovered)
        BY <2>1
    <2> HIDE DEF recovered
    <2>4. Justified(recovered, spent, red)
        BY <2>2 DEF Justified
    <2> QED
        BY <1>6, <2>3, <2>4, LoadClaims DEF Recover
<1>7. CASE RequestMined
    BY <1>7 DEF RequestMined, watcher, memory, wire, ClaimInv, OneClaimInFlight, AnswersSpent
<1>8. CASE UNCHANGED vars
    BY <1>8 DEF vars, watcher, memory, wire, node, ClaimInv, OneClaimInFlight, AnswersSpent
<1> QED
    BY <1>1, <1>2, <1>3, <1>4, <1>5, <1>6, <1>7, <1>8 DEF Next

LEMMA InitClaims == Init => ClaimInv
<1> SUFFICES ASSUME Init PROVE ClaimInv
    OBVIOUS
<1>1. entries = disk /\ pending = NoClaim /\ submits = <<>> /\ replies = <<>>
    BY DEF Init
<1>2. \A k \in DOMAIN disk : disk[k].claimed = FALSE /\ disk[k].slashed = FALSE
    BY DEF Init, NewEntry
<1>3. OneClaimInFlight /\ AnswersSpent
    BY <1>1, EmptySeq DEF OneClaimInFlight, AnswersSpent
<1> QED
    BY <1>1, <1>2, <1>3 DEF ClaimInv, Justified

LEMMA ClaimInvariant ==
    ASSUME MaxWire = 0
    PROVE  Spec => []ClaimInv
<1>1. IInv /\ ClaimInv /\ [Next]_vars => ClaimInv'
    BY NextClaims
<1> QED
    BY <1>1, InitClaims, EscrowInvariant, PTL DEF Spec

\* find_claim keeps one claim on the wire, and the pending one is it, through every
\* order of blocks, verdicts and reconnections.
THEOREM EscrowOneClaim ==
    ASSUME MaxWire = 0
    PROVE  Spec => []OneClaimInFlight
<1>1. ClaimInv => OneClaimInFlight
    BY DEF ClaimInv
<1> QED
    BY <1>1, ClaimInvariant, PTL

\* An escrow that memory or the file holds for claimed was paid, when the only
\* answers are those to claims (on_submit_response); with an AiResponse on the wire
\* it is not so.
THEOREM EscrowPaid ==
    ASSUME MaxWire = 0
    PROVE  Spec => []ClaimedIsPaid
<1>1. ClaimInv => ClaimedIsPaid
    BY DEF ClaimInv, Justified, ClaimedIsPaid
<1> QED
    BY <1>1, ClaimInvariant, PTL

\* An escrow is given up only for a reason that is true of the chain.
THEOREM EscrowHopeless ==
    ASSUME MaxWire = 0
    PROVE  Spec => []SlashedIsHopeless
<1>1. ClaimInv => SlashedIsHopeless
    BY DEF ClaimInv, Justified, SlashedIsHopeless, InRed
<1> QED
    BY <1>1, ClaimInvariant, PTL
=============================================================================
