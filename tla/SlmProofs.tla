------------------------------ MODULE SlmProofs ------------------------------
(***************************************************************************)
(* The two machines of src/src/slm.rs.                                     *)
(*                                                                         *)
(* A generation, for any vocabulary, prompts and bounds, and whatever the  *)
(* model samples: the model attends to the conversation it answers and to  *)
(* nothing else, a turn ends at its stop tokens where they all have a      *)
(* fallback, and at its stop strings where each token spells something.    *)
(*                                                                         *)
(* A start of the miner, for any lineup, any number of starts, failures    *)
(* and kills: a sentinel stands for a whole model, and the process mines   *)
(* only with all of them and a device that works.                          *)
(***************************************************************************)
EXTENDS Generation, Startup, SequenceTheorems, WellFoundedInduction, TLAPS

\* What the cache holds at each step of a generation.  Between two prompts it may hold
\* anything, as long as there is an engine.
CacheFollows ==
    /\ ~resident => kv_cache = << >>
    /\ at \in {"loaded", "forward", "sample"} => resident
    /\ at = "forward" =>
          IF generated = << >> THEN variant = "rewinding" \/ kv_cache = << >>
          ELSE kv_cache = SubSeq(all_tokens, 1, Len(all_tokens) - 1)

\* The prompt comes before what was generated.
PromptFirst == at \in {"forward", "sample"} => Len(generated) < Len(all_tokens)

IInv == TypeOK /\ CacheFollows /\ PromptFirst /\ CacheIsContext

-----------------------------------------------------------------------------
(* Numbers and sequences.                                                  *)

\* A set of natural numbers has a least element: less than is well-founded.
LEMMA Least ==
    ASSUME NEW S, S \subseteq Nat, S # {}
    PROVE  \E n \in S : \A k \in S : n <= k
<1>1. PICK n \in S : \A k \in S : <<k, n>> \notin OpToRel(<, Nat)
  BY NatLessThanWellFounded, WFMin, Zenon
<1>2. ASSUME NEW k \in S PROVE ~(k < n)
  <2>1. <<k, n>> \in Nat \X Nat /\ <<k, n>>[1] = k /\ <<k, n>>[2] = n OBVIOUS
  <2>2. <<k, n>> \in {p \in Nat \X Nat : p[1] < p[2]} <=> k < n BY <2>1
  <2>3. QED BY <1>1, <2>2 DEF OpToRel
<1>3. QED BY <1>2

\* Induction on the natural numbers, for a set.
LEMMA Induct ==
    ASSUME NEW S, 0 \in S, \A n \in Nat : n \in S => n + 1 \in S
    PROVE  Nat \subseteq S
<1> SUFFICES ASSUME Nat \ S # {} PROVE FALSE OBVIOUS
<1>1. PICK n \in Nat \ S : \A k \in Nat \ S : n <= k
  BY Least, Nat \ S \subseteq Nat, Zenon
<1>2. n - 1 \in Nat /\ n - 1 \notin Nat \ S BY <1>1
<1>3. QED BY <1>1, <1>2

\* What is left of a sequence without its last element.
LEMMA FrontOfAppend ==
    ASSUME NEW S, NEW s \in Seq(S), NEW e \in S
    PROVE  /\ Append(s, e) \in Seq(S) /\ Len(Append(s, e)) = Len(s) + 1
           /\ SubSeq(Append(s, e), 1, Len(s)) = s
OBVIOUS

\* A sequence is its front and its last element.
LEMMA FrontAndLast ==
    ASSUME NEW S, NEW s \in Seq(S), s # << >>
    PROVE  SubSeq(s, 1, Len(s) - 1) \o SubSeq(s, Len(s), Len(s)) = s
<1>1. Len(s) \in Nat \ {0} OBVIOUS
<1>2. Len(s) - 1 + 1 = Len(s) BY <1>1
<1>3. SubSeq(s, 1, Len(s) - 1) \o SubSeq(s, Len(s) - 1 + 1, Len(s)) = SubSeq(s, 1, Len(s))
  <2>1. 1 \in 1..(Len(s) + 1) /\ Len(s) - 1 \in (1 - 1)..Len(s) /\ Len(s) \in (Len(s) - 1)..Len(s)
    BY <1>1
  <2>2. QED BY <2>1, ConcatAdjacentSubSeq, Zenon
<1>4. QED BY <1>2, <1>3, SubSeqFull

LEMMA WholeSubSeq ==
    ASSUME NEW S, NEW s \in Seq(S)
    PROVE  SubSeq(s, 1, Len(s)) = s /\ << >> \o s = s
OBVIOUS

-----------------------------------------------------------------------------

LEMMA Empty == << >> \in Seq(Tokens) /\ Len(<< >>) = 0
OBVIOUS

LEMMA Bounds == MODEL_MAX \in Nat /\ MaxRequests \in Nat
BY GenerationAssumption

LEMMA InitInvariant == ASSUME Init PROVE IInv
<1> USE DEF Init
<1>1. 0 \in 0..MODEL_MAX /\ 0 \in 0..MaxRequests BY Bounds
<1>2. TypeOK
  <2>1. kv_cache \in Seq(Tokens) /\ all_tokens \in Seq(Tokens) /\ generated \in Seq(Tokens)
    BY Empty
  <2>2. max_steps \in 0..MODEL_MAX /\ Len(generated) <= max_steps /\ asked \in 0..MaxRequests
    BY <1>1, Empty
  <2>3. QED BY <2>1, <2>2 DEF TypeOK
<1>3. CacheFollows /\ PromptFirst /\ CacheIsContext
  BY DEF CacheFollows, PromptFirst, CacheIsContext
<1>4. QED BY <1>2, <1>3 DEF IInv

LEMMA StartInvariant ==
    ASSUME IInv, NEW p \in Prompts, NEW n \in Limits, Started(p, n)
    PROVE  IInv'
<1> USE DEF Started
<1>1. p \in Seq(Tokens) /\ p # << >> /\ Len(p) \in Nat \ {0} BY GenerationAssumption
<1>2. kv_cache' \in Seq(Tokens) /\ (variant # "rewinding" => kv_cache' = << >>)
  BY DEF IInv, TypeOK, clear_kv_cache
<1>3. max_steps' \in 0..MODEL_MAX /\ generated' = << >> /\ Len(generated') = 0
  BY GenerationAssumption
<1>4. asked' \in 0..MaxRequests BY GenerationAssumption DEF IInv, TypeOK
<1>5. TypeOK' BY <1>1, <1>2, <1>3, <1>4 DEF IInv, TypeOK
<1>6. CacheFollows' BY <1>2, <1>3 DEF CacheFollows, Ready, IInv
<1>7. PromptFirst' /\ CacheIsContext' BY <1>1, <1>3 DEF PromptFirst, CacheIsContext
<1>8. QED BY <1>5, <1>6, <1>7 DEF IInv

LEMMA ForwardInvariant == ASSUME IInv, Forward PROVE IInv'
<1> USE DEF Forward
<1>1. all_tokens \in Seq(Tokens) /\ Len(all_tokens) \in Nat \ {0} /\ all_tokens # << >>
  BY DEF IInv, TypeOK, PromptFirst
<1>2. kv_cache' = all_tokens
  <2>1. CASE generated = << >>
    <3>1. SubSeq(all_tokens, 0 + 1, Len(all_tokens)) = all_tokens BY <1>1, WholeSubSeq
    <3>2. kv_cache' = IF variant = "rewinding" THEN all_tokens ELSE kv_cache \o all_tokens
      BY <2>1, <3>1
    <3>3. variant # "rewinding" => kv_cache \o all_tokens = all_tokens
      BY <1>1, <2>1, WholeSubSeq DEF IInv, CacheFollows
    <3>4. QED BY <3>2, <3>3
  <2>2. CASE generated # << >>
    <3>1. Len(all_tokens) - 1 # 0 BY <1>1, <2>2 DEF IInv, TypeOK, PromptFirst
    <3>2. kv_cache' = kv_cache \o SubSeq(all_tokens, Len(all_tokens), Len(all_tokens))
      BY <1>1, <2>2, <3>1
    <3>3. kv_cache = SubSeq(all_tokens, 1, Len(all_tokens) - 1)
      BY <2>2 DEF IInv, CacheFollows
    <3>4. QED BY <1>1, <3>2, <3>3, FrontAndLast
  <2>3. QED BY <2>1, <2>2
<1>3. TypeOK' BY <1>1, <1>2 DEF IInv, TypeOK, run
<1>4. CacheFollows' /\ PromptFirst' /\ CacheIsContext'
  BY <1>2 DEF IInv, TypeOK, CacheFollows, PromptFirst, CacheIsContext, run
<1>5. QED BY <1>3, <1>4 DEF IInv

LEMMA SampleInvariant == ASSUME IInv, NEW t \in Tokens, sample_next(t) PROVE IInv'
<1> USE DEF sample_next
<1>1. CASE t \in stop_token_ids
  BY <1>1 DEF IInv, TypeOK, CacheFollows, PromptFirst, CacheIsContext
<1>2. CASE t \notin stop_token_ids
  <2>1. /\ all_tokens' = Append(all_tokens, t) /\ generated' = Append(generated, t)
        /\ at' \in {"publish", "forward"}
        /\ at' = "forward" => Len(generated') # max_steps
        /\ UNCHANGED <<variant, resident, poisoned, kv_cache, max_steps, answer, asked>>
    BY <1>2
  <2>2. /\ all_tokens' \in Seq(Tokens) /\ Len(all_tokens') = Len(all_tokens) + 1
        /\ SubSeq(all_tokens', 1, Len(all_tokens)) = all_tokens
        /\ generated' \in Seq(Tokens) /\ Len(generated') = Len(generated) + 1
    BY <2>1, FrontOfAppend DEF IInv, TypeOK
  <2>3. Len(generated) < max_steps /\ Len(generated) < Len(all_tokens) /\ resident
    BY DEF IInv, TypeOK, PromptFirst, CacheFollows
  <2>4. Len(generated) \in Nat /\ Len(all_tokens) \in Nat /\ max_steps \in Nat
    BY GenerationAssumption DEF IInv, TypeOK
  <2>5. TypeOK'
    <3>1. Len(generated') <= max_steps'
      <4>1. max_steps' = max_steps /\ Len(generated') = Len(generated) + 1 BY <2>1, <2>2
      <4>2. QED BY <4>1, <2>3, <2>4
    <3>2. at' = "forward" => Len(generated') < max_steps' BY <2>1, <3>1, <2>2, <2>4
    <3>3. QED BY <2>1, <2>2, <3>1, <3>2 DEF IInv, TypeOK
  <2>6. PromptFirst' BY <2>2, <2>3, <2>4 DEF PromptFirst
  <2>7. kv_cache' = SubSeq(all_tokens', 1, Len(all_tokens') - 1)
    <3>1. kv_cache' = all_tokens BY <2>1 DEF IInv, CacheIsContext
    <3>2. Len(all_tokens') - 1 = Len(all_tokens) BY <2>2, <2>4
    <3>3. QED BY <2>2, <3>1, <3>2
  <2>8. generated' # << >> BY <2>2, <2>4
  <2>9. CacheFollows' /\ CacheIsContext'
    BY <2>1, <2>3, <2>7, <2>8 DEF CacheFollows, CacheIsContext
  <2>10. QED BY <2>5, <2>6, <2>9 DEF IInv
<1>3. QED BY <1>1, <1>2

\* The other steps leave the cache or drop it with the engine.
LEMMA StepInvariant == ASSUME IInv, [Next]_vars PROVE IInv'
<1> USE DEF IInv, TypeOK, CacheFollows, PromptFirst, CacheIsContext, run
<1>1. CASE Recover BY <1>1, Empty DEF Recover
<1>2. CASE load_engine BY <1>2, Empty DEF load_engine
<1>3. CASE \E p \in Prompts, n \in Limits : Started(p, n) BY <1>3, StartInvariant
<1>4. CASE Forward BY <1>4, ForwardInvariant
<1>5. CASE \E t \in Tokens : sample_next(t) BY <1>5, SampleInvariant
<1>6. CASE Publish BY <1>6 DEF Publish
<1>7. CASE GenerateFails BY <1>7, Empty DEF GenerateFails
<1>8. CASE GeneratePanics BY <1>8 DEF GeneratePanics
<1>9. CASE evict_engine BY <1>9, Empty DEF evict_engine
<1>10. CASE UNCHANGED vars BY <1>10 DEF vars
<1>11. QED BY <1>1, <1>2, <1>3, <1>4, <1>5, <1>6, <1>7, <1>8, <1>9, <1>10 DEF Next

THEOREM GenerationInvariant == Spec => []IInv
<1>1. Init => IInv BY InitInvariant
<1>2. IInv /\ [Next]_vars => IInv' BY StepInvariant
<1>3. QED BY <1>1, <1>2, PTL DEF Spec

\* The model samples each token from this conversation alone (the caches cleared and
\* rewound in generate of src/src/slm.rs).
THEOREM GenerationCache == Spec => []CacheIsContext
<1>1. IInv => CacheIsContext BY DEF IInv
<1>2. QED BY <1>1, GenerationInvariant, PTL

-----------------------------------------------------------------------------
(* Stop tokens.                                                            *)

\* Every stop token has a hard-coded id at its place, as the lists of the two Llama-70B,
\* of Qwen3 and of the legacy models do.
FallbacksCover == DOMAIN NAMES \subseteq DOMAIN FALLBACKS

LEMMA StopTokens ==
    ASSUME FallbacksCover, NEW i \in DOMAIN NAMES, NAMES[i] \in DOMAIN Vocabulary
    PROVE  Vocabulary[NAMES[i]] \in stop_token_ids
BY DEF FallbacksCover, stop_token_ids, collect_stop_ids

\* What is generated holds no stop token.
NoneTaken == generated \in Seq(Tokens) /\ \A i \in 1..Len(generated) : generated[i] \notin stop_token_ids

LEMMA NoneTakenStep == ASSUME NoneTaken, [Next]_vars PROVE NoneTaken'
<1>1. CASE UNCHANGED generated BY <1>1 DEF NoneTaken, stop_token_ids, collect_stop_ids
<1>2. CASE generated' = << >> BY <1>2 DEF NoneTaken
<1>3. ASSUME NEW t \in Tokens, t \notin stop_token_ids, generated' = Append(generated, t)
      PROVE  NoneTaken'
  <2>1. generated' \in Seq(Tokens) /\ Len(generated') = Len(generated) + 1
    BY <1>3 DEF NoneTaken
  <2>2. \A i \in 1..Len(generated') : generated'[i] = IF i <= Len(generated) THEN generated[i] ELSE t
    BY <1>3 DEF NoneTaken
  <2>3. \A i \in 1..Len(generated') : generated'[i] \notin stop_token_ids
    BY <1>3, <2>1, <2>2 DEF NoneTaken
  <2>4. QED BY <2>1, <2>3 DEF NoneTaken, stop_token_ids, collect_stop_ids
<1>4. \/ UNCHANGED generated \/ generated' = << >>
      \/ \E t \in Tokens : t \notin stop_token_ids /\ generated' = Append(generated, t)
  BY DEF Next, vars, run, Recover, load_engine, Started, Forward, sample_next, Publish,
         GenerateFails, GeneratePanics, evict_engine
<1>5. QED BY <1>1, <1>2, <1>3, <1>4

LEMMA NoneTakenEnds == ASSUME FallbacksCover, NoneTaken PROVE TurnsEnd
<1> SUFFICES ASSUME NEW i \in DOMAIN NAMES, NAMES[i] \in DOMAIN Vocabulary,
                    Vocabulary[NAMES[i]] \in ToSet(generated)
             PROVE  FALSE
  BY DEF TurnsEnd
<1>1. PICK k \in 1..Len(generated) : generated[k] = Vocabulary[NAMES[i]]
  BY DEF ToSet, NoneTaken
<1>2. QED BY <1>1, StopTokens DEF NoneTaken

\* Whatever id the tokenizer has for a stop token, the answer holds none of them, for a
\* model whose list of fallbacks is as long as its list of names.
THEOREM GenerationTurnsEnd == ASSUME FallbacksCover PROVE Spec => []TurnsEnd
<1>1. Init => NoneTaken BY DEF Init, NoneTaken
<1>2. NoneTaken /\ [Next]_vars => NoneTaken' BY NoneTakenStep
<1>3. NoneTaken => TurnsEnd BY NoneTakenEnds
<1>4. QED BY <1>1, <1>2, <1>3, PTL DEF Spec

-----------------------------------------------------------------------------
(* The text of a sequence of tokens.                                       *)

Pieces == UNION {{Spell[x][i] : i \in DOMAIN Spell[x]} : x \in Tokens}

LEMMA SpellIsText == \A x \in Tokens : Spell[x] \in Seq(Pieces)
BY GenerationAssumption DEF Pieces

\* q joins the first elements of s, however many of them.
Joins(q, V, s, n) ==
    /\ q \in [0..n -> Seq(V)] /\ q[0] = << >>
    /\ \A i \in 1..n : q[i] = q[i-1] \o s[i]

LEMMA JoinExists ==
    ASSUME NEW V, NEW s \in Seq(Seq(V))
    PROVE  \E q : Joins(q, V, s, Len(s))
<1> DEFINE T == {n \in Nat : n <= Len(s) => \E q : Joins(q, V, s, n)}
<1>1. 0 \in T
  <2>1. Joins([i \in 0..0 |-> << >>], V, s, 0) BY DEF Joins
  <2>2. QED BY <2>1
<1>2. ASSUME NEW n \in Nat, n \in T, n + 1 <= Len(s)
      PROVE  \E q : Joins(q, V, s, n + 1)
  <2>1. PICK q : Joins(q, V, s, n) BY <1>2
  <2> DEFINE x == q[n] \o s[n + 1]
             g == [i \in 0..(n + 1) |-> IF i = n + 1 THEN x ELSE q[i]]
  <2>2. x \in Seq(V)
    <3>1. q[n] \in Seq(V) /\ s[n + 1] \in Seq(V) BY <1>2, <2>1 DEF Joins
    <3>2. QED BY <3>1
  <2> HIDE DEF x
  <2>3. \A i \in 1..n : g[i] = q[i] /\ g[i-1] = q[i-1] OBVIOUS
  <2>4. g[0] = q[0] /\ g[n] = q[n] /\ g[n + 1] = x
    <3>1. 0 \in 0..(n + 1) /\ n \in 0..(n + 1) /\ n + 1 \in 0..(n + 1) /\ n # n + 1 /\ 0 # n + 1
      OBVIOUS
    <3>2. QED BY <3>1
  <2>5. g \in [0..(n + 1) -> Seq(V)]
    <3>1. \A i \in 0..(n + 1) : i # n + 1 => i \in 0..n OBVIOUS
    <3>2. QED BY <2>1, <2>2, <3>1 DEF Joins
  <2> HIDE DEF g
  <2>6. \A i \in 1..(n + 1) : g[i] = g[i-1] \o s[i]
    <3>1. TAKE i \in 1..(n + 1)
    <3>2. CASE i = n + 1
      <4>1. (n + 1) - 1 = n OBVIOUS
      <4>2. QED BY <2>4, <3>2, <4>1 DEF x
    <3>3. CASE i # n + 1
      <4>1. i \in 1..n BY <3>3
      <4>2. QED BY <2>1, <2>3, <4>1 DEF Joins
    <3>4. QED BY <3>2, <3>3
  <2>7. Joins(g, V, s, n + 1) BY <2>1, <2>4, <2>5, <2>6 DEF Joins
  <2>8. QED BY <2>7
<1>3. \A n \in Nat : n \in T => n + 1 \in T
  <2>1. SUFFICES ASSUME NEW n \in Nat, n \in T PROVE n + 1 \in T OBVIOUS
  <2>2. n + 1 \in Nat OBVIOUS
  <2>3. n + 1 <= Len(s) => \E q : Joins(q, V, s, n + 1) BY <2>1, <1>2
  <2>4. QED BY <2>2, <2>3
<1> HIDE DEF T
<1>4. Nat \subseteq T BY <1>1, <1>3, Induct
<1>5. Len(s) \in Nat OBVIOUS
<1>6. QED BY <1>4, <1>5 DEF T

LEMMA JoinUnique ==
    ASSUME NEW V, NEW s, NEW t, NEW q, NEW g, NEW r \in Nat, NEW n \in Nat,
           Joins(q, V, s, r), Joins(g, V, t, n),
           NEW k \in Nat, k <= r, k <= n, \A i \in 1..k : s[i] = t[i]
    PROVE  q[k] = g[k]
<1> DEFINE T == {i \in Nat : i <= k => q[i] = g[i]}
<1>1. 0 \in T BY DEF Joins
<1>2. ASSUME NEW i \in Nat, i \in T, i + 1 <= k PROVE q[i + 1] = g[i + 1]
  <2>1. i + 1 \in 1..k /\ i + 1 \in 1..r /\ i + 1 \in 1..n /\ (i + 1) - 1 = i BY <1>2
  <2>2. q[i + 1] = q[i] \o s[i + 1] /\ g[i + 1] = g[i] \o t[i + 1] BY <2>1 DEF Joins
  <2>3. q[i] = g[i] /\ s[i + 1] = t[i + 1] BY <1>2, <2>1
  <2>4. QED BY <2>2, <2>3
<1>3. \A i \in Nat : i \in T => i + 1 \in T BY <1>2
<1> HIDE DEF T
<1>4. Nat \subseteq T BY <1>1, <1>3, Induct
<1>5. QED BY <1>4 DEF T

\* FlattenSeq joins all of them.
LEMMA FlattenJoins ==
    ASSUME NEW V, NEW s \in Seq(Seq(V)), NEW q, Joins(q, V, s, Len(s))
    PROVE  FlattenSeq(s) = q[Len(s)]
<1>1. CASE Len(s) = 0
  <2>1. s = << >> BY <1>1
  <2>2. QED BY <1>1, <2>1 DEF FlattenSeq, Joins
<1>2. CASE Len(s) # 0
  <2> DEFINE F == CHOOSE h : h = [i \in 1..Len(s) |-> IF i = 1 THEN s[i] ELSE h[i-1] \o s[i]]
             g == [i \in 1..Len(s) |-> q[i]]
  <2>0. Len(s) \in Nat \ {0} BY <1>2
  <2>1. g = [i \in 1..Len(s) |-> IF i = 1 THEN s[i] ELSE g[i-1] \o s[i]]
    <3> SUFFICES ASSUME NEW i \in 1..Len(s)
                 PROVE  q[i] = IF i = 1 THEN s[i] ELSE g[i-1] \o s[i]
      OBVIOUS
    <3>1. q[i] = q[i-1] \o s[i] /\ s[i] \in Seq(V) BY DEF Joins
    <3>2. ASSUME i = 1 PROVE q[i] = s[i]
      <4>1. q[i-1] = << >>
        <5>1. q[0] = << >> BY DEF Joins
        <5>2. i - 1 = 0 BY <3>2
        <5>3. QED BY <5>1, <5>2
      <4>2. << >> \o s[i] = s[i] BY <3>1, ConcatEmptySeq
      <4>3. QED BY <3>1, <4>1, <4>2
    <3>3. ASSUME i # 1 PROVE q[i] = g[i-1] \o s[i]
      <4>1. i - 1 \in 1..Len(s) BY <2>0, <3>3
      <4>2. g[i-1] = q[i-1] BY <4>1
      <4>3. QED BY <3>1, <3>3, <4>2
    <3> HIDE DEF g
    <3>4. QED BY <3>2, <3>3, Zenon
  <2>2. F = [i \in 1..Len(s) |-> IF i = 1 THEN s[i] ELSE F[i-1] \o s[i]] BY <2>1
  <2>3. FlattenSeq(s) = F[Len(s)] BY <1>2 DEF FlattenSeq
  <2> HIDE DEF F
  <2> DEFINE T == {n \in Nat : n + 1 <= Len(s) => F[n + 1] = q[n + 1]}
  <2>4. 0 \in T
    <3>0. 1 \in 1..Len(s) /\ 1 - 1 = 0 /\ 0 + 1 = 1 BY <2>0
    <3>1. F[1] = s[1] /\ s[1] \in Seq(V) BY <3>0, <2>2
    <3>2. q[1] = q[1-1] \o s[1] /\ q[0] = << >> BY <3>0 DEF Joins
    <3>3. q[1] = s[1]
      <4>1. q[1] = << >> \o s[1] BY <3>0, <3>2
      <4>2. QED BY <3>1, <4>1, ConcatEmptySeq
    <3>4. QED BY <3>0, <3>1, <3>3
  <2>5. ASSUME NEW n \in Nat, n \in T, n + 1 + 1 <= Len(s) PROVE F[n + 1 + 1] = q[n + 1 + 1]
    <3> DEFINE i == n + 1 + 1
    <3>1. i \in 1..Len(s) /\ i # 1 /\ i - 1 = n + 1 /\ n + 1 <= Len(s) BY <2>5
    <3>0. F[n + 1] = q[n + 1] BY <2>5, <3>1
    <3> HIDE DEF i
    <3>2. F[i] = F[i - 1] \o s[i] BY <2>2, <3>1
    <3>3. q[i] = q[i - 1] \o s[i] BY <3>1 DEF Joins
    <3>4. F[i] = q[i] BY <3>0, <3>1, <3>2, <3>3
    <3>5. QED BY <3>4 DEF i
  <2>6. \A n \in Nat : n \in T => n + 1 \in T BY <2>5
  <2> HIDE DEF T
  <2>7. Nat \subseteq T BY <2>4, <2>6, Induct
  <2>8. Len(s) - 1 \in Nat /\ Len(s) - 1 + 1 = Len(s) BY <2>0
  <2>9. F[Len(s)] = q[Len(s)]
    <3>1. PICK k \in Nat : k + 1 = Len(s) BY <2>8
    <3>2. k \in T BY <2>7
    <3>3. QED BY <3>1, <3>2 DEF T
  <2>10. QED BY <2>3, <2>9
<1>3. QED BY <1>1, <1>2

-----------------------------------------------------------------------------
(* Decoding. *)

\* Induction on the last element.
LEMMA AppendInduct ==
    ASSUME NEW S, NEW T, << >> \in T,
           \A s \in Seq(S), e \in S : s \in T => Append(s, e) \in T
    PROVE  Seq(S) \subseteq T
<1> DEFINE N == {n \in Nat : \A s \in Seq(S) : Len(s) = n => s \in T}
<1>1. 0 \in N
  <2>1. \A s \in Seq(S) : Len(s) = 0 => s = << >> OBVIOUS
  <2>2. QED BY <2>1
<1>2. ASSUME NEW n \in Nat, n \in N PROVE n + 1 \in N
  <2>1. ASSUME NEW s \in Seq(S), Len(s) = n + 1 PROVE s \in T
    <3>1. s # << >> BY <2>1
    <3>2. Front(s) \in Seq(S) /\ Last(s) \in S /\ Append(Front(s), Last(s)) = s /\ Len(Front(s)) = n
      BY <2>1, <3>1 DEF Front, Last
    <3>3. Front(s) \in T BY <1>2, <3>2
    <3>4. QED BY <3>2, <3>3
  <2>2. n + 1 \in Nat OBVIOUS
  <2>3. QED BY <2>1, <2>2
<1> HIDE DEF N
<1>3. Nat \subseteq N BY <1>1, <1>2, Induct
<1>4. ASSUME NEW s \in Seq(S) PROVE s \in T
  <2>1. Len(s) \in N BY <1>3
  <2>2. QED BY <2>1 DEF N
<1>5. QED BY <1>4

LEMMA DecodeEmpty == decode(<< >>) = << >>
<1>1. [i \in DOMAIN << >> |-> Spell[<< >>[i]]] = << >> OBVIOUS
<1>2. QED BY <1>1 DEF decode, FlattenSeq

LEMMA DecodeAppend ==
    ASSUME NEW g \in Seq(Tokens), NEW t \in Tokens
    PROVE  /\ decode(g) \in Seq(Pieces)
           /\ decode(Append(g, t)) = decode(g) \o Spell[t]
<1> DEFINE h == Append(g, t)
           sg == [i \in DOMAIN g |-> Spell[g[i]]]
           sh == [i \in DOMAIN h |-> Spell[h[i]]]
           n == Len(g)
<1>1. n \in Nat /\ h \in Seq(Tokens) /\ Len(h) = n + 1 /\ DOMAIN g = 1..n /\ DOMAIN h = 1..(n + 1)
      /\ h[n + 1] = t /\ \A i \in 1..n : h[i] = g[i]
  OBVIOUS
<1> HIDE DEF h
<1>2. sg \in Seq(Seq(Pieces)) /\ Len(sg) = n
  <2>1. \A i \in 1..n : sg[i] \in Seq(Pieces) BY <1>1, SpellIsText
  <2>2. QED BY <1>1, <2>1
<1>3. sh \in Seq(Seq(Pieces)) /\ Len(sh) = n + 1
  <2>1. \A i \in 1..(n + 1) : sh[i] \in Seq(Pieces) BY <1>1, SpellIsText
  <2>2. n + 1 \in Nat BY <1>1
  <2>3. QED BY <1>1, <2>1, <2>2
<1>4. sh[n + 1] = Spell[t] /\ \A i \in 1..n : sh[i] = sg[i] BY <1>1
<1>5. decode(g) = FlattenSeq(sg) /\ decode(h) = FlattenSeq(sh) BY DEF decode
<1> HIDE DEF sg, sh
<1>6. PICK q : Joins(q, Pieces, sg, n) BY <1>2, JoinExists
<1>7. PICK k : Joins(k, Pieces, sh, n + 1) BY <1>3, JoinExists
<1>8. decode(g) = q[n] /\ decode(h) = k[n + 1] BY <1>2, <1>3, <1>5, <1>6, <1>7, FlattenJoins
<1>9. q[n] = k[n]
  <2>1. n \in Nat /\ n + 1 \in Nat /\ n <= n /\ n <= n + 1 /\ \A i \in 1..n : sg[i] = sh[i] BY <1>1, <1>4
  <2>2. QED BY <2>1, <1>6, <1>7, JoinUnique
<1>10. q[n] \in Seq(Pieces)
  <2>1. n \in 0..n BY <1>1
  <2>2. QED BY <2>1, <1>6 DEF Joins
<1>11. k[n + 1] = k[n] \o sh[n + 1]
  <2>1. n + 1 \in 1..(n + 1) /\ (n + 1) - 1 = n BY <1>1
  <2>2. QED BY <2>1, <1>7 DEF Joins
<1>12. QED BY <1>4, <1>8, <1>9, <1>10, <1>11 DEF h

LEMMA DecodeText == ASSUME NEW g \in Seq(Tokens) PROVE decode(g) \in Seq(Pieces)
<1>1. CASE g = << >>
  <2>1. << >> \in Seq(Pieces) OBVIOUS
  <2>2. QED BY <1>1, <2>1, DecodeEmpty
<1>2. CASE g # << >>
  <2>1. Front(g) \in Seq(Tokens) /\ Last(g) \in Tokens /\ Append(Front(g), Last(g)) = g
    BY <1>2 DEF Front, Last
  <2>2. decode(Front(g)) \in Seq(Pieces) /\ decode(g) = decode(Front(g)) \o Spell[Last(g)]
        /\ Spell[Last(g)] \in Seq(Pieces)
    BY <2>1, DecodeAppend, SpellIsText
  <2>3. QED BY <2>2
<1>3. QED BY <1>1, <1>2

LEMMA DecodeConcat ==
    ASSUME NEW a \in Seq(Tokens), NEW b \in Seq(Tokens)
    PROVE  decode(a \o b) = decode(a) \o decode(b)
<1> DEFINE T == {s \in Seq(Tokens) : decode(a \o s) = decode(a) \o decode(s)}
<1>0. decode(a) \in Seq(Pieces) BY DecodeText
<1>1. << >> \in T
  <2>1. a \o << >> = a /\ decode(a) \o << >> = decode(a) BY <1>0, ConcatEmptySeq
  <2>2. << >> \in Seq(Tokens) OBVIOUS
  <2>3. QED BY <2>1, <2>2, DecodeEmpty
<1>2. ASSUME NEW s \in Seq(Tokens), NEW e \in Tokens, s \in T PROVE Append(s, e) \in T
  <2>1. a \o Append(s, e) = Append(a \o s, e) /\ a \o s \in Seq(Tokens) /\ Append(s, e) \in Seq(Tokens)
    OBVIOUS
  <2>2. decode(a \o Append(s, e)) = decode(a \o s) \o Spell[e] BY <2>1, DecodeAppend
  <2>3. decode(Append(s, e)) = decode(s) \o Spell[e] BY DecodeAppend
  <2>4. (decode(a) \o decode(s)) \o Spell[e] = decode(a) \o (decode(s) \o Spell[e])
    <3>1. decode(s) \in Seq(Pieces) /\ Spell[e] \in Seq(Pieces) BY DecodeText, SpellIsText
    <3> DEFINE x == decode(a)
               y == decode(s)
               z == Spell[e]
    <3>2. x \in Seq(Pieces) /\ y \in Seq(Pieces) /\ z \in Seq(Pieces) BY <1>0, <3>1
    <3> HIDE DEF x, y, z
    <3>3. (x \o y) \o z = x \o (y \o z) BY <3>2, ConcatAssociative
    <3>4. QED BY <3>3 DEF x, y, z
  <2>5. decode(a \o s) = decode(a) \o decode(s) BY <1>2
  <2>6. QED BY <2>1, <2>2, <2>3, <2>4, <2>5
<1> HIDE DEF T
<1>3. Seq(Tokens) \subseteq T BY <1>1, <1>2, AppendInduct
<1>4. QED BY <1>3 DEF T

\* Where each token spells something, the text is at least as long.
Audible(tokens) == \A i \in DOMAIN tokens : Spell[tokens[i]] # << >>

LEMMA DecodeLen ==
    ASSUME NEW g \in Seq(Tokens), Audible(g)
    PROVE  Len(g) <= Len(decode(g))
<1> DEFINE T == {s \in Seq(Tokens) : Audible(s) => Len(s) <= Len(decode(s))}
<1>1. << >> \in T BY DecodeEmpty
<1>2. ASSUME NEW s \in Seq(Tokens), NEW e \in Tokens, s \in T PROVE Append(s, e) \in T
  <2>1. Append(s, e) \in Seq(Tokens) /\ Len(Append(s, e)) = Len(s) + 1 /\ Len(s) \in Nat
        /\ DOMAIN Append(s, e) = 1..(Len(s) + 1) /\ DOMAIN s = 1..Len(s)
        /\ Append(s, e)[Len(s) + 1] = e /\ \A i \in 1..Len(s) : Append(s, e)[i] = s[i]
    OBVIOUS
  <2>2. ASSUME Audible(Append(s, e)) PROVE Audible(s) /\ Spell[e] # << >>
    <3>1. Len(s) + 1 \in 1..(Len(s) + 1) /\ \A i \in 1..Len(s) : i \in 1..(Len(s) + 1) BY <2>1
    <3>2. QED BY <2>1, <2>2, <3>1 DEF Audible
  <2>3. decode(Append(s, e)) = decode(s) \o Spell[e] /\ decode(s) \in Seq(Pieces) /\ Spell[e] \in Seq(Pieces)
    BY DecodeAppend, SpellIsText
  <2>4. Len(decode(Append(s, e))) = Len(decode(s)) + Len(Spell[e]) /\ Len(decode(s)) \in Nat /\ Len(Spell[e]) \in Nat
        /\ (Spell[e] # << >> => Len(Spell[e]) >= 1)
    BY <2>3
  <2>5. Audible(s) => Len(s) <= Len(decode(s)) BY <1>2
  <2>6. QED BY <2>1, <2>2, <2>4, <2>5
<1> HIDE DEF T
<1>3. Seq(Tokens) \subseteq T BY <1>1, <1>2, AppendInduct
<1>4. QED BY <1>3 DEF T

-----------------------------------------------------------------------------
(* Where a text holds a stop string.                                        *)

\* A place in the first part of a text is a place in the text.
LEMMA PlacesBefore ==
    ASSUME NEW V, NEW a \in Seq(V), NEW b \in Seq(V), NEW s, Len(s) \in Nat \ {0},
           NEW i \in Nat \ {0}, i + Len(s) - 1 <= Len(a)
    PROVE  i \in Places(a, s) <=> i \in Places(a \o b, s)
<1>1. Len(a) \in Nat /\ Len(b) \in Nat /\ Len(a \o b) = Len(a) + Len(b) OBVIOUS
<1>2. i \in 1..Len(a) /\ i + Len(s) - 1 \in 1..Len(a) BY <1>1
<1>3. SubSeq(a \o b, i, i + Len(s) - 1) = SubSeq(a, i, i + Len(s) - 1) BY <1>2, SubSeqOfConcat1
<1>4. i \in 1..(Len(a) + 1 - Len(s)) /\ i \in 1..(Len(a \o b) + 1 - Len(s)) BY <1>1
<1>5. QED BY <1>3, <1>4 DEF Places

\* A place in the second part of a text is one in that part.
LEMMA PlacesAfter ==
    ASSUME NEW V, NEW a \in Seq(V), NEW b \in Seq(V), NEW s, Len(s) \in Nat \ {0}, NEW i \in Nat \ {0}
    PROVE  i \in Places(b, s) <=> Len(a) + i \in Places(a \o b, s)
<1>1. Len(a) \in Nat /\ Len(b) \in Nat /\ Len(a \o b) = Len(a) + Len(b) OBVIOUS
<1>2. i \in 1..(Len(b) + 1 - Len(s)) <=> Len(a) + i \in 1..(Len(a \o b) + 1 - Len(s)) BY <1>1
<1>3. ASSUME i \in 1..(Len(b) + 1 - Len(s))
      PROVE  SubSeq(a \o b, Len(a) + i, Len(a) + i + Len(s) - 1) = SubSeq(b, i, i + Len(s) - 1)
  <2> DEFINE r == Len(a) + i
             n == Len(a) + i + Len(s) - 1
  <2>1. r \in (Len(a) + 1)..(Len(a) + Len(b)) /\ n \in (Len(a) + 1)..(Len(a) + Len(b))
    BY <1>1, <1>3
  <2>2. r - Len(a) = i /\ n - Len(a) = i + Len(s) - 1 BY <1>1
  <2> HIDE DEF r, n
  <2>3. SubSeq(a \o b, r, n) = SubSeq(b, r - Len(a), n - Len(a)) BY <2>1, SubSeqOfConcat2
  <2>4. QED BY <2>2, <2>3 DEF r, n
<1>4. QED BY <1>2, <1>3 DEF Places

LEMMA StopLength == \A x \in DOMAIN STOP_STRINGS : Len(STOP_STRINGS[x]) \in 1..WINDOW /\ WINDOW \in Nat \ {0}
BY GenerationAssumption

LEMMA StopPlaces ==
    ASSUME NEW text
    PROVE  \A i \in Stops(text) :
              /\ i \in Nat \ {0}
              /\ \E x \in DOMAIN STOP_STRINGS : i \in Places(text, STOP_STRINGS[x])
BY DEF Stops, Places

\* Half a text without a stop string has none.
LEMMA PartsHaveNone ==
    ASSUME NEW V, NEW a \in Seq(V), NEW b \in Seq(V), Stops(a \o b) = {}
    PROVE  Stops(a) = {} /\ Stops(b) = {}
<1>1. ASSUME NEW i \in Stops(a) PROVE FALSE
  <2>1. PICK x \in DOMAIN STOP_STRINGS : i \in Places(a, STOP_STRINGS[x]) BY StopPlaces
  <2>2. i \in Nat \ {0} BY StopPlaces
  <2>3. Len(STOP_STRINGS[x]) \in Nat \ {0} BY StopLength
  <2>4. i + Len(STOP_STRINGS[x]) - 1 <= Len(a)
    <3>1. i \in 1..(Len(a) + 1 - Len(STOP_STRINGS[x])) /\ Len(a) \in Nat BY <2>1 DEF Places
    <3>2. QED BY <2>3, <3>1
  <2>5. i \in Places(a \o b, STOP_STRINGS[x]) BY <2>1, <2>2, <2>3, <2>4, PlacesBefore
  <2>6. QED BY <2>5 DEF Stops
<1>2. ASSUME NEW i \in Stops(b) PROVE FALSE
  <2>1. PICK x \in DOMAIN STOP_STRINGS : i \in Places(b, STOP_STRINGS[x]) BY StopPlaces
  <2>2. i \in Nat \ {0} BY StopPlaces
  <2>3. Len(STOP_STRINGS[x]) \in Nat \ {0} BY StopLength
  <2>4. Len(a) + i \in Places(a \o b, STOP_STRINGS[x]) BY <2>1, <2>2, <2>3, PlacesAfter
  <2>5. QED BY <2>4 DEF Stops
<1>3. QED BY <1>1, <1>2

\* The search looks back far enough: a text that held no stop string before its last token
\* and holds none in the tokens searched holds none.
LEMMA WindowIsEnough ==
    ASSUME NEW g \in Seq(Tokens), NEW t \in Tokens, Audible(Append(g, t)),
           Stops(decode(g)) = {}, ~hit_stop_string(Append(g, t))
    PROVE  Stops(decode(Append(g, t))) = {}
<1> DEFINE h == Append(g, t)
           n == Len(h)
           k == IF n > WINDOW THEN n - WINDOW ELSE 0
           a == SubSeq(h, 1, k)
           b == SubSeq(h, k + 1, n)
           c == SubSeq(g, k + 1, n - 1)
<1>1. h \in Seq(Tokens) /\ h # << >> /\ n = Len(g) + 1 /\ Len(g) \in Nat /\ n \in Nat
      /\ (\A i \in 1..Len(g) : h[i] = g[i]) /\ DOMAIN h = 1..n /\ SubSeq(h, 1, n - 1) = g
  OBVIOUS
<1>2. k \in 0..(n - 1) BY <1>1, StopLength, GenerationAssumption
<1> HIDE DEF h
<1>3. Stops(decode(b)) = {} BY <1>1 DEF hit_stop_string, h
<1> HIDE DEF n
<1>4. a \in Seq(Tokens) /\ b \in Seq(Tokens) /\ a \o b = h
  <2>1. 1 \in 1..(Len(h) + 1) /\ k \in (1 - 1)..Len(h) /\ n \in k..Len(h) BY <1>1, <1>2 DEF n
  <2>2. SubSeq(h, 1, k) \o SubSeq(h, k + 1, n) = SubSeq(h, 1, n) BY <1>1, <2>1, ConcatAdjacentSubSeq
  <2>3. SubSeq(h, 1, n) = h BY <1>1, SubSeqFull DEF n
  <2>4. a \in Seq(Tokens) /\ b \in Seq(Tokens)
    <3>1. \A i \in 1..n : h[i] \in Tokens BY <1>1 DEF n
    <3> HIDE DEF k
    <3>2. k \in Int /\ n \in Int /\ (\A i \in 1..k : h[i] \in Tokens) /\ (\A i \in (k + 1)..n : h[i] \in Tokens)
      BY <1>1, <1>2, <3>1
    <3>3. QED BY <3>2, SubSeqProperties
  <2>5. QED BY <2>2, <2>3, <2>4
<1>5. c \in Seq(Tokens) /\ a \o c = g /\ Len(c) = n - 1 - k /\ Audible(c)
  <2>1. 1 \in 1..(Len(g) + 1) /\ k \in (1 - 1)..Len(g) /\ n - 1 \in k..Len(g) /\ n - 1 = Len(g) BY <1>1, <1>2
  <2>2. SubSeq(g, 1, k) \o SubSeq(g, k + 1, n - 1) = SubSeq(g, 1, n - 1) BY <2>1, ConcatAdjacentSubSeq
  <2>3. SubSeq(g, 1, k) = a
    <3>1. \A i \in 1..k : h[i] = g[i] BY <1>1, <1>2
    <3>2. QED BY <1>1, <1>2, <2>1, <3>1
  <2>4. SubSeq(g, 1, n - 1) = g BY <2>1, SubSeqFull
  <2>5. c \in Seq(Tokens) /\ Len(c) = n - 1 - k /\ \A i \in 1..(n - 1 - k) : c[i] = h[k + i]
    BY <1>1, <1>2, <2>1
  <2>6. Audible(c)
    <3>1. Audible(h) BY DEF h
    <3>2. \A i \in DOMAIN c : i \in 1..(n - 1 - k) /\ k + i \in 1..n BY <1>1, <1>2, <2>5
    <3>3. \A i \in DOMAIN c : c[i] = h[k + i] BY <2>5, <3>2
    <3>4. \A j \in 1..n : Spell[h[j]] # << >> BY <1>1, <3>1 DEF Audible
    <3> HIDE DEF c, k
    <3>5. QED BY <3>2, <3>3, <3>4 DEF Audible
  <2>7. QED BY <2>2, <2>3, <2>4, <2>5, <2>6
<1> DEFINE A == decode(a)
           B == decode(b)
           C == decode(c)
<1> HIDE DEF a, b, c
<1>0. k = 0 => A = << >>
  <2>1. k = 0 => a = << >> BY <1>1 DEF a
  <2>2. QED BY <2>1, DecodeEmpty
<1>6. A \in Seq(Pieces) /\ B \in Seq(Pieces) /\ C \in Seq(Pieces) BY <1>4, <1>5, DecodeText
<1>7. decode(h) = A \o B BY <1>4, DecodeConcat
<1>8. decode(g) = A \o C
  <2>1. a \in Seq(Tokens) /\ c \in Seq(Tokens) /\ g = a \o c BY <1>4, <1>5
  <2>2. QED BY <2>1, DecodeConcat
<1>9. Len(C) >= n - 1 - k BY <1>5, DecodeLen
<1>10. Spell[t] \in Seq(Pieces) /\ decode(h) = decode(g) \o Spell[t] /\ decode(g) \in Seq(Pieces)
  BY DecodeAppend, SpellIsText DEF h
<1> HIDE DEF A, B, C
<1> SUFFICES ASSUME NEW i \in Stops(decode(h)) PROVE FALSE BY DEF h
<1>11. PICK x \in DOMAIN STOP_STRINGS : i \in Places(decode(h), STOP_STRINGS[x]) BY StopPlaces
<1> DEFINE s == STOP_STRINGS[x]
<1>12. i \in Nat \ {0} BY StopPlaces
<1>13. Len(s) \in Nat \ {0} /\ Len(s) <= WINDOW /\ WINDOW \in Nat BY StopLength
<1>14. Len(A) \in Nat /\ Len(C) \in Nat BY <1>6
<1>15. Stops(B) = {} BY <1>3 DEF B
<1>16. CASE i > Len(A)
  <2>1. i - Len(A) \in Nat \ {0} /\ Len(A) + (i - Len(A)) = i BY <1>12, <1>14, <1>16
  <2>2. i - Len(A) \in Places(B, s) BY <1>6, <1>7, <1>11, <1>13, <2>1, PlacesAfter
  <2>3. QED BY <1>15, <2>2 DEF Stops
<1>17. CASE i <= Len(A)
  <2>1. i + Len(s) - 1 <= Len(decode(g))
    <3>1. Len(decode(g)) = Len(A) + Len(C) BY <1>6, <1>8
    <3>2. k # 0
      <4>1. A # << >> BY <1>12, <1>14, <1>17
      <4>2. QED BY <1>0, <4>1
    <3>3. k = n - WINDOW BY <3>2
    <3> HIDE DEF k
    <3>4. Len(C) >= WINDOW - 1 BY <1>1, <1>9, <1>13, <1>14, <3>3
    <3> HIDE DEF s
    <3>5. QED BY <1>12, <1>13, <1>14, <1>17, <3>1, <3>4
  <2>2. i \in Places(decode(g), s) BY <1>10, <1>11, <1>12, <1>13, <2>1, PlacesBefore
  <2>3. QED BY <2>2 DEF Stops
<1>18. QED BY <1>12, <1>14, <1>16, <1>17

\* The least of a set.
LEMMA MinIsLeast ==
    ASSUME NEW S, S \subseteq Nat, S # {}
    PROVE  Min(S) \in S /\ \A n \in S : Min(S) <= n
<1>1. \E n \in S : \A k \in S : n <= k BY Least, Zenon
<1>2. QED BY <1>1 DEF Min

-----------------------------------------------------------------------------
(* The answer. *)

LEMMA EmptyHasNone == Stops(<< >>) = {}
<1> SUFFICES ASSUME NEW i \in Stops(<< >>) PROVE FALSE OBVIOUS
<1>1. PICK x \in DOMAIN STOP_STRINGS : i \in Places(<< >>, STOP_STRINGS[x]) BY StopPlaces
<1>2. Len(STOP_STRINGS[x]) \in Nat \ {0} BY StopLength
<1>3. i \in 1..(0 + 1 - Len(STOP_STRINGS[x])) BY <1>1 DEF Places
<1>4. QED BY <1>2, <1>3

LEMMA SplitAt ==
    ASSUME NEW V, NEW text \in Seq(V), NEW k \in 0..Len(text)
    PROVE  /\ SubSeq(text, 1, k) \in Seq(V) /\ Len(SubSeq(text, 1, k)) = k
           /\ SubSeq(text, k + 1, Len(text)) \in Seq(V)
           /\ SubSeq(text, 1, k) \o SubSeq(text, k + 1, Len(text)) = text
<1>1. 1 \in 1..(Len(text) + 1) /\ k \in (1 - 1)..Len(text) /\ Len(text) \in k..Len(text) OBVIOUS
<1>2. SubSeq(text, 1, k) \o SubSeq(text, k + 1, Len(text)) = SubSeq(text, 1, Len(text))
  BY <1>1, ConcatAdjacentSubSeq
<1>3. SubSeq(text, 1, Len(text)) = text BY SubSeqFull
<1>4. SubSeq(text, 1, k) \in Seq(V) /\ Len(SubSeq(text, 1, k)) = k
  <2>1. (\A i \in 1..k : text[i] \in V) /\ 1 \in Int /\ k \in Int OBVIOUS
  <2>2. QED BY <2>1, SubSeqProperties
<1>5. SubSeq(text, k + 1, Len(text)) \in Seq(V)
  <2>1. (\A i \in (k + 1)..Len(text) : text[i] \in V) /\ k + 1 \in Int /\ Len(text) \in Int OBVIOUS
  <2>2. QED BY <2>1, SubSeqProperties
<1>6. QED BY <1>2, <1>3, <1>4, <1>5

\* Up to the first stop string there is none.
LEMMA CutHasNone ==
    ASSUME NEW V, NEW text \in Seq(V), Stops(text) # {}
    PROVE  /\ SubSeq(text, 1, Min(Stops(text)) - 1) \in Seq(V)
           /\ Stops(SubSeq(text, 1, Min(Stops(text)) - 1)) = {}
<1> DEFINE p == Min(Stops(text))
           a == SubSeq(text, 1, p - 1)
           b == SubSeq(text, (p - 1) + 1, Len(text))
<1>1. p \in Stops(text) /\ \A n \in Stops(text) : p <= n
  <2>1. Stops(text) \subseteq Nat BY StopPlaces
  <2>2. QED BY <2>1, MinIsLeast
<1>2. PICK y \in DOMAIN STOP_STRINGS : p \in Places(text, STOP_STRINGS[y]) BY <1>1, StopPlaces
<1> HIDE DEF p
<1>3. p \in Nat \ {0} /\ p - 1 \in 0..Len(text)
  <2>1. p \in 1..(Len(text) + 1 - Len(STOP_STRINGS[y])) BY <1>2 DEF Places
  <2>2. Len(STOP_STRINGS[y]) \in Nat \ {0} /\ Len(text) \in Nat BY StopLength
  <2>3. QED BY <2>1, <2>2
<1>4. a \in Seq(V) /\ Len(a) = p - 1 /\ b \in Seq(V) /\ a \o b = text BY <1>3, SplitAt
<1>5. ASSUME NEW i \in Stops(a) PROVE FALSE
  <2>1. PICK x \in DOMAIN STOP_STRINGS : i \in Places(a, STOP_STRINGS[x]) BY StopPlaces
  <2>2. i \in Nat \ {0} BY StopPlaces
  <2>3. Len(STOP_STRINGS[x]) \in Nat \ {0} BY StopLength
  <2>4. i \in 1..(p - 1 + 1 - Len(STOP_STRINGS[x])) BY <1>4, <2>1 DEF Places
  <2>5. i + Len(STOP_STRINGS[x]) - 1 <= Len(a) BY <1>3, <1>4, <2>3, <2>4
  <2>6. i \in Places(a \o b, STOP_STRINGS[x]) BY <1>4, <2>1, <2>2, <2>3, <2>5, PlacesBefore
  <2>7. i \in Stops(text) BY <1>4, <2>6 DEF Stops
  <2>8. QED BY <1>1, <1>3, <2>3, <2>4, <2>7
<1>6. QED BY <1>4, <1>5 DEF p

LEMMA StripHasNone ==
    ASSUME NEW V, NEW text \in Seq(V), Stops(text) = {}
    PROVE  Stops(strip_think_tags(text)) = {}
<1>1. CASE CloseThink \notin ToSet(text) BY <1>1 DEF strip_think_tags
<1>2. CASE CloseThink \in ToSet(text)
  <2> DEFINE P == Places(text, <<CloseThink>>)
             k == Min(P)
  <2>1. P \subseteq 1..Len(text)
    <3>1. Len(<<CloseThink>>) = 1 /\ Len(text) \in Nat OBVIOUS
    <3>2. QED BY <3>1 DEF Places
  <2>2. P # {}
    <3>1. PICK i \in 1..Len(text) : text[i] = CloseThink BY <1>2 DEF ToSet
    <3>2. Len(<<CloseThink>>) = 1 /\ i \in 1..(Len(text) + 1 - 1) /\ i + 1 - 1 = i OBVIOUS
    <3>3. SubSeq(text, i, i) = <<CloseThink>>
      <4>1. Len(SubSeq(text, i, i)) = 1 /\ SubSeq(text, i, i)[1] = CloseThink BY <3>1
      <4>2. SubSeq(text, i, i) \in Seq(V) BY <3>1
      <4> DEFINE u == SubSeq(text, i, i)
      <4> HIDE DEF u
      <4>3. \A v \in Seq(V) : Len(v) = 1 => v = <<v[1]>> OBVIOUS
      <4>4. u = <<CloseThink>> BY <4>1, <4>2, <4>3 DEF u
      <4>5. QED BY <4>4 DEF u
    <3>4. i \in P BY <3>2, <3>3 DEF Places
    <3>5. QED BY <3>4
  <2> HIDE DEF P
  <2>3. k \in 1..Len(text)
    <3>1. P \subseteq Nat BY <2>1
    <3>2. QED BY <2>1, <2>2, <3>1, MinIsLeast
  <2> HIDE DEF k
  <2>4. k \in 0..Len(text) BY <2>3
  <2>5. Stops(SubSeq(text, k + 1, Len(text))) = {}
    <3> DEFINE a == SubSeq(text, 1, k)
               b == SubSeq(text, k + 1, Len(text))
    <3>1. a \in Seq(V) /\ b \in Seq(V) /\ a \o b = text BY <2>4, SplitAt
    <3> HIDE DEF a, b
    <3>2. Stops(b) = {} BY <3>1, PartsHaveNone
    <3>3. QED BY <3>2 DEF b
  <2>6. strip_think_tags(text) = SubSeq(text, k + 1, Len(text)) BY <1>2 DEF strip_think_tags, k, P
  <2>7. QED BY <2>5, <2>6
<1>3. QED BY <1>1, <1>2

LEMMA AnswerHasNone == ASSUME NEW g \in Seq(Tokens) PROVE Stops(Answer(g)) = {}
<1> DEFINE text == decode(g)
           cut == IF Stops(text) = {} THEN text ELSE SubSeq(text, 1, Min(Stops(text)) - 1)
<1>1. text \in Seq(Pieces) BY DecodeText
<1> HIDE DEF text
<1>2. cut \in Seq(Pieces) /\ Stops(cut) = {} BY <1>1, CutHasNone
<1> HIDE DEF cut
<1>3. Answer(g) = IF Thinks THEN strip_think_tags(cut) ELSE cut BY DEF Answer, cut, text
<1>4. QED BY <1>2, <1>3, StripHasNone

-----------------------------------------------------------------------------
(* Stop strings. *)

AnswerIsCut == Stops(answer) = {}

\* While the generation goes on it holds no stop string, if what it holds can be heard.
Searched ==
    Audible(generated) =>
        /\ at \in {"forward", "sample"} => Stops(decode(generated)) = {}
        /\ generated # << >> => Stops(decode(Front(generated))) = {}

LEMMA AnswerStep == ASSUME IInv, AnswerIsCut, [Next]_vars PROVE AnswerIsCut'
<1>1. CASE UNCHANGED answer BY <1>1 DEF AnswerIsCut
<1>2. CASE answer' = NoAnswer BY <1>2, EmptyHasNone DEF AnswerIsCut, NoAnswer
<1>3. CASE answer' = Answer(generated)
  <2>1. generated \in Seq(Tokens) BY DEF IInv, TypeOK
  <2>2. QED BY <1>3, <2>1, AnswerHasNone DEF AnswerIsCut
<1>4. UNCHANGED answer \/ answer' = NoAnswer \/ answer' = Answer(generated)
  BY DEF Next, vars, run, Recover, load_engine, Started, Forward, sample_next, Publish,
         GenerateFails, GeneratePanics, evict_engine
<1>5. QED BY <1>1, <1>2, <1>3, <1>4

LEMMA SearchedStep == ASSUME IInv, Searched, [Next]_vars PROVE Searched'
<1>1. CASE UNCHANGED generated /\ (at' \in {"forward", "sample"} => at \in {"forward", "sample"})
  BY <1>1 DEF Searched
<1>2. CASE generated' = << >>
  <2>1. Stops(decode(generated')) = {} BY <1>2, DecodeEmpty, EmptyHasNone
  <2>2. QED BY <1>2, <2>1 DEF Searched
<1>3. ASSUME NEW t \in Tokens, sample_next(t), t \notin stop_token_ids PROVE Searched'
  <2>1. generated \in Seq(Tokens) BY DEF IInv, TypeOK
  <2>2. /\ at = "sample" /\ generated' = Append(generated, t)
        /\ at' \in {"publish", "forward"} /\ (at' = "forward" => ~hit_stop_string(generated'))
    BY <1>3 DEF sample_next
  <2>3. Front(Append(generated, t)) = generated BY <2>1 DEF Front
  <2>4. ASSUME Audible(generated') PROVE Audible(generated)
    <3>1. /\ DOMAIN generated = 1..Len(generated) /\ DOMAIN generated' = 1..(Len(generated) + 1)
          /\ \A i \in 1..Len(generated) : generated'[i] = generated[i] /\ i \in 1..(Len(generated) + 1)
      BY <2>1, <2>2
    <3>2. QED BY <2>4, <3>1 DEF Audible
  <2>5. ASSUME Audible(generated') PROVE Stops(decode(generated)) = {} BY <2>2, <2>4, <2>5 DEF Searched
  <2>6. ASSUME Audible(generated'), at' = "forward" PROVE Stops(decode(generated')) = {}
    BY <2>1, <2>2, <2>5, <2>6, WindowIsEnough
  <2>7. at' # "sample" BY <2>2
  <2>8. QED BY <2>2, <2>3, <2>5, <2>6, <2>7 DEF Searched
<1>4. \/ UNCHANGED generated /\ (at' \in {"forward", "sample"} => at \in {"forward", "sample"})
      \/ generated' = << >>
      \/ \E t \in Tokens : sample_next(t) /\ t \notin stop_token_ids
  BY DEF Next, vars, run, Recover, load_engine, Started, Forward, sample_next, Publish,
         GenerateFails, GeneratePanics, evict_engine
<1>5. QED BY <1>1, <1>2, <1>3, <1>4

\* No answer holds a stop string, whatever the model samples and whatever its tokens
\* spell (the cut and the strip at the end of generate of src/src/slm.rs).
THEOREM GenerationAnswerIsCut == Spec => []AnswerIsCut
<1>1. Init => AnswerIsCut BY EmptyHasNone DEF Init, NoAnswer, AnswerIsCut
<1>2. IInv /\ AnswerIsCut /\ [Next]_vars => AnswerIsCut' BY AnswerStep
<1>3. QED BY <1>1, <1>2, GenerationInvariant, PTL DEF Spec

\* A generation of tokens that each spell something does not go on after a stop string,
\* although only the last WINDOW tokens are searched.
THEOREM GenerationSearchesEnough == Spec => [](Audible(generated) => NothingAfterStop)
<1>1. Init => Searched BY DecodeEmpty, EmptyHasNone DEF Init, Searched
<1>2. IInv /\ Searched /\ [Next]_vars => Searched' BY SearchedStep
<1>3. Searched /\ AnswerIsCut => (Audible(generated) => NothingAfterStop)
  BY DEF Searched, AnswerIsCut, NothingAfterStop
<1>4. QED BY <1>1, <1>2, <1>3, GenerationInvariant, GenerationAnswerIsCut, PTL DEF Spec

\* Every token that does not end the turn decodes to some text.
NoSilentTokens == \A t \in Tokens \ stop_token_ids : Spell[t] # << >>

\* Nothing is generated after a stop string by a model none of whose special tokens but
\* the stop tokens is ever sampled (hit_stop_string and its window).
THEOREM GenerationNothingAfterStop == ASSUME NoSilentTokens PROVE Spec => []NothingAfterStop
<1>1. Init => NoneTaken BY DEF Init, NoneTaken
<1>2. NoneTaken /\ [Next]_vars => NoneTaken' BY NoneTakenStep
<1>3. NoneTaken => Audible(generated) BY DEF NoneTaken, NoSilentTokens, Audible
<1>4. QED BY <1>1, <1>2, <1>3, GenerationSearchesEnough, PTL DEF Spec

-----------------------------------------------------------------------------
(* What a step of the start-up may count on. *)

\* A file that a later step may count on: it exists, and weights are complete.
Fetched(x, p) == disk[x][p] # Absent /\ (p \in Weights => disk[x][p] = Size)
Whole(x) == \A p \in FilesOf(x) : Fetched(x, p)

Fetching == {"file", "request", "stream", "sentinel"}

\* While a model is fetched it has no sentinel, and the files before the current one are there.
FilesInOrder ==
    stage \in Fetching =>
        /\ m \in DOMAIN Lineup /\ Model \notin ok
        /\ \A i \in DOMAIN Parts[Model] : i < f => Fetched(Model, Parts[Model][i])
        /\ stage \in {"request", "stream"} => f \in DOMAIN Parts[Model] /\ attempt < MAX_ATTEMPTS
        /\ stage = "stream" => Have # Absent
        /\ stage = "sentinel" => f > Len(Parts[Model])

\* A sentinel stands for a whole model, whatever happened since it was written.
SentinelsHold == \A x \in ok : Whole(x)

\* How far the start has come tells what has been found.
StepsInOrder ==
    /\ stage \in Steps \cup {"mining"} => \A i \in DOMAIN Lineup : i < m => Lineup[i] \in ok
    /\ stage \in {"record", "probe", "reprobe", "workers", "mining"} => m > Len(Lineup)
    /\ stage \in {"probe", "reprobe", "workers", "mining"} => tiers = Models
    /\ stage \in {"reprobe", "workers", "mining"} => rig.nvidia
    /\ stage \in {"workers", "mining"} => libs = "loadable"

StartupInv == StartupTypeOK /\ FilesInOrder /\ SentinelsHold /\ StepsInOrder

LEMMA LineupFacts ==
    /\ Len(Lineup) \in Nat /\ DOMAIN Lineup = 1..Len(Lineup)
    /\ \A x \in Models : Len(Parts[x]) \in Nat /\ DOMAIN Parts[x] = 1..Len(Parts[x])
BY StartupAssumption

LEMMA StartupStarts == ASSUME StartupInit PROVE StartupInv
<1>1. 1 \in 1..(Len(Lineup) + 1) /\ 0 \in 0..MAX_ATTEMPTS /\ 0 \in 0..MaxOutages /\ 0 \in 0..MaxStarts
  BY LineupFacts, StartupAssumption
<1>2. DOMAIN disk = Models /\ \A x \in Models : disk[x] \in [FilesOf(x) -> Absent..Size]
  <2>1. PICK staged \in BOOLEAN :
          disk = [x \in Models |-> [p \in FilesOf(x) |->
                     IF staged /\ p \in Weights THEN Size ELSE Absent]]
    BY DEF StartupInit
  <2>2. Size \in Absent..Size /\ Absent \in Absent..Size BY StartupAssumption DEF Absent
  <2> HIDE DEF Absent
  <2>3. DOMAIN disk = Models BY <2>1
  <2>4. ASSUME NEW x \in Models PROVE disk[x] \in [FilesOf(x) -> Absent..Size]
    <3>1. disk[x] = [p \in FilesOf(x) |-> IF staged /\ p \in Weights THEN Size ELSE Absent]
      BY <2>1
    <3>2. QED BY <2>2, <3>1
  <2>5. QED BY <2>3, <2>4
<1>3. StartupTypeOK
  <2>1. /\ rig \in Rigs /\ package \in Packages /\ bin = "none" /\ stage = "down" /\ m = 1 /\ f = 1
        /\ ok = {} /\ attempt = 0 /\ known = FALSE /\ tiers = {}
        /\ libs \in {"missing", "loadable"} /\ outages = 0 /\ starts = 0
    BY DEF StartupInit
  <2>2. m \in 1..(Len(Lineup) + 1) /\ attempt \in 0..MAX_ATTEMPTS /\ outages \in 0..MaxOutages
        /\ starts \in 0..MaxStarts
    BY <1>1, <2>1
  <2>3. f \in Nat \ {0} /\ stage \in Exits \cup Steps \cup {"mining"} BY <2>1 DEF Exits
  <2>4. ok \subseteq Models /\ tiers \subseteq Models /\ known \in BOOLEAN BY <2>1, Zenon
  <2>5. QED BY <1>2, <2>1, <2>2, <2>3, <2>4 DEF StartupTypeOK
<1>4. FilesInOrder /\ SentinelsHold /\ StepsInOrder
  BY DEF StartupInit, FilesInOrder, SentinelsHold, StepsInOrder, Fetching, Steps
<1>5. QED BY <1>3, <1>4 DEF StartupInv

LEMMA LaunchStep == ASSUME StartupInv, Launch PROVE StartupInv'
<1> USE DEF StartupInv, Launch, machine
<1>1. stage' \in {"noBinary", "ensure"} /\ m' = 1 /\ f' = 1 OBVIOUS
<1>2. bin' \in {"none", "nvidia", "amd"}
  <2>1. CASE package = {} BY <2>1 DEF StartupTypeOK
  <2>2. CASE package # {}
    <3>1. package \subseteq {"nvidia", "amd"} BY StartupAssumption DEF StartupTypeOK
    <3>2. (CHOOSE b \in package : TRUE) \in package BY <2>2
    <3>3. QED BY <2>2, <3>1, <3>2
  <2>3. QED BY <2>1, <2>2
<1>3. 1 \in 1..(Len(Lineup) + 1) /\ starts' \in 0..MaxStarts BY LineupFacts, StartupAssumption DEF StartupTypeOK
<1>4. StartupTypeOK' BY <1>1, <1>2, <1>3 DEF StartupTypeOK, Exits, Steps
<1>5. SentinelsHold' BY DEF SentinelsHold, Whole, Fetched
<1>6. FilesInOrder' BY <1>1 DEF FilesInOrder, Fetching
<1>7. StepsInOrder' BY <1>1, LineupFacts DEF StepsInOrder, Steps
<1>8. QED BY <1>4, <1>5, <1>6, <1>7

LEMMA FoundStep == ASSUME StartupInv, Found PROVE StartupInv'
<1> USE DEF StartupInv, Found, frame, machine
<1>1. m \in DOMAIN Lineup /\ m' = m + 1 /\ m' \in 1..(Len(Lineup) + 1) BY LineupFacts DEF StartupTypeOK
<1>2. StartupTypeOK' BY <1>1 DEF StartupTypeOK
<1>3. SentinelsHold' BY DEF SentinelsHold, Whole, Fetched
<1>4. FilesInOrder' BY DEF FilesInOrder, Fetching
<1>5. Lineup[m] \in ok BY DEF Complete, Model
<1>6. StepsInOrder' BY <1>1, <1>5, LineupFacts DEF StepsInOrder, StartupTypeOK
<1>7. QED BY <1>2, <1>3, <1>4, <1>6

LEMMA ClearStep == ASSUME StartupInv, Clear PROVE StartupInv'
<1> USE DEF StartupInv, Clear, frame, machine
<1>1. m \in DOMAIN Lineup BY LineupFacts DEF StartupTypeOK
<1>2. StartupTypeOK' BY DEF StartupTypeOK, Steps
<1>3. SentinelsHold' BY DEF SentinelsHold, Whole, Fetched
<1>4. Model \in Models /\ Model' = Model BY <1>1 DEF Models, Model
<1>5. FilesInOrder' BY <1>1, <1>4, LineupFacts DEF FilesInOrder
<1>6. \A x \in ok : Complete(x)
  <2>1. ok \subseteq Models /\ \A x \in Models : DOMAIN disk[x] = FilesOf(x) BY DEF StartupTypeOK
  <2>2. QED BY <2>1 DEF SentinelsHold, Whole, Fetched, Complete
<1>7. Model \notin ok BY <1>6
<1>8. ok' = ok BY <1>7
<1>9. StepsInOrder' BY <1>8 DEF StepsInOrder, Steps
<1>10. QED BY <1>2, <1>3, <1>5, <1>9

LEMMA NextFileStep == ASSUME StartupInv, NextFile PROVE StartupInv'
<1> USE DEF StartupInv, NextFile, frame, machine
<1>1. m \in DOMAIN Lineup /\ Model \in Models /\ Model' = Model /\ f \in Nat \ {0} /\ Len(Parts[Model]) \in Nat
      /\ DOMAIN Parts[Model] = 1..Len(Parts[Model])
  BY LineupFacts DEF FilesInOrder, Models, Model, StartupTypeOK, Fetching
<1>2. StartupTypeOK' BY <1>1, StartupAssumption DEF StartupTypeOK, Steps
<1>3. SentinelsHold' BY DEF SentinelsHold, Whole, Fetched
<1>4. StepsInOrder' BY DEF StepsInOrder, Steps
<1>5. FilesInOrder'
  <2> USE <1>1
  <2>0. ok' = ok /\ disk' = disk /\ m' = m /\ m' \in DOMAIN Lineup /\ Model \notin ok
        /\ \A i \in DOMAIN Parts[Model] : i < f => Fetched(Model, Parts[Model][i])
    BY DEF FilesInOrder, Fetching
  <2>1. CASE f > Len(Parts[Model])
    BY <2>0, <2>1 DEF FilesInOrder, Fetched
  <2>2. CASE f <= Len(Parts[Model]) /\ File \notin Weights /\ Have # Absent
    <3>1. stage' = "file" /\ f' = f + 1 BY <2>2
    <3>2. Fetched(Model, Parts[Model][f]) BY <2>2 DEF Fetched, Have, File
    <3>3. QED BY <2>0, <3>1, <3>2 DEF FilesInOrder, Fetched
  <2>3. CASE f <= Len(Parts[Model]) /\ ~(File \notin Weights /\ Have # Absent)
    <3>1. stage' = "request" /\ f' = f /\ attempt' = 0 BY <2>3
    <3>2. f \in DOMAIN Parts[Model] /\ 0 < MAX_ATTEMPTS BY <2>3, StartupAssumption
    <3>3. QED BY <2>0, <3>1, <3>2 DEF FilesInOrder, Fetched
  <2>4. QED BY <2>1, <2>2, <2>3
<1>6. QED BY <1>2, <1>3, <1>4, <1>5

LEMMA WriteSentinelStep == ASSUME StartupInv, WriteSentinel PROVE StartupInv'
<1> USE DEF StartupInv, WriteSentinel, frame, machine
<1>1. m \in DOMAIN Lineup /\ Model \in Models /\ f > Len(Parts[Model])
      /\ \A i \in DOMAIN Parts[Model] : i < f => Fetched(Model, Parts[Model][i])
  BY DEF FilesInOrder, Fetching, Models, Model
<1>2. m' \in 1..(Len(Lineup) + 1) /\ m' = m + 1 /\ m \in Nat BY <1>1, LineupFacts
<1>3. StartupTypeOK' BY <1>1, <1>2 DEF StartupTypeOK, Steps
<1>4. Whole(Model)
  <2>1. \A i \in DOMAIN Parts[Model] : i < f BY <1>1, LineupFacts DEF StartupTypeOK
  <2>2. QED BY <1>1, <2>1 DEF Whole, FilesOf
<1>5. SentinelsHold' BY <1>4 DEF SentinelsHold, Whole, Fetched
<1>6. FilesInOrder' BY DEF FilesInOrder, Fetching
<1>7. StepsInOrder' BY <1>2, LineupFacts DEF StepsInOrder, Steps, Model
<1>8. QED BY <1>3, <1>5, <1>6, <1>7

\* The steps of a download, that write the current file only.
LEMMA PutStep ==
    ASSUME StartupInv, stage \in {"request", "stream"}, stage' = "stream",
           NEW n \in 0..Size, Put(n),
           UNCHANGED <<frame, m, f, ok, attempt>>, known' \in BOOLEAN, outages' \in 0..MaxOutages
    PROVE  StartupInv'
<1> USE DEF StartupInv, frame, machine
<1>1. m \in DOMAIN Lineup /\ Model \in Models /\ Model' = Model /\ Model \notin ok
      /\ f \in DOMAIN Parts[Model] /\ File \in FilesOf(Model) /\ File' = File
  BY DEF FilesInOrder, Models, Model, FilesOf, File, Fetching
<1>2. n \in Absent..Size /\ n # Absent BY StartupAssumption DEF Absent
<1>3. /\ DOMAIN disk' = Models
      /\ \A x \in Models : disk'[x] \in [FilesOf(x) -> Absent..Size]
      /\ \A x \in Models : x # Model => disk'[x] = disk[x]
      /\ \A p \in FilesOf(Model) : p # File => disk'[Model][p] = disk[Model][p]
      /\ disk'[Model][File] = n
  BY <1>1, <1>2 DEF StartupTypeOK, Put
<1>4. StartupTypeOK' BY <1>3 DEF StartupTypeOK, Steps
<1>5. SentinelsHold' BY <1>1, <1>3 DEF SentinelsHold, Whole, Fetched, StartupTypeOK
<1>6. ASSUME NEW i \in DOMAIN Parts[Model], i < f
      PROVE  Parts[Model][i] # File /\ Parts[Model][i] \in FilesOf(Model)
  <2>1. \A j, k \in DOMAIN Parts[Model] : Parts[Model][j] = Parts[Model][k] => j = k
    BY <1>1, StartupAssumption
  <2>2. i # f BY <1>1, <1>6, LineupFacts
  <2>3. QED BY <1>1, <2>1, <2>2 DEF File, FilesOf
<1>7. FilesInOrder'
  BY <1>1, <1>2, <1>3, <1>6 DEF FilesInOrder, Fetching, Fetched, Have
<1>8. StepsInOrder' BY DEF StepsInOrder, Steps
<1>9. QED BY <1>4, <1>5, <1>7, <1>8

\* A failure, counted.
LEMMA RetryStep ==
    ASSUME StartupInv, stage \in {"request", "stream"}, Retry,
           UNCHANGED <<frame, m, f, disk, ok, known>>, outages' \in 0..MaxOutages
    PROVE  StartupInv'
<1> USE DEF StartupInv, frame, machine
<1>1. attempt \in Nat /\ attempt < MAX_ATTEMPTS /\ MAX_ATTEMPTS \in Nat /\ Model' = Model
  BY StartupAssumption DEF FilesInOrder, StartupTypeOK, Model, Fetching
<1>2. attempt' \in 0..MAX_ATTEMPTS /\ stage' \in {"noModels", "request"}
      /\ (stage' = "request" => attempt' < MAX_ATTEMPTS)
  BY <1>1 DEF Retry
<1>3. StartupTypeOK' BY <1>2 DEF StartupTypeOK, Exits, Steps
<1>4. SentinelsHold' BY DEF SentinelsHold, Whole, Fetched
<1>5. FilesInOrder' BY <1>1, <1>2 DEF FilesInOrder, Fetching, Fetched
<1>6. StepsInOrder' BY <1>2 DEF StepsInOrder, Steps
<1>7. QED BY <1>3, <1>4, <1>5, <1>6

LEMMA OutageCounted == ASSUME StartupTypeOK, outages < MaxOutages PROVE outages + 1 \in 0..MaxOutages
BY StartupAssumption DEF StartupTypeOK

LEMMA DownloadStep == ASSUME StartupInv, Download PROVE StartupInv'
<1> USE StartupAssumption DEF StartupInv
<1>1. CASE RequestFails BY <1>1, RetryStep, OutageCounted DEF RequestFails
<1>2. CASE RangeRefused BY <1>2, RetryStep DEF RangeRefused, StartupTypeOK
<1>3. CASE Read
  <2>1. Have + 1 \in 0..Size /\ stage = "stream" /\ Put(Have + 1)
    <3>1. m \in DOMAIN Lineup /\ Model \in Models /\ f \in DOMAIN Parts[Model] /\ File \in FilesOf(Model)
      BY <1>3 DEF Read, FilesInOrder, Models, Model, File, FilesOf, Fetching
    <3>2. Have \in Absent..Size /\ Have # Absent BY <1>3, <3>1 DEF Read, FilesInOrder, StartupTypeOK, Have, Fetching
    <3>3. QED BY <1>3, <3>2 DEF Read, Absent
  <2>2. QED BY <1>3, <2>1, PutStep DEF Read, StartupTypeOK
<1>4. ASSUME NEW t \in BOOLEAN, Resume(t) PROVE StartupInv'
  <2>1. outages' \in 0..MaxOutages BY <1>4, OutageCounted DEF Resume, StartupTypeOK
  <2>2. stage = "request" /\ stage' = "stream" /\ known' \in BOOLEAN /\ Have # Absent
        /\ UNCHANGED <<frame, m, f, disk, ok, attempt>>
    BY <1>4 DEF Resume, Absent
  <2>3. StartupTypeOK' BY <2>1, <2>2 DEF StartupTypeOK, Steps, frame, machine
  <2>4. SentinelsHold' BY <2>2 DEF SentinelsHold, Whole, Fetched
  <2>5. FilesInOrder' BY <2>2 DEF FilesInOrder, Fetching, Fetched, Model, Have, File
  <2>6. StepsInOrder' BY <2>2 DEF StepsInOrder, Steps, frame, machine
  <2>7. QED BY <2>3, <2>4, <2>5, <2>6
<1>5. ASSUME NEW t \in BOOLEAN, Restart(t) PROVE StartupInv'
  <2>1. outages' \in 0..MaxOutages BY <1>5, OutageCounted DEF Restart, StartupTypeOK
  <2>2. 0 \in 0..Size OBVIOUS
  <2>3. QED BY <1>5, <2>1, <2>2, PutStep DEF Restart
<1>6. ASSUME NEW t \in BOOLEAN, StreamEnds(t) PROVE StartupInv'
  <2>1. outages' \in 0..MaxOutages BY <1>6, OutageCounted DEF StreamEnds, StartupTypeOK
  <2>2. CASE ~(t /\ Reached) BY <1>6, <2>1, <2>2, RetryStep DEF StreamEnds
  <2>3. CASE t /\ Reached
    <3>1. stage = "stream" /\ stage' = "file" /\ f' = f + 1 /\ UNCHANGED <<frame, m, disk, ok, known, attempt>>
      BY <1>6, <2>3 DEF StreamEnds
    <3>2. m \in DOMAIN Lineup /\ Model \in Models /\ f \in DOMAIN Parts[Model] /\ File \in FilesOf(Model)
          /\ Model' = Model /\ Model \notin ok /\ f \in Nat
      BY <3>1 DEF FilesInOrder, Models, Model, File, FilesOf, StartupTypeOK, Fetching
    <3>3. Have \in Absent..Size /\ Have >= Size BY <2>3, <3>2 DEF Reached, StartupTypeOK, Have
    <3>4. Fetched(Model, Parts[Model][f]) BY <3>3 DEF Fetched, Have, File, Absent
    <3>5. StartupTypeOK' BY <2>1, <3>1 DEF StartupTypeOK, Steps, frame, machine
    <3>6. SentinelsHold' BY <3>1 DEF SentinelsHold, Whole, Fetched
    <3>7. FilesInOrder'
      <4>1. \A i \in DOMAIN Parts[Model] : i < f => Fetched(Model, Parts[Model][i])
        BY <3>1 DEF FilesInOrder, Fetching
      <4>2. \A i \in DOMAIN Parts[Model] : i < f + 1 => Fetched(Model, Parts[Model][i])
        BY <3>2, <3>4, <4>1, LineupFacts
      <4>3. QED BY <3>1, <3>2, <4>2 DEF FilesInOrder, Fetched
    <3>8. StepsInOrder' BY <3>1 DEF StepsInOrder, Steps, frame, machine
    <3>9. QED BY <3>5, <3>6, <3>7, <3>8
  <2>4. QED BY <2>2, <2>3
<1>7. QED BY <1>1, <1>2, <1>3, <1>4, <1>5, <1>6 DEF Download

LEMMA PrefetchStep == ASSUME StartupInv, Prefetch PROVE StartupInv'
<1>1. CASE prefetch_models
  BY <1>1 DEF StartupInv, prefetch_models, frame, machine, StartupTypeOK, FilesInOrder, SentinelsHold, StepsInOrder,
              Whole, Fetched, Fetching, Steps
<1>2. CASE DiskFails
  <2>1. outages' \in 0..MaxOutages BY <1>2, OutageCounted DEF StartupInv, DiskFails
  <2>2. QED BY <1>2, <2>1 DEF StartupInv, DiskFails, frame, machine, StartupTypeOK, FilesInOrder, SentinelsHold,
                  StepsInOrder, Whole, Fetched, Fetching, Steps, Exits
<1>3. QED BY <1>1, <1>2, FoundStep, ClearStep, NextFileStep, WriteSentinelStep DEF Prefetch

\* The end of the start-up touches no file.
LEMMA FinishStep == ASSUME StartupInv, Finish \/ Crash \/ UNCHANGED startupVars PROVE StartupInv'
<1> USE DEF StartupInv, files, machine, StartupTypeOK, FilesInOrder, SentinelsHold, StepsInOrder, Whole, Fetched,
            Fetching, Steps, Exits
<1>1. CASE set_mining_tier BY <1>1 DEF set_mining_tier
<1>2. CASE Probe
  <2>1. probe_gpu_inference \in {"Ok", "CublasMissing"} => rig.nvidia BY DEF probe_gpu_inference
  <2>2. probe_gpu_inference = "Ok" => libs = "loadable" BY DEF probe_gpu_inference
  <2>3. QED BY <1>2, <2>1, <2>2 DEF Probe, install_cuda_libs
<1>3. CASE Reprobe BY <1>3 DEF Reprobe
<1>4. CASE CheckWorkers BY <1>4 DEF CheckWorkers
<1>5. CASE Crash BY <1>5 DEF Crash
<1>6. CASE UNCHANGED startupVars BY <1>6 DEF startupVars, Model, Have, File
<1>7. QED BY <1>1, <1>2, <1>3, <1>4, <1>5, <1>6 DEF Finish

\* Everything about the start rests on one inductive invariant.
THEOREM StartupInvariant == StartupSpec => []StartupInv
<1>1. StartupInit => StartupInv BY StartupStarts
<1>2. StartupInv /\ [StartupNext]_startupVars => StartupInv'
  BY LaunchStep, PrefetchStep, DownloadStep, FinishStep DEF StartupNext, Process
<1>3. QED BY <1>1, <1>2, PTL DEF StartupSpec

\* The weights of a model whose .ok file exists are complete (ensure_gguf and
\* ensure_safetensors of src/src/slm.rs), whatever was cut or killed.
THEOREM StartupReadyIsWhole == StartupSpec => []ReadyIsWhole
<1>1. StartupInv => ReadyIsWhole
  BY DEF StartupInv, StartupTypeOK, SentinelsHold, Whole, Fetched, ReadyIsWhole
<1>2. QED BY <1>1, StartupInvariant, PTL

\* The process mines only with its lineup on disk and recorded, and with an inference
\* device that was seen to work (main).
THEOREM StartupMiningIsBacked == StartupSpec => []MiningIsBacked
<1>1. ASSUME StartupInv PROVE MiningIsBacked
  <2> SUFFICES ASSUME stage = "mining" PROVE MiningIsBacked BY DEF MiningIsBacked
  <2>1. m \in Nat /\ m > Len(Lineup) /\ tiers = Models /\ rig.nvidia /\ libs = "loadable"
    BY <1>1, LineupFacts DEF StartupInv, StepsInOrder, StartupTypeOK
  <2>2. Models \subseteq ok BY <1>1, <2>1, LineupFacts DEF StartupInv, StepsInOrder, Models
  <2>3. QED BY <1>1, <2>1, <2>2 DEF StartupInv, StartupTypeOK, SentinelsHold, Whole, Fetched, MiningIsBacked
<1>2. QED BY <1>1, StartupInvariant, PTL
=============================================================================
