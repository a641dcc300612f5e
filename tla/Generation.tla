----------------------------- MODULE Generation -----------------------------
(***************************************************************************)
(* How the resident engine answers a prompt (generate of src/src/slm.rs,   *)
(* and the part of load_and_run_inference around it that decides what the  *)
(* next prompt finds).  The engine keeps one model with its cache of keys  *)
(* and values between two prompts; a generation samples token after token  *)
(* until a stop token, a stop string in the decoded text, or its bound,    *)
(* and the text is cut and stripped before it becomes the answer.          *)
(*                                                                         *)
(* A token decodes to a sequence of pieces of text, a special token to     *)
(* none.  Everything here happens under the engine's lock: GpuMiner has    *)
(* who gets it.                                                            *)
(***************************************************************************)
EXTENDS Integers, Sequences, SequencesExt, FiniteSetsExt

CONSTANTS
    Tokens,          \* the vocabulary
    Spell,           \* the pieces of text each token decodes to
    NAMES,           \* the names of the model's stop tokens
    FALLBACKS,       \* the ids hard-coded for them
    Vocabulary,      \* token_to_id, where the tokenizer has the name
    STOP_STRINGS,    \* the model's stop strings
    Thinks,          \* a model whose answer may follow a think block
    CloseThink,      \* the piece that closes one
    MODEL_MAX,       \* the model's bound on new tokens
    WINDOW,          \* how many tokens the search for a stop string looks back
    Variants,        \* implementations of the model to consider, see Forward
    Prompts,         \* prompts, as the tokens they encode to
    Limits,          \* bounds on new tokens a request may ask for
    MaxRequests      \* bound: prompts to answer

ASSUME GenerationAssumption ==
    /\ Spell \in [Tokens -> Seq(UNION {{Spell[t][i] : i \in DOMAIN Spell[t]} : t \in Tokens})]
    /\ Prompts \subseteq Seq(Tokens) \ {<< >>}
    /\ Variants \subseteq {"full", "rewinding", "concat"}
    /\ Limits \subseteq Nat /\ MODEL_MAX \in Nat /\ MaxRequests \in Nat
    /\ WINDOW \in Nat \ {0}
    /\ \A i \in DOMAIN STOP_STRINGS : Len(STOP_STRINGS[i]) \in 1..WINDOW

VARIABLES
    variant,         \* what the model is implemented by
    resident,        \* an engine is loaded
    poisoned,        \* a thread panicked while it held the engine
    kv_cache,        \* the tokens whose keys and values the engine's model holds
    at,              \* where the generation is
    max_steps,
    all_tokens, generated,
    answer,          \* the last answer: text, or NoAnswer
    asked            \* prompts so far
run == <<max_steps, all_tokens, generated>>
vars == <<variant, resident, poisoned, kv_cache, at, run, answer, asked>>

NoAnswer == << >>

\* The shape of the state; nothing is generated beyond the bound.
TypeOK ==
    /\ variant \in Variants
    /\ resident \in BOOLEAN /\ poisoned \in BOOLEAN
    /\ kv_cache \in Seq(Tokens) /\ all_tokens \in Seq(Tokens) /\ generated \in Seq(Tokens)
    /\ at \in {"idle", "loaded", "forward", "sample", "publish"}
    /\ max_steps \in 0..MODEL_MAX
    /\ Len(generated) <= max_steps
    /\ at \in {"forward", "sample"} => Len(generated) < max_steps
    /\ asked \in 0..MaxRequests

Init ==
    /\ variant \in Variants
    /\ resident = FALSE /\ poisoned = FALSE
    /\ kv_cache = << >>
    /\ at = "idle"
    /\ max_steps = 0 /\ all_tokens = << >> /\ generated = << >>
    /\ answer = NoAnswer /\ asked = 0

-----------------------------------------------------------------------------
(* Where a turn ends.                                                      *)

\* Faulty variant: the tokenizer is not asked.
collect_stop_idsGuessed(names, fallbacks) == ToSet(fallbacks)

\* A name without a fallback at its place is dropped.
collect_stop_ids(names, fallbacks) ==
    {IF names[i] \in DOMAIN Vocabulary THEN Vocabulary[names[i]] ELSE fallbacks[i] :
        i \in DOMAIN names \cap DOMAIN fallbacks}

stop_token_ids == collect_stop_ids(NAMES, FALLBACKS)

decode(tokens) == FlattenSeq([i \in DOMAIN tokens |-> Spell[tokens[i]]])

Places(text, s) == {i \in 1..(Len(text) + 1 - Len(s)) : SubSeq(text, i, i + Len(s) - 1) = s}
Stops(text) == UNION {Places(text, STOP_STRINGS[i]) : i \in DOMAIN STOP_STRINGS}

\* Faulty variant: only the token just generated is decoded.
hit_stop_stringShort(tokens) == tokens # << >> /\ Stops(decode(<<Last(tokens)>>)) # {}

hit_stop_string(tokens) ==
    /\ tokens # << >>
    /\ LET start == IF Len(tokens) > WINDOW THEN Len(tokens) - WINDOW ELSE 0
       IN  Stops(decode(SubSeq(tokens, start + 1, Len(tokens)))) # {}

strip_think_tags(text) ==
    IF CloseThink \in ToSet(text)
    THEN SubSeq(text, Min(Places(text, <<CloseThink>>)) + 1, Len(text))
    ELSE text

\* The text up to the earliest stop string, without the think block.
Answer(tokens) ==
    LET text == decode(tokens)
        cut == IF Stops(text) = {} THEN text ELSE SubSeq(text, 1, Min(Stops(text)) - 1)
    IN  IF Thinks THEN strip_think_tags(cut) ELSE cut

-----------------------------------------------------------------------------
(* load_and_run_inference and generate.                                    *)

\* A lock found poisoned is recovered by dropping the engine.
Recover ==
    /\ at = "idle" /\ poisoned /\ resident
    /\ resident' = FALSE /\ kv_cache' = << >>
    /\ UNCHANGED <<variant, poisoned, at, run, answer, asked>>

\* The format of the model's files decides on the variant; a load that fails leaves
\* no engine.
load_engine ==
    /\ at = "idle" /\ ~resident
    /\ resident' = TRUE /\ kv_cache' = << >>
    /\ at' = "loaded"
    /\ UNCHANGED <<variant, poisoned, run, answer, asked>>

Ready == resident /\ (at = "loaded" \/ (at = "idle" /\ ~poisoned))

\* Faulty variant: the Qwen3 models are not told of a new prompt.
clear_kv_cacheNever(cache) == IF variant = "full" THEN << >> ELSE cache

\* An unquantized model gets a new cache and the Qwen3 ones, whole ("concat") or split,
\* are told to clear theirs; the others keep what the last prompt left.
clear_kv_cache(cache) == IF variant = "rewinding" THEN cache ELSE << >>

\* The prompt is encoded.
Started(prompt, max_new_tokens) ==
    /\ Ready /\ asked < MaxRequests
    /\ asked' = asked + 1
    /\ all_tokens' = prompt /\ generated' = << >>
    /\ max_steps' = IF max_new_tokens < MODEL_MAX THEN max_new_tokens ELSE MODEL_MAX
    /\ kv_cache' = clear_kv_cache(kv_cache)
    /\ at' = IF max_steps' = 0 THEN "publish" ELSE "forward"
    /\ UNCHANGED <<variant, resident, poisoned, answer>>

\* The prompt at position 0, then the last token at its position.  A rewinding model
\* starts its cache anew at position 0; the others append whatever the position.
Forward ==
    /\ at = "forward"
    /\ LET pos == IF generated = << >> THEN 0 ELSE Len(all_tokens) - 1
           input == SubSeq(all_tokens, pos + 1, Len(all_tokens))
       IN  kv_cache' = IF variant = "rewinding" /\ pos = 0 THEN input ELSE kv_cache \o input
    /\ at' = "sample"
    /\ UNCHANGED <<variant, resident, poisoned, run, answer, asked>>

\* sample_next: any token may come.
sample_next(t) ==
    /\ at = "sample"
    /\ IF t \in stop_token_ids
       THEN at' = "publish" /\ UNCHANGED <<all_tokens, generated>>
       ELSE /\ all_tokens' = Append(all_tokens, t)
            /\ generated' = Append(generated, t)
            /\ at' = IF hit_stop_string(generated') \/ Len(generated') = max_steps
                     THEN "publish" ELSE "forward"
    /\ UNCHANGED <<variant, resident, poisoned, kv_cache, max_steps, answer, asked>>

\* An empty answer is none.
Publish ==
    /\ at = "publish"
    /\ answer' = Answer(generated)
    /\ at' = "idle"
    /\ UNCHANGED <<variant, resident, poisoned, kv_cache, run, asked>>

\* An error of the model: the answer is dropped, and the engine with it.
GenerateFails ==
    /\ at \in {"forward", "sample"}
    /\ resident' = FALSE /\ kv_cache' = << >>
    /\ answer' = NoAnswer
    /\ at' = "idle"
    /\ UNCHANGED <<variant, poisoned, run, asked>>

\* A panic poisons the lock; its handler cannot take the engine away any more.
GeneratePanics ==
    /\ at \in {"forward", "sample"}
    /\ poisoned' = TRUE
    /\ answer' = NoAnswer
    /\ at' = "idle"
    /\ UNCHANGED <<variant, resident, kv_cache, run, asked>>

\* advance_lineup_if_due swaps the lineup between two prompts, poisoned or not.
evict_engine ==
    /\ at = "idle" /\ resident
    /\ resident' = FALSE /\ kv_cache' = << >>
    /\ UNCHANGED <<variant, poisoned, at, run, answer, asked>>

Next ==
    \/ Recover \/ load_engine \/ Forward \/ Publish
    \/ \E p \in Prompts, n \in Limits : Started(p, n)
    \/ \E t \in Tokens : sample_next(t)
    \/ GenerateFails \/ GeneratePanics \/ evict_engine

Spec == Init /\ [][Next]_vars

-----------------------------------------------------------------------------
(* Properties.                                                             *)

\* When a token is sampled, the model has seen this conversation and nothing else:
\* neither what an earlier prompt left in the cache nor a token twice.
CacheIsContext == at = "sample" => kv_cache = all_tokens

\* No token that ends a turn is taken into the answer, under whatever id the tokenizer
\* has it ("so generation always terminates", src/src/slm.rs:314).
TurnsEnd ==
    \A i \in DOMAIN NAMES :
        NAMES[i] \in DOMAIN Vocabulary => Vocabulary[NAMES[i]] \notin ToSet(generated)

\* The generation does not go on after a stop string, however many tokens spell it, and
\* the answer holds none.
NothingAfterStop ==
    /\ generated # << >> => Stops(decode(Front(generated))) = {}
    /\ Stops(answer) = {}
=============================================================================
