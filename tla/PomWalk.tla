------------------------------ MODULE PomWalk -------------------------------
(***************************************************************************)
(* From a template to a block with a possession proof: the job, the search *)
(* on the GPU or the CPU, the host's second walk over the winning nonce,   *)
(* the proof, the block, and the node's verification                       *)
(* (src/src/pow.rs, src/src/pom.rs, src/src/pom_gpu.rs, src/src/miner.rs). *)
(*                                                                         *)
(* Words have WORD_BITS bits, a hash two words, a chunk one.  mix64 is any *)
(* function on words; blake3 is symbolic where it makes leaves, a random   *)
(* oracle where it draws the challenges.                                   *)
(***************************************************************************)
EXTENDS Merkle, FiniteSets, FiniteSetsExt

CONSTANTS
    WORD_BITS,
    BitXor(_, _), BitAnd(_, _), BitOr(_, _),   \* on words
    MIX,                         \* mix64
    SALT,                        \* POM_H3_PPH_SALT: two words
    POM_ACTIVATION_DAA, POM_LEVEL_ACTIVATION_DAA,
    POM_WALK_STEPS, POM_OPENINGS,
    POM_BATCH,                   \* nonces in a launch
    WEIGHTS,                     \* the words of the resident model's chunks
    SAMPLES,                     \* the words verify_mod_magic draws
    HEAVY,                       \* the legacy hash of a nonce
    Templates,                   \* what the client hands out
    Ranges,                      \* the parts of the nonces a pool gives: a mask, the fixed bits
    Workers                      \* kinds of mining threads: a subset of "gpu", "cpu"

Words == 0..(2^WORD_BITS - 1)
N == Len(WEIGHTS)

\* The constants that separate the folds.
SEED_SALT == 1
FOLD_SALT == <<3, 2>>

Header == [rest : Nat, time : Words, nonce : Words, daa : Nat, pom_final_state : Words]

ASSUME WalkAssumption ==
    /\ {WORD_BITS, POM_ACTIVATION_DAA, POM_LEVEL_ACTIVATION_DAA,
        POM_WALK_STEPS, POM_OPENINGS, POM_BATCH} \subseteq Nat
    /\ \A a, b \in Words : {BitXor(a, b), BitAnd(a, b), BitOr(a, b)} \subseteq Words
    /\ MIX \in [Words -> Words] /\ SALT \in [1..2 -> Words]
    /\ WEIGHTS \in Seq(Words) /\ N \in Words \ {0}
    /\ {SEED_SALT, FOLD_SALT[1], FOLD_SALT[2]} \subseteq Words
    /\ \A t \in Templates : t.header \in Header
    /\ Ranges \subseteq [mask : Words, fixed : Words]

VARIABLES
    worker,     \* the kind of this mining thread
    pool,       \* whether the client's jobs come from a pool
    range,      \* the CPU worker's mask and fixed bits
    job,        \* its State, or NoJob
    cursor,     \* where its search goes on
    found,      \* nonces the kernel reported: none or one
    block,      \* the block or share it sent, or NoBlock
    asked,      \* what the oracle was asked and answered
    verdict     \* the node's: "none", "accepted" or "rejected"
vars == <<worker, pool, range, job, cursor, found, block, asked, verdict>>

NoJob == [pph |-> << >>]
NoBlock == [nonce |-> -1]
NotAsked == [query |-> << >>, answer |-> << >>]

-----------------------------------------------------------------------------
(* The folds.                                                              *)

mix64(x) == MIX[x]

pph_words(pph) == pph
Salted(pph) == [i \in DOMAIN pph |-> BitXor(pph[i], SALT[i])]

is_h3(daa) == daa >= POM_LEVEL_ACTIVATION_DAA
\* Faulty variant: the salt comes a block late.
salt_pph_bytes_for_daaLate(pph, daa) ==
    IF daa > POM_LEVEL_ACTIVATION_DAA THEN Salted(pph) ELSE pph
salt_pph_bytes_for_daa(pph, daa) == IF is_h3(daa) THEN Salted(pph) ELSE pph

pom_block_seed_from_words(p, time, nonce) ==
    mix64(BitXor(mix64(BitXor(mix64(BitXor(mix64(BitXor(nonce, SEED_SALT)), time)), p[1])), p[2]))
pom_block_seed_for_daa(pph, daa, time, nonce) ==
    pom_block_seed_from_words(IF is_h3(daa) THEN Salted(pph) ELSE pph_words(pph), time, nonce)

pom_pow_value_from_words(final, p) ==
    LET o1 == mix64(BitXor(BitXor(final, p[1]), FOLD_SALT[1]))
    IN  <<o1, mix64(BitXor(BitXor(o1, p[2]), FOLD_SALT[2]))>>
pom_pow_value_for_daa(final, pph, daa) ==
    pom_pow_value_from_words(final, IF is_h3(daa) THEN Salted(pph) ELSE pph_words(pph))

\* The last word counts most.
le_leq(a, b) == a[2] < b[2] \/ (a[2] = b[2] /\ a[1] <= b[1])

transition(state, chunk) == mix64(BitXor(state, chunk))

-----------------------------------------------------------------------------
(* Modulo by multiplication, as the kernel does it.                        *)

Wrap(x) == x % 2^WORD_BITS
mulhi64(a, b) == (a * b) \div 2^WORD_BITS

BitLength(d) == CHOOSE p \in 0..WORD_BITS : d < 2^p /\ \A q \in 0..(p - 1) : d >= 2^q

fast_mod(a, m, d) ==
    IF m.magic = 0 THEN a % d
    ELSE Wrap(a - (mulhi64(a, m.magic) \div 2^m.shift) * d)

\* The words that are always tried.
Edges(d) == {0, 1, d - 1, d, d + 1, 2^WORD_BITS - 1,
             Wrap(2 * d - 1), Wrap(2 * d), Wrap(2 * d + 1), Wrap(3 * d)}
verify_mod_magic(m, d) ==
    /\ m.magic # 0 /\ m.shift < WORD_BITS
    /\ \A a \in SAMPLES \cup Edges(d) : fast_mod(a, m, d) = a % d

Candidate(d, shift) == [magic |-> (2^(WORD_BITS + shift) + d - 1) \div d, shift |-> shift]
NoMagic == [magic |-> 0, shift |-> 0]

\* The first shift whose multiplier fits in a word and passes the test.
mod_magic(d) ==
    LET p == BitLength(d)
        fit == {s \in (p - 1)..(p + WORD_BITS - 2) :
                   /\ Candidate(d, s).magic < 2^WORD_BITS
                   /\ verify_mod_magic(Candidate(d, s), d)}
    IN  IF d <= 1 \/ fit = {} THEN NoMagic ELSE Candidate(d, CHOOSE s \in fit : \A r \in fit : s <= r)

-----------------------------------------------------------------------------
(* The walk.                                                               *)

\* The states of a walk, from 0 to K, by one way to reduce a state to a chunk.
Trace(seed, mod) ==
    LET trace[i \in 0..POM_WALK_STEPS] ==
            IF i = 0 THEN seed
            ELSE LET state == trace[i - 1] IN transition(state, WEIGHTS[mod[state] + 1])
    IN  trace

HostMod == [x \in Words |-> x % N]
walk_final(seed) == Trace(seed, HostMod)[POM_WALK_STEPS]

\* One thread of the kernel: it gets a pre-PoW hash that the host has salted.
KernelWins(pph, time, target, nonce) ==
    LET m == mod_magic(N)
        KernelMod == [x \in Words |-> fast_mod(x, m, N)]
        seed == pom_block_seed_from_words(pph_words(pph), time, nonce)
        final == Trace(seed, KernelMod)[POM_WALK_STEPS]
    IN  le_leq(pom_pow_value_from_words(final, pph_words(pph)), target)

HostWins(j, nonce) ==
    LET seed == pom_block_seed_for_daa(j.pph, j.daa, j.time, nonce)
    IN  le_leq(pom_pow_value_for_daa(walk_final(seed), j.pph, j.daa), j.target)

\* check_pow: the legacy hash.
LegacyWins(j, nonce) == le_leq(<<0, HEAVY[nonce]>>, j.target)

-----------------------------------------------------------------------------
(* Headers and jobs.                                                       *)

\* Faulty variant: the pre-PoW hash has the final state too.
serialize_headerFinal(h, for_pre_pow) ==
    <<h.rest, IF for_pre_pow THEN 0 ELSE h.time, IF for_pre_pow THEN 0 ELSE h.nonce, h.daa>>
        \o (IF is_h3(h.daa) THEN <<h.pom_final_state>> ELSE << >>)

\* The hashed fields: for the pre-PoW hash without time and nonce, and never with the
\* final state, which depends on it.
serialize_header(h, for_pre_pow) ==
    <<h.rest, IF for_pre_pow THEN 0 ELSE h.time, IF for_pre_pow THEN 0 ELSE h.nonce, h.daa>>
        \o (IF ~for_pre_pow /\ is_h3(h.daa) THEN <<h.pom_final_state>> ELSE << >>)

\* The two words of a hash over fields.
HeaderHash(fields) ==
    LET fold[i \in 0..Len(fields)] == IF i = 0 THEN 0 ELSE mix64(Wrap(fold[i - 1] + fields[i] + 1))
        f == fold[Len(fields)]
    IN  <<f, mix64(f)>>

\* State::new: a node's template has its header hashed here, a pool sends the hash, the
\* target and the range of nonces that is this miner's.
AllNonces == [mask |-> 2^WORD_BITS - 1, fixed |-> 0]
NewState(t, r) ==
    [pph |-> HeaderHash(serialize_header(t.header, TRUE)),
     time |-> t.header.time, target |-> t.target, daa |-> t.header.daa,
     nonce |-> r, header |-> t.header]

Into(r, nonce) == BitOr(BitAnd(nonce, r.mask), r.fixed)
InRange(j, nonce) == Into(j.nonce, nonce) = nonce

-----------------------------------------------------------------------------
(* The proof.                                                              *)

trace_leaf(state) == <<state>>
WeightLeaves == [i \in 1..N |-> <<WEIGHTS[i]>>]
R_T == merkle_root(WeightLeaves)

\* What the challenges are drawn from: the raw hash, not the salted one.
Query(pph, nonce, root, value) == <<pph, nonce, root, value>>

\* The oracle answers the same question alike, another one with anything.
Challenges(query) ==
    IF asked.query = query THEN {asked.answer} ELSE [1..POM_OPENINGS -> 0..(POM_WALK_STEPS - 1)]

TraceLeaves(trace) == [i \in 1..(POM_WALK_STEPS + 1) |-> trace_leaf(trace[i - 1])]

build_proof(seed, value, chs) ==
    LET trace == Trace(seed, HostMod)
        leaves == TraceLeaves(trace)
    IN  [trace_root |-> merkle_root(leaves), pow_value |-> value,
         final_state |-> trace[POM_WALK_STEPS],
         initial_trace_path |-> merkle_proof(leaves, 0),
         final_trace_path |-> merkle_proof(leaves, POM_WALK_STEPS),
         openings |-> [j \in DOMAIN chs |->
             LET before == trace[chs[j]] IN
             [state_before |-> before, chunk |-> WEIGHTS[(before % N) + 1],
              weight_path |-> merkle_proof(WeightLeaves, before % N),
              trace_path_before |-> merkle_proof(leaves, chs[j]),
              trace_path_after |-> merkle_proof(leaves, chs[j] + 1)]]]

verify_proof(pph, daa, seed, proof, target, chs) ==
    /\ Len(proof.openings) = POM_OPENINGS
    /\ pom_pow_value_for_daa(proof.final_state, pph, daa) = proof.pow_value
    /\ le_leq(proof.pow_value, target)
    /\ verify_merkle(trace_leaf(seed), 0, proof.initial_trace_path, proof.trace_root)
    /\ verify_merkle(trace_leaf(proof.final_state), POM_WALK_STEPS, proof.final_trace_path, proof.trace_root)
    /\ \A j \in DOMAIN chs :
          LET op == proof.openings[j]
          IN  /\ verify_merkle(trace_leaf(op.state_before), chs[j], op.trace_path_before, proof.trace_root)
              /\ verify_merkle(<<op.chunk>>, op.state_before % N, op.weight_path, R_T)
              /\ verify_merkle(trace_leaf(transition(op.state_before, op.chunk)), chs[j] + 1,
                               op.trace_path_after, proof.trace_root)

-----------------------------------------------------------------------------
Init ==
    /\ worker \in Workers
    /\ pool \in BOOLEAN
    /\ range = [mask |-> 0, fixed |-> 0]
    /\ job = NoJob
    /\ cursor \in Words             \* thread_rng
    /\ found = {}
    /\ block = NoBlock
    /\ asked = NotAsked
    /\ verdict = "none"

Mining == job # NoJob /\ found = {} /\ block = NoBlock
Pom == job.daa >= POM_ACTIVATION_DAA

\* To an idle worker, or between two searches; the CPU worker notes the range of its
\* nonces only when it was idle.
NewJob ==
    /\ job = NoJob \/ Mining
    /\ \E t \in Templates, r \in IF pool THEN Ranges ELSE {AllNonces} :
          /\ job' = NewState(t, r)
          /\ range' = IF job = NoJob THEN r ELSE range
    /\ UNCHANGED <<worker, pool, cursor, found, block, asked, verdict>>

\* A launch of the kernel: the lowest winner of a batch from the cursor, which goes round.
SearchGpu ==
    /\ worker = "gpu" /\ Mining /\ Pom
    /\ LET pph == salt_pph_bytes_for_daa(job.pph, job.daa)
           won == {n \in {Wrap(cursor + i) : i \in 0..(POM_BATCH - 1)} :
                      KernelWins(pph, job.time, job.target, n)}
       IN  found' = IF won = {} THEN {} ELSE {Min(won)}
    /\ cursor' = Wrap(cursor + POM_BATCH)
    /\ UNCHANGED <<worker, pool, range, job, block, asked, verdict>>

\* The CPU worker tries one nonce of its range, on the host only.
SearchCpu ==
    /\ worker = "cpu" /\ Mining
    /\ LET nonce == Into(range, cursor)
       IN  /\ found' = {nonce}
           /\ cursor' = Wrap(nonce + 1)
    /\ UNCHANGED <<worker, pool, range, job, block, asked, verdict>>

\* A plugin's kernel reports a nonce of the range for the legacy hash.
SearchPlugin ==
    /\ worker = "gpu" /\ Mining /\ ~Pom
    /\ \E n \in {x \in Words \ {0} : InRange(job, x) /\ LegacyWins(job, x)} : found' = {n}
    /\ UNCHANGED <<worker, pool, range, job, cursor, block, asked, verdict>>

\* generate_block_if_pom: the host walks again, and drops a nonce that does not win.
BuildPomBlock ==
    /\ found # {} /\ Pom
    /\ LET nonce == CHOOSE n \in found : TRUE
           seed == pom_block_seed_for_daa(job.pph, job.daa, job.time, nonce)
           final == walk_final(seed)
           value == pom_pow_value_for_daa(final, job.pph, job.daa)
           query == Query(job.pph, nonce, merkle_root(TraceLeaves(Trace(seed, HostMod))), value)
       IN  IF ~le_leq(value, job.target)
           THEN UNCHANGED <<block, asked>>
           ELSE \E chs \in Challenges(query) :
                   /\ asked' = [query |-> query, answer |-> chs]
                   /\ block' = [nonce |-> nonce, proof |-> <<build_proof(seed, value, chs)>>,
                                header |-> IF pool THEN job.header
                                           ELSE [job.header EXCEPT !.nonce = nonce,
                                                     !.pom_final_state = IF is_h3(job.daa) THEN final ELSE @]]
    /\ found' = {}
    /\ UNCHANGED <<worker, pool, range, job, cursor, verdict>>

\* generate_block_if_pow.
BuildLegacyBlock ==
    /\ found # {} /\ ~Pom
    /\ LET nonce == CHOOSE n \in found : TRUE
       IN  block' = IF ~LegacyWins(job, nonce) THEN NoBlock
                    ELSE [nonce |-> nonce, proof |-> << >>,
                          header |-> IF pool THEN job.header ELSE [job.header EXCEPT !.nonce = nonce]]
    /\ found' = {}
    /\ UNCHANGED <<worker, pool, range, job, cursor, asked, verdict>>

\* The node hashes the header it got, or the pool the one it sent, and verifies.
Verify ==
    /\ block # NoBlock /\ verdict = "none"
    /\ LET h == block.header
           pph == HeaderHash(serialize_header(h, TRUE))
           seed == pom_block_seed_for_daa(pph, h.daa, h.time, block.nonce)
           p == block.proof[1]
       IN  IF block.proof = << >>
           THEN verdict' = IF LegacyWins(job, block.nonce) THEN "accepted" ELSE "rejected"
           ELSE \E chs \in Challenges(Query(pph, block.nonce, p.trace_root, p.pow_value)) :
                   verdict' = IF /\ verify_proof(pph, h.daa, seed, p, job.target, chs)
                                 /\ ~pool /\ is_h3(h.daa) => h.pom_final_state = p.final_state
                              THEN "accepted" ELSE "rejected"
    /\ UNCHANGED <<worker, pool, range, job, cursor, found, block, asked>>

\* A block for a node ends the job, a pool's job lasts until the next one.
GoOn ==
    /\ verdict # "none"
    /\ job' = IF pool THEN job ELSE NoJob
    /\ block' = NoBlock /\ asked' = NotAsked /\ verdict' = "none"
    /\ UNCHANGED <<worker, pool, range, cursor, found>>

Next ==
    \/ NewJob \/ SearchGpu \/ SearchCpu \/ SearchPlugin
    \/ BuildPomBlock \/ BuildLegacyBlock \/ Verify \/ GoOn

Spec == Init /\ [][Next]_vars

-----------------------------------------------------------------------------
(* Properties.                                                             *)

\* What the miner sends is accepted: before, at and after H3, salted where the node salts
\* and raw where it does not, over the whole walk and every opening.
WinnersAreAccepted == verdict # "rejected"

\* The kernel and the host agree on every nonce of a job: the kernel misses no winner and
\* reports none that the host then drops.
KernelIsHost ==
    (worker = "gpu" /\ Mining /\ Pom) =>
        \A n \in Words : KernelWins(salt_pph_bytes_for_daa(job.pph, job.daa), job.time, job.target, n)
                         <=> HostWins(job, n)

(* What the documentation says and the code does not give: TLC refutes what follows, at the
   constants the README names. *)

\* "Bit-exact unsigned modulo by a runtime-constant divisor" (pom_gpu.rs:47): the kernel's
\* modulo is the host's on every state of the walks of a job.
ModuloIsExact ==
    (worker = "gpu" /\ Mining /\ Pom) =>
        \A n \in Words :
            LET walk == Trace(pom_block_seed_for_daa(job.pph, job.daa, job.time, n), HostMod)
            IN  \A i \in DOMAIN walk : fast_mod(walk[i], mod_magic(N), N) = walk[i] % N

\* "Submitting nonces outside the assigned range would get every share rejected by the
\* pool" (ios.rs:885).
SharesInRange == (block # NoBlock /\ pool) => InRange(job, block.nonce)
=============================================================================
