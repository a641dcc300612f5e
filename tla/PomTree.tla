------------------------------ MODULE PomTree -------------------------------
(***************************************************************************)
(* The possession index of one model: the canonical sequence of 32-byte    *)
(* chunks of a GGUF file, and the sparse Merkle tree over it that is kept  *)
(* in pom-tree.bin (src/src/pom.rs, src/src/pom_gpu.rs).                   *)
(*                                                                         *)
(* A process opens the file or builds it anew, and may be killed at any    *)
(* step; what the buffered writer has not handed to the file is then lost. *)
(* A node is written whole: a torn one changes the file's length in bytes  *)
(* like a missing one, which is all that the code looks at.                *)
(*                                                                         *)
(* A leaf is the one-tuple of the file position of its chunk.              *)
(***************************************************************************)
EXTENDS Merkle, FiniteSets

CONSTANTS
    Ggufs,                  \* the files looked at: sequences of tensors by name
    CHUNK_BYTES,            \* bytes of a chunk
    CHECKPOINT_INTERVAL,    \* every so many levels of the tree are stored
    MaxCrashes              \* a bound on how often the process is killed

\* A tensor is where its data starts in the file and how long it is.
Tensor == [off : Nat, len : Nat]

VARIABLES
    gguf,        \* the model's file, which never changes
    file,        \* pom-tree.bin: Absent, or the nodes in it
    at,          \* where the process is
    buffer,      \* nodes written that the file does not have yet
    done,        \* nodes (or chunks) of the level below that are folded
    level,       \* the checkpoint that is being written, from 1
    crashes
treeVars == <<gguf, file, at, buffer, done, level, crashes>>

-----------------------------------------------------------------------------
(* The canonical chunks.                                                   *)

Full(t) == t.len \div CHUNK_BYTES
HasChunks(t) == Full(t) > 0

\* How many chunks precede each tensor, and how many there are.
First(g) ==
    LET first[i \in 0..Len(g)] == IF i = 0 THEN 0 ELSE first[i - 1] + Full(g[i])
    IN  first
NumChunks(g) == First(g)[Len(g)]

\* What the chunks are: those of every tensor in the order of the names, a tail that
\* does not fill a chunk left out.
TensorOf(g, c) == CHOOSE i \in DOMAIN g : First(g)[i - 1] < c /\ c <= First(g)[i]
Canonical(g) ==
    [c \in 1..NumChunks(g) |->
        LET i == TensorOf(g, c)
        IN  g[i].off + (c - 1 - First(g)[i - 1]) * CHUNK_BYTES]

\* The table of the index: first chunk and file position of every tensor with a chunk.
Table(g) ==
    LET first == First(g)
        rows[i \in 0..Len(g)] ==
            IF i = 0 THEN << >>
            ELSE IF HasChunks(g[i]) THEN Append(rows[i - 1], <<first[i - 1], g[i].off>>)
            ELSE rows[i - 1]
    IN  rows[Len(g)]

\* The row a chunk is in: how many rows start at or before it.
partition_point(table, off) == Cardinality({j \in DOMAIN table : table[j][1] <= off})

read_chunk(table, off) ==
    LET row == table[partition_point(table, off)]
    IN  row[2] + (off - row[1]) * CHUNK_BYTES

\* A run of chunks, tensor by tensor.
read_chunk_range(table, n, first, count) ==
    LET from == partition_point(table, first)
        Span(acc, j) ==
            LET left == count - Len(acc)
                cur == first + Len(acc)
                end == IF j < Len(table) THEN table[j + 1][1] ELSE n
                take == IF end - cur < left THEN end - cur ELSE left
            IN  acc \o [i \in 1..take |-> table[j][2] + (cur - table[j][1] + i - 1) * CHUNK_BYTES]
        out[k \in 0..(Len(table) - from + 1)] ==
            IF k = 0 THEN << >> ELSE Span(out[k - 1], from + k - 1)
    IN  out[Len(table) - from + 1]

\* Faulty variant: the bases of tensors without a chunk are listed too.
GatherEvery(g) ==
    LET gather[i \in 0..Len(g)] ==
            IF i = 0 THEN [bases |-> << >>, prefix |-> <<0>>]
            ELSE LET gm == gather[i - 1]
                 IN  [bases |-> Append(gm.bases, g[i].off),
                      prefix |-> IF HasChunks(g[i])
                                 THEN Append(gm.prefix, gm.prefix[Len(gm.prefix)] + Full(g[i]))
                                 ELSE gm.prefix]
    IN  gather[Len(g)]

\* The gather of a GPU miner: where the tensors are and how many chunks precede each;
\* the kernel halves the range of tensors until one is left.
Gather(g) ==
    LET gather[i \in 0..Len(g)] ==
            IF i = 0 THEN [bases |-> << >>, prefix |-> <<0>>]
            ELSE LET gm == gather[i - 1]
                 IN  IF HasChunks(g[i])
                     THEN [bases |-> Append(gm.bases, g[i].off),
                           prefix |-> Append(gm.prefix, gm.prefix[Len(gm.prefix)] + Full(g[i]))]
                     ELSE gm
    IN  gather[Len(g)]

HALVINGS == 10
find_tensor(prefix, T, off) ==
    LET find[k \in 0..HALVINGS] ==
            IF k = 0 THEN <<0, T>>
            ELSE LET lo == find[k - 1][1]
                     hi == find[k - 1][2]
                     mid == (lo + hi) \div 2
                 IN  IF prefix[mid + 1] <= off THEN <<mid, hi>> ELSE <<lo, mid>>
    IN  find[HALVINGS][1]

GatherChunk(gm, off) ==
    LET lo == find_tensor(gm.prefix, Len(gm.bases), off)
    IN  gm.bases[lo + 1] + (off - gm.prefix[lo + 1]) * CHUNK_BYTES

-----------------------------------------------------------------------------
(* The leaves of the dense tree (module Merkle).                           *)

Leaf(g, off) == <<Canonical(g)[off + 1]>>
Leaves(g) == [i \in 1..Len(Canonical(g)) |-> <<Canonical(g)[i]>>]

-----------------------------------------------------------------------------
(* The sparse tree.                                                        *)

\* Faulty variant: a short batch is folded to its own root only.
fold_levelsMini(batch, rounds) == Up(batch, RootLevel(Len(batch)))[1]

\* Fold a batch by exactly so many levels, a lone node with itself.
fold_levels(batch, rounds) == Up(batch, rounds)[1]

\* The stored levels: every CHECKPOINT_INTERVAL-th above the leaves, and the root.
Stored(n, lv) == (lv > 0 /\ lv % CHECKPOINT_INTERVAL = 0) \/ count_at_level(n, lv) = 1
compute_checkpoint_offsets(n) ==
    LET loop[k \in 0..(RootLevel(n) + 1)] ==
            IF k = 0 THEN [cps |-> << >>, off |-> 0]
            ELSE LET x == loop[k - 1]
                     count == count_at_level(n, k - 1)
                 IN  IF Stored(n, k - 1)
                     THEN [cps |-> Append(x.cps, [level |-> k - 1, count |-> count, offset |-> x.off]),
                           off |-> x.off + count]
                     ELSE x
    IN  loop[RootLevel(n) + 1].cps

FileSize(n) == LET cps == compute_checkpoint_offsets(n) IN cps[Len(cps)].offset + 1

find_checkpoint(n, lv) ==
    LET cps == compute_checkpoint_offsets(n)
    IN  cps[CHOOSE j \in DOMAIN cps : cps[j].level = lv]

SourceLevel(lv) == (lv \div CHECKPOINT_INTERVAL) * CHECKPOINT_INTERVAL

\* A node of a level that is not stored, from the chunks or the stored level below.
compute_subtree_hash(g, nodes, start, rounds, src) ==
    LET n == NumChunks(g)
        count == count_at_level(n, src)
        end == IF start + 2^rounds < count THEN start + 2^rounds ELSE count
        Source(i) == IF src = 0 THEN <<read_chunk(Table(g), i)>>
                     ELSE nodes[find_checkpoint(n, src).offset + i + 1]
    IN  fold_levels([i \in 1..(end - start) |-> Source(start + i - 1)], rounds)

merkle_path(g, nodes, off) ==
    LET n == NumChunks(g) IN
    [l \in 1..RootLevel(n) |->
        LET lv == l - 1
            i == off \div 2^lv
            sib == IF i % 2 = 0 THEN i + 1 ELSE i - 1
            real == IF sib < count_at_level(n, lv) THEN sib ELSE i
        IN  IF lv > 0 /\ lv % CHECKPOINT_INTERVAL = 0
            THEN nodes[find_checkpoint(n, lv).offset + real + 1]
            ELSE compute_subtree_hash(g, nodes, real * 2^(lv - SourceLevel(lv)), lv - SourceLevel(lv),
                                      SourceLevel(lv))]

\* The kernel's halvings cover the tensors, and a tree has a level that is stored below
\* its root: with fewer chunks the first fold already passes the root.
ASSUME TreeAssumption ==
    /\ CHUNK_BYTES \in Nat \ {0}
    /\ CHECKPOINT_INTERVAL \in Nat \ {0}
    /\ MaxCrashes \in Nat
    /\ Ggufs \subseteq Seq(Tensor)
    /\ \A g \in Ggufs : /\ Len(Gather(g).bases) <= 2^HALVINGS
                        /\ NumChunks(g) > 2^(CHECKPOINT_INTERVAL - 1)

-----------------------------------------------------------------------------
(* The process and its file.                                               *)

Absent == [there |-> FALSE, nodes |-> << >>]
Tree(nodes) == [there |-> TRUE, nodes |-> nodes]

\* What an earlier version left: every level of the dense tree.
Legacy(g) ==
    LET dense[k \in 0..(RootLevel(NumChunks(g)) + 1)] ==
            IF k = 0 THEN << >> ELSE dense[k - 1] \o Up(Leaves(g), k - 1)
    IN  Tree(dense[RootLevel(NumChunks(g)) + 1])

Checkpoints == compute_checkpoint_offsets(NumChunks(gguf))
Valid == file.there /\ Len(file.nodes) = FileSize(NumChunks(gguf))

TreeInit ==
    /\ gguf \in Ggufs
    /\ file \in {Absent, Legacy(gguf)}
    /\ at = "down"
    /\ buffer = << >>
    /\ done = 0
    /\ level = 1
    /\ crashes = 0

Start ==
    /\ at = "down"
    /\ at' = "open"
    /\ UNCHANGED <<gguf, file, buffer, done, level, crashes>>

\* open_existing_tree goes by the size of the file.
Reuse ==
    /\ at = "open"
    /\ Valid
    /\ at' = "up"
    /\ UNCHANGED <<gguf, file, buffer, done, level, crashes>>

\* Anything else is removed, and an empty file created.
Rebuild ==
    /\ at = "open"
    /\ ~Valid
    /\ file' = Tree(<< >>)
    /\ at' = "leaves"
    /\ done' = 0 /\ level' = 1 /\ buffer' = << >>
    /\ UNCHANGED <<gguf, crashes>>

\* A batch of chunks becomes a node of the first stored level.
HashBatch ==
    LET n == NumChunks(gguf)
        size == 2^CHECKPOINT_INTERVAL
        take == IF n - done < size THEN n - done ELSE size
    IN  /\ at = "leaves" /\ done < n
        /\ buffer' = Append(buffer, fold_levels(SubSeq(Leaves(gguf), done + 1, done + take), CHECKPOINT_INTERVAL))
        /\ done' = done + take
        /\ UNCHANGED <<gguf, file, at, level, crashes>>

\* The buffered writer hands nodes to the file when it likes.
Drain ==
    /\ at \in {"leaves", "upper"}
    /\ \E k \in 1..Len(buffer) :
          /\ file' = Tree(file.nodes \o SubSeq(buffer, 1, k))
          /\ buffer' = SubSeq(buffer, k + 1, Len(buffer))
    /\ UNCHANGED <<gguf, at, done, level, crashes>>

Flush ==
    /\ file' = Tree(file.nodes \o buffer)
    /\ buffer' = << >>
    /\ done' = 0

FinishLeaves ==
    /\ at = "leaves" /\ done = NumChunks(gguf)
    /\ Flush
    /\ at' = "upper"
    /\ UNCHANGED <<gguf, level, crashes>>

\* finalize_checkpoint_upper: a batch of the level below, read back from the file, becomes
\* a node of the next stored level.
FoldBatch ==
    /\ at = "upper" /\ level < Len(Checkpoints)
    /\ LET below == Checkpoints[level]
           rounds == Checkpoints[level + 1].level - below.level
           take == IF below.count - done < 2^rounds THEN below.count - done ELSE 2^rounds
       IN  /\ done < below.count
           /\ buffer' = Append(buffer, fold_levels([i \in 1..take |-> file.nodes[below.offset + done + i]], rounds))
           /\ done' = done + take
    /\ UNCHANGED <<gguf, file, at, level, crashes>>

\* Faulty variant: the count of folded nodes goes on from level to level.
FinishLevelAtOnce ==
    /\ at = "upper" /\ level < Len(Checkpoints)
    /\ done = Checkpoints[level].count
    /\ file' = Tree(file.nodes \o buffer)
    /\ buffer' = << >>
    /\ level' = level + 1
    /\ UNCHANGED <<gguf, at, done, crashes>>

FinishLevel ==
    /\ at = "upper" /\ level < Len(Checkpoints)
    /\ done = Checkpoints[level].count
    /\ Flush
    /\ level' = level + 1
    /\ UNCHANGED <<gguf, at, crashes>>

Finish ==
    /\ at = "upper" /\ level = Len(Checkpoints)
    /\ at' = "up"
    /\ UNCHANGED <<gguf, file, buffer, done, level, crashes>>

\* The process is killed, or the build gives up on an error and is tried again.
Crash ==
    /\ at # "down" /\ crashes < MaxCrashes
    /\ at' = "down"
    /\ buffer' = << >>
    /\ crashes' = crashes + 1
    /\ UNCHANGED <<gguf, file, done, level>>

Build ==
    \/ Start \/ Reuse \/ Rebuild \/ HashBatch \/ FinishLeaves
    \/ FoldBatch \/ FinishLevel \/ Finish

TreeNext == Build \/ Drain \/ Crash

\* The process goes on; kills are bounded.
FairTreeSpec == TreeInit /\ [][TreeNext]_treeVars /\ WF_treeVars(Build)

-----------------------------------------------------------------------------
(* Properties.                                                             *)

\* An index that is up has the root of the dense tree over the canonical chunks, and gives
\* for every chunk the path of the dense tree, whether the file was built in one go or over
\* the remains of a killed build or of an older version.
IndexIsDense ==
    at = "up" =>
        LET n == NumChunks(gguf)
            root == file.nodes[Checkpoints[Len(Checkpoints)].offset + 1]
        IN  /\ root = merkle_root(Leaves(gguf))
            /\ \A off \in 0..(n - 1) :
                  LET path == merkle_path(gguf, file.nodes, off)
                  IN  /\ path = merkle_proof(Leaves(gguf), off)
                      /\ verify_merkle(Leaf(gguf, off), off, path, root)

\* The host's reader, its bulk reader and the gather of the GPU's kernel find the same
\* chunk at every index: tails and tensors too short for a chunk shift none of them.
ReadersAgree ==
    at = "up" =>
        LET n == NumChunks(gguf)
            table == Table(gguf)
            gm == Gather(gguf)
        IN  /\ gm.prefix[Len(gm.prefix)] = n
            /\ \A off \in 0..(n - 1) :
                  /\ read_chunk(table, off) = Canonical(gguf)[off + 1]
                  /\ GatherChunk(gm, off) = Canonical(gguf)[off + 1]
                  /\ \A count \in 1..(n - off) :
                        read_chunk_range(table, n, off, count) = SubSeq(Canonical(gguf), off + 1, off + count)

\* However often the build is cut short, an index comes up in the end.
TreeComesUp == at # "up" ~> at = "up"
=============================================================================
