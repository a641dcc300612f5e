------------------------------- MODULE Merkle -------------------------------
(***************************************************************************)
(* The Merkle trees of the Proof of Model, over the weights and over the   *)
(* states of a walk (src/src/pom.rs).  Hashes are symbolic: a leaf is a    *)
(* one-tuple, an inner node the pair of its children, so that no two       *)
(* different inputs collide.                                               *)
(***************************************************************************)
EXTENDS Integers, Sequences

hash_pair(l, r) == <<l, r>>
CeilHalf(n) == (n + 1) \div 2

\* One level up; a node without a neighbour is its own.
Halve(s) == [i \in 1..CeilHalf(Len(s)) |->
                hash_pair(s[2 * i - 1], IF 2 * i <= Len(s) THEN s[2 * i] ELSE s[2 * i - 1])]

Up(s, rounds) ==
    LET up[r \in Nat] == IF r = 0 THEN s ELSE Halve(up[r - 1])
    IN  up[rounds]

\* The number of nodes of a level, and the level of the root.
count_at_level(n, lv) ==
    LET count[l \in Nat] == IF l = 0 THEN n ELSE CeilHalf(count[l - 1])
    IN  count[lv]
RootLevel(n) == CHOOSE lv \in 0..n : count_at_level(n, lv) = 1 /\ \A k \in 0..(lv - 1) : count_at_level(n, k) > 1

merkle_root(leaves) == Up(leaves, RootLevel(Len(leaves)))[1]

merkle_proof(leaves, off) ==
    [l \in 1..RootLevel(Len(leaves)) |->
        LET lvl == Up(leaves, l - 1)
            i == off \div 2^(l - 1)
            sib == IF i % 2 = 0 THEN i + 1 ELSE i - 1
        IN  IF sib < Len(lvl) THEN lvl[sib + 1] ELSE lvl[i + 1]]

verify_merkle(leaf, off, path, root) ==
    LET acc[l \in 0..Len(path)] ==
            IF l = 0 THEN leaf
            ELSE LET below == acc[l - 1]
                 IN  IF (off \div 2^(l - 1)) % 2 = 0 THEN hash_pair(below, path[l])
                     ELSE hash_pair(path[l], below)
    IN  acc[Len(path)] = root
=============================================================================
