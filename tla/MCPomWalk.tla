----------------------------- MODULE MCPomWalk ------------------------------
(* Instances of PomWalk for TLC: words of five bits.                       *)
EXTENDS PomWalk, Bitwise

XorOf(a, b) == a ^^ b
AndOf(a, b) == a & b
OrOf(a, b) == a | b
Mix == [x \in Words |-> (13 * x + 7 + (x \div 4)) % 32]
HeavyHash == [x \in Words |-> (11 * x + 5) % 32]
Salt == <<21, 9>>
FiveChunks == <<4, 19, 7, 30, 11>>
SevenChunks == <<4, 19, 7, 30, 11, 2, 25>>
FewSamples == {5, 12, 22}

AHeader(rest, daa) == [rest |-> rest, time |-> 3 * rest + 1, nonce |-> 0, daa |-> daa, pom_final_state |-> 0]

\* A legacy, a first-era and an H3 template; a pool leaves the miner three low bits.
Handed == [header : {AHeader(r, daa) : r \in {1, 6}, daa \in 1..3}, target : {<<20, 4>>, <<0, 12>>}]
LowBits == {[mask |-> 7, fixed |-> 16]}
=============================================================================
