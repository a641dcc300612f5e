------------------------------ MODULE PomProofs ------------------------------
(***************************************************************************)
(* The Proof of Model's walk, for any width of the words, any model, any   *)
(* mixer, number of steps and openings: what the miner sends is accepted,  *)
(* and the kernel reports what the host accepts where its modulo is exact. *)
(* And the index, for any file: its readers, one chunk at a time, in runs, *)
(* by the GPU's gather, find the same chunks, and its sparse tree, however *)
(* often the build was killed, gives the paths of the dense one.           *)
(*                                                                         *)
(* The library defines no induction that the provers can use.  Here it     *)
(* comes from less-than being well-founded on Nat (Least, Induct), and     *)
(* definition by iteration from both (Iterate); powers of two are counts   *)
(* of subsets.                                                             *)
(***************************************************************************)
EXTENDS PomWalk, PomTree, FiniteSetTheorems, WellFoundedInduction, TLAPS

-----------------------------------------------------------------------------
(* Numbers, iteration, powers of two.                                      *)

\* A set of natural numbers has a least element: less than is well-founded.
LEMMA Least ==
    ASSUME NEW S, S \subseteq Nat, S # {}
    PROVE  \E n \in S : \A m \in S : n <= m
<1>1. \E n \in S : \A m \in S : <<m, n>> \notin OpToRel(<, Nat)
  BY NatLessThanWellFounded, WFMin, Zenon
<1>2. PICK n \in S : \A m \in S : <<m, n>> \notin OpToRel(<, Nat) BY <1>1
<1>3. ASSUME NEW m \in S PROVE ~(m < n)
  <2>1. <<m, n>> \in Nat \X Nat /\ <<m,n>>[1] = m /\ <<m,n>>[2] = n OBVIOUS
  <2>2. <<m, n>> \in {ss \in Nat \X Nat : ss[1] < ss[2]} <=> m < n BY <2>1
  <2>3. QED BY <1>2, <2>2 DEF OpToRel
<1>4. QED BY <1>3

LEMMA Induct ==
    ASSUME NEW S, 0 \in S, \A n \in Nat : n \in S => n + 1 \in S
    PROVE  Nat \subseteq S
<1> SUFFICES ASSUME Nat \ S # {} PROVE FALSE OBVIOUS
<1>1. PICK n \in Nat \ S : \A m \in Nat \ S : n <= m BY Least, Nat \ S \subseteq Nat, Zenon
<1>2. n # 0 OBVIOUS
<1>3. n - 1 \in Nat /\ n - 1 \notin Nat \ S BY <1>1, <1>2
<1>4. QED BY <1>1, <1>3

\* g begins with b and takes n steps within V.
Follows(V, b, step, n, g) ==
    /\ g \in [Nat -> V] /\ g[0] = b
    /\ \A k \in Nat : k < n => g[k + 1] = step[k][g[k]]

LEMMA FollowsStart ==
    ASSUME NEW V, NEW b \in V, NEW step
    PROVE  \E g : Follows(V, b, step, 0, g)
<1> DEFINE g == [n \in Nat |-> b]
<1>1. g \in [Nat -> V] /\ g[0] = b OBVIOUS
<1>2. \A k \in Nat : ~(k < 0) OBVIOUS
<1> HIDE DEF g
<1>3. Follows(V, b, step, 0, g) BY <1>1, <1>2, Zenon DEF Follows
<1>4. QED BY <1>3

LEMMA FollowsNext ==
    ASSUME NEW V, NEW b \in V, NEW step \in [Nat -> [V -> V]], NEW n \in Nat, NEW g,
           Follows(V, b, step, n, g)
    PROVE  \E h : Follows(V, b, step, n + 1, h)
<1> DEFINE x == step[n][g[n]]
           h == [g EXCEPT ![n+1] = x]
<1>1. x \in V BY DEF Follows
<1> HIDE DEF x
<1>2. h \in [Nat -> V] BY <1>1 DEF Follows
<1>3. \A k \in Nat : k # n + 1 => h[k] = g[k] BY DEF Follows
<1>4. h[n+1] = x BY DEF Follows
<1> HIDE DEF h
<1>5. h[0] = b BY <1>3 DEF Follows
<1>6. ASSUME NEW k \in Nat, k < n + 1 PROVE h[k+1] = step[k][h[k]]
    <2>1. h[k] = g[k] BY <1>3, <1>6
    <2>2. CASE k = n BY <2>1, <2>2, <1>4 DEF x
    <2>3. CASE k < n 
      <3>1. h[k+1] = g[k+1] BY <1>3, <2>3
      <3>2. g[k+1] = step[k][g[k]] BY <2>3 DEF Follows
      <3> QED BY <3>1, <3>2, <2>1
    <2>4. QED BY <2>2, <2>3, <1>6
<1>7. Follows(V, b, step, n + 1, h) BY <1>2, <1>5, <1>6 DEF Follows
<1>8. QED BY <1>7

LEMMA FollowsAgree ==
    ASSUME NEW V, NEW b \in V, NEW step \in [Nat -> [V -> V]], NEW g, NEW h,
           NEW n \in Nat, Follows(V, b, step, n, g), Follows(V, b, step, n, h)
    PROVE  g[n] = h[n]
<1> DEFINE U == {k \in Nat : k <= n => g[k] = h[k]}
<1>1. 0 \in U BY DEF Follows
<1>2. \A k \in Nat : k \in U => k + 1 \in U BY DEF Follows
<1> HIDE DEF U
<1>3. Nat \subseteq U BY <1>1, <1>2, Induct
<1>4. QED BY <1>3 DEF U

\* f is the sequence that begins with b and goes on by step.
Runs(V, b, step, f) ==
    f \in [Nat -> V] /\ f[0] = b /\ \A n \in Nat : f[n + 1] = step[n][f[n]]

\* Definition by iteration: the initial segments exist and agree.
LEMMA Iterate ==
    ASSUME NEW V, NEW b \in V, NEW step \in [Nat -> [V -> V]]
    PROVE  \E f : Runs(V, b, step, f)
<1> DEFINE S == {n \in Nat : \E g : Follows(V, b, step, n, g)}
<1>1. 0 \in S BY FollowsStart
<1>2. \A n \in Nat : n \in S => n + 1 \in S BY FollowsNext
<1> HIDE DEF S
<1>3. Nat \subseteq S BY <1>1, <1>2, Induct
<1> DEFINE G(n) == CHOOSE g : Follows(V, b, step, n, g)
           f == [n \in Nat |-> G(n)[n]]
<1>5. ASSUME NEW n \in Nat PROVE Follows(V, b, step, n, G(n)) BY <1>3 DEF S
<1> HIDE DEF G
<1>6. f \in [Nat -> V]
  <2> SUFFICES ASSUME NEW n \in Nat PROVE G(n)[n] \in V OBVIOUS
  <2> QED BY <1>5 DEF Follows
<1>7. f[0] = b
  <2>1. G(0)[0] = b BY <1>5 DEF Follows
  <2> QED BY <2>1
<1>8. ASSUME NEW n \in Nat PROVE f[n+1] = step[n][f[n]]
  <2>1. n + 1 \in Nat /\ Follows(V, b, step, n + 1, G(n+1)) BY <1>5
  <2>2. Follows(V, b, step, n, G(n+1)) BY <2>1 DEF Follows
  <2>3. G(n+1)[n] = G(n)[n] BY <2>2, FollowsAgree, <1>5
  <2>4. G(n+1)[n+1] = step[n][G(n+1)[n]] BY <2>1 DEF Follows
  <2>5. QED BY <2>3, <2>4
<1> HIDE DEF f
<1>9. Runs(V, b, step, f) BY <1>6, <1>7, <1>8 DEF Runs
<1>10. QED BY <1>9

\* The same up to n only, as the functions over an interval are defined.
RunsTo(V, b, step, n, g) ==
    /\ g = [i \in 0..n |-> g[i]] /\ g[0] = b
    /\ \A i \in 0..n : g[i] \in V
    /\ \A i \in 1..n : g[i] = step[i - 1][g[i - 1]]

LEMMA RunTo ==
    ASSUME NEW V, NEW b \in V, NEW step \in [Nat -> [V -> V]], NEW n \in Nat
    PROVE  \E g : RunsTo(V, b, step, n, g)
<1>1. PICK f : Runs(V, b, step, f) BY Iterate
<1> DEFINE g == [i \in 0..n |-> f[i]]
<1>2. \A i \in 0..n : g[i] = f[i] OBVIOUS
<1>3. g = [i \in 0..n |-> g[i]] OBVIOUS
<1> HIDE DEF g
<1>4. g[0] = b BY <1>1, <1>2 DEF Runs
<1>5. \A i \in 0..n : g[i] \in V BY <1>1, <1>2 DEF Runs
<1>6. ASSUME NEW i \in 1..n PROVE g[i] = step[i - 1][g[i - 1]]
  <2>1. i - 1 \in Nat /\ i - 1 \in 0..n /\ i \in 0..n /\ (i - 1) + 1 = i OBVIOUS
  <2>2. f[(i - 1) + 1] = step[i - 1][f[i - 1]] BY <1>1, <2>1 DEF Runs
  <2>3. QED BY <1>2, <2>1, <2>2
<1>7. RunsTo(V, b, step, n, g) BY <1>3, <1>4, <1>5, <1>6 DEF RunsTo
<1>8. QED BY <1>7

\* The library knows of powers what it takes to count subsets.
LEMMA PowerCounts ==
    ASSUME NEW n \in Nat
    PROVE  IsFiniteSet(SUBSET (1..n)) /\ Cardinality(SUBSET (1..n)) = 2^n
<1>1. IsFiniteSet(1..n) /\ Cardinality(1..n) = n BY FS_Interval
<1>2. QED BY <1>1, FS_SUBSET

LEMMA PowerPositive ==
    ASSUME NEW n \in Nat
    PROVE  2^n \in Nat \ {0}
<1>1. IsFiniteSet(SUBSET (1..n)) /\ Cardinality(SUBSET (1..n)) = 2^n BY PowerCounts
<1>2. 2^n \in Nat BY <1>1, FS_CardinalityType
<1>3. SUBSET (1..n) # {} OBVIOUS
<1>4. QED BY <1>1, <1>2, <1>3, FS_EmptySet

\* A subset of n + 1 numbers has the last one or not.
LEMMA PowerDoubles ==
    ASSUME NEW n \in Nat
    PROVE  2^(n + 1) = 2 * 2^n
<1> DEFINE A == SUBSET (1..n)
           f == [x \in A |-> x \cup {n + 1}]
           B == {x \cup {n + 1} : x \in A}
<1>1. IsFiniteSet(A) /\ Cardinality(A) = 2^n BY PowerCounts
<1>2. n + 1 \in Nat OBVIOUS
<1>3. Cardinality(SUBSET (1..(n + 1))) = 2^(n + 1) BY <1>2, PowerCounts
<1>4. SUBSET (1..(n + 1)) = A \cup B
  <2>1. ASSUME NEW x \in SUBSET (1..(n + 1)) PROVE x \in A \cup B
    <3>1. CASE n + 1 \notin x
      <4>1. x \subseteq 1..n BY <3>1
      <4>2. QED BY <4>1
    <3>2. CASE n + 1 \in x
      <4>1. x \ {n + 1} \in A OBVIOUS
      <4>2. x = (x \ {n + 1}) \cup {n + 1} BY <3>2
      <4>3. QED BY <4>1, <4>2
    <3>3. QED BY <3>1, <3>2
  <2>2. ASSUME NEW x \in A PROVE x \in SUBSET (1..(n + 1)) /\ x \cup {n + 1} \in SUBSET (1..(n + 1))
    <3>1. 1..n \subseteq 1..(n + 1) /\ n + 1 \in 1..(n + 1) OBVIOUS
    <3>2. QED BY <3>1
  <2>3. \A z \in B : \E x \in A : z = x \cup {n + 1} OBVIOUS
  <2> HIDE DEF A, B
  <2>4. QED BY <2>1, <2>2, <2>3
<1>5. A \cap B = {}
  <2>1. n + 1 \notin 1..n OBVIOUS
  <2>2. QED BY <2>1
<1>6. f \in Bijection(A, B)
  <2>1. n + 1 \notin 1..n OBVIOUS
  <2>2. f \in [A -> B] OBVIOUS
  <2>3. ASSUME NEW x \in A, NEW y \in A, f[x] = f[y] PROVE x = y
    <3>1. x \cup {n + 1} = y \cup {n + 1} BY <2>3
    <3>2. n + 1 \notin x /\ n + 1 \notin y BY <2>1
    <3>3. QED BY <3>1, <3>2
  <2>4. \A z \in B : \E x \in A : f[x] = z OBVIOUS
  <2>5. f \in Injection(A, B) BY <2>2, <2>3 DEF Injection, IsInjective
  <2>6. f \in Surjection(A, B) BY <2>2, <2>4 DEF Surjection
  <2>7. QED BY <2>5, <2>6 DEF Bijection
<1>7. IsFiniteSet(B) /\ Cardinality(B) = 2^n
  <2>1. ExistsBijection(A, B) BY <1>6 DEF ExistsBijection
  <2> HIDE DEF A, B
  <2>2. QED BY <1>1, <2>1, FS_Bijection
<1> HIDE DEF A, B
<1>8. Cardinality(A \cup B) = 2^n + 2^n - 0
  <2>1. Cardinality(A \cap B) = 0 BY <1>5, FS_EmptySet
  <2>2. QED BY <1>1, <1>7, <2>1, FS_Union
<1>9. 2^n \in Nat BY PowerPositive
<1>10. 2^(n + 1) = 2^n + 2^n - 0 BY <1>3, <1>4, <1>8
<1>11. \A x \in Nat : x + x - 0 = 2 * x OBVIOUS
<1>12. QED BY <1>9, <1>10, <1>11, Zenon

-----------------------------------------------------------------------------
(* Merkle trees. *)

\* count_at_level is the function its definition chooses.
LEMMA CountStep ==
    ASSUME NEW n \in Nat, NEW l \in Nat
    PROVE  /\ count_at_level(n, 0) = n
           /\ count_at_level(n, l + 1) = CeilHalf(count_at_level(n, l))
           /\ count_at_level(n, l) \in Nat
<1> DEFINE F == CHOOSE f : f = [k \in Nat |-> IF k = 0 THEN n ELSE CeilHalf(f[k - 1])]
           step == [k \in Nat |-> [x \in Nat |-> CeilHalf(x)]]
<1>1. step \in [Nat -> [Nat -> Nat]] BY DEF CeilHalf
<1>2. \A k, x \in Nat : step[k][x] = CeilHalf(x) OBVIOUS
<1> HIDE DEF step
<1>3. PICK g : Runs(Nat, n, step, g) BY <1>1, Iterate
<1>4. g = [k \in Nat |-> IF k = 0 THEN n ELSE CeilHalf(g[k - 1])]
  <2>0. g = [k \in Nat |-> g[k]] BY <1>3 DEF Runs
  <2> SUFFICES ASSUME NEW k \in Nat PROVE g[k] = IF k = 0 THEN n ELSE CeilHalf(g[k - 1]) BY <2>0
  <2>1. ASSUME k # 0 PROVE g[k] = CeilHalf(g[k - 1])
    <3>1. k - 1 \in Nat /\ k - 1 + 1 = k BY <2>1
    <3>2. QED BY <1>2, <1>3, <3>1 DEF Runs
  <2>2. QED BY <1>3, <2>1 DEF Runs
<1>5. F = [k \in Nat |-> IF k = 0 THEN n ELSE CeilHalf(F[k - 1])] BY <1>4
<1>6. \A k \in Nat : count_at_level(n, k) = F[k] BY DEF count_at_level
<1> HIDE DEF F
<1>7. F[0] = n /\ \A k \in Nat : F[k + 1] = CeilHalf(F[k])
  <2>1. F[0] = n BY <1>5
  <2>2. ASSUME NEW k \in Nat PROVE F[k + 1] = CeilHalf(F[k])
    <3>1. k + 1 \in Nat /\ k + 1 # 0 /\ (k + 1) - 1 = k OBVIOUS
    <3>2. QED BY <1>5, <3>1
  <2>3. QED BY <2>1, <2>2
<1> DEFINE T == {k \in Nat : F[k] \in Nat}
<1>8. 0 \in T BY <1>7
<1>9. \A k \in Nat : k \in T => k + 1 \in T BY <1>7 DEF CeilHalf
<1> HIDE DEF T
<1>10. Nat \subseteq T BY <1>8, <1>9, Induct
<1>11. F[l] \in Nat BY <1>10 DEF T
<1>12. QED BY <1>6, <1>7, <1>11

\* A level has at least one node, and where it has more the next one has fewer.
LEMMA CountShrinks ==
    ASSUME NEW n \in Nat \ {0}, NEW l \in Nat
    PROVE  /\ count_at_level(n, l) \in Nat \ {0}
           /\ count_at_level(n, l) > 1 => count_at_level(n, l + 1) < count_at_level(n, l)
<1> DEFINE T == {k \in Nat : count_at_level(n, k) \in Nat \ {0}}
<1>1. 0 \in T BY CountStep
<1>2. ASSUME NEW k \in Nat, k \in T PROVE k + 1 \in T
  <2>1. count_at_level(n, k + 1) = (count_at_level(n, k) + 1) \div 2 BY CountStep DEF CeilHalf
  <2>2. QED BY <1>2, <2>1
<1> HIDE DEF T
<1>3. Nat \subseteq T BY <1>1, <1>2, Induct
<1>4. count_at_level(n, l) \in Nat \ {0} BY <1>3 DEF T
<1>5. count_at_level(n, l + 1) = (count_at_level(n, l) + 1) \div 2 BY CountStep DEF CeilHalf
<1>6. QED BY <1>4, <1>5

\* The least level with one node is that of the root.
LEMMA RootLevelExists ==
    ASSUME NEW n \in Nat \ {0}
    PROVE  /\ RootLevel(n) \in 0..n
           /\ count_at_level(n, RootLevel(n)) = 1
           /\ \A k \in 0..(RootLevel(n) - 1) : count_at_level(n, k) > 1
<1> DEFINE T == {k \in Nat : count_at_level(n, k) > 1 => count_at_level(n, k) + k <= n}
           S == {k \in Nat : count_at_level(n, k) = 1}
<1>1. 0 \in T BY CountStep
<1>2. ASSUME NEW k \in Nat, k \in T PROVE k + 1 \in T
  <2> DEFINE c == count_at_level(n, k)
             d == count_at_level(n, k + 1)
  <2>1. c \in Nat \ {0} /\ d \in Nat \ {0} /\ (c > 1 => d < c) BY CountShrinks
  <2>2. d = (c + 1) \div 2 BY CountStep DEF CeilHalf
  <2>3. c > 1 => c + k <= n BY <1>2
  <2> HIDE DEF c, d
  <2>4. d > 1 => d + (k + 1) <= n BY <2>1, <2>2, <2>3
  <2>5. QED BY <2>4 DEF d
<1> HIDE DEF T
<1>3. Nat \subseteq T BY <1>1, <1>2, Induct
<1>4. n \in S
  <2>1. count_at_level(n, n) \in Nat \ {0} BY CountShrinks
  <2>2. count_at_level(n, n) > 1 => count_at_level(n, n) + n <= n BY <1>3 DEF T
  <2>3. QED BY <2>1, <2>2
<1>5. PICK r \in S : \A k \in S : r <= k BY <1>4, Least, Zenon
<1>6. r \in 0..n /\ count_at_level(n, r) = 1 BY <1>4, <1>5
<1>7. ASSUME NEW k \in 0..(r - 1) PROVE count_at_level(n, k) > 1
  <2>1. k \in Nat /\ k < r BY <1>6, <1>7
  <2>2. count_at_level(n, k) \in Nat \ {0} BY <2>1, CountShrinks
  <2>3. k \notin S BY <1>5, <2>1
  <2>4. QED BY <2>1, <2>2, <2>3
<1>8. QED BY <1>6, <1>7 DEF RootLevel

-----------------------------------------------------------------------------

\* g begins like the levels over s.
Rises(g, s, n) ==
    /\ g = [k \in Nat |-> g[k]] /\ g[0] = s
    /\ \A k \in Nat : k < n => g[k + 1] = Halve(g[k])

LEMMA RisesNext ==
    ASSUME NEW s, NEW n \in Nat, NEW g, Rises(g, s, n)
    PROVE  \E h : Rises(h, s, n + 1)
<1> DEFINE x == Halve(g[n])
           h == [k \in Nat |-> IF k = n + 1 THEN x ELSE g[k]]
<1> HIDE DEF x
<1>1. \A k \in Nat : k # n + 1 => h[k] = g[k] OBVIOUS
<1>2. h[n + 1] = x OBVIOUS
<1>3. h = [k \in Nat |-> h[k]] OBVIOUS
<1> HIDE DEF h
<1>4. h[0] = s BY <1>1 DEF Rises
<1>5. ASSUME NEW k \in Nat, k < n + 1 PROVE h[k + 1] = Halve(h[k])
  <2>1. h[k] = g[k] BY <1>1, <1>5
  <2>2. CASE k = n BY <1>2, <2>1, <2>2 DEF x
  <2>3. CASE k < n
    <3>1. h[k + 1] = g[k + 1] BY <1>1, <2>3
    <3>2. g[k + 1] = Halve(g[k]) BY <2>3 DEF Rises
    <3>3. QED BY <2>1, <3>1, <3>2
  <2>4. QED BY <1>5, <2>2, <2>3
<1>6. QED BY <1>3, <1>4, <1>5 DEF Rises

LEMMA RisesAgree ==
    ASSUME NEW s, NEW n \in Nat, NEW g, NEW h, Rises(g, s, n), Rises(h, s, n)
    PROVE  g[n] = h[n]
<1> DEFINE T == {k \in Nat : k <= n => g[k] = h[k]}
<1>1. 0 \in T BY DEF Rises
<1>2. ASSUME NEW k \in Nat, k \in T PROVE k + 1 \in T
  <2>1. ASSUME k + 1 <= n PROVE g[k + 1] = h[k + 1]
    <3>1. k < n /\ g[k] = h[k] BY <1>2, <2>1
    <3>2. g[k + 1] = Halve(g[k]) /\ h[k + 1] = Halve(h[k]) BY <3>1 DEF Rises
    <3>3. QED BY <3>1, <3>2
  <2>2. QED BY <2>1
<1> HIDE DEF T
<1>3. Nat \subseteq T BY <1>1, <1>2, Induct
<1>4. QED BY <1>3 DEF T

\* And so is Up, whatever the nodes are.
LEMMA UpStep ==
    ASSUME NEW s, NEW l \in Nat
    PROVE  Up(s, 0) = s /\ Up(s, l + 1) = Halve(Up(s, l))
<1> DEFINE S == {n \in Nat : \E g : Rises(g, s, n)}
           G(n) == CHOOSE g : Rises(g, s, n)
           f == [n \in Nat |-> G(n)[n]]
           F == CHOOSE u : u = [r \in Nat |-> IF r = 0 THEN s ELSE Halve(u[r - 1])]
<1>1. 0 \in S
  <2> DEFINE g == [k \in Nat |-> s]
  <2>1. g = [k \in Nat |-> g[k]] /\ g[0] = s /\ \A k \in Nat : ~(k < 0) OBVIOUS
  <2> HIDE DEF g
  <2>2. Rises(g, s, 0) BY <2>1 DEF Rises
  <2>3. QED BY <2>2
<1>2. \A n \in Nat : n \in S => n + 1 \in S BY RisesNext
<1> HIDE DEF S
<1>3. Nat \subseteq S BY <1>1, <1>2, Induct
<1>4. ASSUME NEW n \in Nat PROVE Rises(G(n), s, n) BY <1>3 DEF S
<1> HIDE DEF G
<1>5. f[0] = s
  <2>1. G(0)[0] = s BY <1>4 DEF Rises
  <2>2. QED BY <2>1
<1>6. ASSUME NEW n \in Nat PROVE f[n + 1] = Halve(f[n])
  <2>1. n + 1 \in Nat /\ Rises(G(n + 1), s, n + 1) BY <1>4
  <2>2. Rises(G(n + 1), s, n) BY <2>1 DEF Rises
  <2>3. G(n + 1)[n] = G(n)[n] BY <1>4, <2>2, RisesAgree
  <2>4. G(n + 1)[n + 1] = Halve(G(n + 1)[n]) BY <2>1 DEF Rises
  <2>5. QED BY <2>1, <2>3, <2>4
<1>7. f = [r \in Nat |-> IF r = 0 THEN s ELSE Halve(f[r - 1])]
  <2> HIDE DEF f
  <2>1. f = [r \in Nat |-> f[r]] BY DEF f
  <2>2. ASSUME NEW r \in Nat PROVE f[r] = IF r = 0 THEN s ELSE Halve(f[r - 1])
    <3>1. ASSUME r # 0 PROVE f[r] = Halve(f[r - 1])
      <4>1. r - 1 \in Nat /\ r - 1 + 1 = r BY <3>1
      <4>2. f[r - 1 + 1] = Halve(f[r - 1]) BY <1>6, <4>1
      <4>3. QED BY <4>1, <4>2
    <3>2. QED BY <1>5, <3>1
  <2>3. QED BY <2>1, <2>2
<1> HIDE DEF f
<1>8. F = [r \in Nat |-> IF r = 0 THEN s ELSE Halve(F[r - 1])] BY <1>7
<1>9. \A r \in Nat : Up(s, r) = F[r] BY DEF Up
<1> HIDE DEF F
<1>10. F[0] = s BY <1>8
<1>11. F[l + 1] = Halve(F[l])
  <2>1. l + 1 \in Nat /\ l + 1 # 0 /\ (l + 1) - 1 = l OBVIOUS
  <2>2. QED BY <1>8, <2>1
<1>12. QED BY <1>9, <1>10, <1>11

\* A sequence, whatever its elements.
IsSeq(s) == \E n \in Nat : s = [i \in 1..n |-> s[i]]

LEMMA SeqLen == ASSUME NEW s, NEW n \in Nat, s = [i \in 1..n |-> s[i]] PROVE Len(s) = n /\ DOMAIN s = 1..n
<1> DEFINE V == {s[i] : i \in 1..n}
<1>1. s \in [1..n -> V] OBVIOUS
<1> HIDE DEF V
<1>2. s \in Seq(V) BY <1>1
<1>3. QED BY <1>1, <1>2

\* A level has the number of nodes that count_at_level says.
LEMMA HalveIsSeq ==
    ASSUME NEW s, Len(s) \in Nat
    PROVE  IsSeq(Halve(s)) /\ Len(Halve(s)) = CeilHalf(Len(s)) /\ DOMAIN Halve(s) = 1..CeilHalf(Len(s))
<1>1. CeilHalf(Len(s)) \in Nat BY DEF CeilHalf
<1>2. Halve(s) = [i \in 1..CeilHalf(Len(s)) |-> Halve(s)[i]] BY DEF Halve
<1>3. QED BY <1>1, <1>2, SeqLen DEF IsSeq

LEMMA LevelIsSeq ==
    ASSUME NEW s, IsSeq(s), NEW l \in Nat
    PROVE  IsSeq(Up(s, l)) /\ Len(Up(s, l)) = count_at_level(Len(s), l)
<1> DEFINE T == {k \in Nat : IsSeq(Up(s, k)) /\ Len(Up(s, k)) = count_at_level(Len(s), k)}
<1>0. Len(s) \in Nat BY SeqLen DEF IsSeq
<1>1. 0 \in T BY <1>0, UpStep, CountStep
<1>2. ASSUME NEW k \in Nat, k \in T PROVE k + 1 \in T
  <2>1. Len(Up(s, k)) \in Nat BY <1>0, <1>2, CountStep
  <2>2. Up(s, k + 1) = Halve(Up(s, k)) BY UpStep
  <2>3. count_at_level(Len(s), k + 1) = CeilHalf(count_at_level(Len(s), k)) BY <1>0, CountStep
  <2>4. QED BY <1>2, <2>1, <2>2, <2>3, HalveIsSeq
<1> HIDE DEF T
<1>3. Nat \subseteq T BY <1>1, <1>2, Induct
<1>4. QED BY <1>3 DEF T

\* The node above a leaf is within its level.
LEMMA AboveIsWithin ==
    ASSUME NEW n \in Nat \ {0}, NEW off \in 0..(n - 1), NEW l \in Nat
    PROVE  /\ off \div 2^l \in 0..(count_at_level(n, l) - 1)
           /\ off \div 2^(l + 1) = (off \div 2^l) \div 2
<1>1. ASSUME NEW k \in Nat PROVE off \div 2^(k + 1) = (off \div 2^k) \div 2
  <2>1. 2^(k + 1) = 2 * 2^k /\ 2^k \in Nat \ {0} BY PowerDoubles, PowerPositive
  <2>2. \A b \in Nat \ {0} : off \div (2 * b) = (off \div b) \div 2 OBVIOUS
  <2>3. QED BY <2>1, <2>2
<1> DEFINE T == {k \in Nat : off \div 2^k \in 0..(count_at_level(n, k) - 1)}
<1>2. 0 \in T
  <2>1. 2^0 = 1 /\ off \div 1 = off OBVIOUS
  <2>2. QED BY <2>1, CountStep
<1>3. ASSUME NEW k \in Nat, k \in T PROVE k + 1 \in T
  <2> DEFINE i == off \div 2^k
             c == count_at_level(n, k)
             d == count_at_level(n, k + 1)
  <2>1. d = (c + 1) \div 2 /\ c \in Nat BY CountStep DEF CeilHalf
  <2>2. i \in 0..(c - 1) BY <1>3
  <2> HIDE DEF c, d, i
  <2>3. i \div 2 \in 0..(d - 1) BY <2>1, <2>2
  <2>4. off \div 2^(k + 1) \in 0..(d - 1) BY <1>1, <2>3 DEF i
  <2>5. QED BY <2>4 DEF d
<1> HIDE DEF T
<1>4. Nat \subseteq T BY <1>2, <1>3, Induct
<1>5. off \div 2^l \in 0..(count_at_level(n, l) - 1) BY <1>4 DEF T
<1>6. QED BY <1>1, <1>5

-----------------------------------------------------------------------------

\* The path of a leaf leads to the root of its tree.
LEMMA PathVerifies ==
    ASSUME NEW leaves, IsSeq(leaves), NEW off \in 0..(Len(leaves) - 1)
    PROVE  verify_merkle(leaves[off + 1], off, merkle_proof(leaves, off), merkle_root(leaves))
<1> DEFINE n == Len(leaves)
           R == RootLevel(n)
           path == merkle_proof(leaves, off)
           A == CHOOSE acc : acc = [l \in 0..Len(path) |->
                   IF l = 0 THEN leaves[off + 1]
                   ELSE LET below == acc[l - 1]
                        IN  IF (off \div 2^(l - 1)) % 2 = 0 THEN hash_pair(below, path[l])
                            ELSE hash_pair(path[l], below)]
           F == [l \in 0..R |-> Up(leaves, l)[(off \div 2^l) + 1]]
<1>1. n \in Nat \ {0} /\ off \in 0..(n - 1)
  <2>1. Len(leaves) \in Nat BY SeqLen DEF IsSeq
  <2>2. QED BY <2>1
<1> HIDE DEF n
<1>2. R \in 0..n /\ count_at_level(n, R) = 1 /\ R \in Nat BY <1>1, RootLevelExists
<1> HIDE DEF R
<1>3. path = [l \in 1..R |-> path[l]] /\ Len(path) = R
  <2>1. path = [l \in 1..R |-> path[l]] BY DEF merkle_proof, R, n
  <2> HIDE DEF path
  <2>2. QED BY <1>2, <2>1, SeqLen
<1>4. ASSUME NEW l \in 1..R
      PROVE  F[l] = IF (off \div 2^(l - 1)) % 2 = 0 THEN hash_pair(F[l - 1], path[l])
                    ELSE hash_pair(path[l], F[l - 1])
  <2> DEFINE lvl == Up(leaves, l - 1)
             i == off \div 2^(l - 1)
             c == count_at_level(n, l - 1)
             k == (i \div 2) + 1
  <2>1. l \in Nat /\ l - 1 \in Nat /\ (l - 1) + 1 = l /\ l \in 0..R /\ l - 1 \in 0..R BY <1>2, <1>4
  <2>2. i \in 0..(c - 1) /\ off \div 2^l = i \div 2 /\ c \in Nat
    BY <1>1, <2>1, AboveIsWithin, CountStep
  <2>3. Len(lvl) = c BY <2>1, LevelIsSeq DEF n
  <2>4. F[l - 1] = lvl[i + 1] /\ F[l] = Up(leaves, l)[k] BY <2>1, <2>2
  <2>5. Up(leaves, l) = Halve(lvl) BY <2>1, UpStep
  <2>6. path[l] = IF (IF i % 2 = 0 THEN i + 1 ELSE i - 1) < Len(lvl)
                  THEN lvl[(IF i % 2 = 0 THEN i + 1 ELSE i - 1) + 1] ELSE lvl[i + 1]
    BY DEF merkle_proof, R, n
  <2> HIDE DEF path, F, lvl, i, c
  <2>7. k \in 1..CeilHalf(c) BY <2>2 DEF CeilHalf
  <2>8. Halve(lvl)[k] = hash_pair(lvl[2 * k - 1], IF 2 * k <= c THEN lvl[2 * k] ELSE lvl[2 * k - 1])
    BY <2>3, <2>7 DEF Halve
  <2>9. CASE i % 2 = 0
    <3>1. 2 * k - 1 = i + 1 /\ 2 * k = i + 2 /\ (i + 1) + 1 = i + 2 /\ (i + 1 < c <=> i + 2 <= c)
      BY <2>2, <2>9
    <3>2. path[l] = IF i + 2 <= c THEN lvl[i + 2] ELSE lvl[i + 1] BY <2>3, <2>6, <2>9, <3>1
    <3> HIDE DEF k
    <3>3. QED BY <2>4, <2>5, <2>8, <2>9, <3>1, <3>2 DEF i
  <2>10. CASE i % 2 # 0
    <3>1. 2 * k - 1 = i /\ 2 * k = i + 1 /\ (i - 1) + 1 = i /\ i - 1 < c /\ i + 1 <= c BY <2>2, <2>10
    <3>2. path[l] = lvl[i] BY <2>3, <2>6, <2>10, <3>1
    <3> HIDE DEF k
    <3>3. QED BY <2>4, <2>5, <2>8, <2>10, <3>1, <3>2 DEF i
  <2>11. QED BY <2>9, <2>10
<1>5. F[0] = leaves[off + 1]
  <2>1. 0 \in 0..R /\ 2^0 = 1 /\ off \div 1 = off BY <1>1, <1>2
  <2>2. QED BY <2>1, UpStep
<1>6. F[R] = merkle_root(leaves)
  <2>1. off \div 2^R = 0
    <3>1. off \div 2^R \in 0..(count_at_level(n, R) - 1) BY <1>1, <1>2, AboveIsWithin
    <3>2. QED BY <1>2, <3>1
  <2>2. R \in 0..R BY <1>2
  <2>3. QED BY <2>1, <2>2 DEF merkle_root, R, n
<1>7. F = [l \in 0..Len(path) |->
                   IF l = 0 THEN leaves[off + 1]
                   ELSE LET below == F[l - 1]
                        IN  IF (off \div 2^(l - 1)) % 2 = 0 THEN hash_pair(below, path[l])
                            ELSE hash_pair(path[l], below)]
  <2>1. F = [l \in 0..R |-> F[l]] OBVIOUS
  <2> HIDE DEF F, path
  <2>2. ASSUME NEW l \in 0..R, l # 0 PROVE l \in 1..R BY <1>2, <2>2
  <2>3. QED BY <1>3, <1>4, <1>5, <2>1, <2>2
<1> HIDE DEF F, path
<1>8. A = [l \in 0..Len(path) |->
                   IF l = 0 THEN leaves[off + 1]
                   ELSE LET below == A[l - 1]
                        IN  IF (off \div 2^(l - 1)) % 2 = 0 THEN hash_pair(below, path[l])
                            ELSE hash_pair(path[l], below)]
  BY <1>7
<1>9. verify_merkle(leaves[off + 1], off, path, merkle_root(leaves)) <=> A[Len(path)] = merkle_root(leaves)
  BY DEF verify_merkle
<1> HIDE DEF A
<1> DEFINE T == {l \in Nat : l <= R => A[l] = F[l]}
<1>10. 0 \in T
  <2>1. 0 \in 0..R BY <1>2
  <2>2. QED BY <1>3, <1>5, <1>8, <2>1
<1>11. ASSUME NEW l \in Nat, l \in T PROVE l + 1 \in T
  <2> SUFFICES ASSUME l + 1 <= R PROVE A[l + 1] = F[l + 1] OBVIOUS
  <2>1. l + 1 \in 1..R /\ l + 1 \in 0..R /\ l + 1 # 0 /\ (l + 1) - 1 = l /\ A[l] = F[l] BY <1>2, <1>11
  <2>2. A[l + 1] = IF (off \div 2^l) % 2 = 0 THEN hash_pair(A[l], path[l + 1])
                   ELSE hash_pair(path[l + 1], A[l])
    BY <1>3, <1>8, <2>1
  <2>3. F[l + 1] = IF (off \div 2^l) % 2 = 0 THEN hash_pair(F[l], path[l + 1])
                   ELSE hash_pair(path[l + 1], F[l])
    BY <1>4, <2>1
  <2>4. QED BY <2>1, <2>2, <2>3
<1> HIDE DEF T
<1>12. Nat \subseteq T BY <1>10, <1>11, Induct
<1>13. A[R] = F[R] BY <1>2, <1>12 DEF T
<1>14. QED BY <1>3, <1>6, <1>9, <1>13 DEF path

-----------------------------------------------------------------------------
(* Words, hashes and walks.                                                *)

LEMMA WordFacts ==
    /\ 2^WORD_BITS \in Nat \ {0}
    /\ Words \subseteq Nat /\ 0 \in Words
    /\ \A x \in Words : mix64(x) \in Words
    /\ \A x \in Nat : Wrap(x) \in Words
    /\ \A x \in Words : Wrap(x) = x
    /\ \A x, y \in Words : BitXor(x, y) \in Words /\ BitAnd(x, y) \in Words /\ BitOr(x, y) \in Words
<1>1. 2^WORD_BITS \in Nat \ {0} BY WalkAssumption, PowerPositive
<1>2. Words \subseteq Nat /\ 0 \in Words BY <1>1 DEF Words
<1>3. \A x \in Words : mix64(x) \in Words BY WalkAssumption DEF mix64
<1>4. \A b \in Nat \ {0} : /\ \A x \in Nat : x % b \in 0..(b - 1)
                           /\ \A x \in 0..(b - 1) : x % b = x
  OBVIOUS
<1>5. (\A x \in Nat : Wrap(x) \in Words) /\ (\A x \in Words : Wrap(x) = x) BY <1>1, <1>4 DEF Wrap, Words
<1>6. QED BY <1>1, <1>2, <1>3, <1>5, WalkAssumption

LEMMA ModelFacts ==
    /\ N \in Nat \ {0} /\ N < 2^WORD_BITS
    /\ \A i \in 0..(N - 1) : WEIGHTS[i + 1] \in Words
    /\ \A x \in Nat : x % N \in 0..(N - 1)
    /\ HostMod \in [Words -> 0..(N - 1)]
<1>1. N \in Nat \ {0} /\ N < 2^WORD_BITS BY WalkAssumption, WordFacts DEF Words
<1>2. \A i \in 0..(N - 1) : WEIGHTS[i + 1] \in Words
  <2>1. WEIGHTS \in [1..N -> Words] BY WalkAssumption DEF N
  <2>2. QED BY <1>1, <2>1
<1> HIDE DEF N
<1>3. \A x \in Nat : x % N \in 0..(N - 1) BY <1>1
<1>4. HostMod \in [Words -> 0..(N - 1)] BY <1>3, WordFacts DEF HostMod
<1>5. QED BY <1>1, <1>2, <1>3, <1>4

\* The states of a walk are words.
LEMMA TraceStates ==
    ASSUME NEW seed \in Words, NEW mod \in [Words -> 0..(N - 1)]
    PROVE  /\ Trace(seed, mod)[0] = seed
           /\ \A i \in 0..POM_WALK_STEPS : Trace(seed, mod)[i] \in Words
           /\ \A i \in 1..POM_WALK_STEPS :
                 Trace(seed, mod)[i] = transition(Trace(seed, mod)[i - 1],
                                                  WEIGHTS[mod[Trace(seed, mod)[i - 1]] + 1])
<1> DEFINE K == POM_WALK_STEPS
           Next1(x) == transition(x, WEIGHTS[mod[x] + 1])
           step == [k \in Nat |-> [x \in Words |-> Next1(x)]]
           F == CHOOSE trace : trace = [i \in 0..K |->
                   IF i = 0 THEN seed
                   ELSE LET state == trace[i - 1] IN transition(state, WEIGHTS[mod[state] + 1])]
<1>1. K \in Nat BY WalkAssumption
<1>2. \A x \in Words : Next1(x) \in Words
  <2>1. ASSUME NEW x \in Words PROVE WEIGHTS[mod[x] + 1] \in Words
    <3>1. mod[x] \in 0..(N - 1) OBVIOUS
    <3>2. QED BY <3>1, ModelFacts
  <2>2. QED BY <2>1, WordFacts DEF transition
<1> HIDE DEF Next1
<1>3. step \in [Nat -> [Words -> Words]] BY <1>2
<1>4. \A k \in Nat, x \in Words : step[k][x] = Next1(x) OBVIOUS
<1> HIDE DEF K, step
<1>5. PICK g : RunsTo(Words, seed, step, K, g) BY <1>1, <1>3, RunTo
<1>6. \A i \in 1..K : g[i] = Next1(g[i - 1])
  <2>1. ASSUME NEW i \in 1..K PROVE i - 1 \in Nat /\ i - 1 \in 0..K BY <1>1
  <2>2. QED BY <1>4, <1>5, <2>1 DEF RunsTo
<1>7. g = [i \in 0..K |-> IF i = 0 THEN seed ELSE Next1(g[i - 1])]
  <2>1. \A i \in 0..K : i # 0 => i \in 1..K BY <1>1
  <2>2. QED BY <1>5, <1>6, <2>1 DEF RunsTo
<1>8. F = [i \in 0..K |-> IF i = 0 THEN seed
                          ELSE LET state == F[i - 1] IN transition(state, WEIGHTS[mod[state] + 1])]
  BY <1>7 DEF Next1
<1>9. Trace(seed, mod) = F BY DEF Trace, K
<1> HIDE DEF F
<1>10. F = [i \in 0..K |-> IF i = 0 THEN seed ELSE Next1(F[i - 1])] BY <1>8 DEF Next1
<1>11. F[0] = seed
  <2>1. 0 \in 0..K BY <1>1
  <2>2. QED BY <1>10, <2>1
<1>12. ASSUME NEW i \in 1..K PROVE F[i] = Next1(F[i - 1])
  <2>1. i \in 0..K /\ i # 0 BY <1>1
  <2>2. QED BY <1>10, <2>1
<1> DEFINE T == {i \in Nat : i <= K => F[i] \in Words}
<1>13. 0 \in T BY <1>11
<1>14. ASSUME NEW i \in Nat, i \in T PROVE i + 1 \in T
  <2>1. ASSUME i + 1 <= K PROVE F[i + 1] \in Words
    <3>1. i + 1 \in 1..K /\ i <= K /\ (i + 1) - 1 = i BY <1>1, <2>1
    <3>2. F[i + 1] = Next1(F[i]) BY <1>12, <3>1
    <3>3. QED BY <1>2, <1>14, <3>1, <3>2
  <2>2. QED BY <2>1
<1> HIDE DEF T
<1>15. Nat \subseteq T BY <1>13, <1>14, Induct
<1>16. \A i \in 0..K : F[i] \in Words BY <1>1, <1>15 DEF T
<1>17. QED BY <1>9, <1>11, <1>12, <1>16 DEF K, Next1

\* A hash is two words.
LEMMA HashIsWords ==
    ASSUME NEW fields \in Seq(Nat)
    PROVE  HeaderHash(fields) \in [1..2 -> Words]
<1> DEFINE n == Len(fields)
           At(k) == IF k + 1 \in 1..n THEN fields[k + 1] ELSE 0
           Next1(k, x) == mix64(Wrap(x + At(k) + 1))
           step == [k \in Nat |-> [x \in Words |-> Next1(k, x)]]
           F == CHOOSE fold : fold = [i \in 0..n |->
                   IF i = 0 THEN 0 ELSE mix64(Wrap(fold[i - 1] + fields[i] + 1))]
<1>1. n \in Nat OBVIOUS
<1>2. \A k \in Nat : At(k) \in Nat OBVIOUS
<1>3. \A k \in Nat, x \in Words : Next1(k, x) \in Words
  <2> HIDE DEF At
  <2>1. ASSUME NEW k \in Nat, NEW x \in Words PROVE Wrap(x + At(k) + 1) \in Words
    <3>1. x \in Nat BY WordFacts
    <3>2. At(k) \in Nat BY <1>2
    <3>3. x + At(k) + 1 \in Nat BY <3>1, <3>2
    <3>4. QED BY <3>3, WordFacts
  <2>2. QED BY <2>1, WordFacts
<1>4. \A i \in 1..n : At(i - 1) = fields[i] OBVIOUS
<1> HIDE DEF At
<1>5. \A i \in 1..n : \A x : Next1(i - 1, x) = mix64(Wrap(x + fields[i] + 1)) BY <1>4
<1> HIDE DEF Next1
<1>6. step \in [Nat -> [Words -> Words]] BY <1>3
<1>7. \A k \in Nat, x \in Words : step[k][x] = Next1(k, x) OBVIOUS
<1> HIDE DEF n, step
<1>8. 0 \in Words BY WordFacts
<1>9. PICK g : RunsTo(Words, 0, step, n, g)
  BY <1>1, <1>6, <1>8, RunTo
<1>10. \A i \in 1..n : g[i] = mix64(Wrap(g[i - 1] + fields[i] + 1))
  <2>1. ASSUME NEW i \in 1..n PROVE i - 1 \in Nat /\ i - 1 \in 0..n BY <1>1
  <2>2. QED BY <1>5, <1>7, <1>9, <2>1 DEF RunsTo
<1>11. g = [i \in 0..n |-> IF i = 0 THEN 0 ELSE mix64(Wrap(g[i - 1] + fields[i] + 1))]
  <2>1. \A i \in 0..n : i # 0 => i \in 1..n BY <1>1
  <2>2. QED BY <1>9, <1>10, <2>1 DEF RunsTo
<1>12. F = [i \in 0..n |-> IF i = 0 THEN 0 ELSE mix64(Wrap(F[i - 1] + fields[i] + 1))] BY <1>11
<1>13. HeaderHash(fields) = <<F[n], mix64(F[n])>> BY DEF HeaderHash, n
<1> HIDE DEF F
<1>14. F[0] = 0
  <2>1. 0 \in 0..n BY <1>1
  <2>2. QED BY <1>12, <2>1
<1>15. ASSUME NEW i \in 1..n PROVE F[i] = Next1(i - 1, F[i - 1])
  <2>1. i \in 0..n /\ i # 0 BY <1>1
  <2>2. F[i] = mix64(Wrap(F[i - 1] + fields[i] + 1)) BY <1>12, <2>1
  <2>3. QED BY <1>5, <2>2
<1> DEFINE T == {i \in Nat : i <= n => F[i] \in Words}
<1>16. 0 \in T BY <1>8, <1>14
<1>17. ASSUME NEW i \in Nat, i \in T PROVE i + 1 \in T
  <2>1. ASSUME i + 1 <= n PROVE F[i + 1] \in Words
    <3>1. i + 1 \in 1..n /\ i <= n /\ (i + 1) - 1 = i BY <1>1, <2>1
    <3>2. F[i + 1] = Next1(i, F[i]) BY <1>15, <3>1
    <3>3. QED BY <1>3, <1>17, <3>1, <3>2
  <2>2. QED BY <2>1
<1> HIDE DEF T
<1>18. Nat \subseteq T BY <1>16, <1>17, Induct
<1>19. F[n] \in Words BY <1>1, <1>18 DEF T
<1>20. mix64(F[n]) \in Words BY <1>19, WordFacts
<1>21. \A x, y \in Words : <<x, y>> \in [1..2 -> Words] OBVIOUS
<1>22. QED BY <1>13, <1>19, <1>20, <1>21

-----------------------------------------------------------------------------
(* What is built verifies.                                                 *)

LEMMA SeedIsWord ==
    ASSUME NEW pph \in [1..2 -> Words], NEW daa, NEW time \in Words, NEW nonce \in Words
    PROVE  pom_block_seed_for_daa(pph, daa, time, nonce) \in Words
<1> DEFINE p == IF is_h3(daa) THEN Salted(pph) ELSE pph_words(pph)
<1>1. Salted(pph) \in [1..2 -> Words]
  <2>1. DOMAIN pph = 1..2 OBVIOUS
  <2>2. \A i \in 1..2 : SALT[i] \in Words /\ pph[i] \in Words BY WalkAssumption
  <2>3. \A i \in 1..2 : BitXor(pph[i], SALT[i]) \in Words BY <2>2, WordFacts
  <2>4. QED BY <2>1, <2>3 DEF Salted
<1>2. p[1] \in Words /\ p[2] \in Words BY <1>1 DEF pph_words
<1> HIDE DEF p
<1>3. SEED_SALT \in Words BY WalkAssumption
<1>4. pom_block_seed_from_words(p, time, nonce) \in Words
  <2>1. mix64(BitXor(nonce, SEED_SALT)) \in Words BY <1>3, WordFacts
  <2>2. mix64(BitXor(mix64(BitXor(nonce, SEED_SALT)), time)) \in Words BY <2>1, WordFacts
  <2>3. mix64(BitXor(mix64(BitXor(mix64(BitXor(nonce, SEED_SALT)), time)), p[1])) \in Words
    BY <1>2, <2>2, WordFacts
  <2>4. QED BY <1>2, <2>3, WordFacts DEF pom_block_seed_from_words
<1>5. QED BY <1>4 DEF pom_block_seed_for_daa, p

\* The trees over the weights and over the states of a walk have the paths of their leaves.
LEMMA WeightPath ==
    ASSUME NEW off \in 0..(N - 1)
    PROVE  verify_merkle(<<WEIGHTS[off + 1]>>, off, merkle_proof(WeightLeaves, off), R_T)
<1>1. N \in Nat BY ModelFacts
<1>2. WeightLeaves = [i \in 1..N |-> WeightLeaves[i]] BY DEF WeightLeaves
<1>3. Len(WeightLeaves) = N BY <1>1, <1>2, SeqLen
<1>4. IsSeq(WeightLeaves) BY <1>1, <1>2 DEF IsSeq
<1>5. WeightLeaves[off + 1] = <<WEIGHTS[off + 1]>>
  <2>1. off + 1 \in 1..N BY <1>1
  <2>2. QED BY <2>1 DEF WeightLeaves
<1>6. verify_merkle(WeightLeaves[off + 1], off, merkle_proof(WeightLeaves, off), merkle_root(WeightLeaves))
  BY <1>3, <1>4, PathVerifies
<1>7. QED BY <1>5, <1>6 DEF R_T

LEMMA TracePath ==
    ASSUME NEW trace, NEW i \in 0..POM_WALK_STEPS
    PROVE  verify_merkle(trace_leaf(trace[i]), i, merkle_proof(TraceLeaves(trace), i),
                         merkle_root(TraceLeaves(trace)))
<1> DEFINE leaves == TraceLeaves(trace)
<1>1. POM_WALK_STEPS \in Nat BY WalkAssumption
<1>2. leaves = [k \in 1..(POM_WALK_STEPS + 1) |-> leaves[k]] BY DEF TraceLeaves
<1>3. leaves[i + 1] = trace_leaf(trace[i])
  <2>1. i + 1 \in 1..(POM_WALK_STEPS + 1) /\ (i + 1) - 1 = i BY <1>1
  <2>2. QED BY <2>1 DEF TraceLeaves
<1> HIDE DEF leaves
<1>4. Len(leaves) = POM_WALK_STEPS + 1 BY <1>1, <1>2, SeqLen
<1>5. IsSeq(leaves)
  <2>1. POM_WALK_STEPS + 1 \in Nat BY <1>1
  <2>2. QED BY <1>2, <2>1 DEF IsSeq
<1>6. i \in 0..(Len(leaves) - 1) BY <1>1, <1>4
<1>7. verify_merkle(leaves[i + 1], i, merkle_proof(leaves, i), merkle_root(leaves))
  BY <1>5, <1>6, PathVerifies
<1>8. QED BY <1>3, <1>7 DEF leaves

\* An honest proof passes every check, whatever the challenges.
LEMMA ProofVerifies ==
    ASSUME NEW pph, NEW daa, NEW target, NEW seed \in Words,
           NEW chs \in [1..POM_OPENINGS -> 0..(POM_WALK_STEPS - 1)],
           NEW value, value = pom_pow_value_for_daa(walk_final(seed), pph, daa), le_leq(value, target)
    PROVE  verify_proof(pph, daa, seed, build_proof(seed, value, chs), target, chs)
<1> DEFINE trace == Trace(seed, HostMod)
           leaves == TraceLeaves(trace)
           proof == build_proof(seed, value, chs)
           K == POM_WALK_STEPS
<1>1. /\ POM_OPENINGS \in Nat /\ K \in Nat
      /\ 0 \in 0..K /\ K \in 0..K
  BY WalkAssumption
<1>2. /\ trace[0] = seed
      /\ \A i \in 0..K : trace[i] \in Words
      /\ \A i \in 1..K : trace[i] = transition(trace[i - 1], WEIGHTS[HostMod[trace[i - 1]] + 1])
  BY ModelFacts, TraceStates
<1>3. DOMAIN chs = 1..POM_OPENINGS OBVIOUS
<1>4. /\ proof.trace_root = merkle_root(leaves)
      /\ proof.pow_value = value
      /\ proof.final_state = trace[K]
      /\ proof.initial_trace_path = merkle_proof(leaves, 0)
      /\ proof.final_trace_path = merkle_proof(leaves, K)
  BY DEF build_proof
<1>5. \A j \in 1..POM_OPENINGS :
          /\ proof.openings[j].state_before = trace[chs[j]]
          /\ proof.openings[j].chunk = WEIGHTS[(trace[chs[j]] % N) + 1]
          /\ proof.openings[j].weight_path = merkle_proof(WeightLeaves, trace[chs[j]] % N)
          /\ proof.openings[j].trace_path_before = merkle_proof(leaves, chs[j])
          /\ proof.openings[j].trace_path_after = merkle_proof(leaves, chs[j] + 1)
  BY <1>3 DEF build_proof
<1>6. Len(proof.openings) = POM_OPENINGS
  <2> DEFINE o == proof.openings
  <2>1. o = [j \in 1..POM_OPENINGS |-> o[j]] BY <1>3 DEF build_proof
  <2> HIDE DEF o
  <2>2. Len(o) = POM_OPENINGS BY <1>1, <2>1, SeqLen
  <2>3. QED BY <2>2 DEF o
<1>7. \A i \in 0..K : verify_merkle(trace_leaf(trace[i]), i, merkle_proof(leaves, i), merkle_root(leaves))
  BY TracePath
<1>8. walk_final(seed) = trace[K] BY DEF walk_final
<1> HIDE DEF proof, leaves, trace
<1>9. ASSUME NEW j \in 1..POM_OPENINGS
      PROVE  LET op == proof.openings[j]
             IN  /\ verify_merkle(trace_leaf(op.state_before), chs[j], op.trace_path_before, proof.trace_root)
                 /\ verify_merkle(<<op.chunk>>, op.state_before % N, op.weight_path, R_T)
                 /\ verify_merkle(trace_leaf(transition(op.state_before, op.chunk)), chs[j] + 1,
                                  op.trace_path_after, proof.trace_root)
  <2> DEFINE c == chs[j]
             before == trace[c]
             off == before % N
  <2>1. c \in 0..(K - 1) OBVIOUS
  <2> HIDE DEF c
  <2>2. c \in 0..K /\ c + 1 \in 1..K /\ c + 1 \in 0..K /\ (c + 1) - 1 = c BY <1>1, <2>1
  <2>3. before \in Words BY <1>2, <2>2
  <2>4. off \in 0..(N - 1) /\ HostMod[before] = off
    <3>1. before \in Nat BY <2>3, WordFacts
    <3>2. QED BY <2>3, <3>1, ModelFacts DEF HostMod
  <2>5. trace[c + 1] = transition(before, WEIGHTS[off + 1]) BY <1>2, <2>2, <2>4
  <2> HIDE DEF before, off
  <2>6. verify_merkle(trace_leaf(before), c, merkle_proof(leaves, c), merkle_root(leaves))
    BY <1>7, <2>2 DEF before
  <2>7. verify_merkle(trace_leaf(transition(before, WEIGHTS[off + 1])), c + 1,
                      merkle_proof(leaves, c + 1), merkle_root(leaves))
    BY <1>7, <2>2, <2>5
  <2>8. verify_merkle(<<WEIGHTS[off + 1]>>, off, merkle_proof(WeightLeaves, off), R_T)
    BY <2>4, WeightPath
  <2>9. /\ proof.openings[j].state_before = before
        /\ proof.openings[j].chunk = WEIGHTS[off + 1]
        /\ proof.openings[j].weight_path = merkle_proof(WeightLeaves, off)
        /\ proof.openings[j].trace_path_before = merkle_proof(leaves, c)
        /\ proof.openings[j].trace_path_after = merkle_proof(leaves, c + 1)
    BY <1>5 DEF before, off, c
  <2>10. chs[j] = c /\ before % N = off BY DEF c, off
  <2>11. QED BY <1>4, <2>6, <2>7, <2>8, <2>9, <2>10
<1>10. verify_merkle(trace_leaf(seed), 0, merkle_proof(leaves, 0), merkle_root(leaves))
  BY <1>1, <1>2, <1>7
<1>11. verify_merkle(trace_leaf(trace[K]), K, merkle_proof(leaves, K), merkle_root(leaves))
  BY <1>1, <1>7
<1>12. verify_proof(pph, daa, seed, proof, target, chs)
  BY <1>3, <1>4, <1>6, <1>8, <1>9, <1>10, <1>11 DEF verify_proof
<1>13. QED BY <1>12 DEF proof

-----------------------------------------------------------------------------
(* The mining thread.                                                      *)

SearchTypeOK ==
    /\ range \in [mask : Words, fixed : Words]
    /\ cursor \in Words
    /\ found \subseteq Words

\* A job is what its header says.
JobIsItsHeader ==
    job # NoJob =>
        /\ job.header \in Header
        /\ job.pph = HeaderHash(serialize_header(job.header, TRUE))
        /\ job.time = job.header.time
        /\ job.daa = job.header.daa

\* One thing at a time: a nonce, a block, a verdict on the block.
OneAtATime ==
    /\ (found # {} \/ block # NoBlock) => job # NoJob
    /\ found # {} => block = NoBlock
    /\ block = NoBlock => verdict = "none" /\ asked = NotAsked

\* A block is of its job, and its proof of the walk from its nonce, opened where the
\* oracle said.
BlockIsHonest ==
    block # NoBlock =>
        IF block.proof = << >> THEN LegacyWins(job, block.nonce)
        ELSE LET seed == pom_block_seed_for_daa(job.pph, job.daa, job.time, block.nonce)
                 value == pom_pow_value_for_daa(walk_final(seed), job.pph, job.daa)
             IN  /\ block.nonce \in Words
                 /\ asked.answer \in [1..POM_OPENINGS -> 0..(POM_WALK_STEPS - 1)]
                 /\ asked.query = Query(job.pph, block.nonce,
                                        merkle_root(TraceLeaves(Trace(seed, HostMod))), value)
                 /\ block.proof = <<build_proof(seed, value, asked.answer)>>
                 /\ le_leq(value, job.target)
                 /\ block.header.rest = job.header.rest
                 /\ block.header.time = job.header.time
                 /\ block.header.daa = job.header.daa
                 /\ (~pool /\ is_h3(job.daa)) => block.header.pom_final_state = walk_final(seed)

WalkInv == SearchTypeOK /\ JobIsItsHeader /\ OneAtATime /\ BlockIsHonest /\ WinnersAreAccepted

LEMMA WalkInit == Init => WalkInv
BY WordFacts DEF Init, WalkInv, SearchTypeOK, JobIsItsHeader, OneAtATime, BlockIsHonest, WinnersAreAccepted

LEMMA NewJobKeeps == ASSUME WalkInv, NewJob PROVE WalkInv'
<1>1. PICK t \in Templates, r \in IF pool THEN Ranges ELSE {AllNonces} :
          /\ job' = NewState(t, r)
          /\ range' = IF job = NoJob THEN r ELSE range
  BY DEF NewJob
<1>2. r \in [mask : Words, fixed : Words]
  <2>1. 2^WORD_BITS - 1 \in Words
    <3>1. \A b \in Nat \ {0} : b - 1 \in 0..(b - 1) OBVIOUS
    <3>2. QED BY <3>1, WordFacts DEF Words
  <2>2. 0 \in Words BY WordFacts
  <2>3. AllNonces \in [mask : Words, fixed : Words] BY <2>1, <2>2 DEF AllNonces
  <2>4. QED BY <1>1, <2>3, WalkAssumption
<1>3. UNCHANGED <<worker, pool, cursor, found, block, asked, verdict>> BY DEF NewJob
<1>4. found = {} /\ block = NoBlock BY DEF NewJob, Mining, WalkInv, OneAtATime
<1>5. SearchTypeOK' BY <1>1, <1>2, <1>3 DEF WalkInv, SearchTypeOK
<1>6. JobIsItsHeader' BY <1>1, WalkAssumption DEF JobIsItsHeader, NewState
<1>7. OneAtATime' BY <1>3, <1>4 DEF WalkInv, OneAtATime
<1>8. BlockIsHonest' BY <1>3, <1>4 DEF BlockIsHonest
<1>9. QED BY <1>3, <1>5, <1>6, <1>7, <1>8 DEF WalkInv, WinnersAreAccepted

\* The searches leave job and block alone.
LEMMA SearchKeeps ==
    ASSUME WalkInv, SearchTypeOK', Mining, UNCHANGED <<pool, job, block, asked, verdict>>
    PROVE  WalkInv'
<1>1. JobIsItsHeader' BY DEF WalkInv, JobIsItsHeader
<1>2. OneAtATime' BY DEF WalkInv, OneAtATime, Mining
<1>3. BlockIsHonest' BY DEF BlockIsHonest, Mining
<1>4. QED BY <1>1, <1>2, <1>3 DEF WalkInv, WinnersAreAccepted

LEMMA SearchGpuKeeps == ASSUME WalkInv, SearchGpu PROVE WalkInv'
<1>1. cursor \in Nat /\ POM_BATCH \in Nat BY WordFacts, WalkAssumption DEF WalkInv, SearchTypeOK
<1>2. cursor' \in Words
  <2>1. cursor + POM_BATCH \in Nat BY <1>1
  <2>2. QED BY <2>1, WordFacts DEF SearchGpu
<1>3. ASSUME NEW won, won \subseteq {Wrap(cursor + i) : i \in 0..(POM_BATCH - 1)}, won # {}
      PROVE  Min(won) \in Words
  <2>1. \A i \in 0..(POM_BATCH - 1) : cursor + i \in Nat BY <1>1
  <2>2. won \subseteq Words BY <1>3, <2>1, WordFacts
  <2>3. won \subseteq Nat BY <2>2, WordFacts
  <2>4. \E n \in won : \A m \in won : n <= m BY <1>3, <2>3, Least
  <2>5. Min(won) \in won BY <2>4 DEF Min
  <2>6. QED BY <2>2, <2>5
<1>4. found' \subseteq Words
  <2> DEFINE won == {n \in {Wrap(cursor + i) : i \in 0..(POM_BATCH - 1)} :
                        KernelWins(salt_pph_bytes_for_daa(job.pph, job.daa), job.time, job.target, n)}
  <2>1. found' = IF won = {} THEN {} ELSE {Min(won)} BY DEF SearchGpu
  <2>2. won \subseteq {Wrap(cursor + i) : i \in 0..(POM_BATCH - 1)} OBVIOUS
  <2> HIDE DEF won
  <2>3. won # {} => Min(won) \in Words BY <1>3, <2>2
  <2>4. QED BY <2>1, <2>3
<1>5. SearchTypeOK' BY <1>2, <1>4 DEF SearchGpu, WalkInv, SearchTypeOK
<1>6. QED BY <1>5, SearchKeeps DEF SearchGpu

LEMMA SearchCpuKeeps == ASSUME WalkInv, SearchCpu PROVE WalkInv'
<1>1. Into(range, cursor) \in Words BY WordFacts DEF WalkInv, SearchTypeOK, Into
<1>2. Wrap(Into(range, cursor) + 1) \in Words
  <2>1. \A x \in Nat : x + 1 \in Nat OBVIOUS
  <2>2. QED BY <1>1, <2>1, WordFacts
<1>3. SearchTypeOK' BY <1>1, <1>2 DEF SearchCpu, WalkInv, SearchTypeOK
<1>4. QED BY <1>3, SearchKeeps DEF SearchCpu

LEMMA SearchPluginKeeps == ASSUME WalkInv, SearchPlugin PROVE WalkInv'
<1>1. SearchTypeOK' BY DEF SearchPlugin, WalkInv, SearchTypeOK
<1>2. QED BY <1>1, SearchKeeps DEF SearchPlugin

LEMMA BuildPomBlockKeeps == ASSUME WalkInv, BuildPomBlock PROVE WalkInv'
<1> DEFINE nonce == CHOOSE n \in found : TRUE
           seed == pom_block_seed_for_daa(job.pph, job.daa, job.time, nonce)
           final == walk_final(seed)
           value == pom_pow_value_for_daa(final, job.pph, job.daa)
           query == Query(job.pph, nonce, merkle_root(TraceLeaves(Trace(seed, HostMod))), value)
<1>1. found # {} /\ found' = {} /\ UNCHANGED <<worker, pool, range, job, cursor, verdict>>
  BY DEF BuildPomBlock
<1>2. nonce \in Words BY <1>1 DEF WalkInv, SearchTypeOK
<1>3. job # NoJob /\ block = NoBlock /\ asked = NotAsked /\ verdict = "none"
  BY <1>1 DEF WalkInv, OneAtATime
<1>4. job.header \in Header /\ job.daa = job.header.daa BY <1>3 DEF WalkInv, JobIsItsHeader
<1>5. SearchTypeOK' /\ JobIsItsHeader' BY <1>1 DEF WalkInv, SearchTypeOK, JobIsItsHeader
<1>6. CASE UNCHANGED <<block, asked>>
  BY <1>1, <1>3, <1>5, <1>6 DEF WalkInv, OneAtATime, BlockIsHonest, WinnersAreAccepted
<1>7. CASE ~UNCHANGED <<block, asked>>
  <2>1. /\ le_leq(value, job.target)
        /\ \E chs \in Challenges(query) :
              /\ asked' = [query |-> query, answer |-> chs]
              /\ block' = [nonce |-> nonce, proof |-> <<build_proof(seed, value, chs)>>,
                           header |-> IF pool THEN job.header
                                      ELSE [job.header EXCEPT !.nonce = nonce,
                                                !.pom_final_state = IF is_h3(job.daa) THEN final ELSE @]]
    BY <1>7 DEF BuildPomBlock
  <2> DEFINE h == IF pool THEN job.header
                  ELSE [job.header EXCEPT !.nonce = nonce,
                            !.pom_final_state = IF is_h3(job.daa) THEN final ELSE @]
  <2>2. Challenges(query) = [1..POM_OPENINGS -> 0..(POM_WALK_STEPS - 1)]
    <3>1. asked.query # query BY <1>3 DEF NotAsked, Query
    <3>2. QED BY <3>1 DEF Challenges
  <2>3. /\ h.rest = job.header.rest /\ h.time = job.header.time /\ h.daa = job.header.daa
        /\ (~pool /\ is_h3(job.daa)) => h.pom_final_state = final
    <3> HIDE DEF final, nonce
    <3>1. QED BY <1>4 DEF Header
  <2> HIDE DEF h, query, final, value, seed, nonce
  <2>4. PICK chs \in [1..POM_OPENINGS -> 0..(POM_WALK_STEPS - 1)] :
              /\ asked' = [query |-> query, answer |-> chs]
              /\ block' = [nonce |-> nonce, proof |-> <<build_proof(seed, value, chs)>>, header |-> h]
    BY <2>1, <2>2 DEF h
  <2>5. /\ asked'.query = query /\ asked'.answer = chs
        /\ block'.nonce = nonce /\ block'.header = h
        /\ block'.proof = <<build_proof(seed, value, chs)>> /\ block'.proof # << >>
    BY <2>4
  <2>6. block' # NoBlock
    <3>1. nonce # -1 BY <1>2, WordFacts
    <3>2. QED BY <2>5, <3>1 DEF NoBlock
  <2>7. OneAtATime' BY <1>1, <1>3, <2>6 DEF OneAtATime
  <2>8. /\ seed = pom_block_seed_for_daa(job.pph, job.daa, job.time, nonce)
        /\ final = walk_final(seed)
        /\ value = pom_pow_value_for_daa(final, job.pph, job.daa)
        /\ query = Query(job.pph, nonce, merkle_root(TraceLeaves(Trace(seed, HostMod))), value)
    BY DEF seed, final, value, query
  <2>9. BlockIsHonest'
    BY <1>1, <1>2, <2>1, <2>3, <2>4, <2>5, <2>8 DEF BlockIsHonest
  <2>10. QED BY <1>1, <1>5, <2>7, <2>9 DEF WalkInv, WinnersAreAccepted
<1>8. QED BY <1>6, <1>7

LEMMA BuildLegacyBlockKeeps == ASSUME WalkInv, BuildLegacyBlock PROVE WalkInv'
<1> DEFINE nonce == CHOOSE n \in found : TRUE
<1>1. found # {} /\ found' = {} /\ UNCHANGED <<worker, pool, range, job, cursor, asked, verdict>>
  BY DEF BuildLegacyBlock
<1>2. job # NoJob /\ block = NoBlock /\ asked = NotAsked /\ verdict = "none"
  BY <1>1 DEF WalkInv, OneAtATime
<1>3. SearchTypeOK' /\ JobIsItsHeader' BY <1>1 DEF WalkInv, SearchTypeOK, JobIsItsHeader
<1>4. OneAtATime' BY <1>1, <1>2 DEF OneAtATime
<1>5. BlockIsHonest'
  <2>1. CASE block' = NoBlock BY <2>1 DEF BlockIsHonest
  <2>2. CASE block' # NoBlock
    <3>1. LegacyWins(job, nonce) /\ block'.nonce = nonce /\ block'.proof = << >>
      BY <2>2 DEF BuildLegacyBlock
    <3>2. QED BY <1>1, <3>1 DEF BlockIsHonest, LegacyWins
  <2>3. QED BY <2>1, <2>2
<1>6. QED BY <1>1, <1>3, <1>4, <1>5 DEF WalkInv, WinnersAreAccepted

\* The node asks the oracle what the miner asked, and sees the walk the miner saw.
LEMMA VerifyKeeps == ASSUME WalkInv, Verify PROVE WalkInv'
<1>1. block # NoBlock /\ UNCHANGED <<worker, pool, range, job, cursor, found, block, asked>>
  BY DEF Verify
<1>2. job # NoJob BY <1>1 DEF WalkInv, OneAtATime
<1>3. verdict' # "rejected"
  <2>1. CASE block.proof = << >>
    BY <1>1, <2>1 DEF Verify, WalkInv, BlockIsHonest
  <2>2. CASE block.proof # << >>
    <3> DEFINE h == block.header
               p == block.proof[1]
               seed == pom_block_seed_for_daa(job.pph, job.daa, job.time, block.nonce)
               value == pom_pow_value_for_daa(walk_final(seed), job.pph, job.daa)
               root == merkle_root(TraceLeaves(Trace(seed, HostMod)))
    <3>1. /\ block.nonce \in Words
          /\ asked.answer \in [1..POM_OPENINGS -> 0..(POM_WALK_STEPS - 1)]
          /\ asked.query = Query(job.pph, block.nonce, root, value)
          /\ block.proof = <<build_proof(seed, value, asked.answer)>>
          /\ le_leq(value, job.target)
          /\ h.rest = job.header.rest /\ h.time = job.header.time /\ h.daa = job.header.daa
          /\ (~pool /\ is_h3(job.daa)) => h.pom_final_state = walk_final(seed)
      BY <1>1, <2>2 DEF WalkInv, BlockIsHonest
    <3>2. /\ job.header \in Header
          /\ job.pph = HeaderHash(serialize_header(job.header, TRUE))
          /\ job.time = job.header.time /\ job.daa = job.header.daa
      BY <1>2 DEF WalkInv, JobIsItsHeader
    <3>3. job.pph \in [1..2 -> Words]
      <4>1. serialize_header(job.header, TRUE) = <<job.header.rest, 0, 0, job.header.daa>>
        BY DEF serialize_header
      <4>2. <<job.header.rest, 0, 0, job.header.daa>> \in Seq(Nat) BY <3>2 DEF Header
      <4>3. QED BY <3>2, <4>1, <4>2, HashIsWords
    <3>4. seed \in Words
      <4>1. job.time \in Words BY <3>2 DEF Header
      <4>2. QED BY <3>1, <3>3, <4>1, SeedIsWord
    <3>5. HeaderHash(serialize_header(h, TRUE)) = job.pph
      <4>1. serialize_header(h, TRUE) = serialize_header(job.header, TRUE)
        BY <3>1 DEF serialize_header
      <4>2. QED BY <3>2, <4>1
    <3>6. p = build_proof(seed, value, asked.answer) BY <3>1
    <3>7. p.trace_root = root /\ p.pow_value = value /\ p.final_state = walk_final(seed)
      <4> HIDE DEF p, seed, value
      <4>1. QED BY <3>6 DEF build_proof, walk_final, root
    <3>8. verify_proof(job.pph, job.daa, seed, p, job.target, asked.answer)
      BY <3>1, <3>4, <3>6, ProofVerifies
    <3>9. \E chs \in Challenges(Query(job.pph, block.nonce, p.trace_root, p.pow_value)) :
              verdict' = IF /\ verify_proof(job.pph, job.daa, seed, p, job.target, chs)
                            /\ ~pool /\ is_h3(job.daa) => h.pom_final_state = p.final_state
                         THEN "accepted" ELSE "rejected"
      BY <2>2, <3>1, <3>2, <3>5 DEF Verify
    <3>10. Challenges(Query(job.pph, block.nonce, p.trace_root, p.pow_value)) = {asked.answer}
      BY <3>1, <3>7 DEF Challenges
    <3> HIDE DEF h, p, seed, value, root
    <3>11. QED BY <3>1, <3>7, <3>8, <3>9, <3>10
  <2>3. QED BY <2>1, <2>2
<1>4. SearchTypeOK' /\ JobIsItsHeader' /\ OneAtATime' /\ BlockIsHonest'
  BY <1>1 DEF WalkInv, SearchTypeOK, JobIsItsHeader, OneAtATime, BlockIsHonest
<1>5. QED BY <1>3, <1>4 DEF WalkInv, WinnersAreAccepted

LEMMA GoOnKeeps == ASSUME WalkInv, GoOn PROVE WalkInv'
<1>1. found = {} BY DEF GoOn, WalkInv, OneAtATime
<1>2. SearchTypeOK' BY DEF GoOn, WalkInv, SearchTypeOK
<1>3. JobIsItsHeader' BY DEF GoOn, WalkInv, JobIsItsHeader
<1>4. OneAtATime' BY <1>1 DEF GoOn, OneAtATime
<1>5. BlockIsHonest' BY DEF GoOn, BlockIsHonest
<1>6. WinnersAreAccepted' BY DEF GoOn, WinnersAreAccepted
<1>7. QED BY <1>2, <1>3, <1>4, <1>5, <1>6 DEF WalkInv

LEMMA WalkNext == WalkInv /\ [Next]_vars => WalkInv'
<1> SUFFICES ASSUME WalkInv, [Next]_vars PROVE WalkInv' OBVIOUS
<1>1. CASE UNCHANGED vars
  BY <1>1 DEF vars, WalkInv, SearchTypeOK, JobIsItsHeader, OneAtATime, BlockIsHonest, WinnersAreAccepted
<1>2. CASE Next
  BY <1>2, NewJobKeeps, SearchGpuKeeps, SearchCpuKeeps, SearchPluginKeeps, BuildPomBlockKeeps,
     BuildLegacyBlockKeeps, VerifyKeeps, GoOnKeeps DEF Next
<1>3. QED BY <1>1, <1>2

\* What the miner sends is accepted (generate_block_if_pom, build_proof, verify_proof): the
\* node hashes the same header, though the miner filled in nonce and final state, draws the
\* same challenges, and finds every opened state, its chunk and its successor on the paths.
THEOREM PomWinnersAreAccepted == Spec => []WinnersAreAccepted
<1>1. WalkInv => WinnersAreAccepted BY DEF WalkInv
<1>2. QED BY <1>1, WalkInit, WalkNext, PTL DEF Spec

-----------------------------------------------------------------------------
(* Division by multiplication.                                             *)

LEMMA TimesLeq ==
    ASSUME NEW a \in Nat, NEW b \in Nat, NEW c \in Nat, a <= b
    PROVE  a * c <= b * c
OBVIOUS

LEMMA DivFacts ==
    ASSUME NEW x \in Nat, NEW b \in Nat \ {0}
    PROVE  x \div b \in Nat /\ (x \div b) * b <= x /\ x < (x \div b) * b + b /\ x % b = x - (x \div b) * b
OBVIOUS

LEMMA Quotient ==
    ASSUME NEW x \in Nat, NEW b \in Nat \ {0}, NEW q \in Nat, q * b <= x, x < q * b + b
    PROVE  x \div b = q
<1> DEFINE d == x \div b
<1>1. d \in Nat /\ d * b <= x /\ x < d * b + b BY DivFacts
<1> HIDE DEF d
<1>2. ~(d < q)
  <2>1. d < q => (d + 1) * b <= q * b BY <1>1, TimesLeq
  <2>2. (d + 1) * b = d * b + b BY <1>1
  <2>3. d * b \in Nat /\ q * b \in Nat BY <1>1
  <2>4. QED BY <1>1, <2>1, <2>2, <2>3
<1>3. ~(q < d)
  <2>1. q < d => (q + 1) * b <= d * b BY <1>1, TimesLeq
  <2>2. (q + 1) * b = q * b + b BY <1>1
  <2>3. d * b \in Nat /\ q * b \in Nat BY <1>1
  <2>4. QED BY <1>1, <2>1, <2>2, <2>3
<1>4. QED BY <1>1, <1>2, <1>3 DEF d

LEMMA DivDiv ==
    ASSUME NEW x \in Nat, NEW a \in Nat \ {0}, NEW b \in Nat \ {0}
    PROVE  (x \div a) \div b = x \div (a * b)
<1> DEFINE y == x \div a
           q == y \div b
<1>1. y \in Nat /\ y * a <= x /\ x < y * a + a BY DivFacts
<1> HIDE DEF y
<1>2. q \in Nat /\ q * b <= y /\ y + 1 <= q * b + b
  <2>1. q \in Nat /\ q * b <= y /\ y < q * b + b BY <1>1, DivFacts
  <2>2. q * b \in Nat BY <2>1
  <2>3. QED BY <1>1, <2>1, <2>2
<1> HIDE DEF q
<1>3. q * b \in Nat /\ a * b \in Nat \ {0} /\ q * (a * b) \in Nat BY <1>2
<1>4. (q * b) * a <= y * a BY <1>1, <1>2, <1>3, TimesLeq
<1>5. (y + 1) * a <= (q * b + b) * a BY <1>1, <1>2, <1>3, TimesLeq
<1>6. (q * b) * a = q * (a * b) BY <1>2
<1>7. (q * b + b) * a = q * (a * b) + a * b BY <1>2
<1>8. (y + 1) * a = y * a + a BY <1>1
<1>9. y * a \in Nat BY <1>1
<1>10. q * (a * b) <= x /\ x < q * (a * b) + a * b BY <1>1, <1>3, <1>4, <1>5, <1>6, <1>7, <1>8, <1>9
<1>11. x \div (a * b) = q BY <1>2, <1>3, <1>10, Quotient
<1>12. QED BY <1>11 DEF q, y

\* A multiplier that is rounded up by little enough divides every word: W is the size of
\* a word, S that of the shift.
LEMMA MultiplyDivides ==
    ASSUME NEW W \in Nat \ {0}, NEW S \in Nat \ {0}, NEW d \in Nat \ {0}, NEW m \in Nat,
           NEW a \in Nat, a < W, W * S <= m * d, m * d <= W * S + S
    PROVE  (a * m) \div (W * S) = a \div d
<1> DEFINE P == W * S
           q == a \div d
           r == a - q * d
           e == m * d - P
<1>1. q \in Nat /\ q * d <= a /\ a < q * d + d /\ q * d \in Nat BY DivFacts
<1>2. P \in Nat \ {0} /\ m * d \in Nat OBVIOUS
<1> HIDE DEF q, P
<1>3. r \in Nat /\ r + 1 <= d /\ a = q * d + r BY <1>1
<1>4. e \in Nat /\ e <= S /\ m * d = P + e BY <1>2 DEF P
<1> HIDE DEF r, e
<1>5. (a * m) * d = a * P + a * e
  <2>1. (a * m) * d = a * (m * d) OBVIOUS
  <2>2. a * (P + e) = a * P + a * e BY <1>2, <1>4
  <2>3. QED BY <1>4, <2>1, <2>2
<1>6. a * P = (q * P) * d + r * P
  <2>1. (q * d + r) * P = (q * P) * d + r * P BY <1>1, <1>2, <1>3
  <2>2. QED BY <1>3, <2>1
<1>7. a * e < P
  <2>1. (a + 1) * S <= W * S BY TimesLeq
  <2>2. e * a <= S * a BY <1>4, TimesLeq
  <2>3. (a + 1) * S = a * S + S /\ a * e = e * a /\ a * S = S * a BY <1>4
  <2>4. a * S \in Nat /\ a * e \in Nat BY <1>4
  <2>5. QED BY <2>1, <2>2, <2>3, <2>4, <1>2 DEF P
<1>8. (r + 1) * P <= d * P BY <1>2, <1>3, TimesLeq
<1>9. (r + 1) * P = r * P + P BY <1>2, <1>3
<1> DEFINE x == a * m
<1>10. q * P \in Nat /\ r * P \in Nat /\ a * e \in Nat /\ x \in Nat /\ d * P \in Nat /\ x * d \in Nat /\ (q * P) * d \in Nat
   BY <1>1, <1>2, <1>3, <1>4
<1>11. (q * P) * d <= x * d /\ x * d < (q * P) * d + d * P BY <1>5, <1>6, <1>7, <1>8, <1>9, <1>10, <1>2
<1> HIDE DEF x
<1>12. q * P <= x
  <2>1. x < q * P => (x + 1) * d <= (q * P) * d BY <1>10, TimesLeq
  <2>2. (x + 1) * d = x * d + d BY <1>10
  <2>3. QED BY <1>10, <1>11, <2>1, <2>2
<1>13. x < q * P + P
  <2>1. q * P + P <= x => (q * P + P) * d <= x * d BY <1>2, <1>10, TimesLeq
  <2>2. (q * P + P) * d = (q * P) * d + d * P BY <1>2, <1>10
  <2>3. QED BY <1>2, <1>10, <1>11, <2>1, <2>2
<1>14. x \div P = q BY <1>1, <1>2, <1>10, <1>12, <1>13, Quotient
<1>15. QED BY <1>14 DEF x, P, q

LEMMA PowerAdds ==
    ASSUME NEW a \in Nat, NEW b \in Nat
    PROVE  2^(a + b) = 2^a * 2^b
<1> DEFINE T == {k \in Nat : 2^(a + k) = 2^a * 2^k}
<1>1. 2^a \in Nat BY PowerPositive
<1>2. 0 \in T
  <2>1. a + 0 = a /\ 2^0 = 1 OBVIOUS
  <2>2. QED BY <1>1, <2>1
<1>3. ASSUME NEW k \in Nat, k \in T PROVE k + 1 \in T
  <2>1. a + k \in Nat /\ a + (k + 1) = (a + k) + 1 OBVIOUS
  <2>2. 2^(k + 1) = 2 * 2^k /\ 2^((a + k) + 1) = 2 * 2^(a + k) BY <2>1, PowerDoubles
  <2>3. 2^k \in Nat BY PowerPositive
  <2>4. 2^(a + k) = 2^a * 2^k BY <1>3
  <2>5. \A x, y \in Nat : 2 * (x * y) = x * (2 * y) OBVIOUS
  <2>6. 2^(a + (k + 1)) = 2^a * 2^(k + 1) BY <1>1, <2>1, <2>2, <2>3, <2>4, <2>5
  <2>7. QED BY <2>6
<1> HIDE DEF T
<1>4. Nat \subseteq T BY <1>2, <1>3, Induct
<1>5. QED BY <1>4 DEF T

\* mod_magic gives no multiplier, or the one it tried at some shift.
LEMMA MagicIsCandidate == mod_magic(N) = NoMagic \/ \E s \in Nat : mod_magic(N) = Candidate(N, s)
<1> DEFINE p == BitLength(N)
           fit == {s \in (p - 1)..(p + WORD_BITS - 2) :
                      /\ Candidate(N, s).magic < 2^WORD_BITS
                      /\ verify_mod_magic(Candidate(N, s), N)}
           P == {k \in Nat : N < 2^k}
<1>1. N \in Nat \ {0} /\ WORD_BITS \in Nat /\ WORD_BITS \in P BY ModelFacts, WalkAssumption
<1> HIDE DEF N
<1>2. PICK r \in P : \A k \in P : r <= k
  <2>1. P \subseteq Nat /\ P # {} BY <1>1
  <2> HIDE DEF P
  <2>2. QED BY <2>1, Least
<1>3. /\ r \in 0..WORD_BITS /\ N < 2^r
      /\ \A q \in 0..(r - 1) : N >= 2^q
  <2>1. r \in 0..WORD_BITS /\ N < 2^r BY <1>1, <1>2
  <2>2. ASSUME NEW q \in 0..(r - 1) PROVE N >= 2^q
    <3>1. q \in Nat /\ q < r BY <2>1
    <3>2. 2^q \in Nat BY <3>1, PowerPositive
    <3>3. ~(N < 2^q) BY <1>2, <3>1
    <3>4. QED BY <1>1, <3>2, <3>3
  <2>3. QED BY <2>1, <2>2
<1>4. p \in 0..WORD_BITS /\ N < 2^p BY <1>3 DEF BitLength
<1>5. p # 0
  <2>1. ASSUME p = 0 PROVE N < 2^0 BY <1>4, <2>1, Zenon
  <2>2. 2^0 = 1 OBVIOUS
  <2>3. N < 1 => FALSE BY <1>1
  <2>4. QED BY <2>1, <2>2, <2>3
<1> HIDE DEF p
<1>6. fit \subseteq Nat BY <1>1, <1>4, <1>5
<1>7. mod_magic(N) = IF N <= 1 \/ fit = {} THEN NoMagic
                     ELSE Candidate(N, CHOOSE s \in fit : \A t \in fit : s <= t)
  BY DEF mod_magic, p
<1> HIDE DEF fit
<1>8. ASSUME fit # {} PROVE (CHOOSE s \in fit : \A t \in fit : s <= t) \in Nat
  <2>1. \E s \in fit : \A t \in fit : s <= t BY <1>6, <1>8, Least
  <2>2. QED BY <1>6, <2>1
<1>9. QED BY <1>7, <1>8

\* The multiplier is rounded up by at most the shift's power of two.
RoundingIsSmall ==
    LET m == mod_magic(N)
    IN  m.magic * N <= 2^(WORD_BITS + m.shift) + 2^m.shift

LEMMA ModIsExact ==
    ASSUME RoundingIsSmall, NEW a \in Words
    PROVE  fast_mod(a, mod_magic(N), N) = a % N
<1> DEFINE m == mod_magic(N)
<1>1. N \in Nat \ {0} /\ WORD_BITS \in Nat BY ModelFacts, WalkAssumption
<1>2. a \in Nat /\ a < 2^WORD_BITS /\ 2^WORD_BITS \in Nat \ {0} BY WordFacts DEF Words
<1> HIDE DEF N
<1>3. CASE m = NoMagic BY <1>3 DEF fast_mod, NoMagic
<1>4. CASE m # NoMagic
  <2>1. PICK s \in Nat : m = Candidate(N, s) BY <1>4, MagicIsCandidate
  <2> DEFINE W == 2^WORD_BITS
             S == 2^s
             g == m.magic
             q == a \div N
  <2>2. W \in Nat \ {0} /\ S \in Nat \ {0} BY <1>2, PowerPositive
  <2>3. 2^(WORD_BITS + s) = W * S BY <1>1, PowerAdds
  <2>4. m.shift = s /\ g = (W * S + N - 1) \div N BY <2>1, <2>3 DEF Candidate
  <2>5. g * N <= W * S + S BY <2>3, <2>4 DEF RoundingIsSmall
  <2>6. fast_mod(a, m, N) = IF g = 0 THEN a % N ELSE Wrap(a - (((a * g) \div W) \div S) * N)
    BY <2>4 DEF fast_mod, mulhi64
  <2> HIDE DEF W, S, g, m
  <2>7. W * S \in Nat \ {0} BY <2>2
  <2>8. g \in Nat /\ W * S <= g * N
    <3>1. W * S + N - 1 \in Nat BY <1>1, <2>7
    <3>2. g \in Nat /\ W * S + N - 1 < g * N + N BY <1>1, <2>4, <3>1, DivFacts
    <3>3. g * N \in Nat BY <1>1, <3>2
    <3>4. QED BY <1>1, <2>7, <3>2, <3>3
  <2>9. (a * g) \div (W * S) = q
    <3>1. a < W BY <1>2 DEF W
    <3>2. QED BY <1>1, <1>2, <2>2, <2>5, <2>8, <3>1, MultiplyDivides
  <2>10. ((a * g) \div W) \div S = q
    <3>1. a * g \in Nat BY <1>2, <2>8
    <3>2. QED BY <2>2, <2>9, <3>1, DivDiv
  <2>11. q \in Nat /\ q * N <= a /\ a % N = a - q * N BY <1>1, <1>2, DivFacts
  <2>12. a - q * N \in Words
    <3>1. q * N \in Nat BY <1>1, <2>11
    <3> HIDE DEF q
    <3>2. a - q * N \in Nat /\ a - q * N < 2^WORD_BITS BY <1>2, <2>11, <3>1
    <3>3. QED BY <1>2, <3>2 DEF Words
  <2>13. Wrap(a - q * N) = a - q * N BY <2>12, WordFacts
  <2>14. QED BY <2>6, <2>10, <2>11, <2>13 DEF m
<1>5. QED BY <1>3, <1>4

\* The kernel is handed the salted hash and does not salt, the host salts as it folds; with
\* that, and with one modulo, they walk the same walk to the same value
\* (pom_mine.cu, PomGpuMiner::mine, generate_block_if_pom).
LEMMA KernelAgrees ==
    ASSUME RoundingIsSmall
    PROVE  KernelIsHost
<1> SUFFICES ASSUME NEW n \in Words
             PROVE  KernelWins(salt_pph_bytes_for_daa(job.pph, job.daa), job.time, job.target, n)
                    <=> HostWins(job, n)
  BY DEF KernelIsHost
<1> DEFINE m == mod_magic(N)
           KernelMod == [x \in Words |-> fast_mod(x, m, N)]
           words == IF is_h3(job.daa) THEN Salted(job.pph) ELSE job.pph
           seed == pom_block_seed_from_words(words, job.time, n)
<1>1. KernelMod = HostMod BY ModIsExact DEF HostMod
<1>2. salt_pph_bytes_for_daa(job.pph, job.daa) = words BY DEF salt_pph_bytes_for_daa
<1>3. KernelWins(words, job.time, job.target, n)
          <=> le_leq(pom_pow_value_from_words(Trace(seed, KernelMod)[POM_WALK_STEPS], words), job.target)
  BY DEF KernelWins, pph_words
<1>4. /\ pom_block_seed_for_daa(job.pph, job.daa, job.time, n) = seed
      /\ \A final : pom_pow_value_for_daa(final, job.pph, job.daa) = pom_pow_value_from_words(final, words)
  BY DEF pom_block_seed_for_daa, pom_pow_value_for_daa, pph_words
<1>5. HostWins(job, n)
          <=> le_leq(pom_pow_value_from_words(Trace(seed, HostMod)[POM_WALK_STEPS], words), job.target)
  BY <1>4 DEF HostWins, walk_final
<1> HIDE DEF KernelMod, words, seed
<1>6. QED BY <1>1, <1>2, <1>3, <1>5

\* The kernel misses no winner and reports none that the host drops, for every model whose
\* multiplier is rounded up by little enough (mod_magic tests its multiplier on samples,
\* which does not show that).
THEOREM PomKernelIsHost ==
    ASSUME RoundingIsSmall
    PROVE  Spec => []KernelIsHost
<1>1. KernelIsHost BY KernelAgrees
<1>2. QED BY <1>1, PTL

-----------------------------------------------------------------------------
(* The chunks of a file and their readers.                                 *)

LEMMA FullIsNat == ASSUME NEW t \in Tensor PROVE Full(t) \in Nat
<1>1. CHUNK_BYTES \in Nat \ {0} BY TreeAssumption
<1>2. t.len \in Nat BY DEF Tensor
<1>3. QED BY <1>1, <1>2, DivFacts DEF Full

LEMMA FirstSteps ==
    ASSUME NEW g \in Seq(Tensor)
    PROVE  /\ First(g)[0] = 0
           /\ \A i \in 0..Len(g) : First(g)[i] \in Nat
           /\ \A i \in 1..Len(g) : First(g)[i] = First(g)[i - 1] + Full(g[i])
<1> DEFINE n == Len(g)
           More(k) == IF k + 1 \in 1..n THEN Full(g[k + 1]) ELSE 0
           step == [k \in Nat |-> [x \in Nat |-> x + More(k)]]
           F == CHOOSE first : first = [i \in 0..n |-> IF i = 0 THEN 0 ELSE first[i - 1] + Full(g[i])]
<1>1. n \in Nat OBVIOUS
<1>2. \A i \in 1..n : Full(g[i]) \in Nat BY FullIsNat
<1>3. \A k \in Nat : More(k) \in Nat BY <1>2
<1>4. \A i \in 1..n : More(i - 1) = Full(g[i]) OBVIOUS
<1> HIDE DEF More
<1>5. step \in [Nat -> [Nat -> Nat]] BY <1>3
<1>6. \A k \in Nat, x \in Nat : step[k][x] = x + More(k) OBVIOUS
<1> HIDE DEF n, step
<1>7. PICK f : RunsTo(Nat, 0, step, n, f) BY <1>1, <1>5, RunTo
<1>8. \A i \in 1..n : f[i] = f[i - 1] + Full(g[i])
  <2>1. ASSUME NEW i \in 1..n PROVE i - 1 \in Nat /\ i - 1 \in 0..n BY <1>1
  <2>2. QED BY <1>4, <1>6, <1>7, <2>1 DEF RunsTo
<1>9. f = [i \in 0..n |-> IF i = 0 THEN 0 ELSE f[i - 1] + Full(g[i])]
  <2>1. \A i \in 0..n : i # 0 => i \in 1..n BY <1>1
  <2>2. QED BY <1>7, <1>8, <2>1 DEF RunsTo
<1>10. F = [i \in 0..n |-> IF i = 0 THEN 0 ELSE F[i - 1] + Full(g[i])] BY <1>9
<1>11. First(g) = F BY DEF First, n
<1> HIDE DEF F
<1>12. F[0] = 0
  <2>1. 0 \in 0..n BY <1>1
  <2>2. QED BY <1>10, <2>1
<1>13. ASSUME NEW i \in 1..n PROVE F[i] = F[i - 1] + Full(g[i])
  <2>1. i \in 0..n /\ i # 0 BY <1>1
  <2>2. QED BY <1>10, <2>1
<1> DEFINE T == {i \in Nat : i <= n => F[i] \in Nat}
<1>14. 0 \in T BY <1>12
<1>15. ASSUME NEW i \in Nat, i \in T PROVE i + 1 \in T
  <2>1. ASSUME i + 1 <= n PROVE F[i + 1] \in Nat
    <3>1. i + 1 \in 1..n /\ i <= n /\ (i + 1) - 1 = i BY <1>1, <2>1
    <3>2. F[i + 1] = F[i] + Full(g[i + 1]) BY <1>13, <3>1
    <3>3. QED BY <1>2, <1>15, <3>1, <3>2
  <2>2. QED BY <2>1
<1> HIDE DEF T
<1>16. Nat \subseteq T BY <1>14, <1>15, Induct
<1>17. \A i \in 0..n : F[i] \in Nat BY <1>1, <1>16 DEF T
<1>18. QED BY <1>11, <1>12, <1>13, <1>17 DEF n

LEMMA FirstGrows ==
    ASSUME NEW g \in Seq(Tensor), NEW a \in 0..Len(g), NEW b \in 0..Len(g), a <= b
    PROVE  First(g)[a] <= First(g)[b]
<1> DEFINE f == First(g)
           n == Len(g)
           T == {k \in Nat : a <= k /\ k <= n => f[a] <= f[k]}
<1>1. /\ n \in Nat /\ \A i \in 0..n : f[i] \in Nat
      /\ \A i \in 1..n : f[i] = f[i - 1] + Full(g[i]) /\ Full(g[i]) \in Nat
  BY FirstSteps, FullIsNat
<1> HIDE DEF f, n
<1>2. a \in 0..n /\ b \in 0..n BY DEF n
<1>3. 0 \in T BY <1>1, <1>2
<1>4. ASSUME NEW k \in Nat, k \in T PROVE k + 1 \in T
  <2>1. ASSUME a <= k + 1, k + 1 <= n PROVE f[a] <= f[k + 1]
    <3>1. CASE a = k + 1 BY <1>1, <1>2, <3>1
    <3>2. CASE a <= k
      <4>1. k + 1 \in 1..n /\ (k + 1) - 1 = k /\ k \in 0..n BY <1>1, <2>1
      <4>2. f[k + 1] = f[k] + Full(g[k + 1]) /\ Full(g[k + 1]) \in Nat BY <1>1, <4>1
      <4>3. f[a] <= f[k] BY <1>4, <3>2, <4>1
      <4>4. f[a] \in Nat /\ f[k] \in Nat BY <1>1, <1>2, <4>1
      <4>5. QED BY <4>2, <4>3, <4>4
    <3>3. QED BY <1>2, <2>1, <3>1, <3>2
  <2>2. QED BY <2>1
<1> HIDE DEF T
<1>5. Nat \subseteq T BY <1>3, <1>4, Induct
<1>6. b \in T BY <1>2, <1>5
<1>7. QED BY <1>1, <1>2, <1>6 DEF T, f

\* The chunks of a tensor are where it starts and one after the other.
LEMMA ChunkOfTensor ==
    ASSUME NEW g \in Seq(Tensor), NEW i \in 1..Len(g),
           NEW off \in Nat, First(g)[i - 1] <= off, off < First(g)[i]
    PROVE  /\ off + 1 \in 1..NumChunks(g)
           /\ Canonical(g)[off + 1] = g[i].off + (off - First(g)[i - 1]) * CHUNK_BYTES
<1> DEFINE f == First(g)
           n == Len(g)
           I(k) == f[k - 1] < off + 1 /\ off + 1 <= f[k]
<1>1. n \in Nat /\ i \in 1..n /\ \A k \in 0..n : f[k] \in Nat BY FirstSteps
<1>2. DOMAIN g = 1..n OBVIOUS
<1>3. I(i)
  <2>1. i - 1 \in 0..n /\ i \in 0..n BY <1>1
  <2>2. QED BY <1>1, <2>1
<1>4. ASSUME NEW k \in 1..n, I(k) PROVE k = i
  <2>1. k - 1 \in 0..n /\ k \in 0..n /\ i - 1 \in 0..n /\ i \in 0..n BY <1>1
  <2>2. f[k - 1] \in Nat /\ f[k] \in Nat /\ f[i - 1] \in Nat /\ f[i] \in Nat BY <1>1, <2>1
  <2>3. k < i => f[k] <= f[i - 1]
    <3>1. k < i => k <= i - 1 BY <2>1
    <3>2. QED BY <2>1, <3>1, FirstGrows
  <2>4. i < k => f[i] <= f[k - 1]
    <3>1. i < k => i <= k - 1 BY <2>1
    <3>2. QED BY <2>1, <3>1, FirstGrows
  <2> HIDE DEF f
  <2>5. QED BY <1>3, <1>4, <2>1, <2>2, <2>3, <2>4
<1>5. off + 1 \in 1..NumChunks(g)
  <2>1. i \in 0..n /\ n \in 0..n /\ i <= n BY <1>1
  <2>2. f[i] <= f[n] BY <2>1, FirstGrows
  <2>3. f[i] \in Nat /\ f[n] \in Nat BY <1>1, <2>1
  <2>4. off < f[i] OBVIOUS
  <2>5. NumChunks(g) = f[n] BY DEF NumChunks
  <2> HIDE DEF f
  <2>6. QED BY <2>2, <2>3, <2>4, <2>5
<1> DEFINE k == TensorOf(g, off + 1)
<1>6. k = i BY <1>2, <1>3, <1>4 DEF TensorOf
<1> HIDE DEF k
<1>7. \A c \in 1..NumChunks(g) :
          Canonical(g)[c] = g[TensorOf(g, c)].off + (c - 1 - f[TensorOf(g, c) - 1]) * CHUNK_BYTES
  BY DEF Canonical
<1>8. PICK c \in 1..NumChunks(g) : c = off + 1 BY <1>5
<1>9. c - 1 = off BY <1>8
<1>10. TensorOf(g, c) = i BY <1>6, <1>8, Zenon DEF k
<1>11. Canonical(g)[c] = g[i].off + (off - f[i - 1]) * CHUNK_BYTES BY <1>7, <1>9, <1>10, Zenon
<1>12. Canonical(g)[off + 1] = g[i].off + (off - f[i - 1]) * CHUNK_BYTES BY <1>8, <1>11, Zenon
<1>13. QED BY <1>5, <1>12

\* The rows of the table, and the gather, tensor by tensor.
TableRun(g, F) ==
    /\ Table(g) = F[Len(g)] /\ F[0] = << >>
    /\ \A i \in 0..Len(g) : F[i] \in Seq(Nat \X Nat)
    /\ \A i \in 1..Len(g) : F[i] = IF HasChunks(g[i]) THEN Append(F[i - 1], <<First(g)[i - 1], g[i].off>>)
                                   ELSE F[i - 1]

LEMMA TableRuns == ASSUME NEW g \in Seq(Tensor) PROVE \E F : TableRun(g, F)
<1> DEFINE n == Len(g)
           first == First(g)
           V == Seq(Nat \X Nat)
           row == [k \in Nat |-> IF k + 1 \in 1..n THEN <<first[k], g[k + 1].off>> ELSE <<0, 0>>]
           has == [k \in Nat |-> IF k + 1 \in 1..n THEN HasChunks(g[k + 1]) ELSE FALSE]
           step == [k \in Nat |-> [x \in V |-> IF has[k] THEN Append(x, row[k]) ELSE x]]
           F == CHOOSE rows : rows = [i \in 0..n |->
                   IF i = 0 THEN << >>
                   ELSE IF HasChunks(g[i]) THEN Append(rows[i - 1], <<first[i - 1], g[i].off>>)
                   ELSE rows[i - 1]]
<1>1. /\ n \in Nat /\ \A i \in 0..n : first[i] \in Nat
      /\ \A i \in 1..n : g[i].off \in Nat
  <2>1. \A i \in 1..n : g[i] \in Tensor OBVIOUS
  <2>2. \A t \in Tensor : t.off \in Nat BY DEF Tensor
  <2>3. QED BY <2>1, <2>2, FirstSteps
<1> HIDE DEF first
<1>2. row \in [Nat -> Nat \X Nat]
  <2> SUFFICES ASSUME NEW k \in Nat, k + 1 \in 1..n PROVE <<first[k], g[k + 1].off>> \in Nat \X Nat
    OBVIOUS
  <2>1. k \in 0..n BY <1>1
  <2>2. QED BY <1>1, <2>1
<1>3. \A i \in 1..n : row[i - 1] = <<first[i - 1], g[i].off>> /\ has[i - 1] = HasChunks(g[i])
  <2> SUFFICES ASSUME NEW i \in 1..n
               PROVE  row[i - 1] = <<first[i - 1], g[i].off>> /\ has[i - 1] = HasChunks(g[i])
    OBVIOUS
  <2>1. i - 1 \in Nat /\ (i - 1) + 1 = i BY <1>1
  <2>2. QED BY <2>1
<1> HIDE DEF row, has
<1>4. step \in [Nat -> [V -> V]]
  <2>1. \A x \in V, y \in Nat \X Nat : Append(x, y) \in V OBVIOUS
  <2>2. \A k \in Nat : row[k] \in Nat \X Nat BY <1>2
  <2> HIDE DEF V
  <2>3. QED BY <2>1, <2>2
<1>5. << >> \in V OBVIOUS
<1> HIDE DEF V
<1>6. \A k \in Nat, x \in V : step[k][x] = IF has[k] THEN Append(x, row[k]) ELSE x OBVIOUS
<1> HIDE DEF n, step
<1>7. PICK f : RunsTo(V, << >>, step, n, f) BY <1>1, <1>4, <1>5, RunTo
<1>8. ASSUME NEW i \in 1..n
      PROVE  f[i] = IF HasChunks(g[i]) THEN Append(f[i - 1], <<first[i - 1], g[i].off>>) ELSE f[i - 1]
  <2>1. i - 1 \in Nat /\ i - 1 \in 0..n BY <1>1
  <2>2. f[i] = step[i - 1][f[i - 1]] /\ f[i - 1] \in V BY <1>7, <2>1 DEF RunsTo
  <2>3. step[i - 1][f[i - 1]] = IF has[i - 1] THEN Append(f[i - 1], row[i - 1]) ELSE f[i - 1]
    BY <1>6, <2>1, <2>2
  <2>4. QED BY <1>3, <2>2, <2>3
<1>9. f = [i \in 0..n |-> IF i = 0 THEN << >>
                          ELSE IF HasChunks(g[i]) THEN Append(f[i - 1], <<first[i - 1], g[i].off>>)
                          ELSE f[i - 1]]
  <2>1. f = [i \in 0..n |-> f[i]] /\ f[0] = << >> BY <1>7 DEF RunsTo
  <2>2. \A i \in 0..n : i # 0 => i \in 1..n BY <1>1
  <2>3. QED BY <1>8, <2>1, <2>2
<1>10. F = [i \in 0..n |-> IF i = 0 THEN << >>
                          ELSE IF HasChunks(g[i]) THEN Append(F[i - 1], <<first[i - 1], g[i].off>>)
                          ELSE F[i - 1]]
  BY <1>9
<1>11. Table(g) = F[n] BY DEF Table, first, n
<1> HIDE DEF F
<1>12. F[0] = << >>
  <2>1. 0 \in 0..n BY <1>1
  <2>2. QED BY <1>10, <2>1
<1>13. ASSUME NEW i \in 1..n
       PROVE  F[i] = IF HasChunks(g[i]) THEN Append(F[i - 1], <<first[i - 1], g[i].off>>) ELSE F[i - 1]
  <2>1. i \in 0..n /\ i # 0 BY <1>1
  <2>2. QED BY <1>10, <2>1
<1> DEFINE T == {i \in Nat : i <= n => F[i] \in V}
<1>14. 0 \in T BY <1>5, <1>12
<1>15. ASSUME NEW i \in Nat, i \in T PROVE i + 1 \in T
  <2>1. ASSUME i + 1 <= n PROVE F[i + 1] \in V
    <3>1. i + 1 \in 1..n /\ i <= n /\ (i + 1) - 1 = i BY <1>1, <2>1
    <3>2. F[i + 1] = IF HasChunks(g[i + 1]) THEN Append(F[i], <<first[i], g[i + 1].off>>) ELSE F[i]
      BY <1>13, <3>1
    <3>3. <<first[i], g[i + 1].off>> \in Nat \X Nat BY <1>1, <3>1
    <3>4. QED BY <1>15, <3>1, <3>2, <3>3 DEF V
  <2>2. QED BY <2>1
<1> HIDE DEF T
<1>16. Nat \subseteq T BY <1>14, <1>15, Induct
<1>17. \A i \in 0..n : F[i] \in V BY <1>1, <1>16 DEF T
<1>18. TableRun(g, F) BY <1>11, <1>12, <1>13, <1>17 DEF TableRun, n, first, V
<1>19. QED BY <1>18

\* Where the chunks of a row end, of n in all.
EndOf(rows, n, j) == IF j < Len(rows) THEN rows[j + 1][1] ELSE n

\* Row j is that of tensor i.
RowIs(g, rows, n, j, i) ==
    /\ First(g)[i - 1] = rows[j][1]
    /\ First(g)[i] = EndOf(rows, n, j)
    /\ First(g)[i - 1] < First(g)[i]
    /\ rows[j][2] = g[i].off

\* The rows of the first k tensors.
RowsOf(g, k, rows) ==
    /\ rows \in Seq(Nat \X Nat)
    /\ Len(rows) = 0 => First(g)[k] = 0
    /\ Len(rows) > 0 => rows[1][1] = 0
    /\ \A j \in 1..Len(rows) : \E i \in 1..k : RowIs(g, rows, First(g)[k], j, i)

LEMMA RowsGrow ==
    ASSUME NEW g \in Seq(Tensor), NEW k \in Nat, k + 1 \in 1..Len(g), NEW rows, RowsOf(g, k, rows),
           NEW new, new = IF HasChunks(g[k + 1]) THEN Append(rows, <<First(g)[k], g[k + 1].off>>) ELSE rows
    PROVE  RowsOf(g, k + 1, new)
<1> DEFINE f == First(g)
           n == Len(g)
           len == Len(rows)
           off == g[k + 1].off
<1>1. /\ n \in Nat /\ \A i \in 0..n : f[i] \in Nat
      /\ \A i \in 1..n : f[i] = f[i - 1] + Full(g[i])
  BY FirstSteps
<1>2. k \in 0..n /\ k + 1 \in 0..n /\ (k + 1) - 1 = k OBVIOUS
<1>3. f[k] \in Nat /\ f[k + 1] = f[k] + Full(g[k + 1]) BY <1>1, <1>2
<1>4. g[k + 1] \in Tensor OBVIOUS
<1>5. Full(g[k + 1]) \in Nat /\ off \in Nat BY <1>4, FullIsNat DEF Tensor
<1>6. rows \in Seq(Nat \X Nat) /\ len \in Nat BY DEF RowsOf
<1>7. CASE ~HasChunks(g[k + 1])
  <2>1. f[k + 1] = f[k] /\ new = rows BY <1>3, <1>5, <1>7 DEF HasChunks
  <2>2. 1..k \subseteq 1..(k + 1) OBVIOUS
  <2>3. QED BY <2>1, <2>2 DEF RowsOf
<1>8. CASE HasChunks(g[k + 1])
  <2>1. new = Append(rows, <<f[k], off>>) BY <1>8
  <2> HIDE DEF off, f
  <2>2. <<f[k], off>> \in Nat \X Nat BY <1>3, <1>5
  <2>3. /\ new \in Seq(Nat \X Nat) /\ Len(new) = len + 1
        /\ \A j \in 1..len : new[j] = rows[j]
        /\ new[len + 1] = <<f[k], off>>
    BY <1>6, <2>1, <2>2
  <2>4. new[1][1] = 0
    <3>1. CASE len = 0
      <4>1. f[k] = 0 BY <3>1 DEF RowsOf, f
      <4>2. new[1] = <<f[k], off>> BY <2>3, <3>1
      <4>3. QED BY <4>1, <4>2
    <3>2. CASE len > 0
      <4>1. 1 \in 1..len /\ rows[1][1] = 0 BY <1>6, <3>2 DEF RowsOf
      <4>2. QED BY <2>3, <4>1
    <3>3. QED BY <1>6, <3>1, <3>2
  <2>5. f[k] < f[k + 1] BY <1>3, <1>5, <1>8 DEF HasChunks
  <2>6. RowIs(g, new, f[k + 1], len + 1, k + 1)
    <3>1. EndOf(new, f[k + 1], len + 1) = f[k + 1] BY <1>6, <2>3 DEF EndOf
    <3>2. new[len + 1][1] = f[k] /\ new[len + 1][2] = off BY <2>3
    <3>3. QED BY <1>2, <2>5, <3>1, <3>2 DEF RowIs, f, off
  <2>7. ASSUME NEW j \in 1..len PROVE \E i \in 1..(k + 1) : RowIs(g, new, f[k + 1], j, i)
    <3>1. PICK i \in 1..k : RowIs(g, rows, f[k], j, i) BY DEF RowsOf, f
    <3>2. EndOf(new, f[k + 1], j) = EndOf(rows, f[k], j)
      <4>1. CASE j < len
        <5>1. j + 1 \in 1..len /\ j < len + 1 BY <1>6, <4>1
        <5>2. QED BY <2>3, <4>1, <5>1 DEF EndOf
      <4>2. CASE j = len
        <5>1. new[j + 1][1] = f[k] BY <2>3, <4>2
        <5>2. QED BY <1>6, <2>3, <4>2, <5>1 DEF EndOf
      <4>3. QED BY <1>6, <4>1, <4>2
    <3>3. new[j] = rows[j] BY <2>3
    <3>4. RowIs(g, new, f[k + 1], j, i) BY <3>1, <3>2, <3>3 DEF RowIs
    <3>5. i \in 1..(k + 1) OBVIOUS
    <3>6. QED BY <3>4, <3>5
  <2>8. \A j \in 1..Len(new) : \E i \in 1..(k + 1) : RowIs(g, new, f[k + 1], j, i)
    <3> SUFFICES ASSUME NEW j \in 1..Len(new) PROVE \E i \in 1..(k + 1) : RowIs(g, new, f[k + 1], j, i)
      OBVIOUS
    <3>1. j \in 1..len \/ j = len + 1 BY <1>6, <2>3
    <3>2. k + 1 \in 1..(k + 1) OBVIOUS
    <3>3. QED BY <2>6, <2>7, <3>1, <3>2
  <2>9. Len(new) # 0 BY <1>6, <2>3
  <2>10. QED BY <2>3, <2>4, <2>8, <2>9 DEF RowsOf, f
<1>9. QED BY <1>7, <1>8

LEMMA TableRows == ASSUME NEW g \in Seq(Tensor) PROVE RowsOf(g, Len(g), Table(g))
<1>1. PICK F : TableRun(g, F) BY TableRuns
<1> DEFINE n == Len(g)
           T == {k \in Nat : k <= n => RowsOf(g, k, F[k])}
<1>2. n \in Nat OBVIOUS
<1>3. 0 \in T
  <2>1. F[0] = << >> /\ First(g)[0] = 0 BY <1>1, FirstSteps DEF TableRun
  <2>2. << >> \in Seq(Nat \X Nat) /\ Len(<< >>) = 0 /\ 1..Len(<< >>) = {} OBVIOUS
  <2>3. RowsOf(g, 0, F[0]) BY <2>1, <2>2 DEF RowsOf
  <2>4. QED BY <2>3
<1>4. ASSUME NEW k \in Nat, k \in T PROVE k + 1 \in T
  <2>1. ASSUME k + 1 <= n PROVE RowsOf(g, k + 1, F[k + 1])
    <3>1. k + 1 \in 1..n /\ k <= n /\ (k + 1) - 1 = k BY <1>2, <2>1
    <3>2. F[k + 1] = IF HasChunks(g[k + 1]) THEN Append(F[k], <<First(g)[k], g[k + 1].off>>) ELSE F[k]
      BY <1>1, <3>1 DEF TableRun
    <3>3. RowsOf(g, k, F[k]) BY <1>4, <3>1
    <3>4. QED BY <3>1, <3>2, <3>3, RowsGrow
  <2>2. QED BY <2>1
<1> HIDE DEF T
<1>5. Nat \subseteq T BY <1>3, <1>4, Induct
<1>6. RowsOf(g, n, F[n]) BY <1>2, <1>5 DEF T
<1>7. QED BY <1>1, <1>6 DEF TableRun

\* What the readers go by: rows that start at 0 and follow each other up to n.
Splits(rows, n) ==
    /\ rows \in Seq(Nat \X Nat)
    /\ n > 0 => Len(rows) > 0
    /\ Len(rows) > 0 => rows[1][1] = 0
    /\ \A j \in 1..Len(rows) : rows[j][1] < EndOf(rows, n, j)

LEMMA TableSplits ==
    ASSUME NEW g \in Seq(Tensor)
    PROVE  /\ NumChunks(g) \in Nat
           /\ Splits(Table(g), NumChunks(g))
           /\ \A j \in 1..Len(Table(g)) :
                 \A off \in Nat : (Table(g)[j][1] <= off /\ off < EndOf(Table(g), NumChunks(g), j)) =>
                    /\ off + 1 \in 1..NumChunks(g)
                    /\ Canonical(g)[off + 1] = Table(g)[j][2] + (off - Table(g)[j][1]) * CHUNK_BYTES
<1> DEFINE n == NumChunks(g)
           rows == Table(g)
<1>1. RowsOf(g, Len(g), rows) BY TableRows
<1>2. n = First(g)[Len(g)] BY DEF NumChunks
<1>3. n \in Nat
  <2>1. Len(g) \in 0..Len(g) OBVIOUS
  <2>2. QED BY <1>2, <2>1, FirstSteps
<1> HIDE DEF n, rows
<1>4. Splits(rows, n)
  <2>1. \A j \in 1..Len(rows) : rows[j][1] < EndOf(rows, n, j) BY <1>1, <1>2 DEF RowsOf, RowIs
  <2>2. rows \in Seq(Nat \X Nat) /\ Len(rows) \in Nat BY <1>1 DEF RowsOf
  <2>3. n > 0 => Len(rows) > 0 BY <1>1, <1>2, <1>3, <2>2 DEF RowsOf
  <2>4. QED BY <1>1, <2>1, <2>2, <2>3 DEF RowsOf, Splits
<1>5. ASSUME NEW j \in 1..Len(rows), NEW off \in Nat, rows[j][1] <= off, off < EndOf(rows, n, j)
      PROVE  /\ off + 1 \in 1..n
             /\ Canonical(g)[off + 1] = rows[j][2] + (off - rows[j][1]) * CHUNK_BYTES
  <2>1. PICK i \in 1..Len(g) : RowIs(g, rows, n, j, i) BY <1>1, <1>2 DEF RowsOf
  <2>2. /\ First(g)[i - 1] = rows[j][1] /\ First(g)[i] = EndOf(rows, n, j) /\ rows[j][2] = g[i].off
    BY <2>1 DEF RowIs
  <2>3. First(g)[i - 1] <= off /\ off < First(g)[i] BY <1>5, <2>2
  <2>4. /\ off + 1 \in 1..n
        /\ Canonical(g)[off + 1] = g[i].off + (off - First(g)[i - 1]) * CHUNK_BYTES
    BY <2>3, ChunkOfTensor DEF n
  <2>5. QED BY <2>2, <2>4, Zenon
<1>6. QED BY <1>3, <1>4, <1>5 DEF n, rows

\* A row ends where the next one starts, before every later one.
LEMMA RowsOrdered ==
    ASSUME NEW n \in Nat, NEW rows, Splits(rows, n)
    PROVE  /\ \A j \in 1..Len(rows) : rows[j][1] \in Nat /\ rows[j][2] \in Nat /\ EndOf(rows, n, j) \in Nat
           /\ \A a, b \in 1..Len(rows) : a < b => EndOf(rows, n, a) <= rows[b][1]
           /\ \A a \in 1..Len(rows) : EndOf(rows, n, a) <= n
<1> DEFINE m == Len(rows)
           E(j) == EndOf(rows, n, j)
<1>1. rows \in Seq(Nat \X Nat) /\ m \in Nat BY DEF Splits
<1>2. \A j \in 1..m : rows[j] \in Nat \X Nat BY <1>1
<1>3. \A j \in 1..m : rows[j][1] \in Nat /\ rows[j][2] \in Nat BY <1>2
<1> HIDE DEF m
<1>4. \A j \in 1..m : j < m => j + 1 \in 1..m BY <1>1
<1>5. \A j \in 1..m : E(j) = IF j < m THEN rows[j + 1][1] ELSE n BY DEF EndOf, m
<1>6. \A j \in 1..m : rows[j][1] < E(j) BY DEF Splits, m
<1> HIDE DEF E
<1>7. \A j \in 1..m : E(j) \in Nat BY <1>3, <1>4, <1>5
<1> DEFINE T == {b \in Nat : b \in 1..m => \A a \in 1..m : a < b => E(a) <= rows[b][1]}
<1>8. 0 \in T OBVIOUS
<1>9. ASSUME NEW b \in Nat, b \in T PROVE b + 1 \in T
  <2> SUFFICES ASSUME b + 1 \in 1..m, NEW a \in 1..m, a < b + 1 PROVE E(a) <= rows[b + 1][1]
    OBVIOUS
  <2>1. b \in 1..m /\ b < m /\ (a = b \/ a < b) BY <1>1
  <2>2. E(b) = rows[b + 1][1] BY <1>5, <2>1
  <2>3. CASE a = b BY <1>7, <2>1, <2>2, <2>3
  <2>4. CASE a < b
    <3>1. E(a) <= rows[b][1] BY <1>9, <2>1, <2>4
    <3>2. rows[b][1] < E(b) BY <1>6, <2>1
    <3>3. E(a) \in Nat /\ E(b) \in Nat /\ rows[b][1] \in Nat BY <1>3, <1>7, <2>1
    <3>4. E(a) <= E(b) BY <3>1, <3>2, <3>3
    <3>5. QED BY <2>2, <3>4
  <2>5. QED BY <2>1, <2>3, <2>4
<1> HIDE DEF T
<1>10. Nat \subseteq T BY <1>8, <1>9, Induct
<1>11. \A a, b \in 1..m : a < b => E(a) <= rows[b][1] BY <1>1, <1>10 DEF T
<1>12. ASSUME NEW a \in 1..m PROVE E(a) <= n
  <2>1. m \in 1..m /\ (a = m \/ a < m) BY <1>1
  <2>2. E(m) = n BY <1>5, <2>1
  <2>3. CASE a = m BY <2>2, <2>3
  <2>4. CASE a < m
    <3>1. E(a) <= rows[m][1] /\ rows[m][1] < E(m) BY <1>6, <1>11, <2>1, <2>4
    <3>2. E(a) \in Nat /\ rows[m][1] \in Nat BY <1>3, <1>7, <2>1
    <3>3. QED BY <2>2, <3>1, <3>2
  <2>5. QED BY <2>1, <2>3, <2>4
<1>13. QED BY <1>3, <1>7, <1>11, <1>12 DEF E, m

\* Each chunk is in one row.
LEMMA RowOfChunk ==
    ASSUME NEW n \in Nat, NEW rows, Splits(rows, n), NEW off \in 0..(n - 1)
    PROVE  \E p \in 1..Len(rows) : rows[p][1] <= off /\ off < EndOf(rows, n, p)
<1> DEFINE m == Len(rows)
           S == {j \in Nat : j \in 1..m /\ off < EndOf(rows, n, j)}
<1>1. m \in Nat /\ m > 0 /\ rows[1][1] = 0 BY DEF Splits
<1>2. m \in S BY <1>1 DEF EndOf
<1>3. PICK p \in S : \A j \in S : p <= j
  <2>1. S \subseteq Nat /\ S # {} BY <1>2
  <2> HIDE DEF S
  <2>2. QED BY <2>1, Least
<1>4. p \in 1..m /\ off < EndOf(rows, n, p) BY <1>3
<1>5. rows[p][1] <= off
  <2>1. CASE p = 1 BY <1>1, <2>1
  <2>2. CASE p # 1
    <3>1. p - 1 \in 1..m /\ p - 1 < m /\ (p - 1) + 1 = p /\ ~(p <= p - 1) BY <1>1, <1>4, <2>2
    <3>2. p - 1 \notin S BY <1>3, <3>1
    <3>3. ~(off < EndOf(rows, n, p - 1)) BY <3>1, <3>2
    <3>4. EndOf(rows, n, p - 1) = rows[p][1] BY <3>1 DEF EndOf
    <3>5. rows[p][1] \in Nat BY <1>4, RowsOrdered
    <3>6. QED BY <3>3, <3>4, <3>5
  <2>3. QED BY <2>1, <2>2
<1>6. QED BY <1>4, <1>5

\* And partition_point finds it.
LEMMA PartitionPoint ==
    ASSUME NEW n \in Nat, NEW rows, Splits(rows, n), NEW off \in 0..(n - 1)
    PROVE  /\ partition_point(rows, off) \in 1..Len(rows)
           /\ rows[partition_point(rows, off)][1] <= off
           /\ off < EndOf(rows, n, partition_point(rows, off))
<1> DEFINE m == Len(rows)
<1>1. rows \in Seq(Nat \X Nat) /\ m \in Nat /\ DOMAIN rows = 1..m BY DEF Splits
<1>2. PICK p \in 1..m : rows[p][1] <= off /\ off < EndOf(rows, n, p) BY RowOfChunk
<1>3. ASSUME NEW j \in 1..m PROVE rows[j][1] <= off <=> j <= p
  <2>1. /\ rows[j][1] \in Nat /\ EndOf(rows, n, j) \in Nat
        /\ rows[p][1] \in Nat /\ EndOf(rows, n, p) \in Nat
        /\ rows[j][1] < EndOf(rows, n, j)
    BY RowsOrdered DEF Splits
  <2>2. j < p => EndOf(rows, n, j) <= rows[p][1] BY RowsOrdered
  <2>3. p < j => EndOf(rows, n, p) <= rows[j][1] BY RowsOrdered
  <2>4. CASE j < p BY <1>2, <2>1, <2>2, <2>4
  <2>5. CASE j = p BY <1>2, <2>5
  <2>6. CASE p < j BY <1>2, <2>1, <2>3, <2>6
  <2>7. QED BY <2>4, <2>5, <2>6
<1>4. {j \in DOMAIN rows : rows[j][1] <= off} = 1..p BY <1>1, <1>3
<1>5. Cardinality(1..p) = p BY FS_Interval
<1>6. partition_point(rows, off) = p BY <1>4, <1>5 DEF partition_point
<1>7. QED BY <1>2, <1>6

LEMMA ReadChunkIsCanonical ==
    ASSUME NEW g \in Seq(Tensor), NEW off \in 0..(NumChunks(g) - 1)
    PROVE  read_chunk(Table(g), off) = Canonical(g)[off + 1]
<1> DEFINE n == NumChunks(g)
           rows == Table(g)
           p == partition_point(rows, off)
<1>1. n \in Nat /\ Splits(rows, n) BY TableSplits
<1>2. p \in 1..Len(rows) /\ rows[p][1] <= off /\ off < EndOf(rows, n, p) BY <1>1, PartitionPoint
<1>3. off \in Nat BY <1>1
<1>4. Canonical(g)[off + 1] = rows[p][2] + (off - rows[p][1]) * CHUNK_BYTES BY <1>2, <1>3, TableSplits
<1>5. QED BY <1>4 DEF read_chunk

LEMMA FunctionIsSeq ==
    ASSUME NEW V, NEW n \in Nat, NEW f \in [1..n -> V]
    PROVE  f \in Seq(V) /\ Len(f) = n
OBVIOUS

LEMMA SameSeq ==
    ASSUME NEW V, NEW s \in Seq(V), NEW t \in Seq(V), Len(s) = Len(t),
           \A j \in 1..Len(s) : s[j] = t[j]
    PROVE  s = t
<1>1. s = [j \in 1..Len(s) |-> s[j]] /\ t = [j \in 1..Len(t) |-> t[j]] OBVIOUS
<1>2. QED BY <1>1

\* The gather has the table's rows, by columns, and the end of the last one.
GatherOf(rows, n) ==
    [bases |-> [j \in 1..Len(rows) |-> rows[j][2]],
     prefix |-> [j \in 1..(Len(rows) + 1) |-> IF j <= Len(rows) THEN rows[j][1] ELSE n]]

LEMMA GatherParts ==
    ASSUME NEW rows \in Seq(Nat \X Nat), NEW n \in Nat
    PROVE  /\ GatherOf(rows, n).bases \in Seq(Nat) /\ Len(GatherOf(rows, n).bases) = Len(rows)
           /\ GatherOf(rows, n).prefix \in Seq(Nat) /\ Len(GatherOf(rows, n).prefix) = Len(rows) + 1
           /\ \A j \in 1..Len(rows) : /\ GatherOf(rows, n).bases[j] = rows[j][2]
                                      /\ GatherOf(rows, n).prefix[j] = rows[j][1]
           /\ GatherOf(rows, n).prefix[Len(rows) + 1] = n
<1> DEFINE m == Len(rows)
           b == [j \in 1..m |-> rows[j][2]]
           p == [j \in 1..(m + 1) |-> IF j <= m THEN rows[j][1] ELSE n]
<1>1. m \in Nat /\ \A j \in 1..m : rows[j][1] \in Nat /\ rows[j][2] \in Nat
  <2>1. \A j \in 1..m : rows[j] \in Nat \X Nat OBVIOUS
  <2>2. QED BY <2>1
<1>2. GatherOf(rows, n).bases = b /\ GatherOf(rows, n).prefix = p BY DEF GatherOf
<1> HIDE DEF m
<1>3. b \in [1..m -> Nat] /\ p \in [1..(m + 1) -> Nat] BY <1>1
<1>4. b \in Seq(Nat) /\ Len(b) = m /\ p \in Seq(Nat) /\ Len(p) = m + 1
  <2>1. m + 1 \in Nat BY <1>1
  <2> HIDE DEF b, p
  <2>2. b \in Seq(Nat) /\ Len(b) = m BY <1>1, <1>3, FunctionIsSeq
  <2>3. p \in Seq(Nat) /\ Len(p) = m + 1 BY <1>3, <2>1, FunctionIsSeq
  <2>4. QED BY <2>2, <2>3
<1>5. (\A j \in 1..m : b[j] = rows[j][2] /\ p[j] = rows[j][1]) /\ p[m + 1] = n BY <1>1
<1> HIDE DEF b, p
<1>6. QED BY <1>2, <1>4, <1>5 DEF m

LEMMA GatherGrows ==
    ASSUME NEW rows \in Seq(Nat \X Nat), NEW n \in Nat, NEW off \in Nat, NEW full \in Nat
    PROVE  LET gm == GatherOf(rows, n)
           IN  GatherOf(Append(rows, <<n, off>>), n + full)
                 = [bases |-> Append(gm.bases, off),
                    prefix |-> Append(gm.prefix, gm.prefix[Len(gm.prefix)] + full)]
<1> DEFINE new == Append(rows, <<n, off>>)
           m == Len(rows)
           gm == GatherOf(rows, n)
           b == gm.bases
           p == gm.prefix
           gn == GatherOf(new, n + full)
           c == gn.bases
           q == gn.prefix
<1>1. <<n, off>> \in Nat \X Nat OBVIOUS
<1>2. /\ new \in Seq(Nat \X Nat) /\ Len(new) = m + 1 /\ m \in Nat
      /\ \A j \in 1..m : new[j] = rows[j]
      /\ new[m + 1] = <<n, off>>
  BY <1>1
<1> HIDE DEF new
<1>3. /\ b \in Seq(Nat) /\ Len(b) = m /\ p \in Seq(Nat) /\ Len(p) = m + 1
      /\ \A j \in 1..m : b[j] = rows[j][2] /\ p[j] = rows[j][1]
      /\ p[m + 1] = n
  BY GatherParts
<1>4. n + full \in Nat OBVIOUS
<1>5. /\ c \in Seq(Nat) /\ Len(c) = m + 1 /\ q \in Seq(Nat) /\ Len(q) = (m + 1) + 1
      /\ \A j \in 1..(m + 1) : c[j] = new[j][2] /\ q[j] = new[j][1]
      /\ q[(m + 1) + 1] = n + full
  <2>1. /\ c \in Seq(Nat) /\ Len(c) = Len(new) /\ q \in Seq(Nat) /\ Len(q) = Len(new) + 1
        /\ \A j \in 1..Len(new) : c[j] = new[j][2] /\ q[j] = new[j][1]
        /\ q[Len(new) + 1] = n + full
    BY <1>2, <1>4, GatherParts
  <2> HIDE DEF gn
  <2>2. QED BY <1>2, <2>1
<1>6. gn = [bases |-> c, prefix |-> q] BY DEF GatherOf
<1> HIDE DEF m, gm, gn, b, p, c, q
<1>7. new[m + 1][1] = n /\ new[m + 1][2] = off BY <1>2
<1>8. c = Append(b, off)
  <2> DEFINE d == Append(b, off)
  <2>1. d \in Seq(Nat) /\ Len(d) = m + 1 /\ (\A j \in 1..m : d[j] = b[j]) /\ d[m + 1] = off BY <1>3
  <2> HIDE DEF d
  <2>2. \A j \in 1..(m + 1) : c[j] = d[j]
    <3>1. \A j \in 1..(m + 1) : j \in 1..m \/ j = m + 1 BY <1>2
    <3>2. QED BY <1>2, <1>3, <1>5, <1>7, <2>1, <3>1
  <2>3. c = d BY <1>5, <2>1, <2>2, SameSeq
  <2>4. QED BY <2>3 DEF d
<1>9. q = Append(p, n + full)
  <2> DEFINE d == Append(p, n + full)
  <2>1. /\ d \in Seq(Nat) /\ Len(d) = (m + 1) + 1 /\ (\A j \in 1..(m + 1) : d[j] = p[j])
        /\ d[(m + 1) + 1] = n + full
    BY <1>2, <1>3, <1>4
  <2> HIDE DEF d
  <2>2. \A j \in 1..(m + 1) : q[j] = p[j]
    <3>1. \A j \in 1..(m + 1) : j \in 1..m \/ j = m + 1 BY <1>2
    <3>2. QED BY <1>2, <1>3, <1>5, <1>7, <3>1
  <2>3. \A j \in 1..((m + 1) + 1) : q[j] = d[j]
    <3>1. \A j \in 1..((m + 1) + 1) : j \in 1..(m + 1) \/ j = (m + 1) + 1 BY <1>2
    <3>2. QED BY <1>5, <2>1, <2>2, <3>1
  <2>4. q = d BY <1>5, <2>1, <2>3, SameSeq
  <2>5. QED BY <2>4 DEF d
<1>10. p[Len(p)] + full = n + full BY <1>3
<1>11. gn = [bases |-> Append(b, off), prefix |-> Append(p, p[Len(p)] + full)]
  BY <1>6, <1>8, <1>9, <1>10
<1>12. QED BY <1>11 DEF gn, gm, b, p, new

LEMMA GatherIsTable ==
    ASSUME NEW g \in Seq(Tensor)
    PROVE  Gather(g) = GatherOf(Table(g), NumChunks(g))
<1> DEFINE n == Len(g)
           first == First(g)
           Step(gm, i) == IF HasChunks(g[i])
                          THEN [bases |-> Append(gm.bases, g[i].off),
                                prefix |-> Append(gm.prefix, gm.prefix[Len(gm.prefix)] + Full(g[i]))]
                          ELSE gm
           empty == [bases |-> << >>, prefix |-> <<0>>]
           F == CHOOSE gather : gather = [i \in 0..n |->
                   IF i = 0 THEN [bases |-> << >>, prefix |-> <<0>>]
                   ELSE LET gm == gather[i - 1]
                        IN  IF HasChunks(g[i])
                            THEN [bases |-> Append(gm.bases, g[i].off),
                                  prefix |-> Append(gm.prefix, gm.prefix[Len(gm.prefix)] + Full(g[i]))]
                            ELSE gm]
<1>1. PICK rows : TableRun(g, rows) BY TableRuns
<1> DEFINE W == [i \in 0..n |-> GatherOf(rows[i], first[i])]
<1>2. /\ n \in Nat /\ first[0] = 0 /\ \A i \in 0..n : first[i] \in Nat
      /\ \A i \in 1..n : first[i] = first[i - 1] + Full(g[i])
  BY FirstSteps
<1>3. \A i \in 1..n : g[i].off \in Nat /\ Full(g[i]) \in Nat
  <2>1. \A i \in 1..n : g[i] \in Tensor OBVIOUS
  <2>2. \A t \in Tensor : t.off \in Nat BY DEF Tensor
  <2>3. QED BY <2>1, <2>2, FullIsNat
<1>4. Gather(g) = F[n] BY DEF Gather
<1>5. (\A i \in 0..n : rows[i] \in Seq(Nat \X Nat)) /\ rows[0] = << >> /\ rows[n] = Table(g)
  BY <1>1 DEF TableRun
<1> HIDE DEF first
<1>6. W[0] = empty
  <2>1. 0 \in 0..n BY <1>2
  <2>2. W[0] = GatherOf(<< >>, 0) BY <1>2, <1>5, <2>1
  <2>3. [j \in 1..0 |-> << >>[j][2]] = << >> OBVIOUS
  <2>4. Len(<< >>) = 0 OBVIOUS
  <2>5. GatherOf(<< >>, 0).bases = << >>
    <3>1. << >> \in Seq(Nat \X Nat) /\ 0 \in Nat OBVIOUS
    <3>2. GatherOf(<< >>, 0).bases \in Seq(Nat) /\ Len(GatherOf(<< >>, 0).bases) = 0
      BY <2>4, <3>1, GatherParts
    <3>3. QED BY <3>2
  <2>6. GatherOf(<< >>, 0).prefix = <<0>>
    <3> DEFINE p == GatherOf(<< >>, 0).prefix
    <3>1. << >> \in Seq(Nat \X Nat) /\ 0 \in Nat /\ 0 + 1 = 1 OBVIOUS
    <3>2. p \in Seq(Nat) /\ Len(p) = Len(<< >>) + 1 /\ p[Len(<< >>) + 1] = 0 BY <3>1, GatherParts
    <3> HIDE DEF p
    <3>3. Len(p) = 1 /\ p[1] = 0 BY <2>4, <3>2
    <3>4. p = <<0>> BY <3>2, <3>3
    <3>5. QED BY <3>4 DEF p
  <2>7. GatherOf(<< >>, 0) = [bases |-> GatherOf(<< >>, 0).bases, prefix |-> GatherOf(<< >>, 0).prefix]
    BY DEF GatherOf
  <2>8. QED BY <2>2, <2>5, <2>6, <2>7
<1>7. ASSUME NEW i \in 1..n PROVE W[i] = Step(W[i - 1], i)
  <2>1. i - 1 \in 0..n /\ i \in 0..n BY <1>2
  <2>2. rows[i] = IF HasChunks(g[i]) THEN Append(rows[i - 1], <<first[i - 1], g[i].off>>) ELSE rows[i - 1]
    BY <1>1 DEF TableRun, first
  <2>3. /\ first[i] = first[i - 1] + Full(g[i]) /\ first[i - 1] \in Nat
        /\ Full(g[i]) \in Nat /\ g[i].off \in Nat /\ rows[i - 1] \in Seq(Nat \X Nat)
    BY <1>2, <1>3, <1>5, <2>1
  <2>4. W[i] = GatherOf(rows[i], first[i]) /\ W[i - 1] = GatherOf(rows[i - 1], first[i - 1]) BY <2>1
  <2> HIDE DEF W
  <2>5. CASE HasChunks(g[i])
    <3> DEFINE gm == GatherOf(rows[i - 1], first[i - 1])
    <3>0. GatherOf(Append(rows[i - 1], <<first[i - 1], g[i].off>>), first[i - 1] + Full(g[i]))
             = [bases |-> Append(gm.bases, g[i].off),
                prefix |-> Append(gm.prefix, gm.prefix[Len(gm.prefix)] + Full(g[i]))]
      BY <2>3, GatherGrows
    <3>1. GatherOf(Append(rows[i - 1], <<first[i - 1], g[i].off>>), first[i - 1] + Full(g[i]))
             = [bases |-> Append(W[i - 1].bases, g[i].off),
                prefix |-> Append(W[i - 1].prefix, W[i - 1].prefix[Len(W[i - 1].prefix)] + Full(g[i]))]
      BY <2>4, <3>0
    <3>2. QED BY <2>2, <2>3, <2>4, <2>5, <3>1
  <2>6. CASE ~HasChunks(g[i])
    <3>1. first[i] = first[i - 1] BY <2>3, <2>6 DEF HasChunks
    <3>2. QED BY <2>2, <2>4, <2>6, <3>1
  <2>7. QED BY <2>5, <2>6
<1>8. W = [i \in 0..n |-> IF i = 0 THEN empty ELSE Step(W[i - 1], i)]
  <2>1. W = [i \in 0..n |-> W[i]] OBVIOUS
  <2>2. \A i \in 0..n : i # 0 => i \in 1..n BY <1>2
  <2> HIDE DEF W, Step, empty
  <2>3. QED BY <1>6, <1>7, <2>1, <2>2
<1>9. F = [i \in 0..n |-> IF i = 0 THEN empty ELSE Step(F[i - 1], i)]
  <2> HIDE DEF W
  <2>1. QED BY <1>8
<1>10. W[n] = GatherOf(Table(g), NumChunks(g))
  <2>1. n \in 0..n BY <1>2
  <2>2. QED BY <1>5, <2>1 DEF NumChunks, first
<1> HIDE DEF F, W, Step, empty
<1> DEFINE T == {i \in Nat : i <= n => F[i] = W[i]}
<1>11. 0 \in T
  <2>1. 0 \in 0..n BY <1>2
  <2>2. QED BY <1>6, <1>9, <2>1
<1>12. ASSUME NEW i \in Nat, i \in T PROVE i + 1 \in T
  <2>1. ASSUME i + 1 <= n PROVE F[i + 1] = W[i + 1]
    <3>1. i + 1 \in 0..n /\ i + 1 # 0 /\ i + 1 \in 1..n /\ i <= n /\ (i + 1) - 1 = i BY <1>2, <2>1
    <3>2. F[i + 1] = Step(F[i], i + 1) BY <1>9, <3>1
    <3>3. W[i + 1] = Step(W[i], i + 1) BY <1>7, <3>1
    <3>4. QED BY <1>12, <3>1, <3>2, <3>3
  <2>2. QED BY <2>1
<1> HIDE DEF T
<1>13. Nat \subseteq T BY <1>11, <1>12, Induct
<1>14. F[n] = W[n] BY <1>2, <1>13 DEF T
<1>15. QED BY <1>4, <1>10, <1>14

\* The kernel's search holds the chunk between two tensors.
Holds(prefix, off, lo, hi) ==
    /\ lo \in Nat /\ hi \in Nat /\ lo < hi
    /\ prefix[lo + 1] <= off /\ ~(prefix[hi + 1] <= off)

Halved(prefix, off, b) ==
    LET mid == (b[1] + b[2]) \div 2
    IN  IF prefix[mid + 1] <= off THEN <<mid, b[2]>> ELSE <<b[1], mid>>

LEMMA HalvingHolds ==
    ASSUME NEW prefix, NEW off, NEW b \in Nat \X Nat, Holds(prefix, off, b[1], b[2]),
           NEW w \in Nat \ {0}, b[2] - b[1] <= 2 * w, NEW c, c = Halved(prefix, off, b)
    PROVE  /\ c \in Nat \X Nat /\ Holds(prefix, off, c[1], c[2])
           /\ c[2] - c[1] <= w /\ c[2] <= b[2]
<1> DEFINE lo == b[1]
           hi == b[2]
           mid == (lo + hi) \div 2
<1>1. /\ lo \in Nat /\ hi \in Nat /\ lo < hi /\ hi - lo <= 2 * w
      /\ prefix[lo + 1] <= off /\ ~(prefix[hi + 1] <= off)
  BY DEF Holds
<1>2. c = IF prefix[mid + 1] <= off THEN <<mid, hi>> ELSE <<lo, mid>> BY DEF Halved
<1> HIDE DEF lo, hi
<1>3. mid \in Nat /\ lo <= mid /\ mid < hi /\ hi - mid <= w /\ mid - lo <= w BY <1>1
<1>4. CASE prefix[mid + 1] <= off
  <2>1. c = <<mid, hi>> BY <1>2, <1>4
  <2> HIDE DEF mid
  <2>2. c \in Nat \X Nat /\ c[1] = mid /\ c[2] = hi BY <1>1, <1>3, <2>1
  <2>3. QED BY <1>1, <1>3, <1>4, <2>2 DEF Holds, hi
<1>5. CASE ~(prefix[mid + 1] <= off)
  <2>1. c = <<lo, mid>> BY <1>2, <1>5
  <2>2. mid # lo BY <1>1, <1>5
  <2> HIDE DEF mid
  <2>3. c \in Nat \X Nat /\ c[1] = lo /\ c[2] = mid BY <1>1, <1>3, <2>1
  <2>4. lo < mid /\ mid <= hi BY <1>1, <1>3, <2>2
  <2>5. QED BY <1>1, <1>3, <1>5, <2>3, <2>4 DEF Holds, hi
<1>6. QED BY <1>4, <1>5

LEMMA FindTensor ==
    ASSUME NEW prefix, NEW off, NEW n \in Nat \ {0}, n <= 2^HALVINGS, Holds(prefix, off, 0, n)
    PROVE  LET lo == find_tensor(prefix, n, off)
           IN  lo \in 0..(n - 1) /\ Holds(prefix, off, lo, lo + 1)
<1> DEFINE H == HALVINGS
           V == Nat \X Nat
           step == [k \in Nat |-> [b \in V |-> Halved(prefix, off, b)]]
           F == CHOOSE find : find = [k \in 0..H |->
                   IF k = 0 THEN <<0, n>>
                   ELSE LET lo == find[k - 1][1]
                            hi == find[k - 1][2]
                            mid == (lo + hi) \div 2
                        IN  IF prefix[mid + 1] <= off THEN <<mid, hi>> ELSE <<lo, mid>>]
<1>1. H \in Nat BY DEF HALVINGS
<1>2. \A b \in V : Halved(prefix, off, b) \in V
  <2> SUFFICES ASSUME NEW b \in V PROVE Halved(prefix, off, b) \in V OBVIOUS
  <2>1. b[1] \in Nat /\ b[2] \in Nat OBVIOUS
  <2>2. \A x, y \in Nat : (x + y) \div 2 \in Nat OBVIOUS
  <2>3. (b[1] + b[2]) \div 2 \in Nat BY <2>1, <2>2
  <2>4. QED BY <2>1, <2>3 DEF Halved
<1>3. <<0, n>> \in V OBVIOUS
<1> HIDE DEF V
<1>4. step \in [Nat -> [V -> V]] BY <1>2
<1>5. \A k \in Nat, b \in V : step[k][b] = Halved(prefix, off, b) OBVIOUS
<1> HIDE DEF step, H
<1>6. PICK f : RunsTo(V, <<0, n>>, step, H, f) BY <1>1, <1>3, <1>4, RunTo
<1>7. f = [k \in 0..H |-> IF k = 0 THEN <<0, n>> ELSE Halved(prefix, off, f[k - 1])]
  <2>1. f = [k \in 0..H |-> f[k]] /\ f[0] = <<0, n>> BY <1>6 DEF RunsTo
  <2>2. ASSUME NEW k \in 0..H, k # 0 PROVE f[k] = Halved(prefix, off, f[k - 1])
    <3>1. k \in 1..H /\ k - 1 \in Nat /\ k - 1 \in 0..H BY <1>1, <2>2
    <3>2. f[k] = step[k - 1][f[k - 1]] /\ f[k - 1] \in V BY <1>6, <3>1 DEF RunsTo
    <3>3. QED BY <1>5, <3>1, <3>2
  <2>3. QED BY <2>1, <2>2
<1>8. F = [k \in 0..H |-> IF k = 0 THEN <<0, n>> ELSE Halved(prefix, off, F[k - 1])]
  BY <1>7 DEF Halved
<1>9. find_tensor(prefix, n, off) = F[H][1] BY DEF find_tensor, H
<1> HIDE DEF F
<1> DEFINE T == {k \in Nat : k <= H =>
                    /\ F[k] \in Nat \X Nat /\ Holds(prefix, off, F[k][1], F[k][2])
                    /\ F[k][2] - F[k][1] <= 2^(H - k) /\ F[k][2] <= n}
<1>10. 0 \in T
  <2>1. 0 \in 0..H /\ H - 0 = H BY <1>1
  <2>2. F[0] = <<0, n>> BY <1>8, <2>1
  <2>3. F[0][1] = 0 /\ F[0][2] = n /\ F[0] \in Nat \X Nat /\ n - 0 = n BY <2>2
  <2>4. n <= 2^(H - 0) BY <2>1 DEF H
  <2>5. F[0][2] - F[0][1] = n /\ F[0][2] <= n BY <2>3
  <2>6. QED BY <2>3, <2>4, <2>5
<1>11. ASSUME NEW k \in Nat, k \in T PROVE k + 1 \in T
  <2> DEFINE w == 2^(H - (k + 1))
  <2>1. ASSUME k + 1 <= H
        PROVE  /\ F[k + 1] \in Nat \X Nat /\ Holds(prefix, off, F[k + 1][1], F[k + 1][2])
               /\ F[k + 1][2] - F[k + 1][1] <= w /\ F[k + 1][2] <= n
    <3>1. k + 1 \in 0..H /\ k + 1 # 0 /\ (k + 1) - 1 = k /\ k <= H BY <1>1, <2>1
    <3>2. H - (k + 1) \in Nat /\ (H - (k + 1)) + 1 = H - k BY <1>1, <2>1
    <3>3. 2^(H - k) = 2 * w /\ w \in Nat \ {0}
      <4>1. 2^((H - (k + 1)) + 1) = 2 * 2^(H - (k + 1)) BY <3>2, PowerDoubles
      <4>2. w \in Nat \ {0} BY <3>2, PowerPositive
      <4>3. QED BY <3>2, <4>1, <4>2
    <3>4. /\ F[k] \in Nat \X Nat /\ Holds(prefix, off, F[k][1], F[k][2])
          /\ F[k][2] - F[k][1] <= 2^(H - k) /\ F[k][2] <= n
      BY <1>11, <3>1
    <3>5. F[k + 1] = Halved(prefix, off, F[k]) BY <1>8, <3>1
    <3> HIDE DEF w
    <3>6. F[k][2] - F[k][1] <= 2 * w BY <3>3, <3>4
    <3>7. /\ F[k + 1] \in Nat \X Nat /\ Holds(prefix, off, F[k + 1][1], F[k + 1][2])
          /\ F[k + 1][2] - F[k + 1][1] <= w /\ F[k + 1][2] <= F[k][2]
      BY <3>3, <3>4, <3>5, <3>6, HalvingHolds
    <3>8. F[k + 1][2] \in Nat /\ F[k][2] \in Nat BY <3>4, <3>7
    <3>9. F[k + 1][2] <= n BY <3>4, <3>7, <3>8
    <3>10. QED BY <3>7, <3>9
  <2>2. QED BY <2>1
<1> HIDE DEF T
<1>12. Nat \subseteq T BY <1>10, <1>11, Induct
<1> DEFINE lo == F[H][1]
           hi == F[H][2]
<1>13. /\ F[H] \in Nat \X Nat /\ Holds(prefix, off, lo, hi)
       /\ hi - lo <= 2^(H - H) /\ hi <= n
  BY <1>1, <1>12 DEF T
<1>14. 2^(H - H) = 1
  <2>1. H - H = 0 BY <1>1
  <2>2. 2^0 = 1 OBVIOUS
  <2>3. QED BY <2>1, <2>2
<1>15. lo \in Nat /\ hi \in Nat /\ lo < hi BY <1>13 DEF Holds
<1> HIDE DEF lo, hi
<1>16. hi = lo + 1 /\ lo \in 0..(n - 1) BY <1>13, <1>14, <1>15
<1>17. QED BY <1>9, <1>13, <1>16 DEF lo

LEMMA GatherChunkIsCanonical ==
    ASSUME NEW g \in Seq(Tensor), Len(Gather(g).bases) <= 2^HALVINGS,
           NEW off \in 0..(NumChunks(g) - 1)
    PROVE  GatherChunk(Gather(g), off) = Canonical(g)[off + 1]
<1> DEFINE n == NumChunks(g)
           rows == Table(g)
           m == Len(rows)
           bases == Gather(g).bases
           prefix == Gather(g).prefix
           lo == find_tensor(prefix, m, off)
<1>1. /\ n \in Nat /\ Splits(rows, n)
      /\ \A j \in 1..m : \A x \in Nat : (rows[j][1] <= x /\ x < EndOf(rows, n, j)) =>
            Canonical(g)[x + 1] = rows[j][2] + (x - rows[j][1]) * CHUNK_BYTES
  BY TableSplits
<1>2. off \in Nat /\ off < n /\ n > 0 BY <1>1
<1>3. m \in Nat /\ m > 0 /\ rows \in Seq(Nat \X Nat) /\ rows[1][1] = 0 BY <1>1, <1>2 DEF Splits
<1>4. Gather(g) = GatherOf(rows, n) BY GatherIsTable
<1>5. /\ Len(bases) = m
      /\ \A j \in 1..m : bases[j] = rows[j][2] /\ prefix[j] = rows[j][1]
      /\ prefix[m + 1] = n
  <2> HIDE DEF n, rows
  <2>1. /\ Len(GatherOf(rows, n).bases) = Len(rows)
        /\ \A j \in 1..Len(rows) : /\ GatherOf(rows, n).bases[j] = rows[j][2]
                                   /\ GatherOf(rows, n).prefix[j] = rows[j][1]
        /\ GatherOf(rows, n).prefix[Len(rows) + 1] = n
    BY <1>1, <1>3, GatherParts
  <2>2. QED BY <1>4, <2>1
<1>6. GatherChunk(Gather(g), off) = bases[lo + 1] + (off - prefix[lo + 1]) * CHUNK_BYTES
  BY <1>5 DEF GatherChunk
<1>7. m <= 2^HALVINGS BY <1>5
<1> HIDE DEF n, rows, m, bases, prefix
<1>8. Holds(prefix, off, 0, m)
  <2>1. 0 + 1 = 1 /\ 1 \in 1..m /\ 0 \in Nat /\ 0 < m BY <1>3
  <2>2. prefix[1] <= off BY <1>2, <1>3, <1>5, <2>1
  <2>3. ~(prefix[m + 1] <= off) BY <1>1, <1>2, <1>5
  <2>4. QED BY <1>3, <2>1, <2>2, <2>3 DEF Holds
<1>9. lo \in 0..(m - 1) /\ Holds(prefix, off, lo, lo + 1) BY <1>3, <1>7, <1>8, FindTensor
<1> HIDE DEF lo
<1> DEFINE j == lo + 1
<1>10. j \in 1..m /\ prefix[j] <= off /\ ~(prefix[j + 1] <= off) BY <1>3, <1>9 DEF Holds
<1> HIDE DEF j
<1>11. prefix[j] = rows[j][1] /\ bases[j] = rows[j][2] BY <1>5, <1>10
<1>12. prefix[j + 1] = EndOf(rows, n, j)
  <2>1. CASE j < m
    <3>1. j + 1 \in 1..m BY <1>3, <1>10, <2>1
    <3>2. QED BY <1>5, <2>1, <3>1 DEF EndOf, m
  <2>2. CASE j = m BY <1>3, <1>5, <2>2 DEF EndOf, m
  <2>3. QED BY <1>3, <1>10, <2>1, <2>2
<1>13. EndOf(rows, n, j) \in Nat /\ rows[j][1] \in Nat BY <1>1, <1>10, RowsOrdered DEF m
<1>14. off < EndOf(rows, n, j) BY <1>2, <1>10, <1>12, <1>13
<1>15. Canonical(g)[off + 1] = rows[j][2] + (off - rows[j][1]) * CHUNK_BYTES
  BY <1>1, <1>2, <1>10, <1>11, <1>14
<1>16. GatherChunk(Gather(g), off) = bases[j] + (off - prefix[j]) * CHUNK_BYTES BY <1>6 DEF j
<1>17. QED BY <1>11, <1>15, <1>16

\* A run of values from the one after the first ones.
Slice(c, first, len) == [i \in 1..len |-> c[first + i]]

LEMMA SliceLen ==
    ASSUME NEW c, NEW first, NEW len \in Nat
    PROVE  Len(Slice(c, first, len)) = len
<1> DEFINE V == {c[first + i] : i \in 1..len}
<1>1. Slice(c, first, len) \in [1..len -> V] BY DEF Slice
<1> HIDE DEF V
<1>2. QED BY <1>1, FunctionIsSeq

LEMMA SliceAt ==
    ASSUME NEW c, NEW first, NEW len \in Nat
    PROVE  \A i \in 1..len : Slice(c, first, len)[i] = c[first + i]
BY DEF Slice

LEMMA SliceSeq ==
    ASSUME NEW c, NEW first, NEW len \in Nat, NEW V, \A i \in 1..len : c[first + i] \in V
    PROVE  Slice(c, first, len) \in Seq(V)
<1>1. Slice(c, first, len) \in [1..len -> V] BY DEF Slice
<1>2. QED BY <1>1, FunctionIsSeq

LEMMA SlicesJoin ==
    ASSUME NEW c, NEW first \in Nat, NEW a \in Nat, NEW b \in Nat
    PROVE  Slice(c, first, a) \o Slice(c, first + a, b) = Slice(c, first, a + b)
<1> DEFINE s == Slice(c, first, a)
           t == Slice(c, first + a, b)
           u == Slice(c, first, a + b)
           w == s \o t
           V == {c[first + i] : i \in 1..a} \cup {c[(first + a) + i] : i \in 1..b}
                 \cup {c[first + i] : i \in 1..(a + b)}
<1>0. a + b \in Nat OBVIOUS
<1>1. s \in Seq(V) /\ Len(s) = a /\ \A i \in 1..a : s[i] = c[first + i]
  <2>1. \A i \in 1..a : c[first + i] \in V OBVIOUS
  <2> HIDE DEF V
  <2>2. s \in Seq(V) BY <2>1, SliceSeq
  <2>3. Len(s) = a BY SliceLen
  <2>4. \A i \in 1..a : s[i] = c[first + i] BY SliceAt
  <2>5. QED BY <2>2, <2>3, <2>4
<1>2. t \in Seq(V) /\ Len(t) = b /\ \A i \in 1..b : t[i] = c[(first + a) + i]
  <2>1. \A i \in 1..b : c[(first + a) + i] \in V OBVIOUS
  <2> HIDE DEF V
  <2>2. t \in Seq(V) BY <2>1, SliceSeq
  <2>3. Len(t) = b BY SliceLen
  <2>4. \A i \in 1..b : t[i] = c[(first + a) + i] BY SliceAt
  <2>5. QED BY <2>2, <2>3, <2>4
<1>4. u \in Seq(V) /\ Len(u) = a + b /\ \A i \in 1..(a + b) : u[i] = c[first + i]
  <2>1. \A i \in 1..(a + b) : c[first + i] \in V OBVIOUS
  <2> HIDE DEF V
  <2>2. u \in Seq(V) BY <1>0, <2>1, SliceSeq
  <2>3. Len(u) = a + b BY <1>0, SliceLen
  <2>4. \A i \in 1..(a + b) : u[i] = c[first + i] BY <1>0, SliceAt
  <2>5. QED BY <2>2, <2>3, <2>4
<1> HIDE DEF s, t, u, V
<1>6. /\ w \in Seq(V) /\ Len(w) = a + b
      /\ \A i \in 1..(a + b) : w[i] = IF i <= a THEN s[i] ELSE t[i - a]
  <2>1. w \in Seq(V) /\ Len(w) = a + b BY <1>1, <1>2
  <2>2. ASSUME NEW i \in 1..(a + b) PROVE w[i] = IF i <= a THEN s[i] ELSE t[i - a]
    <3>1. i \in 1..(Len(s) + Len(t)) BY <1>1, <1>2
    <3>2. w[i] = IF i <= Len(s) THEN s[i] ELSE t[i - Len(s)] 
      <4>1. s \in Seq(V) /\ t \in Seq(V) /\ i \in 1..(Len(s) + Len(t)) BY <1>1, <1>2, <3>1
      <4>2. QED BY <4>1
    <3>3. QED BY <1>1, <3>2
  <2>3. QED BY <2>1, <2>2
<1> HIDE DEF w
<1>7. ASSUME NEW i \in 1..(a + b) PROVE w[i] = u[i]
  <2>1. CASE i <= a
    <3>1. i \in 1..a BY <2>1
    <3>2. QED BY <1>1, <1>4, <1>6, <2>1, <3>1
  <2>2. CASE ~(i <= a)
    <3>1. i - a \in 1..b /\ (first + a) + (i - a) = first + i BY <2>2
    <3>2. w[i] = t[i - a] BY <1>6, <2>2
    <3>3. t[i - a] = c[(first + a) + (i - a)] BY <1>2, <3>1
    <3>4. QED BY <1>4, <3>1, <3>2, <3>3
  <2>3. QED BY <2>1, <2>2
<1>8. w = u BY <1>4, <1>6, <1>7, SameSeq
<1>9. QED BY <1>8 DEF w, s, t, u

\* The run as far as a row, of what is asked for.
Upto(rows, n, first, count, j) ==
    IF EndOf(rows, n, j) - first < count THEN EndOf(rows, n, j) - first ELSE count

Span(rows, n, first, count, acc, j) ==
    LET left == count - Len(acc)
        cur == first + Len(acc)
        end == IF j < Len(rows) THEN rows[j + 1][1] ELSE n
        take == IF end - cur < left THEN end - cur ELSE left
    IN  acc \o [i \in 1..take |-> rows[j][2] + (cur - rows[j][1] + i - 1) * CHUNK_BYTES]

\* The chunks of the table are those of the file.
Lists(rows, n, c) ==
    \A j \in 1..Len(rows) : \A off \in Nat : (rows[j][1] <= off /\ off < EndOf(rows, n, j)) =>
        /\ off + 1 \in 1..n
        /\ c[off + 1] = rows[j][2] + (off - rows[j][1]) * CHUNK_BYTES

\* Reading on through row j, where l chunks were read before it.
LEMMA SpanReadsOn ==
    ASSUME NEW n \in Nat, NEW rows, Splits(rows, n), NEW c, Lists(rows, n, c),
           NEW first \in Nat, NEW count \in Nat, first + count <= n,
           NEW j \in 1..Len(rows), NEW l \in Nat, l <= count,
           l < count => rows[j][1] <= first + l,
           first + l <= EndOf(rows, n, j)
    PROVE  Span(rows, n, first, count, Slice(c, first, l), j)
             = Slice(c, first, Upto(rows, n, first, count, j))
<1> DEFINE acc == Slice(c, first, l)
           cur == first + l
           end == EndOf(rows, n, j)
           left == count - l
           take == IF end - cur < left THEN end - cur ELSE left
           r == rows[j][1]
           piece == [i \in 1..take |-> rows[j][2] + (cur - r + i - 1) * CHUNK_BYTES]
<1>1. end \in Nat /\ end <= n /\ r \in Nat BY RowsOrdered
<1>2. Len(acc) = l BY SliceLen
<1>3. Span(rows, n, first, count, acc, j) = acc \o piece BY <1>2 DEF Span, EndOf
<1> HIDE DEF acc, end, r
<1>4. cur \in Nat /\ left \in Nat /\ cur <= end /\ take \in Nat /\ cur + take <= n /\ take <= end - cur
      /\ (l < count => r <= cur) /\ (take > 0 => l < count)
  BY <1>1 DEF end, r
<1>5. l + take = Upto(rows, n, first, count, j) BY <1>1, <1>4 DEF Upto, end
<1>6. ASSUME NEW i \in 1..take
      PROVE  rows[j][2] + (cur - r + i - 1) * CHUNK_BYTES = c[cur + i]
  <2> HIDE DEF cur, take
  <2> DEFINE off == cur + i - 1
  <2>1. off \in Nat /\ r <= off /\ off < end /\ off + 1 = cur + i /\ cur - r + i - 1 = off - r
    BY <1>1, <1>4
  <2>2. c[off + 1] = rows[j][2] + (off - r) * CHUNK_BYTES BY <2>1 DEF Lists, r, end
  <2>3. QED BY <2>1, <2>2, Zenon
<1> HIDE DEF cur, left, take
<1>7. piece = Slice(c, cur, take) BY <1>6 DEF Slice
<1> HIDE DEF piece
<1>8. acc \o piece = Slice(c, first, l + take)
  <2>2. Slice(c, first, l) \o Slice(c, first + l, take) = Slice(c, first, l + take)
    <3>1. take \in Nat BY <1>4
    <3>2. QED BY <3>1, SlicesJoin, Zenon
  <2>3. QED BY <1>7, <2>2 DEF acc, cur
<1>9. QED BY <1>3, <1>5, <1>8 DEF acc

LEMMA ReadRangeIsCanonical ==
    ASSUME NEW g \in Seq(Tensor), NEW first \in 0..(NumChunks(g) - 1),
           NEW count \in 1..(NumChunks(g) - first)
    PROVE  read_chunk_range(Table(g), NumChunks(g), first, count)
             = SubSeq(Canonical(g), first + 1, first + count)
<1> DEFINE n == NumChunks(g)
           rows == Table(g)
           c == Canonical(g)
           V == {c[i] : i \in 1..n}
           from == partition_point(rows, first)
           m == Len(rows)
           last == m - from + 1
           At(k) == IF k = 0 THEN 0 ELSE Upto(rows, n, first, count, from + k - 1)
           W == [k \in 0..last |-> Slice(c, first, At(k))]
           F == CHOOSE out : out = [k \in 0..last |->
                   IF k = 0 THEN << >>
                   ELSE LET left == count - Len(out[k - 1])
                            cur == first + Len(out[k - 1])
                            end == IF from + k - 1 < Len(rows) THEN rows[from + k - 1 + 1][1] ELSE n
                            take == IF end - cur < left THEN end - cur ELSE left
                        IN  out[k - 1] \o [i \in 1..take |-> rows[from + k - 1][2]
                                              + (cur - rows[from + k - 1][1] + i - 1) * CHUNK_BYTES]]
<1>1. n \in Nat /\ Splits(rows, n) /\ Lists(rows, n, c) BY TableSplits DEF Lists
<1>2. c \in [1..n -> V] BY DEF Canonical
<1>3. first \in Nat /\ count \in Nat \ {0} /\ first + count <= n /\ first \in 0..(n - 1) BY <1>1
<1>4. from \in 1..m /\ rows[from][1] <= first /\ first < EndOf(rows, n, from) BY <1>1, <1>3, PartitionPoint
<1>5. m \in Nat BY <1>1 DEF Splits
<1>6. read_chunk_range(rows, n, first, count) = F[last] BY DEF read_chunk_range
<1> HIDE DEF n, rows, c, V, from, m
<1>7. last \in Nat /\ last # 0 BY <1>4, <1>5
<1>8. ASSUME NEW j \in 1..m
      PROVE  /\ EndOf(rows, n, j) \in Nat /\ rows[j][1] \in Nat /\ rows[j][1] < EndOf(rows, n, j)
             /\ j >= from => first <= EndOf(rows, n, j)
  <2>1. EndOf(rows, n, j) \in Nat /\ rows[j][1] \in Nat /\ rows[j][1] < EndOf(rows, n, j)
    BY <1>1, <1>8, RowsOrdered DEF Splits, m
  <2>2. EndOf(rows, n, from) \in Nat BY <1>1, <1>4, RowsOrdered DEF m
  <2>3. from < j => EndOf(rows, n, from) <= rows[j][1] BY <1>1, <1>4, <1>8, RowsOrdered DEF m
  <2>4. CASE j = from BY <1>3, <1>4, <2>1, <2>4
  <2>5. CASE from < j BY <1>3, <1>4, <2>1, <2>2, <2>3, <2>5
  <2>6. QED BY <1>4, <2>1, <2>4, <2>5
<1>9. ASSUME NEW k \in 1..last
      PROVE  W[k] = Span(rows, n, first, count, W[k - 1], from + k - 1)
  <2> DEFINE j == from + k - 1
             l == At(k - 1)
  <2>1. k \in 0..last /\ k - 1 \in 0..last /\ k # 0 /\ j \in 1..m /\ j >= from BY <1>4, <1>5, <1>7
  <2>2. W[k] = Slice(c, first, Upto(rows, n, first, count, j)) /\ W[k - 1] = Slice(c, first, l) BY <2>1
  <2>3. l \in Nat /\ l <= count /\ (l < count => rows[j][1] <= first + l) /\ first + l <= EndOf(rows, n, j)
    <3>1. CASE k = 1
      <4>1. l = 0 /\ j = from BY <1>4, <3>1
      <4>2. rows[from][1] <= first + 0 /\ first + 0 <= EndOf(rows, n, from)
        <5>1. first <= EndOf(rows, n, from) BY <1>4, <1>8, <2>1, <4>1
        <5>2. first + 0 = first BY <1>3
        <5>3. QED BY <1>4, <5>1, <5>2
      <4>3. 0 \in Nat /\ 0 <= count BY <1>3
      <4> HIDE DEF l, j
      <4>4. QED BY <4>1, <4>2, <4>3
    <3>2. CASE k # 1
      <4> DEFINE i == j - 1
      <4>1. i \in 1..m /\ i + 1 = j /\ i < m /\ i >= from /\ k - 1 # 0 /\ from + (k - 1) - 1 = i
        BY <1>4, <1>5, <1>7, <2>1, <3>2
      <4>2. l = Upto(rows, n, first, count, i) BY <4>1
      <4>3. EndOf(rows, n, i) = rows[j][1] BY <4>1 DEF EndOf, m
      <4>4. first <= rows[j][1] /\ rows[j][1] \in Nat /\ EndOf(rows, n, j) \in Nat
            /\ rows[j][1] < EndOf(rows, n, j)
        BY <1>8, <2>1, <4>1, <4>3
      <4>5. l = IF rows[j][1] - first < count THEN rows[j][1] - first ELSE count BY <4>2, <4>3 DEF Upto
      <4> HIDE DEF l, j, i
      <4>6. QED BY <1>3, <4>4, <4>5
    <3>3. QED BY <3>1, <3>2
  <2> HIDE DEF l, j, W
  <2>4. Span(rows, n, first, count, Slice(c, first, l), j) = Slice(c, first, Upto(rows, n, first, count, j))
    <3>1. j \in 1..Len(rows) BY <2>1 DEF m
    <3>2. QED BY <1>1, <1>3, <2>3, <3>1, SpanReadsOn
  <2>5. QED BY <2>2, <2>4 DEF j
<1>10. W[0] = << >>
  <2>1. 0 \in 0..last BY <1>7
  <2>2. W[0] = Slice(c, first, 0) BY <2>1
  <2>3. Slice(c, first, 0) = << >> BY DEF Slice
  <2>4. QED BY <2>2, <2>3
<1>11. W = [k \in 0..last |-> IF k = 0 THEN << >> ELSE Span(rows, n, first, count, W[k - 1], from + k - 1)]
  <2>1. W = [k \in 0..last |-> W[k]] OBVIOUS
  <2>2. \A k \in 0..last : k # 0 => k \in 1..last BY <1>7
  <2> HIDE DEF W
  <2>3. QED BY <1>9, <1>10, <2>1, <2>2
<1>12. F = [k \in 0..last |-> IF k = 0 THEN << >> ELSE Span(rows, n, first, count, F[k - 1], from + k - 1)]
  <2> HIDE DEF W, last
  <2>1. QED BY <1>11 DEF Span
<1>13. W[last] = Slice(c, first, count)
  <2>1. last \in 0..last /\ from + last - 1 = m BY <1>4, <1>5, <1>7
  <2>2. W[last] = Slice(c, first, Upto(rows, n, first, count, m)) BY <1>7, <2>1
  <2>3. EndOf(rows, n, m) = n BY <1>5 DEF EndOf, m
  <2>4. Upto(rows, n, first, count, m) = count BY <1>1, <1>3, <2>3 DEF Upto
  <2>5. QED BY <2>2, <2>4
<1> HIDE DEF F, W, last
<1> DEFINE T == {k \in Nat : k <= last => F[k] = W[k]}
<1>14. 0 \in T
  <2>1. 0 \in 0..last BY <1>7
  <2>2. QED BY <1>10, <1>12, <2>1
<1>15. ASSUME NEW k \in Nat, k \in T PROVE k + 1 \in T
  <2>1. ASSUME k + 1 <= last PROVE F[k + 1] = W[k + 1]
    <3>1. k + 1 \in 0..last /\ k + 1 # 0 /\ k + 1 \in 1..last /\ k <= last /\ (k + 1) - 1 = k
      BY <1>7, <2>1
    <3>2. F[k + 1] = Span(rows, n, first, count, F[k], from + (k + 1) - 1) BY <1>12, <3>1
    <3>3. W[k + 1] = Span(rows, n, first, count, W[k], from + (k + 1) - 1) BY <1>9, <3>1
    <3>4. QED BY <1>15, <3>1, <3>2, <3>3
  <2>2. QED BY <2>1
<1> HIDE DEF T
<1>16. Nat \subseteq T BY <1>14, <1>15, Induct
<1>17. F[last] = Slice(c, first, count) BY <1>7, <1>13, <1>16 DEF T
<1>18. SubSeq(c, first + 1, first + count) = Slice(c, first, count)
  <2> DEFINE s == SubSeq(c, first + 1, first + count)
             t == Slice(c, first, count)
  <2>1. c \in Seq(V) /\ Len(c) = n BY <1>1, <1>2, FunctionIsSeq
  <2>2. t \in Seq(V) /\ Len(t) = count /\ \A i \in 1..count : t[i] = c[first + i]
    <3>1. \A i \in 1..count : c[first + i] \in V BY <1>1, <1>2, <1>3
    <3>2. count \in Nat BY <1>3
    <3>3. t \in Seq(V) BY <3>1, <3>2, SliceSeq
    <3>4. Len(t) = count BY <3>2, SliceLen
    <3>5. \A i \in 1..count : t[i] = c[first + i] BY <3>2, SliceAt
    <3>6. QED BY <3>3, <3>4, <3>5
  <2>3. s \in Seq(V) /\ Len(s) = count /\ \A i \in 1..count : s[i] = c[first + i]
    BY <1>1, <1>3, <2>1
  <2> HIDE DEF s, t
  <2>4. s = t BY <2>2, <2>3, SameSeq
  <2>5. QED BY <2>4 DEF s, t
<1>19. QED BY <1>6, <1>17, <1>18 DEF n, rows, c

(* The readers' theorem.                                                   *)

\* The file stays one of those looked at.
OneOfTheFiles == gguf \in Ggufs

LEMMA TreeIsOfOneFile == FairTreeSpec => []OneOfTheFiles
<1>1. TreeInit => OneOfTheFiles BY DEF TreeInit, OneOfTheFiles
<1>2. OneOfTheFiles /\ [TreeNext]_treeVars => OneOfTheFiles'
  BY DEF OneOfTheFiles, TreeNext, Build, Start, Reuse, Rebuild, HashBatch, Drain, FinishLeaves,
         FoldBatch, FinishLevel, Finish, Crash, treeVars
<1>3. QED BY <1>1, <1>2, PTL DEF FairTreeSpec

\* What the host reads chunk by chunk, what it reads in a run for a batch or for the upload, and
\* what a GPU's kernel fetches through the bases and the prefix it was given is the same chunk
\* of the canonical order, for every file whose tensors the kernel's halvings can tell apart.
THEOREM PomReadersAgree == FairTreeSpec => []ReadersAgree
<1>1. OneOfTheFiles => ReadersAgree
  <2> SUFFICES ASSUME gguf \in Ggufs
               PROVE  /\ Gather(gguf).prefix[Len(Gather(gguf).prefix)] = NumChunks(gguf)
                      /\ \A off \in 0..(NumChunks(gguf) - 1) :
                           /\ read_chunk(Table(gguf), off) = Canonical(gguf)[off + 1]
                           /\ GatherChunk(Gather(gguf), off) = Canonical(gguf)[off + 1]
                           /\ \A count \in 1..(NumChunks(gguf) - off) :
                                 read_chunk_range(Table(gguf), NumChunks(gguf), off, count)
                                   = SubSeq(Canonical(gguf), off + 1, off + count)
    BY DEF OneOfTheFiles, ReadersAgree
  <2>1. gguf \in Seq(Tensor) /\ Len(Gather(gguf).bases) <= 2^HALVINGS BY TreeAssumption
  <2>2. Gather(gguf).prefix[Len(Gather(gguf).prefix)] = NumChunks(gguf)
    <3> DEFINE rows == Table(gguf)
               n == NumChunks(gguf)
    <3>1. Gather(gguf) = GatherOf(rows, n) BY <2>1, GatherIsTable
    <3>2. rows \in Seq(Nat \X Nat) /\ n \in Nat BY <2>1, TableSplits DEF Splits
    <3> HIDE DEF rows, n
    <3>3. Len(GatherOf(rows, n).prefix) = Len(rows) + 1 /\ GatherOf(rows, n).prefix[Len(rows) + 1] = n
      BY <3>2, GatherParts
    <3>4. QED BY <3>1, <3>3 DEF rows, n
  <2>3. ASSUME NEW off \in 0..(NumChunks(gguf) - 1)
        PROVE  /\ read_chunk(Table(gguf), off) = Canonical(gguf)[off + 1]
               /\ GatherChunk(Gather(gguf), off) = Canonical(gguf)[off + 1]
               /\ \A count \in 1..(NumChunks(gguf) - off) :
                     read_chunk_range(Table(gguf), NumChunks(gguf), off, count)
                       = SubSeq(Canonical(gguf), off + 1, off + count)
    <3>1. read_chunk(Table(gguf), off) = Canonical(gguf)[off + 1] BY <2>1, ReadChunkIsCanonical
    <3>2. GatherChunk(Gather(gguf), off) = Canonical(gguf)[off + 1] BY <2>1, GatherChunkIsCanonical
    <3>3. \A count \in 1..(NumChunks(gguf) - off) :
             read_chunk_range(Table(gguf), NumChunks(gguf), off, count)
               = SubSeq(Canonical(gguf), off + 1, off + count)
      BY <2>1, ReadRangeIsCanonical
    <3>4. QED BY <3>1, <3>2, <3>3
  <2>4. QED BY <2>2, <2>3
<1>2. QED BY <1>1, TreeIsOfOneFile, PTL

-----------------------------------------------------------------------------
(* Folding batches.                                                        *)

LEMMA UpAdds ==
    ASSUME NEW s, NEW a \in Nat, NEW b \in Nat
    PROVE  Up(Up(s, a), b) = Up(s, a + b)
<1> DEFINE T == {k \in Nat : Up(Up(s, a), k) = Up(s, a + k)}
<1>1. 0 \in T
  <2>1. a + 0 = a OBVIOUS
  <2>2. QED BY <2>1, UpStep
<1>2. ASSUME NEW k \in Nat, k \in T PROVE k + 1 \in T
  <2>1. a + k \in Nat /\ (a + k) + 1 = a + (k + 1) OBVIOUS
  <2>2. Up(Up(s, a), k + 1) = Halve(Up(Up(s, a), k)) BY UpStep
  <2>3. Up(s, (a + k) + 1) = Halve(Up(s, a + k)) BY <2>1, UpStep
  <2>4. QED BY <1>2, <2>1, <2>2, <2>3
<1> HIDE DEF T
<1>3. Nat \subseteq T BY <1>1, <1>2, Induct
<1>4. QED BY <1>3 DEF T

LEMMA CountAdds ==
    ASSUME NEW n \in Nat, NEW a \in Nat, NEW b \in Nat
    PROVE  count_at_level(count_at_level(n, a), b) = count_at_level(n, a + b)
<1> DEFINE T == {k \in Nat : count_at_level(count_at_level(n, a), k) = count_at_level(n, a + k)}
<1>0. count_at_level(n, a) \in Nat BY CountStep
<1>1. 0 \in T
  <2>1. a + 0 = a OBVIOUS
  <2>2. QED BY <1>0, <2>1, CountStep
<1>2. ASSUME NEW k \in Nat, k \in T PROVE k + 1 \in T
  <2>1. a + k \in Nat /\ (a + k) + 1 = a + (k + 1) OBVIOUS
  <2>2. count_at_level(count_at_level(n, a), k + 1) = CeilHalf(count_at_level(count_at_level(n, a), k))
    BY <1>0, CountStep
  <2>3. count_at_level(n, (a + k) + 1) = CeilHalf(count_at_level(n, a + k)) BY <2>1, CountStep
  <2>4. QED BY <1>2, <2>1, <2>2, <2>3
<1> HIDE DEF T
<1>3. Nat \subseteq T BY <1>1, <1>2, Induct
<1>4. QED BY <1>3 DEF T

\* A level has a node for every batch that has begun.
LEMMA CountCeil ==
    ASSUME NEW m \in Nat, NEW d \in Nat, NEW q \in Nat
    PROVE  q < count_at_level(m, d) <=> q * 2^d < m
<1> DEFINE T == {k \in Nat : \A x \in Nat : x < count_at_level(m, k) <=> x * 2^k < m}
<1>1. 0 \in T
  <2>1. 2^0 = 1 OBVIOUS
  <2>2. \A x \in Nat : x * 1 = x OBVIOUS
  <2>3. QED BY <2>1, <2>2, CountStep
<1>2. ASSUME NEW k \in Nat, k \in T PROVE k + 1 \in T
  <2> DEFINE c == count_at_level(m, k)
             p == 2^k
  <2>1. c \in Nat /\ count_at_level(m, k + 1) = (c + 1) \div 2 BY CountStep DEF CeilHalf
  <2>2. p \in Nat \ {0} /\ 2^(k + 1) = 2 * p BY PowerPositive, PowerDoubles
  <2>3. \A x \in Nat : x < c <=> x * p < m BY <1>2
  <2> HIDE DEF c, p
  <2>4. ASSUME NEW x \in Nat PROVE x < count_at_level(m, k + 1) <=> x * 2^(k + 1) < m
    <3>1. x < count_at_level(m, k + 1) <=> 2 * x < c BY <2>1
    <3>2. 2 * x \in Nat OBVIOUS
    <3>3. 2 * x < c <=> (2 * x) * p < m BY <2>3, <3>2
    <3>4. (2 * x) * p = x * (2 * p) BY <2>2
    <3>5. QED BY <2>2, <3>1, <3>3, <3>4
  <2>5. QED BY <2>4
<1> HIDE DEF T
<1>3. Nat \subseteq T BY <1>1, <1>2, Induct
<1>4. QED BY <1>3 DEF T

\* Batch q of w nodes, the last one cut short.
Part(s, q, w) ==
    [i \in 1..(IF Len(s) - q * w < w THEN Len(s) - q * w ELSE w) |-> s[q * w + i]]

LEMMA PartIsSeq ==
    ASSUME NEW s, Len(s) \in Nat, NEW q \in Nat, NEW w \in Nat, q * w <= Len(s)
    PROVE  /\ IsSeq(Part(s, q, w))
           /\ Len(Part(s, q, w)) = IF Len(s) - q * w < w THEN Len(s) - q * w ELSE w
           /\ \A i \in 1..Len(Part(s, q, w)) : Part(s, q, w)[i] = s[q * w + i]
<1> DEFINE x == q * w
           n == IF Len(s) - x < w THEN Len(s) - x ELSE w
           p == [i \in 1..n |-> s[x + i]]
<1>1. x \in Nat /\ x <= Len(s) OBVIOUS
<1>2. Part(s, q, w) = p BY DEF Part
<1> HIDE DEF x
<1>3. n \in Nat BY <1>1
<1> HIDE DEF n
<1>4. p = [i \in 1..n |-> p[i]] /\ \A i \in 1..n : p[i] = s[x + i] OBVIOUS
<1> HIDE DEF p
<1>5. Len(p) = n /\ IsSeq(p) BY <1>3, <1>4, SeqLen DEF IsSeq
<1>6. QED BY <1>2, <1>4, <1>5 DEF n, x

\* A batch is halved where it is.
LEMMA HalvePart ==
    ASSUME NEW s, Len(s) \in Nat, NEW q \in Nat, NEW w \in Nat, q * (2 * w) <= Len(s)
    PROVE  Halve(Part(s, q, 2 * w)) = Part(Halve(s), q, w) /\ q * w <= Len(Halve(s))
<1> DEFINE n == Len(s)
           x == q * w
           b == Part(s, q, 2 * w)
           l == Len(b)
           h == Len(Halve(s))
           k == IF h - x < w THEN h - x ELSE w
<1>1. x \in Nat /\ q * (2 * w) = 2 * x OBVIOUS
<1>2. 2 * w \in Nat /\ 2 * x <= n BY <1>1
<1>3. /\ l = IF n - 2 * x < 2 * w THEN n - 2 * x ELSE 2 * w
      /\ \A i \in 1..l : b[i] = s[2 * x + i]
  <2>1. /\ l = IF n - q * (2 * w) < 2 * w THEN n - q * (2 * w) ELSE 2 * w
        /\ \A i \in 1..l : b[i] = s[q * (2 * w) + i]
    BY <1>2, PartIsSeq
  <2> HIDE DEF n, x, b, l
  <2>2. QED BY <1>1, <2>1
<1>4. h = CeilHalf(n) BY HalveIsSeq
<1>5. Part(Halve(s), q, w) = [i \in 1..k |-> Halve(s)[x + i]] BY DEF Part
<1>6. Halve(b) = [i \in 1..CeilHalf(l) |-> hash_pair(b[2 * i - 1], IF 2 * i <= l THEN b[2 * i] ELSE b[2 * i - 1])]
  BY DEF Halve
<1>7. Halve(s) = [i \in 1..CeilHalf(n) |-> hash_pair(s[2 * i - 1], IF 2 * i <= n THEN s[2 * i] ELSE s[2 * i - 1])]
  BY DEF Halve
<1> HIDE DEF n, x, b, l, h
<1>8. n \in Nat /\ l \in Nat BY <1>1, <1>2, <1>3 DEF n
<1>9. x <= h /\ CeilHalf(l) = k BY <1>1, <1>2, <1>3, <1>4, <1>8 DEF CeilHalf
<1>10. ASSUME NEW i \in 1..k
       PROVE  hash_pair(b[2 * i - 1], IF 2 * i <= l THEN b[2 * i] ELSE b[2 * i - 1]) = Halve(s)[x + i]
  <2>1. /\ x + i \in 1..CeilHalf(n) /\ 2 * i - 1 \in 1..l /\ 2 * i \in Nat
        /\ 2 * (x + i) = 2 * x + 2 * i /\ 2 * (x + i) - 1 = 2 * x + (2 * i - 1)
        /\ 2 * i <= l <=> 2 * (x + i) <= n
        /\ 2 * i <= l => 2 * i \in 1..l
    BY <1>1, <1>2, <1>3, <1>4, <1>8 DEF CeilHalf
  <2>2. Halve(s)[x + i] = hash_pair(s[2 * (x + i) - 1], IF 2 * (x + i) <= n THEN s[2 * (x + i)] ELSE s[2 * (x + i) - 1])
    BY <1>7, <2>1
  <2>3. b[2 * i - 1] = s[2 * (x + i) - 1] /\ (2 * i <= l => b[2 * i] = s[2 * (x + i)])
    BY <1>3, <2>1
  <2>4. QED BY <2>1, <2>2, <2>3
<1> HIDE DEF k
<1>11. QED BY <1>5, <1>6, <1>9, <1>10 DEF b, x, h

\* A batch that is folded by so many levels lands on the node of the whole tree: this is
\* what a lone node's hash with itself is for (fold_levels).
LEMMA FoldLands ==
    ASSUME NEW s, IsSeq(s), NEW q \in Nat, NEW r \in Nat, q * 2^r < Len(s)
    PROVE  fold_levels(Part(s, q, 2^r), r) = Up(s, r)[q + 1]
<1> DEFINE b == Part(s, q, 2^r)
           T == {t \in Nat : t <= r => /\ Up(b, t) = Part(Up(s, t), q, 2^(r - t))
                                       /\ q * 2^(r - t) <= Len(Up(s, t))}
<1>1. 0 \in T
  <2>1. r - 0 = r OBVIOUS
  <2>2. 2^r \in Nat /\ Len(s) \in Nat BY PowerPositive, SeqLen DEF IsSeq
  <2>3. q * 2^r <= Len(s) BY <2>2
  <2>4. QED BY <2>1, <2>3, UpStep
<1>2. ASSUME NEW t \in Nat, t \in T PROVE t + 1 \in T
  <2> SUFFICES ASSUME t + 1 <= r
               PROVE  /\ Up(b, t + 1) = Part(Up(s, t + 1), q, 2^(r - (t + 1)))
                      /\ q * 2^(r - (t + 1)) <= Len(Up(s, t + 1))
    OBVIOUS
  <2> DEFINE w == 2^(r - (t + 1))
  <2>1. r - (t + 1) \in Nat /\ (r - (t + 1)) + 1 = r - t OBVIOUS
  <2>2. w \in Nat /\ 2^(r - t) = 2 * w BY <2>1, PowerPositive, PowerDoubles
  <2>3. Up(b, t + 1) = Halve(Up(b, t)) /\ Up(s, t + 1) = Halve(Up(s, t)) BY UpStep
  <2>4. Len(Up(s, t)) \in Nat BY LevelIsSeq, SeqLen DEF IsSeq
  <2>5. Up(b, t) = Part(Up(s, t), q, 2 * w) /\ q * (2 * w) <= Len(Up(s, t)) BY <1>2, <2>2
  <2> HIDE DEF b, w
  <2>6. Halve(Part(Up(s, t), q, 2 * w)) = Part(Halve(Up(s, t)), q, w) /\ q * w <= Len(Halve(Up(s, t)))
    BY <2>2, <2>4, <2>5, HalvePart
  <2>7. QED BY <2>3, <2>5, <2>6 DEF w
<1> HIDE DEF T
<1>3. Nat \subseteq T BY <1>1, <1>2, Induct
<1> DEFINE w == 2^0
<1>w. w = 1 /\ w \in Nat OBVIOUS
<1> HIDE DEF w
<1>4. Up(b, r) = Part(Up(s, r), q, w)
  <2>1. r - r = 0 OBVIOUS
  <2>2. Up(b, r) = Part(Up(s, r), q, 2^(r - r))
    <3>1. r \in T /\ r <= r BY <1>3
    <3>2. QED BY <3>1, Zenon DEF T
  <2>3. QED BY <2>1, <2>2, Zenon DEF w
<1>5. q < Len(Up(s, r)) /\ Len(Up(s, r)) \in Nat
  <2>1. Len(s) \in Nat BY SeqLen DEF IsSeq
  <2>2. q < count_at_level(Len(s), r) BY <2>1, CountCeil
  <2>3. QED BY <2>1, <2>2, LevelIsSeq, CountStep
<1>6. Part(Up(s, r), q, w)[1] = Up(s, r)[q + 1]
  <2> DEFINE u == Up(s, r)
             p == Part(u, q, w)
  <2>1. q * w = q /\ q * w <= Len(u) BY <1>w, <1>5
  <2>2. /\ Len(p) = IF Len(u) - q * w < w THEN Len(u) - q * w ELSE w
        /\ \A i \in 1..Len(p) : p[i] = u[q * w + i]
    <3>1. w \in Nat /\ Len(u) \in Nat /\ q * w <= Len(u) BY <1>w, <1>5, <2>1
    <3> HIDE DEF u
    <3>2. QED BY <3>1, PartIsSeq
  <2> HIDE DEF u, p
  <2>3. Len(p) = 1 BY <1>w, <1>5, <2>1, <2>2 DEF u
  <2>4. p[1] = u[q * w + 1]
    <3>1. 1 \in 1..Len(p) BY <2>3
    <3>2. QED BY <2>2, <3>1
  <2>5. QED BY <2>1, <2>4 DEF p, u
<1>7. QED BY <1>4, <1>6 DEF fold_levels

-----------------------------------------------------------------------------
(* The stored levels.                                                      *)

\* A tree of more than 2^k leaves has its root above level k.
LEMMA RootIsHigh ==
    ASSUME NEW n \in Nat \ {0}, NEW k \in Nat, 2^k < n
    PROVE  RootLevel(n) \in Nat /\ k < RootLevel(n) /\ count_at_level(n, RootLevel(n)) = 1
<1> DEFINE r == RootLevel(n)
<1>1. r \in Nat /\ count_at_level(n, r) = 1 BY RootLevelExists
<1> HIDE DEF r
<1>2. ASSUME r <= k PROVE FALSE
  <2> DEFINE d == k - r
  <2>1. d \in Nat /\ r + d = k BY <1>1, <1>2
  <2> HIDE DEF d
  <2>2. count_at_level(1, d) = count_at_level(n, k)
    <3>1. count_at_level(count_at_level(n, r), d) = count_at_level(n, r + d)
      <4>1. n \in Nat OBVIOUS
      <4>2. QED BY <1>1, <2>1, <4>1, CountAdds
    <3>2. QED BY <1>1, <2>1, <3>1 DEF r
  <2>3. 1 < count_at_level(n, k) <=> 1 * 2^k < n
    <3>1. 1 \in Nat OBVIOUS
    <3>2. QED BY <3>1, CountCeil
  <2>4. 1 < count_at_level(1, d) <=> 1 * 2^d < 1
    <3>1. 1 \in Nat OBVIOUS
    <3>2. QED BY <2>1, <3>1, CountCeil
  <2>5. 2^d \in Nat \ {0} /\ 2^k \in Nat BY <2>1, PowerPositive
  <2>6. 1 * 2^k = 2^k /\ 1 * 2^d = 2^d BY <2>5
  <2>7. QED BY <2>2, <2>3, <2>4, <2>5, <2>6
<1>3. QED BY <1>1, <1>2 DEF r

\* Between the leaves and the root, the levels that are stored are the multiples of the interval.
LEMMA StoredLevels ==
    ASSUME NEW n \in Nat \ {0}, CHECKPOINT_INTERVAL <= RootLevel(n)
    PROVE  /\ RootLevel(n) \in Nat
           /\ Stored(n, RootLevel(n)) /\ Stored(n, CHECKPOINT_INTERVAL)
           /\ \A lv \in 0..RootLevel(n) : Stored(n, lv) => CHECKPOINT_INTERVAL <= lv
           /\ \A lv \in 0..(RootLevel(n) - 1) : Stored(n, lv) => lv > 0 /\ lv % CHECKPOINT_INTERVAL = 0
<1> DEFINE K == CHECKPOINT_INTERVAL
           r == RootLevel(n)
<1>1. K \in Nat \ {0} BY TreeAssumption
<1>2. r \in Nat /\ count_at_level(n, r) = 1 /\ \A k \in 0..(r - 1) : count_at_level(n, k) > 1
  BY RootLevelExists
<1>3. \A lv \in 0..(r - 1) : count_at_level(n, lv) # 1 BY <1>2
<1>4. Stored(n, r) BY <1>2 DEF Stored
<1>5. K % K = 0
  <2>1. K \div K = 1
    <3>1. K \in Nat /\ 1 \in Nat /\ 1 * K <= K /\ K < 1 * K + K BY <1>1
    <3>2. QED BY <1>1, <3>1, Quotient
  <2>2. K % K = K - (K \div K) * K BY <1>1, DivFacts
  <2>3. QED BY <1>1, <2>1, <2>2
<1>6. Stored(n, K) BY <1>1, <1>5 DEF Stored
<1>7. ASSUME NEW lv \in 1..(K - 1) PROVE lv % K # 0
  <2>1. lv \div K = 0
    <3>1. lv \in Nat /\ 0 \in Nat /\ 0 * K <= lv /\ lv < 0 * K + K BY <1>1
    <3>2. QED BY <1>1, <3>1, Quotient
  <2>2. lv % K = lv - (lv \div K) * K
    <3>1. lv \in Nat BY <1>1
    <3>2. QED BY <1>1, <3>1, DivFacts
  <2>3. QED BY <1>1, <2>1, <2>2
<1>8. ASSUME NEW lv \in 0..r, Stored(n, lv), lv < K PROVE FALSE
  <2>1. lv \in 0..(r - 1) BY <1>1, <1>2, <1>8
  <2>2. lv > 0 /\ lv % K = 0 BY <1>3, <1>8, <2>1 DEF Stored
  <2>3. lv \in 1..(K - 1) BY <1>1, <1>8, <2>2
  <2>4. QED BY <1>7, <2>2, <2>3
<1>9. \A lv \in 0..(r - 1) : Stored(n, lv) => lv > 0 /\ lv % K = 0 BY <1>3 DEF Stored
<1>10. \A lv \in 0..r : Stored(n, lv) => K <= lv BY <1>1, <1>2, <1>8
<1>11. QED BY <1>2, <1>4, <1>6, <1>9, <1>10

Checkpoint == [level : Nat, count : Nat, offset : Nat]

LEMMA CheckpointParts ==
    ASSUME NEW cps \in Seq(Checkpoint), NEW j \in 1..Len(cps)
    PROVE  cps[j].level \in Nat /\ cps[j].count \in Nat /\ cps[j].offset \in Nat
<1>1. cps[j] \in Checkpoint OBVIOUS
<1>2. QED BY <1>1 DEF Checkpoint

\* One turn of compute_checkpoint_offsets' loop.
Turn(n, k, x) ==
    IF Stored(n, k)
    THEN [cps |-> Append(x.cps, [level |-> k, count |-> count_at_level(n, k), offset |-> x.off]),
          off |-> x.off + count_at_level(n, k)]
    ELSE x

\* What its variables say before level k.
Listed(n, k, cps, off) ==
    /\ cps \in Seq(Checkpoint) /\ off \in Nat
    /\ \A j \in 1..Len(cps) :
          /\ cps[j].level < k /\ Stored(n, cps[j].level)
          /\ cps[j].count = count_at_level(n, cps[j].level)
          /\ cps[j].offset + cps[j].count <= off
          /\ j = 1 => cps[j].level = CHECKPOINT_INTERVAL /\ cps[j].offset = 0
          /\ j > 1 => cps[j].offset = cps[j - 1].offset + cps[j - 1].count
          /\ \A i \in 1..(j - 1) : /\ cps[i].level < cps[j].level
                                   /\ cps[i].offset + cps[i].count <= cps[j].offset
    /\ \A lv \in 0..(k - 1) : Stored(n, lv) => \E j \in 1..Len(cps) : cps[j].level = lv
    /\ off = IF Len(cps) = 0 THEN 0 ELSE cps[Len(cps)].offset + cps[Len(cps)].count

LEMMA TurnLists ==
    ASSUME NEW n \in Nat \ {0}, CHECKPOINT_INTERVAL <= RootLevel(n), NEW k \in 0..RootLevel(n),
           NEW x, Listed(n, k, x.cps, x.off)
    PROVE  Listed(n, k + 1, Turn(n, k, x).cps, Turn(n, k, x).off)
<1> DEFINE K == CHECKPOINT_INTERVAL
           cps == x.cps
           off == x.off
           c == count_at_level(n, k)
           new == [level |-> k, count |-> c, offset |-> off]
           m == Len(cps)
<1>1. RootLevel(n) \in Nat /\ K \in Nat \ {0} /\ (\A lv \in 0..RootLevel(n) : Stored(n, lv) => K <= lv)
      /\ Stored(n, K)
  BY TreeAssumption, StoredLevels
<1>2. k \in Nat BY <1>1
<1>3. c \in Nat BY <1>2, CountStep
<1>4. cps \in Seq(Checkpoint) /\ off \in Nat /\ m \in Nat BY DEF Listed
<1>5. CASE ~Stored(n, k)
  <2>1. Turn(n, k, x) = x BY <1>5 DEF Turn
  <2>2. \A lv \in 0..((k + 1) - 1) : Stored(n, lv) => lv \in 0..(k - 1) BY <1>2, <1>5
  <2>3. \A j \in 1..m : cps[j].level < k + 1
    <3>1. \A j \in 1..m : cps[j].level \in Nat /\ cps[j].level < k BY <1>4, CheckpointParts DEF Listed
    <3>2. QED BY <1>2, <3>1
  <2> HIDE DEF cps, off, m
  <2>4. Listed(n, k, cps, off) BY DEF cps, off
  <2>5. Listed(n, k + 1, cps, off) BY <2>2, <2>3, <2>4 DEF Listed, m
  <2>6. QED BY <2>1, <2>5 DEF cps, off
<1>6. CASE Stored(n, k)
  <2> DEFINE all == Append(cps, new)
             end == off + c
  <2>1. Turn(n, k, x).cps = all /\ Turn(n, k, x).off = end BY <1>6 DEF Turn
  <2>2. new \in Checkpoint /\ new.level = k /\ new.count = c /\ new.offset = off
    BY <1>2, <1>3, <1>4 DEF Checkpoint
  <2>3. Listed(n, k, cps, off) OBVIOUS
  <2> HIDE DEF new, cps, off, c
  <2>4. all \in Seq(Checkpoint) /\ Len(all) = m + 1 /\ all[m + 1] = new
        /\ \A j \in 1..m : all[j] = cps[j]
    BY <1>4, <2>2
  <2> HIDE DEF all, m
  <2>5. \A j \in 1..m : cps[j].level \in Nat /\ cps[j].count \in Nat /\ cps[j].offset \in Nat
    BY <1>4, CheckpointParts DEF m
  <2>6. ASSUME m = 0 PROVE k = K /\ off = 0
    <3>1. K <= k BY <1>1, <1>6
    <3>2. ~(K \in 0..(k - 1))
      <4>1. ~\E j \in 1..Len(cps) : cps[j].level = K BY <2>6 DEF m
      <4>2. QED BY <1>1, <2>3, <4>1 DEF Listed
    <3>3. k = K BY <1>1, <1>2, <3>1, <3>2
    <3>4. QED BY <2>3, <2>6, <3>3 DEF Listed, m
  <2>7. ASSUME m # 0 PROVE off = cps[m].offset + cps[m].count BY <2>3, <2>7 DEF Listed, m
  <2>8. ASSUME NEW j \in 1..(m + 1)
        PROVE  /\ all[j].level < k + 1 /\ Stored(n, all[j].level)
               /\ all[j].count = count_at_level(n, all[j].level)
               /\ all[j].offset + all[j].count <= end
               /\ j = 1 => all[j].level = K /\ all[j].offset = 0
               /\ j > 1 => all[j].offset = all[j - 1].offset + all[j - 1].count
               /\ \A i \in 1..(j - 1) : /\ all[i].level < all[j].level
                                        /\ all[i].offset + all[i].count <= all[j].offset
    <3>1. CASE j \in 1..m
      <4>1. all[j] = cps[j] /\ \A i \in 1..(j - 1) : i \in 1..m /\ all[i] = cps[i] BY <1>4, <2>4, <3>1
      <4>2. /\ cps[j].level < k /\ Stored(n, cps[j].level)
            /\ cps[j].count = count_at_level(n, cps[j].level)
            /\ cps[j].offset + cps[j].count <= off
            /\ j = 1 => cps[j].level = K /\ cps[j].offset = 0
            /\ j > 1 => cps[j].offset = cps[j - 1].offset + cps[j - 1].count
            /\ \A i \in 1..(j - 1) : /\ cps[i].level < cps[j].level
                                     /\ cps[i].offset + cps[i].count <= cps[j].offset
        BY <2>3, <3>1 DEF Listed, m
      <4>3. j > 1 => j - 1 \in 1..(j - 1) BY <3>1
      <4>4. all[j].level < k + 1 BY <1>2, <2>5, <3>1, <4>1, <4>2
      <4>5. all[j].offset + all[j].count <= end BY <1>3, <1>4, <2>5, <3>1, <4>1, <4>2
      <4>6. QED BY <4>1, <4>2, <4>3, <4>4, <4>5
    <3>2. CASE j = m + 1
      <4>1. all[j] = new /\ \A i \in 1..(j - 1) : i \in 1..m /\ all[i] = cps[i] BY <1>4, <2>4, <3>2 DEF m
      <4>2. \A i \in 1..m : cps[i].level < k /\ cps[i].offset + cps[i].count <= off BY <2>3 DEF Listed, m
      <4>3. j > 1 => all[j].offset = all[j - 1].offset + all[j - 1].count
        <5>1. ASSUME j > 1 PROVE j - 1 = m /\ m # 0 /\ m \in 1..m BY <1>4, <3>2, <5>1
        <5>2. QED BY <2>2, <2>4, <2>7, <4>1, <5>1
      <4>4. j = 1 => all[j].level = K /\ all[j].offset = 0
        <5>1. j = 1 => m = 0 BY <1>4, <3>2
        <5>2. QED BY <2>2, <2>6, <4>1, <5>1
      <4>5. all[j].level < k + 1 /\ all[j].offset + all[j].count <= end BY <1>2, <1>3, <1>4, <2>2, <4>1
      <4>6. Stored(n, all[j].level) /\ all[j].count = count_at_level(n, all[j].level)
        BY <1>6, <2>2, <4>1 DEF c
      <4>7. \A i \in 1..(j - 1) : /\ all[i].level < all[j].level
                                  /\ all[i].offset + all[i].count <= all[j].offset
        BY <2>2, <4>1, <4>2
      <4>8. QED BY <4>3, <4>4, <4>5, <4>6, <4>7
    <3>3. QED BY <1>4, <3>1, <3>2
  <2>9. ASSUME NEW lv \in 0..((k + 1) - 1), Stored(n, lv) PROVE \E j \in 1..(m + 1) : all[j].level = lv
    <3>1. CASE lv = k
      <4>1. m + 1 \in 1..(m + 1) BY <1>4
      <4>2. QED BY <2>2, <2>4, <3>1, <4>1
    <3>2. CASE lv # k
      <4>1. lv \in 0..(k - 1) BY <1>2, <3>2
      <4>2. PICK j \in 1..m : cps[j].level = lv BY <2>3, <2>9, <4>1 DEF Listed, m
      <4>3. j \in 1..(m + 1) BY <1>4
      <4>4. QED BY <2>4, <4>2, <4>3
    <3>3. QED BY <3>1, <3>2
  <2>10. end \in Nat /\ end = IF Len(all) = 0 THEN 0 ELSE all[Len(all)].offset + all[Len(all)].count
    BY <1>3, <1>4, <2>2, <2>4
  <2> HIDE DEF end
  <2>11. Listed(n, k + 1, all, end) BY <2>4, <2>8, <2>9, <2>10 DEF Listed
  <2>12. QED BY <2>1, <2>11
<1>7. QED BY <1>5, <1>6

\* The loop's turns, from the leaves to the root.
CheckpointRun(n, F) ==
    /\ compute_checkpoint_offsets(n) = F[RootLevel(n) + 1].cps
    /\ F[0] = [cps |-> << >>, off |-> 0]
    /\ \A k \in 1..(RootLevel(n) + 1) : F[k] = Turn(n, k - 1, F[k - 1])

LEMMA CheckpointRuns == ASSUME NEW n \in Nat \ {0} PROVE \E F : CheckpointRun(n, F)
<1> DEFINE R == RootLevel(n)
           V == [cps : Seq(Checkpoint), off : Nat]
           step == [k \in Nat |-> [x \in V |-> Turn(n, k, x)]]
           none == [cps |-> << >>, off |-> 0]
           Body(f, k) == IF Stored(n, k - 1)
                         THEN [cps |-> Append(f[k - 1].cps, [level |-> k - 1, count |-> count_at_level(n, k - 1),
                                                            offset |-> f[k - 1].off]),
                               off |-> f[k - 1].off + count_at_level(n, k - 1)]
                         ELSE f[k - 1]
           F == CHOOSE loop : loop = [k \in 0..(R + 1) |-> IF k = 0 THEN none ELSE Body(loop, k)]
<1>1. R \in Nat BY RootLevelExists
<1>2. ASSUME NEW k \in Nat, NEW x \in V PROVE Turn(n, k, x) \in V
  <2> DEFINE c == count_at_level(n, k)
             new == [level |-> k, count |-> c, offset |-> x.off]
  <2>1. c \in Nat /\ x.cps \in Seq(Checkpoint) /\ x.off \in Nat BY CountStep
  <2>2. new \in Checkpoint BY <2>1 DEF Checkpoint
  <2> HIDE DEF c, new
  <2>3. Append(x.cps, new) \in Seq(Checkpoint) /\ x.off + c \in Nat BY <2>1, <2>2
  <2>4. Turn(n, k, x) = IF Stored(n, k) THEN [cps |-> Append(x.cps, new), off |-> x.off + c] ELSE x
    BY DEF Turn, c, new
  <2>5. QED BY <1>2, <2>3, <2>4
<1>3. none \in V OBVIOUS
<1> HIDE DEF V
<1>4. step \in [Nat -> [V -> V]] BY <1>2
<1>5. \A k \in Nat, x \in V : step[k][x] = Turn(n, k, x) OBVIOUS
<1> HIDE DEF none, step, R
<1>6. PICK f : RunsTo(V, none, step, R + 1, f)
  <2>1. R + 1 \in Nat BY <1>1
  <2>2. QED BY <1>3, <1>4, <2>1, RunTo
<1>7. ASSUME NEW k \in 1..(R + 1) PROVE f[k] = Turn(n, k - 1, f[k - 1])
  <2>1. k - 1 \in Nat /\ k - 1 \in 0..(R + 1) BY <1>1
  <2>2. f[k] = step[k - 1][f[k - 1]] /\ f[k - 1] \in V BY <1>6, <2>1 DEF RunsTo
  <2>3. QED BY <1>5, <2>1, <2>2
<1>8. \A h, k : Body(h, k) = Turn(n, k - 1, h[k - 1]) BY DEF Turn
<1> HIDE DEF Body
<1>9. f = [k \in 0..(R + 1) |-> IF k = 0 THEN none ELSE Body(f, k)]
  <2>1. f = [k \in 0..(R + 1) |-> f[k]] /\ f[0] = none BY <1>6 DEF RunsTo
  <2>2. \A k \in 0..(R + 1) : k # 0 => k \in 1..(R + 1) BY <1>1
  <2>3. QED BY <1>7, <1>8, <2>1, <2>2
<1>10. F = [k \in 0..(R + 1) |-> IF k = 0 THEN none ELSE Body(F, k)] BY <1>9
<1>11. compute_checkpoint_offsets(n) = F[R + 1].cps BY DEF compute_checkpoint_offsets, R, none, Body
<1> HIDE DEF F
<1>12. F[0] = none
  <2>1. 0 \in 0..(R + 1) BY <1>1
  <2>2. QED BY <1>10, <2>1
<1>13. ASSUME NEW k \in 1..(R + 1) PROVE F[k] = Turn(n, k - 1, F[k - 1])
  <2>1. k \in 0..(R + 1) /\ k # 0 BY <1>1
  <2>2. QED BY <1>8, <1>10, <2>1
<1>14. CheckpointRun(n, F) BY <1>11, <1>12, <1>13 DEF CheckpointRun, none, R
<1>15. QED BY <1>14

LEMMA RunLists ==
    ASSUME NEW n \in Nat \ {0}, CHECKPOINT_INTERVAL <= RootLevel(n), NEW F, CheckpointRun(n, F),
           NEW k \in 0..(RootLevel(n) + 1)
    PROVE  Listed(n, k, F[k].cps, F[k].off)
<1> DEFINE R == RootLevel(n)
           T == {i \in Nat : i <= R + 1 => Listed(n, i, F[i].cps, F[i].off)}
<1>1. R \in Nat BY RootLevelExists
<1>2. 0 \in T
  <2>1. F[0].cps = << >> /\ F[0].off = 0 BY DEF CheckpointRun
  <2>2. Len(<< >>) = 0 /\ << >> \in Seq(Checkpoint) /\ 1..0 = {} /\ 0..(0 - 1) = {} OBVIOUS
  <2>3. Listed(n, 0, << >>, 0) BY <2>2 DEF Listed
  <2>4. QED BY <2>1, <2>3
<1>3. ASSUME NEW i \in Nat, i \in T PROVE i + 1 \in T
  <2> SUFFICES ASSUME i + 1 <= R + 1 PROVE Listed(n, i + 1, F[i + 1].cps, F[i + 1].off) OBVIOUS
  <2>1. i <= R + 1 /\ i \in 0..R /\ i + 1 \in 1..(R + 1) /\ (i + 1) - 1 = i BY <1>1
  <2>2. F[i + 1] = Turn(n, i, F[i]) BY <2>1 DEF CheckpointRun
  <2>3. Listed(n, i, F[i].cps, F[i].off) BY <1>3, <2>1
  <2> HIDE DEF T
  <2>4. Listed(n, i + 1, Turn(n, i, F[i]).cps, Turn(n, i, F[i]).off) BY <2>1, <2>3, TurnLists
  <2>5. QED BY <2>2, <2>4
<1> HIDE DEF T
<1>4. Nat \subseteq T BY <1>2, <1>3, Induct
<1>5. k \in Nat /\ k <= R + 1 BY <1>1
<1>6. QED BY <1>4, <1>5 DEF T

\* What the offsets of a tree are, once they are computed.
Layout(n, cps) ==
    /\ cps = compute_checkpoint_offsets(n)
    /\ Listed(n, RootLevel(n) + 1, cps, FileSize(n))
    /\ Len(cps) \in Nat \ {0}
    /\ cps[Len(cps)].level = RootLevel(n) /\ cps[Len(cps)].count = 1
    /\ FileSize(n) = cps[Len(cps)].offset + 1

\* More chunks than the batches below the first stored level can fold into one.
Large(n) == n \in Nat \ {0} /\ 2^(CHECKPOINT_INTERVAL - 1) < n

LEMMA LargeIsHigh ==
    ASSUME NEW n, Large(n)
    PROVE  n \in Nat \ {0} /\ RootLevel(n) \in Nat /\ CHECKPOINT_INTERVAL <= RootLevel(n)
           /\ count_at_level(n, RootLevel(n)) = 1
<1>1. CHECKPOINT_INTERVAL \in Nat \ {0} BY TreeAssumption
<1> DEFINE k == CHECKPOINT_INTERVAL - 1
<1>2. k \in Nat /\ CHECKPOINT_INTERVAL = k + 1 BY <1>1
<1>3. n \in Nat \ {0} /\ 2^k < n BY DEF Large
<1> HIDE DEF k
<1>4. RootLevel(n) \in Nat /\ k < RootLevel(n) /\ count_at_level(n, RootLevel(n)) = 1 BY <1>2, <1>3, RootIsHigh
<1>5. QED BY <1>2, <1>3, <1>4

LEMMA ListEnds ==
    ASSUME NEW n, Large(n), NEW cps, NEW off, cps = compute_checkpoint_offsets(n),
           Listed(n, RootLevel(n) + 1, cps, off)
    PROVE  Layout(n, cps) /\ off = FileSize(n)
<1> DEFINE R == RootLevel(n)
           m == Len(cps)
<1>1. R \in Nat /\ Stored(n, R) /\ count_at_level(n, R) = 1 BY LargeIsHigh, StoredLevels
<1>2. cps \in Seq(Checkpoint) /\ m \in Nat BY DEF Listed
<1>3. \A j \in 1..m : cps[j].level \in Nat /\ cps[j].offset \in Nat BY <1>2, CheckpointParts
<1>4. PICK j \in 1..m : cps[j].level = R
  <2>1. R \in 0..((R + 1) - 1) BY <1>1
  <2>2. QED BY <1>1, <2>1 DEF Listed
<1>5. m # 0 /\ m \in 1..m BY <1>2, <1>4
<1>6. j = m
  <2>1. cps[m].level < R + 1 BY <1>5 DEF Listed
  <2>2. j < m => cps[j].level < cps[m].level
    <3>1. j < m => j \in 1..(m - 1) BY <1>2, <1>4
    <3>2. QED BY <1>5, <3>1 DEF Listed
  <2>3. QED BY <1>1, <1>2, <1>3, <1>4, <1>5, <2>1, <2>2
<1>7. cps[m].count = 1 BY <1>1, <1>4, <1>5, <1>6 DEF Listed
<1>8. off = cps[m].offset + cps[m].count BY <1>5 DEF Listed
<1>9. FileSize(n) = cps[m].offset + 1 BY DEF FileSize
<1>10. off = FileSize(n) BY <1>7, <1>8, <1>9
<1>11. Listed(n, R + 1, cps, FileSize(n)) BY <1>10
<1>12. QED BY <1>2, <1>4, <1>5, <1>6, <1>7, <1>9, <1>10, <1>11 DEF Layout

LEMMA LaidOut == ASSUME NEW n, Large(n) PROVE Layout(n, compute_checkpoint_offsets(n))
<1> DEFINE k == RootLevel(n) + 1
<1>1. n \in Nat \ {0} /\ CHECKPOINT_INTERVAL <= RootLevel(n) /\ k \in 0..(RootLevel(n) + 1) BY LargeIsHigh
<1>2. PICK F : CheckpointRun(n, F) BY <1>1, CheckpointRuns
<1>3. compute_checkpoint_offsets(n) = F[k].cps BY <1>2 DEF CheckpointRun
<1>4. Listed(n, k, F[k].cps, F[k].off) BY <1>1, <1>2, RunLists
<1>5. Listed(n, k, compute_checkpoint_offsets(n), F[k].off) BY <1>3, <1>4
<1>6. QED BY <1>5, ListEnds

\* The same, one checkpoint at a time.
LEMMA LayoutAt ==
    ASSUME NEW n, Large(n), NEW cps, Layout(n, cps), NEW j \in 1..Len(cps)
    PROVE  /\ cps[j].level \in Nat /\ cps[j].count \in Nat \ {0} /\ cps[j].offset \in Nat
           /\ cps[j].level <= RootLevel(n) /\ Stored(n, cps[j].level)
           /\ cps[j].count = count_at_level(n, cps[j].level)
           /\ cps[j].offset + cps[j].count <= FileSize(n)
           /\ j = 1 => cps[j].level = CHECKPOINT_INTERVAL /\ cps[j].offset = 0
           /\ \A i \in 1..Len(cps) : i < j => /\ cps[i].level < cps[j].level
                                              /\ cps[i].offset + cps[i].count <= cps[j].offset
<1> DEFINE m == Len(cps)
           R == RootLevel(n)
<1>1. R \in Nat /\ n \in Nat \ {0} BY LargeIsHigh
<1>2. Listed(n, R + 1, cps, FileSize(n)) BY DEF Layout
<1>3. cps \in Seq(Checkpoint) BY <1>2 DEF Listed
<1>4. cps[j].level \in Nat /\ cps[j].count \in Nat /\ cps[j].offset \in Nat BY <1>3, CheckpointParts
<1>5. /\ cps[j].level < R + 1 /\ Stored(n, cps[j].level)
      /\ cps[j].count = count_at_level(n, cps[j].level)
      /\ cps[j].offset + cps[j].count <= FileSize(n)
      /\ j = 1 => cps[j].level = CHECKPOINT_INTERVAL /\ cps[j].offset = 0
      /\ \A i \in 1..(j - 1) : /\ cps[i].level < cps[j].level
                               /\ cps[i].offset + cps[i].count <= cps[j].offset
  BY <1>2 DEF Listed
<1>6. count_at_level(n, cps[j].level) \in Nat \ {0} BY <1>1, <1>4, CountShrinks
<1>7. \A i \in 1..m : i < j => i \in 1..(j - 1) BY <1>3
<1>8. cps[j].level <= R BY <1>1, <1>4, <1>5
<1>9. QED BY <1>4, <1>5, <1>6, <1>7, <1>8

LEMMA LayoutNext ==
    ASSUME NEW n, Large(n), NEW cps, Layout(n, cps), NEW j \in 1..Len(cps), j > 1
    PROVE  cps[j].offset = cps[j - 1].offset + cps[j - 1].count
BY DEF Layout, Listed

\* A level that is stored is found.
LEMMA Found ==
    ASSUME NEW n, Large(n), NEW lv \in 0..RootLevel(n), Stored(n, lv)
    PROVE  \E j \in 1..Len(compute_checkpoint_offsets(n)) :
              /\ find_checkpoint(n, lv) = compute_checkpoint_offsets(n)[j]
              /\ compute_checkpoint_offsets(n)[j].level = lv
<1> DEFINE cps == compute_checkpoint_offsets(n)
           j == CHOOSE i \in DOMAIN cps : cps[i].level = lv
<1>1. Layout(n, cps) BY LaidOut
<1>2. RootLevel(n) \in Nat BY LargeIsHigh
<1>3. lv \in 0..((RootLevel(n) + 1) - 1) BY <1>2
<1>4. find_checkpoint(n, lv) = cps[j] BY DEF find_checkpoint
<1> HIDE DEF cps
<1>5. cps \in Seq(Checkpoint) /\ \E i \in 1..Len(cps) : cps[i].level = lv BY <1>1, <1>3 DEF Layout, Listed
<1>6. DOMAIN cps = 1..Len(cps) BY <1>5
<1>7. j \in 1..Len(cps) /\ cps[j].level = lv BY <1>5, <1>6
<1>8. QED BY <1>4, <1>7 DEF cps

-----------------------------------------------------------------------------
(* The nodes of the dense tree and the file's.                             *)

LEMMA LeavesAreSeq ==
    ASSUME NEW g \in Seq(Tensor)
    PROVE  /\ NumChunks(g) \in Nat /\ Len(Leaves(g)) = NumChunks(g) /\ IsSeq(Leaves(g))
           /\ Leaves(g) = [i \in 1..NumChunks(g) |-> <<Canonical(g)[i]>>]
<1> DEFINE n == NumChunks(g)
           c == Canonical(g)
           s == Leaves(g)
<1>1. n \in Nat BY TableSplits
<1>2. c = [i \in 1..n |-> c[i]] BY DEF Canonical
<1> HIDE DEF n, c
<1>3. Len(c) = n BY <1>1, <1>2, SeqLen
<1>4. s = [i \in 1..n |-> <<c[i]>>] BY <1>3 DEF Leaves, c
<1>5. s = [i \in 1..n |-> s[i]] BY <1>4
<1> HIDE DEF s
<1>6. Len(s) = n /\ IsSeq(s) BY <1>1, <1>5, SeqLen DEF IsSeq
<1>7. QED BY <1>1, <1>4, <1>6 DEF n, c, s

Dense(g, lv) == Up(Leaves(g), lv)
Nodes(g) == {Dense(g, lv)[i] : lv \in Nat, i \in Nat}

LEMMA DenseIsSeq ==
    ASSUME NEW g \in Seq(Tensor), NEW lv \in Nat
    PROVE  /\ IsSeq(Dense(g, lv)) /\ Dense(g, lv) \in Seq(Nodes(g))
           /\ Len(Dense(g, lv)) = count_at_level(NumChunks(g), lv)
           /\ count_at_level(NumChunks(g), lv) \in Nat
           /\ \A i \in Nat : Dense(g, lv)[i] \in Nodes(g)
<1> DEFINE s == Dense(g, lv)
<1>1. IsSeq(s) /\ Len(s) = count_at_level(NumChunks(g), lv) BY LeavesAreSeq, LevelIsSeq DEF Dense
<1>2. \A i \in Nat : s[i] \in Nodes(g) BY DEF Nodes
<1>3. count_at_level(NumChunks(g), lv) \in Nat BY LeavesAreSeq, CountStep
<1> HIDE DEF s
<1>4. PICK n \in Nat : s = [i \in 1..n |-> s[i]] BY <1>1 DEF IsSeq
<1>5. s \in Seq(Nodes(g))
  <2> DEFINE V == Nodes(g)
  <2>1. \A i \in 1..n : s[i] \in V BY <1>2
  <2> HIDE DEF V
  <2>2. s \in [1..n -> V] BY <1>4, <2>1
  <2>3. s \in Seq(V) BY <2>2, FunctionIsSeq
  <2>4. QED BY <2>3 DEF V
<1>6. QED BY <1>1, <1>2, <1>3, <1>5 DEF s

\* A file with every level is longer than one with the stored ones: it is never taken for it.
LEMMA LegacyIsLong ==
    ASSUME NEW g \in Seq(Tensor), Large(NumChunks(g))
    PROVE  Legacy(g).nodes \in Seq(Nodes(g)) /\ Len(Legacy(g).nodes) # FileSize(NumChunks(g))
<1> DEFINE n == NumChunks(g)
           R == RootLevel(n)
           V == Seq(Nodes(g))
           row == [k \in Nat |-> Dense(g, k)]
           step == [k \in Nat |-> [x \in V |-> x \o row[k]]]
           D == CHOOSE dense : dense = [k \in 0..(R + 1) |->
                   IF k = 0 THEN << >> ELSE dense[k - 1] \o Up(Leaves(g), k - 1)]
<1>1. n \in Nat \ {0} /\ R \in Nat /\ CHECKPOINT_INTERVAL <= R BY LargeIsHigh
<1>2. \A k \in Nat : row[k] = Dense(g, k) OBVIOUS
<1> HIDE DEF row
<1>3. \A k \in Nat : row[k] \in V /\ Len(row[k]) = count_at_level(n, k) BY <1>2, DenseIsSeq
<1>4. step \in [Nat -> [V -> V]] BY <1>3
<1>5. \A k \in Nat, x \in V : step[k][x] = x \o row[k] OBVIOUS
<1>6. << >> \in V OBVIOUS
<1> HIDE DEF V, step, n, R
<1>7. PICK f : RunsTo(V, << >>, step, R + 1, f)
  <2>1. R + 1 \in Nat BY <1>1
  <2>2. QED BY <1>4, <1>6, <2>1, RunTo
<1>8. ASSUME NEW k \in 1..(R + 1) PROVE f[k] = f[k - 1] \o Up(Leaves(g), k - 1)
  <2>1. k - 1 \in Nat /\ k - 1 \in 0..(R + 1) BY <1>1
  <2>2. f[k] = step[k - 1][f[k - 1]] /\ f[k - 1] \in V BY <1>7, <2>1 DEF RunsTo
  <2>3. row[k - 1] = Up(Leaves(g), k - 1) BY <1>2, <2>1 DEF Dense
  <2>4. QED BY <1>5, <2>1, <2>2, <2>3
<1>9. f = [k \in 0..(R + 1) |-> IF k = 0 THEN << >> ELSE f[k - 1] \o Up(Leaves(g), k - 1)]
  <2>1. f = [k \in 0..(R + 1) |-> f[k]] /\ f[0] = << >> BY <1>7 DEF RunsTo
  <2>2. \A k \in 0..(R + 1) : k # 0 => k \in 1..(R + 1) BY <1>1
  <2>3. QED BY <1>8, <2>1, <2>2
<1>10. D = [k \in 0..(R + 1) |-> IF k = 0 THEN << >> ELSE D[k - 1] \o Up(Leaves(g), k - 1)] BY <1>9
<1>11. Legacy(g).nodes = D[R + 1] BY DEF Legacy, Tree, R, n
<1> HIDE DEF D
<1>12. D[0] = << >>
  <2>1. 0 \in 0..(R + 1) BY <1>1
  <2>2. QED BY <1>10, <2>1
<1>13. ASSUME NEW k \in 1..(R + 1) PROVE D[k] = D[k - 1] \o row[k - 1]
  <2>1. k \in 0..(R + 1) /\ k # 0 /\ k - 1 \in Nat BY <1>1
  <2>2. row[k - 1] = Up(Leaves(g), k - 1) BY <1>2, <2>1 DEF Dense
  <2>3. QED BY <1>10, <2>1, <2>2
<1>14. PICK F : CheckpointRun(n, F) BY <1>1, CheckpointRuns
<1>15. ASSUME NEW k \in 0..(R + 1) PROVE Listed(n, k, F[k].cps, F[k].off) /\ F[k].off \in Nat
  <2>1. Listed(n, k, F[k].cps, F[k].off) BY <1>1, <1>14, RunLists DEF R
  <2>2. QED BY <2>1 DEF Listed
<1>16. ~Stored(n, 0)
  <2>1. 0 \in 0..RootLevel(n) /\ CHECKPOINT_INTERVAL \in Nat \ {0} BY <1>1, TreeAssumption DEF R
  <2>2. Stored(n, 0) => CHECKPOINT_INTERVAL <= 0 BY <1>1, <2>1, StoredLevels DEF R
  <2>3. QED BY <2>1, <2>2
<1> DEFINE T == {k \in Nat : k <= R + 1 => /\ D[k] \in V
                                           /\ Len(D[k]) >= F[k].off + (IF k = 0 THEN 0 ELSE n)}
<1>17. 0 \in T
  <2>1. F[0].off = 0 BY <1>14 DEF CheckpointRun
  <2>2. Len(<< >>) = 0 OBVIOUS
  <2>3. QED BY <1>6, <1>12, <2>1, <2>2
<1>18. ASSUME NEW k \in Nat, k \in T PROVE k + 1 \in T
  <2> SUFFICES ASSUME k + 1 <= R + 1
               PROVE  D[k + 1] \in V /\ Len(D[k + 1]) >= F[k + 1].off + n
    OBVIOUS
  <2> DEFINE c == count_at_level(n, k)
  <2>1. k <= R + 1 /\ k \in 0..(R + 1) /\ k + 1 \in 1..(R + 1) /\ (k + 1) - 1 = k BY <1>1
  <2>2. D[k] \in V /\ Len(D[k]) >= F[k].off + (IF k = 0 THEN 0 ELSE n) BY <1>18, <2>1
  <2>3. D[k + 1] = D[k] \o row[k] BY <1>13, <2>1
  <2>4. row[k] \in V /\ Len(row[k]) = c BY <1>3
  <2> DEFINE Z == Nodes(g)
             d == D[k]
             l == row[k]
  <2>5. D[k + 1] \in V /\ Len(D[k + 1]) = Len(D[k]) + c /\ Len(D[k]) \in Nat
    <3>1. d \in Seq(Z) /\ l \in Seq(Z) /\ Len(l) = c BY <2>2, <2>4 DEF V
    <3>2. D[k + 1] = d \o l BY <2>3
    <3> HIDE DEF d, l, Z
    <3>3. d \o l \in Seq(Z) /\ Len(d \o l) = Len(d) + Len(l) /\ Len(d) \in Nat BY <3>1
    <3>4. QED BY <3>1, <3>2, <3>3 DEF d, Z, V
  <2>6. F[k + 1] = Turn(n, k, F[k]) BY <1>14, <2>1 DEF CheckpointRun, R
  <2>7. F[k + 1].off = IF Stored(n, k) THEN F[k].off + c ELSE F[k].off BY <2>6 DEF Turn
  <2>8. c \in Nat /\ F[k].off \in Nat BY <1>1, <1>15, <2>1, CountStep
  <2>9. k = 0 => c = n BY <1>1, CountStep
  <2> HIDE DEF c, T
  <2>10. CASE k = 0
    <3>1. F[k + 1].off = F[k].off BY <1>16, <2>7, <2>10
    <3>2. Len(D[k]) >= F[k].off + 0 BY <2>2, <2>10
    <3>3. c = n BY <2>9, <2>10
    <3>4. Len(D[k + 1]) >= F[k + 1].off + n BY <1>1, <2>5, <2>8, <3>1, <3>2, <3>3
    <3>5. QED BY <2>5, <3>4
  <2>11. CASE k # 0
    <3>1. Len(D[k]) >= F[k].off + n BY <2>2, <2>11
    <3> DEFINE x == F[k].off
               y == F[k + 1].off
               a == Len(D[k])
    <3>2. y = x + c \/ y = x BY <2>7
    <3>3. x \in Nat /\ c \in Nat /\ a \in Nat /\ n \in Nat /\ a >= x + n
      BY <1>1, <2>5, <2>8, <3>1
    <3>4. Len(D[k + 1]) = a + c BY <2>5
    <3> HIDE DEF x, y, a
    <3>5. a + c >= y + n BY <3>2, <3>3
    <3>6. Len(D[k + 1]) >= F[k + 1].off + n BY <3>4, <3>5 DEF y
    <3>7. QED BY <2>5, <3>6
  <2>12. QED BY <2>10, <2>11
<1> HIDE DEF T
<1>19. Nat \subseteq T BY <1>17, <1>18, Induct
<1>20. R + 1 \in Nat /\ R + 1 # 0 /\ R + 1 \in 0..(R + 1) BY <1>1
<1>21. D[R + 1] \in V /\ Len(D[R + 1]) >= F[R + 1].off + n BY <1>19, <1>20 DEF T
<1>22. F[R + 1].off = FileSize(n) /\ F[R + 1].off \in Nat
  <2>1. compute_checkpoint_offsets(n) = F[R + 1].cps BY <1>14 DEF CheckpointRun, R
  <2>2. Listed(n, R + 1, compute_checkpoint_offsets(n), F[R + 1].off) BY <1>15, <1>20, <2>1
  <2>3. Large(n) BY DEF n
  <2>4. F[R + 1].off = FileSize(n) BY <2>2, <2>3, ListEnds DEF R
  <2>5. QED BY <1>15, <1>20, <2>4
<1>23. Len(D[R + 1]) # FileSize(n)
  <2>1. Len(D[R + 1]) \in Nat BY <1>21 DEF V
  <2>2. QED BY <1>1, <1>21, <1>22, <2>1
<1>24. QED BY <1>11, <1>21, <1>23 DEF V, n

-----------------------------------------------------------------------------
(* The inductive invariant of the index.                                   *)

\* Every node that is in a file is the dense tree's.
InPlace(g, nodes) ==
    \A j \in 1..Len(compute_checkpoint_offsets(NumChunks(g))) :
        LET cp == compute_checkpoint_offsets(NumChunks(g))[j] IN
        \A q \in 0..(cp.count - 1) :
            cp.offset + q + 1 <= Len(nodes) => nodes[cp.offset + q + 1] = Dense(g, cp.level)[q + 1]

LEMMA NoneInPlace ==
    ASSUME NEW g \in Seq(Tensor), Large(NumChunks(g))
    PROVE  InPlace(g, << >>)
<1> DEFINE n == NumChunks(g)
           cps == compute_checkpoint_offsets(n)
<1>1. Layout(n, cps) BY LaidOut
<1> HIDE DEF n, cps
<1>2. \A j \in 1..Len(cps) : cps[j].offset \in Nat BY <1>1, LayoutAt DEF n
<1>3. Len(<< >>) = 0 OBVIOUS
<1>4. QED BY <1>2, <1>3 DEF InPlace, n, cps

\* A beginning of a file that is in place is in place.
LEMMA BeginningInPlace ==
    ASSUME NEW g \in Seq(Tensor), Large(NumChunks(g)), NEW V, NEW a \in Seq(V), NEW b \in Seq(V),
           InPlace(g, a \o b)
    PROVE  InPlace(g, a)
<1> DEFINE n == NumChunks(g)
           cps == compute_checkpoint_offsets(n)
           w == a \o b
<1>1. Layout(n, cps) BY LaidOut
<1>2. Len(a) \in Nat /\ Len(w) >= Len(a) /\ \A i \in 1..Len(a) : w[i] = a[i] OBVIOUS
<1>3. Len(w) \in Nat OBVIOUS
<1>4. \A j \in 1..Len(cps) : \A q \in 0..(cps[j].count - 1) :
         cps[j].offset + q + 1 <= Len(w) => w[cps[j].offset + q + 1] = Dense(g, cps[j].level)[q + 1]
  BY DEF InPlace
<1> HIDE DEF n, cps, w
<1>5. ASSUME NEW j \in 1..Len(cps), NEW q \in 0..(cps[j].count - 1), cps[j].offset + q + 1 <= Len(a)
      PROVE  a[cps[j].offset + q + 1] = Dense(g, cps[j].level)[q + 1]
  <2> DEFINE i == cps[j].offset + q + 1
  <2>1. cps[j].offset \in Nat /\ cps[j].count \in Nat BY <1>1, LayoutAt DEF n
  <2>2. i \in 1..Len(a) /\ i <= Len(w) BY <1>2, <1>3, <1>5, <2>1
  <2>3. w[i] = Dense(g, cps[j].level)[q + 1] BY <1>4, <2>2
  <2>4. QED BY <1>2, <2>2, <2>3
<1>6. QED BY <1>5 DEF InPlace, n, cps

\* The node that comes next belongs to the checkpoint that is written.
LEMMA NextInPlace ==
    ASSUME NEW g \in Seq(Tensor), Large(NumChunks(g)), NEW cps, cps = compute_checkpoint_offsets(NumChunks(g)),
           NEW w \in Seq(Nodes(g)), InPlace(g, w), NEW j \in 1..Len(cps), NEW q \in 0..(cps[j].count - 1),
           Len(w) = cps[j].offset + q, NEW node, node = Dense(g, cps[j].level)[q + 1]
    PROVE  InPlace(g, Append(w, node)) /\ node \in Nodes(g)
<1> DEFINE n == NumChunks(g)
           v == Append(w, node)
<1>1. Layout(n, cps) BY LaidOut
<1>2. cps[j].level \in Nat /\ cps[j].offset \in Nat /\ cps[j].count \in Nat BY <1>1, LayoutAt
<1>3. node \in Nodes(g)
  <2>1. q + 1 \in Nat BY <1>2
  <2>2. QED BY <1>2, <2>1, DenseIsSeq
<1>4. Len(w) \in Nat /\ Len(v) = Len(w) + 1 /\ v[Len(w) + 1] = node /\ \A i \in 1..Len(w) : v[i] = w[i]
  BY <1>3
<1>5. \A i \in 1..Len(cps) : \A x \in 0..(cps[i].count - 1) :
         cps[i].offset + x + 1 <= Len(w) => w[cps[i].offset + x + 1] = Dense(g, cps[i].level)[x + 1]
  BY DEF InPlace
<1> HIDE DEF n, v
<1>6. ASSUME NEW i \in 1..Len(cps), NEW x \in 0..(cps[i].count - 1), cps[i].offset + x + 1 <= Len(v)
      PROVE  v[cps[i].offset + x + 1] = Dense(g, cps[i].level)[x + 1]
  <2> DEFINE o == cps[i].offset
             c == cps[i].count
             ow == cps[j].offset
             cw == cps[j].count
             p == o + x + 1
             len == Len(w)
  <2>1. o \in Nat /\ c \in Nat /\ ow \in Nat /\ cw \in Nat /\ len \in Nat
    BY <1>1, <1>2, <1>4, LayoutAt DEF n
  <2>2. x \in 0..(c - 1) /\ q \in 0..(cw - 1) /\ p <= len + 1 /\ len = ow + q BY <1>4, <1>6
  <2>3. i < j => o + c <= ow BY <1>1, LayoutAt DEF n
  <2>4. j < i => ow + cw <= o BY <1>1, LayoutAt DEF n
  <2>5. p <= len => w[p] = Dense(g, cps[i].level)[x + 1] BY <1>5
  <2>6. Len(cps) \in Nat BY <1>1 DEF Layout
  <2> HIDE DEF o, c, ow, cw, len
  <2>7. p \in Nat \ {0} /\ x \in Nat /\ q \in Nat
    <3>1. x \in Nat BY <2>1, <2>2
    <3>2. q \in Nat BY <2>1, <2>2
    <3>3. p \in Nat \ {0} BY <2>1, <3>1
    <3>4. QED BY <3>1, <3>2, <3>3
  <2>8. CASE p <= len
    <3>1. p \in 1..len BY <2>1, <2>7, <2>8
    <3>2. v[p] = w[p] BY <1>4, <3>1 DEF len
    <3>3. QED BY <2>5, <2>8, <3>2 DEF o
  <2>9. CASE p = len + 1
    <3>1. o + x = ow + q BY <2>1, <2>2, <2>7, <2>9
    <3>2. ~(i < j) BY <2>1, <2>2, <2>3, <2>7, <3>1
    <3>3. ~(j < i) BY <2>1, <2>2, <2>4, <2>7, <3>1
    <3>4. i = j BY <2>6, <3>2, <3>3
    <3>5. x = q
      <4>1. o = ow BY <3>4 DEF o, ow
      <4>2. QED BY <2>1, <2>7, <3>1, <4>1
    <3>6. v[p] = node BY <1>4, <2>9 DEF len
    <3>7. QED BY <3>4, <3>5, <3>6 DEF o
  <2>10. p <= len \/ p = len + 1 BY <2>1, <2>2, <2>7
  <2>11. QED BY <2>8, <2>9, <2>10
<1>7. QED BY <1>3, <1>6 DEF InPlace, n, v

\* What is folded of m nodes after some batches of w.
Folded(batches, w, m) == IF batches * w < m THEN batches * w ELSE m

\* The batch that is cut next, after x of m nodes.
Batch(x, w, m) == IF m - x < w THEN m - x ELSE w

LEMMA NextBatch ==
    ASSUME NEW m \in Nat, NEW w \in Nat \ {0}, NEW rest \in Nat, Folded(rest, w, m) < m
    PROVE  /\ Folded(rest, w, m) = rest * w /\ rest * w \in Nat
           /\ Batch(rest * w, w, m) \in Nat \ {0} /\ rest * w + Batch(rest * w, w, m) <= m
           /\ rest * w + Batch(rest * w, w, m) = Folded(rest + 1, w, m)
<1> DEFINE y == rest * w
           x == Folded(rest, w, m)
           t == Batch(y, w, m)
<1>1. y \in Nat /\ (rest + 1) * w = y + w OBVIOUS
<1>2. x = IF y < m THEN y ELSE m BY DEF Folded
<1>3. Folded(rest + 1, w, m) = IF y + w < m THEN y + w ELSE m BY <1>1 DEF Folded
<1>4. t = IF m - y < w THEN m - y ELSE w BY DEF Batch
<1>5. x < m OBVIOUS
<1> HIDE DEF y, x, t
<1>6. x = y /\ y < m BY <1>1, <1>2, <1>5
<1>7. t \in Nat \ {0} /\ y + t <= m BY <1>1, <1>4, <1>6
<1>8. y + t = IF y + w < m THEN y + w ELSE m BY <1>1, <1>4, <1>6
<1>9. QED BY <1>1, <1>3, <1>6, <1>7, <1>8 DEF x, y, t

LEMMA GgufIsLarge ==
    ASSUME NEW g \in Ggufs
    PROVE  g \in Seq(Tensor) /\ Large(NumChunks(g))
<1>1. g \in Seq(Tensor) /\ NumChunks(g) > 2^(CHECKPOINT_INTERVAL - 1) BY TreeAssumption
<1> DEFINE k == CHECKPOINT_INTERVAL - 1
           n == NumChunks(g)
<1>2. k \in Nat BY TreeAssumption
<1>3. n \in Nat BY <1>1, TableSplits
<1>4. n > 2^k BY <1>1
<1> HIDE DEF k, n
<1>5. 2^k \in Nat \ {0} BY <1>2, PowerPositive
<1>6. n \in Nat \ {0} /\ 2^k < n BY <1>3, <1>4, <1>5
<1>7. QED BY <1>1, <1>6 DEF Large, k, n

\* The first stored level is being written: batches of chunks are folded into it.
LeavesFolded(g, f, b, d, l) ==
    LET n == NumChunks(g)
        written == f.nodes \o b
    IN  /\ f.there /\ l = 1
        /\ InPlace(g, written)
        /\ Len(written) <= compute_checkpoint_offsets(n)[1].count
        /\ d = Folded(Len(written), 2^CHECKPOINT_INTERVAL, n)

\* The one above level l is: batches of level l, which is all in the file, are folded into it.
LevelFolded(g, f, b, d, l) ==
    LET cps == compute_checkpoint_offsets(NumChunks(g))
        written == f.nodes \o b
        rest == Len(written) - (cps[l].offset + cps[l].count)
    IN  /\ f.there /\ l \in 1..Len(cps)
        /\ InPlace(g, written)
        /\ cps[l].offset + cps[l].count <= Len(f.nodes)
        /\ l = Len(cps) => rest = 0
        /\ l < Len(cps) => /\ rest <= cps[l + 1].count
                           /\ d = Folded(rest, 2^(cps[l + 1].level - cps[l].level), cps[l].count)

LEMMA AppendJoins ==
    ASSUME NEW V, NEW a \in Seq(V), NEW b \in Seq(V), NEW x \in V
    PROVE  /\ a \o Append(b, x) = Append(a \o b, x) /\ Append(b, x) \in Seq(V)
           /\ a \o b \in Seq(V) /\ Len(a \o b) = Len(a) + Len(b)
           /\ Len(Append(a \o b, x)) = Len(a \o b) + 1
<1> DEFINE s == a \o Append(b, x)
           t == Append(a \o b, x)
<1>1. s \in Seq(V) /\ Len(s) = Len(a) + (Len(b) + 1)
      /\ \A i \in 1..Len(s) : s[i] = IF i <= Len(a) THEN a[i]
                                     ELSE IF i - Len(a) <= Len(b) THEN b[i - Len(a)] ELSE x
  OBVIOUS
<1>2. t \in Seq(V) /\ Len(t) = (Len(a) + Len(b)) + 1
      /\ \A i \in 1..Len(t) : t[i] = IF i <= Len(a) THEN a[i]
                                     ELSE IF i - Len(a) <= Len(b) THEN b[i - Len(a)] ELSE x
  OBVIOUS
<1>3. Len(s) = Len(t) BY <1>1, <1>2
<1> HIDE DEF s, t
<1>4. s = t BY <1>1, <1>2, <1>3, SameSeq
<1>5. QED BY <1>4 DEF s, t

LEMMA SubSeqIsSlice ==
    ASSUME NEW V, NEW s \in Seq(V), NEW d \in Nat, NEW len \in Nat, d + len <= Len(s)
    PROVE  SubSeq(s, d + 1, d + len) = Slice(s, d, len)
<1> DEFINE x == SubSeq(s, d + 1, d + len)
           z == Slice(s, d, len)
<1>1. \A i \in 1..len : s[d + i] \in V OBVIOUS
<1>2. z \in Seq(V) /\ Len(z) = len /\ \A i \in 1..len : z[i] = s[d + i]
  <2>1. z \in Seq(V) BY <1>1, SliceSeq
  <2>2. Len(z) = len BY SliceLen
  <2>3. \A i \in 1..len : z[i] = s[d + i] BY SliceAt
  <2>4. QED BY <2>1, <2>2, <2>3
<1>3. x \in Seq(V) /\ Len(x) = len /\ \A i \in 1..len : x[i] = s[d + i] OBVIOUS
<1> HIDE DEF x, z
<1>4. x = z BY <1>2, <1>3, SameSeq
<1>5. QED BY <1>4 DEF x, z

LEMMA HashBatchFolds ==
    ASSUME NEW g \in Ggufs, NEW f, f.nodes \in Seq(Nodes(g)), NEW b \in Seq(Nodes(g)), NEW d, NEW l,
           LeavesFolded(g, f, b, d, l), d < NumChunks(g),
           NEW take, take = IF NumChunks(g) - d < 2^CHECKPOINT_INTERVAL THEN NumChunks(g) - d
                            ELSE 2^CHECKPOINT_INTERVAL,
           NEW node, node = fold_levels(SubSeq(Leaves(g), d + 1, d + take), CHECKPOINT_INTERVAL)
    PROVE  /\ LeavesFolded(g, f, Append(b, node), d + take, l)
           /\ Append(b, node) \in Seq(Nodes(g))
<1> DEFINE n == NumChunks(g)
           K == CHECKPOINT_INTERVAL
           w == 2^K
           cps == compute_checkpoint_offsets(n)
           s == Leaves(g)
           u == f.nodes \o b
           q == Len(u)
<1>1. g \in Seq(Tensor) /\ Large(n) BY GgufIsLarge
<1>2. K \in Nat /\ w \in Nat \ {0} BY TreeAssumption, PowerPositive
<1>3. n \in Nat /\ Len(s) = n /\ IsSeq(s) BY <1>1, LeavesAreSeq
<1>4. Layout(n, cps) BY <1>1, LaidOut
<1>5. u \in Seq(Nodes(g)) /\ q \in Nat OBVIOUS
<1>6. f.there /\ l = 1 /\ InPlace(g, u) /\ d = Folded(q, w, n) BY DEF LeavesFolded
<1>7. /\ d = q * w /\ take \in Nat \ {0}
      /\ d + take = Folded(q + 1, w, n) /\ d + take \in Nat /\ d + take <= n
  <2>1. d < n /\ take = IF n - d < w THEN n - d ELSE w OBVIOUS
  <2>2. take = Batch(d, w, n) BY DEF Batch
  <2> HIDE DEF n, w, q
  <2>3. Folded(q, w, n) < n BY <1>6, <2>1
  <2>4. Folded(q, w, n) = q * w BY <1>2, <1>3, <1>5, <2>3, NextBatch
  <2>5. /\ q * w \in Nat /\ Batch(q * w, w, n) \in Nat \ {0} /\ q * w + Batch(q * w, w, n) <= n
        /\ q * w + Batch(q * w, w, n) = Folded(q + 1, w, n)
    BY <1>2, <1>3, <1>5, <2>3, NextBatch
  <2>6. d = q * w BY <1>6, <2>4
  <2>7. take = Batch(q * w, w, n) BY <2>2, <2>6
  <2>8. d + take \in Nat BY <2>5, <2>6, <2>7
  <2>9. QED BY <2>5, <2>6, <2>7, <2>8
<1>8. 1 \in 1..Len(cps) BY <1>4 DEF Layout
<1>9. cps[1].level = K /\ cps[1].offset = 0 /\ cps[1].count = count_at_level(n, K) /\ cps[1].count \in Nat
  BY <1>1, <1>4, <1>8, LayoutAt
<1>10. q < cps[1].count
  <2>1. q * w < n BY <1>7
  <2> HIDE DEF q, n, K
  <2>2. QED BY <1>2, <1>3, <1>5, <1>9, <2>1, CountCeil DEF w
<1>11. SubSeq(s, d + 1, d + take) = Part(s, q, w)
  <2> DEFINE y == q * w
             m == IF n - y < w THEN n - y ELSE w
             Z == {s[i] : i \in 1..n}
             x == SubSeq(s, d + 1, d + take)
  <2>1. Part(s, q, w) = [i \in 1..m |-> s[y + i]] BY <1>3 DEF Part
  <2>2. d = y /\ m = take BY <1>7
  <2>3. s \in Seq(Z) /\ Len(s) = n
    <3>1. s = [i \in 1..n |-> s[i]] BY <1>1, LeavesAreSeq
    <3> HIDE DEF s, n
    <3>2. s \in [1..n -> Z] BY <3>1
    <3> HIDE DEF Z
    <3>3. QED BY <1>3, <3>2, FunctionIsSeq
  <2> HIDE DEF s, Z, n, w, q, y, m
  <2>4. d \in Nat /\ take \in Nat /\ d + take <= Len(s)
    <3>1. y \in Nat BY <1>2, <1>5 DEF y
    <3>2. QED BY <1>3, <1>7, <2>2, <3>1
  <2>5. x = Slice(s, d, take) BY <2>3, <2>4, SubSeqIsSlice
  <2>6. QED BY <2>1, <2>2, <2>5 DEF Slice
<1>12. node = Dense(g, K)[q + 1]
  <2>1. fold_levels(Part(s, q, w), K) = Up(s, K)[q + 1]
    <3>1. q * w < Len(s) BY <1>3, <1>7
    <3> HIDE DEF q, s, K
    <3>2. QED BY <1>2, <1>3, <1>5, <3>1, FoldLands DEF w
  <2>2. QED BY <1>11, <2>1 DEF Dense
<1>13. InPlace(g, Append(u, node)) /\ node \in Nodes(g)
  <2>1. q \in 0..(cps[1].count - 1) BY <1>5, <1>9, <1>10
  <2>2. Len(u) = cps[1].offset + q BY <1>5, <1>9
  <2>3. node = Dense(g, cps[1].level)[q + 1] BY <1>9, <1>12
  <2>4. Large(NumChunks(g)) /\ cps = compute_checkpoint_offsets(NumChunks(g)) BY <1>1
  <2> HIDE DEF u, q, cps, n
  <2>5. QED BY <1>1, <1>5, <1>6, <1>8, <2>1, <2>2, <2>3, <2>4, NextInPlace
<1>14. f.nodes \o Append(b, node) = Append(u, node) /\ Append(b, node) \in Seq(Nodes(g))
       /\ Len(Append(u, node)) = q + 1
  <2> DEFINE V == Nodes(g)
             a == f.nodes
  <2>1. a \in Seq(V) /\ b \in Seq(V) /\ node \in V BY <1>13
  <2> HIDE DEF V, a
  <2>2. a \o Append(b, node) = Append(a \o b, node) /\ Append(b, node) \in Seq(V)
        /\ Len(Append(a \o b, node)) = Len(a \o b) + 1
    BY <2>1, AppendJoins
  <2>3. QED BY <2>2 DEF V, a
<1>15. q + 1 <= cps[1].count BY <1>5, <1>9, <1>10
<1>16. LeavesFolded(g, f, Append(b, node), d + take, l)
  BY <1>6, <1>7, <1>13, <1>14, <1>15 DEF LeavesFolded
<1>17. QED BY <1>14, <1>16

LEMMA BatchCounts ==
    ASSUME NEW m \in Nat, NEW r \in Nat, NEW q \in Nat, Folded(q, 2^r, m) < m
    PROVE  /\ q < count_at_level(m, r)
           /\ Folded(q, 2^r, m) + Batch(Folded(q, 2^r, m), 2^r, m) = Folded(q + 1, 2^r, m)
<1> DEFINE w == 2^r
<1>1. w \in Nat \ {0} BY PowerPositive
<1>2. Folded(q, w, m) < m OBVIOUS
<1> HIDE DEF w
<1>3. Folded(q, w, m) = q * w BY <1>1, <1>2, NextBatch
<1>4. q * w + Batch(q * w, w, m) = Folded(q + 1, w, m) BY <1>1, <1>2, NextBatch
<1>5. q * w < m BY <1>2, <1>3
<1>6. q < count_at_level(m, r) BY <1>5, CountCeil DEF w
<1>7. QED BY <1>3, <1>4, <1>6 DEF w

\* The m nodes after the first o of t are s.
IsAt(t, o, s, m) == \A x \in 0..(m - 1) : t[o + x + 1] = s[x + 1]

\* A batch that is read from where a level is lands on a node of the level to write.
LEMMA BatchLands ==
    ASSUME NEW s, IsSeq(s), NEW m \in Nat, Len(s) = m, NEW r \in Nat, NEW q \in Nat,
           Folded(q, 2^r, m) < m, NEW t, NEW o \in Nat, IsAt(t, o, s, m)
    PROVE  fold_levels(Slice(t, o + Folded(q, 2^r, m), Batch(Folded(q, 2^r, m), 2^r, m)), r) = Up(s, r)[q + 1]
<1> DEFINE w == 2^r
           d == Folded(q, w, m)
           y == q * w
           k == Batch(d, w, m)
<1>1. w \in Nat \ {0} BY PowerPositive
<1>2. d < m OBVIOUS
<1>3. d = y /\ y \in Nat /\ k \in Nat /\ d + k <= m
  <2> HIDE DEF w
  <2>1. Folded(q, w, m) < m BY <1>2
  <2>2. Folded(q, w, m) = q * w BY <1>1, <2>1, NextBatch
  <2>3. q * w \in Nat /\ Batch(q * w, w, m) \in Nat \ {0} /\ q * w + Batch(q * w, w, m) <= m
    BY <1>1, <2>1, NextBatch
  <2>4. k = Batch(q * w, w, m) BY <2>2
  <2> HIDE DEF k, d
  <2>5. d = q * w BY <2>2 DEF d
  <2>6. QED BY <2>3, <2>4, <2>5
<1>4. y < m BY <1>2, <1>3
<1>5. fold_levels(Part(s, q, w), r) = Up(s, r)[q + 1] BY <1>4, FoldLands
<1>6. Part(s, q, w) = [i \in 1..k |-> s[y + i]]
  <2>1. k = IF m - y < w THEN m - y ELSE w
    <3>1. k = Batch(y, w, m) BY <1>3
    <3>2. QED BY <3>1 DEF Batch
  <2>2. Part(s, q, w) = [i \in 1..(IF m - y < w THEN m - y ELSE w) |-> s[y + i]] BY DEF Part
  <2> HIDE DEF k, y, w
  <2>3. QED BY <2>1, <2>2
<1> HIDE DEF k, y, d, w
<1>7. ASSUME NEW i \in 1..k PROVE t[o + d + i] = s[y + i]
  <2> DEFINE x == d + i - 1
  <2>1. x \in 0..(m - 1) /\ x + 1 = y + i /\ o + x + 1 = o + d + i BY <1>3
  <2>2. t[o + x + 1] = s[x + 1] BY <2>1 DEF IsAt
  <2> HIDE DEF x
  <2>3. QED BY <2>1, <2>2
<1>8. [i \in 1..k |-> t[o + d + i]] = [i \in 1..k |-> s[y + i]] BY <1>7
<1>9. fold_levels(Slice(t, o + d, k), r) = Up(s, r)[q + 1] BY <1>5, <1>6, <1>8 DEF Slice
<1>10. QED BY <1>9 DEF k, d, w

\* Two checkpoints that follow each other.
LEMMA LayoutPair ==
    ASSUME NEW n, Large(n), NEW cps, Layout(n, cps), NEW l \in 1..Len(cps), l < Len(cps)
    PROVE  /\ l + 1 \in 1..Len(cps)
           /\ cps[l].level \in Nat /\ cps[l].count \in Nat \ {0} /\ cps[l].offset \in Nat
           /\ cps[l].count = count_at_level(n, cps[l].level)
           /\ cps[l + 1].level \in Nat /\ cps[l + 1].count \in Nat \ {0} /\ cps[l + 1].offset \in Nat
           /\ cps[l + 1].count = count_at_level(cps[l].count, cps[l + 1].level - cps[l].level)
           /\ cps[l + 1].level - cps[l].level \in Nat
           /\ cps[l].level + (cps[l + 1].level - cps[l].level) = cps[l + 1].level
           /\ cps[l + 1].offset = cps[l].offset + cps[l].count
<1>1. n \in Nat BY DEF Large
<1>2. Len(cps) \in Nat BY DEF Layout
<1>3. l + 1 \in 1..Len(cps) /\ l < l + 1 /\ (l + 1) - 1 = l /\ l + 1 > 1 BY <1>2
<1> DEFINE a == cps[l].level
           b == cps[l + 1].level
<1>4. a \in Nat /\ cps[l].count \in Nat \ {0} /\ cps[l].offset \in Nat
      /\ cps[l].count = count_at_level(n, a)
  BY LayoutAt
<1>5. b \in Nat /\ cps[l + 1].count \in Nat \ {0} /\ cps[l + 1].offset \in Nat
      /\ cps[l + 1].count = count_at_level(n, b)
  BY <1>3, LayoutAt
<1>6. a < b BY <1>3, LayoutAt
<1>7. cps[l + 1].offset = cps[(l + 1) - 1].offset + cps[(l + 1) - 1].count BY <1>3, LayoutNext
<1> HIDE DEF a, b
<1>8. b - a \in Nat /\ a + (b - a) = b BY <1>4, <1>5, <1>6
<1>9. count_at_level(count_at_level(n, a), b - a) = count_at_level(n, a + (b - a)) BY <1>1, <1>4, <1>8, CountAdds
<1>10. cps[l + 1].count = count_at_level(cps[l].count, b - a) BY <1>4, <1>5, <1>8, <1>9
<1>11. QED BY <1>3, <1>4, <1>5, <1>7, <1>8, <1>10 DEF a, b

\* The batch of level l that FoldBatch takes, and the node it makes of it.
LevelBatch(g, f, d, l, cps, rounds, take, node) ==
    /\ cps = compute_checkpoint_offsets(NumChunks(g))
    /\ l < Len(cps) /\ d < cps[l].count
    /\ rounds = cps[l + 1].level - cps[l].level
    /\ take = Batch(d, 2^rounds, cps[l].count)
    /\ node = fold_levels([i \in 1..take |-> f.nodes[cps[l].offset + d + i]], rounds)

LEMMA FoldBatchFolds ==
    ASSUME NEW g \in Ggufs, NEW f, f.nodes \in Seq(Nodes(g)), NEW b \in Seq(Nodes(g)), NEW d, NEW l,
           LevelFolded(g, f, b, d, l), NEW cps, NEW rounds, NEW take, NEW node,
           LevelBatch(g, f, d, l, cps, rounds, take, node)
    PROVE  /\ LevelFolded(g, f, Append(b, node), d + take, l)
           /\ Append(b, node) \in Seq(Nodes(g))
<1> DEFINE n == NumChunks(g)
           u == f.nodes \o b
<1>1. g \in Seq(Tensor) /\ Large(n) /\ n \in Nat BY GgufIsLarge, LeavesAreSeq
<1>2. Layout(n, cps) /\ cps = compute_checkpoint_offsets(n) BY <1>1, LaidOut DEF LevelBatch
<1>3. /\ l \in 1..Len(cps) /\ InPlace(g, u) /\ f.there
      /\ cps[l].offset + cps[l].count <= Len(f.nodes)
      /\ Len(u) - (cps[l].offset + cps[l].count) <= cps[l + 1].count
      /\ d = Folded(Len(u) - (cps[l].offset + cps[l].count), 2^rounds, cps[l].count)
  BY DEF LevelFolded, LevelBatch
<1>4. PICK m, o, lv, up, q : /\ m = cps[l].count /\ o = cps[l].offset /\ lv = cps[l].level
                             /\ up = cps[l + 1] /\ q = Len(u) - (o + m)
  OBVIOUS
<1>l. /\ l < Len(cps) /\ d < m /\ rounds = cps[l + 1].level - cps[l].level
      /\ take = Batch(d, 2^rounds, m)
      /\ node = fold_levels([i \in 1..take |-> f.nodes[o + d + i]], rounds)
  BY <1>4 DEF LevelBatch
<1>p. m \in Nat /\ o \in Nat /\ rounds \in Nat
  <2> HIDE DEF n
  <2>1. Large(n) /\ l \in 1..Len(cps) /\ l < Len(cps) BY <1>1, <1>3, <1>l
  <2>2. QED BY <1>2, <1>4, <1>l, <2>1, LayoutPair
<1>5. /\ l + 1 \in 1..Len(cps) /\ lv \in Nat /\ m \in Nat \ {0} /\ o \in Nat
      /\ m = count_at_level(n, lv) /\ up.level \in Nat /\ up.count \in Nat \ {0} /\ up.offset \in Nat
      /\ up.count = count_at_level(m, rounds) /\ rounds \in Nat /\ lv + rounds = up.level
      /\ up.offset = o + m
  <2> HIDE DEF n
  <2>1. Large(n) /\ l \in 1..Len(cps) /\ l < Len(cps) BY <1>1, <1>3, <1>l
  <2>2. QED BY <1>2, <1>4, <1>l, <2>1, LayoutPair
<1>6. u \in Seq(Nodes(g)) /\ Len(f.nodes) \in Nat /\ Len(u) \in Nat /\ Len(f.nodes) <= Len(u)
      /\ \A i \in 1..Len(f.nodes) : u[i] = f.nodes[i]
  <2> DEFINE V == Nodes(g)
             a == f.nodes
  <2>1. a \in Seq(V) /\ b \in Seq(V) OBVIOUS
  <2> HIDE DEF V, a
  <2>2. a \o b \in Seq(V) /\ Len(a) \in Nat /\ Len(a \o b) \in Nat /\ Len(a) <= Len(a \o b)
        /\ \A i \in 1..Len(a) : (a \o b)[i] = a[i]
    BY <2>1
  <2>3. QED BY <2>2 DEF V, a
<1>7. d = Folded(q, 2^rounds, m) /\ d < m /\ q <= up.count /\ o + m <= Len(f.nodes) BY <1>3, <1>4, <1>l
<1>8. q \in Nat /\ Len(u) = up.offset + q /\ o + m <= Len(u)
  <2> DEFINE x == Len(u)
             y == Len(f.nodes)
             oo == up.offset
  <2>1. x \in Nat /\ y \in Nat /\ y <= x /\ o + m <= y /\ oo = o + m /\ q = x - (o + m)
    BY <1>4, <1>5, <1>6, <1>7
  <2> HIDE DEF x, y, oo
  <2>2. q \in Nat /\ x = oo + q /\ o + m <= x BY <1>p, <2>1
  <2>3. QED BY <2>2 DEF x, oo
<1>9. \A x \in 0..(m - 1) : f.nodes[o + x + 1] = Dense(g, lv)[x + 1]
  <2> SUFFICES ASSUME NEW x \in 0..(m - 1) PROVE f.nodes[o + x + 1] = Dense(g, lv)[x + 1] OBVIOUS
  <2> DEFINE p == o + x + 1
             y == Len(f.nodes)
  <2>1. y \in Nat /\ y <= Len(u) /\ Len(u) \in Nat /\ o + m <= y BY <1>6, <1>7
  <2>2. p \in 1..y /\ p <= Len(u)
    <3> HIDE DEF y
    <3>1. x \in Nat /\ x + 1 <= m BY <1>5
    <3>2. p \in Nat /\ 1 <= p /\ p <= y BY <1>5, <2>1, <3>1
    <3>3. QED BY <2>1, <3>2
  <2>3. u[p] = Dense(g, lv)[x + 1]
    <3>1. \A z \in 0..(cps[l].count - 1) :
             cps[l].offset + z + 1 <= Len(u) => u[cps[l].offset + z + 1] = Dense(g, cps[l].level)[z + 1]
      BY <1>2, <1>3 DEF InPlace
    <3>2. \A z \in 0..(m - 1) : o + z + 1 <= Len(u) => u[o + z + 1] = Dense(g, lv)[z + 1]
      BY <1>4, <3>1
    <3>3. QED BY <2>2, <3>2
  <2>4. u[p] = f.nodes[p] BY <1>6, <2>2
  <2>5. QED BY <2>3, <2>4
<1> DEFINE s == Dense(g, lv)
<1>10. IsSeq(s) /\ Len(s) = m BY <1>1, <1>5, DenseIsSeq
<1>11. /\ q < up.count
       /\ d + take = Folded(q + 1, 2^rounds, m)
       /\ node = Up(s, rounds)[q + 1]
  <2> DEFINE t == f.nodes
             x == Folded(q, 2^rounds, m)
  <2>1. x < m BY <1>7
  <2>2. IsAt(t, o, s, m) BY <1>9 DEF IsAt
  <2>3. m \in Nat /\ up.count = count_at_level(m, rounds) BY <1>5
  <2>4. take = Batch(x, 2^rounds, m) BY <1>7, <1>l
  <2>5. node = fold_levels(Slice(t, o + x, Batch(x, 2^rounds, m)), rounds)
    <3> HIDE DEF x
    <3>1. d = x BY <1>7 DEF x
    <3>2. node = fold_levels([i \in 1..take |-> t[o + d + i]], rounds) BY <1>l
    <3>3. QED BY <2>4, <3>1, <3>2 DEF Slice
  <2> HIDE DEF s, t
  <2>n. q \in Nat BY <1>8
  <2>o. Folded(q, 2^rounds, m) < m BY <2>1 DEF x
  <2>6. /\ q < count_at_level(m, rounds)
        /\ Folded(q, 2^rounds, m) + Batch(Folded(q, 2^rounds, m), 2^rounds, m) = Folded(q + 1, 2^rounds, m)
    BY <2>n, <2>o, <1>p, BatchCounts
  <2>7. fold_levels(Slice(t, o + Folded(q, 2^rounds, m), Batch(Folded(q, 2^rounds, m), 2^rounds, m)), rounds)
          = Up(s, rounds)[q + 1]
    BY <2>n, <2>o, <1>p, <1>10, <2>2, BatchLands
  <2> HIDE DEF x
  <2>8. node = Up(s, rounds)[q + 1] BY <2>5, <2>7 DEF x
  <2>9. d + take = Folded(q + 1, 2^rounds, m) BY <1>7, <2>4, <2>6 DEF x
  <2>10. QED BY <2>3, <2>6, <2>8, <2>9
<1>12. node = Dense(g, up.level)[q + 1]
  <2>1. Up(Up(Leaves(g), lv), rounds) = Up(Leaves(g), lv + rounds) BY <1>5, UpAdds
  <2>2. QED BY <1>5, <1>11, <2>1 DEF Dense
<1>13. InPlace(g, Append(u, node)) /\ node \in Nodes(g)
  <2>1. q \in 0..(up.count - 1) BY <1>5, <1>8, <1>11
  <2>2. Large(NumChunks(g)) BY <1>1
  <2>3. q \in 0..(cps[l + 1].count - 1) /\ Len(u) = cps[l + 1].offset + q
        /\ node = Dense(g, cps[l + 1].level)[q + 1]
    BY <1>4, <1>8, <1>12, <2>1
  <2> HIDE DEF u
  <2>4. QED BY <1>1, <1>2, <1>3, <1>5, <1>6, <2>2, <2>3, NextInPlace
<1>14. f.nodes \o Append(b, node) = Append(u, node) /\ Append(b, node) \in Seq(Nodes(g))
       /\ Len(Append(u, node)) = Len(u) + 1
  <2> DEFINE V == Nodes(g)
             a == f.nodes
  <2>1. a \in Seq(V) /\ b \in Seq(V) /\ node \in V BY <1>13
  <2> HIDE DEF V, a
  <2>2. a \o Append(b, node) = Append(a \o b, node) /\ Append(b, node) \in Seq(V)
        /\ Len(Append(a \o b, node)) = Len(a \o b) + 1
    BY <2>1, AppendJoins
  <2>3. QED BY <2>2 DEF V, a
<1>15. Len(Append(u, node)) - (o + m) = q + 1 /\ q + 1 <= up.count
  <2> DEFINE x == Len(u)
             c == up.count
  <2>1. x \in Nat /\ x - (o + m) = q /\ q < c /\ c \in Nat BY <1>4, <1>5, <1>6, <1>11
  <2> HIDE DEF x, c
  <2>2. (x + 1) - (o + m) = q + 1 /\ q + 1 <= c
    <3>1. q \in Nat BY <1>8
    <3>2. QED BY <1>p, <2>1, <3>1
  <2>3. QED BY <1>14, <2>2 DEF x, c
<1>16. LevelFolded(g, f, Append(b, node), d + take, l)
  <2>1. /\ Len(Append(u, node)) - (cps[l].offset + cps[l].count) <= cps[l + 1].count
        /\ d + take = Folded(Len(Append(u, node)) - (cps[l].offset + cps[l].count), 2^rounds, cps[l].count)
    BY <1>4, <1>11, <1>15
  <2>2. l # Len(cps)
    <3>1. Len(cps) \in Nat BY <1>2 DEF Layout
    <3>2. l < Len(cps) BY <1>l
    <3>3. QED BY <3>1, <3>2
  <2>3. rounds = cps[l + 1].level - cps[l].level BY <1>l
  <2> DEFINE v == Append(u, node)
             x == d + take
  <2>4. f.nodes \o Append(b, node) = v /\ InPlace(g, v) BY <1>13, <1>14
  <2> HIDE DEF u, v, x
  <2>5. QED BY <1>2, <1>3, <2>1, <2>2, <2>3, <2>4, Zenon DEF LevelFolded, v, x
<1>17. QED BY <1>14, <1>16

\* Some of the buffer goes to the file.
LEMMA DrainJoins ==
    ASSUME NEW V, NEW a \in Seq(V), NEW b \in Seq(V), NEW k \in 1..Len(b)
    PROVE  /\ a \o SubSeq(b, 1, k) \in Seq(V) /\ SubSeq(b, k + 1, Len(b)) \in Seq(V)
           /\ (a \o SubSeq(b, 1, k)) \o SubSeq(b, k + 1, Len(b)) = a \o b
           /\ Len(a) <= Len(a \o SubSeq(b, 1, k))
           /\ Len(a) \in Nat /\ Len(a \o SubSeq(b, 1, k)) \in Nat
<1> DEFINE x == SubSeq(b, 1, k)
           y == SubSeq(b, k + 1, Len(b))
           m == Len(b)
<1>1. m \in Nat /\ k \in Nat /\ 1 <= k /\ k <= m OBVIOUS
<1>2. x \in Seq(V) /\ Len(x) = k /\ \A i \in 1..k : x[i] = b[i] OBVIOUS
<1>3. y \in Seq(V) /\ Len(y) = m - k /\ \A i \in 1..(m - k) : y[i] = b[k + i] OBVIOUS
<1>4. Len(a) \in Nat OBVIOUS
<1> DEFINE s == (a \o x) \o y
           t == a \o b
           n == Len(a)
<1>5. t \in Seq(V) /\ Len(t) = n + m
      /\ \A i \in 1..Len(t) : t[i] = IF i <= n THEN a[i] ELSE b[i - n]
  OBVIOUS
<1> HIDE DEF x, y, m
<1>6. a \o x \in Seq(V) /\ Len(a \o x) = n + k
      /\ \A i \in 1..(n + k) : (a \o x)[i] = IF i <= n THEN a[i] ELSE x[i - n]
  BY <1>1, <1>2
<1> DEFINE z == a \o x
<1> HIDE DEF z
<1>7. z \in Seq(V) /\ Len(z) = n + k /\ \A i \in 1..(n + k) : z[i] = IF i <= n THEN a[i] ELSE x[i - n]
  BY <1>6 DEF z
<1>8. z \o y \in Seq(V) /\ Len(z \o y) = (n + k) + (m - k)
      /\ \A i \in 1..((n + k) + (m - k)) : (z \o y)[i] = IF i <= n + k THEN z[i] ELSE y[i - (n + k)]
  <2> DEFINE lz == Len(z)
             ly == Len(y)
  <2>1. z \o y \in Seq(V) /\ Len(z \o y) = lz + ly
        /\ \A i \in 1..(lz + ly) : (z \o y)[i] = IF i <= lz THEN z[i] ELSE y[i - lz]
    <3>1. z \in Seq(V) /\ y \in Seq(V) BY <1>3, <1>7
    <3>2. QED BY <3>1
  <2>2. lz = n + k /\ ly = m - k BY <1>3, <1>7
  <2> HIDE DEF lz, ly, n
  <2>3. QED BY <2>1, <2>2
<1> HIDE DEF n
<1>9. s \in Seq(V) /\ Len(s) = n + m
      /\ \A i \in 1..(n + m) : s[i] = IF i <= n + k THEN z[i] ELSE y[i - (n + k)]
  <2>1. (n + k) + (m - k) = n + m BY <1>1, <1>4 DEF n
  <2>2. QED BY <1>8, <2>1 DEF z
<1> HIDE DEF s, t
<1>10. ASSUME NEW i \in 1..Len(s) PROVE s[i] = t[i]
  <2>1. n \in Nat /\ i \in 1..(n + m) /\ i \in 1..Len(t) BY <1>4, <1>5, <1>9 DEF n
  <2>2. s[i] = IF i <= n + k THEN z[i] ELSE y[i - (n + k)] BY <1>9, <2>1
  <2>3. t[i] = IF i <= n THEN a[i] ELSE b[i - n] BY <1>5, <2>1
  <2>4. CASE i <= n
    <3>1. i \in 1..(n + k) /\ i <= n + k BY <1>1, <2>1, <2>4
    <3>2. z[i] = a[i] BY <1>7, <2>4, <3>1
    <3>3. QED BY <2>2, <2>3, <2>4, <3>1, <3>2
  <2>5. CASE ~(i <= n) /\ i <= n + k
    <3>1. i \in 1..(n + k) /\ i - n \in 1..k BY <1>1, <2>1, <2>5
    <3>2. z[i] = x[i - n] BY <1>7, <2>5, <3>1
    <3>3. x[i - n] = b[i - n] BY <1>2, <3>1
    <3>4. QED BY <2>2, <2>3, <2>5, <3>2, <3>3
  <2>6. CASE ~(i <= n) /\ ~(i <= n + k)
    <3>1. i - (n + k) \in 1..(m - k) /\ k + (i - (n + k)) = i - n BY <1>1, <2>1, <2>6
    <3>2. y[i - (n + k)] = b[k + (i - (n + k))] BY <1>3, <3>1
    <3>3. QED BY <2>2, <2>3, <2>6, <3>1, <3>2
  <2>7. QED BY <2>4, <2>5, <2>6
<1>11. s = t BY <1>5, <1>9, <1>10, SameSeq
<1>12. n \in Nat /\ n + k \in Nat /\ n <= n + k BY <1>1, <1>4 DEF n
<1>13. s = t /\ a \o x \in Seq(V) /\ y \in Seq(V) /\ Len(a \o x) = n + k BY <1>3, <1>6, <1>11
<1>14. QED BY <1>12, <1>13 DEF s, t, x, y, m, n

LEMMA FlushJoins ==
    ASSUME NEW V, NEW a \in Seq(V), NEW b \in Seq(V)
    PROVE  /\ a \o b \in Seq(V) /\ << >> \in Seq(V) /\ (a \o b) \o << >> = a \o b
           /\ Len(a \o b) \in Nat /\ Len(a) \in Nat /\ Len(a) <= Len(a \o b)
<1> DEFINE s == a \o b
<1>1. s \in Seq(V) /\ Len(s) \in Nat /\ Len(a) \in Nat /\ Len(a) <= Len(s) OBVIOUS
<1> HIDE DEF s
<1>2. s \o << >> = s /\ << >> \in Seq(V) BY <1>1
<1>3. QED BY <1>1, <1>2 DEF s

LEMMA LeavesDone ==
    ASSUME NEW g \in Ggufs, NEW f, f.nodes \in Seq(Nodes(g)), NEW b \in Seq(Nodes(g)), NEW l,
           LeavesFolded(g, f, b, NumChunks(g), l)
    PROVE  LevelFolded(g, Tree(f.nodes \o b), << >>, 0, l)
<1> DEFINE n == NumChunks(g)
           cps == compute_checkpoint_offsets(n)
           u == f.nodes \o b
           q == Len(u)
           w == 2^CHECKPOINT_INTERVAL
           c == cps[1].count
<1>1. g \in Seq(Tensor) /\ Large(n) /\ n \in Nat BY GgufIsLarge, LeavesAreSeq
<1>2. Layout(n, cps) BY <1>1, LaidOut
<1>3. 1 \in 1..Len(cps) BY <1>2 DEF Layout
<1>4. cps[1].offset = 0 /\ cps[1].count \in Nat /\ cps[1].count = count_at_level(n, CHECKPOINT_INTERVAL)
  BY <1>1, <1>2, <1>3, LayoutAt
<1>5. l = 1 /\ InPlace(g, u) /\ q <= c /\ n = Folded(q, w, n) BY DEF LeavesFolded
<1>6. u \in Seq(Nodes(g)) /\ q \in Nat /\ u \o << >> = u
  <2> DEFINE V == Nodes(g)
             a == f.nodes
  <2>1. a \in Seq(V) /\ b \in Seq(V) OBVIOUS
  <2> HIDE DEF V, a
  <2>2. a \o b \in Seq(V) /\ Len(a \o b) \in Nat /\ (a \o b) \o << >> = a \o b BY <2>1, FlushJoins
  <2>3. QED BY <2>2 DEF a, V
<1>7. CHECKPOINT_INTERVAL \in Nat /\ w \in Nat BY TreeAssumption, PowerPositive
<1>8. q = c
  <2>1. ~(q * w < n)
    <3> HIDE DEF q, w, n
    <3>1. n = IF q * w < n THEN q * w ELSE n BY <1>5 DEF Folded
    <3>2. q * w \in Nat BY <1>6, <1>7
    <3>3. QED BY <1>1, <3>1, <3>2
  <2>2. ~(q < c)
    <3> HIDE DEF q, n
    <3>1. QED BY <1>1, <1>4, <1>6, <1>7, <2>1, CountCeil DEF c, w
  <2>3. q \in Nat /\ c \in Nat /\ q <= c BY <1>4, <1>5, <1>6
  <2> HIDE DEF q, c
  <2>4. QED BY <2>2, <2>3
<1>9. cps[1].offset + cps[1].count = q /\ q - q = 0 /\ q <= q BY <1>4, <1>6, <1>8
<1>10. ASSUME 1 < Len(cps)
       PROVE  /\ 0 <= cps[2].count
              /\ 0 = Folded(0, 2^(cps[2].level - cps[1].level), cps[1].count)
  <2> DEFINE r == cps[2].level - cps[1].level
             z == 2^r
  <2>1. 1 + 1 = 2 OBVIOUS
  <2>2. cps[1 + 1].count \in Nat /\ cps[1 + 1].level - cps[1].level \in Nat /\ cps[1].count \in Nat \ {0}
    BY <1>1, <1>2, <1>3, <1>10, LayoutPair
  <2>3. cps[2].count \in Nat /\ r \in Nat /\ c \in Nat \ {0} BY <2>1, <2>2
  <2>4. z \in Nat BY <2>3, PowerPositive
  <2> HIDE DEF z, c
  <2>5. 0 * z = 0 /\ 0 < c BY <2>3, <2>4
  <2>6. 0 = Folded(0, z, c) BY <2>5 DEF Folded
  <2>7. QED BY <2>3, <2>6 DEF z, c
<1>11. Tree(u).nodes = u /\ Tree(u).there BY DEF Tree
<1>12. LevelFolded(g, Tree(u), << >>, 0, 1)
  <2>1. 1 + 1 = 2 OBVIOUS
  <2> HIDE DEF u
  <2>2. Len(u) = q BY DEF u
  <2> HIDE DEF q
  <2>3. QED BY <1>3, <1>5, <1>6, <1>9, <1>10, <1>11, <2>1, <2>2 DEF LevelFolded
<1>13. QED BY <1>5, <1>12

\* Level l is folded to its end.
LevelFull(g, d, l, cps) ==
    cps = compute_checkpoint_offsets(NumChunks(g)) /\ l < Len(cps) /\ d = cps[l].count

LEMMA LevelDone ==
    ASSUME NEW g \in Ggufs, NEW f, f.nodes \in Seq(Nodes(g)), NEW b \in Seq(Nodes(g)), NEW d, NEW l,
           LevelFolded(g, f, b, d, l), NEW cps, LevelFull(g, d, l, cps)
    PROVE  LevelFolded(g, Tree(f.nodes \o b), << >>, 0, l + 1)
<1> DEFINE n == NumChunks(g)
           u == f.nodes \o b
<1>1. g \in Seq(Tensor) /\ Large(n) /\ n \in Nat BY GgufIsLarge, LeavesAreSeq
<1>2. Layout(n, cps) /\ cps = compute_checkpoint_offsets(n) /\ l < Len(cps) BY <1>1, LaidOut DEF LevelFull
<1>3. PICK m, o, r, up, q : /\ m = cps[l].count /\ o = cps[l].offset /\ r = cps[l + 1].level - cps[l].level
                            /\ up = cps[l + 1] /\ q = Len(u) - (o + m)
  OBVIOUS
<1>4. /\ l \in 1..Len(cps) /\ InPlace(g, u) /\ q <= up.count /\ m = Folded(q, 2^r, m)
      /\ o + m <= Len(f.nodes)
  BY <1>2, <1>3 DEF LevelFolded, LevelFull
<1>5. m \in Nat /\ o \in Nat /\ r \in Nat /\ l + 1 \in 1..Len(cps)
      /\ up.count \in Nat /\ up.count = count_at_level(m, r) /\ up.offset = o + m
  <2> HIDE DEF n
  <2>1. Large(n) /\ l \in 1..Len(cps) /\ l < Len(cps) BY <1>1, <1>2, <1>4
  <2>2. /\ l + 1 \in 1..Len(cps)
        /\ cps[l].count \in Nat \ {0} /\ cps[l].offset \in Nat
        /\ cps[l + 1].count \in Nat \ {0}
        /\ cps[l + 1].count = count_at_level(cps[l].count, cps[l + 1].level - cps[l].level)
        /\ cps[l + 1].level - cps[l].level \in Nat
        /\ cps[l + 1].offset = cps[l].offset + cps[l].count
    BY <1>2, <2>1, LayoutPair
  <2>3. QED BY <1>3, <2>2
<1>6. u \in Seq(Nodes(g)) /\ Len(u) \in Nat /\ Len(f.nodes) \in Nat /\ Len(f.nodes) <= Len(u) /\ u \o << >> = u
  <2> DEFINE V == Nodes(g)
             a == f.nodes
  <2>1. a \in Seq(V) /\ b \in Seq(V) OBVIOUS
  <2> HIDE DEF V, a
  <2>2. a \o b \in Seq(V) /\ Len(a \o b) \in Nat /\ Len(a) \in Nat /\ Len(a) <= Len(a \o b)
        /\ (a \o b) \o << >> = a \o b
    BY <2>1, FlushJoins
  <2>3. QED BY <2>2 DEF a, V
<1>7. q \in Nat /\ Len(u) = up.offset + q
  <2> DEFINE x == Len(u)
             y == Len(f.nodes)
             oo == up.offset
  <2>1. x \in Nat /\ y \in Nat /\ y <= x /\ o + m <= y /\ oo = o + m /\ q = x - (o + m)
    BY <1>3, <1>4, <1>5, <1>6
  <2>2. m \in Nat /\ o \in Nat BY <1>5
  <2> HIDE DEF x, y, oo
  <2>3. q \in Nat /\ x = oo + q BY <2>1, <2>2
  <2>4. QED BY <2>3 DEF x, oo
<1>8. q = up.count
  <2> DEFINE w == 2^r
             c == up.count
  <2>1. w \in Nat BY <1>5, PowerPositive
  <2>2. ~(q * w < m)
    <3>1. m = Folded(q, w, m) BY <1>4
    <3> HIDE DEF w
    <3>2. m = IF q * w < m THEN q * w ELSE m BY <3>1 DEF Folded
    <3>3. q * w \in Nat BY <1>7, <2>1
    <3>4. m \in Nat BY <1>5
    <3>5. QED BY <3>2, <3>3, <3>4
  <2>3. ~(q < count_at_level(m, r))
    <3>1. m \in Nat /\ r \in Nat /\ q \in Nat BY <1>5, <1>7
    <3>2. q < count_at_level(m, r) <=> q * w < m BY <3>1, CountCeil
    <3>3. QED BY <2>2, <3>2
  <2>4. c = count_at_level(m, r) /\ c \in Nat /\ q \in Nat /\ q <= c BY <1>4, <1>5, <1>7
  <2> HIDE DEF c
  <2>5. QED BY <2>3, <2>4 DEF c
<1>9. /\ up.offset + up.count = Len(u) /\ Len(u) - Len(u) = 0 /\ Len(u) <= Len(u)
  BY <1>6, <1>7, <1>8
<1>10. ASSUME l + 1 < Len(cps)
       PROVE  /\ 0 <= cps[l + 1 + 1].count
              /\ 0 = Folded(0, 2^(cps[l + 1 + 1].level - up.level), up.count)
  <2> DEFINE k == l + 1
  <2>1. k \in 1..Len(cps) /\ k < Len(cps) /\ Large(n) BY <1>1, <1>5, <1>10
  <2> HIDE DEF k, n
  <2>2. cps[k + 1].count \in Nat /\ cps[k + 1].level - cps[k].level \in Nat /\ cps[k].count \in Nat \ {0}
    BY <1>2, <2>1, LayoutPair
  <2> DEFINE e == cps[k + 1].level - up.level
             z == 2^e
             c == up.count
             y == cps[k + 1].count
  <2>3. y \in Nat /\ e \in Nat /\ c \in Nat \ {0} BY <1>3, <2>2 DEF k
  <2>4. z \in Nat BY <2>3, PowerPositive
  <2> HIDE DEF z, c, y
  <2>5. 0 * z = 0 /\ 0 < c /\ 0 <= y BY <2>3, <2>4
  <2>6. 0 = Folded(0, z, c) BY <2>5 DEF Folded
  <2>7. QED BY <2>5, <2>6 DEF z, c, y, k
<1>11. Tree(u).nodes = u /\ Tree(u).there BY DEF Tree
<1>12. LevelFolded(g, Tree(u), << >>, 0, l + 1)
  <2> DEFINE k == l + 1
             q2 == Len(u)
  <2>1. /\ cps[k].offset + cps[k].count = q2 /\ q2 - q2 = 0 /\ q2 <= q2 BY <1>3, <1>9
  <2>2. k < Len(cps) => /\ 0 <= cps[k + 1].count
                        /\ 0 = Folded(0, 2^(cps[k + 1].level - cps[k].level), cps[k].count)
    BY <1>3, <1>10
  <2>3. k \in 1..Len(cps) BY <1>5
  <2> HIDE DEF u, k
  <2>4. Tree(u).nodes \o << >> = u /\ Tree(u).nodes = u BY <1>6, <1>11
  <2> HIDE DEF q2
  <2>5. Len(u) = q2 BY DEF q2
  <2>6. /\ q2 - (cps[k].offset + cps[k].count) = 0 /\ cps[k].offset + cps[k].count <= q2 BY <2>1
  <2>7. LevelFolded(g, Tree(u), << >>, 0, k)
    BY <1>2, <1>4, <1>11, <2>2, <2>3, <2>4, <2>5, <2>6 DEF LevelFolded
  <2>8. QED BY <2>7 DEF k
<1>13. QED BY <1>12

LEMMA LevelsDone ==
    ASSUME NEW g \in Ggufs, NEW f, f.nodes \in Seq(Nodes(g)), NEW b \in Seq(Nodes(g)), NEW d, NEW l,
           LevelFolded(g, f, b, d, l), l = Len(compute_checkpoint_offsets(NumChunks(g)))
    PROVE  f.there /\ Len(f.nodes) = FileSize(NumChunks(g)) /\ InPlace(g, f.nodes)
<1> DEFINE n == NumChunks(g)
           cps == compute_checkpoint_offsets(n)
           u == f.nodes \o b
<1>1. g \in Seq(Tensor) /\ Large(n) BY GgufIsLarge
<1>2. Layout(n, cps) BY <1>1, LaidOut
<1>3. /\ f.there /\ InPlace(g, u) /\ l \in 1..Len(cps)
      /\ cps[l].offset + cps[l].count <= Len(f.nodes)
      /\ Len(u) - (cps[l].offset + cps[l].count) = 0
  BY DEF LevelFolded
<1>4. cps[l].count = 1 /\ FileSize(n) = cps[l].offset + 1 /\ cps[l].offset \in Nat
  <2>1. cps[l].offset \in Nat BY <1>1, <1>2, <1>3, LayoutAt
  <2>2. QED BY <1>2, <2>1 DEF Layout
<1>5. InPlace(g, f.nodes) /\ Len(u) \in Nat /\ Len(f.nodes) \in Nat /\ Len(f.nodes) <= Len(u)
  <2> DEFINE V == Nodes(g)
             a == f.nodes
  <2>1. a \in Seq(V) /\ b \in Seq(V) OBVIOUS
  <2>2. InPlace(g, a \o b) BY <1>3
  <2> HIDE DEF V, a
  <2>3. Len(a) \in Nat /\ Len(a \o b) \in Nat /\ Len(a) <= Len(a \o b) BY <2>1, FlushJoins
  <2>4. InPlace(g, a) BY <1>1, <2>1, <2>2, BeginningInPlace
  <2>5. QED BY <2>3, <2>4 DEF a
<1>6. Len(f.nodes) = FileSize(n)
  <2> DEFINE x == Len(u)
             y == Len(f.nodes)
             o == cps[l].offset
             z == FileSize(n)
  <2>1. x \in Nat /\ y \in Nat /\ y <= x /\ o \in Nat /\ o + 1 <= y /\ x - (o + 1) = 0 /\ z = o + 1
    BY <1>3, <1>4, <1>5
  <2> HIDE DEF x, y, o, z
  <2>2. y = z BY <2>1
  <2>3. QED BY <2>2 DEF y, z
<1>7. QED BY <1>3, <1>5, <1>6

LEMMA Drained ==
    ASSUME NEW g \in Ggufs, NEW f, f.nodes \in Seq(Nodes(g)), NEW b \in Seq(Nodes(g)), NEW d, NEW l,
           NEW k \in 1..Len(b)
    PROVE  /\ LeavesFolded(g, f, b, d, l) =>
                 LeavesFolded(g, Tree(f.nodes \o SubSeq(b, 1, k)), SubSeq(b, k + 1, Len(b)), d, l)
           /\ LevelFolded(g, f, b, d, l) =>
                 LevelFolded(g, Tree(f.nodes \o SubSeq(b, 1, k)), SubSeq(b, k + 1, Len(b)), d, l)
           /\ f.nodes \o SubSeq(b, 1, k) \in Seq(Nodes(g)) /\ SubSeq(b, k + 1, Len(b)) \in Seq(Nodes(g))
<1> DEFINE x == f.nodes \o SubSeq(b, 1, k)
           y == SubSeq(b, k + 1, Len(b))
           u == f.nodes \o b
<1>1. x \in Seq(Nodes(g)) /\ y \in Seq(Nodes(g)) /\ x \o y = u /\ Len(f.nodes) <= Len(x)
      /\ Len(f.nodes) \in Nat /\ Len(x) \in Nat
  <2> DEFINE V == Nodes(g)
             a == f.nodes
  <2>1. a \in Seq(V) /\ b \in Seq(V) OBVIOUS
  <2> HIDE DEF V, a
  <2>2. /\ a \o SubSeq(b, 1, k) \in Seq(V) /\ SubSeq(b, k + 1, Len(b)) \in Seq(V)
        /\ (a \o SubSeq(b, 1, k)) \o SubSeq(b, k + 1, Len(b)) = a \o b
        /\ Len(a) <= Len(a \o SubSeq(b, 1, k))
        /\ Len(a) \in Nat /\ Len(a \o SubSeq(b, 1, k)) \in Nat
    BY <2>1, DrainJoins
  <2>3. QED BY <2>2 DEF V, a
<1>2. Tree(x).nodes = x /\ Tree(x).there BY DEF Tree
<1> HIDE DEF x, y
<1>3. LeavesFolded(g, f, b, d, l) => LeavesFolded(g, Tree(x), y, d, l)
  BY <1>1, <1>2, Zenon DEF LeavesFolded
<1>4. ASSUME LevelFolded(g, f, b, d, l) PROVE LevelFolded(g, Tree(x), y, d, l)
  <2> DEFINE cps == compute_checkpoint_offsets(NumChunks(g))
             e == cps[l].offset + cps[l].count
  <2>1. l \in 1..Len(cps) /\ e <= Len(f.nodes) BY <1>4 DEF LevelFolded
  <2>2. e \in Nat
    <3>1. g \in Seq(Tensor) /\ Large(NumChunks(g)) BY GgufIsLarge
    <3>2. Layout(NumChunks(g), cps) BY <3>1, LaidOut
    <3> HIDE DEF cps
    <3>3. cps[l].offset \in Nat /\ cps[l].count \in Nat BY <2>1, <3>1, <3>2, LayoutAt
    <3>4. QED BY <3>3
  <2> HIDE DEF e
  <2>3. e <= Len(x) BY <1>1, <2>1, <2>2
  <2>4. QED BY <1>1, <1>2, <1>4, <2>3, Zenon DEF LevelFolded, e
<1>5. QED BY <1>1, <1>3, <1>4 DEF x, y

\* A file that is taken for the index.
IsValid(g, f) == f.there /\ Len(f.nodes) = FileSize(NumChunks(g))

\* Of the variables' values: what a killed or an earlier process left is in place if its length
\* says it is an index, and a build's file and buffer are in place as far as they go.
IndexState(g, f, a, b, d, l) ==
    /\ g \in Ggufs /\ a \in {"down", "open", "leaves", "upper", "up"}
    /\ f.nodes \in Seq(Nodes(g)) /\ b \in Seq(Nodes(g))
    /\ a \in {"down", "open"} => (IsValid(g, f) => InPlace(g, f.nodes))
    /\ a = "leaves" => LeavesFolded(g, f, b, d, l)
    /\ a = "upper" => LevelFolded(g, f, b, d, l)
    /\ a = "up" => IsValid(g, f) /\ InPlace(g, f.nodes)
IndexInv == IndexState(gguf, file, at, buffer, done, level)

LEMMA TreeStarts == TreeInit => IndexInv
<1> SUFFICES ASSUME TreeInit PROVE IndexInv OBVIOUS
<1>1. gguf \in Ggufs /\ file \in {Absent, Legacy(gguf)} /\ at = "down" /\ buffer = << >> BY DEF TreeInit
<1>2. gguf \in Seq(Tensor) /\ Large(NumChunks(gguf)) BY <1>1, GgufIsLarge
<1>3. << >> \in Seq(Nodes(gguf)) OBVIOUS
<1>4. Absent.nodes = << >> /\ ~Absent.there BY DEF Absent
<1>5. Legacy(gguf).nodes \in Seq(Nodes(gguf)) /\ Len(Legacy(gguf).nodes) # FileSize(NumChunks(gguf))
  BY <1>2, LegacyIsLong
<1>6. file.nodes \in Seq(Nodes(gguf)) /\ ~IsValid(gguf, file)
  <2>1. CASE file = Absent BY <1>3, <1>4, <2>1 DEF IsValid
  <2>2. CASE file = Legacy(gguf) BY <1>5, <2>2 DEF IsValid
  <2>3. QED BY <1>1, <2>1, <2>2
<1>7. QED BY <1>1, <1>3, <1>6 DEF IndexInv, IndexState

LEMMA StartAndEndKeep ==
    ASSUME IndexInv, Start \/ Reuse \/ Finish
    PROVE  IndexInv'
<1> USE DEF IndexInv
<1>1. CASE Start BY <1>1 DEF Start, IndexState
<1>2. CASE Reuse BY <1>2 DEF Reuse, IndexState, Valid, IsValid
<1>3. CASE Finish
  <2>1. at = "upper" /\ at' = "up" /\ UNCHANGED <<gguf, file, buffer, done, level>>
        /\ level = Len(compute_checkpoint_offsets(NumChunks(gguf)))
    BY <1>3 DEF Finish, Checkpoints
  <2>2. gguf \in Ggufs /\ file.nodes \in Seq(Nodes(gguf)) /\ buffer \in Seq(Nodes(gguf))
        /\ LevelFolded(gguf, file, buffer, done, level)
    BY <2>1 DEF IndexState
  <2>3. IsValid(gguf, file) /\ InPlace(gguf, file.nodes) BY <2>1, <2>2, LevelsDone DEF IsValid
  <2>4. QED BY <2>1, <2>2, <2>3 DEF IndexState
<1>4. QED BY <1>1, <1>2, <1>3

LEMMA RebuildKeeps == ASSUME IndexInv, Rebuild PROVE IndexInv'
<1> DEFINE none == Tree(<< >>)
<1>1. at' = "leaves" /\ file' = none /\ buffer' = << >> /\ done' = 0 /\ level' = 1 /\ gguf' = gguf
  BY DEF Rebuild
<1>2. gguf \in Ggufs BY DEF IndexInv, IndexState
<1>3. gguf \in Seq(Tensor) /\ Large(NumChunks(gguf)) BY <1>2, GgufIsLarge
<1>4. none.nodes = << >> /\ none.there /\ << >> \in Seq(Nodes(gguf)) BY DEF Tree
<1>5. LeavesFolded(gguf, none, << >>, 0, 1)
  <2> DEFINE n == NumChunks(gguf)
             cps == compute_checkpoint_offsets(n)
             w == 2^CHECKPOINT_INTERVAL
             c == cps[1].count
  <2>1. Layout(n, cps) BY <1>3, LaidOut
  <2>2. 1 \in 1..Len(cps) BY <2>1 DEF Layout
  <2>3. c \in Nat BY <1>3, <2>1, <2>2, LayoutAt
  <2>4. w \in Nat /\ n \in Nat \ {0} BY <1>3, TreeAssumption, PowerPositive DEF Large
  <2> HIDE DEF w, n
  <2>5. 0 * w = 0 /\ 0 < n BY <2>4
  <2>6. 0 = Folded(0, w, n) BY <2>5 DEF Folded
  <2>7. << >> \o << >> = << >> /\ Len(<< >>) = 0 OBVIOUS
  <2>8. InPlace(gguf, << >>) BY <1>3, NoneInPlace
  <2>9. 0 <= c BY <2>3
  <2> HIDE DEF c, cps
  <2>10. QED BY <1>4, <2>6, <2>7, <2>8, <2>9 DEF LeavesFolded, w, n, c, cps
<1> HIDE DEF none
<1>6. QED BY <1>1, <1>2, <1>4, <1>5 DEF IndexInv, IndexState

LEMMA HashBatchKeeps == ASSUME IndexInv, HashBatch PROVE IndexInv'
<1> DEFINE n == NumChunks(gguf)
           take == IF n - done < 2^CHECKPOINT_INTERVAL THEN n - done ELSE 2^CHECKPOINT_INTERVAL
           node == fold_levels(SubSeq(Leaves(gguf), done + 1, done + take), CHECKPOINT_INTERVAL)
<1>1. /\ at = "leaves" /\ done < n /\ UNCHANGED <<gguf, file, at, level>>
      /\ buffer' = Append(buffer, node) /\ done' = done + take
  BY DEF HashBatch
<1>2. gguf \in Ggufs /\ file.nodes \in Seq(Nodes(gguf)) /\ buffer \in Seq(Nodes(gguf))
      /\ LeavesFolded(gguf, file, buffer, done, level)
  BY <1>1 DEF IndexInv, IndexState
<1>3. LeavesFolded(gguf, file, Append(buffer, node), done + take, level)
      /\ Append(buffer, node) \in Seq(Nodes(gguf))
  BY <1>1, <1>2, HashBatchFolds
<1> HIDE DEF node, take
<1>4. QED BY <1>1, <1>2, <1>3 DEF IndexInv, IndexState

LEMMA FoldBatchKeeps == ASSUME IndexInv, FoldBatch PROVE IndexInv'
<1> DEFINE cps == Checkpoints
           below == cps[level]
           rounds == cps[level + 1].level - below.level
           take == IF below.count - done < 2^rounds THEN below.count - done ELSE 2^rounds
           node == fold_levels([i \in 1..take |-> file.nodes[below.offset + done + i]], rounds)
<1>1. /\ at = "upper" /\ level < Len(cps) /\ UNCHANGED <<gguf, file, at, level>>
      /\ done < below.count /\ buffer' = Append(buffer, node) /\ done' = done + take
  BY DEF FoldBatch
<1>2. gguf \in Ggufs /\ file.nodes \in Seq(Nodes(gguf)) /\ buffer \in Seq(Nodes(gguf))
      /\ LevelFolded(gguf, file, buffer, done, level)
  BY <1>1 DEF IndexInv, IndexState
<1>3. LevelBatch(gguf, file, done, level, cps, rounds, take, node)
  BY <1>1 DEF LevelBatch, Batch, Checkpoints
<1> HIDE DEF cps, rounds, take, node
<1>4. LevelFolded(gguf, file, Append(buffer, node), done + take, level)
      /\ Append(buffer, node) \in Seq(Nodes(gguf))
  BY <1>2, <1>3, FoldBatchFolds
<1>5. QED BY <1>1, <1>2, <1>4 DEF IndexInv, IndexState

LEMMA FlushKeeps == ASSUME IndexInv, FinishLeaves \/ FinishLevel PROVE IndexInv'
<1> DEFINE all == Tree(file.nodes \o buffer)
<1>1. gguf \in Ggufs /\ file.nodes \in Seq(Nodes(gguf)) /\ buffer \in Seq(Nodes(gguf))
  BY DEF IndexInv, IndexState
<1>2. all.nodes \in Seq(Nodes(gguf)) /\ << >> \in Seq(Nodes(gguf))
  <2>1. file.nodes \o buffer \in Seq(Nodes(gguf)) BY <1>1, FlushJoins
  <2>2. QED BY <2>1 DEF Tree
<1>3. CASE FinishLeaves
  <2>1. /\ at = "leaves" /\ done = NumChunks(gguf) /\ at' = "upper" /\ UNCHANGED <<gguf, level>>
        /\ file' = all /\ buffer' = << >> /\ done' = 0
    BY <1>3 DEF FinishLeaves, Flush
  <2>2. LeavesFolded(gguf, file, buffer, NumChunks(gguf), level) BY <2>1 DEF IndexInv, IndexState
  <2>3. LevelFolded(gguf, all, << >>, 0, level) BY <1>1, <2>2, LeavesDone
  <2> HIDE DEF all
  <2>4. QED BY <1>1, <1>2, <2>1, <2>3 DEF IndexInv, IndexState
<1>4. CASE FinishLevel
  <2>1. /\ at = "upper" /\ UNCHANGED <<gguf, at>>
        /\ file' = all /\ buffer' = << >> /\ done' = 0 /\ level' = level + 1
    BY <1>4 DEF FinishLevel, Flush
  <2>2. LevelFull(gguf, done, level, Checkpoints) BY <1>4 DEF FinishLevel, LevelFull, Checkpoints
  <2>3. LevelFolded(gguf, file, buffer, done, level) BY <2>1 DEF IndexInv, IndexState
  <2>4. LevelFolded(gguf, all, << >>, 0, level + 1) BY <1>1, <2>2, <2>3, LevelDone
  <2> HIDE DEF all
  <2>5. QED BY <1>1, <1>2, <2>1, <2>4 DEF IndexInv, IndexState
<1>5. QED BY <1>3, <1>4

LEMMA DrainKeeps == ASSUME IndexInv, Drain PROVE IndexInv'
<1>1. PICK k \in 1..Len(buffer) : /\ file' = Tree(file.nodes \o SubSeq(buffer, 1, k))
                                  /\ buffer' = SubSeq(buffer, k + 1, Len(buffer))
  BY DEF Drain
<1>2. at \in {"leaves", "upper"} /\ UNCHANGED <<gguf, at, done, level>> BY DEF Drain
<1>3. gguf \in Ggufs /\ file.nodes \in Seq(Nodes(gguf)) /\ buffer \in Seq(Nodes(gguf))
      /\ (at = "leaves" => LeavesFolded(gguf, file, buffer, done, level))
      /\ (at = "upper" => LevelFolded(gguf, file, buffer, done, level))
  BY DEF IndexInv, IndexState
<1>4. /\ at = "leaves" => LeavesFolded(gguf, file', buffer', done, level)
      /\ at = "upper" => LevelFolded(gguf, file', buffer', done, level)
      /\ file'.nodes \in Seq(Nodes(gguf)) /\ buffer' \in Seq(Nodes(gguf))
  <2> DEFINE x == file.nodes \o SubSeq(buffer, 1, k)
             y == SubSeq(buffer, k + 1, Len(buffer))
  <2>1. /\ LeavesFolded(gguf, file, buffer, done, level) => LeavesFolded(gguf, Tree(x), y, done, level)
        /\ LevelFolded(gguf, file, buffer, done, level) => LevelFolded(gguf, Tree(x), y, done, level)
        /\ x \in Seq(Nodes(gguf)) /\ y \in Seq(Nodes(gguf))
    BY <1>3, Drained
  <2>2. file' = Tree(x) /\ buffer' = y BY <1>1
  <2> HIDE DEF x, y
  <2>3. file'.nodes = x BY <2>2 DEF Tree
  <2>4. QED BY <1>3, <2>1, <2>2, <2>3
<1>5. QED BY <1>2, <1>3, <1>4 DEF IndexInv, IndexState

\* What a killed build leaves in the file is in place, however far it came.
LEMMA CrashKeeps == ASSUME IndexInv, Crash PROVE IndexInv'
<1>1. at' = "down" /\ buffer' = << >> /\ UNCHANGED <<gguf, file>> BY DEF Crash
<1>2. gguf \in Ggufs /\ file.nodes \in Seq(Nodes(gguf)) /\ buffer \in Seq(Nodes(gguf))
  BY DEF IndexInv, IndexState
<1>3. gguf \in Seq(Tensor) /\ Large(NumChunks(gguf)) BY <1>2, GgufIsLarge
<1>4. ASSUME IsValid(gguf, file) PROVE InPlace(gguf, file.nodes)
  <2>1. CASE at \in {"down", "open"} BY <1>4, <2>1 DEF IndexInv, IndexState
  <2>2. CASE at = "up" BY <2>2 DEF IndexInv, IndexState
  <2>3. CASE at \in {"leaves", "upper"}
    <3>1. InPlace(gguf, file.nodes \o buffer)
      BY <2>3 DEF IndexInv, IndexState, LeavesFolded, LevelFolded
    <3>2. QED BY <1>2, <1>3, <3>1, BeginningInPlace
  <2>4. QED BY <2>1, <2>2, <2>3 DEF IndexInv, IndexState
<1>5. << >> \in Seq(Nodes(gguf)) OBVIOUS
<1>6. QED BY <1>1, <1>2, <1>4, <1>5 DEF IndexInv, IndexState

LEMMA TreeKeeps == IndexInv /\ [TreeNext]_treeVars => IndexInv'
<1> SUFFICES ASSUME IndexInv, [TreeNext]_treeVars PROVE IndexInv' OBVIOUS
<1>1. CASE UNCHANGED treeVars BY <1>1 DEF treeVars, IndexInv
<1>2. CASE TreeNext
  <2>1. \/ Start \/ Reuse \/ Finish \/ Rebuild \/ HashBatch \/ FoldBatch
        \/ FinishLeaves \/ FinishLevel \/ Drain \/ Crash
    BY <1>2 DEF TreeNext, Build
  <2>2. QED BY <2>1, StartAndEndKeep, RebuildKeeps, HashBatchKeeps, FoldBatchKeeps, FlushKeeps,
               DrainKeeps, CrashKeeps
<1>3. QED BY <1>1, <1>2

-----------------------------------------------------------------------------
(* The index's paths.                                                      *)

\* A whole index.
Whole(g, nodes) == InPlace(g, nodes) /\ Len(nodes) = FileSize(NumChunks(g))

\* A stored level is read where its checkpoint says.
LEMMA StoredIsDense ==
    ASSUME NEW g \in Ggufs, NEW nodes, Whole(g, nodes), NEW lv \in 0..RootLevel(NumChunks(g)),
           Stored(NumChunks(g), lv), NEW x \in 0..(count_at_level(NumChunks(g), lv) - 1)
    PROVE  nodes[find_checkpoint(NumChunks(g), lv).offset + x + 1] = Dense(g, lv)[x + 1]
<1> DEFINE n == NumChunks(g)
           cps == compute_checkpoint_offsets(n)
<1>1. g \in Seq(Tensor) /\ Large(n) BY GgufIsLarge
<1>2. Layout(n, cps) BY <1>1, LaidOut
<1>3. PICK j \in 1..Len(cps) : find_checkpoint(n, lv) = cps[j] /\ cps[j].level = lv BY <1>1, Found
<1>4. cps[j].offset \in Nat /\ cps[j].count \in Nat /\ cps[j].count = count_at_level(n, lv)
      /\ cps[j].offset + cps[j].count <= FileSize(n)
  BY <1>1, <1>2, <1>3, LayoutAt
<1>5. cps[j].offset + x + 1 <= FileSize(n) /\ x \in 0..(cps[j].count - 1)
  <2> DEFINE c == cps[j].count
             o == cps[j].offset
             z == FileSize(n)
  <2>1. x \in 0..(c - 1) /\ c \in Nat /\ o \in Nat /\ o + c <= z BY <1>4
  <2>2. z \in Nat
    <3>1. z = cps[Len(cps)].offset + 1 /\ Len(cps) \in 1..Len(cps) BY <1>2 DEF Layout
    <3>2. cps[Len(cps)].offset \in Nat BY <1>1, <1>2, <3>1, LayoutAt
    <3>3. QED BY <3>1, <3>2
  <2> HIDE DEF c, o, z
  <2>3. x \in Nat /\ x + 1 <= c BY <2>1
  <2>4. o + x + 1 <= z BY <2>1, <2>2, <2>3
  <2>5. QED BY <2>1, <2>4 DEF c, o, z
<1>6. nodes[cps[j].offset + x + 1] = Dense(g, cps[j].level)[x + 1]
  <2>1. Len(nodes) = FileSize(n) /\ InPlace(g, nodes) BY DEF Whole
  <2>2. cps[j].offset + x + 1 <= Len(nodes) BY <1>5, <2>1
  <2>3. QED BY <1>5, <2>1, <2>2 DEF InPlace
<1>7. QED BY <1>3, <1>6

\* compute_subtree_hash gives the dense tree's node, from the chunks or from a stored level.
LEMMA SubtreeIsDense ==
    ASSUME NEW g \in Ggufs, NEW nodes, Whole(g, nodes), NEW src \in 0..RootLevel(NumChunks(g)),
           src = 0 \/ Stored(NumChunks(g), src), NEW r \in Nat, NEW q \in Nat,
           q * 2^r < count_at_level(NumChunks(g), src)
    PROVE  compute_subtree_hash(g, nodes, q * 2^r, r, src) = Up(Dense(g, src), r)[q + 1]
<1> DEFINE n == NumChunks(g)
           c == count_at_level(n, src)
           s == Dense(g, src)
           w == 2^r
           y == q * w
           Source(i) == IF src = 0 THEN <<read_chunk(Table(g), i)>>
                        ELSE nodes[find_checkpoint(n, src).offset + i + 1]
           k == (IF y + w < c THEN y + w ELSE c) - y
           batch == [i \in 1..k |-> Source(y + i - 1)]
<1>1. g \in Seq(Tensor) /\ Large(n) /\ n \in Nat BY GgufIsLarge, LeavesAreSeq
<1>2. src \in Nat
  <2>1. RootLevel(n) \in Nat BY <1>1, LargeIsHigh
  <2>2. QED BY <2>1
<1>3. IsSeq(s) /\ Len(s) = c /\ c \in Nat BY <1>1, <1>2, DenseIsSeq
<1>4. w \in Nat \ {0} BY PowerPositive
<1>5. y < c OBVIOUS
<1>6. compute_subtree_hash(g, nodes, y, r, src) = fold_levels(batch, r) BY DEF compute_subtree_hash
<1>7. ASSUME NEW x \in 0..(c - 1) PROVE Source(x) = s[x + 1]
  <2>1. CASE src = 0
    <3>1. c = n
      <4>1. count_at_level(n, 0) = n BY <1>1, CountStep
      <4>2. QED BY <2>1, <4>1
    <3>2. x \in 0..(NumChunks(g) - 1) BY <3>1
    <3>3. read_chunk(Table(g), x) = Canonical(g)[x + 1] BY <1>1, <3>2, ReadChunkIsCanonical
    <3>4. s = Leaves(g)
      <4>1. Up(Leaves(g), 0) = Leaves(g) BY UpStep
      <4>2. QED BY <2>1, <4>1 DEF Dense
    <3>5. Leaves(g)[x + 1] = <<Canonical(g)[x + 1]>>
      <4>1. Leaves(g) = [i \in 1..NumChunks(g) |-> <<Canonical(g)[i]>>] BY <1>1, LeavesAreSeq
      <4>2. x + 1 \in 1..NumChunks(g) BY <1>1, <3>2
      <4>3. QED BY <4>1, <4>2
    <3>6. Source(x) = <<read_chunk(Table(g), x)>> BY <2>1
    <3>7. Source(x) = <<Canonical(g)[x + 1]>> BY <3>3, <3>6
    <3> HIDE DEF s, Source
    <3>8. QED BY <3>4, <3>5, <3>7
  <2>2. CASE src # 0
    <3>1. Stored(n, src) BY <2>2
    <3>2. nodes[find_checkpoint(n, src).offset + x + 1] = Dense(g, src)[x + 1] BY <3>1, StoredIsDense
    <3>3. QED BY <2>2, <3>2
  <2>3. QED BY <2>1, <2>2
<1> HIDE DEF Source, s, c, w
<1>8. y \in Nat BY <1>4
<1> HIDE DEF y
<1>9. k = (IF c - y < w THEN c - y ELSE w) /\ k \in Nat /\ y + k <= c BY <1>3, <1>4, <1>5, <1>8
<1>10. Part(s, q, w) = [i \in 1..k |-> s[y + i]]
  <2>1. Part(s, q, w) = [i \in 1..(IF c - y < w THEN c - y ELSE w) |-> s[y + i]] BY <1>3 DEF Part, y
  <2> HIDE DEF k
  <2>2. QED BY <1>9, <2>1
<1> HIDE DEF k
<1>11. ASSUME NEW i \in 1..k PROVE Source(y + i - 1) = s[y + i]
  <2> DEFINE x == y + i - 1
  <2>1. x \in 0..(c - 1) /\ x + 1 = y + i BY <1>3, <1>8, <1>9
  <2> HIDE DEF x
  <2>2. Source(x) = s[x + 1] BY <1>7, <2>1
  <2>3. QED BY <2>1, <2>2 DEF x
<1>12. batch = Part(s, q, w) BY <1>10, <1>11
<1>13. fold_levels(Part(s, q, w), r) = Up(s, r)[q + 1]
  <2>1. q * 2^r < Len(s) BY <1>3, <1>5 DEF y, w
  <2>2. QED BY <1>3, <2>1, FoldLands DEF w
<1>14. QED BY <1>6, <1>12, <1>13 DEF y, w, s

\* The sources of a level that is not stored.
LEMMA SourceBelow ==
    ASSUME NEW n, Large(n), NEW lv \in 0..RootLevel(n)
    PROVE  /\ SourceLevel(lv) \in 0..RootLevel(n) /\ lv - SourceLevel(lv) \in Nat
           /\ SourceLevel(lv) + (lv - SourceLevel(lv)) = lv
           /\ SourceLevel(lv) = 0 \/ Stored(n, SourceLevel(lv))
<1> DEFINE K == CHECKPOINT_INTERVAL
           d == lv \div K
           s == d * K
<1>1. K \in Nat \ {0} /\ RootLevel(n) \in Nat BY TreeAssumption, LargeIsHigh
<1>2. lv \in Nat BY <1>1
<1>3. d \in Nat /\ d * K <= lv BY <1>1, <1>2, DivFacts
<1>4. SourceLevel(lv) = s BY DEF SourceLevel
<1> HIDE DEF d, K
<1>5. s \in Nat /\ s <= lv BY <1>1, <1>3
<1>6. s \div K = d
  <2>1. d * K <= s /\ s < d * K + K BY <1>1, <1>5
  <2> HIDE DEF s
  <2>2. QED BY <1>1, <1>3, <1>5, <2>1, Quotient
<1>7. s % K = 0
  <2>1. s % K = s - (s \div K) * K
    <3> HIDE DEF s
    <3>1. QED BY <1>1, <1>5, DivFacts
  <2>2. s % K = s - d * K BY <1>6, <2>1
  <2>3. d * K = s /\ s \in Nat BY <1>5
  <2> HIDE DEF s
  <2>4. QED BY <2>2, <2>3
<1> HIDE DEF s
<1>8. s = 0 \/ Stored(n, s) BY <1>5, <1>7 DEF Stored, K
<1>9. s \in 0..RootLevel(n) /\ lv - s \in Nat /\ s + (lv - s) = lv BY <1>1, <1>2, <1>5
<1>10. QED BY <1>4, <1>8, <1>9

\* What merkle_path takes for node x of a level is the dense tree's.
LEMMA NodeIsDense ==
    ASSUME NEW g \in Ggufs, NEW nodes, Whole(g, nodes), NEW lv \in 0..(RootLevel(NumChunks(g)) - 1),
           NEW x \in 0..(count_at_level(NumChunks(g), lv) - 1)
    PROVE  (IF lv > 0 /\ lv % CHECKPOINT_INTERVAL = 0
            THEN nodes[find_checkpoint(NumChunks(g), lv).offset + x + 1]
            ELSE compute_subtree_hash(g, nodes, x * 2^(lv - SourceLevel(lv)), lv - SourceLevel(lv), SourceLevel(lv)))
           = Dense(g, lv)[x + 1]
<1> DEFINE n == NumChunks(g)
           src == SourceLevel(lv)
           r == lv - src
<1>1. g \in Seq(Tensor) /\ Large(n) /\ n \in Nat BY GgufIsLarge, LeavesAreSeq
<1>2. RootLevel(n) \in Nat BY <1>1, LargeIsHigh
<1>3. lv \in 0..RootLevel(n) /\ lv \in Nat BY <1>2
<1>4. CASE lv > 0 /\ lv % CHECKPOINT_INTERVAL = 0
  <2>1. Stored(n, lv) BY <1>4 DEF Stored
  <2>2. QED BY <1>3, <1>4, <2>1, StoredIsDense
<1>5. CASE ~(lv > 0 /\ lv % CHECKPOINT_INTERVAL = 0)
  <2>1. src \in 0..RootLevel(n) /\ r \in Nat /\ src + r = lv /\ (src = 0 \/ Stored(n, src))
    BY <1>1, <1>3, SourceBelow
  <2>2. src \in Nat BY <1>2, <2>1
  <2> HIDE DEF src, r
  <2>3. x \in Nat
    <3>1. count_at_level(n, lv) \in Nat BY <1>1, <1>3, CountStep
    <3>2. QED BY <3>1
  <2>4. x * 2^r < count_at_level(n, src)
    <3>1. count_at_level(n, src) \in Nat BY <1>1, <2>2, CountStep
    <3>2. count_at_level(count_at_level(n, src), r) = count_at_level(n, src + r)
      BY <1>1, <2>1, <2>2, CountAdds
    <3>3. count_at_level(n, lv) \in Nat BY <1>1, <1>3, CountStep
    <3>4. x < count_at_level(n, lv) BY <3>3
    <3>5. x < count_at_level(count_at_level(n, src), r) BY <2>1, <3>2, <3>4
    <3>6. QED BY <2>1, <2>3, <3>1, <3>5, CountCeil
  <2>5. compute_subtree_hash(g, nodes, x * 2^r, r, src) = Up(Dense(g, src), r)[x + 1]
    BY <2>1, <2>3, <2>4, SubtreeIsDense
  <2>6. Up(Dense(g, src), r) = Dense(g, lv)
    <3>1. Up(Up(Leaves(g), src), r) = Up(Leaves(g), src + r) BY <2>1, <2>2, UpAdds
    <3>2. QED BY <2>1, <3>1 DEF Dense
  <2>7. compute_subtree_hash(g, nodes, x * 2^r, r, src) = Dense(g, lv)[x + 1] BY <2>5, <2>6
  <2>8. QED BY <1>5, <2>7 DEF src, r
<1>6. QED BY <1>4, <1>5

LEMMA PathIsDense ==
    ASSUME NEW g \in Ggufs, NEW nodes, Whole(g, nodes), NEW off \in 0..(NumChunks(g) - 1)
    PROVE  merkle_path(g, nodes, off) = merkle_proof(Leaves(g), off)
<1> DEFINE n == NumChunks(g)
           R == RootLevel(n)
           Node(lv, real) ==
               IF lv > 0 /\ lv % CHECKPOINT_INTERVAL = 0
               THEN nodes[find_checkpoint(n, lv).offset + real + 1]
               ELSE compute_subtree_hash(g, nodes, real * 2^(lv - SourceLevel(lv)), lv - SourceLevel(lv),
                                         SourceLevel(lv))
           Index(lv) == off \div 2^lv
           Sibling(lv) == IF Index(lv) % 2 = 0 THEN Index(lv) + 1 ELSE Index(lv) - 1
           Real(lv) == IF Sibling(lv) < count_at_level(n, lv) THEN Sibling(lv) ELSE Index(lv)
<1>1. g \in Seq(Tensor) /\ Large(n) /\ n \in Nat \ {0} /\ Len(Leaves(g)) = n
  BY GgufIsLarge, LeavesAreSeq DEF Large
<1>2. R \in Nat BY <1>1, LargeIsHigh
<1>3. merkle_path(g, nodes, off) = [l \in 1..R |-> Node(l - 1, Real(l - 1))] BY DEF merkle_path
<1>4. merkle_proof(Leaves(g), off) =
          [l \in 1..R |-> IF Sibling(l - 1) < Len(Dense(g, l - 1))
                          THEN Dense(g, l - 1)[Sibling(l - 1) + 1] ELSE Dense(g, l - 1)[Index(l - 1) + 1]]
  BY <1>1 DEF merkle_proof, Dense
<1>5. ASSUME NEW l \in 1..R
      PROVE  Node(l - 1, Real(l - 1)) =
                 IF Sibling(l - 1) < Len(Dense(g, l - 1))
                 THEN Dense(g, l - 1)[Sibling(l - 1) + 1] ELSE Dense(g, l - 1)[Index(l - 1) + 1]
  <2> DEFINE lv == l - 1
             c == count_at_level(n, lv)
             i == Index(lv)
             sib == Sibling(lv)
             real == Real(lv)
             level0 == Dense(g, lv)
  <2>1. lv \in Nat /\ lv \in 0..(R - 1) BY <1>2
  <2>2. c \in Nat /\ Len(level0) = c BY <1>1, <2>1, DenseIsSeq
  <2>3. i \in 0..(c - 1) BY <1>1, <2>1, AboveIsWithin
  <2>4. sib = (IF i % 2 = 0 THEN i + 1 ELSE i - 1) /\ real = IF sib < c THEN sib ELSE i OBVIOUS
  <2> HIDE DEF lv, i, sib, real, Index, Sibling, Real, R, c
  <2>5. real \in 0..(c - 1) BY <2>2, <2>3, <2>4
  <2>6. Node(lv, real) = level0[real + 1] BY <2>1, <2>5, NodeIsDense DEF R, c
  <2> HIDE DEF Node, level0
  <2>7. Node(lv, real) = IF sib < Len(level0) THEN level0[sib + 1] ELSE level0[i + 1] BY <2>2, <2>4, <2>6
  <2>8. QED BY <2>7 DEF lv, i, sib, real, level0
<1> HIDE DEF Node, Index, Sibling, Real, R
<1>6. QED BY <1>3, <1>4, <1>5

(* The index's theorem.                                                    *)

\* An index that is up is the sparse form of the dense tree, whatever the file, the chunk and the
\* interval of the stored levels, however often a build was killed and whatever was on disk before:
\* its root is the tree's, and the path it gives for a chunk is the tree's and verifies.
THEOREM PomIndexIsDense == FairTreeSpec => []IndexIsDense
<1>1. IndexInv => IndexIsDense
  <2> DEFINE n == NumChunks(gguf)
             cps == Checkpoints
             root == file.nodes[cps[Len(cps)].offset + 1]
  <2> SUFFICES ASSUME IndexInv, at = "up"
               PROVE  /\ root = merkle_root(Leaves(gguf))
                      /\ \A off \in 0..(n - 1) :
                            /\ merkle_path(gguf, file.nodes, off) = merkle_proof(Leaves(gguf), off)
                            /\ verify_merkle(Leaf(gguf, off), off, merkle_path(gguf, file.nodes, off), root)
    BY DEF IndexIsDense
  <2>1. gguf \in Ggufs /\ Whole(gguf, file.nodes) BY DEF IndexInv, IndexState, IsValid, Whole
  <2>2. gguf \in Seq(Tensor) /\ Large(n) BY <2>1, GgufIsLarge
  <2>3. Len(Leaves(gguf)) = n /\ IsSeq(Leaves(gguf)) /\ n \in Nat BY <2>2, LeavesAreSeq
  <2>4. root = merkle_root(Leaves(gguf))
    <3>1. Layout(n, cps) /\ cps = compute_checkpoint_offsets(n) BY <2>2, LaidOut DEF Checkpoints
    <3>2. RootLevel(n) \in Nat /\ count_at_level(n, RootLevel(n)) = 1 BY <2>2, LargeIsHigh
    <3>3. Len(cps) \in 1..Len(cps) /\ cps[Len(cps)].level = RootLevel(n) /\ cps[Len(cps)].count = 1
          /\ FileSize(n) = cps[Len(cps)].offset + 1
      BY <3>1 DEF Layout
    <3>4. cps[Len(cps)].offset \in Nat BY <2>2, <3>1, <3>3, LayoutAt
    <3> DEFINE j == Len(cps)
               o == cps[j].offset
    <3>5. file.nodes[o + 0 + 1] = Dense(gguf, RootLevel(n))[0 + 1]
      <4>1. \A q \in 0..(cps[j].count - 1) :
               o + q + 1 <= Len(file.nodes) => file.nodes[o + q + 1] = Dense(gguf, cps[j].level)[q + 1]
        BY <2>1, <3>1, <3>3 DEF Whole, InPlace
      <4>2. 0 \in 0..(cps[j].count - 1) BY <3>3
      <4>3. o + 0 + 1 <= Len(file.nodes)
        <5>1. Len(file.nodes) = o + 1 BY <2>1, <3>3 DEF Whole
        <5>2. o \in Nat BY <3>4
        <5> HIDE DEF o
        <5>3. o + 0 + 1 = o + 1 /\ o + 1 <= o + 1 BY <5>2
        <5>4. QED BY <5>1, <5>3
      <4>4. QED BY <3>3, <4>1, <4>2, <4>3
    <3>6. o + 0 + 1 = o + 1 /\ 0 + 1 = 1 BY <3>4
    <3>7. root = Dense(gguf, RootLevel(n))[1] BY <3>5, <3>6
    <3>8. QED BY <2>3, <3>7 DEF merkle_root, Dense
  <2>5. ASSUME NEW off \in 0..(n - 1)
        PROVE  /\ merkle_path(gguf, file.nodes, off) = merkle_proof(Leaves(gguf), off)
               /\ verify_merkle(Leaf(gguf, off), off, merkle_path(gguf, file.nodes, off), root)
    <3>1. merkle_path(gguf, file.nodes, off) = merkle_proof(Leaves(gguf), off) BY <2>1, PathIsDense
    <3>2. Leaves(gguf)[off + 1] = Leaf(gguf, off)
      <4>1. Leaves(gguf) = [i \in 1..NumChunks(gguf) |-> <<Canonical(gguf)[i]>>] BY <2>2, LeavesAreSeq
      <4>2. off + 1 \in 1..NumChunks(gguf) BY <2>3
      <4>3. QED BY <4>1, <4>2 DEF Leaf
    <3>3. verify_merkle(Leaves(gguf)[off + 1], off, merkle_proof(Leaves(gguf), off), merkle_root(Leaves(gguf)))
      <4>1. off \in 0..(Len(Leaves(gguf)) - 1) BY <2>3
      <4>2. QED BY <2>3, <4>1, PathVerifies
    <3>4. QED BY <2>4, <3>1, <3>2, <3>3
  <2>6. QED BY <2>4, <2>5
<1>2. QED BY <1>1, TreeStarts, TreeKeeps, PTL DEF FairTreeSpec
==============================================================================
