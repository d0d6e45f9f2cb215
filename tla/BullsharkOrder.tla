--------------------------- MODULE BullsharkOrder ---------------------------
(*****************************************************************************)
(* What the DAG alone decides of Bullshark's order.                          *)
(*                                                                           *)
(* A leader with the support of a validity threshold is linked to every      *)
(* certificate two or more rounds above it, because each of those has a      *)
(* quorum of parents and quorums meet in a supporter (SupportedIsLinked).    *)
(* So the walks of order_leaders from two supported leaders end at the same  *)
(* oldest leader (FirstIsUnique): whichever leader a validator elects, the   *)
(* next one to commit is the same.  A validator that holds the parents of    *)
(* its certificates down to the gc round walks as if it had the whole DAG    *)
(* (WalkSame), and order_dag's search visits no certificate twice, ends      *)
(* within as many iterations as there are certificates (SearchEnds), and     *)
(* takes none that was committed before (CommitLeaderIs).                    *)
(*                                                                           *)
(* The recursive functions of Bullshark are introduced by the lemma          *)
(* Iteration: the defining equation of f[k] in terms of f[k - 1] has a       *)
(* solution, so the CHOOSE behind the definition satisfies it.               *)
(*****************************************************************************)
EXTENDS Bullshark, FiniteSetTheorems, TLAPS

-----------------------------------------------------------------------------
(* Numbers and functions *)

\* Every non-empty set of numbers has a least element: induction, as a fact to cite.
LEMMA LeastNat ==
    ASSUME NEW T, T \subseteq Nat, T # {}
    PROVE  \E x \in T : \A y \in T : x <= y
<1> DEFINE Less == {ss \in Nat \X Nat : ss[1] < ss[2]}
<1>1. IsWellFoundedOn(Less, Nat)
  BY NatLessThanWellFounded, Zenon DEF OpToRel
<1> HIDE DEF Less
<1>2. PICK x \in T : \A y \in T : ~ (<<y, x>> \in Less)
  BY <1>1, WFMin, Zenon
<1>3. ASSUME NEW y \in T PROVE x <= y
  <2>1. <<y, x>> \notin Less
    BY Zenon, <1>2
  <2>2. QED
    BY <2>1 DEF Less
<1>4. QED
  BY Zenon, <1>3

\* The rule of induction, for a set of numbers.
LEMMA Induction ==
    ASSUME NEW P, 0 \in P, \A n \in Nat : n \in P => n + 1 \in P
    PROVE  Nat \subseteq P
<1> SUFFICES ASSUME Nat \ P # {} PROVE FALSE
  BY Zenon
<1>1. PICK m \in Nat \ P : \A y \in Nat \ P : m <= y
  <2>1. PICK T : T = Nat \ P
    BY Zenon
  <2>2. QED
    BY Zenon, <2>1, LeastNat
<1>2. m # 0 /\ m - 1 \in Nat /\ ~(m <= m - 1) /\ (m - 1) + 1 = m
  OBVIOUS
<1>3. m - 1 \in P
  BY Zenon, <1>1, <1>2
<1>4. QED
  BY Zenon, <1>2, <1>3

\* f starts with x0, and step[n] gives the value that follows f[n].
IsIteration(f, S, x0, step) ==
    f \in [Nat -> S] /\ f[0] = x0 /\ \A n \in Nat : f[n + 1] = step[n][f[n]]

\* A function of Nat may be defined by its first value and by what follows each value.
LEMMA Iteration ==
    ASSUME NEW S, NEW x0 \in S, NEW step \in [Nat -> [S -> S]]
    PROVE  \E f : IsIteration(f, S, x0, step)
<1> DEFINE Upto(n, g) == /\ g \in [0 .. n -> S] /\ g[0] = x0
                         /\ \A i \in 0 .. (n - 1) : g[i + 1] = step[i][g[i]]
<1>1. \A n \in Nat : \E g : Upto(n, g)
  <2> DEFINE P == {n \in Nat : \E g : Upto(n, g)}
  <2>1. 0 \in P
    <3>1. Upto(0, [i \in 0 .. 0 |-> x0])
      OBVIOUS
    <3>2. QED
      BY Zenon, <3>1
  <2>2. ASSUME NEW n \in Nat, n \in P PROVE n + 1 \in P
    <3>1. PICK g : Upto(n, g)
      BY Zenon, <2>2
    <3>2. PICK h : h = [i \in 0 .. (n + 1) |-> IF i = n + 1 THEN step[n][g[n]] ELSE g[i]]
      BY Zenon
    <3>3. Upto(n + 1, h)
      <4>1. h \in [0 .. (n + 1) -> S]
        <5>1. g[n] \in S /\ step[n] \in [S -> S]
          BY <3>1
        <5>2. step[n][g[n]] \in S
          BY Zenon, <5>1
        <5>3. QED
          BY <3>1, <3>2, <5>2
      <4>2. h[0] = x0
        BY <3>1, <3>2
      <4>3. ASSUME NEW i \in 0 .. ((n + 1) - 1) PROVE h[i + 1] = step[i][h[i]]
        BY <3>1, <3>2
      <4>4. QED
        BY Zenon, <4>1, <4>2, <4>3
    <3>4. QED
      BY <3>3
  <2> HIDE DEF P
  <2>3. Nat \subseteq P
    BY Zenon, <2>1, <2>2, Induction
  <2>4. QED
    BY Zenon, <2>3 DEF P
<1>2. ASSUME NEW n \in Nat, NEW g, NEW h, Upto(n, g), Upto(n + 1, h) PROVE g = [i \in 0 .. n |-> h[i]]
  <2> DEFINE P == {i \in Nat : i <= n => g[i] = h[i]}
  <2>1. 0 \in P
    BY Zenon, <1>2
  <2>2. ASSUME NEW i \in Nat, i \in P PROVE i + 1 \in P
    <3>1. CASE i + 1 <= n
      <4>1. g[i] = h[i]
        BY <3>1, <2>2
      <4>2. i \in 0 .. (n - 1) /\ i \in 0 .. ((n + 1) - 1)
        BY <3>1
      <4>3. QED
        BY <1>2, <4>1, <4>2
    <3>2. QED
      BY <3>1
  <2> HIDE DEF P
  <2>3. Nat \subseteq P
    BY Zenon, <2>1, <2>2, Induction
  <2>4. \A i \in 0 .. n : g[i] = h[i]
    BY <2>3 DEF P
  <2>5. QED
    BY Zenon, <1>2, <2>4
<1> DEFINE G(n) == CHOOSE g : Upto(n, g)
<1>3. \A n \in Nat : Upto(n, G(n))
  BY <1>1, Zenon
<1> HIDE DEF G
<1>4. PICK f : f = [n \in Nat |-> G(n)[n]]
  BY Zenon
<1>5. f \in [Nat -> S]
  BY <1>3, <1>4
<1>6. f[0] = x0
  BY Zenon, <1>3, <1>4
<1>7. ASSUME NEW n \in Nat PROVE f[n + 1] = step[n][f[n]]
  <2>1. G(n) = [i \in 0 .. n |-> G(n + 1)[i]]
    <3>1. Upto(n, G(n)) /\ Upto(n + 1, G(n + 1))
      BY <1>3
    <3> HIDE DEF Upto
    <3>2. QED
      BY <3>1, <1>2
  <2>2. G(n)[n] = G(n + 1)[n]
    BY <2>1
  <2>3. G(n + 1)[n + 1] = step[n][G(n + 1)[n]]
    <3>1. Upto(n + 1, G(n + 1)) /\ n \in 0 .. ((n + 1) - 1)
      BY <1>3
    <3>2. QED
      BY Zenon, <3>1
  <2>4. QED
    BY <1>4, <2>2, <2>3
<1>8. QED
  BY Zenon, <1>5, <1>6, <1>7 DEF IsIteration

\* A bounded, non-empty set of numbers has a maximum.
LEMMA MaxOfBounded ==
    ASSUME NEW T, T \subseteq Nat, T # {}, NEW b \in Nat, \A x \in T : x <= b
    PROVE  Max(T) \in T /\ \A x \in T : x <= Max(T)
<1> DEFINE Bounds == {n \in Nat : \A x \in T : x <= n}
<1>1. Bounds \subseteq Nat /\ b \in Bounds
  BY Zenon
<1> HIDE DEF Bounds
<1>2. PICK m \in Bounds : \A y \in Bounds : m <= y
  BY Zenon, <1>1, LeastNat
<1>3. m \in Nat /\ \A x \in T : x <= m
  BY Zenon DEF Bounds
<1>4. m \in T
  <2> SUFFICES ASSUME m \notin T PROVE FALSE
    BY Zenon
  <2>1. PICK t : t \in T
    BY Zenon
  <2>2. m - 1 \in Nat /\ \A x \in T : x <= m - 1
    BY <1>3, <2>1
  <2>3. m - 1 \in Bounds
    BY Zenon, <2>2 DEF Bounds
  <2>4. QED
    BY <1>2, <1>3, <2>3
<1>5. m \in T /\ \A y \in T : m >= y
  BY Zenon, <1>3, <1>4
<1>6. Max(T) \in T /\ \A y \in T : Max(T) >= y
  <2> DEFINE Top(x) == \A y \in T : x >= y
  <2>1. m \in T /\ Top(m)
    BY Zenon, <1>5
  <2> HIDE DEF Top
  <2>2. PICK M : M = CHOOSE x \in T : Top(x)
    BY Zenon
  <2>3. M \in T /\ Top(M)
    BY <2>1, <2>2, Zenon
  <2>4. Max(T) = M
    BY <2>2, Zenon DEF Max, Top
  <2>5. QED
    BY Zenon, <2>3, <2>4 DEF Top
<1>7. QED
  BY Zenon, <1>6

\* If no two members of a finite set have the same rank, every rank is taken.
LEMMA EveryRank ==
    ASSUME NEW S, IsFiniteSet(S), NEW rank \in [S -> 1 .. Cardinality(S)],
           \A x, y \in S : rank[x] = rank[y] => x = y
    PROVE  \A k \in 1 .. Cardinality(S) : \E x \in S : rank[x] = k
<1> DEFINE n == Cardinality(S)
           T == 1 .. n
<1>1. n \in Nat
  BY Zenon, FS_CardinalityType
<1>2. IsFiniteSet(T) /\ Cardinality(T) = n
  BY <1>1, FS_Interval
<1>3. rank \in Injection(S, T)
  BY Zenon DEF Injection, IsInjective
<1> HIDE DEF T
<1>4. rank \in Surjection(S, T)
  BY <1>2, <1>3, FS_Injection, Zenon
<1>5. QED
  BY Zenon, <1>4 DEF Surjection, T

-----------------------------------------------------------------------------
(* Stake *)

\* The units of stake of a set of authorities are finitely many.
LEMMA FiniteStake == IsFiniteSet(Units(Authority)) /\ Total \in Nat
<1> DEFINE Of(a) == {a} \X (1 .. Stake[a])
           All == {Of(a) : a \in Authority}
<1>1. \A T \in All : IsFiniteSet(T)
  <2> SUFFICES ASSUME NEW a \in Authority PROVE IsFiniteSet(Of(a))
    BY Zenon
  <2>1. Stake[a] \in Nat
    BY Zenon, BullsharkAssumption
  <2>2. IsFiniteSet(1 .. Stake[a])
    BY SMTT(30), <2>1, FS_Interval
  <2>3. IsFiniteSet({a})
    BY FS_Singleton, Zenon
  <2>4. QED
    BY ZenonT(60), <2>2, <2>3, FS_Product
<1>2. IsFiniteSet(All)
  <2>1. PICK f : f = [a \in Authority |-> Of(a)]
    BY Zenon
  <2> HIDE DEF Of
  <2>2. f \in Surjection(Authority, All)
    BY Zenon, <2>1 DEF Surjection
  <2> HIDE DEF All
  <2>3. QED
    BY Zenon, <2>2, FS_Surjection, BullsharkAssumption
<1>3. IsFiniteSet(UNION All)
  <2> HIDE DEF All
  <2>1. QED
    BY Zenon, <1>1, <1>2, FS_UNION
<1>4. Units(Authority) = UNION All
  BY Zenon DEF Units
<1>5. QED
  BY Zenon, <1>3, <1>4, FS_CardinalityType DEF Total, StakeOf

\* More authorities have at least as much stake.
LEMMA StakeMonotone ==
    ASSUME NEW A, NEW B, A \subseteq B, B \subseteq Authority
    PROVE  StakeOf(A) \in Nat /\ StakeOf(B) \in Nat /\ StakeOf(A) <= StakeOf(B)
<1>1. Units(A) \subseteq Units(B) /\ Units(B) \subseteq Units(Authority)
  BY Zenon DEF Units
<1>2. IsFiniteSet(Units(B)) /\ IsFiniteSet(Units(A))
  BY Zenon, <1>1, FiniteStake, FS_Subset
<1>3. QED
  BY Zenon, <1>1, <1>2, FS_Subset, FS_CardinalityType DEF StakeOf

\* A quorum (2f + 1) and a set that reaches the validity threshold (f + 1) have
\* an authority in common.
LEMMA QuorumsMeet ==
    ASSUME NEW A, A \subseteq Authority, StakeOf(A) >= QuorumThreshold,
           NEW B, B \subseteq Authority, StakeOf(B) >= ValidityThreshold
    PROVE  A \cap B # {}
<1>1. Units(A) \subseteq Units(Authority) /\ Units(B) \subseteq Units(Authority)
  BY Zenon DEF Units
<1>2. StakeOf(A) \in Nat /\ StakeOf(B) \in Nat /\ Total \in Nat
  BY Zenon, StakeMonotone, FiniteStake
<1>3. StakeOf(A) + StakeOf(B) > Total
  BY <1>2 DEF QuorumThreshold, ValidityThreshold
<1>4. Units(A) \cap Units(B) # {}
  BY Zenon, <1>1, <1>3, FiniteStake, FS_MajoritiesIntersect DEF StakeOf, Total
<1>5. PICK u : u \in Units(A) /\ u \in Units(B)
  BY Zenon, <1>4
<1>6. u[1] \in A /\ u[1] \in B
  BY <1>5 DEF Units
<1>7. QED
  BY Zenon, <1>6

\* A quorum is not empty.
LEMMA QuorumNotEmpty ==
    ASSUME NEW A, A \subseteq Authority, StakeOf(A) >= QuorumThreshold
    PROVE  A # {}
<1>1. Total \in Nat
  BY Zenon, FiniteStake
<1>2. StakeOf({}) = 0
  <2>1. Units({}) = {}
    BY Zenon DEF Units
  <2>2. QED
    BY Zenon, <2>1, FS_EmptySet DEF StakeOf
<1>3. ~(0 >= QuorumThreshold)
  BY <1>1 DEF QuorumThreshold
<1>4. QED
  BY Zenon, <1>2, <1>3

-----------------------------------------------------------------------------
(* The DAG *)

\* What the proofs use of a DAG.
LEMMA DagShape ==
    ASSUME IsDag(parents)
    PROVE  /\ IsFiniteSet(DOMAIN parents)
           /\ \A c \in DOMAIN parents :
                /\ Round(c) \in Nat \ {0} /\ Origin(c) \in Authority
                /\ c = <<Round(c), Origin(c)>>
                /\ parents[c] \subseteq DOMAIN parents
                /\ \A d \in parents[c] : Round(d) = Round(c) - 1
<1>1. DOMAIN parents \subseteq (Nat \ {0}) \X Authority
  BY Zenon DEF IsDag
<1>2. ASSUME NEW c \in DOMAIN parents
      PROVE  Round(c) \in Nat \ {0} /\ Origin(c) \in Authority /\ c = <<Round(c), Origin(c)>>
  BY <1>1 DEF Round, Origin
<1>3. ASSUME NEW c \in DOMAIN parents
      PROVE  parents[c] \subseteq DOMAIN parents /\ \A d \in parents[c] : Round(d) = Round(c) - 1
  BY Zenon DEF IsDag
<1>4. IsFiniteSet(DOMAIN parents)
  BY Zenon DEF IsDag
<1>5. QED
  BY Zenon, <1>2, <1>3, <1>4

\* Reached is the function its recursive definition describes.
LEMMA ReachedIs ==
    ASSUME IsDag(parents), NEW dag, dag \subseteq DOMAIN parents, NEW l \in DOMAIN parents
    PROVE  /\ Reached(dag, l) \in [Nat -> SUBSET DOMAIN parents]
           /\ Reached(dag, l)[0] = {l}
           /\ \A k \in Nat : Reached(dag, l)[k + 1] =
                                 dag \cap UNION {parents[x] : x \in Reached(dag, l)[k]}
<1> DEFINE S == SUBSET DOMAIN parents
           Below(X) == dag \cap UNION {parents[x] : x \in X}
           Is(f) == f = [k \in Nat |-> IF k = 0 THEN {l} ELSE Below(f[k - 1])]
<1>1. PICK step : step = [k \in Nat |-> [X \in S |-> Below(X)]]
  BY Zenon
<1>2. step \in [Nat -> [S -> S]] /\ {l} \in S
  BY Zenon, <1>1
<1>3. PICK f : IsIteration(f, S, {l}, step)
  <2> HIDE DEF S
  <2>1. QED
    BY <1>2, Iteration, Zenon
<1>4. \A k \in Nat : f[k + 1] = Below(f[k])
  BY Zenon, <1>1, <1>3 DEF IsIteration
<1> HIDE DEF Below
<1>5. Is(f)
  <2>1. \A k \in Nat : k # 0 => k - 1 \in Nat /\ (k - 1) + 1 = k
    OBVIOUS
  <2>2. \A k \in Nat : f[k] = IF k = 0 THEN {l} ELSE Below(f[k - 1])
    BY Zenon, <1>3, <1>4, <2>1 DEF IsIteration
  <2>3. QED
    BY Zenon, <1>3, <2>2 DEF IsIteration
<1>6. PICK g : g = CHOOSE h : Is(h)
  BY Zenon
<1>7. Is(g)
  <2> HIDE DEF Is
  <2>1. QED
    BY <1>5, <1>6, Zenon
<1>8. Reached(dag, l) = g
  BY <1>6, Zenon DEF Reached, Is, Below
<1>9. g[0] = {l} /\ \A k \in Nat : g[k + 1] = Below(g[k])
  <2>1. g[0] = {l}
    BY Zenon, <1>7
  <2>2. ASSUME NEW k \in Nat PROVE g[k + 1] = Below(g[k])
    <3>1. k + 1 \in Nat /\ k + 1 # 0 /\ (k + 1) - 1 = k
      OBVIOUS
    <3>2. g[k + 1] = IF k + 1 = 0 THEN {l} ELSE Below(g[(k + 1) - 1])
      BY Zenon, <1>7, <3>1
    <3>3. QED
      BY Zenon, <3>1, <3>2
  <2>3. QED
    BY Zenon, <2>1, <2>2
<1>10. g \in [Nat -> S]
  <2> DEFINE P == {k \in Nat : g[k] \in S}
  <2>1. 0 \in P /\ \A k \in Nat : k \in P => k + 1 \in P
    BY <1>2, <1>9 DEF Below
  <2> HIDE DEF P
  <2>2. Nat \subseteq P
    BY Zenon, <2>1, Induction
  <2>3. \A k \in Nat : g[k] \in S
    BY Zenon, <2>2 DEF P
  <2>4. g = [k \in Nat |-> g[k]]
    BY Zenon, <1>7
  <2>5. QED
    BY Zenon, <2>3, <2>4
<1>11. QED
  BY <1>8, <1>9, <1>10, Zenon DEF Below

\* The leader certificates of a table, k even rounds before l.
Prev(table, l, k) == leader_certificate(table, Round(l) - 2 * k)

\* W[k] are the leaders of the dag linked to one another, k even rounds back from l.
IsWalk(W, dag, table, l) ==
    /\ W \in [Nat -> Seq(DOMAIN parents) \ {<<>>}]
    /\ W[0] = <<l>>
    /\ \A k \in Nat :
        W[k + 1] = IF /\ Prev(table, l, k + 1) \in dag
                      /\ linked(dag, Head(W[k]), Prev(table, l, k + 1))
                   THEN <<Prev(table, l, k + 1)>> \o W[k]
                   ELSE W[k]

\* LinkedLeaders is the function its recursive definition describes.
LEMMA LinkedLeadersIs ==
    ASSUME IsDag(parents), NEW dag, dag \subseteq DOMAIN parents, NEW table,
           NEW l \in DOMAIN parents, NEW W, W = LinkedLeaders(dag, table, l)
    PROVE  IsWalk(W, dag, table, l)
<1> DEFINE S == Seq(DOMAIN parents) \ {<<>>}
           Back(X, k) == IF /\ Prev(table, l, k) \in dag
                            /\ linked(dag, Head(X), Prev(table, l, k))
                         THEN <<Prev(table, l, k)>> \o X
                         ELSE X
           Is(f) == f = [k \in Nat |-> IF k = 0 THEN <<l>> ELSE Back(f[k - 1], k)]
<1>1. PICK step : step = [k \in Nat |-> [X \in S |-> Back(X, k + 1)]]
  BY Zenon
<1>2. <<l>> \in S /\ \A X \in S, k \in Nat : Back(X, k) \in S
  <2>1. <<l>> \in S
    OBVIOUS
  <2>2. ASSUME NEW X \in S, NEW k \in Nat PROVE Back(X, k) \in S
    <3>1. CASE /\ Prev(table, l, k) \in dag
               /\ linked(dag, Head(X), Prev(table, l, k))
      <4>1. PICK p \in DOMAIN parents : p = Prev(table, l, k)
        BY Zenon, <3>1
      <4>2. <<p>> \o X \in Seq(DOMAIN parents) /\ <<p>> \o X # <<>>
        BY <4>1
      <4>3. QED
        BY <3>1, <4>1, <4>2
    <3>2. QED
      BY Zenon, <3>1
  <2>3. QED
    BY Zenon, <2>1, <2>2
<1>3. PICK f : IsIteration(f, S, <<l>>, step)
  <2>1. step \in [Nat -> [S -> S]]
    <3> HIDE DEF S, Back
    <3>1. \A k \in Nat : k + 1 \in Nat
      OBVIOUS
    <3>2. QED
      BY Zenon, <1>1, <1>2, <3>1
  <2> HIDE DEF S
  <2>2. QED
    BY <1>2, <2>1, Iteration, Zenon
<1> HIDE DEF Back, S
<1>4. \A k \in Nat : f[k + 1] = Back(f[k], k + 1)
  BY Zenon, <1>1, <1>3 DEF IsIteration
<1>5. Is(f)
  <2>1. \A k \in Nat : k # 0 => k - 1 \in Nat /\ (k - 1) + 1 = k
    OBVIOUS
  <2>2. \A k \in Nat : f[k] = IF k = 0 THEN <<l>> ELSE Back(f[k - 1], k)
    BY ZenonT(60), <1>3, <1>4, <2>1 DEF IsIteration
  <2>3. QED
    BY Zenon, <1>3, <2>2 DEF IsIteration
<1>6. Is(W)
  <2>1. PICK g : g = CHOOSE h : Is(h)
    BY Zenon
  <2>2. Is(g)
    <3> HIDE DEF Is
    <3>1. QED
      BY <1>5, <2>1, Zenon
  <2>3. W = g
    BY <2>1, Zenon DEF LinkedLeaders, Is, Back, Prev
  <2>4. QED
    BY <2>2, <2>3, Zenon
<1>7. W[0] = <<l>> /\ \A k \in Nat : W[k + 1] = Back(W[k], k + 1)
  <2>1. W[0] = <<l>>
    BY Zenon, <1>6
  <2>2. ASSUME NEW k \in Nat PROVE W[k + 1] = Back(W[k], k + 1)
    <3>1. k + 1 \in Nat /\ k + 1 # 0 /\ (k + 1) - 1 = k
      OBVIOUS
    <3>2. W[k + 1] = IF k + 1 = 0 THEN <<l>> ELSE Back(W[(k + 1) - 1], k + 1)
      BY Zenon, <1>6, <3>1
    <3>3. QED
      BY Zenon, <3>1, <3>2
  <2>3. QED
    BY Zenon, <2>1, <2>2
<1>8. W \in [Nat -> S]
  <2> DEFINE P == {k \in Nat : W[k] \in S}
  <2>1. 0 \in P
    BY Zenon, <1>2, <1>7
  <2>2. ASSUME NEW k \in Nat, k \in P PROVE k + 1 \in P
    <3>1. k + 1 \in Nat /\ Back(W[k], k + 1) \in S
      BY <1>2, <2>2
    <3>2. QED
      BY Zenon, <1>7, <3>1
  <2> HIDE DEF P
  <2>0. Nat \subseteq P
    BY Zenon, <2>1, <2>2, Induction
  <2>3. \A k \in Nat : W[k] \in S
    BY Zenon, <2>0 DEF P
  <2>4. W = [k \in Nat |-> W[k]]
    BY Zenon, <1>6
  <2>5. QED
    BY Zenon, <2>3, <2>4
<1>9. QED
  BY <1>7, <1>8, Zenon DEF IsWalk, Back, S

\* k rounds below l, only certificates of that round are reached, and in the
\* whole DAG at least one is, down to round 1.
LEMMA ReachedRounds ==
    ASSUME IsDag(parents), NEW dag, dag \subseteq DOMAIN parents, NEW l \in DOMAIN parents
    PROVE  \A k \in Nat : \A x \in Reached(dag, l)[k] :
               x \in DOMAIN parents /\ Round(x) = Round(l) - k
<1> DEFINE F == Reached(dag, l)
           P == {k \in Nat : \A x \in F[k] : x \in DOMAIN parents /\ Round(x) = Round(l) - k}
<1>0. /\ F[0] = {l}
      /\ \A k \in Nat : F[k + 1] = dag \cap UNION {parents[x] : x \in F[k]}
      /\ Round(l) \in Nat
      /\ \A c \in DOMAIN parents : Round(c) \in Nat
      /\ \A c \in DOMAIN parents : \A d \in parents[c] : Round(d) = Round(c) - 1
  BY ReachedIs, DagShape
<1> HIDE DEF F
<1>1. 0 \in P
  BY <1>0
<1>2. ASSUME NEW k \in Nat, k \in P PROVE k + 1 \in P
  <2> SUFFICES ASSUME NEW y \in F[k + 1] PROVE y \in DOMAIN parents /\ Round(y) = Round(l) - (k + 1)
    OBVIOUS
  <2>1. PICK x \in F[k] : y \in parents[x] /\ y \in dag
    BY SMTT(30), <1>0
  <2>2. x \in DOMAIN parents /\ Round(x) = Round(l) - k
    BY Zenon, <1>2, <2>1
  <2>3. QED
    BY <1>0, <2>1, <2>2
<1> HIDE DEF P
<1>3. Nat \subseteq P
  BY <1>1, <1>2, Induction
<1>4. QED
  BY Zenon, <1>3 DEF P, F

\* A path leads down to every round.
LEMMA ReachedNotEmpty ==
    ASSUME IsDag(parents), NEW l \in DOMAIN parents
    PROVE  \A k \in Nat : k < Round(l) => Reached(DOMAIN parents, l)[k] # {}
<1> DEFINE F == Reached(DOMAIN parents, l)
           P == {k \in Nat : k < Round(l) => F[k] # {}}
<1>0. /\ F[0] = {l}
      /\ \A k \in Nat : F[k + 1] = DOMAIN parents \cap UNION {parents[x] : x \in F[k]}
      /\ Round(l) \in Nat
  BY Zenon, ReachedIs, DagShape
<1>a. \A k \in Nat : \A x \in F[k] : x \in DOMAIN parents /\ Round(x) = Round(l) - k
  BY Zenon, ReachedRounds
<1> HIDE DEF F
<1>1. 0 \in P
  BY Zenon, <1>0
<1>2. ASSUME NEW k \in Nat, k \in P, k + 1 < Round(l) PROVE F[k + 1] # {}
  <2>1. PICK x \in F[k] : TRUE
    BY <1>0, <1>2
  <2>2. x \in DOMAIN parents /\ Round(x) > 1
    BY <1>a, <1>0, <1>2
  <2>3. PICK A : A = {Origin(d) : d \in parents[x]}
    BY Zenon
  <2>4. StakeOf(A) >= QuorumThreshold /\ A \subseteq Authority /\ parents[x] \subseteq DOMAIN parents
    BY SMTT(30), <2>2, <2>3, DagShape DEF IsDag
  <2>5. A # {}
    BY Zenon, <2>4, QuorumNotEmpty
  <2>6. PICK d : d \in parents[x]
    BY Zenon, <2>3, <2>5
  <2>7. d \in F[k + 1]
    BY <1>0, <2>4, <2>6
  <2>8. QED
    BY Zenon, <2>7
<1>3. \A k \in Nat : k \in P => k + 1 \in P
  BY <1>2
<1> HIDE DEF P
<1>4. Nat \subseteq P
  BY Zenon, <1>1, <1>3, Induction
<1>5. QED
  BY Zenon, <1>4 DEF P, F

\* The origins of the certificates that support l.
Voters(dag, l) == {Origin(c) : c \in Supporters(dag, l)}

\* A leader with the support of f + 1 is linked to every certificate two rounds
\* above it or more: a quorum of parents has one of the supporters.
LEMMA SupportedIsLinked ==
    ASSUME IsDag(parents), NEW l \in DOMAIN parents,
           StakeOf(Voters(DOMAIN parents, l)) >= ValidityThreshold,
           NEW h \in DOMAIN parents, Round(h) >= Round(l) + 2
    PROVE  linked(DOMAIN parents, h, l)
<1> DEFINE F == Reached(DOMAIN parents, h)
           k == Round(h) - Round(l) - 2
<1>0. /\ \A j \in Nat : F[j + 1] = DOMAIN parents \cap UNION {parents[x] : x \in F[j]}
      /\ \A j \in Nat : \A x \in F[j] : x \in DOMAIN parents /\ Round(x) = Round(h) - j
      /\ \A j \in Nat : j < Round(h) => F[j] # {}
  BY ZenonT(60), ReachedIs, ReachedRounds, ReachedNotEmpty
<1> HIDE DEF F
<1>1. Round(h) \in Nat /\ Round(l) \in Nat \ {0} /\ k \in Nat /\ k < Round(h)
  BY DagShape
<1>2. PICK x \in F[k] : TRUE
  BY Zenon, <1>0, <1>1
<1>3. x \in DOMAIN parents /\ Round(x) = Round(l) + 2
  BY <1>0, <1>1
<1>4. PICK A : A = {Origin(d) : d \in parents[x]}
  BY Zenon
<1>5. A \subseteq Authority /\ StakeOf(A) >= QuorumThreshold /\ parents[x] \subseteq DOMAIN parents
  <2>1. Round(x) > 1
    BY <1>1, <1>3
  <2>2. parents[x] \subseteq DOMAIN parents
    BY <1>3, DagShape
  <2>3. A \subseteq Authority
    BY <1>4, <2>2, DagShape
  <2>4. StakeOf(A) >= QuorumThreshold
    BY Zenon, <1>3, <1>4, <2>1 DEF IsDag
  <2>5. QED
    BY Zenon, <2>2, <2>3, <2>4
<1>6. Voters(DOMAIN parents, l) \subseteq Authority
  BY DagShape DEF Voters, Supporters
<1>7. PICK a \in A : a \in Voters(DOMAIN parents, l)
  BY Zenon, <1>5, <1>6, QuorumsMeet
<1>8. PICK d \in parents[x] : Origin(d) = a
  BY Zenon, <1>4, <1>7
<1>9. PICK c \in DOMAIN parents : Origin(c) = a /\ Round(c) = Round(l) + 1 /\ l \in parents[c]
  BY Zenon, <1>7 DEF Voters, Supporters
<1>10. d = c
  <2>1. Round(d) = Round(c)
    BY <1>1, <1>3, <1>8, <1>9, DagShape
  <2>2. QED
    BY SMTT(30), <1>5, <1>8, <1>9, <2>1, DagShape
<1>11. c \in F[k + 1]
  BY <1>0, <1>1, <1>2, <1>8, <1>10
<1>12. l \in F[(k + 1) + 1]
  BY <1>0, <1>1, <1>9, <1>11
<1>13. (k + 1) + 1 = Round(h) - Round(l)
  BY <1>1
<1>14. QED
  BY <1>12, <1>13 DEF linked, F

-----------------------------------------------------------------------------
(* Going back from a leader *)

\* After k rounds back the oldest leader is the one found after j <= k of them;
\* the rounds between added none.
StopsAt(W, table, l, k, j) ==
    /\ j \in 0 .. k /\ W[k] = W[j]
    /\ Round(Head(W[j])) = Round(l) - 2 * j
    /\ j = 0 => W[j] = <<l>>
    /\ j > 0 => /\ Head(W[j]) = Prev(table, l, j)
                /\ Tail(W[j]) = W[j - 1]

\* The head of the walk is always the leader of the round it has stopped at, and
\* its tail the walk before that round.
LEMMA WalkStops ==
    ASSUME IsDag(parents), NEW dag, dag \subseteq DOMAIN parents, NEW table,
           NEW l \in DOMAIN parents, NEW W, W = LinkedLeaders(dag, table, l)
    PROVE  \A k \in Nat : /\ \E j \in Nat : StopsAt(W, table, l, k, j)
                          /\ Head(W[k]) \in dag \cup {l}
<1> DEFINE P == {k \in Nat : /\ \E j \in Nat : StopsAt(W, table, l, k, j)
                             /\ Head(W[k]) \in dag \cup {l}}
           p(k) == Prev(table, l, k + 1)
<1>0. /\ W \in [Nat -> Seq(DOMAIN parents) \ {<<>>}] /\ W[0] = <<l>>
      /\ \A k \in Nat : W[k + 1] = IF p(k) \in dag /\ linked(dag, Head(W[k]), p(k))
                                   THEN <<p(k)>> \o W[k] ELSE W[k]
  <2>1. IsWalk(W, dag, table, l)
    BY LinkedLeadersIs, Zenon
  <2>2. QED
    BY <2>1, Zenon DEF IsWalk
<1>a. Round(l) \in Nat
  BY DagShape
<1>1. 0 \in P
  <2>1. StopsAt(W, table, l, 0, 0)
    BY <1>0, <1>a DEF StopsAt
  <2>2. QED
    BY <1>0, <2>1
<1>2. ASSUME NEW k \in Nat, k \in P PROVE k + 1 \in P
  <2>1. CASE p(k) \in dag /\ linked(dag, Head(W[k]), p(k))
    <3>1. W[k + 1] = <<p(k)>> \o W[k]
      BY Zenon, <1>0, <2>1
    <3>2. W[k] \in Seq(DOMAIN parents) /\ p(k) \in DOMAIN parents
      BY <1>0, <2>1
    <3>3. Head(W[k + 1]) = p(k) /\ Tail(W[k + 1]) = W[k]
      <4> HIDE DEF p
      <4>1. PICK q : q = p(k)
        BY Zenon
      <4>2. PICK w \in Seq(DOMAIN parents) : w = W[k]
        BY <3>2
      <4>3. Head(<<q>> \o w) = q /\ Tail(<<q>> \o w) = w
        BY <3>2, <4>1
      <4>4. QED
        BY <3>1, <4>1, <4>2, <4>3
    <3>4. Round(p(k)) = Round(l) - 2 * (k + 1)
      BY Zenon DEF Prev, leader_certificate, Round
    <3>5. StopsAt(W, table, l, k + 1, k + 1)
      <4> HIDE DEF p
      <4>1. (k + 1) - 1 = k /\ k + 1 \in 0 .. (k + 1) /\ k + 1 # 0
        OBVIOUS
      <4>2. QED
        BY <3>3, <3>4, <4>1 DEF StopsAt, p
    <3>6. QED
      BY <2>1, <3>3, <3>5
  <2>2. CASE ~(p(k) \in dag /\ linked(dag, Head(W[k]), p(k)))
    <3>1. W[k + 1] = W[k]
      BY Zenon, <1>0, <2>2
    <3>2. PICK j \in Nat : StopsAt(W, table, l, k, j)
      BY Zenon, <1>2
    <3>3. StopsAt(W, table, l, k + 1, j)
      <4>1. j \in 0 .. (k + 1)
        BY <3>2 DEF StopsAt
      <4>2. QED
        BY <3>1, <3>2, <4>1 DEF StopsAt
    <3>4. QED
      BY <1>2, <3>1, <3>3
  <2>3. QED
    BY <2>1, <2>2
<1> HIDE DEF P
<1>3. Nat \subseteq P
  BY <1>1, <1>2, Induction
<1>4. QED
  BY Zenon, <1>3 DEF P

\* From a higher leader the way back passes through a leader with support, and
\* goes on as it does from there.
LEMMA WalkMeets ==
    ASSUME IsDag(parents), NEW table, NEW l \in DOMAIN parents, NEW h \in DOMAIN parents,
           l = leader_certificate(table, Round(l)),
           StakeOf(Voters(DOMAIN parents, l)) >= ValidityThreshold,
           NEW m \in Nat, m > 0, Round(h) = Round(l) + 2 * m,
           NEW V, V = LinkedLeaders(DOMAIN parents, table, l),
           NEW W, W = LinkedLeaders(DOMAIN parents, table, h)
    PROVE  \A j \in Nat : Head(W[m + j]) = Head(V[j])
<1> DEFINE C == DOMAIN parents
<1>a. Round(l) \in Nat /\ Round(h) \in Nat
  BY Zenon, DagShape
<1>0. /\ W \in [Nat -> Seq(C) \ {<<>>}] /\ V \in [Nat -> Seq(C) \ {<<>>}] /\ V[0] = <<l>>
      /\ \A k \in Nat : W[k + 1] = IF /\ Prev(table, h, k + 1) \in C
                                      /\ linked(C, Head(W[k]), Prev(table, h, k + 1))
                                   THEN <<Prev(table, h, k + 1)>> \o W[k] ELSE W[k]
      /\ \A k \in Nat : V[k + 1] = IF /\ Prev(table, l, k + 1) \in C
                                      /\ linked(C, Head(V[k]), Prev(table, l, k + 1))
                                   THEN <<Prev(table, l, k + 1)>> \o V[k] ELSE V[k]
  <2>1. IsWalk(W, C, table, h) /\ IsWalk(V, C, table, l)
    BY LinkedLeadersIs
  <2>2. QED
    BY <2>1, Zenon DEF IsWalk
<1>1. \A k \in Nat : Prev(table, h, m + k) = Prev(table, l, k)
  <2> SUFFICES ASSUME NEW k \in Nat PROVE Prev(table, h, m + k) = Prev(table, l, k)
    BY Zenon
  <2>1. Round(h) - 2 * (m + k) = Round(l) - 2 * k
    BY SMTT(30), <1>a
  <2>2. QED
    BY <2>1 DEF Prev
<1>2. Head(W[m]) = l
  <2>1. m - 1 \in Nat /\ (m - 1) + 1 = m
    OBVIOUS
  <2>2. PICK j \in Nat : StopsAt(W, table, h, m - 1, j)
    BY <2>1, WalkStops
  <2>3. Head(W[m - 1]) \in C
    <3>1. W[m - 1] \in Seq(C) /\ W[m - 1] # <<>>
      BY ZenonT(60), <2>1, <1>0
    <3>2. QED
      BY <3>1
  <2>4. Round(Head(W[m - 1])) >= Round(l) + 2
    BY <1>a, <2>1, <2>2 DEF StopsAt
  <2>5. linked(C, Head(W[m - 1]), l)
    BY <2>3, <2>4, SupportedIsLinked
  <2>6. Prev(table, h, m) = l
    <3>1. Round(h) - 2 * m = Round(l)
      BY SMTT(30), <1>a
    <3>2. QED
      BY SMTT(30), <3>1 DEF Prev
  <2>7. W[m] = <<l>> \o W[m - 1]
    BY ZenonT(60), <1>0, <2>1, <2>5, <2>6
  <2>8. W[m - 1] \in Seq(C)
    BY ZenonT(60), <1>0, <2>1
  <2>9. Head(<<l>> \o W[m - 1]) = l
    BY <2>8
  <2>10. QED
    BY <2>7, <2>9
<1> DEFINE P == {j \in Nat : Head(W[m + j]) = Head(V[j])}
<1>3. 0 \in P
  <2>1. m + 0 = m /\ Head(<<l>>) = l
    OBVIOUS
  <2>2. Head(W[m + 0]) = Head(V[0])
    BY Zenon, <1>0, <1>2, <2>1
  <2>3. QED
    BY Zenon, <2>2
<1>4. ASSUME NEW j \in Nat, j \in P PROVE j + 1 \in P
  <2>1. m + j \in Nat /\ (m + j) + 1 = m + (j + 1) /\ j + 1 \in Nat
    OBVIOUS
  <2>2. PICK p : p = Prev(table, l, j + 1) /\ p = Prev(table, h, m + (j + 1))
    BY <1>1, <2>1
  <2>3. PICK w \in Seq(C) : w = W[m + j]
    BY Zenon, <1>0, <2>1
  <2>4. PICK v \in Seq(C) : v = V[j]
    BY ZenonT(60), <1>0
  <2>5. Head(w) = Head(v)
    BY <1>4, <2>3, <2>4
  <2>6. /\ W[m + (j + 1)] = IF p \in C /\ linked(C, Head(w), p) THEN <<p>> \o w ELSE w
        /\ V[j + 1] = IF p \in C /\ linked(C, Head(v), p) THEN <<p>> \o v ELSE v
    <3>1. W[(m + j) + 1] = IF p \in C /\ linked(C, Head(w), p) THEN <<p>> \o w ELSE w
      <4>1. p = Prev(table, h, (m + j) + 1)
        BY <2>1, <2>2
      <4>2. QED
        BY Zenon, <1>0, <2>1, <2>3, <4>1
    <3>2. V[j + 1] = IF p \in C /\ linked(C, Head(v), p) THEN <<p>> \o v ELSE v
      BY Zenon, <1>0, <2>2, <2>4
    <3>3. QED
      BY <2>1, <3>1, <3>2
  <2>7. Head(<<p>> \o w) = p /\ Head(<<p>> \o v) = p
    BY SMTT(30), <2>3, <2>4
  <2>8. QED
    BY ZenonT(60), <2>1, <2>5, <2>6, <2>7
<1> HIDE DEF P
<1>5. Nat \subseteq P
  BY SMTT(30), <1>3, <1>4, Induction
<1>6. QED
  BY Zenon, <1>5 DEF P

\* l has enough support in the DAG and is the table's leader of an even round
\* after round r, the last one committed.
Electable(table, r, l) ==
    /\ l \in DOMAIN parents /\ l = leader_certificate(table, Round(l))
    /\ Round(l) % 2 = 0 /\ Round(l) > r
    /\ StakeOf(Voters(DOMAIN parents, l)) >= ValidityThreshold

\* The leaders to commit from l back to the round after r, as the whole DAG gives them.
WalkTo(table, r, l) == LinkedLeaders(DOMAIN parents, table, l)[(Round(l) - r) \div 2 - 1]

\* Whichever leader is elected, the one to commit first is the same.
LEMMA FirstIsUnique ==
    ASSUME IsDag(parents), NEW table, NEW r \in Nat, r % 2 = 0,
           NEW l, Electable(table, r, l), NEW h, Electable(table, r, h)
    PROVE  Head(WalkTo(table, r, l)) = Head(WalkTo(table, r, h))
<1>1. ASSUME NEW x, Electable(table, r, x), NEW y, Electable(table, r, y), Round(x) < Round(y)
      PROVE  Head(WalkTo(table, r, x)) = Head(WalkTo(table, r, y))
  <2>1. x \in DOMAIN parents /\ y \in DOMAIN parents /\ Round(x) \in Nat /\ Round(y) \in Nat
    BY <1>1, DagShape DEF Electable
  <2>2. Round(x) % 2 = 0 /\ Round(y) % 2 = 0 /\ Round(x) > r
    BY Zenon, <1>1 DEF Electable
  <2>3. PICK m \in Nat : m > 0 /\ Round(y) = Round(x) + 2 * m
    <3>1. (Round(y) - Round(x)) \div 2 \in Nat /\ (Round(y) - Round(x)) \div 2 > 0
          /\ Round(y) = Round(x) + 2 * ((Round(y) - Round(x)) \div 2)
      BY SMTT(30), <1>1, <2>1, <2>2
    <3>2. QED
      BY SMTT(30), <3>1
  <2>4. PICK j \in Nat : j = (Round(x) - r) \div 2 - 1
    BY <2>1, <2>2
  <2>5. (Round(y) - r) \div 2 - 1 = m + j
    BY <2>1, <2>2, <2>3, <2>4
  <2>6. Head(LinkedLeaders(DOMAIN parents, table, y)[m + j]) =
            Head(LinkedLeaders(DOMAIN parents, table, x)[j])
    BY SMTT(30), <1>1, <2>1, <2>3, WalkMeets DEF Electable
  <2>7. QED
    BY <2>4, <2>5, <2>6 DEF WalkTo
<1>2. Round(l) \in Nat /\ Round(h) \in Nat
  BY Zenon, DagShape DEF Electable
<1>3. CASE Round(l) = Round(h)
  BY Zenon, <1>3 DEF Electable
<1>4. QED
  BY SMTT(30), <1>1, <1>2, <1>3

\* A part of the DAG that has the parents of its certificates above round g + 1.
Closed(dag, g) ==
    /\ dag \subseteq DOMAIN parents
    /\ \A c \in dag : Round(c) > g + 1 => parents[c] \subseteq dag

\* Above round g, a validator that has such a part sees the paths of the whole DAG.
LEMMA ReachedSame ==
    ASSUME IsDag(parents), NEW g \in Nat, NEW dag, Closed(dag, g), NEW h \in dag
    PROVE  \A k \in Nat : Round(h) - k > g =>
               /\ Reached(dag, h)[k] = Reached(DOMAIN parents, h)[k]
               /\ Reached(dag, h)[k] \subseteq dag
<1> DEFINE C == DOMAIN parents
           F == Reached(dag, h)
           G == Reached(C, h)
           P == {k \in Nat : Round(h) - k > g => F[k] = G[k] /\ F[k] \subseteq dag}
<1>0. h \in C /\ dag \subseteq C /\ \A c \in dag : Round(c) > g + 1 => parents[c] \subseteq dag
  BY Zenon DEF Closed
<1>1. /\ F[0] = {h} /\ \A k \in Nat : F[k + 1] = dag \cap UNION {parents[x] : x \in F[k]}
      /\ G[0] = {h} /\ \A k \in Nat : G[k + 1] = C \cap UNION {parents[x] : x \in G[k]}
  <2>1. F[0] = {h} /\ \A k \in Nat : F[k + 1] = dag \cap UNION {parents[x] : x \in F[k]}
    BY ZenonT(60), <1>0, ReachedIs
  <2>2. C \subseteq C
    BY Zenon
  <2>3. G[0] = {h} /\ \A k \in Nat : G[k + 1] = C \cap UNION {parents[x] : x \in G[k]}
    BY Zenon, <1>0, <2>2, ReachedIs
  <2>4. QED
    BY SMTT(30), <2>1, <2>3
<1>2. /\ \A k \in Nat : \A x \in F[k] : Round(x) = Round(h) - k
      /\ Round(h) \in Nat
  BY <1>0, ReachedRounds, DagShape
<1> HIDE DEF F, G
<1>3. 0 \in P
  BY ZenonT(60), <1>1
<1>4. ASSUME NEW k \in Nat, k \in P, Round(h) - (k + 1) > g
      PROVE  F[k + 1] = G[k + 1] /\ F[k + 1] \subseteq dag
  <2>1. Round(h) - k > g + 1 /\ Round(h) - k > g
    BY <1>2, <1>4
  <2>2. F[k] = G[k] /\ F[k] \subseteq dag
    BY SMTT(30), <1>4, <2>1
  <2>3. \A x \in F[k] : parents[x] \subseteq dag
    BY <1>0, <1>2, <2>1, <2>2
  <2>4. PICK U : U = UNION {parents[x] : x \in F[k]}
    BY Zenon
  <2>5. U \subseteq dag
    BY <2>3, <2>4
  <2>6. F[k + 1] = dag \cap U /\ G[k + 1] = C \cap U
    BY Zenon, <1>1, <2>2, <2>4
  <2>7. QED
    BY Zenon, <1>0, <2>5, <2>6
<1>5. \A k \in Nat : k \in P => k + 1 \in P
  BY SMTT(30), <1>4
<1> HIDE DEF P
<1>6. Nat \subseteq P
  BY Zenon, <1>3, <1>5, Induction
<1>7. QED
  BY Zenon, <1>6 DEF P, F, G

\* And it finds the same leaders.
LEMMA WalkSame ==
    ASSUME IsDag(parents), NEW g \in Nat, NEW dag, Closed(dag, g), NEW table, NEW l \in dag
    PROVE  \A k \in Nat : Round(l) - 2 * k > g =>
               LinkedLeaders(dag, table, l)[k] = LinkedLeaders(DOMAIN parents, table, l)[k]
<1> DEFINE C == DOMAIN parents
           W == LinkedLeaders(dag, table, l)
           V == LinkedLeaders(C, table, l)
           P == {k \in Nat : Round(l) - 2 * k > g => W[k] = V[k]}
<1>0. l \in C /\ dag \subseteq C
  BY Zenon DEF Closed
<1>1. IsWalk(W, dag, table, l) /\ IsWalk(V, C, table, l) /\ Round(l) \in Nat
  BY Zenon, <1>0, LinkedLeadersIs, DagShape
<1>2. \A k \in Nat : /\ \E j \in Nat : StopsAt(W, table, l, k, j)
                     /\ Head(W[k]) \in dag \cup {l}
  BY Zenon, <1>0, WalkStops
<1> HIDE DEF W, V
<1>3. 0 \in P
  BY ZenonT(60), <1>1 DEF IsWalk
<1>4. ASSUME NEW k \in Nat, k \in P, Round(l) - 2 * (k + 1) > g
      PROVE  W[k + 1] = V[k + 1]
  <2>1. W[k] = V[k]
    BY <1>1, <1>4
  <2>2. PICK h \in dag : h = Head(W[k])
    BY Zenon, <1>2
  <2>3. PICK p : p = Prev(table, l, k + 1)
    BY Zenon
  <2>4. PICK j \in Nat : StopsAt(W, table, l, k, j)
    BY Zenon, <1>2
  <2>5. Round(h) = Round(l) - 2 * j /\ j <= k
    BY <2>2, <2>4 DEF StopsAt
  <2>6. Round(p) = Round(l) - 2 * (k + 1)
    BY Zenon, <2>3 DEF Prev, leader_certificate, Round
  <2>7. PICK n \in Nat : n = Round(h) - Round(p)
    BY <1>1, <2>5, <2>6
  <2>8. Round(h) - n > g
    BY <1>1, <1>4, <2>5, <2>6, <2>7
  <2>9. /\ Reached(dag, h)[n] = Reached(C, h)[n]
        /\ Reached(dag, h)[n] \subseteq dag
    BY Zenon, <2>8, ReachedSame
  <2>10. (p \in dag /\ linked(dag, h, p)) <=> (p \in C /\ linked(C, h, p))
    BY Zenon, <1>0, <2>7, <2>9 DEF linked
  <2>11. /\ W[k + 1] = IF p \in dag /\ linked(dag, h, p) THEN <<p>> \o W[k] ELSE W[k]
         /\ V[k + 1] = IF p \in C /\ linked(C, h, p) THEN <<p>> \o V[k] ELSE V[k]
    BY <1>1, <2>1, <2>2, <2>3, Zenon DEF IsWalk
  <2>12. QED
    BY Zenon, <2>1, <2>10, <2>11
<1>5. \A k \in Nat : k \in P => k + 1 \in P
  BY <1>4
<1> HIDE DEF P
<1>6. Nat \subseteq P
  BY Zenon, <1>3, <1>5, Induction
<1>7. QED
  BY Zenon, <1>6 DEF P, W, V

\* What the leaders to commit look like: the first comes after the last commit, and
\* the others are those to commit after it.
LEMMA WalkTail ==
    ASSUME IsDag(parents), NEW table, NEW r \in Nat, r % 2 = 0,
           NEW l, Electable(table, r, l), NEW w, w = WalkTo(table, r, l)
    PROVE  /\ w \in Seq(DOMAIN parents) /\ w # <<>> /\ Head(w) \in DOMAIN parents
           /\ Round(Head(w)) % 2 = 0 /\ Round(Head(w)) > r
           /\ Tail(w) # <<>> => /\ Electable(table, Round(Head(w)), l)
                                /\ Tail(w) = WalkTo(table, Round(Head(w)), l)
<1> DEFINE C == DOMAIN parents
           W == LinkedLeaders(C, table, l)
           k == (Round(l) - r) \div 2 - 1
<1>1. l \in C /\ Round(l) \in Nat /\ Round(l) % 2 = 0 /\ Round(l) > r
  BY Zenon, DagShape DEF Electable
<1>2. k \in Nat /\ 2 * k = Round(l) - r - 2
  BY <1>1
<1>3. W[k] \in Seq(C) \ {<<>>} /\ \E j \in Nat : StopsAt(W, table, l, k, j)
  <2> HIDE DEF k
  <2>1. IsWalk(W, C, table, l)
    BY Zenon, <1>1, LinkedLeadersIs
  <2>2. \E j \in Nat : StopsAt(W, table, l, k, j)
    BY Zenon, <1>1, <1>2, WalkStops
  <2>3. W[k] \in Seq(C) \ {<<>>}
    BY Zenon, <1>2, <2>1 DEF IsWalk
  <2>4. QED
    BY Zenon, <2>2, <2>3
<1>4. w = W[k]
  BY Zenon DEF WalkTo
<1> HIDE DEF W, k
<1>5. PICK j \in Nat : StopsAt(W, table, l, k, j)
  BY Zenon, <1>3
<1>6. w \in Seq(C) /\ w # <<>> /\ Head(w) \in C
  <2>1. w \in Seq(C) /\ w # <<>>
    BY Zenon, <1>3, <1>4
  <2>2. QED
    BY SMTT(30), <2>1
<1>7. Round(Head(w)) = Round(l) - 2 * j /\ j <= k
  BY <1>4, <1>5 DEF StopsAt
<1>8. Round(Head(w)) % 2 = 0 /\ Round(Head(w)) > r /\ Round(Head(w)) \in Nat
  BY SMTT(30), <1>1, <1>2, <1>7
<1>9. ASSUME Tail(w) # <<>>
      PROVE  Electable(table, Round(Head(w)), l) /\ Tail(w) = WalkTo(table, Round(Head(w)), l)
  <2>1. j # 0
    <3> SUFFICES ASSUME j = 0 PROVE FALSE
      BY Zenon
    <3>1. w = <<l>>
      BY Zenon, <1>4, <1>5 DEF StopsAt
    <3>2. Tail(<<l>>) = <<>>
      OBVIOUS
    <3>3. QED
      BY Zenon, <1>9, <3>1, <3>2
  <2>2. Tail(w) = W[j - 1]
    BY SMTT(30), <1>4, <1>5, <2>1 DEF StopsAt
  <2>3. (Round(l) - Round(Head(w))) \div 2 - 1 = j - 1
    BY SMTT(30), <1>1, <1>7, <1>8
  <2>4. Tail(w) = WalkTo(table, Round(Head(w)), l)
    BY Zenon, <2>2, <2>3 DEF WalkTo, W
  <2>5. Round(l) > Round(Head(w))
    BY <1>1, <1>7, <2>1
  <2>6. QED
    BY Zenon, <2>4, <2>5 DEF Electable
<1>10. QED
  BY Zenon, <1>6, <1>8, <1>9

-----------------------------------------------------------------------------
(* The sequence of a sub-dag *)

\* No certificate occurs twice.
Distinct(q) == \A i, j \in 1 .. Len(q) : q[i] = q[j] => i = j

\* The smaller part of a finite set has fewer members.
LEMMA FewerMembers ==
    ASSUME NEW B, IsFiniteSet(B), NEW A, A \subseteq B, NEW x \in B, x \notin A
    PROVE  Cardinality(A) \in Nat /\ Cardinality(B) \in Nat /\ Cardinality(A) < Cardinality(B)
<1>1. IsFiniteSet(A) /\ Cardinality(A) <= Cardinality(B) /\ Cardinality(A) # Cardinality(B)
  BY Zenon, FS_Subset
<1>2. Cardinality(A) \in Nat /\ Cardinality(B) \in Nat
  BY Zenon, <1>1, FS_CardinalityType
<1>3. QED
  BY <1>1, <1>2

\* InDigestOrder lists certificates of different authors, each once.
LEMMA DigestOrder ==
    ASSUME NEW D, IsFiniteSet(D), \A c \in D : Origin(c) \in Nat,
           \A c, d \in D : Origin(c) = Origin(d) => c = d
    PROVE  /\ InDigestOrder(D) \in Seq(D)
           /\ Distinct(InDigestOrder(D))
<1> DEFINE Upto(c) == {d \in D : Origin(d) <= Origin(c)}
           n == Cardinality(D)
<1>0. n \in Nat
  BY Zenon, FS_CardinalityType
<1>1. PICK rank : rank = [c \in D |-> Cardinality(Upto(c))]
  BY Zenon
<1>2. ASSUME NEW c \in D PROVE Cardinality(Upto(c)) \in 1 .. n
  <2>1. Upto(c) \subseteq D /\ c \in Upto(c)
    OBVIOUS
  <2>2. IsFiniteSet(Upto(c)) /\ Cardinality(Upto(c)) <= n
    BY Zenon, <2>1, FS_Subset
  <2>3. Cardinality(Upto(c)) \in Nat
    BY Zenon, <2>2, FS_CardinalityType
  <2>4. Cardinality(Upto(c)) # 0
    BY Zenon, <2>1, <2>2, FS_EmptySet
  <2>5. QED
    BY <1>0, <2>2, <2>3, <2>4
<1>3. ASSUME NEW c \in D, NEW d \in D, Origin(c) < Origin(d) PROVE rank[c] # rank[d]
  <2>1. Upto(c) \subseteq Upto(d) /\ d \in Upto(d) /\ d \notin Upto(c)
    BY <1>3
  <2>2. IsFiniteSet(Upto(d))
    BY Zenon, FS_Subset
  <2> HIDE DEF Upto
  <2>3. Cardinality(Upto(c)) < Cardinality(Upto(d))
        /\ Cardinality(Upto(c)) \in Nat /\ Cardinality(Upto(d)) \in Nat
    BY Zenon, <2>1, <2>2, FewerMembers
  <2>4. QED
    BY SMTT(30), <1>1, <2>3
<1>4. \A c, d \in D : rank[c] = rank[d] => c = d
  BY <1>3
<1>5. rank \in [D -> 1 .. n]
  BY Zenon, <1>1, <1>2
<1>6. \A k \in 1 .. n : \E c \in D : rank[c] = k
  BY Zenon, <1>4, <1>5, EveryRank
<1> HIDE DEF n, Upto
<1>7. PICK q : q = InDigestOrder(D)
  BY Zenon
<1>8. ASSUME NEW k \in 1 .. n PROVE q[k] \in D /\ rank[q[k]] = k
  <2> DEFINE At(c) == Cardinality(Upto(c)) = k
  <2>1. PICK c \in D : At(c)
    BY Zenon, <1>1, <1>6
  <2> HIDE DEF At
  <2>2. PICK e : e = CHOOSE x \in D : At(x)
    BY Zenon
  <2>3. e \in D /\ At(e)
    BY <2>1, <2>2, Zenon
  <2>4. q[k] = CHOOSE x \in D : At(x)
    BY <1>7, Zenon DEF InDigestOrder, n, Upto, At
  <2>5. QED
    BY Zenon, <1>1, <2>2, <2>3, <2>4 DEF At
<1>9. DOMAIN q = 1 .. n /\ q = [k \in 1 .. n |-> q[k]]
  <2> DEFINE E(k) == CHOOSE c \in D : Cardinality({d \in D : Origin(d) <= Origin(c)}) = k
  <2>1. q = [k \in 1 .. n |-> E(k)]
    BY <1>7, Zenon DEF InDigestOrder, n
  <2> HIDE DEF E
  <2>2. QED
    BY Zenon, <2>1
<1>10. q \in Seq(D)
  BY <1>0, <1>8, <1>9
<1>11. Len(q) = n
  BY <1>0, <1>9, <1>10
<1>12. Distinct(q)
  BY Zenon, <1>8, <1>11 DEF Distinct
<1>13. QED
  BY Zenon, <1>7, <1>10, <1>12

\* ByRound permutes: it keeps the members, and how often each one occurs.
LEMMA ByRoundPermutes ==
    ASSUME NEW C, NEW q \in Seq(C), \A c \in C : Round(c) \in Nat
    PROVE  /\ ByRound(q) \in Seq(C)
           /\ Range(ByRound(q)) = Range(q)
           /\ Distinct(q) => Distinct(ByRound(q))
<1> DEFINE n == Len(q)
           I == 1 .. n
           Before(j, i) == \/ Round(q[j]) < Round(q[i])
                           \/ Round(q[j]) = Round(q[i]) /\ j <= i
           Upto(i) == {j \in I : Before(j, i)}
<1>0. n \in Nat /\ I = DOMAIN q /\ \A i \in I : q[i] \in C /\ Round(q[i]) \in Nat
  OBVIOUS
<1>a. IsFiniteSet(I) /\ Cardinality(I) = n
  BY SMTT(30), <1>0, FS_Interval
<1>1. PICK place : place = [i \in I |-> Cardinality(Upto(i))]
  BY Zenon
<1>2. ASSUME NEW i \in I PROVE Cardinality(Upto(i)) \in 1 .. n
  <2>1. Upto(i) \subseteq I /\ i \in Upto(i)
    OBVIOUS
  <2>2. IsFiniteSet(Upto(i)) /\ Cardinality(Upto(i)) <= n
    BY <1>a, <2>1, FS_Subset
  <2>3. Cardinality(Upto(i)) \in Nat
    BY Zenon, <2>2, FS_CardinalityType
  <2>4. Cardinality(Upto(i)) # 0
    BY ZenonT(60), <2>1, <2>2, FS_EmptySet
  <2>5. QED
    BY <1>0, <2>2, <2>3, <2>4
<1>3. ASSUME NEW i \in I, NEW j \in I, Before(i, j), i # j PROVE place[i] # place[j]
  <2>1. Upto(i) \subseteq Upto(j) /\ j \in Upto(j) /\ j \notin Upto(i)
    BY <1>0, <1>3
  <2>2. IsFiniteSet(Upto(j))
    BY Zenon, <1>a, FS_Subset
  <2> HIDE DEF Upto
  <2>3. Cardinality(Upto(i)) < Cardinality(Upto(j))
        /\ Cardinality(Upto(i)) \in Nat /\ Cardinality(Upto(j)) \in Nat
    BY Zenon, <2>1, <2>2, FewerMembers
  <2>4. QED
    BY <1>1, <2>3
<1>4. \A i, j \in I : place[i] = place[j] => i = j
  <2> SUFFICES ASSUME NEW i \in I, NEW j \in I, place[i] = place[j], i # j PROVE FALSE
    BY Zenon
  <2>1. Before(i, j) \/ Before(j, i)
    BY <1>0
  <2> HIDE DEF Before
  <2>2. QED
    BY Zenon, <1>3, <2>1
<1>5. place \in [I -> 1 .. n]
  BY Zenon, <1>1, <1>2
<1>6. \A k \in 1 .. n : \E i \in I : place[i] = k
  <2>1. \A k \in 1 .. Cardinality(I) : \E i \in I : place[i] = k
    <3>1. place \in [I -> 1 .. Cardinality(I)]
      BY Zenon, <1>5, <1>a
    <3> HIDE DEF I
    <3>2. QED
      BY Zenon, <3>1, <1>4, <1>a, EveryRank
  <2>2. QED
    BY Zenon, <2>1, <1>a
<1>7. PICK p : p = ByRound(q)
  BY Zenon
<1>8. p = [k \in I |-> q[CHOOSE i \in I : place[i] = k]]
  <2>1. I = DOMAIN q
    BY Zenon, <1>0
  <2> DEFINE Sorted(J, pl) == [k \in J |-> q[CHOOSE i \in J : pl[i] = k]]
  <2>2. p = Sorted(DOMAIN q, [i \in DOMAIN q |-> Cardinality({j \in DOMAIN q :
                        \/ Round(q[j]) < Round(q[i])
                        \/ Round(q[j]) = Round(q[i]) /\ j <= i})])
    BY <1>7, Zenon DEF ByRound
  <2>3. place = [i \in DOMAIN q |-> Cardinality({j \in DOMAIN q :
                        \/ Round(q[j]) < Round(q[i])
                        \/ Round(q[j]) = Round(q[i]) /\ j <= i})]
    BY <1>1, <2>1, Zenon
  <2>4. p = Sorted(I, place)
    <3> HIDE DEF Sorted, I
    <3>1. QED
      BY <2>1, <2>2, <2>3, Zenon
  <2>5. QED
    BY <2>4, ZenonT(60)
<1> HIDE DEF Upto, Before, I
<1>9. PICK at : at = [k \in I |-> CHOOSE i \in I : place[i] = k]
  BY Zenon
<1>10. ASSUME NEW k \in I PROVE at[k] \in I /\ place[at[k]] = k /\ p[k] = q[at[k]]
  <2>1. \E i \in I : place[i] = k
    BY Zenon, <1>6 DEF I
  <2>2. at[k] = CHOOSE i \in I : place[i] = k
    BY Zenon, <1>9
  <2>3. at[k] \in I /\ place[at[k]] = k
    BY <2>1, <2>2, Zenon
  <2>4. p[k] = q[at[k]]
    BY <1>8, <2>2, ZenonT(60)
  <2>5. QED
    BY Zenon, <2>3, <2>4
<1>11. p \in Seq(C) /\ Len(p) = n
  <2>1. DOMAIN p = I /\ p = [k \in I |-> p[k]]
    BY <1>8
  <2>2. \A k \in I : p[k] \in C
    BY Zenon, <1>0, <1>10
  <2>3. p \in [1 .. n -> C]
    BY Zenon, <2>1, <2>2 DEF I
  <2>4. QED
    BY <1>0, <2>3
<1>12. Range(p) = Range(q)
  <2>1. ASSUME NEW k \in I PROVE \E i \in I : p[k] = q[i]
    BY Zenon, <1>10
  <2>2. ASSUME NEW i \in I PROVE \E k \in I : p[k] = q[i]
    <3>1. place[i] \in I
      BY Zenon, <1>5 DEF I
    <3>2. at[place[i]] = i
      BY Zenon, <1>4, <1>10, <3>1
    <3>3. QED
      BY Zenon, <1>10, <3>1, <3>2
  <2>3. DOMAIN p = I /\ DOMAIN q = I
    BY Zenon, <1>0, <1>8
  <2>4. QED
    BY SMTT(30), <2>1, <2>2, <2>3 DEF Range
<1>13. Distinct(q) => Distinct(p)
  <2> SUFFICES ASSUME Distinct(q), NEW i \in I, NEW j \in I, p[i] = p[j] PROVE i = j
    BY Zenon, <1>11 DEF Distinct, I
  <2>1. q[at[i]] = q[at[j]] /\ at[i] \in I /\ at[j] \in I
    BY Zenon, <1>10
  <2>2. at[i] = at[j]
    BY Zenon, <2>1 DEF Distinct, I
  <2>3. QED
    BY Zenon, <1>10, <2>2
<1>14. QED
  BY Zenon, <1>7, <1>11, <1>12, <1>13

\* The state of order_dag's search.
SearchState == [ordered : Seq(DOMAIN parents), buffer : Seq(DOMAIN parents),
                already_ordered : SUBSET DOMAIN parents]

\* The parents an iteration pushes.
Pushed(s, l, now) ==
    {p \in parents[Last(now.buffer)] : /\ Round(Last(now.buffer)) # gc_round(Round(l)) + 1
                                       /\ ~Skip(s, p, now.already_ordered)}

\* An iteration takes x from the buffer, and pushes D, certificates of the round
\* below, in the order q.
Visited(now, x, D, q, next) ==
    /\ x \in DOMAIN parents /\ D \subseteq parents[x] /\ D \subseteq DOMAIN parents
    /\ q \in Seq(D) /\ Distinct(q)
    /\ next \in SearchState
    /\ next.ordered = Append(now.ordered, x)
    /\ next.buffer = Front(now.buffer) \o q
    /\ next.already_ordered = now.already_ordered \cup D

\* An iteration is such a visit.
LEMMA VisitIs ==
    ASSUME IsDag(parents), NEW s, NEW l, NEW now \in SearchState, now.buffer # <<>>,
           NEW x, x = Last(now.buffer), NEW D, D = Pushed(s, l, now),
           NEW q, q = InDigestOrder(D)
    PROVE  Visited(now, x, D, q, Visit(s, l, now))
<1> DEFINE C == DOMAIN parents
<1>1. now.ordered \in Seq(C) /\ now.buffer \in Seq(C) /\ now.already_ordered \in SUBSET C
  BY Zenon DEF SearchState
<1>2. x \in C
  BY <1>1 DEF Last
<1>3. D \subseteq parents[x]
  BY Zenon DEF Pushed
<1>4. /\ parents[x] \subseteq C
      /\ \A d \in parents[x] : /\ Round(d) = Round(x) - 1 /\ Origin(d) \in Nat
                               /\ d = <<Round(d), Origin(d)>>
  BY Zenon, <1>2, DagShape, BullsharkAssumption
<1>5. IsFiniteSet(D)
  BY Zenon, <1>3, <1>4, DagShape, FS_Subset
<1>6. \A c, d \in D : Origin(c) = Origin(d) => c = d
  BY <1>3, <1>4
<1>7. q \in Seq(D) /\ Distinct(q)
  BY Zenon, <1>3, <1>4, <1>5, <1>6, DigestOrder
<1>8. q \in Seq(C) /\ Front(now.buffer) \in Seq(C)
  BY SMTT(30), <1>1, <1>3, <1>4, <1>7 DEF Front
<1>9. Visit(s, l, now) = [ordered |-> Append(now.ordered, x), buffer |-> Front(now.buffer) \o q,
                          already_ordered |-> now.already_ordered \cup D]
  BY ZenonT(60) DEF Visit, Pushed
<1>10. /\ Append(now.ordered, x) \in Seq(C) /\ Front(now.buffer) \o q \in Seq(C)
       /\ now.already_ordered \cup D \in SUBSET C
  BY SMTT(30), <1>1, <1>2, <1>3, <1>4, <1>8
<1>11. QED
  BY SMTT(30), <1>2, <1>3, <1>4, <1>7, <1>9, <1>10 DEF SearchState, Visited

\* One more iteration, unless the search is over.
Iterate(s, l, now) == IF now.buffer = <<>> THEN now ELSE Visit(s, l, now)

\* Search is the function its recursive definition describes.
LEMMA SearchIs ==
    ASSUME IsDag(parents), NEW s, NEW l \in DOMAIN parents, NEW F, F = Search(s, l)
    PROVE  /\ F \in [Nat -> SearchState]
           /\ F[0] = [ordered |-> <<>>, buffer |-> <<l>>, already_ordered |-> {}]
           /\ \A k \in Nat : F[k + 1] = Iterate(s, l, F[k])
<1> DEFINE S == SearchState
           start == [ordered |-> <<>>, buffer |-> <<l>>, already_ordered |-> {}]
           Is(f) == f = [k \in Nat |-> IF k = 0 THEN start ELSE Iterate(s, l, f[k - 1])]
<1>1. PICK step : step = [k \in Nat |-> [X \in S |-> Iterate(s, l, X)]]
  BY Zenon
<1>2. start \in S /\ \A X \in S : Iterate(s, l, X) \in S
  <2>1. start \in S
    BY DEF SearchState
  <2>2. ASSUME NEW X \in S PROVE Iterate(s, l, X) \in S
    BY SMTT(30), VisitIs DEF Iterate, Visited
  <2>3. QED
    BY Zenon, <2>1, <2>2
<1> HIDE DEF S, start
<1>3. PICK f : IsIteration(f, S, start, step)
  <2>1. step \in [Nat -> [S -> S]]
    BY Zenon, <1>1, <1>2
  <2>2. QED
    BY <1>2, <2>1, Iteration, Zenon
<1>4. \A k \in Nat : f[k + 1] = Iterate(s, l, f[k])
  BY Zenon, <1>1, <1>3 DEF IsIteration
<1>5. Is(f)
  <2>1. \A k \in Nat : k # 0 => k - 1 \in Nat /\ (k - 1) + 1 = k
    OBVIOUS
  <2>2. \A k \in Nat : f[k] = IF k = 0 THEN start ELSE Iterate(s, l, f[k - 1])
    BY Zenon, <1>3, <1>4, <2>1 DEF IsIteration
  <2>3. QED
    BY Zenon, <1>3, <2>2 DEF IsIteration
<1>6. Is(F)
  <2>1. PICK g : g = CHOOSE h : Is(h)
    BY Zenon
  <2>2. Is(g)
    <3> HIDE DEF Is
    <3>1. QED
      BY <1>5, <2>1, Zenon
  <2>3. F = g
    BY <2>1, Zenon DEF Search, Is, Iterate, start
  <2>4. QED
    BY <2>2, <2>3, Zenon
<1>7. F[0] = start /\ \A k \in Nat : F[k + 1] = Iterate(s, l, F[k])
  <2>1. F[0] = start
    BY Zenon, <1>6
  <2>2. ASSUME NEW k \in Nat PROVE F[k + 1] = Iterate(s, l, F[k])
    <3>1. k + 1 \in Nat /\ k + 1 # 0 /\ (k + 1) - 1 = k
      OBVIOUS
    <3>2. F[k + 1] = IF k + 1 = 0 THEN start ELSE Iterate(s, l, F[(k + 1) - 1])
      BY Zenon, <1>6, <3>1
    <3>3. QED
      BY Zenon, <3>1, <3>2
  <2>3. QED
    BY Zenon, <2>1, <2>2
<1>8. F \in [Nat -> S]
  <2> DEFINE P == {k \in Nat : F[k] \in S}
  <2>1. 0 \in P /\ \A k \in Nat : k \in P => k + 1 \in P
    BY <1>2, <1>7
  <2> HIDE DEF P
  <2>2. Nat \subseteq P
    BY Zenon, <2>1, Induction
  <2>3. \A k \in Nat : F[k] \in S
    BY Zenon, <2>2 DEF P
  <2>4. F = [k \in Nat |-> F[k]]
    BY Zenon, <1>6
  <2>5. QED
    BY Zenon, <2>3, <2>4
<1>9. QED
  BY <1>7, <1>8, Zenon DEF S, start

\* Members and repetitions of a sequence with one more member,
LEMMA AppendDistinct ==
    ASSUME NEW C, NEW q \in Seq(C), NEW x \in C, Distinct(q), x \notin Range(q)
    PROVE  Range(Append(q, x)) = Range(q) \cup {x} /\ Distinct(Append(q, x))
<1>1. PICK n \in Nat : n = Len(q)
  OBVIOUS
<1>2. /\ Len(Append(q, x)) = n + 1 /\ DOMAIN q = 1 .. n /\ DOMAIN Append(q, x) = 1 .. (n + 1)
      /\ \A i \in 1 .. n : Append(q, x)[i] = q[i]
      /\ Append(q, x)[n + 1] = x
  BY <1>1
<1>3. \A i \in 1 .. n : q[i] # x
  BY Zenon, <1>2 DEF Range
<1>4. Distinct(Append(q, x))
  BY <1>1, <1>2, <1>3 DEF Distinct
<1>5. Range(Append(q, x)) = Range(q) \cup {x}
  BY <1>2 DEF Range
<1>6. QED
  BY Zenon, <1>4, <1>5

\* of two sequences one after the other,
LEMMA ConcatDistinct ==
    ASSUME NEW C, NEW p \in Seq(C), NEW q \in Seq(C), Distinct(p), Distinct(q),
           Range(p) \cap Range(q) = {}
    PROVE  Range(p \o q) = Range(p) \cup Range(q) /\ Distinct(p \o q)
<1>1. PICK m \in Nat, n \in Nat : m = Len(p) /\ n = Len(q)
  OBVIOUS
<1>2. /\ Len(p \o q) = m + n /\ DOMAIN p = 1 .. m /\ DOMAIN q = 1 .. n
      /\ DOMAIN (p \o q) = 1 .. (m + n)
      /\ \A i \in 1 .. m : (p \o q)[i] = p[i]
      /\ \A i \in (m + 1) .. (m + n) : (p \o q)[i] = q[i - m]
  BY <1>1
<1>3. \A i \in 1 .. m, j \in 1 .. n : p[i] # q[j]
  BY Zenon, <1>2 DEF Range
<1>4. Distinct(p \o q)
  <2> SUFFICES ASSUME NEW i \in 1 .. (m + n), NEW j \in 1 .. (m + n), (p \o q)[i] = (p \o q)[j]
               PROVE  i = j
    BY Zenon, <1>2 DEF Distinct
  <2>1. CASE i <= m /\ j <= m
    BY <1>1, <1>2, <2>1 DEF Distinct
  <2>2. CASE i > m /\ j > m
    <3>1. q[i - m] = q[j - m] /\ i - m \in 1 .. n /\ j - m \in 1 .. n
      BY <1>2, <2>2
    <3>2. i - m = j - m
      BY Zenon, <1>1, <3>1 DEF Distinct
    <3>3. QED
      BY <3>2
  <2>3. CASE i <= m /\ j > m
    BY <1>2, <1>3, <2>3
  <2>4. CASE i > m /\ j <= m
    BY <1>2, <1>3, <2>4
  <2>5. QED
    BY <2>1, <2>2, <2>3, <2>4
<1>5. Range(p \o q) = Range(p) \cup Range(q)
  <2>1. \A i \in 1 .. (m + n) : (p \o q)[i] \in Range(p) \cup Range(q)
    BY <1>2 DEF Range
  <2>2. \A i \in 1 .. m : p[i] = (p \o q)[i] /\ i \in 1 .. (m + n)
    BY <1>2
  <2>3. \A i \in 1 .. n : q[i] = (p \o q)[m + i] /\ m + i \in 1 .. (m + n)
    BY <1>2
  <2>4. Range(p \o q) \subseteq Range(p) \cup Range(q)
    BY <1>2, <2>1 DEF Range
  <2>5. Range(p) \subseteq Range(p \o q)
    BY Zenon, <1>2, <2>2 DEF Range
  <2>6. Range(q) \subseteq Range(p \o q)
    <3> SUFFICES ASSUME NEW i \in 1 .. n PROVE q[i] \in Range(p \o q)
      BY Zenon, <1>2 DEF Range
    <3>1. PICK j \in 1 .. (m + n) : q[i] = (p \o q)[j]
      BY ZenonT(60), <2>3
    <3>2. QED
      BY Zenon, <1>2, <3>1 DEF Range
  <2>7. QED
    BY Zenon, <2>4, <2>5, <2>6
<1>6. QED
  BY Zenon, <1>4, <1>5

\* and of a sequence without its last member.
LEMMA FrontDistinct ==
    ASSUME NEW C, NEW q \in Seq(C), q # <<>>, Distinct(q)
    PROVE  /\ Front(q) \in Seq(C) /\ Distinct(Front(q))
           /\ Range(Front(q)) = Range(q) \ {Last(q)} /\ Last(q) \in Range(q)
<1>1. PICK n \in Nat : n = Len(q) /\ n > 0
  OBVIOUS
<1>2. /\ Front(q) \in Seq(C) /\ Len(Front(q)) = n - 1 /\ DOMAIN q = 1 .. n
      /\ DOMAIN Front(q) = 1 .. (n - 1)
      /\ \A i \in 1 .. (n - 1) : Front(q)[i] = q[i]
      /\ Last(q) = q[n]
  BY <1>1 DEF Front, Last
<1>3. \A i \in 1 .. (n - 1) : q[i] # q[n]
  BY <1>1 DEF Distinct
<1>4. Distinct(Front(q))
  BY <1>1, <1>2 DEF Distinct
<1>5. \A i \in 1 .. n : i = n \/ i \in 1 .. (n - 1)
  OBVIOUS
<1>6. Range(Front(q)) = Range(q) \ {Last(q)}
  BY SMTT(30), <1>1, <1>2, <1>3, <1>5 DEF Range
<1>7. Last(q) \in Range(q)
  BY <1>1, <1>2 DEF Range
<1>8. QED
  BY Zenon, <1>2, <1>4, <1>6, <1>7

\* A sequence of distinct members is as long as its set of members is large.
LEMMA DistinctLength ==
    ASSUME NEW C, NEW q \in Seq(C), Distinct(q)
    PROVE  IsFiniteSet(Range(q)) /\ Cardinality(Range(q)) = Len(q)
<1>1. PICK n \in Nat : n = Len(q)
  OBVIOUS
<1>2. q \in Surjection(1 .. n, Range(q))
  BY <1>1 DEF Surjection, Range
<1>3. q \in Bijection(1 .. n, Range(q))
  BY Zenon, <1>1, <1>2 DEF Bijection, Injection, IsInjective, Surjection, Distinct
<1>4. ExistsBijection(1 .. n, Range(q))
  BY Zenon, <1>3 DEF ExistsBijection
<1>5. Cardinality(Range(q)) = n
  BY Zenon, <1>4, FS_CountingElements
<1>6. IsFiniteSet(Range(q))
  BY Zenon, <1>4, FS_NatBijection
<1>7. QED
  BY Zenon, <1>1, <1>5, <1>6

\* The search after k iterations.
InSearch(s, l, k, now) ==
    /\ Distinct(now.ordered) /\ Distinct(now.buffer)
    /\ Range(now.ordered) \cap Range(now.buffer) = {}
    /\ Range(now.ordered) \cup Range(now.buffer) \subseteq now.already_ordered \cup {l}
    /\ \A c \in now.already_ordered :
            Round(c) < Round(l) /\ ~(Round(c) <= s.last_committed[Origin(c)])
    /\ k = 0 => now.buffer = <<l>>
    /\ k > 0 => l \in Range(now.ordered)
    /\ now.buffer # <<>> => Len(now.ordered) = k

\* The search keeps its invariant.
LEMMA SearchInvariant ==
    ASSUME IsDag(parents), NEW s, NEW l \in DOMAIN parents, NEW F, F = Search(s, l)
    PROVE  \A k \in Nat : F[k] \in SearchState /\ InSearch(s, l, k, F[k])
<1> DEFINE C == DOMAIN parents
           P == {k \in Nat : InSearch(s, l, k, F[k])}
<1>0. /\ F \in [Nat -> SearchState]
      /\ F[0] = [ordered |-> <<>>, buffer |-> <<l>>, already_ordered |-> {}]
      /\ \A k \in Nat : F[k + 1] = Iterate(s, l, F[k])
  BY ZenonT(60), SearchIs
<1>1. 0 \in P
  <2>1. F[0].ordered = <<>> /\ F[0].buffer = <<l>> /\ F[0].already_ordered = {}
    BY <1>0
  <2>2. /\ Distinct(<<>>) /\ Distinct(<<l>>) /\ Range(<<>>) = {} /\ Range(<<l>>) = {l}
        /\ Len(<<>>) = 0
    BY DEF Distinct, Range
  <2>3. InSearch(s, l, 0, F[0])
    BY <2>1, <2>2 DEF InSearch
  <2>4. QED
    BY Zenon, <2>3
<1>2. ASSUME NEW k \in Nat, k \in P PROVE k + 1 \in P
  <2>1. PICK now \in SearchState : now = F[k]
    BY Zenon, <1>0
  <2>2. InSearch(s, l, k, now)
    BY Zenon, <1>2, <2>1
  <2>3. k + 1 \in Nat /\ k + 1 # 0 /\ k + 1 > 0
    OBVIOUS
  <2>4. CASE now.buffer = <<>>
    <3>1. F[k + 1] = now
      BY Zenon, <1>0, <2>1, <2>4 DEF Iterate
    <3>2. k # 0
      <4>1. <<l>> # <<>>
        BY Zenon
      <4>2. QED
        BY Zenon, <2>2, <2>4, <4>1 DEF InSearch
    <3>3. InSearch(s, l, k + 1, now)
      BY <2>2, <2>3, <2>4, <3>2 DEF InSearch
    <3>4. QED
      BY Zenon, <2>3, <3>1, <3>3
  <2>5. CASE now.buffer # <<>>
    <3>1. PICK x, D, q : x = Last(now.buffer) /\ D = Pushed(s, l, now) /\ q = InDigestOrder(D)
      BY Zenon
    <3>2. PICK nxt : nxt = Visit(s, l, now)
      BY Zenon
    <3>3. F[k + 1] = nxt
      BY Zenon, <1>0, <2>1, <2>5, <3>2 DEF Iterate
    <3>4. /\ x \in C /\ D \subseteq parents[x] /\ D \subseteq C
          /\ q \in Seq(D) /\ Distinct(q)
          /\ nxt.ordered = Append(now.ordered, x)
          /\ nxt.buffer = Front(now.buffer) \o q
          /\ nxt.already_ordered = now.already_ordered \cup D
      <4>1. Visited(now, x, D, q, nxt)
        BY <2>5, <3>1, <3>2, VisitIs, Zenon
      <4>2. QED
        BY <4>1, Zenon DEF Visited
    <3>5. PICK O, B, A : O = now.ordered /\ B = now.buffer /\ A = now.already_ordered
      BY Zenon
    <3>6. O \in Seq(C) /\ B \in Seq(C) /\ A \subseteq C
      BY Zenon, <3>5 DEF SearchState
    <3>7. /\ Distinct(O) /\ Distinct(B) /\ Range(O) \cap Range(B) = {}
          /\ Range(O) \cup Range(B) \subseteq A \cup {l}
          /\ \A c \in A : Round(c) < Round(l) /\ ~(Round(c) <= s.last_committed[Origin(c)])
          /\ k = 0 => B = <<l>>
          /\ k > 0 => l \in Range(O)
          /\ Len(O) = k
      BY Zenon, <2>2, <2>5, <3>5 DEF InSearch
    <3>8. /\ Front(B) \in Seq(C) /\ Distinct(Front(B))
          /\ Range(Front(B)) = Range(B) \ {x} /\ x \in Range(B)
      BY Zenon, <2>5, <3>1, <3>5, <3>6, <3>7, FrontDistinct
    <3>9. Range(Append(O, x)) = Range(O) \cup {x} /\ Distinct(Append(O, x))
      <4>1. x \notin Range(O)
        BY Zenon, <3>7, <3>8
      <4>2. QED
        BY Zenon, <3>4, <3>6, <3>7, <4>1, AppendDistinct
    <3>10. \A c \in D : /\ Round(c) < Round(l) /\ c \notin A
                        /\ ~(Round(c) <= s.last_committed[Origin(c)])
      <4> SUFFICES ASSUME NEW c \in D
                   PROVE  Round(c) < Round(l) /\ c \notin A
                          /\ ~(Round(c) <= s.last_committed[Origin(c)])
        BY Zenon
      <4>1. c \notin A /\ ~(Round(c) <= s.last_committed[Origin(c)])
        BY Zenon, <3>1, <3>5 DEF Pushed, Skip
      <4>2. Round(c) = Round(x) - 1 /\ Round(x) \in Nat /\ Round(l) \in Nat
        BY Zenon, <3>4, DagShape
      <4>3. x = l \/ Round(x) < Round(l)
        BY Zenon, <3>7, <3>8
      <4>4. QED
        BY <4>1, <4>2, <4>3
    <3>11. Range(q) \subseteq D /\ q \in Seq(C)
      BY <3>4 DEF Range
    <3>12. Range(Front(B)) \cap Range(q) = {} /\ x \notin Range(q) /\ Range(O) \cap Range(q) = {}
      <4>1. Round(l) \in Nat
        BY Zenon, DagShape
      <4>2. l \notin D
        BY <3>10, <4>1
      <4>3. QED
        BY Zenon, <3>7, <3>8, <3>10, <3>11, <4>2
    <3>13. /\ Range(Front(B) \o q) = Range(Front(B)) \cup Range(q)
           /\ Distinct(Front(B) \o q)
      BY Zenon, <3>4, <3>8, <3>11, <3>12, ConcatDistinct
    <3>14. nxt.ordered = Append(O, x) /\ nxt.buffer = Front(B) \o q /\ nxt.already_ordered = A \cup D
      BY Zenon, <3>4, <3>5
    <3>15. l \in Range(Append(O, x))
      <4>1. CASE k = 0
        <5>1. Last(<<l>>) = l
          BY Zenon DEF Last
        <5>2. QED
          BY Zenon, <3>1, <3>5, <3>7, <3>9, <4>1, <5>1
      <4>2. QED
        BY SMTT(30), <3>7, <3>9, <4>1
    <3>16. Len(Append(O, x)) = k + 1
      BY SMTT(30), <3>6, <3>7
    <3>17. InSearch(s, l, k + 1, nxt)
      <4>1. Range(nxt.ordered) \cap Range(nxt.buffer) = {}
        BY SMTT(30), <3>7, <3>8, <3>9, <3>12, <3>13, <3>14
      <4>2. Range(nxt.ordered) \cup Range(nxt.buffer) \subseteq nxt.already_ordered \cup {l}
        BY Zenon, <3>7, <3>8, <3>9, <3>11, <3>13, <3>14
      <4>3. \A c \in nxt.already_ordered :
                Round(c) < Round(l) /\ ~(Round(c) <= s.last_committed[Origin(c)])
        BY Zenon, <3>7, <3>10, <3>14
      <4>4. QED
        BY Zenon, <2>3, <3>9, <3>13, <3>14, <3>15, <3>16, <4>1, <4>2, <4>3 DEF InSearch
    <3>18. QED
      BY Zenon, <2>3, <3>3, <3>17
  <2>6. QED
    BY Zenon, <2>4, <2>5
<1> HIDE DEF P
<1>3. Nat \subseteq P
  BY Zenon, <1>1, <1>2, Induction
<1>4. QED
  BY Zenon, <1>0, <1>3 DEF P

\* The search is over after as many iterations as there are certificates: the
\* bound in order_dag cuts nothing off.
THEOREM SearchEnds ==
    ASSUME IsDag(parents), NEW s, NEW l \in DOMAIN parents
    PROVE  Search(s, l)[Cardinality(DOMAIN parents)].buffer = <<>>
<1> DEFINE C == DOMAIN parents
           n == Cardinality(C)
<1>1. IsFiniteSet(C) /\ n \in Nat
  BY Zenon, DagShape, FS_CardinalityType
<1>2. PICK now : now = Search(s, l)[n]
  BY Zenon
<1>3. now \in SearchState /\ InSearch(s, l, n, now)
  BY Zenon, <1>1, <1>2, SearchInvariant
<1> SUFFICES ASSUME now.buffer # <<>> PROVE FALSE
  BY Zenon, <1>2
<1>4. now.ordered \in Seq(C) /\ now.buffer \in Seq(C)
  BY Zenon, <1>3 DEF SearchState
<1>5. Distinct(now.ordered) /\ Len(now.ordered) = n /\ Range(now.ordered) \cap Range(now.buffer) = {}
  BY Zenon, <1>3 DEF InSearch
<1>6. Cardinality(Range(now.ordered)) = n
  BY Zenon, <1>4, <1>5, DistinctLength
<1>7. Range(now.ordered) \subseteq C
  BY <1>4 DEF Range
<1>8. Range(now.ordered) = C
  BY Zenon, <1>1, <1>6, <1>7, FS_Subset
<1>9. PICK x : x \in Range(now.buffer) /\ x \in C
  <2>1. now.buffer[1] \in C /\ 1 \in DOMAIN now.buffer
    BY <1>4
  <2>2. QED
    BY Zenon, <2>1 DEF Range
<1>10. QED
  BY Zenon, <1>5, <1>8, <1>9

\* The sub-dag of a leader has the leader and older certificates that are above the
\* last round committed for their authors, each once.
LEMMA OrderDag ==
    ASSUME IsDag(parents), NEW s, NEW l \in DOMAIN parents, NEW q, q = order_dag(s, l)
    PROVE  /\ q \in Seq(DOMAIN parents) /\ Distinct(q) /\ l \in Range(q)
           /\ \A c \in Range(q) :
                \/ c = l
                \/ Round(c) < Round(l) /\ ~(Round(c) <= s.last_committed[Origin(c)])
<1> DEFINE C == DOMAIN parents
           n == Cardinality(C)
<1>1. IsFiniteSet(C) /\ n \in Nat /\ n # 0
  BY Zenon, DagShape, FS_CardinalityType, FS_EmptySet
<1>2. PICK now : now = Search(s, l)[n]
  BY Zenon
<1>3. now \in SearchState /\ InSearch(s, l, n, now)
  BY Zenon, <1>1, <1>2, SearchInvariant
<1>4. now.ordered \in Seq(C)
  BY Zenon, <1>3 DEF SearchState
<1>5. q = ByRound(now.ordered)
  BY Zenon, <1>2 DEF order_dag
<1>6. /\ Distinct(now.ordered) /\ l \in Range(now.ordered)
      /\ \A c \in Range(now.ordered) :
            \/ c = l
            \/ Round(c) < Round(l) /\ ~(Round(c) <= s.last_committed[Origin(c)])
  BY <1>1, <1>3 DEF InSearch
<1>7. \A c \in C : Round(c) \in Nat
  BY Zenon, DagShape
<1>8. q \in Seq(C) /\ Range(q) = Range(now.ordered) /\ Distinct(q)
  BY Zenon, <1>4, <1>5, <1>6, <1>7, ByRoundPermutes
<1>9. QED
  BY Zenon, <1>6, <1>8

-----------------------------------------------------------------------------
(* Committing a leader *)

\* A committed sub-dag.
SubDag == [leader : DOMAIN parents, certificates : Seq(DOMAIN parents), scores : [Authority -> Nat]]

\* The round of the last committed leader.
LastRound(sub_dags) == IF sub_dags = <<>> THEN 0 ELSE Round(Last(sub_dags).leader)

\* What a validator has committed is in order: the leaders' rounds are even and
\* grow, last_committed is an upper bound of what is sequenced for each author and
\* reaches the round of the last leader and no further, no certificate is
\* sequenced twice, and the table is the one a restart computes.
StateOK(s) ==
    /\ s \in [dag : SUBSET DOMAIN parents, last_committed : [Authority -> Nat],
              sub_dags : Seq(SubDag), table : {s.table}]
    /\ \A a \in Authority : s.last_committed[a] <= LastRound(s.sub_dags)
    /\ \E a \in Authority : s.last_committed[a] = LastRound(s.sub_dags)
    /\ \A i \in 1 .. Len(s.sub_dags) :
        /\ Round(s.sub_dags[i].leader) % 2 = 0
        /\ \A j \in 1 .. Len(s.sub_dags) : j < i =>
                Round(s.sub_dags[j].leader) < Round(s.sub_dags[i].leader)
        /\ Distinct(s.sub_dags[i].certificates)
        /\ \A c \in Range(s.sub_dags[i].certificates) : Round(c) <= s.last_committed[Origin(c)]
        /\ \A j \in 1 .. Len(s.sub_dags) : i # j =>
                Range(s.sub_dags[i].certificates) \cap Range(s.sub_dags[j].certificates) = {}
    /\ s.table = RestoredTable(s.sub_dags)

\* CommittedRound is the round of the last leader, an even number.
LEMMA CommittedRoundIs ==
    ASSUME IsDag(parents), NEW s, StateOK(s)
    PROVE  /\ CommittedRound(s) = LastRound(s.sub_dags)
           /\ CommittedRound(s) \in Nat /\ CommittedRound(s) % 2 = 0
           /\ \A a \in Authority : s.last_committed[a] \in Nat /\ s.last_committed[a] <= CommittedRound(s)
<1> DEFINE r == LastRound(s.sub_dags)
           T == {s.last_committed[a] : a \in Authority}
<1>1. s.last_committed \in [Authority -> Nat] /\ s.sub_dags \in Seq(SubDag)
  BY Zenon DEF StateOK
<1>2. r \in Nat /\ r % 2 = 0
  <2>1. CASE s.sub_dags = <<>>
    BY <2>1 DEF LastRound
  <2>2. CASE s.sub_dags # <<>>
    <3>1. Len(s.sub_dags) \in 1 .. Len(s.sub_dags) /\ Last(s.sub_dags) = s.sub_dags[Len(s.sub_dags)]
      BY <1>1, <2>2 DEF Last
    <3>2. s.sub_dags[Len(s.sub_dags)] \in SubDag
      BY <1>1, <3>1
    <3>3. s.sub_dags[Len(s.sub_dags)].leader \in DOMAIN parents
      BY Zenon, <3>2 DEF SubDag
    <3>4. Round(s.sub_dags[Len(s.sub_dags)].leader) \in Nat
      BY Zenon, <3>3, DagShape
    <3>5. Round(s.sub_dags[Len(s.sub_dags)].leader) % 2 = 0
      BY Zenon, <3>1 DEF StateOK
    <3>6. QED
      BY Zenon, <2>2, <3>1, <3>4, <3>5 DEF LastRound
  <2>3. QED
    BY Zenon, <2>1, <2>2
<1>3. \A a \in Authority : s.last_committed[a] \in Nat /\ s.last_committed[a] <= r
  BY Zenon, <1>1 DEF StateOK
<1>4. \E a \in Authority : s.last_committed[a] = r
  BY Zenon DEF StateOK
<1> HIDE DEF r
<1>5. T \subseteq Nat /\ T # {} /\ r \in T /\ \A x \in T : x <= r
  BY Zenon, <1>3, <1>4
<1>6. Max(T) \in T /\ \A x \in T : x <= Max(T)
  <2> HIDE DEF T
  <2>1. QED
    BY Zenon, <1>2, <1>5, MaxOfBounded
<1>7. Max(T) = r
  <2> HIDE DEF T
  <2>1. Max(T) \in Nat /\ Max(T) <= r /\ r <= Max(T)
    BY Zenon, <1>5, <1>6
  <2>2. QED
    BY <1>2, <2>1
<1>8. CommittedRound(s) = r
  BY Zenon, <1>7 DEF CommittedRound
<1>9. QED
  BY Zenon, <1>2, <1>3, <1>8 DEF r

\* The table after one more sub-dag: a new one only if it ends a schedule.
LEMMA NextTable ==
    ASSUME NEW S, NEW q \in Seq(S), NEW x \in S
    PROVE  RestoredTable(Append(q, x)) =
               IF FinalOfSchedule(Len(q) + 1) THEN LeaderSwapTable(x.scores) ELSE RestoredTable(q)
<1> DEFINE n == Len(q)
           p == Append(q, x)
           Final(t) == {i \in 1 .. Len(t) : FinalOfSchedule(i)}
<1>1. n \in Nat /\ Len(p) = n + 1 /\ p[n + 1] = x /\ \A i \in 1 .. n : p[i] = q[i]
  OBVIOUS
<1>2. \A t : RestoredTable(t) =
                 IF Final(t) = {} THEN NoSwaps ELSE LeaderSwapTable(t[Max(Final(t))].scores)
  BY Zenon DEF RestoredTable
<1>3. CASE FinalOfSchedule(n + 1)
  <2>1. n + 1 \in Final(p) /\ Final(p) \subseteq Nat /\ \A i \in Final(p) : i <= n + 1
    BY <1>1, <1>3
  <2>2. PICK T : T = Final(p)
    BY Zenon
  <2>3. Max(T) \in T /\ \A i \in T : i <= Max(T)
    <3>1. T \subseteq Nat /\ T # {} /\ n + 1 \in Nat /\ \A i \in T : i <= n + 1
      BY Zenon, <1>1, <2>1, <2>2
    <3>2. QED
      BY ZenonT(60), <3>1, MaxOfBounded
  <2>4. Max(T) = n + 1
    BY <1>1, <2>1, <2>2, <2>3
  <2>5. RestoredTable(p) = LeaderSwapTable(p[n + 1].scores)
    <3> HIDE DEF Final
    <3>1. QED
      BY ZenonT(60), <1>2, <2>1, <2>2, <2>4
  <2>6. QED
    BY Zenon, <1>1, <1>3, <2>5
<1>4. CASE ~FinalOfSchedule(n + 1)
  <2>1. Final(p) = Final(q)
    BY <1>1, <1>4
  <2>2. PICK T : T = Final(q)
    BY Zenon
  <2>3. T # {} => Max(T) \in 1 .. n
    <3> SUFFICES ASSUME T # {} PROVE Max(T) \in 1 .. n
      BY Zenon
    <3>1. T \subseteq Nat /\ \A i \in T : i <= n
      BY SMTT(30), <1>1, <2>2
    <3>2. Max(T) \in T
      BY ZenonT(60), <1>1, <3>1, MaxOfBounded
    <3>3. QED
      BY Zenon, <2>2, <3>2
  <2>4. T # {} => p[Max(T)] = q[Max(T)]
    BY Zenon, <1>1, <2>3
  <2> HIDE DEF Final
  <2>5. RestoredTable(p) = RestoredTable(q)
    BY ZenonT(60), <1>2, <2>1, <2>2, <2>4
  <2>6. QED
    BY Zenon, <1>4, <2>5
<1>5. QED
  BY Zenon, <1>3, <1>4

\* The scores of a sub-dag are numbers.
LEMMA ScoresType ==
    ASSUME IsDag(parents), NEW s, s.sub_dags \in Seq(SubDag), NEW q \in Seq(DOMAIN parents)
    PROVE  resolve_reputation_score(s, q) \in [Authority -> Nat]
<1> DEFINE index == Len(s.sub_dags) + 1
           fresh == index = 1 \/ index % SubDagsPerSchedule = 0
           Votes(a) == Cardinality({c \in Range(q) :
                           Origin(c) = a /\ Last(s.sub_dags).leader \in parents[c]})
           Old(a) == IF fresh THEN 0 ELSE Last(s.sub_dags).scores[a]
           Added(a) == IF s.sub_dags = <<>> THEN 0 ELSE Votes(a)
<1>1. ASSUME NEW a \in Authority PROVE Votes(a) \in Nat
  <2>1. PICK V : V = {c \in Range(q) : Origin(c) = a /\ Last(s.sub_dags).leader \in parents[c]}
    BY Zenon
  <2>2. V \subseteq DOMAIN parents
    BY <2>1 DEF Range
  <2>3. IsFiniteSet(V)
    BY Zenon, <2>2, DagShape, FS_Subset
  <2>4. QED
    BY Zenon, <2>1, <2>3, FS_CardinalityType
<1>2. ASSUME NEW a \in Authority PROVE Old(a) \in Nat
  <2>1. CASE fresh
    BY Zenon, <2>1
  <2>2. CASE ~fresh
    <3>1. Len(s.sub_dags) \in 1 .. Len(s.sub_dags)
      BY <2>2
    <3>2. Last(s.sub_dags) \in SubDag
      BY <3>1 DEF Last
    <3>3. Last(s.sub_dags).scores[a] \in Nat
      BY Zenon, <3>2 DEF SubDag
    <3>4. QED
      BY Zenon, <2>2, <3>3
  <2>3. QED
    BY Zenon, <2>1, <2>2
<1>3. resolve_reputation_score(s, q) = [a \in Authority |-> Old(a) + Added(a)]
  BY Zenon DEF resolve_reputation_score
<1> HIDE DEF Votes, Old
<1>4. \A a \in Authority : Old(a) + Added(a) \in Nat
  BY <1>1, <1>2
<1> HIDE DEF Added
<1>5. QED
  BY Zenon, <1>3, <1>4

\* One more sub-dag: what commit_leader's loop body does to a state in order.
Extends(t, s, l) ==
    /\ StateOK(t) /\ CommittedRound(t) = Round(l)
    /\ t.dag = {c \in s.dag : Round(c) > gc_round(Round(l))}
    /\ Len(t.sub_dags) = Len(s.sub_dags) + 1
    /\ \A i \in 1 .. Len(s.sub_dags) : t.sub_dags[i] = s.sub_dags[i]
    /\ ~FinalOfSchedule(Len(s.sub_dags) + 1) => t.table = s.table

\* Committing a leader after the last committed round adds one sub-dag, of
\* certificates none of which was committed before.
LEMMA CommitLeaderIs ==
    ASSUME IsDag(parents), NEW s, StateOK(s), NEW l \in DOMAIN parents,
           Round(l) % 2 = 0, Round(l) > CommittedRound(s)
    PROVE  Extends(CommitLeader(s, l), s, l)
<1> DEFINE C == DOMAIN parents
<1>1. PICK q : q = order_dag(s, l)
  BY Zenon
<1>2. /\ q \in Seq(C) /\ Distinct(q) /\ l \in Range(q)
      /\ \A c \in Range(q) : \/ c = l
                             \/ Round(c) < Round(l) /\ ~(Round(c) <= s.last_committed[Origin(c)])
  BY Zenon, <1>1, OrderDag
<1>3. PICK scores : scores = resolve_reputation_score(s, q)
  BY Zenon
<1>4. s \in [dag : SUBSET C, last_committed : [Authority -> Nat],
             sub_dags : Seq(SubDag), table : {s.table}]
  BY Zenon DEF StateOK
<1>5. s.sub_dags \in Seq(SubDag) /\ s.last_committed \in [Authority -> Nat] /\ s.dag \subseteq C
  BY Zenon, <1>4
<1>6. scores \in [Authority -> Nat]
  BY Zenon, <1>2, <1>3, <1>5, ScoresType
<1>7. /\ CommittedRound(s) = LastRound(s.sub_dags) /\ CommittedRound(s) \in Nat
      /\ \A a \in Authority : s.last_committed[a] <= CommittedRound(s)
  BY Zenon, CommittedRoundIs
<1>8. Round(l) \in Nat /\ Origin(l) \in Authority /\ \A c \in C : Round(c) \in Nat /\ Origin(c) \in Authority
  BY Zenon, DagShape
<1>9. \A c \in Range(q) : c \in C /\ Round(c) <= Round(l)
  <2>1. Range(q) \subseteq C
    BY <1>2 DEF Range
  <2>2. QED
    BY <1>2, <1>8, <2>1
<1> DEFINE Rounds(a) == {s.last_committed[a]} \cup {Round(c) : c \in {d \in Range(q) : Origin(d) = a}}
<1>10. PICK last : last = [a \in Authority |-> Max(Rounds(a))]
  BY Zenon
<1>11. ASSUME NEW a \in Authority
       PROVE  /\ last[a] \in Nat /\ s.last_committed[a] <= last[a] /\ last[a] <= Round(l)
              /\ \A c \in Range(q) : Origin(c) = a => Round(c) <= last[a]
  <2>1. /\ Rounds(a) \subseteq Nat /\ s.last_committed[a] \in Rounds(a)
        /\ \A x \in Rounds(a) : x <= Round(l)
    BY SMTT(30), <1>5, <1>7, <1>8, <1>9
  <2>2. \A c \in Range(q) : Origin(c) = a => Round(c) \in Rounds(a)
    BY Zenon
  <2> HIDE DEF Rounds
  <2>3. Max(Rounds(a)) \in Rounds(a) /\ \A x \in Rounds(a) : x <= Max(Rounds(a))
    <3>1. PICK T : T = Rounds(a)
      BY Zenon
    <3>2. Max(T) \in T /\ \A x \in T : x <= Max(T)
      BY Zenon, <1>8, <2>1, <3>1, MaxOfBounded
    <3>3. QED
      BY Zenon, <3>1, <3>2
  <2>4. last[a] = Max(Rounds(a))
    BY Zenon, <1>10
  <2>5. QED
    BY Zenon, <2>1, <2>2, <2>3, <2>4
<1>12. last \in [Authority -> Nat]
  BY Zenon, <1>10, <1>11
<1>13. last[Origin(l)] = Round(l)
  BY <1>2, <1>8, <1>11
<1>14. Max({last[a] : a \in Authority}) = Round(l)
  <2>1. PICK T : T = {last[a] : a \in Authority}
    BY Zenon
  <2>2. T \subseteq Nat /\ Round(l) \in T /\ \A x \in T : x <= Round(l)
    BY Zenon, <1>8, <1>11, <1>13, <2>1
  <2>3. Max(T) \in T /\ \A x \in T : x <= Max(T)
    BY Zenon, <1>8, <2>2, MaxOfBounded
  <2>4. Max(T) = Round(l)
    <3>1. Max(T) \in Nat /\ Max(T) <= Round(l) /\ Round(l) <= Max(T)
      BY ZenonT(60), <2>2, <2>3
    <3>2. QED
      BY SMTT(30), <1>8, <3>1
  <2>5. QED
    BY Zenon, <2>1, <2>4
<1> DEFINE d == [leader |-> l, certificates |-> q, scores |-> scores]
           subs == Append(s.sub_dags, d)
           D == {c \in s.dag : Round(c) > gc_round(Round(l))}
           T == IF FinalOfSchedule(Len(s.sub_dags) + 1) THEN LeaderSwapTable(scores) ELSE s.table
<1>15. PICK t : t = CommitLeader(s, l)
  BY Zenon
<1>16. t = [dag |-> D, last_committed |-> last, sub_dags |-> subs, table |-> T]
  <2>1. last = [a \in Authority |-> Max({s.last_committed[a]} \cup
                    {Round(c) : c \in {e \in Range(q) : Origin(e) = a}})]
    BY <1>10, ZenonT(60)
  <2>2. t = [dag |-> {c \in s.dag : Round(c) > gc_round(Max({last[a] : a \in Authority}))},
             last_committed |-> last, sub_dags |-> subs, table |-> T]
    BY <1>1, <1>3, <1>15, <2>1, ZenonT(60) DEF CommitLeader
  <2>3. QED
    BY <1>14, <2>2, Zenon
<1>17. d \in SubDag /\ d.leader = l /\ d.certificates = q /\ d.scores = scores
  BY Zenon, <1>2, <1>6 DEF SubDag
<1>18. PICK n \in Nat : n = Len(s.sub_dags)
  BY <1>5
<1> HIDE DEF d
<1>19. /\ subs \in Seq(SubDag) /\ Len(subs) = n + 1 /\ subs[n + 1] = d /\ subs # <<>>
       /\ \A i \in 1 .. n : subs[i] = s.sub_dags[i]
  <2>1. PICK u \in Seq(SubDag) : u = s.sub_dags
    BY Zenon, <1>5
  <2>2. PICK e \in SubDag : e = d
    BY Zenon, <1>17
  <2>3. /\ Append(u, e) \in Seq(SubDag) /\ Len(Append(u, e)) = Len(u) + 1
        /\ Append(u, e)[Len(u) + 1] = e /\ \A i \in 1 .. Len(u) : Append(u, e)[i] = u[i]
    OBVIOUS
  <2>4. subs = Append(u, e) /\ Len(u) = n
    BY Zenon, <1>18, <2>1, <2>2
  <2> HIDE DEF subs
  <2>5. /\ subs \in Seq(SubDag) /\ Len(subs) = n + 1 /\ subs[n + 1] = d
        /\ \A i \in 1 .. n : subs[i] = s.sub_dags[i]
    BY <2>1, <2>2, <2>3, <2>4, Zenon
  <2>6. QED
    BY <2>5
<1>20. LastRound(subs) = Round(l)
  BY Zenon, <1>17, <1>19 DEF LastRound, Last
<1>21. T = RestoredTable(subs)
  <2>1. RestoredTable(subs) = IF FinalOfSchedule(Len(s.sub_dags) + 1)
                              THEN LeaderSwapTable(d.scores) ELSE RestoredTable(s.sub_dags)
    BY Zenon, <1>5, <1>17, NextTable
  <2>2. s.table = RestoredTable(s.sub_dags)
    BY Zenon DEF StateOK
  <2>3. QED
    BY Zenon, <1>17, <2>1, <2>2
<1> HIDE DEF subs, D, T
<1>22. /\ t.dag = D /\ t.last_committed = last /\ t.sub_dags = subs /\ t.table = T
       /\ t \in [dag : SUBSET C, last_committed : [Authority -> Nat],
                 sub_dags : Seq(SubDag), table : {t.table}]
  BY Zenon, <1>5, <1>12, <1>16, <1>19 DEF D
<1>23. ASSUME NEW i \in 1 .. n
       PROVE  Round(s.sub_dags[i].leader) \in Nat /\ Round(s.sub_dags[i].leader) < Round(l)
  <2>1. s.sub_dags[i] \in SubDag /\ s.sub_dags[n] \in SubDag /\ s.sub_dags # <<>>
    BY <1>5, <1>18
  <2>2. Round(s.sub_dags[i].leader) \in Nat /\ Round(s.sub_dags[n].leader) \in Nat
    BY ZenonT(60), <1>8, <2>1 DEF SubDag
  <2>3. Round(s.sub_dags[n].leader) < Round(l)
    BY Zenon, <1>7, <1>18, <2>1 DEF LastRound, Last
  <2>4. i = n \/ Round(s.sub_dags[i].leader) < Round(s.sub_dags[n].leader)
    BY SMTT(30), <1>18 DEF StateOK
  <2>5. QED
    BY <1>8, <2>2, <2>3, <2>4
<1>24. ASSUME NEW i \in 1 .. n, NEW c \in Range(s.sub_dags[i].certificates)
       PROVE  c \notin Range(q) /\ Round(c) <= last[Origin(c)]
  <2>1. s.sub_dags[i] \in SubDag
    BY <1>5, <1>18
  <2>2. c \in C
    BY SMTT(30), <2>1 DEF SubDag, Range
  <2>3. Round(c) <= s.last_committed[Origin(c)]
    BY Zenon, <1>18 DEF StateOK
  <2>4. Origin(c) \in Authority /\ Round(c) \in Nat /\ s.last_committed[Origin(c)] \in Nat
    BY Zenon, <1>5, <1>8, <2>2
  <2>5. c # l
    BY SMTT(30), <1>7, <1>8, <2>3, <2>4
  <2>6. QED
    BY SMTT(30), <1>2, <1>11, <2>3, <2>4, <2>5
<1>25. ASSUME NEW i \in 1 .. (n + 1)
       PROVE  /\ Round(subs[i].leader) % 2 = 0
              /\ \A j \in 1 .. (n + 1) : j < i => Round(subs[j].leader) < Round(subs[i].leader)
              /\ Distinct(subs[i].certificates)
              /\ \A c \in Range(subs[i].certificates) : Round(c) <= last[Origin(c)]
              /\ \A j \in 1 .. (n + 1) : i # j =>
                     Range(subs[i].certificates) \cap Range(subs[j].certificates) = {}
  <2>1. CASE i = n + 1
    <3>1. subs[i].leader = l /\ subs[i].certificates = q
      BY Zenon, <1>17, <1>19, <2>1
    <3>2. \A j \in 1 .. (n + 1) : j # i => j \in 1 .. n /\ subs[j] = s.sub_dags[j]
      BY <1>19, <2>1
    <3>3. \A j \in 1 .. (n + 1) : j < i => Round(subs[j].leader) < Round(subs[i].leader)
      BY <1>23, <3>1, <3>2
    <3>4. \A j \in 1 .. (n + 1) : i # j =>
              Range(subs[i].certificates) \cap Range(subs[j].certificates) = {}
      BY Zenon, <1>24, <3>1, <3>2
    <3>5. \A c \in Range(q) : Round(c) <= last[Origin(c)]
      BY Zenon, <1>8, <1>9, <1>11
    <3>6. QED
      BY Zenon, <1>2, <3>1, <3>3, <3>4, <3>5
  <2>2. CASE i \in 1 .. n
    <3>1. subs[i] = s.sub_dags[i] /\ i \in 1 .. Len(s.sub_dags)
      BY Zenon, <1>18, <1>19, <2>2
    <3>2. /\ Round(s.sub_dags[i].leader) % 2 = 0
          /\ \A j \in 1 .. n : j < i => Round(s.sub_dags[j].leader) < Round(s.sub_dags[i].leader)
          /\ Distinct(s.sub_dags[i].certificates)
          /\ \A j \in 1 .. n : i # j =>
                 Range(s.sub_dags[i].certificates) \cap Range(s.sub_dags[j].certificates) = {}
      BY ZenonT(60), <1>18, <3>1 DEF StateOK
    <3>3. \A j \in 1 .. (n + 1) : j < i => Round(subs[j].leader) < Round(subs[i].leader)
      BY <1>19, <3>1, <3>2
    <3>4. ASSUME NEW j \in 1 .. (n + 1), i # j
          PROVE  Range(subs[i].certificates) \cap Range(subs[j].certificates) = {}
      <4>1. CASE j = n + 1
        BY Zenon, <1>17, <1>19, <1>24, <2>2, <3>1, <4>1
      <4>2. CASE j # n + 1
        BY SMTT(30), <1>19, <3>1, <3>2, <3>4, <4>2
      <4>3. QED
        BY Zenon, <4>1, <4>2
    <3>5. \A c \in Range(subs[i].certificates) : Round(c) <= last[Origin(c)]
      BY Zenon, <1>24, <2>2, <3>1
    <3>6. QED
      BY Zenon, <3>1, <3>2, <3>3, <3>4, <3>5
  <2>3. QED
    BY SMTT(30), <2>1, <2>2
<1>26. StateOK(t)
  <2>1. /\ \A a \in Authority : last[a] <= LastRound(subs)
        /\ \E a \in Authority : last[a] = LastRound(subs)
    BY Zenon, <1>8, <1>11, <1>13, <1>20
  <2>2. QED
    BY ZenonT(60), <1>19, <1>21, <1>22, <1>25, <2>1 DEF StateOK
<1>27. CommittedRound(t) = Round(l)
  BY Zenon, <1>20, <1>22, <1>26, CommittedRoundIs
<1>28. Extends(t, s, l)
  BY Zenon, <1>18, <1>19, <1>22, <1>26, <1>27 DEF Extends, D, T
<1>29. QED
  BY Zenon, <1>15, <1>28
=============================================================================
