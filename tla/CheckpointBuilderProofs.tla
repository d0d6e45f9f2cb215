----------------------- MODULE CheckpointBuilderProofs -----------------------
(***************************************************************************)
(* Proofs about CheckpointBuilder for any validators, transactions and     *)
(* logs, and any number of crashes.                                        *)
(*                                                                         *)
(* The checkpoints of a validator are a function of the log: IsChain says  *)
(* what they are after each commit, whoever computes them and whenever.    *)
(* The inductive invariant IInv says that whatever a validator stores,     *)
(* signs or has in memory is on a chain; chains agree where both are       *)
(* defined, and this gives NoFork.  The other theorems are facts about     *)
(* chains, by induction on the commits.                                    *)
(***************************************************************************)
EXTENDS CheckpointBuilder, NaturalsInduction, WellFoundedInduction, TLAPS

\* The checkpoints that commit k adds to b.
Batch(l, b, k) == Checkpoints(Complete(b, Roots(l, k)), k, k = Len(l))

\* f[k] is the sequence of checkpoints after k commits of l.
IsChain(l, f, h) ==
    /\ h \in 0 .. Len(l)
    /\ f[0] = <<>>
    /\ \A k \in 1 .. h : f[k] = f[k - 1] \o Batch(l, f[k - 1], k)

Checkpoint == [contents : Seq(Tx \cup {ADVANCE}), last : BOOLEAN, height : Nat]

-----------------------------------------------------------------------------
(* Sets of transactions *)

\* Every non-empty set of numbers has a least element: induction, as a fact to cite.
LEMMA LeastNat ==
    ASSUME NEW T, T \subseteq Nat, T # {}
    PROVE  \E x \in T : \A y \in T : x <= y
<1> DEFINE Less == {ss \in Nat \X Nat : ss[1] < ss[2]}
<1>1. IsWellFoundedOn(Less, Nat)
  BY NatLessThanWellFounded, Zenon DEF OpToRel
<1> HIDE DEF Less
<1>2. PICK x \in T : \A y \in T : ~ (<<y, x>> \in Less)
  BY <1>1, WFMin, Zenon
<1>3. ASSUME NEW y \in T PROVE x <= y
  <2>1. <<y, x>> \notin Less
    BY Zenon, <1>2
  <2>2. QED
    BY <2>1 DEF Less
<1>4. QED
  BY Zenon, <1>3

\* Closure has the roots and is closed under dependencies, up to stop.
LEMMA ClosureClosed ==
    ASSUME NEW roots \in SUBSET Tx, NEW stop, Old \subseteq stop
    PROVE  /\ Closure(roots, stop) \subseteq Tx
           /\ roots \ stop \subseteq Closure(roots, stop)
           /\ \A u \in Closure(roots, stop) : Deps[u] \ stop \subseteq Closure(roots, stop)
<1>1. Closure(roots, stop) \subseteq Tx
  BY Zenon DEF Closure
<1>2. roots \ stop \subseteq Closure(roots, stop)
  BY Zenon DEF Closure
<1>3. ASSUME NEW u \in Closure(roots, stop), NEW d \in Deps[u] \ stop
      PROVE  d \in Closure(roots, stop)
  <2>1. d \in Tx
    BY Zenon, <1>1, TxAssumption
  <2>2. ASSUME NEW S \in SUBSET Tx, roots \ stop \subseteq S, \A x \in S : Deps[x] \ stop \subseteq S
        PROVE  d \in S
    <3>1. u \in S
      BY Zenon, <2>2 DEF Closure
    <3>2. QED
      BY Zenon, <2>2, <3>1
  <2>3. QED
    BY Zenon, <2>1, <2>2 DEF Closure
<1>4. QED
  BY Zenon, <1>1, <1>2, <1>3

\* Closure is in every set with its roots and their dependencies.
LEMMA ClosureLeast ==
    ASSUME NEW roots, NEW stop, NEW X \in SUBSET Tx, roots \ stop \subseteq X,
           \A u \in X : Deps[u] \ stop \subseteq X
    PROVE  Closure(roots, stop) \subseteq X
BY Zenon DEF Closure

\* Nothing of stop is in it.
LEMMA ClosureStops ==
    ASSUME NEW roots \in SUBSET Tx, NEW stop, Old \subseteq stop
    PROVE  Closure(roots, stop) \cap stop = {}
<1>1. Closure(roots, stop) \subseteq Tx \ stop
  <2>1. \A u \in Tx \ stop : Deps[u] \ stop \subseteq Tx \ stop
    BY Zenon, TxAssumption
  <2>2. roots \ stop \subseteq Tx \ stop
    BY Zenon
  <2>3. Tx \ stop \in SUBSET Tx
    BY Zenon
  <2>4. QED
    BY Zenon, <2>1, <2>2, <2>3, ClosureLeast
<1>2. QED
  BY Zenon, <1>1

-----------------------------------------------------------------------------
(* Sequences of sequences *)

\* es is cs followed by ds.
Glued(es, cs, ds, a, b) ==
    /\ a \in Nat /\ b \in Nat
    /\ DOMAIN cs = 1 .. a /\ DOMAIN ds = 1 .. b /\ DOMAIN es = 1 .. a + b
    /\ \A n \in 1 .. a : es[n] = cs[n]
    /\ \A n \in 1 .. b : es[a + n] = ds[n]

LEMMA InMembers ==
    ASSUME NEW cs, NEW x
    PROVE  x \in Members(cs) <=> \E n \in DOMAIN cs : \E i \in DOMAIN cs[n] : x = cs[n][i]
BY DEF Members

\* Where the members of es are.
LEMMA GluedPlace ==
    ASSUME NEW es, NEW cs, NEW ds, NEW a, NEW b, Glued(es, cs, ds, a, b), NEW n \in DOMAIN es
    PROVE  \/ n \in DOMAIN cs /\ n <= a /\ es[n] = cs[n]
           \/ n > a /\ n - a \in DOMAIN ds /\ es[n] = ds[n - a]
<1>1. n \in 1 .. a \/ (n > a /\ n - a \in 1 .. b /\ n = a + (n - a))
  BY DEF Glued
<1>2. QED
  BY <1>1 DEF Glued

LEMMA GluedMembers ==
    ASSUME NEW es, NEW cs, NEW ds, NEW a, NEW b, Glued(es, cs, ds, a, b)
    PROVE  Members(es) = Members(cs) \cup Members(ds)
<1>1. ASSUME NEW x \in Members(es) PROVE x \in Members(cs) \cup Members(ds)
  <2>1. PICK n \in DOMAIN es : \E i \in DOMAIN es[n] : x = es[n][i]
    BY InMembers
  <2>2. QED
    BY <2>1, GluedPlace, InMembers
<1>2. ASSUME NEW x \in Members(cs) PROVE x \in Members(es)
  <2>1. PICK n \in DOMAIN cs : \E i \in DOMAIN cs[n] : x = cs[n][i]
    BY InMembers
  <2>2. n \in DOMAIN es /\ es[n] = cs[n]
    BY DEF Glued
  <2>3. QED
    BY Zenon, <2>1, <2>2, InMembers
<1>3. ASSUME NEW x \in Members(ds) PROVE x \in Members(es)
  <2>1. PICK n \in DOMAIN ds : \E i \in DOMAIN ds[n] : x = ds[n][i]
    BY InMembers
  <2>2. a + n \in DOMAIN es /\ es[a + n] = ds[n]
    BY DEF Glued
  <2>3. QED
    BY Zenon, <2>1, <2>2, InMembers
<1>4. QED
  BY Zenon, <1>1, <1>2, <1>3

LEMMA GluedOnce ==
    ASSUME NEW es, NEW cs, NEW ds, NEW a, NEW b, Glued(es, cs, ds, a, b),
           Once(cs), Once(ds), Members(cs) \cap Members(ds) = {}
    PROVE  Once(es)
<1> SUFFICES ASSUME NEW n \in DOMAIN es, NEW m \in DOMAIN es,
                    NEW i \in DOMAIN es[n], NEW j \in DOMAIN es[m], es[n][i] = es[m][j]
             PROVE  n = m /\ i = j
  BY Zenon DEF Once
<1>1. CASE n \in DOMAIN cs /\ es[n] = cs[n] /\ m \in DOMAIN cs /\ es[m] = cs[m]
  BY ZenonT(60), <1>1 DEF Once
<1>2. CASE /\ n > a /\ n - a \in DOMAIN ds /\ es[n] = ds[n - a]
           /\ m > a /\ m - a \in DOMAIN ds /\ es[m] = ds[m - a]
  <2>1. n - a = m - a /\ i = j
    BY <1>2 DEF Once
  <2>2. a \in Nat /\ n \in Nat /\ m \in Nat
    BY DEF Glued
  <2>3. QED
    BY <2>1, <2>2
<1>3. CASE n \in DOMAIN cs /\ es[n] = cs[n] /\ m - a \in DOMAIN ds /\ es[m] = ds[m - a]
  <2>1. es[n][i] \in Members(cs) /\ es[m][j] \in Members(ds)
    BY Zenon, <1>3, InMembers
  <2>2. QED
    BY Zenon, <2>1
<1>4. CASE m \in DOMAIN cs /\ es[m] = cs[m] /\ n - a \in DOMAIN ds /\ es[n] = ds[n - a]
  <2>1. es[m][j] \in Members(cs) /\ es[n][i] \in Members(ds)
    BY Zenon, <1>4, InMembers
  <2>2. QED
    BY Zenon, <2>1
<1>5. QED
  BY <1>1, <1>2, <1>3, <1>4, GluedPlace

\* What ds needs is in cs, or before it in ds.
NeedsMet(cs, ds, Need) ==
    \A n \in DOMAIN ds : \A i \in DOMAIN ds[n] : ds[n][i] \in Tx =>
        \A d \in Need[ds[n][i]] :
            \/ d \in Members(cs)
            \/ \E m \in DOMAIN ds : \E j \in DOMAIN ds[m] : ds[m][j] = d /\ Before(m, j, n, i)

LEMMA GluedCausal ==
    ASSUME NEW es, NEW cs, NEW ds, NEW a, NEW b, NEW Need, Glued(es, cs, ds, a, b),
           Causal(cs, Need), NeedsMet(cs, ds, Need)
    PROVE  Causal(es, Need)
<1> SUFFICES ASSUME NEW n \in DOMAIN es, NEW i \in DOMAIN es[n], es[n][i] \in Tx,
                    NEW d \in Need[es[n][i]]
             PROVE  \E m \in DOMAIN es : \E j \in DOMAIN es[m] : es[m][j] = d /\ Before(m, j, n, i)
  BY Zenon DEF Causal
<1>0. \A m \in DOMAIN cs : m \in DOMAIN es /\ m \in Nat /\ m <= a /\ es[m] = cs[m]
  BY DEF Glued
<1>1. \A m \in DOMAIN ds : a + m \in DOMAIN es /\ m \in Nat /\ es[a + m] = ds[m]
  BY DEF Glued
<1>2. a \in Nat /\ n \in Nat
  BY DEF Glued
<1>3. CASE n \in DOMAIN cs /\ es[n] = cs[n]
  <2>1. \E m \in DOMAIN cs : \E j \in DOMAIN cs[m] : cs[m][j] = d /\ Before(m, j, n, i)
    BY Zenon, <1>3 DEF Causal
  <2>2. QED
    BY Zenon, <1>0, <2>1
<1>4. CASE n > a /\ n - a \in DOMAIN ds /\ es[n] = ds[n - a]
  <2>1. \/ d \in Members(cs)
        \/ \E m \in DOMAIN ds : \E j \in DOMAIN ds[m] : ds[m][j] = d /\ Before(m, j, n - a, i)
    BY Zenon, <1>4 DEF NeedsMet
  <2>2. CASE d \in Members(cs)
    <3>1. PICK m \in DOMAIN cs : \E j \in DOMAIN cs[m] : d = cs[m][j]
      BY <2>2, InMembers
    <3>2. m < n
      BY <1>0, <1>2, <1>4
    <3>3. QED
      BY Zenon, <1>0, <3>1, <3>2 DEF Before
  <2>3. ASSUME NEW m \in DOMAIN ds, NEW j \in DOMAIN ds[m], ds[m][j] = d, Before(m, j, n - a, i)
        PROVE  a + m \in DOMAIN es /\ j \in DOMAIN es[a + m] /\ es[a + m][j] = d /\ Before(a + m, j, n, i)
    <3>1. Before(a + m, j, n, i)
      BY <1>1, <1>2, <2>3 DEF Before
    <3>2. QED
      BY Zenon, <1>1, <2>3, <3>1
  <2>4. QED
    BY Zenon, <2>1, <2>2, <2>3
<1>5. QED
  BY <1>3, <1>4, GluedPlace

-----------------------------------------------------------------------------
(* Chains *)

\* What one commit adds.
LEMMA BatchShape ==
    ASSUME NEW l, IsLog(l), NEW b, NEW k \in 1 .. Len(l)
    PROVE  LET S == Complete(b, Roots(l, k))
               B == Batch(l, b, k)
           IN  /\ S \in SUBSET Tx
               /\ Chunks[S] \in Seq(Seq(Tx))
               /\ B \in Seq(Checkpoint)
               /\ Len(B) = Len(Chunks[S]) /\ Len(B) \in Nat /\ Len(B) >= 1
               /\ \A i \in 1 .. Len(B) :
                    /\ B[i].height = k
                    /\ B[i].last <=> k = Len(l) /\ i = Len(B)
                    /\ B[i].contents = IF k = Len(l) /\ i = Len(B) THEN Append(Chunks[S][i], ADVANCE)
                                                                   ELSE Chunks[S][i]
<1> DEFINE S == Complete(b, Roots(l, k))
           B == Batch(l, b, k)
<1>1. S \in SUBSET Tx
  BY Zenon DEF Complete, Closure
<1> HIDE DEF S
<1>2. PICK c : c = Chunks[S]
  BY Zenon
<1>3. c \in Seq(Seq(Tx)) /\ c # <<>>
  BY Zenon, <1>1, <1>2, ChunksAssumption
<1>4. PICK L \in Nat : L = Len(c) /\ L >= 1 /\ DOMAIN c = 1 .. L
  BY <1>3
<1>5. \A i \in 1 .. L : c[i] \in Seq(Tx)
  BY <1>3, <1>4
<1>6. B = [i \in 1 .. L |-> [contents |-> IF k = Len(l) /\ i = L THEN Append(c[i], ADVANCE) ELSE c[i],
                             last |-> k = Len(l) /\ i = L, height |-> k]]
  BY Zenon, <1>2, <1>4 DEF Batch, Checkpoints, S
<1>7. ASSUME NEW i \in 1 .. L
      PROVE  /\ B[i] \in Checkpoint
             /\ B[i].height = k
             /\ B[i].last <=> k = Len(l) /\ i = L
             /\ B[i].contents = IF k = Len(l) /\ i = L THEN Append(c[i], ADVANCE) ELSE c[i]
  <2>1. PICK q : q = IF k = Len(l) /\ i = L THEN Append(c[i], ADVANCE) ELSE c[i]
    BY Zenon
  <2>2. q \in Seq(Tx \cup {ADVANCE})
    BY <1>5, <2>1
  <2>3. PICK last \in BOOLEAN : last = (k = Len(l) /\ i = L)
    BY Zenon
  <2>4. B[i] = [contents |-> q, last |-> last, height |-> k]
    BY Zenon, <1>6, <2>1, <2>3
  <2>5. k \in Nat
    BY DEF IsLog
  <2>6. B[i] \in Checkpoint
    BY <2>2, <2>4, <2>5 DEF Checkpoint
  <2>7. B[i].height = k /\ B[i].contents = q /\ B[i].last = last
    BY <2>4
  <2>8. QED
    BY Zenon, <2>1, <2>3, <2>6, <2>7
<1>8. B \in [1 .. L -> Checkpoint]
  BY Zenon, <1>6, <1>7
<1> HIDE DEF B
<1>9. B \in Seq(Checkpoint) /\ Len(B) = L
  BY <1>8
<1>10. QED
  BY Zenon, <1>1, <1>2, <1>3, <1>4, <1>7, <1>9 DEF S, B

\* The checkpoints after k commits end with one of commit k.
LEMMA ChainShape ==
    ASSUME NEW l, IsLog(l), NEW f, NEW h, IsChain(l, f, h), NEW k \in 0 .. h
    PROVE  f[k] \in Seq(Checkpoint) /\ NextHeight(f[k]) = k + 1
<1> DEFINE Bad == {j \in 0 .. h : ~(f[j] \in Seq(Checkpoint) /\ NextHeight(f[j]) = j + 1)}
<1>0. h \in 0 .. Len(l) /\ Len(l) \in Nat
  BY DEF IsChain, IsLog
<1> SUFFICES ASSUME Bad # {} PROVE FALSE
  BY Zenon
<1>1. Bad \subseteq Nat
  BY <1>0
<1>2. PICK j \in Bad : \A i \in Bad : j <= i
  BY Zenon, <1>1, LeastNat
<1>3. j \in 0 .. h
  BY Zenon
<1>4. j # 0
  <2>1. f[0] \in Seq(Checkpoint) /\ NextHeight(f[0]) = 0 + 1
    BY DEF IsChain, NextHeight
  <2>2. QED
    BY Zenon, <2>1
<1>5. j \in 1 .. Len(l) /\ j - 1 \in 0 .. h /\ ~(j <= j - 1)
  BY <1>0, <1>3, <1>4
<1>6. f[j - 1] \in Seq(Checkpoint)
  BY Zenon, <1>2, <1>5
<1>7. PICK B : B = Batch(l, f[j - 1], j)
  BY Zenon
<1>8. B \in Seq(Checkpoint) /\ Len(B) \in Nat /\ Len(B) >= 1 /\ B[Len(B)].height = j
  <2>1. /\ B \in Seq(Checkpoint) /\ Len(B) \in Nat /\ Len(B) >= 1
        /\ \A i \in 1 .. Len(B) : B[i].height = j
    BY ONLY <1>5, <1>7, BatchShape, IsLog(l)
  <2>2. Len(B) \in 1 .. Len(B)
    BY <2>1
  <2>3. QED
    BY Zenon, <2>1, <2>2
<1>9. f[j] = f[j - 1] \o B
  <2>1. j \in 1 .. h
    BY <1>0, <1>3, <1>4
  <2>2. QED
    BY Zenon, <1>7, <2>1 DEF IsChain
<1>10. f[j] \in Seq(Checkpoint) /\ Len(f[j]) = Len(f[j - 1]) + Len(B) /\ f[j][Len(f[j])] = B[Len(B)]
  BY <1>6, <1>8, <1>9
<1>11. f[j] # <<>>
  BY <1>6, <1>8, <1>10
<1>12. NextHeight(f[j]) = j + 1
  BY Zenon, <1>8, <1>10, <1>11 DEF NextHeight
<1>13. QED
  BY Zenon, <1>10, <1>12

\* What commit k appended, in the terms of the lemmas about sequences.
LEMMA ChainStep ==
    ASSUME NEW l, IsLog(l), NEW f, NEW h, IsChain(l, f, h), NEW k \in 1 .. h
    PROVE  LET B == Batch(l, f[k - 1], k)
           IN  /\ k \in 1 .. Len(l) /\ k - 1 \in 0 .. h
               /\ f[k - 1] \in Seq(Checkpoint) /\ B \in Seq(Checkpoint)
               /\ f[k] = f[k - 1] \o B
               /\ Glued(Contents(f[k]), Contents(f[k - 1]), Contents(B), Len(f[k - 1]), Len(B))
<1>0. h \in 0 .. Len(l) /\ Len(l) \in Nat
  BY DEF IsChain, IsLog
<1>1. k \in 1 .. Len(l) /\ k - 1 \in 0 .. h
  BY <1>0
<1>2. PICK B : B = Batch(l, f[k - 1], k)
  BY Zenon
<1>3. PICK a : a = f[k - 1]
  BY Zenon
<1>4. a \in Seq(Checkpoint) /\ B \in Seq(Checkpoint)
  BY Zenon, <1>1, <1>2, <1>3, BatchShape, ChainShape
<1>5. PICK e : e = f[k]
  BY Zenon
<1>6. e = a \o B
  BY Zenon, <1>2, <1>3, <1>5 DEF IsChain
<1>7. /\ e \in Seq(Checkpoint) /\ Len(e) = Len(a) + Len(B) /\ Len(a) \in Nat /\ Len(B) \in Nat
      /\ DOMAIN e = 1 .. Len(a) + Len(B) /\ DOMAIN a = 1 .. Len(a) /\ DOMAIN B = 1 .. Len(B)
      /\ \A n \in 1 .. Len(a) : n \in DOMAIN e /\ e[n] = a[n]
      /\ \A n \in 1 .. Len(B) : Len(a) + n \in DOMAIN e /\ e[Len(a) + n] = B[n]
  BY <1>4, <1>6
<1>8. Glued(Contents(e), Contents(a), Contents(B), Len(a), Len(B))
  BY Zenon, <1>7 DEF Glued, Contents
<1>9. QED
  BY Zenon, <1>1, <1>2, <1>3, <1>4, <1>5, <1>6, <1>8

\* b begins with a.
Begins(a, b) == Len(a) <= Len(b) /\ \A n \in 1 .. Len(a) : b[n] = a[n]

\* Commits only append.
LEMMA ChainPrefix ==
    ASSUME NEW l, IsLog(l), NEW f, NEW h, IsChain(l, f, h), NEW j \in 0 .. h, NEW k \in j .. h
    PROVE  Begins(f[j], f[k])
<1> DEFINE Bad == {m \in j .. h : ~Begins(f[j], f[m])}
<1>0. h \in Nat
  BY DEF IsChain, IsLog
<1> SUFFICES ASSUME Bad # {} PROVE FALSE
  BY Zenon
<1>1. Bad \subseteq Nat
  BY <1>0
<1>2. PICK m \in Bad : \A i \in Bad : m <= i
  BY Zenon, <1>1, LeastNat
<1>3. f[j] \in Seq(Checkpoint)
  BY Zenon, ChainShape
<1>4. m # j
  <2>1. Begins(f[j], f[j])
    BY <1>3 DEF Begins
  <2>2. QED
    BY Zenon, <2>1
<1>5. m \in 1 .. h /\ m - 1 \in j .. h /\ ~(m <= m - 1)
  BY <1>0, <1>4
<1>6. Begins(f[j], f[m - 1])
  BY Zenon, <1>2, <1>5
<1>7. PICK B : B = Batch(l, f[m - 1], m)
  BY Zenon
<1>8. f[m - 1] \in Seq(Checkpoint) /\ B \in Seq(Checkpoint) /\ f[m] = f[m - 1] \o B
  BY Zenon, <1>5, <1>7, ChainStep
<1>9. Begins(f[j], f[m])
  BY <1>3, <1>6, <1>8 DEF Begins
<1>10. QED
  BY Zenon, <1>9

\* Two chains of one log agree.
LEMMA ChainUnique ==
    ASSUME NEW l, IsLog(l), NEW f, NEW h, IsChain(l, f, h), NEW g, NEW i, IsChain(l, g, i),
           NEW k \in 0 .. h, k <= i
    PROVE  f[k] = g[k]
<1> DEFINE Bad == {m \in 0 .. k : f[m] # g[m]}
<1>0. h \in Nat /\ i \in Nat
  BY DEF IsChain, IsLog
<1> SUFFICES ASSUME Bad # {} PROVE FALSE
  <2>1. k \in 0 .. k
    BY <1>0
  <2>2. QED
    BY Zenon, <2>1
<1>1. Bad \subseteq Nat
  BY <1>0
<1>2. PICK m \in Bad : \A n \in Bad : m <= n
  BY Zenon, <1>1, LeastNat
<1>3. m # 0
  BY Zenon DEF IsChain
<1>4. m \in 1 .. h /\ m \in 1 .. i /\ m - 1 \in 0 .. k /\ ~(m <= m - 1)
  BY <1>0, <1>3
<1>5. f[m - 1] = g[m - 1]
  BY Zenon, <1>2, <1>4
<1>6. f[m] = g[m]
  BY Zenon, <1>4, <1>5 DEF IsChain
<1>7. QED
  BY Zenon, <1>6

\* The next commit extends a chain.
LEMMA ChainExtend ==
    ASSUME NEW l, IsLog(l), NEW f, NEW h, IsChain(l, f, h), h < Len(l)
    PROVE  \E g : IsChain(l, g, h + 1) /\ g[h + 1] = f[h] \o Batch(l, f[h], h + 1)
<1>0. h \in Nat /\ Len(l) \in Nat
  BY DEF IsChain, IsLog
<1>1. PICK b : b = f[h] \o Batch(l, f[h], h + 1)
  BY Zenon
<1> DEFINE g == [k \in 0 .. h + 1 |-> IF k = h + 1 THEN b ELSE f[k]]
<1>2. g[h + 1] = b /\ g[h] = f[h] /\ g[0] = f[0] /\ \A k \in 1 .. h : g[k] = f[k] /\ g[k - 1] = f[k - 1]
  BY <1>0
<1>3. h + 1 \in 0 .. Len(l)
  BY <1>0
<1> HIDE DEF g
<1>4. ASSUME NEW k \in 1 .. h + 1 PROVE g[k] = g[k - 1] \o Batch(l, g[k - 1], k)
  <2>1. CASE k \in 1 .. h
    BY Zenon, <1>2, <2>1 DEF IsChain
  <2>2. CASE k = h + 1
    <3>1. k - 1 = h
      BY <1>0, <2>2
    <3>2. QED
      BY Zenon, <1>1, <1>2, <2>2, <3>1
  <2>3. k \in 1 .. h \/ k = h + 1
    BY <1>0
  <2>4. QED
    BY Zenon, <2>1, <2>2, <2>3
<1>5. IsChain(l, g, h + 1)
  BY Zenon, <1>2, <1>3, <1>4 DEF IsChain
<1>6. QED
  BY Zenon, <1>1, <1>2, <1>5

\* Checkpoint number n of the epoch is c.
OnChain(l, n, c) == \E h, f : IsChain(l, f, h) /\ n \in 1 .. Len(f[h]) /\ c = f[h][n]

\* There is one checkpoint with a number.
LEMMA OnChainUnique ==
    ASSUME NEW l, IsLog(l), NEW n, NEW c, OnChain(l, n, c), NEW d, OnChain(l, n, d)
    PROVE  c = d
<1>1. PICK h, f : IsChain(l, f, h) /\ n \in 1 .. Len(f[h]) /\ c = f[h][n]
  BY Zenon DEF OnChain
<1>2. PICK i, g : IsChain(l, g, i) /\ n \in 1 .. Len(g[i]) /\ d = g[i][n]
  BY Zenon DEF OnChain
<1>3. h \in Nat /\ i \in Nat /\ h \in 0 .. h /\ i \in 0 .. i
  BY <1>1, <1>2 DEF IsChain, IsLog
<1>4. CASE h <= i
  <2>1. f[h] = g[h]
    BY <1>1, <1>2, <1>3, <1>4, ChainUnique
  <2>2. h \in 0 .. i /\ i \in h .. i
    BY <1>3, <1>4
  <2>3. Begins(g[h], g[i])
    BY Zenon, <1>2, <2>2, ChainPrefix
  <2>4. QED
    BY Zenon, <1>1, <1>2, <2>1, <2>3 DEF Begins
<1>5. CASE i <= h
  <2>1. f[i] = g[i]
    BY <1>1, <1>2, <1>3, <1>5, ChainUnique
  <2>2. i \in 0 .. h /\ h \in i .. h
    BY <1>3, <1>5
  <2>3. Begins(f[i], f[h])
    BY Zenon, <1>1, <2>2, ChainPrefix
  <2>4. QED
    BY Zenon, <1>1, <1>2, <2>1, <2>3 DEF Begins
<1>6. QED
  BY <1>3, <1>4, <1>5

-----------------------------------------------------------------------------
(* What a chain holds *)

LEMMA InOrdered ==
    ASSUME NEW l, NEW h, NEW x
    PROVE  x \in Ordered(l, h) <=> \E k \in 1 .. h : x \in Roots(l, k)
BY Zenon DEF Ordered

LEMMA RootsShape ==
    ASSUME NEW l, IsLog(l), NEW j \in 1 .. Len(l)
    PROVE  l[j] \in SUBSET Certificate /\ Prologue[j] \in Shared \cap Tx /\ Roots(l, j) \in SUBSET Tx
<1>1. l[j] \in SUBSET Certificate /\ j \in 1 .. Len(Prologue)
  BY TxAssumption DEF IsLog
<1>2. Prologue[j] \in Shared \cap Tx
  BY <1>1, TxAssumption
<1>3. QED
  BY Zenon, <1>1, <1>2 DEF Roots, Certificate

\* The first k commits are the first k - 1 and commit k.
LEMMA OrderedNext ==
    ASSUME NEW l, IsLog(l), NEW k \in 1 .. Len(l)
    PROVE  /\ Roots(l, k) \in SUBSET Tx
           /\ Ordered(l, k) = Ordered(l, k - 1) \cup Roots(l, k)
           /\ Ordered(l, k) \subseteq Ordered(l, Len(l)) /\ Ordered(l, Len(l)) \subseteq Tx
<1>1. Len(l) \in Nat /\ \A j \in 1 .. Len(l) : Roots(l, j) \in SUBSET Tx
  <2>1. Len(l) \in Nat
    BY DEF IsLog
  <2>2. QED
    BY Zenon, <2>1, RootsShape
<1>2. \A j : j \in 1 .. k <=> j \in 1 .. k - 1 \/ j = k
  BY <1>1
<1>3. \A j \in 1 .. k : j \in 1 .. Len(l)
  BY <1>1
<1>4. Ordered(l, k) = Ordered(l, k - 1) \cup Roots(l, k)
  BY Zenon, <1>2, InOrdered
<1>5. Ordered(l, k) \subseteq Ordered(l, Len(l)) /\ Ordered(l, Len(l)) \subseteq Tx
  BY Zenon, <1>1, <1>3, InOrdered
<1>6. QED
  BY Zenon, <1>1, <1>4, <1>5

\* The transactions that commit k adds to the checkpoints b: none again, the roots, what
\* they depend on, and no transaction before the readers of what it replaces.
LEMMA CompleteShape ==
    ASSUME NEW l, IsLog(l), NEW k \in 1 .. Len(l), NEW b, Ordered(l, k - 1) \subseteq Included(b)
    PROVE  LET S == Complete(b, Roots(l, k))
           IN  /\ S \subseteq Ordered(l, Len(l)) /\ S \cap Included(b) = {} /\ S \cap Old = {}
               /\ Roots(l, k) \subseteq Included(b) \cup S
               /\ \A u \in S : (Deps[u] \ Old) \cup Readers[u] \subseteq Included(b) \cup S
               /\ S \cap Shared \subseteq Ordered(l, k)
<1> DEFINE stop == Included(b) \cup Old
           S == Closure(Roots(l, k), stop)
           deps == UNION {Deps[t] : t \in Roots(l, k)}
           history == Closure(deps, Old)
<1>0. S = Complete(b, Roots(l, k))
  BY Zenon DEF Complete
<1>1. /\ Roots(l, k) \in SUBSET Tx /\ Ordered(l, k) = Ordered(l, k - 1) \cup Roots(l, k)
      /\ Ordered(l, k) \subseteq Ordered(l, Len(l)) /\ Ordered(l, Len(l)) \in SUBSET Tx
  BY Zenon, OrderedNext
<1>2. Old \subseteq stop /\ Included(b) \subseteq stop /\ \A x \in stop : x \in Included(b) \/ x \in Old
  BY Zenon
<1> HIDE DEF stop
<1>3. /\ S \subseteq Tx /\ Roots(l, k) \ stop \subseteq S
      /\ \A u \in S : Deps[u] \ stop \subseteq S
      /\ S \cap stop = {}
  BY Zenon, <1>1, <1>2, ClosureClosed, ClosureStops
<1>4. S \subseteq Ordered(l, Len(l))
  <2>1. ASSUME NEW u \in Ordered(l, Len(l)) PROVE Deps[u] \ stop \subseteq Ordered(l, Len(l))
    <3>1. PICK j \in 1 .. Len(l) : u \in Roots(l, j)
      BY Zenon, InOrdered
    <3>2. Deps[u] \ Old \subseteq Ordered(l, Len(l))
      BY Zenon, <3>1 DEF IsLog
    <3>3. QED
      BY Zenon, <1>2, <3>2
  <2>2. Roots(l, k) \ stop \subseteq Ordered(l, Len(l))
    BY Zenon, <1>1
  <2>3. QED
    BY <1>1, <2>1, <2>2, ClosureLeast
<1>5. S \subseteq Roots(l, k) \cup history
  <2>1. Closure(deps, Old) \in SUBSET Tx
    BY Zenon DEF Closure
  <2>2. deps \ Old \subseteq Closure(deps, Old)
    BY <1>1, TxAssumption DEF Closure
  <2>3. ASSUME NEW u \in Closure(deps, Old) PROVE Deps[u] \ Old \subseteq Closure(deps, Old)
    <3>1. ASSUME NEW d \in Deps[u] \ Old, NEW X \in SUBSET Tx, deps \ Old \subseteq X,
                 \A x \in X : Deps[x] \ Old \subseteq X
          PROVE  d \in X
      <4>1. u \in X
        BY Zenon, <3>1 DEF Closure
      <4>2. QED
        BY Zenon, <3>1, <4>1
    <3>2. Deps[u] \ Old \subseteq Tx
      BY Zenon, <2>1, TxAssumption
    <3>3. QED
      BY Zenon, <3>1, <3>2 DEF Closure
  <2>4. Roots(l, k) \cup history \in SUBSET Tx
    BY Zenon, <1>1, <2>1
  <2>5. ASSUME NEW u \in Roots(l, k) \cup history PROVE Deps[u] \ stop \subseteq Roots(l, k) \cup history
    <3>1. CASE u \in Roots(l, k)
      BY Zenon, <1>2, <2>2, <3>1
    <3>2. CASE u \in history
      BY Zenon, <1>2, <2>3, <3>2
    <3>3. QED
      BY Zenon, <3>1, <3>2
  <2>6. Roots(l, k) \ stop \subseteq Roots(l, k) \cup history
    BY Zenon
  <2>7. PICK X : X = Roots(l, k) \cup history
    BY Zenon
  <2>8. X \in SUBSET Tx /\ Roots(l, k) \ stop \subseteq X /\ \A u \in X : Deps[u] \ stop \subseteq X
    BY Zenon, <2>4, <2>5, <2>6, <2>7
  <2>9. Closure(Roots(l, k), stop) \subseteq X
    BY ONLY <2>8, ClosureLeast
  <2>10. QED
    BY Zenon, <2>7, <2>9
<1> HIDE DEF S
<1>6. Roots(l, k) \subseteq Included(b) \cup S
  BY Zenon, <1>1, <1>2, <1>3, TxAssumption
<1>7. Ordered(l, k) \subseteq Included(b) \cup S
  BY Zenon, <1>1, <1>6
<1>8. S \cap Shared \subseteq Ordered(l, k)
  <2>1. ASSUME NEW u \in S \cap Shared, u \notin Roots(l, k) PROVE u \in Ordered(l, k)
    <3>1. u \in history \cap Shared
      BY Zenon, <1>5, <2>1
    <3>2. QED
      BY Zenon, <3>1 DEF IsLog
  <2>2. QED
    BY Zenon, <1>1, <2>1
<1>9. ASSUME NEW u \in S PROVE Readers[u] \subseteq Included(b) \cup S
  <2>1. CASE u \in Roots(l, k)
    <3>1. Readers[u] \subseteq Ordered(l, k)
      BY Zenon, <2>1 DEF IsLog
    <3>2. QED
      BY Zenon, <1>7, <3>1
  <2>2. CASE u \notin Roots(l, k) /\ u \in Shared
    <3>1. u \in Included(b)
      BY Zenon, <1>1, <1>8, <2>2
    <3>2. QED
      BY Zenon, <1>2, <1>3, <3>1
  <2>3. CASE u \notin Shared
    BY Zenon, <1>3, <2>3, TxAssumption
  <2>4. QED
    BY Zenon, <2>1, <2>2, <2>3
<1>10. QED
  BY Zenon, <1>0, <1>2, <1>3, <1>4, <1>6, <1>8, <1>9

\* cs is the chunks ch, with the change epoch transaction at the end if last.
Padded(cs, ch, L, last) ==
    /\ L \in Nat /\ L >= 1 /\ DOMAIN cs = 1 .. L /\ DOMAIN ch = 1 .. L
    /\ \A n \in 1 .. L :
         /\ ch[n] \in Seq(Tx)
         /\ cs[n] = IF last /\ n = L THEN Append(ch[n], ADVANCE) ELSE ch[n]

\* Where its members come from.
LEMMA PaddedPlace ==
    ASSUME NEW cs, NEW ch, NEW L, NEW last, Padded(cs, ch, L, last), NEW n \in 1 .. L
    PROVE  /\ \A i \in DOMAIN ch[n] : i \in DOMAIN cs[n] /\ cs[n][i] = ch[n][i] /\ ch[n][i] \in Tx
           /\ \A i \in DOMAIN cs[n] :
                \/ i \in DOMAIN ch[n]
                \/ last /\ n = L /\ i = Len(ch[n]) + 1 /\ cs[n][i] = ADVANCE
           /\ last /\ n = L => Len(cs[n]) = Len(ch[n]) + 1 /\ Len(cs[n]) \in DOMAIN cs[n]
                               /\ cs[n][Len(cs[n])] = ADVANCE
<1>1. PICK c \in Seq(Tx) : c = ch[n]
  BY Zenon DEF Padded
<1>2. CASE last /\ n = L
  <2>1. PICK d : d = Append(c, ADVANCE)
    BY Zenon
  <2>2. cs[n] = d
    BY Zenon, <1>1, <1>2, <2>1 DEF Padded
  <2>3. /\ \A i \in DOMAIN c : i \in DOMAIN d /\ d[i] = c[i] /\ c[i] \in Tx
        /\ \A i \in DOMAIN d : i \in DOMAIN c \/ (i = Len(c) + 1 /\ d[i] = ADVANCE)
        /\ Len(d) = Len(c) + 1 /\ Len(d) \in DOMAIN d /\ d[Len(d)] = ADVANCE
    BY <1>1, <2>1
  <2>4. QED
    BY Zenon, <1>1, <1>2, <2>2, <2>3
<1>3. CASE ~(last /\ n = L)
  <2>1. cs[n] = c
    BY Zenon, <1>1, <1>3 DEF Padded
  <2>2. \A i \in DOMAIN c : c[i] \in Tx
    BY <1>1
  <2>3. QED
    BY Zenon, <1>1, <1>3, <2>1, <2>2
<1>4. QED
  BY Zenon, <1>2, <1>3

LEMMA PaddedShape ==
    ASSUME NEW cs, NEW ch, NEW L, NEW last, Padded(cs, ch, L, last), Once(ch), NEW Need, Causal(ch, Need)
    PROVE  /\ Members(cs) = Members(ch) \cup {x \in {ADVANCE} : last}
           /\ Once(cs) /\ Causal(cs, Need)
<1>0. L \in 1 .. L /\ DOMAIN cs = 1 .. L /\ DOMAIN ch = 1 .. L /\ ADVANCE \notin Tx
  BY TxAssumption DEF Padded
<1>place. ASSUME NEW n \in 1 .. L
      PROVE  /\ \A i \in DOMAIN ch[n] : i \in DOMAIN cs[n] /\ cs[n][i] = ch[n][i] /\ ch[n][i] \in Tx
             /\ \A i \in DOMAIN cs[n] :
                  \/ i \in DOMAIN ch[n]
                  \/ last /\ n = L /\ i = Len(ch[n]) + 1 /\ cs[n][i] = ADVANCE
             /\ last /\ n = L => Len(cs[n]) \in DOMAIN cs[n] /\ cs[n][Len(cs[n])] = ADVANCE
  BY PaddedPlace
<1>1. ASSUME NEW x \in Members(cs) PROVE x \in Members(ch) \cup {y \in {ADVANCE} : last}
  <2>1. PICK n \in DOMAIN cs : \E i \in DOMAIN cs[n] : x = cs[n][i]
    BY InMembers
  <2>2. PICK i \in DOMAIN cs[n] : x = cs[n][i]
    BY Zenon, <2>1
  <2>3. CASE i \in DOMAIN ch[n]
    BY ZenonT(60), <1>0, <1>place, <2>2, <2>3, InMembers
  <2>4. CASE i \notin DOMAIN ch[n]
    BY Zenon, <1>0, <1>place, <2>2, <2>4
  <2>5. QED
    BY Zenon, <2>3, <2>4
<1>2. ASSUME NEW x \in Members(ch) PROVE x \in Members(cs)
  <2>1. PICK n \in DOMAIN ch : \E i \in DOMAIN ch[n] : x = ch[n][i]
    BY InMembers
  <2>2. QED
    BY ZenonT(60), <1>0, <2>1, <1>place, InMembers
<1>3. ASSUME last PROVE ADVANCE \in Members(cs)
  <2>1. Len(cs[L]) \in DOMAIN cs[L] /\ cs[L][Len(cs[L])] = ADVANCE
    BY Zenon, <1>0, <1>3, <1>place
  <2>2. QED
    BY Zenon, <1>0, <2>1, InMembers
<1>4. Once(cs)
  <2> SUFFICES ASSUME NEW n \in 1 .. L, NEW m \in 1 .. L,
                      NEW i \in DOMAIN cs[n], NEW j \in DOMAIN cs[m], cs[n][i] = cs[m][j]
               PROVE  n = m /\ i = j
    BY Zenon, <1>0 DEF Once
  <2>1. CASE i \in DOMAIN ch[n] /\ j \in DOMAIN ch[m]
    <3>1. ch[n][i] = ch[m][j]
      BY Zenon, <2>1, <1>place
    <3>2. QED
      BY ZenonT(60), <1>0, <2>1, <3>1 DEF Once
  <2>2. CASE i \in DOMAIN ch[n] /\ j \notin DOMAIN ch[m]
    <3>1. cs[n][i] \in Tx /\ cs[m][j] = ADVANCE
      BY Zenon, <2>2, <1>place
    <3>2. QED
      BY Zenon, <1>0, <3>1
  <2>3. CASE i \notin DOMAIN ch[n] /\ j \in DOMAIN ch[m]
    <3>1. cs[m][j] \in Tx /\ cs[n][i] = ADVANCE
      BY Zenon, <2>3, <1>place
    <3>2. QED
      BY Zenon, <1>0, <3>1
  <2>4. CASE i \notin DOMAIN ch[n] /\ j \notin DOMAIN ch[m]
    <3>1. n = L /\ i = Len(ch[n]) + 1 /\ m = L /\ j = Len(ch[m]) + 1
      BY Zenon, <2>4, <1>place
    <3>2. QED
      BY Zenon, <3>1
  <2>5. QED
    BY Zenon, <2>1, <2>2, <2>3, <2>4
<1>5. Causal(cs, Need)
  <2> SUFFICES ASSUME NEW n \in 1 .. L, NEW i \in DOMAIN cs[n], cs[n][i] \in Tx, NEW d \in Need[cs[n][i]]
               PROVE  \E m \in 1 .. L : \E j \in DOMAIN cs[m] : cs[m][j] = d /\ Before(m, j, n, i)
    BY Zenon, <1>0 DEF Causal
  <2>1. i \in DOMAIN ch[n] /\ ch[n][i] = cs[n][i]
    BY Zenon, <1>0, <1>place
  <2>2. PICK m \in 1 .. L : \E j \in DOMAIN ch[m] : ch[m][j] = d /\ Before(m, j, n, i)
    BY Zenon, <1>0, <2>1 DEF Causal
  <2>3. QED
    BY Zenon, <2>2, <1>place
<1>6. QED
  BY Zenon, <1>1, <1>2, <1>3, <1>4, <1>5

Need == [t \in Tx |-> (Deps[t] \ Old) \cup Readers[t]]

\* What holds of the checkpoints b after k commits.
ChainInv(l, b, k) ==
    /\ Included(b) \subseteq Ordered(l, Len(l)) \cup {ADVANCE}
    /\ Ordered(l, k) \subseteq Included(b)
    /\ k < Len(l) => ADVANCE \notin Included(b)
    /\ k = Len(l) /\ b # <<>> => ADVANCE \in Included(b)
    /\ Once(Contents(b))
    /\ Causal(Contents(b), Need)
    /\ \A n \in 1 .. Len(b) : b[n].last =>
         k = Len(l) /\ n = Len(b) /\ b[n].contents[Len(b[n].contents)] = ADVANCE

\* The transactions of the next checkpoints.
LEMMA BatchContents ==
    ASSUME NEW l, IsLog(l), NEW b, NEW k \in 1 .. Len(l),
           NEW S, S = Complete(b, Roots(l, k)), NEW B, B = Batch(l, b, k),
           NEW last \in BOOLEAN, last <=> k = Len(l),
           NEW need, need = [t \in Tx |-> (Deps[t] \cup Readers[t]) \cap S]
    PROVE  /\ Padded(Contents(B), Chunks[S], Len(B), last)
           /\ Members(Contents(B)) = S \cup {x \in {ADVANCE} : last}
           /\ Once(Contents(B))
           /\ Causal(Contents(B), need)
<1>1. S = Complete(b, Roots(l, k))
  BY Zenon
<1>2. B = Batch(l, b, k)
  BY Zenon
<1>3. /\ S \in SUBSET Tx
      /\ Chunks[S] \in Seq(Seq(Tx))
      /\ B \in Seq(Checkpoint)
      /\ Len(B) = Len(Chunks[S]) /\ Len(B) \in Nat /\ Len(B) >= 1
      /\ \A i \in 1 .. Len(B) :
           B[i].contents = IF k = Len(l) /\ i = Len(B) THEN Append(Chunks[S][i], ADVANCE)
                                                       ELSE Chunks[S][i]
  BY ONLY IsLog(l), <1>1, <1>2, BatchShape
<1>4. /\ Members(Chunks[S]) = S /\ Once(Chunks[S])
      /\ Causal(Chunks[S], [t \in Tx |-> (Deps[t] \cup Readers[t]) \cap S])
  BY Zenon, <1>3, ChunksAssumption
<1>5. PICK ch : ch = Chunks[S]
  BY Zenon
<1>6. PICK L \in Nat : L = Len(B) /\ L >= 1 /\ L = Len(ch) /\ DOMAIN B = 1 .. L /\ DOMAIN ch = 1 .. L
  BY <1>3, <1>5
<1>7. \A i \in 1 .. L : ch[i] \in Seq(Tx)
  BY <1>3, <1>5, <1>6
<1>8. \A i \in 1 .. L : B[i].contents = IF k = Len(l) /\ i = L THEN Append(ch[i], ADVANCE) ELSE ch[i]
  BY Zenon, <1>3, <1>5, <1>6
<1>9. Padded(Contents(B), ch, L, last)
  BY Zenon, <1>6, <1>7, <1>8 DEF Padded, Contents
<1>10. Once(ch) /\ Causal(ch, need)
  BY Zenon, <1>4, <1>5
<1>11. /\ Members(Contents(B)) = Members(ch) \cup {x \in {ADVANCE} : last}
       /\ Once(Contents(B)) /\ Causal(Contents(B), need)
  BY ONLY <1>9, <1>10, PaddedShape
<1>12. QED
  BY Zenon, <1>4, <1>5, <1>6, <1>9, <1>11

LEMMA ChainGrow ==
    ASSUME NEW l, IsLog(l), NEW k \in 1 .. Len(l), NEW b \in Seq(Checkpoint), ChainInv(l, b, k - 1),
           NEW B \in Seq(Checkpoint), B = Batch(l, b, k), NEW e, e = b \o B,
           Glued(Contents(e), Contents(b), Contents(B), Len(b), Len(B))
    PROVE  ChainInv(l, e, k)
<1>0. k - 1 < Len(l) /\ Len(B) \in Nat /\ Len(B) >= 1
  <2>1. Len(B) \in Nat /\ Len(B) >= 1
    BY ONLY IsLog(l), B = Batch(l, b, k), BatchShape
  <2>2. QED
    BY <2>1 DEF IsLog
<1>1. PICK S : S = Complete(b, Roots(l, k))
  BY Zenon
<1>2. /\ Members(Contents(B)) = S \cup {x \in {ADVANCE} : k = Len(l)}
      /\ Once(Contents(B))
      /\ Causal(Contents(B), [t \in Tx |-> (Deps[t] \cup Readers[t]) \cap S])
      /\ Padded(Contents(B), Chunks[S], Len(B), k = Len(l))
  <2>1. PICK last \in BOOLEAN : last <=> k = Len(l)
    BY Zenon
  <2>2. PICK need : need = [t \in Tx |-> (Deps[t] \cup Readers[t]) \cap S]
    BY Zenon
  <2>3. /\ Padded(Contents(B), Chunks[S], Len(B), last)
        /\ Members(Contents(B)) = S \cup {x \in {ADVANCE} : last}
        /\ Once(Contents(B)) /\ Causal(Contents(B), need)
    BY ONLY SMTT(60), IsLog(l), k \in 1 .. Len(l), B = Batch(l, b, k), <1>1, <2>1, <2>2, BatchContents
  <2>4. QED
    BY Zenon, <2>1, <2>2, <2>3
<1>3. /\ S \subseteq Ordered(l, Len(l)) /\ S \cap Included(b) = {}
      /\ Roots(l, k) \subseteq Included(b) \cup S
      /\ \A u \in S : (Deps[u] \ Old) \cup Readers[u] \subseteq Included(b) \cup S
  <2>1. Ordered(l, k - 1) \subseteq Included(b)
    BY Zenon DEF ChainInv
  <2>2. QED
    BY ONLY IsLog(l), <1>1, <2>1, CompleteShape
<1>4. /\ Ordered(l, k) = Ordered(l, k - 1) \cup Roots(l, k)
      /\ Ordered(l, Len(l)) \subseteq Tx /\ ADVANCE \notin Tx
  BY Zenon, OrderedNext, TxAssumption
<1>5. ADVANCE \notin Included(b) /\ ADVANCE \notin S /\ S \subseteq Tx
  BY Zenon, <1>0, <1>3, <1>4 DEF ChainInv
<1>6. Included(e) = Included(b) \cup Members(Contents(B))
  BY ZenonT(60), GluedMembers DEF Included
<1>7. Once(Contents(e))
  <2>1. Members(Contents(b)) \cap Members(Contents(B)) = {}
    BY Zenon, <1>2, <1>3, <1>5 DEF Included
  <2>2. Once(Contents(b))
    BY Zenon DEF ChainInv
  <2>3. QED
    BY Zenon, <1>2, <2>1, <2>2, GluedOnce
<1>8. Causal(Contents(e), Need)
  <2>1. PICK cs : cs = Contents(B)
    BY Zenon
  <2>2. ASSUME NEW n \in DOMAIN cs, NEW i \in DOMAIN cs[n], cs[n][i] \in Tx, NEW d \in Need[cs[n][i]]
        PROVE  \/ d \in Members(Contents(b))
               \/ \E m \in DOMAIN cs : \E j \in DOMAIN cs[m] : cs[m][j] = d /\ Before(m, j, n, i)
    <3>1. PICK t \in Tx : t = cs[n][i]
      BY Zenon, <2>2
    <3>2. d \in (Deps[t] \ Old) \cup Readers[t]
      BY ZenonT(60), <2>2, <3>1 DEF Need
    <3>3. t \in Members(cs)
      BY Zenon, <2>2, <3>1, InMembers
    <3>4. t \in S
      BY Zenon, <1>2, <1>4, <2>1, <3>1, <3>3
    <3>5. d \in Included(b) \/ d \in (Deps[t] \cup Readers[t]) \cap S
      BY Zenon, <1>3, <3>2, <3>4
    <3>6. CASE d \in (Deps[t] \cup Readers[t]) \cap S
      <4>1. PICK need : need = [u \in Tx |-> (Deps[u] \cup Readers[u]) \cap S]
        BY Zenon
      <4>2. Causal(cs, need) /\ d \in need[cs[n][i]]
        BY Zenon, <1>2, <2>1, <3>1, <3>6, <4>1
      <4>3. QED
        BY ZenonT(60), <2>2, <4>2 DEF Causal
    <3>7. QED
      BY Zenon, <3>5, <3>6 DEF Included
  <2>3. NeedsMet(Contents(b), cs, Need)
    BY Zenon, <2>2 DEF NeedsMet
  <2>4. Causal(Contents(b), Need)
    BY Zenon DEF ChainInv
  <2>5. QED
    BY Zenon, <2>1, <2>3, <2>4, GluedCausal
<1>9. ASSUME NEW n \in 1 .. Len(e), e[n].last
      PROVE  k = Len(l) /\ n = Len(e) /\ e[n].contents[Len(e[n].contents)] = ADVANCE
  <2>1. Len(e) = Len(b) + Len(B) /\ Len(b) \in Nat
    BY <1>0
  <2>2. CASE n <= Len(b)
    <3>1. n \in 1 .. Len(b) /\ e[n] = b[n]
      BY <1>0, <2>1, <2>2
    <3>2. k - 1 = Len(l)
      BY ZenonT(60), <1>9, <3>1 DEF ChainInv
    <3>3. Len(l) \in Nat
      BY DEF IsLog
    <3>4. QED
      BY <1>0, <3>2, <3>3
  <2>3. CASE n > Len(b)
    <3>1. PICK i \in 1 .. Len(B) : n = Len(b) + i /\ e[n] = B[i]
      BY SMTT(30), <1>0, <2>1, <2>3
    <3>2. k = Len(l) /\ i = Len(B)
      <4>1. B[i].last
        BY ZenonT(60), <1>9, <3>1
      <4>2. QED
        BY ONLY IsLog(l), B = Batch(l, b, k), <4>1, BatchShape
    <3>3. Contents(B)[i] = e[n].contents
      BY <1>0, <3>1 DEF Contents
    <3>4. Contents(B)[i][Len(Contents(B)[i])] = ADVANCE
      <4>1. PICK c \in Seq(Tx) : Contents(B)[i] = Append(c, ADVANCE)
        BY Zenon, <1>2, <3>2 DEF Padded
      <4>2. PICK d : d = Append(c, ADVANCE)
        BY Zenon
      <4>3. d[Len(d)] = ADVANCE
        BY <4>2
      <4>4. QED
        BY Zenon, <4>1, <4>2, <4>3
    <3>5. QED
      BY Zenon, <2>1, <3>1, <3>2, <3>3, <3>4
  <2>4. QED
    BY <2>1, <2>2, <2>3
<1>10. QED
  <2>1. Included(e) \subseteq Ordered(l, Len(l)) \cup {ADVANCE} /\ Ordered(l, k) \subseteq Included(e)
    BY ZenonT(60), <1>2, <1>3, <1>4, <1>6 DEF ChainInv
  <2>2. k < Len(l) => k # Len(l)
    BY DEF IsLog
  <2>3. /\ k < Len(l) => ADVANCE \notin Included(e)
        /\ k = Len(l) => ADVANCE \in Included(e)
    BY ZenonT(60), <1>2, <1>5, <1>6, <2>2
  <2>4. QED
    BY Zenon, <1>7, <1>8, <1>9, <2>1, <2>3 DEF ChainInv

LEMMA ChainHolds ==
    ASSUME NEW l, IsLog(l), NEW f, NEW h, IsChain(l, f, h), NEW k \in 0 .. h
    PROVE  ChainInv(l, f[k], k)
<1> DEFINE Bad == {j \in 0 .. h : ~ChainInv(l, f[j], j)}
<1>0. h \in Nat
  BY DEF IsChain, IsLog
<1> SUFFICES ASSUME Bad # {} PROVE FALSE
  BY Zenon
<1>1. Bad \subseteq Nat
  BY <1>0
<1>2. PICK j \in Bad : \A i \in Bad : j <= i
  BY Zenon, <1>1, LeastNat
<1>3. j # 0
  <2>1. PICK b : b = <<>>
    BY Zenon
  <2>2. Contents(b) = <<>> /\ DOMAIN b = {} /\ Len(b) = 0
    BY <2>1 DEF Contents
  <2>3. DOMAIN Contents(b) = {} /\ 1 .. Len(b) = {}
    BY <2>2
  <2>4. Members(Contents(b)) = {}
    BY Zenon, <2>3, InMembers
  <2>5. Once(Contents(b)) /\ Causal(Contents(b), Need)
    BY Zenon, <2>3 DEF Once, Causal
  <2>6. Ordered(l, 0) = {}
    BY DEF Ordered
  <2>7. ChainInv(l, b, 0)
    BY Zenon, <2>1, <2>3, <2>4, <2>5, <2>6 DEF ChainInv, Included
  <2>8. QED
    BY Zenon, <2>1, <2>7 DEF IsChain
<1>4. j \in 1 .. h /\ j - 1 \in 0 .. h /\ ~(j <= j - 1)
  BY <1>0, <1>3
<1>5. ChainInv(l, f[j - 1], j - 1)
  BY Zenon, <1>2, <1>4
<1>6. PICK b, B : b = f[j - 1] /\ B = Batch(l, f[j - 1], j)
  BY Zenon
<1>7. /\ j \in 1 .. Len(l) /\ b \in Seq(Checkpoint) /\ B \in Seq(Checkpoint) /\ f[j] = b \o B
      /\ Glued(Contents(f[j]), Contents(b), Contents(B), Len(b), Len(B))
  BY ONLY Zenon, IsLog(l), IsChain(l, f, h), <1>4, <1>6, ChainStep
<1>8. ChainInv(l, f[j], j)
  BY ONLY Zenon, IsLog(l), <1>5, <1>6, <1>7, ChainGrow
<1>9. QED
  BY Zenon, <1>8

-----------------------------------------------------------------------------
(* The invariant *)

Types ==
    /\ log \in Logs /\ later \in Later
    /\ handled \in [Validator -> Nat] /\ \A v \in Validator : handled[v] <= Len(log) + Len(later)
    /\ stage \in [Validator -> {"idle", "sorted", "created", "written"}]
    /\ sent \in [Validator -> Nat]
    /\ DOMAIN height = Validator /\ DOMAIN effects = Validator /\ DOMAIN checkpoints = Validator
    /\ DOMAIN local = Validator /\ DOMAIN built = Validator /\ DOMAIN signed = Validator
    /\ DOMAIN executed = Validator

\* The prologues of the commits after the close.
Ignored(l) == {Prologue[h] : h \in Len(l) + 1 .. Len(Prologue)}

\* What is scheduled of the first n commits: Scheduled(v) is Accepted(log, handled[v]).
Accepted(l, n) == Ordered(l, IF n < Len(l) THEN n ELSE Len(l))

Held(c) == {c.contents[i] : i \in DOMAIN c.contents}

\* b is what the builder stores after some of the first n commits.
BuiltBy(l, n, b) == \E h, f : h <= n /\ IsChain(l, f, h) /\ b = f[h]

\* The memory of the builder task agrees with the log and with what it stored.
TaskInv(l, n, st, ht, ef, cs, i, b) ==
    /\ st = "sorted" =>
         ht = NextHeight(b) /\ ht <= n /\ ht <= Len(l) /\ ef = Complete(b, Roots(l, ht))
    /\ st \in {"created", "written"} =>
         /\ NextHeight(b) <= n /\ NextHeight(b) <= Len(l)
         /\ cs = Batch(l, b, NextHeight(b))
         /\ Complete(b, Roots(l, NextHeight(b))) \subseteq Accepted(l, n)
         /\ i <= Len(cs)

IInv ==
    /\ Types
    /\ \A v \in Validator :
         /\ BuiltBy(log, handled[v], built[v])
         /\ TaskInv(log, handled[v], stage[v], height[v], effects[v], checkpoints[v], sent[v], built[v])
         /\ \A s \in signed[v] : /\ OnChain(log, s[1], s[2])
                                 /\ Held(s[2]) \subseteq Accepted(log, handled[v]) \cup {ADVANCE}
         /\ \A n \in DOMAIN local[v] : OnChain(log, n, local[v][n])
         /\ executed[v] \cap Ignored(log) = {}

\* What the builder stores, and the height it resumes from.
LEMMA BuiltShape ==
    ASSUME NEW l, IsLog(l), NEW n, NEW b, BuiltBy(l, n, b)
    PROVE  /\ b \in Seq(Checkpoint) /\ NextHeight(b) \in Nat /\ NextHeight(b) >= 1
           /\ \E f : IsChain(l, f, NextHeight(b) - 1) /\ b = f[NextHeight(b) - 1]
<1>1. PICK h, f : h <= n /\ IsChain(l, f, h) /\ b = f[h]
  BY Zenon DEF BuiltBy
<1>2. h \in Nat /\ h \in 0 .. h
  BY <1>1 DEF IsChain, IsLog
<1>3. b \in Seq(Checkpoint) /\ NextHeight(b) = h + 1
  BY Zenon, <1>1, <1>2, ChainShape
<1>4. NextHeight(b) \in Nat /\ NextHeight(b) >= 1 /\ NextHeight(b) - 1 = h
  BY <1>2, <1>3
<1>5. QED
  BY Zenon, <1>1, <1>3, <1>4

\* The checkpoints made from what is stored are the next ones of the chain.
LEMMA BatchOnChain ==
    ASSUME NEW l, IsLog(l), NEW n, NEW b, BuiltBy(l, n, b), NextHeight(b) <= n, NextHeight(b) <= Len(l)
    PROVE  LET B == Batch(l, b, NextHeight(b))
           IN  /\ B \in Seq(Checkpoint)
               /\ BuiltBy(l, n, b \o B)
               /\ \A i \in 1 .. Len(B) : OnChain(l, Len(b) + i, B[i])
<1>1. PICK k : k = NextHeight(b)
  BY Zenon
<1>2. b \in Seq(Checkpoint) /\ k \in Nat /\ k >= 1 /\ Len(l) \in Nat /\ k <= n /\ k <= Len(l)
  BY <1>1, BuiltShape DEF IsLog
<1>3. PICK f : IsChain(l, f, k - 1) /\ b = f[k - 1]
  BY Zenon, <1>1, BuiltShape
<1>4. PICK B : B = Batch(l, b, k)
  BY Zenon
<1>5. B \in Seq(Checkpoint)
  <2>1. k \in 1 .. Len(l)
    BY <1>2
  <2>2. QED
    BY Zenon, <1>4, <2>1, BatchShape
<1>6. PICK g : IsChain(l, g, k) /\ g[k] = b \o B
  <2>1. k - 1 < Len(l) /\ (k - 1) + 1 = k
    BY <1>2
  <2>2. \E g : IsChain(l, g, (k - 1) + 1) /\ g[(k - 1) + 1] = f[k - 1] \o Batch(l, f[k - 1], (k - 1) + 1)
    BY Zenon, <1>3, <2>1, ChainExtend
  <2>3. QED
    BY Zenon, <1>3, <1>4, <2>1, <2>2
<1>7. BuiltBy(l, n, b \o B)
  BY Zenon, <1>2, <1>6 DEF BuiltBy
<1>8. ASSUME NEW i \in 1 .. Len(B) PROVE OnChain(l, Len(b) + i, B[i])
  <2>1. Len(b) + i \in 1 .. Len(g[k]) /\ B[i] = g[k][Len(b) + i]
    BY <1>2, <1>5, <1>6
  <2>2. QED
    BY Zenon, <1>6, <2>1 DEF OnChain
<1>9. QED
  BY Zenon, <1>1, <1>4, <1>5, <1>7, <1>8

\* The checkpoints in the memory of a builder are the next ones of the chain.
LEMMA InMemory ==
    ASSUME IInv, NEW v \in Validator, stage[v] \in {"created", "written"}
    PROVE  /\ checkpoints[v] \in Seq(Checkpoint) /\ built[v] \in Seq(Checkpoint)
           /\ BuiltBy(log, handled[v], built[v] \o checkpoints[v])
           /\ \A i \in 1 .. Len(checkpoints[v]) : OnChain(log, Len(built[v]) + i, checkpoints[v][i])
<1>1. IsLog(log)
  BY Zenon, LogsAssumption DEF IInv, Types
<1>2. BuiltBy(log, handled[v], built[v])
  BY Zenon DEF IInv
<1>3. /\ NextHeight(built[v]) <= handled[v] /\ NextHeight(built[v]) <= Len(log)
      /\ checkpoints[v] = Batch(log, built[v], NextHeight(built[v]))
  BY Zenon DEF IInv, TaskInv
<1>4. built[v] \in Seq(Checkpoint)
  BY Zenon, <1>1, <1>2, BuiltShape
<1>5. QED
  BY Zenon, <1>1, <1>2, <1>3, <1>4, BatchOnChain

\* A step leaves validator w alone.
Same(w) ==
    /\ handled'[w] = handled[w] /\ stage'[w] = stage[w] /\ height'[w] = height[w]
    /\ effects'[w] = effects[w] /\ checkpoints'[w] = checkpoints[w] /\ sent'[w] = sent[w]
    /\ local'[w] = local[w] /\ built'[w] = built[w] /\ signed'[w] = signed[w]
    /\ executed'[w] = executed[w]

\* The parts of IInv that concern validator v, after a step.
MineInv(v) ==
    /\ BuiltBy(log, handled'[v], built'[v])
    /\ TaskInv(log, handled'[v], stage'[v], height'[v], effects'[v], checkpoints'[v], sent'[v],
               built'[v])
    /\ \A s \in signed'[v] : /\ OnChain(log, s[1], s[2])
                             /\ Held(s[2]) \subseteq Accepted(log, handled'[v]) \cup {ADVANCE}
    /\ \A n \in DOMAIN local'[v] : OnChain(log, n, local'[v][n])
    /\ executed'[v] \cap Ignored(log) = {}

LEMMA OneValidator ==
    ASSUME IInv, NEW v \in Validator, Types', log' = log, \A w \in Validator \ {v} : Same(w), MineInv(v)
    PROVE  IInv'
<1>1. \A w \in Validator : MineInv(w)
  <2>1. ASSUME NEW w \in Validator, w # v PROVE MineInv(w)
    <3>1. Same(w)
      BY Zenon, <2>1
    <3>2. /\ BuiltBy(log, handled[w], built[w])
          /\ TaskInv(log, handled[w], stage[w], height[w], effects[w], checkpoints[w], sent[w], built[w])
          /\ \A s \in signed[w] : /\ OnChain(log, s[1], s[2])
                                  /\ Held(s[2]) \subseteq Accepted(log, handled[w]) \cup {ADVANCE}
          /\ \A n \in DOMAIN local[w] : OnChain(log, n, local[w][n])
          /\ executed[w] \cap Ignored(log) = {}
      BY Zenon DEF IInv
    <3>3. QED
      BY Zenon, <3>1, <3>2 DEF Same, MineInv
  <2>2. QED
    BY Zenon, <2>1
<1>2. QED
  BY Zenon, <1>1 DEF IInv, MineInv

\* Which variables a step of validator v changes, and where.
LEMMA StepShape ==
    ASSUME IInv, NEW v \in Validator, Step(v) \/ Crash(v)
    PROVE  Types' /\ log' = log /\ \A w \in Validator \ {v} : Same(w)
<1>1. CASE HandleCommit(v)
  BY <1>1 DEF IInv, HandleCommit, Types, Same, commits, builder
<1>2. CASE Collect(v)
  BY Zenon, <1>2 DEF IInv, Collect, Types, Same, commits
<1>3. CASE Create(v)
  BY Zenon, <1>3 DEF IInv, Create, Types, Same, commits
<1>4. CASE Sign(v)
  BY <1>4 DEF IInv, Sign, Types, Same, commits
<1>5. CASE Write(v)
  BY Zenon, <1>5 DEF IInv, Write, Types, Same, commits
<1>6. CASE ProcessPendingCheckpoint(v)
  BY Zenon, <1>6 DEF IInv, ProcessPendingCheckpoint, Idle, Types, Same, commits
<1>7. CASE Crash(v)
  BY Zenon, <1>7 DEF IInv, Crash, Idle, Types, Same, commits
<1>8. CASE \E t \in Tx : Execute(v, t)
  BY Zenon, <1>8 DEF IInv, Execute, Types, Same, commits, builder
<1>9. CASE \E t \in Published(v) : ExecuteSynced(v, t)
  BY Zenon, <1>9 DEF IInv, ExecuteSynced, Types, Same, commits, builder
<1>10. QED
  BY Zenon, <1>1, <1>2, <1>3, <1>4, <1>5, <1>6, <1>7, <1>8, <1>9 DEF Step

LEMMA AcceptedGrows ==
    ASSUME NEW l, IsLog(l), NEW n \in Nat
    PROVE  /\ Accepted(l, n) \subseteq Accepted(l, n + 1)
           /\ Accepted(l, n) \subseteq Ordered(l, Len(l))
           /\ \A k \in 1 .. Len(l) : k <= n => Ordered(l, k) \subseteq Accepted(l, n)
<1>1. Len(l) \in Nat
  BY DEF IsLog
<1>2. \A i, j \in Nat : i <= j => Ordered(l, i) \subseteq Ordered(l, j)
  <2>1. ASSUME NEW i \in Nat, NEW j \in Nat, i <= j PROVE \A k \in 1 .. i : k \in 1 .. j
    BY <2>1
  <2>2. QED
    BY Zenon, <2>1, InOrdered
<1>3. PICK m \in Nat : m = (IF n < Len(l) THEN n ELSE Len(l)) /\ m <= Len(l)
                       /\ \A k \in 1 .. Len(l) : k <= n => k <= m
  BY <1>1
<1>4. PICK q \in Nat : q = (IF n + 1 < Len(l) THEN n + 1 ELSE Len(l)) /\ m <= q
  BY <1>1, <1>3
<1>5. \A k \in 1 .. Len(l) : k \in Nat
  BY <1>1
<1>6. QED
  BY Zenon, <1>1, <1>2, <1>3, <1>4, <1>5 DEF Accepted

\* A later commit changes nothing for the chain of the earlier ones.
LEMMA MoreHandled ==
    ASSUME IInv, NEW v \in Validator, HandleCommit(v)
    PROVE  MineInv(v)
<1>1. /\ handled'[v] = handled[v] + 1 /\ handled[v] \in Nat
      /\ UNCHANGED <<log, executed, stage, height, effects, checkpoints, sent, local, built, signed>>
  BY Zenon DEF HandleCommit, IInv, Types, builder, commits
<1>2. IsLog(log)
  BY Zenon, LogsAssumption DEF IInv, Types
<1>3. BuiltBy(log, handled[v], built[v])
  BY Zenon DEF IInv
<1>4. NextHeight(built[v]) \in Nat
  BY Zenon, <1>1, <1>2, <1>3, BuiltShape
<1>5. BuiltBy(log, handled'[v], built[v])
  <2>1. PICK h, f : h <= handled[v] /\ IsChain(log, f, h) /\ built[v] = f[h]
    BY ZenonT(60), <1>3 DEF BuiltBy
  <2>2. h <= handled'[v]
    BY <1>1, <1>2, <2>1 DEF IsChain, IsLog
  <2>3. QED
    BY Zenon, <2>1, <2>2 DEF BuiltBy
<1>6. TaskInv(log, handled[v], stage[v], height[v], effects[v], checkpoints[v], sent[v], built[v])
  BY Zenon DEF IInv
<1>7. Accepted(log, handled[v]) \subseteq Accepted(log, handled'[v])
  BY Zenon, <1>1, <1>2, AcceptedGrows
<1>8. TaskInv(log, handled'[v], stage[v], height[v], effects[v], checkpoints[v], sent[v], built[v])
  <2>1. \A x \in Nat : x <= handled[v] => x <= handled'[v]
    BY <1>1
  <2>2. QED
    BY Zenon, <1>4, <1>6, <1>7, <2>1 DEF TaskInv
<1>9. QED
  BY Zenon, <1>1, <1>5, <1>7, <1>8 DEF IInv, MineInv

\* The prologue of a commit after the close is not executed: its pending checkpoint waits
\* for ever, and the builder never gets beyond the commit that closes the epoch.
LEMMA CollectMine ==
    ASSUME IInv, NEW v \in Validator, Collect(v)
    PROVE  MineInv(v)
<1>1. PICK h : h = NextHeight(built[v])
  BY Zenon
<1>2. /\ UNCHANGED <<handled, executed, local, built, signed>>
      /\ stage'[v] = "sorted" /\ height'[v] = h
      /\ effects'[v] = Complete(built[v], Roots(log \o later, h))
      /\ h <= handled[v] /\ Roots(log \o later, h) \subseteq executed[v]
  BY Zenon, <1>1 DEF Collect, IInv, Types
<1>3. /\ IsLog(log) /\ BuiltBy(log, handled[v], built[v])
      /\ later \in Later /\ Len(log) + Len(later) <= Len(Prologue)
      /\ handled[v] \in Nat /\ handled[v] <= Len(log) + Len(later)
  BY Zenon, LogsAssumption DEF IInv, Types
<1>4. h \in Nat /\ h >= 1
  BY Zenon, <1>1, <1>3, BuiltShape
<1>5. Len(log) \in Nat /\ Len(later) \in Nat /\ Len(Prologue) \in Nat
  BY <1>3, LogsAssumption, TxAssumption DEF IsLog
<1>6. h <= Len(log)
  <2>1. Prologue[h] \in executed[v]
    BY Zenon, <1>2 DEF Roots
  <2>2. h \notin Len(log) + 1 .. Len(Prologue)
    BY Zenon, <2>1 DEF IInv, Ignored
  <2>3. QED
    BY <1>2, <1>3, <1>4, <1>5, <2>2
<1>7. Roots(log \o later, h) = Roots(log, h)
  <2>1. log \in Seq(SUBSET Certificate) /\ later \in Seq(SUBSET Certificate)
    BY Zenon, <1>3, LogsAssumption DEF IsLog
  <2>2. (log \o later)[h] = log[h]
    BY <1>4, <1>6, <2>1
  <2>3. QED
    BY Zenon, <2>2 DEF Roots
<1>8. TaskInv(log, handled'[v], stage'[v], height'[v], effects'[v], checkpoints'[v], sent'[v], built'[v])
  BY Zenon, <1>1, <1>2, <1>6, <1>7 DEF TaskInv
<1>9. QED
  BY Zenon, <1>2, <1>8 DEF IInv, MineInv

\* What consensus processed of the transactions of the epoch's checkpoints, it scheduled.
LEMMA ProcessedAccepted ==
    ASSUME NEW l, IsLog(l), NEW m \in Seq(SUBSET Certificate), NEW n \in Nat
    PROVE  Ordered(l \o m, n) \cap Ordered(l, Len(l)) \subseteq Accepted(l, n)
<1>1. l \in Seq(SUBSET Certificate) /\ Len(l) \in Nat
  BY DEF IsLog
<1>2. CASE n < Len(l)
  <2>1. \A k \in 1 .. n : (l \o m)[k] = l[k]
    BY <1>1, <1>2
  <2>2. \A k \in 1 .. n : Roots(l \o m, k) = Roots(l, k)
    BY Zenon, <2>1 DEF Roots
  <2>3. Ordered(l \o m, n) = Ordered(l, n)
    BY Zenon, <2>2 DEF Ordered
  <2>4. QED
    BY Zenon, <1>2, <2>3 DEF Accepted
<1>3. CASE ~(n < Len(l))
  BY Zenon, <1>3 DEF Accepted
<1>4. QED
  BY Zenon, <1>2, <1>3

\* What the builder waited for is enough: all that goes into the checkpoints is scheduled.
LEMMA EffectsAccepted ==
    ASSUME NEW l, IsLog(l), NEW m \in Seq(SUBSET Certificate), NEW n \in Nat, NEW b, BuiltBy(l, n, b),
           NEW k, k = NextHeight(b), k <= n, k <= Len(l), NEW S, S = Complete(b, Roots(l, k)),
           S \cap Certificate \subseteq Ordered(l \o m, n)
    PROVE  S \subseteq Accepted(l, n)
<1>1. PICK f : IsChain(l, f, k - 1) /\ b = f[k - 1]
  BY Zenon, BuiltShape
<1>2. k \in 1 .. Len(l) /\ k - 1 \in 0 .. k - 1
  <2>1. k \in Nat /\ k >= 1
    BY Zenon, BuiltShape
  <2>2. QED
    BY <2>1 DEF IsLog
<1>3. Ordered(l, k - 1) \subseteq Included(b)
  <2>1. ChainInv(l, f[k - 1], k - 1)
    BY ONLY Zenon, IsLog(l), <1>1, <1>2, ChainHolds
  <2>2. QED
    BY Zenon, <1>1, <2>1 DEF ChainInv
<1>4. S \subseteq Ordered(l, Len(l)) /\ S \cap Shared \subseteq Ordered(l, k)
  BY Zenon, <1>2, <1>3, CompleteShape
<1>5. Ordered(l, k) \subseteq Accepted(l, n)
  BY Zenon, <1>2, AcceptedGrows
<1>6. ASSUME NEW t \in S, t \notin Shared PROVE t \in Certificate
  <2>1. PICK j \in 1 .. Len(l) : t \in Roots(l, j)
    BY Zenon, <1>4, InOrdered
  <2>2. QED
    BY Zenon, <1>6, <2>1, RootsShape DEF Roots
<1>7. QED
  BY Zenon, <1>4, <1>5, <1>6, ProcessedAccepted

LEMMA CreateMine ==
    ASSUME IInv, NEW v \in Validator, Create(v)
    PROVE  MineInv(v)
<1>1. /\ UNCHANGED <<handled, executed, local, built, signed>>
      /\ stage[v] = "sorted" /\ stage'[v] = "created" /\ sent'[v] = 0
      /\ effects[v] \cap Certificate \subseteq Ordered(log \o later, handled[v])
      /\ checkpoints'[v] = Checkpoints(effects[v], height[v], height[v] = Len(log))
  BY Zenon DEF Create, LastOfEpoch, Processed, IInv, Types
<1>2. /\ height[v] = NextHeight(built[v]) /\ height[v] <= handled[v] /\ height[v] <= Len(log)
      /\ effects[v] = Complete(built[v], Roots(log, height[v]))
  BY Zenon, <1>1 DEF IInv, TaskInv
<1>3. checkpoints'[v] = Batch(log, built[v], NextHeight(built[v]))
  BY Zenon, <1>1, <1>2 DEF Batch
<1>4. /\ IsLog(log) /\ later \in Seq(SUBSET Certificate)
      /\ handled[v] \in Nat /\ BuiltBy(log, handled[v], built[v])
  BY Zenon, LogsAssumption DEF IInv, Types
<1>5. 0 <= Len(checkpoints'[v])
  <2>1. checkpoints'[v] \in Seq(Checkpoint)
    BY Zenon, <1>2, <1>3, <1>4, BatchOnChain
  <2>2. QED
    BY <2>1
<1>6. effects[v] \subseteq Accepted(log, handled[v])
  BY Zenon, <1>1, <1>2, <1>4, EffectsAccepted
<1>7. TaskInv(log, handled'[v], stage'[v], height'[v], effects'[v], checkpoints'[v], sent'[v], built'[v])
  BY Zenon, <1>1, <1>2, <1>3, <1>5, <1>6 DEF TaskInv
<1>8. QED
  BY Zenon, <1>1, <1>7 DEF IInv, MineInv

\* What a checkpoint in memory holds is scheduled.
LEMMA HeldAccepted ==
    ASSUME IInv, NEW v \in Validator, stage[v] \in {"created", "written"},
           NEW i \in 1 .. Len(checkpoints[v])
    PROVE  Held(checkpoints[v][i]) \subseteq Accepted(log, handled[v]) \cup {ADVANCE}
<1>1. PICK b, k, S, B : b = built[v] /\ k = NextHeight(b) /\ S = Complete(b, Roots(log, k))
                        /\ B = checkpoints[v]
  BY Zenon
<1>2. /\ k <= Len(log) /\ B = Batch(log, b, k) /\ S \subseteq Accepted(log, handled[v])
      /\ IsLog(log) /\ BuiltBy(log, handled[v], b) /\ B \in Seq(Checkpoint)
  BY Zenon, <1>1, InMemory, LogsAssumption DEF IInv, TaskInv, Types
<1>3. k \in 1 .. Len(log)
  <2>1. k \in Nat /\ k >= 1
    BY Zenon, <1>1, <1>2, BuiltShape
  <2>2. QED
    BY <1>2, <2>1 DEF IsLog
<1>4. PICK last, need : /\ last \in BOOLEAN /\ (last <=> k = Len(log))
                        /\ need = [t \in Tx |-> (Deps[t] \cup Readers[t]) \cap S]
  BY Zenon
<1>5. Members(Contents(B)) = S \cup {x \in {ADVANCE} : last}
  <2>1. S = Complete(b, Roots(log, k)) /\ B = Batch(log, b, k) /\ IsLog(log)
    BY Zenon, <1>1, <1>2
  <2>2. QED
    BY ONLY SMTT(60), <1>3, <1>4, <2>1, BatchContents
<1>6. i \in DOMAIN B
  BY <1>1, <1>2
<1>7. Held(B[i]) \subseteq Members(Contents(B))
  <2>1. PICK cs : cs = Contents(B)
    BY Zenon
  <2>2. i \in DOMAIN cs /\ cs[i] = B[i].contents
    BY Zenon, <1>6, <2>1 DEF Contents
  <2>3. ASSUME NEW x \in Held(B[i]) PROVE x \in Members(cs)
    BY ZenonT(60), <2>2, InMembers DEF Held
  <2>4. QED
    BY Zenon, <2>1, <2>3
<1>8. QED
  BY Zenon, <1>1, <1>2, <1>5, <1>7

LEMMA SignMine ==
    ASSUME IInv, NEW v \in Validator, Sign(v)
    PROVE  MineInv(v)
<1>1. PICK n, c : n = Len(built[v]) + sent[v] + 1 /\ c = checkpoints[v][sent[v] + 1]
  BY Zenon
<1>2. /\ UNCHANGED <<handled, executed, stage, height, effects, checkpoints, local, built>>
      /\ stage[v] = "created" /\ sent[v] < Len(checkpoints[v]) /\ sent'[v] = sent[v] + 1
      /\ signed'[v] = signed[v] \cup {<<n, c>>} /\ sent[v] \in Nat
  BY Zenon, <1>1 DEF Sign, IInv, Types
<1>3. stage[v] \in {"created", "written"}
  BY Zenon, <1>2
<1>4. /\ checkpoints[v] \in Seq(Checkpoint) /\ built[v] \in Seq(Checkpoint)
      /\ \A i \in 1 .. Len(checkpoints[v]) : OnChain(log, Len(built[v]) + i, checkpoints[v][i])
  BY Zenon, <1>3, InMemory
<1>5. OnChain(log, n, c) /\ sent[v] + 1 \in 1 .. Len(checkpoints[v])
  <2>1. sent[v] + 1 \in 1 .. Len(checkpoints[v]) /\ n = Len(built[v]) + (sent[v] + 1)
    BY SMTT(30), <1>1, <1>2, <1>4
  <2>2. QED
    BY Zenon, <1>1, <1>4, <2>1
<1>6. sent'[v] <= Len(checkpoints[v])
  BY <1>2, <1>4
<1>7. TaskInv(log, handled[v], stage[v], height[v], effects[v], checkpoints[v], sent[v], built[v])
  BY Zenon DEF IInv
<1>8. TaskInv(log, handled[v], stage[v], height[v], effects[v], checkpoints[v], sent'[v], built[v])
  BY Zenon, <1>6, <1>7 DEF TaskInv
<1>9. Held(c) \subseteq Accepted(log, handled[v]) \cup {ADVANCE}
  BY Zenon, <1>1, <1>2, <1>3, <1>4, <1>5, HeldAccepted
<1>10. ASSUME NEW s \in signed'[v]
       PROVE  OnChain(log, s[1], s[2]) /\ Held(s[2]) \subseteq Accepted(log, handled[v]) \cup {ADVANCE}
  <2>1. CASE s \in signed[v]
    BY Zenon, <2>1 DEF IInv
  <2>2. CASE s = <<n, c>>
    <3>1. s[1] = n /\ s[2] = c
      BY Zenon, <2>2
    <3>2. QED
      BY Zenon, <1>5, <1>9, <3>1
  <2>3. QED
    BY Zenon, <1>2, <2>1, <2>2
<1>11. QED
  BY Zenon, <1>2, <1>8, <1>10 DEF IInv, MineInv

LEMMA WriteMine ==
    ASSUME IInv, NEW v \in Validator, Write(v)
    PROVE  MineInv(v)
<1>1. PICK n, new : n = Len(built[v]) /\ new = n + 1 .. n + Len(checkpoints[v])
  BY Zenon
<1>2. /\ UNCHANGED <<handled, executed, height, effects, checkpoints, sent, built, signed>>
      /\ stage[v] = "created" /\ stage'[v] = "written"
      /\ local'[v] = [m \in DOMAIN local[v] \cup new |->
                        IF m \in new THEN checkpoints[v][m - n] ELSE local[v][m]]
  BY Zenon, <1>1 DEF Write, IInv, Types
<1>3. stage[v] \in {"created", "written"}
  BY Zenon, <1>2
<1>4. /\ checkpoints[v] \in Seq(Checkpoint) /\ built[v] \in Seq(Checkpoint)
      /\ \A i \in 1 .. Len(checkpoints[v]) : OnChain(log, Len(built[v]) + i, checkpoints[v][i])
  BY Zenon, <1>3, InMemory
<1>5. ASSUME NEW m \in DOMAIN local'[v] PROVE OnChain(log, m, local'[v][m])
  <2>1. CASE m \in new
    <3>1. m - n \in 1 .. Len(checkpoints[v]) /\ m = Len(built[v]) + (m - n)
      <4>1. PICK k \in Nat : k = Len(checkpoints[v])
        BY <1>4
      <4>2. n \in Nat
        BY <1>1, <1>4
      <4>3. m \in n + 1 .. n + k
        BY Zenon, <1>1, <2>1, <4>1
      <4>4. m - n \in 1 .. k /\ m = n + (m - n)
        BY <4>1, <4>2, <4>3
      <4>5. QED
        BY Zenon, <1>1, <4>1, <4>4
    <3>2. local'[v][m] = checkpoints[v][m - n]
      BY Zenon, <1>2, <2>1
    <3>3. QED
      BY Zenon, <1>4, <3>1, <3>2
  <2>2. CASE m \notin new
    <3>1. m \in DOMAIN local[v] /\ local'[v][m] = local[v][m]
      BY Zenon, <1>2, <2>2
    <3>2. QED
      BY Zenon, <3>1 DEF IInv
  <2>3. QED
    BY Zenon, <2>1, <2>2
<1>6. TaskInv(log, handled[v], stage[v], height[v], effects[v], checkpoints[v], sent[v], built[v])
  BY Zenon DEF IInv
<1>7. TaskInv(log, handled[v], stage'[v], height[v], effects[v], checkpoints[v], sent[v], built[v])
  BY Zenon, <1>2, <1>6 DEF TaskInv
<1>8. QED
  BY Zenon, <1>2, <1>5, <1>7 DEF IInv, MineInv

LEMMA ProcessMine ==
    ASSUME IInv, NEW v \in Validator, ProcessPendingCheckpoint(v)
    PROVE  MineInv(v)
<1>1. /\ UNCHANGED <<handled, executed, local, signed>>
      /\ stage[v] = "written" /\ stage'[v] = "idle" /\ built'[v] = built[v] \o checkpoints[v]
  BY Zenon DEF ProcessPendingCheckpoint, Idle, IInv, Types
<1>2. stage[v] \in {"created", "written"}
  BY Zenon, <1>1
<1>3. BuiltBy(log, handled[v], built[v] \o checkpoints[v])
  BY Zenon, <1>2, InMemory
<1>4. TaskInv(log, handled'[v], stage'[v], height'[v], effects'[v], checkpoints'[v], sent'[v], built'[v])
  BY Zenon, <1>1 DEF TaskInv
<1>5. QED
  BY Zenon, <1>1, <1>3, <1>4 DEF IInv, MineInv

LEMMA CrashMine ==
    ASSUME IInv, NEW v \in Validator, Crash(v)
    PROVE  MineInv(v)
<1>1. UNCHANGED <<handled, executed, local, built, signed>> /\ stage'[v] = "idle"
  BY Zenon DEF Crash, Idle, IInv, Types
<1>2. TaskInv(log, handled'[v], stage'[v], height'[v], effects'[v], checkpoints'[v], sent'[v], built'[v])
  BY Zenon, <1>1 DEF TaskInv
<1>3. QED
  BY Zenon, <1>1, <1>2 DEF IInv, MineInv

\* No prologue of a commit after the close is among the transactions up to the close.
LEMMA IgnoredApart ==
    ASSUME NEW l, IsLog(l)
    PROVE  (Ordered(l, Len(l)) \cup {ADVANCE}) \cap Ignored(l) = {} /\ Ignored(l) \subseteq Shared \cap Tx
<1>1. Len(l) \in Nat /\ Len(Prologue) \in Nat /\ Len(l) <= Len(Prologue)
  BY TxAssumption DEF IsLog
<1>2. ASSUME NEW h \in Len(l) + 1 .. Len(Prologue)
      PROVE  h \in DOMAIN Prologue /\ h \notin 1 .. Len(l) /\ Prologue[h] \in Shared \cap Tx
  BY <1>1, TxAssumption
<1>3. \A j \in 1 .. Len(l) : j \in DOMAIN Prologue
  BY <1>1, TxAssumption
<1>4. ASSUME NEW h \in Len(l) + 1 .. Len(Prologue), NEW j \in 1 .. Len(l)
      PROVE  Prologue[h] \notin Roots(l, j)
  <2>1. Prologue[h] \notin l[j]
    <3>1. Prologue[h] \notin Certificate
      BY Zenon, <1>2 DEF Certificate
    <3>2. QED
      BY Zenon, <3>1, RootsShape
  <2>2. Prologue[h] # Prologue[j]
    BY Zenon, <1>2, <1>3, TxAssumption
  <2>3. QED
    BY Zenon, <2>1, <2>2 DEF Roots
<1>5. Ordered(l, Len(l)) \cap Ignored(l) = {}
  BY Zenon, <1>4, InOrdered DEF Ignored
<1>6. Ignored(l) \subseteq Shared \cap Tx
  BY Zenon, <1>2 DEF Ignored
<1>7. QED
  BY Zenon, <1>5, <1>6, TxAssumption

\* Neither consensus nor a checkpoint has such a prologue executed.
LEMMA ExecutedMine ==
    ASSUME IInv, NEW v \in Validator,
           (\E t \in Tx : Execute(v, t)) \/ (\E t \in Published(v) : ExecuteSynced(v, t))
    PROVE  executed'[v] \cap Ignored(log) = {}
<1>1. IsLog(log) /\ executed[v] \cap Ignored(log) = {} /\ DOMAIN executed = Validator
  BY Zenon, LogsAssumption DEF IInv, Types
<1>2. \A w \in Validator : Accepted(log, handled[w]) \subseteq Ordered(log, Len(log))
  BY Zenon, <1>1, AcceptedGrows DEF IInv, Types
<1>3. ASSUME NEW t \in Tx, Execute(v, t) PROVE t \notin Ignored(log) /\ executed'[v] = executed[v] \cup {t}
  <2>1. t \in Shared => t \in Ordered(log, Len(log))
    BY Zenon, <1>2, <1>3 DEF Execute, Scheduled, Accepted
  <2>2. executed'[v] = executed[v] \cup {t}
    BY Zenon, <1>1, <1>3 DEF Execute
  <2>3. QED
    BY Zenon, <1>1, <2>1, <2>2, IgnoredApart
<1>4. ASSUME NEW t \in Published(v), ExecuteSynced(v, t)
      PROVE  t \notin Ignored(log) /\ executed'[v] = executed[v] \cup {t}
  <2>1. PICK w \in Validator : \E s \in signed[w] : t \in Held(s[2])
    <3>1. PICK s \in UNION {signed[w] : w \in Validator \ {v}} :
             t \in {s[2].contents[i] : i \in DOMAIN s[2].contents}
      BY Zenon DEF Published
    <3>2. PICK w \in Validator \ {v} : s \in signed[w]
      BY Zenon
    <3>3. QED
      BY Zenon, <3>1, <3>2 DEF Held
  <2>2. t \in Ordered(log, Len(log)) \cup {ADVANCE}
    BY Zenon, <1>2, <2>1 DEF IInv
  <2>3. executed'[v] = executed[v] \cup {t}
    BY Zenon, <1>1, <1>4 DEF ExecuteSynced
  <2>4. QED
    BY Zenon, <1>1, <2>2, <2>3, IgnoredApart
<1>5. QED
  BY Zenon, <1>1, <1>3, <1>4

LEMMA NextInv ==
    ASSUME IInv, [Next]_vars
    PROVE  IInv'
<1>1. CASE UNCHANGED vars
  BY Zenon, <1>1 DEF vars, builder, commits, IInv, Types
<1>2. ASSUME NEW v \in Validator, Step(v) \/ Crash(v) PROVE IInv'
  <2>1. Types' /\ log' = log /\ \A w \in Validator \ {v} : Same(w)
    BY Zenon, <1>2, StepShape
  <2>2. MineInv(v)
    <3>1. CASE (\E t \in Tx : Execute(v, t)) \/ (\E t \in Published(v) : ExecuteSynced(v, t))
      <4>1. UNCHANGED <<handled, stage, height, effects, checkpoints, sent, local, built, signed>>
        BY Zenon, <3>1 DEF Execute, ExecuteSynced, builder
      <4>2. executed'[v] \cap Ignored(log) = {}
        BY Zenon, <1>2, <3>1, ExecutedMine
      <4>3. QED
        BY Zenon, <4>1, <4>2 DEF IInv, MineInv
    <3>2. QED
      BY Zenon, <1>2, <3>1, MoreHandled, CollectMine, CreateMine, SignMine, WriteMine, ProcessMine,
         CrashMine DEF Step
  <2>3. QED
    BY Zenon, <2>1, <2>2, OneValidator
<1>3. QED
  BY Zenon, <1>1, <1>2 DEF Next

LEMMA InitInv ==
    ASSUME Init
    PROVE  IInv
<1>1. log \in Logs /\ IsLog(log) /\ Len(log) \in Nat /\ later \in Later /\ Len(later) \in Nat
  <2>1. /\ log \in Logs /\ IsLog(log) /\ later \in Later
        /\ log \in Seq(SUBSET Certificate) /\ later \in Seq(SUBSET Certificate)
    BY Zenon, LogsAssumption DEF Init, IsLog
  <2>2. QED
    BY <2>1
<1>2. Types
  BY <1>1 DEF Init, Types
<1>3. BuiltBy(log, 0, <<>>)
  <2>1. PICK f : f = [k \in {0} |-> <<>>]
    BY Zenon
  <2>2. IsChain(log, f, 0)
    BY <1>1, <2>1 DEF IsChain
  <2>3. f[0] = <<>> /\ 0 <= 0
    BY <2>1
  <2>4. QED
    BY Zenon, <2>2, <2>3 DEF BuiltBy
<1>4. ASSUME NEW v \in Validator
      PROVE  /\ handled[v] = 0 /\ stage[v] = "idle" /\ built[v] = <<>> /\ signed[v] = {}
             /\ DOMAIN local[v] = {} /\ executed[v] = Old
  BY DEF Init
<1>5. ASSUME NEW v \in Validator
      PROVE  TaskInv(log, handled[v], stage[v], height[v], effects[v], checkpoints[v], sent[v], built[v])
  BY Zenon, <1>4 DEF TaskInv
<1>6. Old \cap Ignored(log) = {}
  BY Zenon, <1>1, IgnoredApart, TxAssumption
<1>7. QED
  BY ZenonT(60), <1>2, <1>3, <1>4, <1>5, <1>6 DEF IInv

\* Whatever a validator stores, signs, publishes or has in the memory of its builder is a
\* function of the log of consensus, also after crashes.
THEOREM BuilderInvariance == Spec => []IInv
<1>1. IInv /\ [Next]_vars => IInv'
  BY Zenon, NextInv
<1>2. QED
  BY <1>1, InitInv, PTL DEF Spec

\* Validators never sign different checkpoints with one sequence number, nor one that
\* differs from what another has stored: check_for_checkpoint_fork does not panic.
THEOREM CheckpointsAgree == Spec => []NoFork
<1>1. ASSUME IInv PROVE NoFork
  <2>1. IsLog(log)
    BY Zenon, <1>1, LogsAssumption DEF IInv, Types
  <2>2. ASSUME NEW v \in Validator, NEW w \in Validator, NEW s \in signed[v], NEW r \in signed[w],
               s[1] = r[1]
        PROVE  s[2] = r[2]
    <3>1. OnChain(log, s[1], s[2]) /\ OnChain(log, s[1], r[2])
      BY Zenon, <1>1, <2>2 DEF IInv
    <3>2. QED
      BY Zenon, <2>1, <3>1, OnChainUnique
  <2>3. ASSUME NEW v \in Validator, NEW w \in Validator, NEW s \in signed[v], s[1] \in DOMAIN local[w]
        PROVE  s[2] = local[w][s[1]]
    <3>1. OnChain(log, s[1], s[2]) /\ OnChain(log, s[1], local[w][s[1]])
      BY Zenon, <1>1, <2>3 DEF IInv
    <3>2. QED
      BY Zenon, <2>1, <3>1, OnChainUnique
  <2>4. QED
    BY Zenon, <2>2, <2>3 DEF NoFork
<1>2. QED
  BY <1>1, BuilderInvariance, PTL

\* What a validator stores, at any time.
LEMMA BuiltHolds ==
    ASSUME IInv, NEW v \in Validator
    PROVE  IsLog(log) /\ \E k \in Nat : k <= Len(log) /\ ChainInv(log, built[v], k)
<1>1. IsLog(log) /\ BuiltBy(log, handled[v], built[v])
  BY Zenon, LogsAssumption DEF IInv, Types
<1>2. PICK h, f : IsChain(log, f, h) /\ built[v] = f[h]
  BY ZenonT(60), <1>1 DEF BuiltBy
<1>3. h \in Nat /\ h <= Len(log) /\ h \in 0 .. h
  BY SMTT(30), <1>1, <1>2 DEF IsChain, IsLog
<1>4. QED
  BY Zenon, <1>1, <1>2, <1>3, ChainHolds

\* No transaction is in two checkpoints of a validator or twice in one, and none of an
\* earlier epoch is.
THEOREM IncludedOnce == Spec => []ExactlyOnce
<1>1. ASSUME IInv, NEW v \in Validator
      PROVE  Included(built[v]) \cap Old = {} /\ Once(Contents(built[v]))
  <2>1. PICK k \in Nat : k <= Len(log) /\ ChainInv(log, built[v], k)
    BY Zenon, <1>1, BuiltHolds
  <2>2. Ordered(log, Len(log)) \subseteq Tx
    <3>1. \A j \in 1 .. Len(log) : Roots(log, j) \subseteq Tx
      BY Zenon, <1>1, BuiltHolds, RootsShape
    <3>2. QED
      BY ZenonT(60), <3>1, InOrdered
  <2>3. QED
    BY Zenon, <2>1, <2>2, TxAssumption DEF ChainInv
<1>2. IInv => ExactlyOnce
  BY Zenon, <1>1 DEF ExactlyOnce
<1>3. QED
  BY <1>2, BuilderInvariance, PTL

\* The checkpoints of a validator are a causal history: every transaction comes after its
\* dependencies of this epoch and after the readers of what it replaces.
THEOREM CausalHistory == Spec => []HistoryIsCausal
<1>1. ASSUME IInv, NEW v \in Validator PROVE Causal(Contents(built[v]), Need)
  BY Zenon, <1>1, BuiltHolds DEF ChainInv
<1>2. IInv => HistoryIsCausal
  BY Zenon, <1>1 DEF HistoryIsCausal, Need
<1>3. QED
  BY <1>2, BuilderInvariance, PTL

\* Whatever commits follow the close, no validator builds a checkpoint after the last one
\* of the epoch; it ends with the change epoch transaction, and the checkpoints then hold
\* what consensus ordered up to the close and nothing else.
THEOREM EpochIsComplete == Spec => []LastIsComplete
<1>1. ASSUME IInv, NEW v \in Validator, NEW n \in DOMAIN built[v], built[v][n].last
      PROVE  /\ n = Len(built[v])
             /\ built[v][n].contents[Len(built[v][n].contents)] = ADVANCE
             /\ Included(built[v]) = Ordered(log, Len(log)) \cup {ADVANCE}
  <2>1. PICK k \in Nat : k <= Len(log) /\ ChainInv(log, built[v], k)
    BY ZenonT(60), <1>1, BuiltHolds
  <2>2. built[v] \in Seq(Checkpoint)
    BY Zenon, <1>1, LogsAssumption, BuiltShape DEF IInv, Types
  <2>3. n \in 1 .. Len(built[v]) /\ built[v] # <<>>
    BY <1>1, <2>2
  <2>4. QED
    BY Zenon, <1>1, <2>1, <2>3 DEF ChainInv
<1>2. IInv => LastIsComplete
  BY Zenon, <1>1 DEF LastIsComplete
<1>3. QED
  BY <1>2, BuilderInvariance, PTL

\* A validator signs only what consensus scheduled on it: user_signatures_for_checkpoint
\* finds the signatures of all the certificates.
THEOREM SignaturesFound == Spec => []SignedIsScheduled
<1>1. IInv => SignedIsScheduled
  BY Zenon DEF IInv, SignedIsScheduled, Scheduled, Accepted, Held
<1>2. QED
  BY <1>1, BuilderInvariance, PTL
=============================================================================
