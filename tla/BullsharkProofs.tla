-------------------------- MODULE BullsharkProofs --------------------------
(*****************************************************************************)
(* Validators that run Bullshark commit the same sequence of sub-dags, each  *)
(* certificate once, and execute it in order.                                *)
(*                                                                           *)
(* A history is the sequence of the states after each commit that the DAG    *)
(* determines (IsHistory): two histories agree as far as both go.  The       *)
(* inductive invariant says of each validator that its commits are a history *)
(* (HasHistory), that the leaders it is about to commit are those the whole  *)
(* DAG gives (Committing), that what is stored, on its way and in the dag    *)
(* fit together above the gc round (Fed), and that the sub-dags on their way *)
(* to the handler follow those executed (Sent).                              *)
(*****************************************************************************)
EXTENDS BullsharkOrder

-----------------------------------------------------------------------------
(* The history of a validator's commits *)

\* order_dag reads nothing of the state but last_committed.
LEMMA SameOrder ==
    ASSUME IsDag(parents), NEW l \in DOMAIN parents, NEW s, NEW t,
           s.last_committed = t.last_committed
    PROVE  order_dag(s, l) = order_dag(t, l)
<1>1. PICK F, G : F = Search(s, l) /\ G = Search(t, l)
  BY Zenon
<1>2. /\ F[0] = G[0]
      /\ \A k \in Nat : F[k + 1] = Iterate(s, l, F[k]) /\ G[k + 1] = Iterate(t, l, G[k])
  <2>1. /\ F[0] = [ordered |-> <<>>, buffer |-> <<l>>, already_ordered |-> {}]
        /\ \A k \in Nat : F[k + 1] = Iterate(s, l, F[k])
    BY Zenon, <1>1, SearchIs
  <2>2. /\ G[0] = [ordered |-> <<>>, buffer |-> <<l>>, already_ordered |-> {}]
        /\ \A k \in Nat : G[k + 1] = Iterate(t, l, G[k])
    BY Zenon, <1>1, SearchIs
  <2> QED
    BY Zenon, <2>1, <2>2
<1>3. \A now : Iterate(s, l, now) = Iterate(t, l, now)
  BY Zenon DEF Iterate, Visit, Skip
<1> DEFINE P == {k \in Nat : F[k] = G[k]}
<1>4. 0 \in P /\ \A k \in Nat : k \in P => k + 1 \in P
  BY <1>2, <1>3
<1> HIDE DEF P
<1>5. Nat \subseteq P
  BY Zenon, <1>4, Induction
<1>6. Cardinality(DOMAIN parents) \in Nat
  BY Zenon, DagShape, FS_CardinalityType
<1>7. F[Cardinality(DOMAIN parents)] = G[Cardinality(DOMAIN parents)]
  BY Zenon, <1>5, <1>6 DEF P
<1>8. QED
  BY Zenon, <1>1, <1>7 DEF order_dag

\* The state s with another dag.
With(s, dag) == [dag |-> dag, last_committed |-> s.last_committed,
                 sub_dags |-> s.sub_dags, table |-> s.table]

\* What is committed does not depend on the dag.
LEMMA CommitWith ==
    ASSUME IsDag(parents), NEW l \in DOMAIN parents, NEW s, NEW dag, NEW t,
           t = CommitLeader(With(s, dag), l)
    PROVE  t = With(CommitLeader(s, l), t.dag)
<1>1. PICK u : u = With(s, dag)
  BY Zenon
<1>2. u.last_committed = s.last_committed /\ u.sub_dags = s.sub_dags /\ u.table = s.table
  BY Zenon, <1>1 DEF With
<1>3. PICK q : q = order_dag(s, l) /\ q = order_dag(u, l)
  BY Zenon, <1>2, SameOrder
<1>4. PICK scores : scores = resolve_reputation_score(s, q) /\ scores = resolve_reputation_score(u, q)
  BY <1>2, Zenon DEF resolve_reputation_score
<1> DEFINE last == [a \in Authority |-> Max({s.last_committed[a]} \cup
                      {Round(c) : c \in {d \in Range(q) : Origin(d) = a}})]
           subs == Append(s.sub_dags, [leader |-> l, certificates |-> q, scores |-> scores])
           T == IF FinalOfSchedule(Len(s.sub_dags) + 1) THEN LeaderSwapTable(scores) ELSE s.table
           gc == gc_round(Max({last[a] : a \in Authority}))
<1>5. CommitLeader(s, l) = [dag |-> {c \in s.dag : Round(c) > gc}, last_committed |-> last,
                            sub_dags |-> subs, table |-> T]
  BY <1>3, <1>4, Zenon DEF CommitLeader
<1>6. CommitLeader(u, l) = [dag |-> {c \in u.dag : Round(c) > gc}, last_committed |-> last,
                            sub_dags |-> subs, table |-> T]
  BY <1>2, <1>3, <1>4, Zenon DEF CommitLeader
<1> HIDE DEF last, subs, T, gc
<1>7. QED
  BY <1>1, <1>5, <1>6 DEF With

\* l is the leader to commit next, whichever leader is elected.
IsNext(s, l) ==
    \E e : /\ Electable(s.table, CommittedRound(s), e)
           /\ l = Head(WalkTo(s.table, CommittedRound(s), e))

\* The states after each of n commits, which the DAG alone determines.
IsHistory(h, n) ==
    /\ h[0] = New
    /\ \A i \in 1 .. n : \E l : IsNext(h[i - 1], l) /\ h[i] = CommitLeader(h[i - 1], l)

\* The initial state is in order.
LEMMA NewOK == ASSUME IsDag(parents) PROVE StateOK(New)
<1>1. /\ New.dag = {} /\ New.last_committed = [a \in Authority |-> 0] /\ New.sub_dags = <<>>
      /\ New.table = NoSwaps
      /\ New \in [dag : SUBSET DOMAIN parents, last_committed : [Authority -> Nat],
                  sub_dags : Seq(SubDag), table : {New.table}]
  BY DEF New
<1>2. RestoredTable(<<>>) = NoSwaps
  <2>1. {i \in 1 .. Len(<<>>) : FinalOfSchedule(i)} = {}
    OBVIOUS
  <2>2. QED
    BY <2>1, Zenon DEF RestoredTable
<1>3. LastRound(<<>>) = 0 /\ Len(<<>>) = 0
  BY Zenon DEF LastRound
<1>4. PICK a : a \in Authority
  BY Zenon, BullsharkAssumption
<1>5. QED
  BY <1>1, <1>2, <1>3, <1>4 DEF StateOK

\* The leader to commit next comes after the last one committed.
LEMMA NextLeader ==
    ASSUME IsDag(parents), NEW s, StateOK(s), NEW l, IsNext(s, l)
    PROVE  /\ l \in DOMAIN parents
           /\ Extends(CommitLeader(s, l), s, l)
<1>1. CommittedRound(s) \in Nat /\ CommittedRound(s) % 2 = 0
  BY Zenon, CommittedRoundIs
<1>2. PICK e : /\ Electable(s.table, CommittedRound(s), e)
               /\ l = Head(WalkTo(s.table, CommittedRound(s), e))
  BY Zenon DEF IsNext
<1>3. l \in DOMAIN parents /\ Round(l) % 2 = 0 /\ Round(l) > CommittedRound(s)
  BY SMTT(30), <1>1, <1>2, WalkTail
<1>4. QED
  BY Zenon, <1>3, CommitLeaderIs

\* Every state of a history is in order, and has as many sub-dags as it has commits.
LEMMA HistoryOK ==
    ASSUME IsDag(parents), NEW n \in Nat, NEW h, IsHistory(h, n)
    PROVE  \A i \in 0 .. n : StateOK(h[i]) /\ Len(h[i].sub_dags) = i
<1> DEFINE P == {i \in Nat : i <= n => StateOK(h[i]) /\ Len(h[i].sub_dags) = i}
<1>1. 0 \in P
  <2>1. h[0] = New /\ New.sub_dags = <<>> /\ Len(<<>>) = 0
    BY Zenon DEF IsHistory, New
  <2>2. QED
    BY Zenon, <2>1, NewOK
<1>2. ASSUME NEW i \in Nat, i \in P, i + 1 <= n PROVE StateOK(h[i + 1]) /\ Len(h[i + 1].sub_dags) = i + 1
  <2>1. StateOK(h[i]) /\ Len(h[i].sub_dags) = i
    BY <1>2
  <2>2. i + 1 \in 1 .. n /\ (i + 1) - 1 = i
    BY <1>2
  <2>3. PICK l : IsNext(h[i], l) /\ h[i + 1] = CommitLeader(h[i], l)
    BY Zenon, <2>2 DEF IsHistory
  <2>4. Extends(h[i + 1], h[i], l)
    BY Zenon, <2>1, <2>3, NextLeader
  <2>5. QED
    BY Zenon, <2>1, <2>4 DEF Extends
<1>3. \A i \in Nat : i \in P => i + 1 \in P
  BY <1>2
<1> HIDE DEF P
<1>4. Nat \subseteq P
  BY Zenon, <1>1, <1>3, Induction
<1>5. QED
  BY <1>4 DEF P

\* Two histories agree as far as both go.
LEMMA HistoryUnique ==
    ASSUME IsDag(parents), NEW n \in Nat, NEW h, IsHistory(h, n),
           NEW m \in Nat, NEW g, IsHistory(g, m)
    PROVE  \A i \in Nat : i <= n /\ i <= m => h[i] = g[i]
<1> DEFINE P == {i \in Nat : i <= n /\ i <= m => h[i] = g[i]}
<1>1. 0 \in P
  BY Zenon DEF IsHistory
<1>2. ASSUME NEW i \in Nat, i \in P, i + 1 <= n, i + 1 <= m PROVE h[i + 1] = g[i + 1]
  <2>1. h[i] = g[i] /\ StateOK(h[i])
    BY <1>2, HistoryOK
  <2>2. i + 1 \in 1 .. n /\ i + 1 \in 1 .. m /\ (i + 1) - 1 = i
    BY <1>2
  <2>3. PICK l : IsNext(h[i], l) /\ h[i + 1] = CommitLeader(h[i], l)
    BY Zenon, <2>2 DEF IsHistory
  <2>4. PICK k : IsNext(h[i], k) /\ g[i + 1] = CommitLeader(h[i], k)
    BY Zenon, <2>1, <2>2 DEF IsHistory
  <2>5. CommittedRound(h[i]) \in Nat /\ CommittedRound(h[i]) % 2 = 0
    BY Zenon, <2>1, CommittedRoundIs
  <2>6. l = k
    BY <2>3, <2>4, <2>5, FirstIsUnique DEF IsNext
  <2>7. QED
    BY Zenon, <2>3, <2>4, <2>6
<1>3. \A i \in Nat : i \in P => i + 1 \in P
  BY <1>2
<1> HIDE DEF P
<1>4. Nat \subseteq P
  BY Zenon, <1>1, <1>3, Induction
<1>5. QED
  BY Zenon, <1>4 DEF P

\* A history only adds sub-dags.
LEMMA HistoryGrows ==
    ASSUME IsDag(parents), NEW n \in Nat, NEW h, IsHistory(h, n)
    PROVE  \A i \in 0 .. n : \A j \in 1 .. i : h[n].sub_dags[j] = h[i].sub_dags[j]
<1> DEFINE P == {k \in Nat : k <= n => \A i \in 0 .. k : \A j \in 1 .. i :
                                           h[k].sub_dags[j] = h[i].sub_dags[j]}
<1>1. 0 \in P
  OBVIOUS
<1>2. ASSUME NEW k \in Nat, k \in P, k + 1 <= n, NEW i \in 0 .. (k + 1), NEW j \in 1 .. i
      PROVE  h[k + 1].sub_dags[j] = h[i].sub_dags[j]
  <2>1. CASE i = k + 1
    BY Zenon, <2>1
  <2>2. CASE i \in 0 .. k
    <3>1. h[k].sub_dags[j] = h[i].sub_dags[j]
      BY <1>2, <2>2
    <3>2. StateOK(h[k]) /\ Len(h[k].sub_dags) = k
      BY <1>2, HistoryOK
    <3>3. k + 1 \in 1 .. n /\ (k + 1) - 1 = k /\ j \in 1 .. k
      BY <1>2, <2>2
    <3>4. PICK l : IsNext(h[k], l) /\ h[k + 1] = CommitLeader(h[k], l)
      BY Zenon, <3>3 DEF IsHistory
    <3>5. Extends(h[k + 1], h[k], l)
      BY Zenon, <3>2, <3>4, NextLeader
    <3>6. QED
      BY Zenon, <3>1, <3>2, <3>3, <3>5 DEF Extends
  <2>3. QED
    BY <2>1, <2>2
<1>3. ASSUME NEW k \in Nat, k \in P PROVE k + 1 \in P
  <2>1. k + 1 \in Nat
    OBVIOUS
  <2>2. k + 1 <= n => \A i \in 0 .. (k + 1) : \A j \in 1 .. i :
                         h[k + 1].sub_dags[j] = h[i].sub_dags[j]
    BY Zenon, <1>2, <1>3
  <2>3. QED
    BY Zenon, <2>1, <2>2
<1> HIDE DEF P
<1>4. Nat \subseteq P
  BY Zenon, <1>1, <1>3, Induction
<1>5. QED
  BY <1>4 DEF P

\* What s has committed is a history.
HasHistory(s) ==
    \E h : IsHistory(h, Len(s.sub_dags)) /\ s = With(h[Len(s.sub_dags)], s.dag)

\* A state in order remains so with another dag.
LEMMA WithOK ==
    ASSUME NEW s, StateOK(s), NEW dag, dag \subseteq DOMAIN parents
    PROVE  /\ StateOK(With(s, dag)) /\ CommittedRound(With(s, dag)) = CommittedRound(s)
           /\ GcRound(With(s, dag)) = GcRound(s)
<1>1. PICK t : t = With(s, dag)
  BY Zenon
<1>2. /\ t.last_committed = s.last_committed /\ t.sub_dags = s.sub_dags /\ t.table = s.table
      /\ t.dag = dag
      /\ t = [dag |-> t.dag, last_committed |-> t.last_committed,
              sub_dags |-> t.sub_dags, table |-> t.table]
  BY Zenon, <1>1 DEF With
<1>3. t \in [dag : SUBSET DOMAIN parents, last_committed : [Authority -> Nat],
             sub_dags : Seq(SubDag), table : {t.table}]
  <2>1. s.last_committed \in [Authority -> Nat] /\ s.sub_dags \in Seq(SubDag)
    BY Zenon DEF StateOK
  <2>2. QED
    BY Zenon, <1>2, <2>1
<1>4. StateOK(t)
  BY <1>2, <1>3, Zenon DEF StateOK
<1>5. CommittedRound(t) = CommittedRound(s)
  BY <1>2, Zenon DEF CommittedRound
<1>6. QED
  BY <1>1, <1>4, <1>5, Zenon DEF GcRound

\* A validator that has only committed histories is in order.
LEMMA HistoryState ==
    ASSUME IsDag(parents), NEW s, s.sub_dags \in Seq(SubDag), HasHistory(s),
           s.dag \subseteq DOMAIN parents
    PROVE  StateOK(s)
<1>1. PICK h : IsHistory(h, Len(s.sub_dags)) /\ s = With(h[Len(s.sub_dags)], s.dag)
  BY Zenon DEF HasHistory
<1>2. Len(s.sub_dags) \in Nat
  OBVIOUS
<1>3. StateOK(h[Len(s.sub_dags)])
  BY <1>1, <1>2, HistoryOK
<1>4. QED
  BY Zenon, <1>1, <1>3, WithOK

\* The dag is no part of the history.
LEMMA HistoryWith ==
    ASSUME NEW s, HasHistory(s), NEW dag
    PROVE  HasHistory(With(s, dag))
<1>1. PICK h : IsHistory(h, Len(s.sub_dags)) /\ s = With(h[Len(s.sub_dags)], s.dag)
  BY Zenon DEF HasHistory
<1>2. PICK t : t = With(s, dag)
  BY Zenon
<1>3. t.sub_dags = s.sub_dags /\ t.dag = dag
  BY Zenon, <1>2 DEF With
<1>4. t = With(h[Len(s.sub_dags)], t.dag)
  BY <1>1, <1>2, <1>3 DEF With
<1>5. HasHistory(t)
  BY Zenon, <1>1, <1>3, <1>4 DEF HasHistory
<1>6. QED
  BY Zenon, <1>2, <1>5

\* Committing the next leader continues the history.
LEMMA HistoryStep ==
    ASSUME IsDag(parents), NEW s, StateOK(s), HasHistory(s), NEW l, IsNext(s, l)
    PROVE  HasHistory(CommitLeader(s, l))
<1>1. PICK n : n = Len(s.sub_dags)
  BY Zenon
<1>2. n \in Nat
  BY <1>1 DEF StateOK
<1>3. PICK h : IsHistory(h, n) /\ s = With(h[n], s.dag)
  BY Zenon, <1>1 DEF HasHistory
<1>4. s.last_committed = h[n].last_committed /\ s.table = h[n].table
  BY <1>3 DEF With
<1>5. CommittedRound(s) = CommittedRound(h[n])
  BY <1>4, Zenon DEF CommittedRound
<1>6. IsNext(h[n], l)
  BY Zenon, <1>4, <1>5 DEF IsNext
<1>7. PICK t : t = CommitLeader(s, l)
  BY Zenon
<1>8. l \in DOMAIN parents /\ Extends(t, s, l)
  BY Zenon, <1>7, NextLeader
<1>9. t = With(CommitLeader(h[n], l), t.dag)
  BY <1>3, <1>7, <1>8, CommitWith
<1>10. PICK g : g = [i \in Nat |-> IF i <= n THEN h[i] ELSE CommitLeader(h[n], l)]
  BY Zenon
<1>11. /\ \A i \in Nat : i <= n => g[i] = h[i]
       /\ g[n + 1] = CommitLeader(h[n], l)
  BY <1>2, <1>10
<1>12. IsHistory(g, n + 1)
  <2>1. g[0] = New
    BY <1>2, <1>3, <1>11 DEF IsHistory
  <2>2. ASSUME NEW i \in 1 .. (n + 1) PROVE \E k : IsNext(g[i - 1], k) /\ g[i] = CommitLeader(g[i - 1], k)
    <3>1. CASE i <= n
      <4>1. i \in 1 .. n /\ i - 1 \in Nat /\ i - 1 <= n /\ i \in Nat
        BY <1>2, <3>1
      <4>2. g[i - 1] = h[i - 1] /\ g[i] = h[i]
        BY Zenon, <1>11, <3>1, <4>1
      <4>3. \E k : IsNext(h[i - 1], k) /\ h[i] = CommitLeader(h[i - 1], k)
        BY Zenon, <1>3, <4>1 DEF IsHistory
      <4>4. QED
        BY Zenon, <4>2, <4>3
    <3>2. CASE i = n + 1
      <4>1. i - 1 = n
        BY <1>2, <3>2
      <4>2. g[i - 1] = h[n] /\ g[i] = CommitLeader(h[n], l)
        BY SMTT(30), <1>2, <1>11, <3>2, <4>1
      <4>3. QED
        BY Zenon, <1>6, <4>2
    <3>3. QED
      BY <1>2, <3>1, <3>2
  <2>3. QED
    BY Zenon, <2>1, <2>2 DEF IsHistory
<1>13. Len(t.sub_dags) = n + 1
  BY Zenon, <1>1, <1>8 DEF Extends
<1>14. t = With(g[n + 1], t.dag)
  BY Zenon, <1>9, <1>11
<1>15. HasHistory(t)
  BY Zenon, <1>12, <1>13, <1>14 DEF HasHistory
<1>16. QED
  BY Zenon, <1>7, <1>15

\* Of two validators, the one that has committed less has a prefix of the other's
\* sub-dags.
LEMMA HistoriesAgree ==
    ASSUME IsDag(parents), NEW s, StateOK(s), HasHistory(s), NEW t, StateOK(t), HasHistory(t),
           Len(s.sub_dags) <= Len(t.sub_dags)
    PROVE  IsPrefix(s.sub_dags, t.sub_dags)
<1>1. PICK n, m : n = Len(s.sub_dags) /\ m = Len(t.sub_dags)
  BY Zenon
<1>2. n \in Nat /\ m \in Nat /\ n <= m /\ s.sub_dags \in Seq(SubDag) /\ t.sub_dags \in Seq(SubDag)
  BY <1>1 DEF StateOK
<1>3. PICK h : IsHistory(h, n) /\ s = With(h[n], s.dag)
  BY Zenon, <1>1 DEF HasHistory
<1>4. PICK g : IsHistory(g, m) /\ t = With(g[m], t.dag)
  BY Zenon, <1>1 DEF HasHistory
<1>5. s.sub_dags = h[n].sub_dags /\ t.sub_dags = g[m].sub_dags
  BY <1>3, <1>4 DEF With
<1>6. h[n] = g[n]
  BY <1>2, <1>3, <1>4, HistoryUnique
<1>7. n \in 0 .. m
  BY <1>2
<1>8. \A j \in 1 .. n : g[m].sub_dags[j] = g[n].sub_dags[j]
  BY Zenon, <1>2, <1>4, <1>7, HistoryGrows
<1>9. \A j \in 1 .. n : t.sub_dags[j] = s.sub_dags[j]
  BY Zenon, <1>5, <1>6, <1>8
<1>10. PICK p, q : p = s.sub_dags /\ q = t.sub_dags
  BY Zenon
<1>11. p \in Seq(SubDag) /\ q \in Seq(SubDag) /\ Len(p) = n /\ Len(q) = m /\ \A j \in 1 .. n : q[j] = p[j]
  BY Zenon, <1>1, <1>2, <1>9, <1>10
<1>12. SubSeq(p, 1, n) = SubSeq(q, 1, n)
  BY SMTT(30), <1>2, <1>11
<1>13. IsPrefix(p, q)
  BY SMTT(30), <1>2, <1>11, <1>12 DEF IsPrefix
<1>14. QED
  BY Zenon, <1>10, <1>13

\* What a validator with a closed dag elects is what it would elect with the whole
\* DAG: missing certificates may only keep it from electing at all.
LEMMA ElectSame ==
    ASSUME IsDag(parents), NEW s, StateOK(s), Closed(s.dag, GcRound(s)),
           NEW r \in Nat, r % 2 = 0, r > CommittedRound(s), elect(s, r) # <<>>
    PROVE  \E l : /\ Electable(s.table, CommittedRound(s), l) /\ Round(l) = r
                  /\ elect(s, r) = WalkTo(s.table, CommittedRound(s), l)
<1>1. PICK l : l = leader_certificate(s.table, r)
  BY Zenon
<1>2. l \in s.dag /\ StakeOf(Voters(s.dag, l)) >= ValidityThreshold /\ elect(s, r) = order_leaders(s, l)
  <2>1. elect(s, r) = IF l \in s.dag /\ StakeOf(Voters(s.dag, l)) >= ValidityThreshold
                      THEN order_leaders(s, l) ELSE <<>>
    BY <1>1, Zenon DEF elect, Voters
  <2>2. QED
    BY Zenon, <2>1
<1>3. Round(l) = r
  BY Zenon, <1>1 DEF leader_certificate, Round
<1>4. l \in DOMAIN parents /\ s.dag \subseteq DOMAIN parents
  BY Zenon, <1>2 DEF Closed
<1>5. StakeOf(Voters(DOMAIN parents, l)) >= ValidityThreshold
  <2>1. Voters(s.dag, l) \subseteq Voters(DOMAIN parents, l) /\ Voters(DOMAIN parents, l) \subseteq Authority
    BY SMTT(30), <1>4, DagShape DEF Voters, Supporters
  <2>2. /\ StakeOf(Voters(s.dag, l)) <= StakeOf(Voters(DOMAIN parents, l))
        /\ StakeOf(Voters(s.dag, l)) \in Nat /\ StakeOf(Voters(DOMAIN parents, l)) \in Nat
    BY Zenon, <2>1, StakeMonotone
  <2>3. ValidityThreshold \in Int
    <3>1. Total \in Nat
      BY Zenon, FiniteStake DEF Total
    <3>2. QED
      BY SMTT(30), <3>1 DEF ValidityThreshold
  <2>4. QED
    BY <1>2, <2>2, <2>3
<1>6. PICK R : R = CommittedRound(s)
  BY Zenon
<1>7. R \in Nat /\ R % 2 = 0
  BY Zenon, <1>6, CommittedRoundIs
<1>8. Electable(s.table, R, l)
  BY ZenonT(60), <1>1, <1>3, <1>4, <1>5, <1>6 DEF Electable
<1>9. GcRound(s) \in Nat /\ GcRound(s) <= R
  BY <1>6, <1>7, BullsharkAssumption DEF GcRound, gc_round
<1>10. PICK k : k = (r - R) \div 2 - 1
  BY Zenon
<1>11. k \in Nat /\ r - 2 * k > R
  <2>1. PICK a, b : a = r \div 2 /\ b = R \div 2
    BY Zenon
  <2>2. a \in Int /\ b \in Int /\ r = 2 * a /\ R = 2 * b
    BY <1>7, <2>1
  <2>3. (r - R) \div 2 = a - b
    BY <2>2
  <2>4. a > b
    BY <1>6, <2>2
  <2>5. QED
    BY <1>10, <2>2, <2>3, <2>4
<1>12. LinkedLeaders(s.dag, s.table, l)[k] = LinkedLeaders(DOMAIN parents, s.table, l)[k]
  <2>1. Round(l) - 2 * k > GcRound(s)
    BY <1>3, <1>7, <1>9, <1>11
  <2>2. QED
    <3>1. PICK g, dag, table : g = GcRound(s) /\ dag = s.dag /\ table = s.table
      BY Zenon
    <3>2. g \in Nat /\ Closed(dag, g) /\ l \in dag
      BY Zenon, <1>2, <1>9, <3>1
    <3>3. \A i \in Nat : Round(l) - 2 * i > g =>
              LinkedLeaders(dag, table, l)[i] = LinkedLeaders(DOMAIN parents, table, l)[i]
      BY <3>2, WalkSame
    <3>4. QED
      BY Zenon, <1>11, <2>1, <3>1, <3>3
<1>13. elect(s, r) = WalkTo(s.table, R, l)
  BY Zenon, <1>2, <1>3, <1>6, <1>10, <1>12 DEF order_leaders, WalkTo
<1>14. QED
  BY Zenon, <1>3, <1>6, <1>8, <1>13

-----------------------------------------------------------------------------
(* The inductive invariant, of one validator *)

\* What is stored, in the channel and in the dag fit together above the gc round:
\* a certificate's parents come into the dag before it.
Fed(st, ch, s) ==
    /\ st \subseteq DOMAIN parents /\ ch \in Seq(st) /\ s.dag \subseteq st
    /\ Closed(st, GcRound(s)) /\ Closed(s.dag, GcRound(s))
    /\ \A c \in st : Round(c) > GcRound(s) => c \in s.dag \/ \E j \in 1 .. Len(ch) : c = ch[j]
    /\ \A i \in 1 .. Len(ch) : Round(ch[i]) > GcRound(s) + 1 =>
          \A d \in parents[ch[i]] : d \in s.dag \/ \E j \in 1 .. (i - 1) : d = ch[j]

\* The leaders still to commit are those the whole DAG gives.
Committing(s, cm) ==
    \/ cm = NoCommit
    \/ \E l : /\ Electable(s.table, CommittedRound(s), l)
              /\ cm = [round |-> Round(l), leaders |-> WalkTo(s.table, CommittedRound(s), l),
                       first |-> cm.first]
              /\ cm.first \in 1 .. Len(s.sub_dags) + 1

\* The last sub-dag that was sent to the executor.
LastSent(s, cm) == IF cm.leaders = <<>> THEN Len(s.sub_dags) ELSE cm.first - 1

\* out is the sequence of the indices after b, up to e.
IndexRange(out, b, e) ==
    /\ out \in Seq(Nat) /\ b + Len(out) = e
    /\ \A i \in 1 .. Len(out) : out[i] = b + i

\* The sub-dags on their way follow those executed, up to the last one sent; after
\* a restart the first one is the last executed.
Sent(s, cm, out, ex) ==
    /\ IndexRange(ex, 0, Len(ex)) /\ Len(ex) <= LastSent(s, cm)
    /\ \E b \in Nat : /\ b = Len(ex) \/ b = Len(ex) - 1
                      /\ IndexRange(out, b, LastSent(s, cm))

\* The invariant of a validator, of its part of each variable.
LocalInv(st, ch, s, cm, out, ex) ==
    /\ StateOK(s) /\ HasHistory(s) /\ Fed(st, ch, s)
    /\ Committing(s, cm) /\ Sent(s, cm, out, ex)

\* A certificate whose parents are stored, or collected, can be accepted.
LEMMA AcceptFeeds ==
    ASSUME IsDag(parents), NEW s, StateOK(s), NEW st, NEW ch, Fed(st, ch, s), NEW c \in DOMAIN parents,
           parents[c] \subseteq st \/ Round(c) <= GcRound(s) + 1
    PROVE  Fed(st \cup {c}, Append(ch, c), s)
<1>1. PICK g : g = GcRound(s)
  BY Zenon
<1>2. g \in Nat
  BY <1>1, CommittedRoundIs, BullsharkAssumption DEF GcRound, gc_round
<1>3. PICK st2, ch2 : st2 = st \cup {c} /\ ch2 = Append(ch, c)
  BY Zenon
<1>4. /\ ch \in Seq(st) /\ ch2 \in Seq(st2) /\ Len(ch2) = Len(ch) + 1 /\ Len(ch) \in Nat
      /\ \A i \in 1 .. Len(ch) : ch2[i] = ch[i]
      /\ ch2[Len(ch) + 1] = c
  <2>1. ch \in Seq(st) /\ ch \in Seq(st2) /\ c \in st2
    BY <1>3 DEF Fed
  <2>2. QED
    BY <1>3, <2>1
<1>5. st2 \subseteq DOMAIN parents /\ s.dag \subseteq st2 /\ Closed(s.dag, g)
  BY Zenon, <1>1, <1>3 DEF Fed
<1>6. Closed(st2, g)
  BY <1>1, <1>2, <1>3, <1>5, DagShape DEF Fed, Closed
<1>7. ASSUME NEW d \in st2, Round(d) > g
      PROVE  d \in s.dag \/ \E j \in 1 .. Len(ch2) : d = ch2[j]
  <2>1. CASE d = c
    <3>1. Len(ch) + 1 \in 1 .. Len(ch2)
      BY <1>4
    <3>2. QED
      BY Zenon, <1>4, <2>1, <3>1
  <2>2. CASE d \in st
    <3>1. d \in s.dag \/ \E j \in 1 .. Len(ch) : d = ch[j]
      BY Zenon, <1>1, <1>7, <2>2 DEF Fed
    <3>2. QED
      BY <1>4, <3>1
  <2>3. QED
    BY Zenon, <1>3, <2>1, <2>2
<1>8. ASSUME NEW i \in 1 .. Len(ch2), Round(ch2[i]) > g + 1, NEW d \in parents[ch2[i]]
      PROVE  d \in s.dag \/ \E j \in 1 .. (i - 1) : d = ch2[j]
  <2>1. CASE i \in 1 .. Len(ch)
    <3>1. d \in s.dag \/ \E j \in 1 .. (i - 1) : d = ch[j]
      BY <1>1, <1>4, <1>8, <2>1 DEF Fed
    <3>2. QED
      BY <1>4, <2>1, <3>1
  <2>2. CASE i = Len(ch) + 1
    <3>1. ch2[i] = c /\ i - 1 = Len(ch)
      BY <1>4, <2>2
    <3>2. d \in st /\ Round(d) > g
      BY <1>1, <1>2, <1>8, <3>1, DagShape
    <3>3. d \in s.dag \/ \E j \in 1 .. Len(ch) : d = ch[j]
      BY Zenon, <1>1, <3>2 DEF Fed
    <3>4. QED
      BY Zenon, <1>4, <3>1, <3>3
  <2>3. QED
    BY <1>4, <2>1, <2>2
<1>9. Fed(st2, ch2, s)
  BY Zenon, <1>1, <1>4, <1>5, <1>6, <1>7, <1>8 DEF Fed
<1>10. QED
  BY Zenon, <1>3, <1>9

\* The certificate taken from the channel has its parents in the dag.
LEMMA InsertFeeds ==
    ASSUME IsDag(parents), NEW s, StateOK(s), NEW st, NEW ch, Fed(st, ch, s), ch # <<>>,
           NEW t, t = With(s, IF Round(Head(ch)) > GcRound(s) THEN s.dag \cup {Head(ch)} ELSE s.dag)
    PROVE  Fed(st, Tail(ch), t)
<1>1. PICK g : g = GcRound(s)
  BY Zenon
<1>2. g \in Nat
  BY <1>1, CommittedRoundIs, BullsharkAssumption DEF GcRound, gc_round
<1>3. PICK c, ch2 : c = Head(ch) /\ ch2 = Tail(ch)
  BY Zenon
<1>4. /\ ch \in Seq(st) /\ ch2 \in Seq(st) /\ Len(ch) = Len(ch2) + 1 /\ Len(ch2) \in Nat
      /\ \A i \in 1 .. Len(ch2) : ch2[i] = ch[i + 1]
      /\ ch[1] = c /\ c \in st
  <2>1. ch \in Seq(st)
    BY Zenon DEF Fed
  <2>2. QED
    BY <1>3, <2>1
<1>5. st \subseteq DOMAIN parents /\ s.dag \subseteq st
  BY Zenon DEF Fed
<1>6. PICK dag : dag = IF Round(c) > g THEN s.dag \cup {c} ELSE s.dag
  BY Zenon
<1>7. t = With(s, dag) /\ t.dag = dag /\ dag \subseteq st
  BY Zenon, <1>1, <1>3, <1>4, <1>5, <1>6 DEF With
<1>8. GcRound(t) = g
  BY Zenon, <1>1, <1>5, <1>7, WithOK
<1>9. Closed(st, g) /\ Closed(dag, g)
  <2>1. Closed(st, g) /\ Closed(s.dag, g)
    BY Zenon, <1>1 DEF Fed
  <2>2. Round(c) > g + 1 => parents[c] \subseteq s.dag
    <3>1. 1 \in 1 .. Len(ch) /\ 1 .. (1 - 1) = {}
      BY <1>4
    <3>2. QED
      BY Zenon, <1>1, <1>4, <3>1 DEF Fed
  <2>3. QED
    BY Zenon, <1>2, <1>4, <1>5, <1>6, <1>7, <2>1, <2>2 DEF Closed
<1>10. \A j \in 1 .. Len(ch) : Round(ch[j]) > g /\ j = 1 => ch[j] \in dag
  BY Zenon, <1>4, <1>6
<1>11. ASSUME NEW d \in st, Round(d) > g
       PROVE  d \in dag \/ \E j \in 1 .. Len(ch2) : d = ch2[j]
  <2>1. CASE d \in s.dag
    BY Zenon, <1>6, <2>1
  <2>2. CASE \E j \in 1 .. Len(ch) : d = ch[j]
    <3>1. PICK j \in 1 .. Len(ch) : d = ch[j]
      BY Zenon, <2>2
    <3>2. CASE j = 1
      BY Zenon, <1>10, <1>11, <3>1, <3>2
    <3>3. CASE j > 1
      <4>1. j - 1 \in 1 .. Len(ch2) /\ (j - 1) + 1 = j
        BY <1>4, <3>3
      <4>2. QED
        BY ZenonT(60), <1>4, <3>1, <4>1
    <3>4. QED
      BY <1>4, <3>2, <3>3
  <2>3. QED
    BY Zenon, <1>1, <1>11, <2>1, <2>2 DEF Fed
<1>12. ASSUME NEW i \in 1 .. Len(ch2), Round(ch2[i]) > g + 1, NEW d \in parents[ch2[i]]
       PROVE  d \in dag \/ \E j \in 1 .. (i - 1) : d = ch2[j]
  <2>1. i + 1 \in 1 .. Len(ch) /\ (i + 1) - 1 = i /\ ch2[i] = ch[i + 1]
    BY <1>4
  <2>2. d \in s.dag \/ \E j \in 1 .. i : d = ch[j]
    BY <1>1, <1>12, <2>1 DEF Fed
  <2>3. Round(d) > g
    <3>1. ch2[i] \in DOMAIN parents
      BY <1>4, <1>5
    <3>2. QED
      BY <1>2, <1>12, <3>1, DagShape
  <2>4. CASE d \in s.dag
    BY Zenon, <1>6, <2>4
  <2>5. CASE \E j \in 1 .. i : d = ch[j]
    <3>1. PICK j \in 1 .. i : d = ch[j]
      BY Zenon, <2>5
    <3>2. CASE j = 1
      BY Zenon, <1>4, <1>6, <2>3, <3>1, <3>2
    <3>3. CASE j > 1
      <4>1. j - 1 \in 1 .. (i - 1) /\ (j - 1) + 1 = j /\ j - 1 \in 1 .. Len(ch2)
        BY <1>4, <3>3
      <4>2. QED
        BY ZenonT(60), <1>4, <3>1, <4>1
    <3>4. QED
      BY <3>2, <3>3
  <2>6. QED
    BY Zenon, <2>2, <2>4, <2>5
<1>13. Fed(st, ch2, t)
  BY ZenonT(60), <1>4, <1>5, <1>7, <1>8, <1>9, <1>11, <1>12 DEF Fed
<1>14. QED
  BY Zenon, <1>3, <1>13

\* Collecting what is at or below a later gc round leaves the rest fitting.
LEMMA CollectFeeds ==
    ASSUME IsDag(parents), NEW s, StateOK(s), NEW t, StateOK(t), NEW st, NEW ch, Fed(st, ch, s),
           CommittedRound(s) <= CommittedRound(t),
           t.dag = {c \in s.dag : Round(c) > GcRound(t)}
    PROVE  Fed(st, ch, t)
<1>1. PICK g, h : g = GcRound(s) /\ h = GcRound(t)
  BY Zenon
<1>2. g \in Nat /\ h \in Nat /\ g <= h
  BY <1>1, CommittedRoundIs, BullsharkAssumption DEF GcRound, gc_round
<1>3. st \subseteq DOMAIN parents /\ ch \in Seq(st) /\ s.dag \subseteq st /\ t.dag \subseteq st
  BY Zenon DEF Fed
<1>4. Closed(st, h) /\ Closed(t.dag, h)
  <2>1. Closed(st, g) /\ Closed(s.dag, g)
    BY Zenon, <1>1 DEF Fed
  <2>2. \A c \in DOMAIN parents : Round(c) \in Nat
    BY Zenon, DagShape
  <2>3. Closed(st, h)
    BY <1>2, <1>3, <2>1, <2>2 DEF Closed
  <2>4. ASSUME NEW c \in t.dag, Round(c) > h + 1, NEW d \in parents[c] PROVE d \in t.dag
    <3>1. c \in s.dag /\ c \in DOMAIN parents /\ Round(c) > g + 1
      BY <1>2, <1>3, <2>2, <2>4
    <3>2. d \in s.dag
      BY Zenon, <2>1, <2>4, <3>1 DEF Closed
    <3>3. Round(d) > h
      BY <1>2, <2>4, <3>1, DagShape
    <3>4. QED
      BY Zenon, <1>1, <3>2, <3>3
  <2>5. QED
    BY Zenon, <1>3, <2>3, <2>4 DEF Closed
<1>5. ASSUME NEW c \in st, Round(c) > h
      PROVE  c \in t.dag \/ \E j \in 1 .. Len(ch) : c = ch[j]
  <2>1. Round(c) > g
    BY <1>2, <1>3, <1>5, DagShape
  <2>2. QED
    BY Zenon, <1>1, <1>5, <2>1 DEF Fed
<1>6. ASSUME NEW i \in 1 .. Len(ch), Round(ch[i]) > h + 1, NEW d \in parents[ch[i]]
      PROVE  d \in t.dag \/ \E j \in 1 .. (i - 1) : d = ch[j]
  <2>1. ch[i] \in DOMAIN parents
    BY <1>3
  <2>2. Round(ch[i]) > g + 1 /\ Round(d) > h
    BY <1>2, <1>6, <2>1, DagShape
  <2>3. d \in s.dag \/ \E j \in 1 .. (i - 1) : d = ch[j]
    BY Zenon, <1>1, <1>6, <2>2 DEF Fed
  <2>4. QED
    BY Zenon, <1>1, <2>2, <2>3
<1>7. QED
  BY Zenon, <1>1, <1>3, <1>4, <1>5, <1>6 DEF Fed

\* What a restart reads from the store is closed.
LEMMA RestartFeeds ==
    ASSUME IsDag(parents), NEW s, StateOK(s), NEW st, NEW ch, Fed(st, ch, s),
           NEW t, t = With(s, {c \in st : Round(c) >= GcRound(s) + 1})
    PROVE  Fed(st, <<>>, t)
<1>1. PICK g : g = GcRound(s)
  BY Zenon
<1>2. g \in Nat
  BY <1>1, CommittedRoundIs, BullsharkAssumption DEF GcRound, gc_round
<1>3. st \subseteq DOMAIN parents /\ Closed(st, g)
  BY Zenon, <1>1 DEF Fed
<1>4. PICK dag : dag = {c \in st : Round(c) >= g + 1}
  BY Zenon
<1>5. t = With(s, dag) /\ t.dag = dag /\ dag \subseteq st
  BY Zenon, <1>1, <1>4 DEF With
<1>6. GcRound(t) = g
  BY Zenon, <1>1, <1>3, <1>5, WithOK
<1>7. Closed(dag, g)
  <2>1. ASSUME NEW c \in dag, Round(c) > g + 1, NEW d \in parents[c] PROVE d \in dag
    <3>1. c \in st /\ d \in st
      BY Zenon, <1>3, <1>4, <2>1 DEF Closed
    <3>2. Round(d) >= g + 1
      BY <1>2, <1>3, <2>1, <3>1, DagShape
    <3>3. QED
      BY Zenon, <1>4, <3>1, <3>2
  <2>2. QED
    BY Zenon, <1>3, <1>5, <2>1 DEF Closed
<1>8. \A c \in st : Round(c) > g => c \in dag
  BY <1>2, <1>3, <1>4, DagShape
<1>9. <<>> \in Seq(st) /\ 1 .. Len(<<>>) = {}
  OBVIOUS
<1>10. QED
  BY Zenon, <1>3, <1>5, <1>6, <1>7, <1>8, <1>9 DEF Fed

\* A state is a record.
LEMMA IsRecord ==
    ASSUME NEW s, StateOK(s)
    PROVE  /\ s = With(s, s.dag)
           /\ \A dag : [s EXCEPT !.dag = dag] = With(s, dag)
           /\ s.sub_dags \in Seq(SubDag) /\ Len(s.sub_dags) \in Nat
<1>1. s \in [dag : SUBSET DOMAIN parents, last_committed : [Authority -> Nat],
             sub_dags : Seq(SubDag), table : {s.table}]
  BY Zenon DEF StateOK
<1>2. QED
  BY <1>1 DEF With

\* The last sub-dag sent is all that Sent reads of the state.
LEMMA SameSent ==
    ASSUME NEW s, NEW cm, NEW t, NEW cm2, LastSent(s, cm) = LastSent(t, cm2),
           NEW out, NEW ex, Sent(s, cm, out, ex)
    PROVE  Sent(t, cm2, out, ex)
  BY Zenon DEF Sent

\* It holds when the validator starts for the first time,
LEMMA LocalInit == ASSUME IsDag(parents) PROVE LocalInv({}, <<>>, New, NoCommit, <<>>, <<>>)
<1>1. /\ New.sub_dags = <<>> /\ New.dag = {} /\ NoCommit.leaders = <<>>
      /\ <<>> \in Seq({}) /\ <<>> \in Seq(Nat) /\ Len(<<>>) = 0
  BY DEF New, NoCommit
<1>2. StateOK(New)
  BY Zenon, NewOK
<1>3. HasHistory(New)
  <2>1. PICK h : h = [i \in Nat |-> New]
    BY Zenon
  <2>2. h[0] = New /\ 1 .. 0 = {}
    BY <2>1
  <2>3. IsHistory(h, 0)
    BY Zenon, <2>2 DEF IsHistory
  <2>4. New = With(h[0], New.dag)
    BY Zenon, <1>2, <2>2, IsRecord
  <2>5. QED
    BY Zenon, <1>1, <2>3, <2>4 DEF HasHistory
<1>4. Fed({}, <<>>, New)
  BY <1>1 DEF Fed, Closed
<1>5. Committing(New, NoCommit)
  BY Zenon DEF Committing
<1>6. LastSent(New, NoCommit) = 0
  BY Zenon, <1>1 DEF LastSent
<1>7. Sent(New, NoCommit, <<>>, <<>>)
  BY <1>1, <1>6 DEF Sent, IndexRange
<1>8. QED
  BY Zenon, <1>2, <1>3, <1>4, <1>5, <1>7 DEF LocalInv

\* when the synchronizer accepts a certificate,
LEMMA LocalAccept ==
    ASSUME IsDag(parents), NEW st, NEW ch, NEW s, NEW cm, NEW out, NEW ex,
           LocalInv(st, ch, s, cm, out, ex), NEW c \in DOMAIN parents,
           parents[c] \subseteq st \/ Round(c) <= GcRound(s) + 1
    PROVE  LocalInv(st \cup {c}, Append(ch, c), s, cm, out, ex)
<1>1. Fed(st \cup {c}, Append(ch, c), s)
  BY Zenon, AcceptFeeds DEF LocalInv
<1>2. QED
  BY Zenon, <1>1 DEF LocalInv

\* when process_certificate inserts one and elects leaders,
LEMMA LocalProcess ==
    ASSUME IsDag(parents), NEW st, NEW ch, NEW s, NEW cm, NEW out, NEW ex,
           LocalInv(st, ch, s, cm, out, ex), cm.leaders = <<>>, ch # <<>>,
           NEW t, t = Insert(s, Head(ch)),
           NEW ls, ls = LeadersFor(t, Head(ch)),
           NEW cm2, cm2 = IF ls = <<>> THEN NoCommit
                          ELSE [round |-> Round(Head(ch)) - 1, leaders |-> ls,
                                first |-> Len(t.sub_dags) + 1]
    PROVE  LocalInv(st, Tail(ch), t, cm2, out, ex)
<1>1. StateOK(s) /\ HasHistory(s) /\ Fed(st, ch, s) /\ Committing(s, cm) /\ Sent(s, cm, out, ex)
  BY Zenon DEF LocalInv
<1>2. PICK c : c = Head(ch)
  BY Zenon
<1>3. c \in DOMAIN parents /\ s.dag \subseteq DOMAIN parents
  BY <1>1, <1>2 DEF Fed
<1>4. PICK dag : dag = IF Round(c) > GcRound(s) THEN s.dag \cup {c} ELSE s.dag
  BY Zenon
<1>5. dag \subseteq DOMAIN parents
  BY Zenon, <1>3, <1>4
<1>6. t = With(s, dag)
  BY ZenonT(60), <1>1, <1>2, <1>4, IsRecord DEF Insert
<1>7. StateOK(t) /\ CommittedRound(t) = CommittedRound(s)
  BY Zenon, <1>1, <1>5, <1>6, WithOK
<1>8. HasHistory(t)
  BY Zenon, <1>1, <1>6, HistoryWith
<1>9. Fed(st, Tail(ch), t)
  BY ZenonT(60), <1>1, <1>2, <1>4, <1>6, InsertFeeds
<1>10. t.sub_dags = s.sub_dags /\ Len(t.sub_dags) \in Nat
  BY <1>6, <1>7, IsRecord DEF With
<1>11. Committing(t, cm2)
  <2>1. CASE ls = <<>>
    BY Zenon, <2>1 DEF Committing
  <2>2. CASE ls # <<>>
    <3>1. PICK r : r = Round(c) - 1
      BY Zenon
    <3>2. r \in Int /\ CommittedRound(t) \in Nat
      BY SMTT(30), <1>3, <1>7, <3>1, DagShape, CommittedRoundIs
    <3>3. ls = elect(t, r) /\ ~(r % 2 # 0) /\ ~(r < 2) /\ ~(r <= CommittedRound(t))
      BY Zenon, <1>2, <2>2, <3>1 DEF LeadersFor
    <3>4. r \in Nat /\ r % 2 = 0 /\ r > CommittedRound(t)
      BY <3>2, <3>3
    <3>5. Closed(t.dag, GcRound(t))
      BY Zenon, <1>9 DEF Fed
    <3>6. PICK l : /\ Electable(t.table, CommittedRound(t), l) /\ Round(l) = r
                   /\ ls = WalkTo(t.table, CommittedRound(t), l)
      BY Zenon, <1>7, <2>2, <3>3, <3>4, <3>5, ElectSame
    <3>7. /\ cm2 = [round |-> Round(l), leaders |-> ls, first |-> cm2.first]
          /\ cm2.first = Len(t.sub_dags) + 1
      BY Zenon, <1>2, <2>2, <3>1, <3>6
    <3>8. cm2.first \in 1 .. Len(t.sub_dags) + 1
      BY <1>10, <3>7
    <3>9. QED
      BY Zenon, <3>6, <3>7, <3>8 DEF Committing
  <2>3. QED
    BY Zenon, <2>1, <2>2
<1>12. LastSent(s, cm) = LastSent(t, cm2)
  <2>1. LastSent(s, cm) = Len(t.sub_dags)
    BY Zenon, <1>10 DEF LastSent
  <2>2. CASE ls = <<>>
    BY Zenon, <2>1, <2>2 DEF LastSent, NoCommit
  <2>3. CASE ls # <<>>
    <3>1. cm2.leaders = ls /\ cm2.first = Len(t.sub_dags) + 1
      BY Zenon, <2>3
    <3>2. QED
      BY <1>10, <2>1, <2>3, <3>1 DEF LastSent
  <2>4. QED
    BY Zenon, <2>2, <2>3
<1>13. Sent(t, cm2, out, ex)
  BY <1>1, <1>12, SameSent
<1>14. QED
  BY Zenon, <1>7, <1>8, <1>9, <1>11, <1>13 DEF LocalInv

\* The indices from f to e.
LEMMA IndicesRange ==
    ASSUME NEW f \in Nat, NEW e \in Nat, f >= 1, f <= e + 1
    PROVE  IndexRange(Indices(f, e), f - 1, e)
<1>1. PICK q, m : q = Indices(f, e) /\ m = e - f + 1
  BY Zenon
<1>2. m \in Nat /\ \A i \in 1 .. m : f + i - 1 \in Nat
  BY <1>1
<1>3. q = [i \in 1 .. m |-> f + i - 1]
  BY Zenon, <1>1 DEF Indices
<1>4. q \in Seq(Nat) /\ Len(q) = m /\ \A i \in 1 .. m : q[i] = f + i - 1
  BY <1>2, <1>3
<1>5. (f - 1) + m = e /\ \A i \in 1 .. m : f + i - 1 = (f - 1) + i
  BY <1>1, <1>2
<1>6. IndexRange(q, f - 1, e)
  BY Zenon, <1>4, <1>5 DEF IndexRange
<1>7. QED
  BY Zenon, <1>1, <1>6

\* A range followed by the next one.
LEMMA RangesJoin ==
    ASSUME NEW b \in Nat, NEW m \in Nat, NEW e \in Nat, NEW p, IndexRange(p, b, m),
           NEW q, IndexRange(q, m, e)
    PROVE  IndexRange(p \o q, b, e)
<1>1. PICK j, k : j = Len(p) /\ k = Len(q)
  BY Zenon
<1>2. /\ p \in Seq(Nat) /\ j \in Nat /\ b + j = m /\ \A i \in 1 .. j : p[i] = b + i
      /\ q \in Seq(Nat) /\ k \in Nat /\ m + k = e /\ \A i \in 1 .. k : q[i] = m + i
  BY <1>1 DEF IndexRange
<1>3. PICK all : all = p \o q
  BY Zenon
<1>4. /\ all \in Seq(Nat) /\ Len(all) = j + k
      /\ \A i \in 1 .. j : all[i] = p[i]
      /\ \A i \in 1 .. k : all[j + i] = q[i]
  BY <1>1, <1>2, <1>3
<1>5. b + (j + k) = e
  BY <1>2
<1>6. ASSUME NEW i \in 1 .. (j + k) PROVE all[i] = b + i
  <2>1. CASE i <= j
    BY <1>2, <1>4, <2>1
  <2>2. CASE i > j
    <3>1. i - j \in 1 .. k /\ j + (i - j) = i
      BY <1>2, <2>2
    <3>2. all[i] = m + (i - j)
      BY Zenon, <1>2, <1>4, <3>1
    <3>3. m + (i - j) = b + i
      BY <1>2
    <3>4. QED
      BY Zenon, <3>2, <3>3
  <2>3. QED
    BY <1>2, <2>1, <2>2
<1>7. IndexRange(all, b, e)
  BY Zenon, <1>4, <1>5, <1>6 DEF IndexRange
<1>8. QED
  BY Zenon, <1>3, <1>7

\* when commit_leader commits one of the leaders, with the schedule changed or not,
LEMMA LocalCommit ==
    ASSUME IsDag(parents), NEW st, NEW ch, NEW s, NEW cm, NEW out, NEW ex,
           LocalInv(st, ch, s, cm, out, ex), cm.leaders # <<>>,
           NEW t, t = CommitLeader(s, Head(cm.leaders)),
           NEW ls, ls = Remaining(t, cm.round, cm.leaders),
           NEW cm2, cm2 = IF ls = <<>> THEN NoCommit ELSE [cm EXCEPT !.leaders = ls],
           NEW out2, out2 = IF ls = <<>> THEN out \o Indices(cm.first, Len(t.sub_dags)) ELSE out
    PROVE  LocalInv(st, ch, t, cm2, out2, ex)
<1>1. StateOK(s) /\ HasHistory(s) /\ Fed(st, ch, s) /\ Committing(s, cm) /\ Sent(s, cm, out, ex)
  BY Zenon DEF LocalInv
<1>2. cm # NoCommit
  BY DEF NoCommit
<1>3. PICK R : R = CommittedRound(s)
  BY Zenon
<1>4. R \in Nat /\ R % 2 = 0
  BY Zenon, <1>1, <1>3, CommittedRoundIs
<1>5. PICK l : /\ Electable(s.table, R, l)
               /\ cm = [round |-> Round(l), leaders |-> WalkTo(s.table, R, l), first |-> cm.first]
               /\ cm.first \in 1 .. Len(s.sub_dags) + 1
  BY Zenon, <1>1, <1>2, <1>3 DEF Committing
<1>6. PICK w : w = WalkTo(s.table, R, l)
  BY Zenon
<1>7. cm.leaders = w /\ cm.round = Round(l)
  BY <1>5, <1>6
<1>8. PICK k : k = Head(w)
  BY Zenon
<1>9. /\ w \in Seq(DOMAIN parents) /\ w # <<>> /\ k \in DOMAIN parents
      /\ Round(k) % 2 = 0 /\ Round(k) > R
      /\ Tail(w) # <<>> => Electable(s.table, Round(k), l) /\ Tail(w) = WalkTo(s.table, Round(k), l)
  BY ZenonT(60), <1>4, <1>5, <1>6, <1>8, WalkTail
<1>10. IsNext(s, k)
  BY Zenon, <1>3, <1>5, <1>6, <1>8 DEF IsNext
<1>11. t = CommitLeader(s, k)
  BY Zenon, <1>7, <1>8
<1>12. Extends(t, s, k)
  BY Zenon, <1>1, <1>10, <1>11, NextLeader
<1>13. HasHistory(t)
  BY Zenon, <1>1, <1>10, <1>11, HistoryStep
<1>14. /\ StateOK(t) /\ CommittedRound(t) = Round(k) /\ Len(t.sub_dags) = Len(s.sub_dags) + 1
       /\ t.dag = {c \in s.dag : Round(c) > GcRound(t)}
       /\ ~FinalOfSchedule(Len(t.sub_dags)) => t.table = s.table
  BY Zenon, <1>12 DEF Extends, GcRound
<1>15. Round(k) \in Nat /\ Round(l) \in Nat
  BY Zenon, <1>5, <1>9, DagShape DEF Electable
<1>16. Fed(st, ch, t)
  <2>1. CommittedRound(s) <= CommittedRound(t)
    BY <1>3, <1>4, <1>9, <1>14, <1>15
  <2>2. QED
    BY Zenon, <1>1, <1>14, <2>1, CollectFeeds
<1>17. Len(w) > 1 <=> Tail(w) # <<>>
  <2>1. PICK q : q = Tail(w)
    BY Zenon
  <2>2. q \in Seq(DOMAIN parents) /\ Len(q) = Len(w) - 1 /\ Len(w) \in Nat
    BY <1>9, <2>1
  <2>3. q # <<>> <=> Len(q) # 0
    <3>1. ASSUME NEW S, NEW p \in Seq(S) PROVE p # <<>> <=> Len(p) # 0
      OBVIOUS
    <3>2. QED
      BY ZenonT(60), <2>2, <3>1
  <2>4. Len(q) \in Nat
    BY <2>2
  <2>5. QED
    BY <2>1, <2>2, <2>3, <2>4
<1>18. Len(s.sub_dags) \in Nat
  BY Zenon, <1>1, IsRecord
<1>19. CASE ls # <<>>
  <2>1. PICK e : /\ Electable(t.table, CommittedRound(t), e) /\ Round(e) = Round(l)
                 /\ ls = WalkTo(t.table, CommittedRound(t), e)
    <3>1. CASE FinalOfSchedule(Len(t.sub_dags)) /\ Len(w) > 1
      <4>1. ls = elect(t, Round(l))
        BY Zenon, <1>7, <3>1 DEF Remaining
      <4>2. Round(l) % 2 = 0 /\ Round(l) > CommittedRound(t)
        BY Zenon, <1>9, <1>14, <1>17, <3>1 DEF Electable
      <4>3. Closed(t.dag, GcRound(t))
        BY Zenon, <1>16 DEF Fed
      <4>4. QED
        BY Zenon, <1>14, <1>15, <1>19, <4>1, <4>2, <4>3, ElectSame
    <3>2. CASE ~(FinalOfSchedule(Len(t.sub_dags)) /\ Len(w) > 1)
      <4>1. ls = Tail(w)
        BY Zenon, <1>7, <3>2 DEF Remaining
      <4>2. t.table = s.table
        BY ZenonT(60), <1>14, <1>17, <1>19, <3>2, <4>1
      <4>3. QED
        BY ZenonT(60), <1>9, <1>14, <1>19, <4>1, <4>2
    <3>3. QED
      BY Zenon, <3>1, <3>2
  <2>2. cm2 = [round |-> Round(l), leaders |-> ls, first |-> cm.first] /\ out2 = out
    BY <1>5, <1>19
  <2>3. cm2.first = cm.first /\ cm2.leaders = ls
    BY <2>2
  <2>4. cm2.first \in 1 .. Len(t.sub_dags) + 1
    BY <1>5, <1>14, <1>18, <2>3
  <2>5. Committing(t, cm2)
    BY Zenon, <2>1, <2>2, <2>3, <2>4 DEF Committing
  <2>6. LastSent(s, cm) = LastSent(t, cm2)
    BY Zenon, <1>19, <2>3 DEF LastSent
  <2>7. Sent(t, cm2, out2, ex)
    <3>1. Sent(t, cm2, out, ex)
      BY ZenonT(60), <1>1, <2>6, SameSent
    <3>2. QED
      BY ZenonT(60), <2>2, <3>1
  <2>8. QED
    BY Zenon, <1>13, <1>14, <1>16, <2>5, <2>7 DEF LocalInv
<1>20. CASE ls = <<>>
  <2>1. cm2 = NoCommit /\ cm2.leaders = <<>>
    BY Zenon, <1>20 DEF NoCommit
  <2>2. Committing(t, cm2)
    BY Zenon, <2>1 DEF Committing
  <2>3. PICK f, N : f = cm.first /\ N = Len(t.sub_dags)
    BY Zenon
  <2>4. f \in Nat /\ N \in Nat /\ f >= 1 /\ f <= N
    BY <1>5, <1>14, <1>18, <2>3
  <2>5. out2 = out \o Indices(f, N) /\ LastSent(t, cm2) = N /\ LastSent(s, cm) = f - 1
    BY Zenon, <1>20, <2>1, <2>3 DEF LastSent
  <2>6. IndexRange(ex, 0, Len(ex)) /\ Len(ex) <= f - 1
    BY Zenon, <1>1, <2>5 DEF Sent
  <2>7. Len(ex) <= N
    <3>1. Len(ex) \in Nat
      BY SMTT(30), <2>6 DEF IndexRange
    <3>2. QED
      BY <2>4, <2>6, <3>1
  <2>8. PICK b \in Nat : (b = Len(ex) \/ b = Len(ex) - 1) /\ IndexRange(out, b, f - 1)
    BY Zenon, <1>1, <2>5 DEF Sent
  <2>9. IndexRange(out2, b, N)
    <3>1. f - 1 \in Nat /\ f <= N + 1
      BY SMTT(30), <2>4
    <3>2. IndexRange(Indices(f, N), f - 1, N)
      BY Zenon, <2>4, <3>1, IndicesRange
    <3>3. IndexRange(out \o Indices(f, N), b, N)
      BY Zenon, <2>4, <2>8, <3>1, <3>2, RangesJoin
    <3>4. QED
      BY ZenonT(60), <2>5, <3>3
  <2>10. Sent(t, cm2, out2, ex)
    BY ZenonT(60), <2>5, <2>6, <2>7, <2>8, <2>9 DEF Sent
  <2>11. QED
    BY Zenon, <1>13, <1>14, <1>16, <2>2, <2>10 DEF LocalInv
<1>21. QED
  BY Zenon, <1>19, <1>20

\* The first index of a range.
LEMMA RangeTail ==
    ASSUME NEW b \in Nat, NEW e \in Nat, NEW out, IndexRange(out, b, e), out # <<>>
    PROVE  Head(out) = b + 1 /\ IndexRange(Tail(out), b + 1, e) /\ b + 1 <= e
<1>1. PICK n : n = Len(out)
  BY Zenon
<1>2. out \in Seq(Nat) /\ n \in Nat /\ b + n = e /\ \A i \in 1 .. n : out[i] = b + i
  BY <1>1 DEF IndexRange
<1>3. n # 0
  BY <1>1, <1>2
<1>4. PICK q : q = Tail(out)
  BY Zenon
<1>5. q \in Seq(Nat) /\ Len(q) = n - 1 /\ \A i \in 1 .. (n - 1) : q[i] = out[i + 1]
  BY <1>1, <1>2, <1>4
<1>6. \A i \in 1 .. (n - 1) : i + 1 \in 1 .. n /\ b + (i + 1) = (b + 1) + i
  BY <1>2
<1>7. (b + 1) + (n - 1) = e /\ b + 1 <= e /\ 1 \in 1 .. n
  BY <1>2, <1>3
<1>8. Head(out) = out[1]
  BY <1>1, <1>2, <1>3
<1>9. IndexRange(q, b + 1, e)
  BY Zenon, <1>2, <1>5, <1>6, <1>7 DEF IndexRange
<1>10. QED
  BY Zenon, <1>2, <1>4, <1>7, <1>8, <1>9

\* The round of a sub-dag's leader, as the handler reads it.
RoundIn(s, index) == IF index = 0 THEN 0 ELSE Round(s.sub_dags[index].leader)
\* The last sub-dag executed.
LastIn(ex) == IF ex = <<>> THEN 0 ELSE Last(ex)

\* The rounds of the leaders grow.
LEMMA RoundsGrow ==
    ASSUME IsDag(parents), NEW s, StateOK(s),
           NEW i \in 0 .. Len(s.sub_dags), NEW j \in 1 .. Len(s.sub_dags), i < j
    PROVE  RoundIn(s, i) # RoundIn(s, j)
<1>1. PICK q : q = s.sub_dags
  BY Zenon
<1>2. q \in Seq(SubDag) /\ Len(q) \in Nat
  BY <1>1 DEF StateOK
<1>3. \A k \in 1 .. Len(q) : q[k].leader \in DOMAIN parents
  <2>1. \A k \in 1 .. Len(q) : q[k] \in SubDag
    BY <1>2
  <2>2. \A x \in SubDag : x.leader \in DOMAIN parents
    BY Zenon DEF SubDag
  <2>3. QED
    BY Zenon, <2>1, <2>2
<1>4. \A k \in 1 .. Len(q) : Round(q[k].leader) \in Nat \ {0}
  BY Zenon, <1>3, DagShape
<1>5. CASE i = 0
  BY <1>1, <1>2, <1>4, <1>5 DEF RoundIn
<1>6. CASE i # 0
  <2>1. i \in 1 .. Len(q) /\ j \in 1 .. Len(q) /\ j # 0
    BY <1>1, <1>2, <1>6
  <2>2. Round(q[i].leader) < Round(q[j].leader)
    BY Zenon, <1>1, <2>1 DEF StateOK
  <2>3. QED
    BY <1>1, <1>4, <1>6, <2>1, <2>2 DEF RoundIn
<1>7. QED
  BY Zenon, <1>5, <1>6

\* What is sent is committed.
LEMMA SentIsCommitted ==
    ASSUME NEW s, StateOK(s), NEW cm, Committing(s, cm)
    PROVE  LastSent(s, cm) \in Nat /\ LastSent(s, cm) <= Len(s.sub_dags) /\ Len(s.sub_dags) \in Nat
<1>1. Len(s.sub_dags) \in Nat
  BY Zenon, IsRecord
<1>2. CASE cm.leaders = <<>>
  BY <1>1, <1>2 DEF LastSent
<1>3. CASE cm.leaders # <<>>
  <2>1. cm.first \in 1 .. Len(s.sub_dags) + 1
    BY <1>3 DEF Committing, NoCommit
  <2>2. QED
    BY <1>1, <1>3, <2>1 DEF LastSent
<1>4. QED
  BY Zenon, <1>2, <1>3

\* It has the index of its place.
LEMMA LastInIs ==
    ASSUME NEW ex, IndexRange(ex, 0, Len(ex))
    PROVE  LastIn(ex) = Len(ex) /\ Len(ex) \in Nat
<1>1. PICK n : n = Len(ex)
  BY Zenon
<1>2. ex \in Seq(Nat) /\ n \in Nat /\ \A i \in 1 .. n : ex[i] = 0 + i
  BY <1>1 DEF IndexRange
<1>3. CASE ex = <<>>
  BY Zenon, <1>1, <1>3 DEF LastIn
<1>4. CASE ex # <<>>
  <2>1. n # 0
    BY <1>1, <1>2, <1>4
  <2>2. ex[n] = n
    BY <1>2, <2>1
  <2>3. LastIn(ex) = ex[n]
    BY Zenon, <1>1, <1>4 DEF LastIn, Last
  <2>4. QED
    BY Zenon, <1>1, <1>2, <2>2, <2>3
<1>5. QED
  BY Zenon, <1>3, <1>4

\* when the handler takes a sub-dag,
LEMMA LocalHandle ==
    ASSUME IsDag(parents), NEW st, NEW ch, NEW s, NEW cm, NEW out, NEW ex,
           LocalInv(st, ch, s, cm, out, ex), out # <<>>,
           NEW ex2, ex2 = IF RoundIn(s, Head(out)) = RoundIn(s, LastIn(ex)) THEN ex
                          ELSE Append(ex, Head(out))
    PROVE  LocalInv(st, ch, s, cm, Tail(out), ex2)
<1>1. StateOK(s) /\ HasHistory(s) /\ Fed(st, ch, s) /\ Committing(s, cm) /\ Sent(s, cm, out, ex)
  BY Zenon DEF LocalInv
<1>2. PICK n, e : n = Len(ex) /\ e = LastSent(s, cm)
  BY Zenon
<1>3. e \in Nat /\ e <= Len(s.sub_dags) /\ Len(s.sub_dags) \in Nat
  BY Zenon, <1>1, <1>2, SentIsCommitted
<1>4. IndexRange(ex, 0, n) /\ n <= e
  BY Zenon, <1>1, <1>2 DEF Sent
<1>5. PICK b \in Nat : (b = n \/ b = n - 1) /\ IndexRange(out, b, e)
  BY Zenon, <1>1, <1>2 DEF Sent
<1>6. Head(out) = b + 1 /\ IndexRange(Tail(out), b + 1, e) /\ b + 1 <= e
  BY Zenon, <1>3, <1>5, RangeTail
<1>7. LastIn(ex) = n /\ n \in Nat
  BY Zenon, <1>2, <1>4, LastInIs
<1>8. CASE b = n
  <2>1. n \in 0 .. Len(s.sub_dags) /\ n + 1 \in 1 .. Len(s.sub_dags) /\ n < n + 1
    BY <1>3, <1>6, <1>7, <1>8
  <2>2. RoundIn(s, n) # RoundIn(s, n + 1)
    BY Zenon, <1>1, <2>1, RoundsGrow
  <2>3. ex2 = Append(ex, n + 1)
    BY Zenon, <1>6, <1>7, <1>8, <2>2
  <2>4. IndexRange(ex2, 0, n + 1) /\ Len(ex2) = n + 1
    <3>1. ex \in Seq(Nat) /\ \A i \in 1 .. n : ex[i] = 0 + i
      BY Zenon, <1>2, <1>4 DEF IndexRange
    <3>2. PICK x, y : x = ex2 /\ y = n + 1
      BY Zenon
    <3>3. y \in Nat /\ x = Append(ex, y)
      BY <1>7, <2>3, <3>2
    <3>4. x \in Seq(Nat) /\ Len(x) = y /\ \A i \in 1 .. n : x[i] = ex[i]
      BY <1>2, <3>1, <3>2, <3>3
    <3>5. x[y] = y
      BY <1>2, <1>7, <3>1, <3>2, <3>3
    <3>6. \A i \in 1 .. y : x[i] = 0 + i
      BY <1>7, <3>1, <3>2, <3>4, <3>5
    <3>7. IndexRange(x, 0, y)
      BY <3>3, <3>4, <3>6 DEF IndexRange
    <3>8. QED
      BY Zenon, <3>2, <3>4, <3>7
  <2>5. n + 1 <= e /\ n + 1 \in Nat
    BY <1>6, <1>7, <1>8
  <2>6. Sent(s, cm, Tail(out), ex2)
    BY Zenon, <1>2, <1>6, <1>8, <2>4, <2>5 DEF Sent
  <2>7. QED
    BY Zenon, <1>1, <2>6 DEF LocalInv
<1>9. CASE b = n - 1
  <2>1. b + 1 = n /\ Head(out) = n
    BY <1>5, <1>6, <1>7, <1>9
  <2>2. ex2 = ex
    BY Zenon, <1>7, <2>1
  <2>3. Sent(s, cm, Tail(out), ex2)
    BY Zenon, <1>2, <1>4, <1>6, <1>7, <2>1, <2>2 DEF Sent
  <2>4. QED
    BY Zenon, <1>1, <2>3 DEF LocalInv
<1>10. QED
  BY Zenon, <1>5, <1>8, <1>9

\* and when the process restarts from its stores.
LEMMA LocalRestart ==
    ASSUME IsDag(parents), NEW st, NEW ch, NEW s, NEW cm, NEW out, NEW ex,
           LocalInv(st, ch, s, cm, out, ex),
           NEW t, t = With(s, {c \in st : Round(c) >= GcRound(s) + 1}),
           NEW out2, out2 = Indices(Max({1, LastIn(ex)}), Len(s.sub_dags))
    PROVE  LocalInv(st, <<>>, t, NoCommit, out2, ex)
<1>1. StateOK(s) /\ HasHistory(s) /\ Fed(st, ch, s) /\ Committing(s, cm) /\ Sent(s, cm, out, ex)
  BY Zenon DEF LocalInv
<1>2. Fed(st, <<>>, t)
  BY Zenon, <1>1, RestartFeeds
<1>3. {c \in st : Round(c) >= GcRound(s) + 1} \subseteq DOMAIN parents
  BY Zenon, <1>1 DEF Fed
<1>4. StateOK(t) /\ HasHistory(t)
  BY Zenon, <1>1, <1>3, WithOK, HistoryWith
<1>5. t.sub_dags = s.sub_dags
  BY Zenon DEF With
<1>6. Committing(t, NoCommit)
  BY Zenon DEF Committing
<1>7. PICK n, N : n = Len(ex) /\ N = Len(s.sub_dags)
  BY Zenon
<1>8. LastSent(s, cm) \in Nat /\ LastSent(s, cm) <= N /\ N \in Nat
  BY Zenon, <1>1, <1>7, SentIsCommitted
<1>9. IndexRange(ex, 0, n) /\ n <= LastSent(s, cm)
  BY Zenon, <1>1, <1>7 DEF Sent
<1>10. LastIn(ex) = n /\ n \in Nat /\ n <= N
  BY <1>7, <1>8, <1>9, LastInIs
<1>11. PICK f : f = Max({1, n})
  BY Zenon
<1>12. f = IF n = 0 THEN 1 ELSE n
  <2>1. PICK T : T = {1, n}
    BY Zenon
  <2>2. T \subseteq Nat /\ T # {} /\ n + 1 \in Nat /\ \A x \in T : x <= n + 1
    BY <1>10, <2>1
  <2>3. Max(T) \in T /\ \A x \in T : x <= Max(T)
    BY ZenonT(60), <2>2, MaxOfBounded
  <2>4. f \in {1, n} /\ 1 <= f /\ n <= f
    BY Zenon, <1>11, <2>1, <2>3
  <2>5. QED
    BY <1>10, <2>4
<1>13. f \in Nat /\ f >= 1 /\ f <= N + 1 /\ f - 1 \in Nat /\ (f - 1 = n \/ f - 1 = n - 1)
  BY <1>8, <1>10, <1>12
<1>14. IndexRange(Indices(f, N), f - 1, N)
  BY Zenon, <1>8, <1>13, IndicesRange
<1>15. out2 = Indices(f, N)
  BY Zenon, <1>7, <1>10, <1>11
<1>16. LastSent(t, NoCommit) = N
  BY Zenon, <1>5, <1>7 DEF LastSent, NoCommit
<1>17. Sent(t, NoCommit, out2, ex)
  BY ZenonT(60), <1>7, <1>9, <1>10, <1>13, <1>14, <1>15, <1>16 DEF Sent
<1>18. QED
  BY Zenon, <1>2, <1>4, <1>6, <1>17 DEF LocalInv

-----------------------------------------------------------------------------
(* The invariant of all validators *)

\* What LocalInv says does not change while the DAG stays the same.
LEMMA SameDag ==
    ASSUME parents' = parents, NEW st, NEW ch, NEW s, NEW cm, NEW out, NEW ex
    PROVE  LocalInv(st, ch, s, cm, out, ex)' <=> LocalInv(st, ch, s, cm, out, ex)
<1>1. \A table, r, l : WalkTo(table, r, l)' = WalkTo(table, r, l)
  BY SMT DEF WalkTo, LinkedLeaders, linked, Reached
<1>2. \A table, r, l : Electable(table, r, l)' <=> Electable(table, r, l)
  BY Zenon DEF Electable, Voters, Supporters
<1>3. \A x, l : CommitLeader(x, l)' = CommitLeader(x, l)
  BY SMTT(30) DEF CommitLeader, order_dag, Search, Visit, resolve_reputation_score
<1>4. \A x, l : IsNext(x, l)' <=> IsNext(x, l)
  BY Zenon, <1>1, <1>2 DEF IsNext
<1>5. \A h, n : IsHistory(h, n)' <=> IsHistory(h, n)
  BY Zenon, <1>3, <1>4 DEF IsHistory, New
<1>6. HasHistory(s)' <=> HasHistory(s)
  BY <1>5, Zenon DEF HasHistory
<1>7. StateOK(s)' <=> StateOK(s)
  BY Zenon DEF StateOK, SubDag
<1>8. Fed(st, ch, s)' <=> Fed(st, ch, s)
  BY Zenon DEF Fed, Closed
<1>9. Committing(s, cm)' <=> Committing(s, cm)
  BY Zenon, <1>1, <1>2 DEF Committing
<1>10. QED
  BY Zenon, <1>6, <1>7, <1>8, <1>9 DEF LocalInv

\* The invariant of the validator v,
Inv(v) == LocalInv(stored[v], channel[v], state[v], commit[v], output[v], executed[v])

\* and the inductive invariant.
IInv ==
    /\ IsDag(parents)
    /\ DOMAIN stored = Validator /\ DOMAIN channel = Validator /\ DOMAIN state = Validator
    /\ DOMAIN commit = Validator /\ DOMAIN output = Validator /\ DOMAIN executed = Validator
    /\ \A v \in Validator : Inv(v)

\* A step of the validator v.
Step(v) ==
    \/ \E c \in DOMAIN parents : Accept(v, c)
    \/ ProcessCertificate(v) \/ Commit(v) \/ HandleOutput(v) \/ Restart(v)

\* The variables of the other validators do not change.
LEMMA Others ==
    ASSUME IInv, NEW v \in Validator, Step(v)
    PROVE  /\ parents' = parents
           /\ (DOMAIN stored = Validator /\ DOMAIN channel = Validator /\ DOMAIN state = Validator)'
           /\ (DOMAIN commit = Validator /\ DOMAIN output = Validator /\ DOMAIN executed = Validator)'
           /\ \A w \in Validator : w # v =>
                /\ stored'[w] = stored[w] /\ channel'[w] = channel[w] /\ state'[w] = state[w]
                /\ commit'[w] = commit[w] /\ output'[w] = output[w] /\ executed'[w] = executed[w]
<1>1. /\ DOMAIN stored = Validator /\ DOMAIN channel = Validator /\ DOMAIN state = Validator
      /\ DOMAIN commit = Validator /\ DOMAIN output = Validator /\ DOMAIN executed = Validator
  BY Zenon DEF IInv
<1>2. ASSUME NEW c \in DOMAIN parents, Accept(v, c)
      PROVE  /\ parents' = parents /\ state' = state /\ commit' = commit /\ output' = output
             /\ executed' = executed
             /\ stored' = [stored EXCEPT ![v] = @ \cup {c}]
             /\ channel' = [channel EXCEPT ![v] = Append(@, c)]
  BY Zenon, <1>2 DEF Accept
<1>3. CASE \E c \in DOMAIN parents : Accept(v, c)
  BY Zenon, <1>1, <1>2, <1>3
<1>4. CASE ProcessCertificate(v)
  BY Zenon, <1>1, <1>4 DEF ProcessCertificate
<1>5. CASE Commit(v)
  BY Zenon, <1>1, <1>5 DEF Commit
<1>6. CASE HandleOutput(v)
  BY Zenon, <1>1, <1>6 DEF HandleOutput
<1>7. CASE Restart(v)
  BY Zenon, <1>1, <1>7 DEF Restart
<1>8. QED
  BY ZenonT(60), <1>3, <1>4, <1>5, <1>6, <1>7 DEF Step

\* A restart replaces two fields of the state, the table by itself.
LEMMA RestartWith ==
    ASSUME NEW s, StateOK(s), NEW dag
    PROVE  [s EXCEPT !.dag = dag, !.table = s.table] = With(s, dag)
<1>1. PICK A, Q : s \in [dag : SUBSET DOMAIN parents, last_committed : A, sub_dags : Q,
                         table : {s.table}]
  BY Zenon DEF StateOK
<1>2. PICK u : u = [s EXCEPT !.dag = dag, !.table = s.table]
  BY Zenon
<1>3. u \in [dag : {dag}, last_committed : A, sub_dags : Q, table : {s.table}]
  BY Zenon, <1>1, <1>2
<1>4. u.last_committed = s.last_committed /\ u.sub_dags = s.sub_dags
  BY Zenon, <1>1, <1>2
<1>5. u = [dag |-> u.dag, last_committed |-> u.last_committed, sub_dags |-> u.sub_dags,
           table |-> u.table]
  BY Zenon, <1>3
<1>6. u.dag = dag /\ u.table = s.table
  BY Zenon, <1>3
<1> QED
  BY Zenon, <1>2, <1>4, <1>5, <1>6 DEF With

\* The step keeps the invariant of its validator.
LEMMA OwnStep ==
    ASSUME IInv, NEW v \in Validator, Step(v)
    PROVE  LocalInv(stored'[v], channel'[v], state'[v], commit'[v], output'[v], executed'[v])
<1>1. /\ DOMAIN stored = Validator /\ DOMAIN channel = Validator /\ DOMAIN state = Validator
      /\ DOMAIN commit = Validator /\ DOMAIN output = Validator /\ DOMAIN executed = Validator
  BY Zenon DEF IInv
<1>2. IsDag(parents)
  BY Zenon DEF IInv
<1>3. LocalInv(stored[v], channel[v], state[v], commit[v], output[v], executed[v])
  BY Zenon DEF IInv, Inv
<1>4. StateOK(state[v])
  BY Zenon, <1>3 DEF LocalInv
<1>5. ASSUME NEW c \in DOMAIN parents, Accept(v, c)
      PROVE  LocalInv(stored'[v], channel'[v], state'[v], commit'[v], output'[v], executed'[v])
  <2>1. /\ stored'[v] = stored[v] \cup {c} /\ channel'[v] = Append(channel[v], c)
        /\ state' = state /\ commit' = commit /\ output' = output /\ executed' = executed
    BY Zenon, <1>1, <1>5 DEF Accept
  <2>2. parents[c] \subseteq stored[v] \/ Round(c) <= GcRound(state[v]) + 1
    BY Zenon, <1>5 DEF Accept, Causal
  <2>3. LocalInv(stored[v] \cup {c}, Append(channel[v], c), state[v], commit[v], output[v], executed[v])
    BY Zenon, <1>2, <1>3, <2>2, LocalAccept
  <2>4. QED
    BY Zenon, <2>1, <2>3
<1>6. CASE ProcessCertificate(v)
  <2>1. commit[v].leaders = <<>> /\ channel[v] # <<>>
    BY Zenon, <1>6 DEF ProcessCertificate, Idle
  <2>2. PICK t : t = Insert(state[v], Head(channel[v]))
    BY Zenon
  <2>3. PICK ls : ls = LeadersFor(t, Head(channel[v]))
    BY Zenon
  <2>4. PICK cm2 : cm2 = IF ls = <<>> THEN NoCommit
                         ELSE [round |-> Round(Head(channel[v])) - 1, leaders |-> ls,
                               first |-> Len(t.sub_dags) + 1]
    BY Zenon
  <2>5. /\ state' = [state EXCEPT ![v] = t] /\ commit' = [commit EXCEPT ![v] = cm2]
        /\ channel' = [channel EXCEPT ![v] = Tail(@)]
        /\ stored' = stored /\ output' = output /\ executed' = executed
    BY <1>6, <2>2, <2>3, <2>4, ZenonT(60) DEF ProcessCertificate
  <2>6. LocalInv(stored[v], Tail(channel[v]), t, cm2, output[v], executed[v])
    BY SMTT(30), <1>2, <1>3, <2>1, <2>2, <2>3, <2>4, LocalProcess
  <2>7. QED
    BY Zenon, <1>1, <2>5, <2>6
<1>7. CASE Commit(v)
  <2>1. commit[v].leaders # <<>>
    BY Zenon, <1>7 DEF Commit, Idle
  <2>2. PICK t : t = CommitLeader(state[v], Head(commit[v].leaders))
    BY Zenon
  <2>3. PICK ls : ls = Remaining(t, commit[v].round, commit[v].leaders)
    BY Zenon
  <2>4. PICK cm2 : cm2 = IF ls = <<>> THEN NoCommit ELSE [commit[v] EXCEPT !.leaders = ls]
    BY Zenon
  <2>5. PICK out2 : out2 = IF ls = <<>> THEN output[v] \o Indices(commit[v].first, Len(t.sub_dags))
                           ELSE output[v]
    BY Zenon
  <2>6. /\ state' = [state EXCEPT ![v] = t]
        /\ IF ls = <<>>
           THEN /\ commit' = [commit EXCEPT ![v] = NoCommit]
                /\ output' = [output EXCEPT ![v] = @ \o Indices(commit[v].first, Len(t.sub_dags))]
           ELSE /\ commit' = [commit EXCEPT ![v].leaders = ls]
                /\ output' = output
        /\ stored' = stored /\ channel' = channel /\ executed' = executed
    BY <1>7, <2>2, <2>3, Zenon DEF Commit
  <2>7. state'[v] = t /\ commit'[v] = cm2 /\ output'[v] = out2
    BY ZenonT(60), <1>1, <2>4, <2>5, <2>6
  <2>8. LocalInv(stored[v], channel[v], t, cm2, out2, executed[v])
    BY ZenonT(60), <1>2, <1>3, <2>1, <2>2, <2>3, <2>4, <2>5, LocalCommit
  <2>9. QED
    BY Zenon, <2>6, <2>7, <2>8
<1>8. CASE HandleOutput(v)
  <2>1. output[v] # <<>>
    BY Zenon, <1>8 DEF HandleOutput
  <2>2. PICK ex2 : ex2 = IF RoundIn(state[v], Head(output[v])) = RoundIn(state[v], LastIn(executed[v]))
                         THEN executed[v] ELSE Append(executed[v], Head(output[v]))
    BY Zenon
  <2>3. Seen(v, Head(output[v])) <=>
            RoundIn(state[v], Head(output[v])) = RoundIn(state[v], LastIn(executed[v]))
    BY Zenon DEF Seen, RoundOf, RoundIn, LastExecuted, LastIn
  <2>4. /\ executed'[v] = ex2 /\ output'[v] = Tail(output[v])
        /\ stored' = stored /\ channel' = channel /\ state' = state /\ commit' = commit
    BY Zenon, <1>1, <1>8, <2>2, <2>3 DEF HandleOutput
  <2>5. LocalInv(stored[v], channel[v], state[v], commit[v], Tail(output[v]), ex2)
    BY ZenonT(60), <1>2, <1>3, <2>1, <2>2, LocalHandle
  <2>6. QED
    BY Zenon, <2>4, <2>5
<1>9. CASE Restart(v)
  <2>1. PICK t : t = With(state[v], {c \in stored[v] : Round(c) >= GcRound(state[v]) + 1})
    BY Zenon
  <2>2. PICK out2 : out2 = Indices(Max({1, LastIn(executed[v])}), Len(state[v].sub_dags))
    BY Zenon
  <2>3. state'[v] = t
    <3>1. PICK dag, table : /\ dag = {c \in stored[v] : Round(c) >= GcRound(state[v]) + 1}
                            /\ table = RestoredTable(state[v].sub_dags)
      BY Zenon
    <3>2. state' = [state EXCEPT ![v].dag = dag, ![v].table = table]
      BY Zenon, <1>9, <3>1 DEF Restart
    <3>3. state'[v] = [state[v] EXCEPT !.dag = dag, !.table = table]
      BY Zenon, <1>1, <3>2
    <3>4. table = state[v].table
      BY Zenon, <1>4, <3>1 DEF StateOK
    <3>5. PICK s : s = state[v]
      BY Zenon
    <3>6. StateOK(s)
      BY Zenon, <1>4, <3>5
    <3>7. [s EXCEPT !.dag = dag, !.table = s.table] = With(s, dag)
      BY Zenon, <3>6, RestartWith
    <3>8. QED
      BY Zenon, <2>1, <3>1, <3>3, <3>4, <3>5, <3>7
  <2>4. output'[v] = out2
    BY Zenon, <1>1, <1>9, <2>2 DEF Restart, Restored, LastExecuted, LastIn
  <2>5. /\ channel'[v] = <<>> /\ commit'[v] = NoCommit
        /\ stored' = stored /\ executed' = executed
    BY Zenon, <1>1, <1>9 DEF Restart
  <2>6. LocalInv(stored[v], <<>>, t, NoCommit, out2, executed[v])
    BY Zenon, <1>2, <1>3, <2>1, <2>2, LocalRestart
  <2>7. QED
    BY Zenon, <2>3, <2>4, <2>5, <2>6
<1>10. QED
  BY Zenon, <1>5, <1>6, <1>7, <1>8, <1>9 DEF Step

\* The invariant holds of every validator, whatever the DAG, the committee, the
\* order in which certificates arrive, the sizes of the channels and the crashes.
THEOREM BullsharkInvariance == Spec => []IInv
<1>1. Init => IInv
  <2> SUFFICES ASSUME Init PROVE IInv
    BY Zenon
  <2>1. IsDag(parents)
    BY Zenon, BullsharkAssumption DEF Init
  <2>2. ASSUME NEW v \in Validator PROVE Inv(v)
    BY Zenon, <2>1, LocalInit DEF Init, Inv
  <2>3. QED
    BY Zenon, <2>1, <2>2 DEF Init, IInv
<1>2. IInv /\ [Next]_vars => IInv'
  <2> SUFFICES ASSUME IInv, [Next]_vars PROVE IInv'
    BY Zenon
  <2>1. ASSUME NEW v \in Validator, Step(v) PROVE IInv'
    <3>1. parents' = parents
      BY Zenon, <2>1, Others
    <3>2. IsDag(parents)'
      BY Zenon, <3>1 DEF IInv
    <3>3. ASSUME NEW w \in Validator PROVE Inv(w)'
      <4>1. LocalInv(stored'[w], channel'[w], state'[w], commit'[w], output'[w], executed'[w])
        <5>1. CASE w = v
          BY Zenon, <2>1, <5>1, OwnStep
        <5>2. CASE w # v
          <6>1. /\ stored'[w] = stored[w] /\ channel'[w] = channel[w] /\ state'[w] = state[w]
                /\ commit'[w] = commit[w] /\ output'[w] = output[w] /\ executed'[w] = executed[w]
            BY Zenon, <2>1, <5>2, Others
          <6>2. LocalInv(stored[w], channel[w], state[w], commit[w], output[w], executed[w])
            BY Zenon DEF IInv, Inv
          <6>3. QED
            BY Zenon, <6>1, <6>2
        <5>3. QED
          BY Zenon, <5>1, <5>2
      <4>2. QED
        BY Zenon, <3>1, <4>1, SameDag DEF Inv
    <3>4. QED
      BY Zenon, <2>1, <3>2, <3>3, Others DEF IInv
  <2>2. CASE UNCHANGED vars
    <3>1. /\ parents' = parents /\ stored' = stored /\ channel' = channel /\ state' = state
          /\ commit' = commit /\ output' = output /\ executed' = executed
      BY Zenon, <2>2 DEF vars
    <3>2. ASSUME NEW w \in Validator PROVE Inv(w)'
      <4>1. LocalInv(stored[w], channel[w], state[w], commit[w], output[w], executed[w])
        BY Zenon DEF IInv, Inv
      <4>2. LocalInv(stored'[w], channel'[w], state'[w], commit'[w], output'[w], executed'[w])
        BY Zenon, <3>1, <4>1
      <4>3. QED
        BY Zenon, <3>1, <4>2, SameDag DEF Inv
    <3>3. QED
      BY Zenon, <3>1, <3>2 DEF IInv
  <2>3. Next => \E v \in Validator : Step(v)
    BY Zenon DEF Next, Step
  <2>4. QED
    BY Zenon, <2>1, <2>2, <2>3
<1>3. QED
  BY <1>1, <1>2, PTL DEF Spec

\* What the theorems below use of the invariant.
LEMMA InvState ==
    ASSUME IInv, NEW v \in Validator
    PROVE  /\ IsDag(parents) /\ StateOK(state[v]) /\ HasHistory(state[v])
           /\ Closed(state[v].dag, GcRound(state[v]))
           /\ IndexRange(executed[v], 0, Len(executed[v]))
  BY Zenon DEF IInv, Inv, LocalInv, Fed, Sent

\* Bullshark::process_certificate commits the same sub-dags in the same sequence at
\* every validator.  Its argument: the next leader to commit follows from the DAG and
\* the sub-dags committed before, and from nothing else.
THEOREM BullsharkAgreement == Spec => []Agreement
<1>1. IInv => Agreement
  <2> SUFFICES ASSUME IInv, NEW v \in Validator, NEW w \in Validator
               PROVE  \/ IsPrefix(state[v].sub_dags, state[w].sub_dags)
                      \/ IsPrefix(state[w].sub_dags, state[v].sub_dags)
    BY Zenon DEF Agreement
  <2>1. IsDag(parents) /\ StateOK(state[v]) /\ HasHistory(state[v])
    BY Zenon, InvState
  <2>2. StateOK(state[w]) /\ HasHistory(state[w])
    BY Zenon, InvState
  <2>3. Len(state[v].sub_dags) \in Nat /\ Len(state[w].sub_dags) \in Nat
    BY Zenon, <2>1, <2>2, IsRecord
  <2>4. CASE Len(state[v].sub_dags) <= Len(state[w].sub_dags)
    BY Zenon, <2>1, <2>2, <2>4, HistoriesAgree
  <2>5. CASE Len(state[w].sub_dags) <= Len(state[v].sub_dags)
    BY Zenon, <2>1, <2>2, <2>5, HistoriesAgree
  <2>6. QED
    BY <2>3, <2>4, <2>5
<1>2. QED
  BY <1>1, BullsharkInvariance, PTL

\* No certificate is sequenced twice by order_dag, in one sub-dag or in two, although
\* the dag is purged, and rebuilt from the store by a restart.
THEOREM BullsharkCommittedOnce == Spec => []CommittedOnce
<1>1. IInv => CommittedOnce
  <2> SUFFICES ASSUME IInv, NEW v \in Validator, NEW i \in 1 .. Len(state[v].sub_dags)
               PROVE  /\ IsInjective(state[v].sub_dags[i].certificates)
                      /\ \A j \in 1 .. Len(state[v].sub_dags) : i # j =>
                            Range(state[v].sub_dags[i].certificates)
                                \cap Range(state[v].sub_dags[j].certificates) = {}
    BY ZenonT(60) DEF CommittedOnce
  <2>1. StateOK(state[v])
    BY Zenon, InvState
  <2>2. Distinct(state[v].sub_dags[i].certificates)
    BY <2>1, Zenon DEF StateOK
  <2>3. IsInjective(state[v].sub_dags[i].certificates)
    <3>1. PICK q : q = state[v].sub_dags[i]
      BY Zenon
    <3>2. q \in SubDag
      <4>1. PICK dags : dags = state[v].sub_dags
        BY ZenonT(60)
      <4>2. dags \in Seq(SubDag)
        BY Zenon, <2>1, <4>1 DEF StateOK
      <4>3. i \in 1 .. Len(dags) /\ q = dags[i]
        BY Zenon, <3>1, <4>1
      <4> QED
        BY <4>2, <4>3
    <3>3. PICK certs : certs = q.certificates
      BY Zenon
    <3>4. certs \in Seq(DOMAIN parents)
      BY Zenon, <3>2, <3>3 DEF SubDag
    <3>5. Distinct(certs) /\ DOMAIN certs = 1 .. Len(certs)
      BY <2>2, <3>1, <3>3, <3>4
    <3>6. IsInjective(certs)
      BY Zenon, <3>5 DEF Distinct, IsInjective
    <3>7. QED
      BY Zenon, <3>1, <3>3, <3>6
  <2>4. QED
    BY <2>1, <2>3, Zenon DEF StateOK
<1>2. QED
  BY <1>1, BullsharkInvariance, PTL

\* Neither check_parents nor order_dag looks in vain for a parent above the gc round.
THEOREM BullsharkDagIsClosed == Spec => []DagIsClosed
<1>1. IInv => DagIsClosed
  BY Zenon, InvState DEF DagIsClosed, Closed
<1>2. QED
  BY <1>1, BullsharkInvariance, PTL

\* The handler executes every sub-dag once and in order, over restarts.
THEOREM BullsharkExecutedInOrder == Spec => []ExecutedInOrder
<1>1. IInv => ExecutedInOrder
  <2> SUFFICES ASSUME IInv, NEW v \in Validator, NEW i \in 1 .. Len(executed[v])
               PROVE  executed[v][i] = i
    BY Zenon DEF ExecutedInOrder
  <2>1. IndexRange(executed[v], 0, Len(executed[v]))
    BY Zenon, InvState
  <2>2. executed[v][i] = 0 + i /\ i \in Int
    BY <2>1 DEF IndexRange
  <2>3. QED
    BY <2>2
<1>2. QED
  BY <1>1, BullsharkInvariance, PTL
=============================================================================
