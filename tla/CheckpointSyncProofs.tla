----------------------- MODULE CheckpointSyncProofs --------------------------
(***************************************************************************)
(* Proofs about CheckpointSync, for any number of checkpoints, epochs of   *)
(* any length, any concurrency of downloads and executions, and any number *)
(* of crashes.  The certified checkpoints have no gap; all that is on its  *)
(* way to the synced watermark (in the aggregator, the mailbox, the event  *)
(* loop and the contents task) has the contents of everything below it;    *)
(* and until the lock of RocksDbStore remembers the synced watermark after *)
(* a restart, all that is on its way is above the watermark.               *)
(***************************************************************************)
EXTENDS CheckpointSync, FiniteSetTheorems, SequenceTheorems, NaturalsInduction,
        WellFoundedInduction, TLAPS

AggregatorTypes == [current : {None} \cup 1 .. MaxSeq, sending : Seq(1 .. MaxSeq)]

LoopTypes ==
    [stage : {"select", "compare", "write", "sync", "notify", "start", "trigger"},
     checkpoint : {None} \cup 1 .. MaxSeq]

SummaryTypes ==
    [stage : {"none", "begin", "fetch", "compare", "write", "finished"},
     current : {None} \cup 0 .. MaxSeq, target : {None} \cup 0 .. MaxSeq]

DownloadTypes == [current : Nat, cursor : Nat, tasks : Seq(Nat), notify : {None} \cup Nat]

ExecutorTypes == [next : Nat, pending : Seq(Nat), ended : BOOLEAN]

Types ==
    /\ network \in 0 .. MaxSeq
    /\ epoch \in Nat
    /\ built \subseteq 1 .. MaxSeq /\ contents \subseteq Nat
    /\ verified \in 0 .. MaxSeq /\ synced \in 0 .. MaxSeq /\ executed \in 0 .. MaxSeq
    /\ aggregator \in AggregatorTypes
    /\ mailbox \in Seq(1 .. MaxSeq)
    /\ loop \in LoopTypes
    /\ summaries \in SummaryTypes
    /\ target \in [num : 0 .. MaxSeq, changed : BOOLEAN]
    /\ downloads \in DownloadTypes
    /\ guard \in {None} \cup 0 .. MaxSeq
    /\ event \in BOOLEAN
    /\ executor \in ExecutorTypes

\* The table of certified checkpoints has no gap and covers what the tasks rely on.
CertifiedInv ==
    /\ \E k \in 0 .. MaxSeq : certified = 0 .. k
    /\ verified \in certified /\ synced \in certified /\ target.num \in certified
    /\ aggregator.current # None => aggregator.current - 1 \in certified

\* What was built here comes after what was executed here.
BuiltInv ==
    /\ \A n \in built : 0 .. n \subseteq contents
    /\ 0 .. executed \subseteq contents

\* The checkpoints of consensus on their way to the synced watermark were built here.
ConsensusInv ==
    /\ aggregator.current # None => aggregator.current \in built
    /\ \A i \in DOMAIN aggregator.sending : aggregator.sending[i] \in built \cap certified
    /\ \A i \in DOMAIN mailbox : mailbox[i] \in built \cap certified
    /\ loop.stage \in {"compare", "write", "sync", "notify"} => loop.checkpoint \in built \cap certified

\* sync_to_checkpoint continues from a certified checkpoint.
SummaryInv ==
    /\ summaries.stage = "begin" => summaries.target \in 0 .. network
    /\ summaries.stage \in {"fetch", "compare", "write"} =>
          /\ summaries.target \in 0 .. network
          /\ summaries.current \in certified
          /\ summaries.current <= summaries.target
    /\ summaries.stage = "fetch" => summaries.current < summaries.target

\* The downloads are the certified checkpoints before the current one, in order, and
\* the contents of all that comes before them are there.
DownloadInv(d) ==
    /\ d.current > Len(d.tasks)
    /\ d.current - 1 \in certified
    /\ d.cursor = 0 \/ d.cursor - 1 \in certified
    /\ Len(d.tasks) <= MaxDownloads
    /\ \A i \in 1 .. Len(d.tasks) : d.tasks[i] = d.current - Len(d.tasks) + i - 1
    /\ 0 .. d.current - Len(d.tasks) - 1 \subseteq contents
    /\ d.notify # None => d.tasks # <<>> /\ d.tasks[1] \in contents

\* The lock of RocksDbStore remembers the watermark, or all that may still update the
\* watermark is above it.
GuardInv ==
    /\ guard # None => guard = synced
    /\ guard = None =>
          /\ aggregator.current # None => aggregator.current > synced
          /\ \A i \in DOMAIN aggregator.sending : aggregator.sending[i] > synced
          /\ \A i \in DOMAIN mailbox : mailbox[i] > synced
          /\ loop.stage \in {"compare", "write", "sync"} => loop.checkpoint > synced
          /\ downloads.current - Len(downloads.tasks) > synced

\* The pending checkpoints of epoch e follow the executed one n, up to the synced one s.
InStep(next, pending, e, n, s) ==
    /\ \A i \in 1 .. Len(pending) : pending[i] = n + i /\ n + i <= s /\ EpochOf[n + i] = e
    /\ next = n + Len(pending) + 1
    /\ Len(pending) <= MaxExecutions

\* The executor x of a node in epoch e that has executed n, of the checkpoints up to s.
ExecutorInv(x, e, n, s) ==
    /\ InStep(x.next, x.pending, e, n, s)
    /\ x.ended => x.pending = <<>> /\ LastOfEpoch(n)
    /\ e = IF LastOfEpoch(n) /\ ~x.ended THEN EpochOf[n] + 1 ELSE EpochOf[n]

IInv ==
    /\ Types
    /\ CertifiedInv /\ BuiltInv /\ ConsensusInv /\ SummaryInv
    /\ 0 .. synced \subseteq contents
    /\ DownloadInv(downloads)
    /\ GuardInv
    /\ ExecutorInv(executor, epoch, executed, synced)

-----------------------------------------------------------------------------
(* The constants *)

\* Every non-empty set of numbers has a least element: induction, as a fact to cite.
LEMMA LeastNat ==
    ASSUME NEW T, T \subseteq Nat, T # {}
    PROVE  \E x \in T : \A y \in T : x <= y
<1> DEFINE Less == {ss \in Nat \X Nat : ss[1] < ss[2]}
<1>1. IsWellFoundedOn(Less, Nat)
  BY NatLessThanWellFounded, Zenon DEF OpToRel
<1> HIDE DEF Less
<1>2. PICK x \in T : \A y \in T : ~ (<<y, x>> \in Less)
  BY <1>1, WFMin, Zenon
<1>3. ASSUME NEW y \in T PROVE x <= y
  <2>1. <<y, x>> \notin Less
    BY Zenon, <1>2
  <2>2. QED
    BY <2>1 DEF Less
<1>4. QED
  BY Zenon, <1>3

\* The epoch of the checkpoints never goes back.
LEMMA EpochMonotone ==
    ASSUME NEW m \in 0 .. MaxSeq, NEW n \in 0 .. MaxSeq, m <= n
    PROVE  EpochOf[m] <= EpochOf[n]
<1> DEFINE T == {x \in m .. MaxSeq : EpochOf[x] < EpochOf[m]}
<1>1. SUFFICES ASSUME n \in T PROVE FALSE
  BY SyncAssumption
<1>2. T \subseteq Nat
  BY SyncAssumption
<1> HIDE DEF T
<1>3. PICK x \in T : \A y \in T : x <= y
  BY Zenon, <1>1, <1>2, LeastNat
<1>4. /\ x \in m .. MaxSeq /\ EpochOf[x] < EpochOf[m]
      /\ x - 1 \in m .. MaxSeq => EpochOf[x - 1] >= EpochOf[m]
  <2>1. x \in m .. MaxSeq /\ EpochOf[x] < EpochOf[m]
    BY Zenon, <1>3 DEF T
  <2>2. x - 1 \notin T
    BY <1>3, <2>1, SyncAssumption
  <2>3. QED
    BY <2>1, <2>2, SyncAssumption DEF T
<1>5. x # m
  BY <1>4, SyncAssumption
<1>6. x - 1 \in m .. MaxSeq /\ x \in 1 .. MaxSeq
  BY <1>4, <1>5, SyncAssumption
<1>7. EpochOf[x] - EpochOf[x - 1] \in {0, 1}
  BY Zenon, <1>6, SyncAssumption
<1>8. QED
  BY <1>4, <1>6, <1>7, SyncAssumption

\* The epoch of the checkpoint after n.
LEMMA NextEpoch ==
    ASSUME NEW n \in 0 .. MaxSeq
    PROVE  /\ LastOfEpoch(n) => n + 1 \in 0 .. MaxSeq /\ EpochOf[n + 1] = EpochOf[n] + 1
           /\ ~LastOfEpoch(n) /\ n < MaxSeq => EpochOf[n + 1] = EpochOf[n]
<1>1. n < MaxSeq => n + 1 \in 1 .. MaxSeq /\ (n + 1) - 1 = n
  BY SyncAssumption
<1>2. n < MaxSeq => EpochOf[n + 1] - EpochOf[n] \in {0, 1}
  BY Zenon, <1>1, SyncAssumption
<1>3. n < MaxSeq => EpochOf[n + 1] \in Nat
  BY <1>1, SyncAssumption
<1>4. QED
  BY <1>1, <1>2, <1>3, SyncAssumption DEF LastOfEpoch

-----------------------------------------------------------------------------
(* The executor *)

\* schedule_synced_checkpoints takes the checkpoints of the epoch in order: the synced
\* checkpoints of epochs up to e are the first ones from the next checkpoint on.
LEMMA OfEpochIsPrefix ==
    ASSUME NEW e \in Nat, NEW next \in Nat, NEW highest \in 0 .. MaxSeq
    PROVE  LET OfEpoch == {n \in next .. highest : EpochOf[n] <= e}
           IN  /\ Cardinality(OfEpoch) \in Nat
               /\ \A i \in 1 .. Cardinality(OfEpoch) : next + i - 1 \in OfEpoch
<1> DEFINE OfEpoch == {n \in next .. highest : EpochOf[n] <= e}
           T == {n \in Nat : n >= next /\ n \notin OfEpoch}
<1>1. T \subseteq Nat /\ T # {}
  <2>1. IF highest >= next THEN highest + 1 \in T ELSE next \in T
    BY SyncAssumption
  <2>2. QED
    BY Zenon, <2>1
<1>2. PICK x \in T : \A y \in T : x <= y
  BY Zenon, <1>1, LeastNat
<1>3. OfEpoch = next .. x - 1
  <2>1. ASSUME NEW n \in next .. x - 1 PROVE n \in OfEpoch
    BY <1>2
  <2>2. ASSUME NEW n \in OfEpoch PROVE n \in next .. x - 1
    <3>1. SUFFICES ASSUME n >= x PROVE FALSE
      BY <1>2, SyncAssumption
    <3>2. x \in next .. highest /\ x \in 0 .. MaxSeq /\ n \in 0 .. MaxSeq
      BY <1>2, <3>1, SyncAssumption
    <3>3. EpochOf[x] <= EpochOf[n]
      BY Zenon, <3>1, <3>2, EpochMonotone
    <3>4. EpochOf[x] <= e
      BY <3>2, <3>3, SyncAssumption
    <3>5. QED
      BY Zenon, <1>2, <3>2, <3>4
  <2>3. QED
    BY Zenon, <2>1, <2>2
<1>4. next \in Int /\ x - 1 \in Int /\ x >= next
  BY <1>2
<1> HIDE DEF OfEpoch
<1>5. Cardinality(OfEpoch) = x - next
  <2>1. Cardinality(next .. x - 1) = IF next > x - 1 THEN 0 ELSE (x - 1) - next + 1
    BY Zenon, <1>4, FS_Interval
  <2>2. QED
    BY <1>2, <1>3, <1>4, <2>1
<1>6. QED
  BY <1>2, <1>3, <1>4, <1>5 DEF OfEpoch

\* A run of consecutive numbers at the end of a sequence.
LEMMA ExtendByRun ==
    ASSUME NEW p \in Seq(Nat), NEW a \in Nat \ {0}, NEW k \in Nat,
           NEW q, q = p \o [i \in 1 .. k |-> a + i - 1]
    PROVE  /\ q \in Seq(Nat)
           /\ Len(q) = Len(p) + k
           /\ \A i \in 1 .. Len(p) : q[i] = p[i]
           /\ \A i \in Len(p) + 1 .. Len(p) + k : q[i] = a + (i - Len(p)) - 1
<1> DEFINE r == [i \in 1 .. k |-> a + i - 1]
<1>1. r \in [1 .. k -> Nat]
  OBVIOUS
<1>2. r \in Seq(Nat) /\ Len(r) = k
  BY <1>1
<1>3. \A i \in 1 .. k : r[i] = a + i - 1
  BY Zenon
<1> HIDE DEF r
<1>4. QED
  BY <1>2, <1>3 DEF r

\* Scheduled extends the pending checkpoints by synced ones of the epoch, in order.
LEMMA ScheduledInStep ==
    ASSUME NEW next \in Nat, NEW pending \in Seq(Nat), NEW e \in Nat,
           NEW n \in 0 .. MaxSeq, NEW s \in 0 .. MaxSeq,
           InStep(next, pending, e, n, s),
           e = IF LastOfEpoch(n) THEN EpochOf[n] + 1 ELSE EpochOf[n]
    PROVE  \E k \in Nat :
             LET q == pending \o [i \in 1 .. k |-> next + i - 1]
             IN  /\ Scheduled(e, next, pending, s) = [next |-> next + k, pending |-> q, ended |-> FALSE]
                 /\ q \in Seq(Nat)
                 /\ InStep(next + k, q, e, n, s)
<1> DEFINE OfEpoch == {m \in next .. s : EpochOf[m] <= e}
<1>1. PICK l \in Nat : l = Len(pending)
  OBVIOUS
<1>2. next = n + l + 1 /\ l <= MaxExecutions
  BY Zenon, <1>1 DEF InStep
<1>3. /\ Cardinality(OfEpoch) \in Nat
      /\ \A i \in 1 .. Cardinality(OfEpoch) : next + i - 1 \in OfEpoch
  BY Zenon, OfEpochIsPrefix
<1>4. ASSUME NEW m \in OfEpoch PROVE m <= s /\ EpochOf[m] = e
  <2>1. m \in 0 .. MaxSeq /\ m > n /\ n + 1 \in 0 .. MaxSeq
    BY <1>2, SyncAssumption
  <2>2. EpochOf[m] <= e
    BY Zenon
  <2>3. EpochOf[n] <= EpochOf[m] /\ EpochOf[n + 1] <= EpochOf[m]
    BY <2>1, EpochMonotone
  <2>4. LastOfEpoch(n) => EpochOf[n + 1] = EpochOf[n] + 1
    BY Zenon, NextEpoch
  <2>5. EpochOf[m] \in Nat /\ EpochOf[n] \in Nat
    BY Zenon, <2>1, SyncAssumption
  <2>6. QED
    BY <2>1, <2>2, <2>3, <2>4, <2>5
<1>5. PICK k \in Nat :
        /\ k <= Cardinality(OfEpoch) /\ k + l <= MaxExecutions
        /\ Scheduled(e, next, pending, s) =
             [next |-> next + k, pending |-> pending \o [i \in 1 .. k |-> next + i - 1], ended |-> FALSE]
  <2> HIDE DEF OfEpoch
  <2> DEFINE room == MaxExecutions - l
             k == IF Cardinality(OfEpoch) < room THEN Cardinality(OfEpoch) ELSE room
  <2>1. k \in Nat /\ k <= Cardinality(OfEpoch) /\ k + l <= MaxExecutions
    BY SMTT(30), <1>2, <1>3, SyncAssumption
  <2>2. Scheduled(e, next, pending, s) =
          [next |-> next + k, pending |-> pending \o [i \in 1 .. k |-> next + i - 1], ended |-> FALSE]
    BY <1>1, Zenon DEF Scheduled, OfEpoch
  <2> HIDE DEF k
  <2>3. QED
    BY Zenon, <2>1, <2>2
<1>6. PICK q : q = pending \o [i \in 1 .. k |-> next + i - 1]
  BY Zenon
<1>7. /\ q \in Seq(Nat) /\ Len(q) = l + k
      /\ \A i \in 1 .. l : q[i] = pending[i]
      /\ \A i \in l + 1 .. l + k : q[i] = next + (i - l) - 1
  <2>1. next \in Nat \ {0}
    BY <1>2
  <2>2. /\ q \in Seq(Nat) /\ Len(q) = Len(pending) + k
        /\ \A i \in 1 .. Len(pending) : q[i] = pending[i]
        /\ \A i \in Len(pending) + 1 .. Len(pending) + k : q[i] = next + (i - Len(pending)) - 1
    BY <1>6, <2>1, ExtendByRun
  <2>3. QED
    BY Zenon, <1>1, <2>2
<1>8. ASSUME NEW i \in 1 .. l + k
      PROVE  q[i] = n + i /\ n + i <= s /\ EpochOf[n + i] = e
  <2>1. CASE i <= l
    BY <1>1, <1>7, <2>1 DEF InStep
  <2>2. CASE i > l
    <3>1. i - l \in 1 .. Cardinality(OfEpoch) /\ i \in l + 1 .. l + k
      BY <1>3, <1>5, <2>2
    <3>2. next + (i - l) - 1 = n + i
      BY <1>2
    <3>3. n + i \in OfEpoch
      BY Zenon, <1>3, <3>1, <3>2
    <3>4. QED
      BY Zenon, <1>4, <1>7, <3>1, <3>2, <3>3
  <2>3. QED
    BY <2>1, <2>2
<1>9. InStep(next + k, q, e, n, s)
  <2>1. next + k = n + (l + k) + 1 /\ l + k <= MaxExecutions
    BY <1>2, <1>5, SyncAssumption
  <2>2. QED
    BY Zenon, <1>7, <1>8, <2>1 DEF InStep
<1>10. QED
  BY Zenon, <1>5, <1>6, <1>7, <1>9

\* An iteration of run_epoch keeps the executor in step, and ends after the last
\* checkpoint of the epoch only.
LEMMA IterateInStep ==
    ASSUME NEW next \in Nat, NEW pending \in Seq(Nat), NEW e \in Nat,
           NEW n \in 0 .. MaxSeq, NEW s \in 0 .. MaxSeq,
           InStep(next, pending, e, n, s),
           \/ e = EpochOf[n]
           \/ e = EpochOf[n] + 1 /\ LastOfEpoch(n)
    PROVE  /\ Iterate(e, n, next, pending, s) \in ExecutorTypes
           /\ ExecutorInv(Iterate(e, n, next, pending, s), e, n, s)
<1>1. EpochOf[n] \in Nat
  BY Zenon, SyncAssumption
<1>2. CASE EpochOf[n] = e /\ LastOfEpoch(n)
  <2>1. n + 1 \in 0 .. MaxSeq /\ EpochOf[n + 1] = e + 1
    BY Zenon, <1>2, NextEpoch
  <2>2. Len(pending) = 0
    BY <2>1 DEF InStep
  <2>3. pending = <<>>
    BY <2>2
  <2>4. Iterate(e, n, next, pending, s) = [next |-> next, pending |-> pending, ended |-> TRUE]
    BY Zenon, <1>2 DEF Iterate
  <2>5. PICK y : y = Iterate(e, n, next, pending, s)
    BY Zenon
  <2>6. y \in ExecutorTypes /\ y.next = next /\ y.pending = pending /\ y.ended
    BY <2>4, <2>5 DEF ExecutorTypes
  <2>7. QED
    BY Zenon, <1>2, <2>3, <2>5, <2>6 DEF ExecutorInv
<1>3. CASE ~(EpochOf[n] = e /\ LastOfEpoch(n))
  <2>1. e = IF LastOfEpoch(n) THEN EpochOf[n] + 1 ELSE EpochOf[n]
    BY Zenon, <1>3
  <2>2. PICK k \in Nat :
          LET q == pending \o [i \in 1 .. k |-> next + i - 1]
          IN  /\ Scheduled(e, next, pending, s) = [next |-> next + k, pending |-> q, ended |-> FALSE]
              /\ q \in Seq(Nat)
              /\ InStep(next + k, q, e, n, s)
    BY Zenon, <2>1, ScheduledInStep
  <2>3. PICK q : q = pending \o [i \in 1 .. k |-> next + i - 1]
    BY Zenon
  <2>4. Iterate(e, n, next, pending, s) = [next |-> next + k, pending |-> q, ended |-> FALSE]
    BY Zenon, <1>3, <2>2, <2>3 DEF Iterate
  <2>5. q \in Seq(Nat) /\ InStep(next + k, q, e, n, s)
    BY Zenon, <2>2, <2>3
  <2>6. PICK y : y = Iterate(e, n, next, pending, s)
    BY Zenon
  <2>7. y \in ExecutorTypes /\ y.next = next + k /\ y.pending = q /\ ~y.ended
    BY <2>4, <2>5, <2>6 DEF ExecutorTypes
  <2>8. QED
    BY Zenon, <2>1, <2>5, <2>6, <2>7 DEF ExecutorInv
<1>4. QED
  BY Zenon, <1>2, <1>3

-----------------------------------------------------------------------------
(* State sync and the checkpoint service *)

\* The start of new downloads keeps them in order, and within the certified checkpoints.
LEMMA StartDownloadsInOrder ==
    ASSUME CertifiedInv, NEW d \in DownloadTypes, DownloadInv(d)
    PROVE  /\ StartDownloads(d) \in DownloadTypes
           /\ DownloadInv(StartDownloads(d))
           /\ StartDownloads(d).current - Len(StartDownloads(d).tasks) = d.current - Len(d.tasks)
<1>1. PICK current \in Nat, cursor \in Nat, p \in Seq(Nat), notify \in {None} \cup Nat :
        d = [current |-> current, cursor |-> cursor, tasks |-> p, notify |-> notify]
  BY Zenon DEF DownloadTypes
<1>2. PICK l \in Nat : l = Len(p)
  BY <1>1
<1>3. /\ current > l /\ current - 1 \in certified
      /\ cursor = 0 \/ cursor - 1 \in certified
      /\ l <= MaxDownloads
      /\ \A i \in 1 .. l : p[i] = current - l + i - 1
      /\ 0 .. current - l - 1 \subseteq contents
      /\ notify # None => p # <<>> /\ p[1] \in contents
  BY Zenon, <1>1, <1>2 DEF DownloadInv
<1>4. PICK k \in Nat :
        /\ k + l <= MaxDownloads /\ (k > 0 => current + k <= cursor)
        /\ StartDownloads(d) = [d EXCEPT !.current = @ + k,
                                        !.tasks = @ \o [i \in 1 .. k |-> current + i - 1]]
  <2> DEFINE room == MaxDownloads - l
             left == IF current < cursor THEN cursor - current ELSE 0
             k == IF left < room THEN left ELSE room
  <2>1. k \in Nat /\ k + l <= MaxDownloads /\ (k > 0 => current + k <= cursor)
    BY <1>3, SyncAssumption
  <2>2. StartDownloads(d) = [d EXCEPT !.current = @ + k,
                                      !.tasks = @ \o [i \in 1 .. k |-> current + i - 1]]
    BY Zenon, <1>1, <1>2 DEF StartDownloads
  <2> HIDE DEF k
  <2>3. QED
    BY Zenon, <2>1, <2>2
<1>5. PICK q : q = p \o [i \in 1 .. k |-> current + i - 1]
  BY Zenon
<1>6. /\ q \in Seq(Nat) /\ Len(q) = l + k
      /\ \A i \in 1 .. l : q[i] = p[i]
      /\ \A i \in l + 1 .. l + k : q[i] = current + (i - l) - 1
  <2>1. current \in Nat \ {0}
    BY <1>3
  <2>2. QED
    BY <1>2, <1>5, <2>1, ExtendByRun
<1>7. \A i \in 1 .. l + k : q[i] = (current + k) - (l + k) + i - 1
  BY SMTT(30), <1>3, <1>6
<1>8. current + k - 1 \in certified
  <2>1. PICK c \in 0 .. MaxSeq : certified = 0 .. c
    BY Zenon DEF CertifiedInv
  <2>2. CASE k = 0
    BY <1>3, <2>2
  <2>3. CASE k > 0
    <3>1. current + k <= cursor /\ cursor - 1 \in 0 .. c
      BY <1>3, <1>4, <2>1, <2>3
    <3>2. QED
      BY <1>3, <2>1, <3>1, SyncAssumption
  <2>4. QED
    BY <2>2, <2>3
<1>9. notify # None => q # <<>> /\ q[1] \in contents
  <2>1. SUFFICES ASSUME notify # None PROVE q # <<>> /\ q[1] \in contents
    BY Zenon
  <2>2. 1 \in 1 .. l
    BY <1>2, <1>3, <2>1
  <2>3. QED
    BY <1>3, <1>6, <2>1, <2>2
<1>10. (current + k) - (l + k) = current - l /\ current + k > l + k
  BY <1>3
<1>11. PICK z : z = [d EXCEPT !.current = @ + k]
  BY Zenon
<1>12. z \in DownloadTypes /\ z.current = current + k /\ z.cursor = cursor /\ z.notify = notify /\ z.tasks = p
  BY <1>1, <1>11 DEF DownloadTypes
<1>13. PICK y : y = [z EXCEPT !.tasks = q]
  BY Zenon
<1>14. /\ y \in DownloadTypes
       /\ y.current = current + k /\ y.cursor = cursor /\ y.notify = notify /\ y.tasks = q
  BY Zenon, <1>6, <1>12, <1>13 DEF DownloadTypes
<1>15. StartDownloads(d) = y
  BY Zenon, <1>1, <1>4, <1>5, <1>11, <1>12, <1>13
<1>16. y.current - Len(y.tasks) = d.current - Len(d.tasks)
  BY Zenon, <1>1, <1>2, <1>6, <1>10, <1>14
<1>17. DownloadInv(y)
  <2>1. Len(y.tasks) = l + k /\ y.current - Len(y.tasks) = current - l
    BY Zenon, <1>6, <1>10, <1>14
  <2>2. \A i \in 1 .. Len(y.tasks) : y.tasks[i] = y.current - Len(y.tasks) + i - 1
    BY Zenon, <1>6, <1>7, <1>14, <2>1
  <2>3. 0 .. y.current - Len(y.tasks) - 1 \subseteq contents
    BY Zenon, <1>3, <2>1
  <2>4. y.current > Len(y.tasks) /\ Len(y.tasks) <= MaxDownloads
    BY <1>4, <1>10, <1>14, <2>1, SyncAssumption
  <2>5. QED
    BY <1>3, <1>8, <1>9, <1>14, <2>2, <2>3, <2>4 DEF DownloadInv
<1>18. QED
  BY Zenon, <1>14, <1>15, <1>16, <1>17

\* next_checkpoint_to_certify is the one after the certified ones.
LEMMA NextIsAfterCertified ==
    ASSUME NEW k \in 0 .. MaxSeq, certified = 0 .. k
    PROVE  NextToCertify = k + 1
<1> DEFINE P(n) == n \in certified /\ \A m \in certified : m <= n
<1>1. P(k) /\ \A n : P(n) => n = k
  BY SyncAssumption
<1> DEFINE c == CHOOSE n \in certified : \A m \in certified : m <= n
<1>2. c = k
  BY Zenon, <1>1
<1>3. NextToCertify = 1 + c
  BY Zenon DEF NextToCertify
<1> HIDE DEF c
<1>4. QED
  BY <1>2, <1>3

\* The certified checkpoints stay without a gap.
LEMMA CertifyNext ==
    ASSUME CertifiedInv, NEW m \in 1 .. MaxSeq, m - 1 \in certified, certified' = certified \cup {m}
    PROVE  \E c \in 0 .. MaxSeq : certified' = 0 .. c
<1>1. PICK c \in 0 .. MaxSeq : certified = 0 .. c
  BY Zenon DEF CertifiedInv
<1>2. CASE m <= c
  BY SMTT(30), <1>1, <1>2, SyncAssumption
<1>3. CASE m > c
  <2>1. m = c + 1
    BY <1>1, <1>3, SyncAssumption
  <2>2. certified' = 0 .. c + 1 /\ c + 1 \in 0 .. MaxSeq
    BY <1>1, <2>1, SyncAssumption
  <2>3. QED
    BY Zenon, <2>2
<1>4. m <= c \/ m > c
  BY SyncAssumption
<1>5. QED
  BY Zenon, <1>2, <1>3, <1>4

\* update_highest_synced_checkpoint: whatever the lock remembers, the watermark moves
\* forward and stays within what is certified and complete.
LEMMA UpdateAdvances ==
    ASSUME IInv, NEW m \in certified, 0 .. m \subseteq contents, guard = None => m > synced, UpdateSynced(m)
    PROVE  /\ synced' \in 0 .. MaxSeq /\ synced' \in certified /\ 0 .. synced' \subseteq contents
           /\ synced' >= synced
           /\ guard' \in 0 .. MaxSeq /\ guard' = synced'
<1>1. m \in 0 .. MaxSeq
  <2>1. PICK c \in 0 .. MaxSeq : certified = 0 .. c
    BY Zenon DEF IInv, CertifiedInv
  <2>2. QED
    BY <2>1, SyncAssumption
<1>2. /\ synced \in 0 .. MaxSeq /\ synced \in certified /\ 0 .. synced \subseteq contents
      /\ guard \in {None} \cup 0 .. MaxSeq /\ (guard # None => guard = synced)
  BY Zenon DEF IInv, Types, CertifiedInv, GuardInv
<1>3. CASE guard >= m
  BY <1>1, <1>2, <1>3 DEF UpdateSynced, None
<1>4. CASE ~(guard >= m)
  BY <1>1, <1>2, <1>4 DEF UpdateSynced, None
<1>5. QED
  BY Zenon, <1>3, <1>4

-----------------------------------------------------------------------------
(* The steps of the checkpoint service *)

LEMMA BuildStep ==
    ASSUME IInv, NEW n \in 1 .. MaxSeq, Build(n)
    PROVE  IInv'
<1>1. UNCHANGED <<network, epoch, certified, verified, synced, executed, aggregator, mailbox, loop,
                  summaries, target, downloads, guard, event, executor, faults>>
  BY Zenon DEF Build, tasks
<1>2. /\ EpochOf[n] = epoch /\ built' = built \cup {n} /\ contents' = contents \cup {n}
      /\ n > 1 /\ EpochOf[n - 1] = epoch => n - 1 \in built
  BY Zenon DEF Build
<1>3. 0 .. n - 1 \subseteq contents
  <2>1. 0 .. executed \subseteq contents /\ executed \in 0 .. MaxSeq /\ n - 1 \in 0 .. MaxSeq
    BY SyncAssumption DEF IInv, BuiltInv, Types
  <2>2. CASE n > 1 /\ EpochOf[n - 1] = epoch
    BY Zenon, <1>2, <2>2 DEF IInv, BuiltInv
  <2>3. CASE n = 1
    BY <2>1, <2>3
  <2>4. CASE EpochOf[n - 1] # epoch
    <3>1. n - 1 <= executed
      <4>1. SUFFICES ASSUME executed < n - 1 PROVE FALSE
        BY <2>1
      <4>2. EpochOf[executed] <= EpochOf[n - 1] /\ EpochOf[n - 1] <= EpochOf[n]
        BY <2>1, <4>1, EpochMonotone, SyncAssumption
      <4>3. executed + 1 \in 0 .. MaxSeq /\ executed + 1 <= n - 1
        BY <2>1, <4>1, SyncAssumption
      <4>4. EpochOf[executed + 1] <= EpochOf[n - 1]
        BY Zenon, <2>1, <4>3, EpochMonotone
      <4>5. /\ epoch = EpochOf[executed] \/ epoch = EpochOf[executed + 1]
            /\ EpochOf[n] \in Nat /\ EpochOf[n - 1] \in Nat
        <5>1. LastOfEpoch(executed) => EpochOf[executed + 1] = EpochOf[executed] + 1
          BY Zenon, <2>1, NextEpoch
        <5>2. QED
          BY <2>1, <5>1, SyncAssumption DEF IInv, ExecutorInv
      <4>6. QED
        BY <1>2, <2>4, <4>2, <4>4, <4>5
    <3>2. QED
      BY <2>1, <3>1
  <2>5. QED
    BY <2>2, <2>3, <2>4
<1>4. Types'
  BY <1>1, <1>2 DEF IInv, Types
<1>5. BuiltInv'
  BY <1>1, <1>2, <1>3 DEF IInv, BuiltInv
<1>6. CertifiedInv' /\ ConsensusInv' /\ SummaryInv' /\ (0 .. synced \subseteq contents)'
  BY Zenon, <1>1, <1>2 DEF IInv, CertifiedInv, ConsensusInv, SummaryInv
<1>7. DownloadInv(downloads)'
  BY Zenon, <1>1, <1>2 DEF IInv, DownloadInv
<1>8. GuardInv' /\ ExecutorInv(executor, epoch, executed, synced)'
  BY Zenon, <1>1 DEF IInv, GuardInv, ExecutorInv, InStep
<1>9. QED
  BY Zenon, <1>4, <1>5, <1>6, <1>7, <1>8 DEF IInv

LEMMA AggregateStep ==
    ASSUME IInv, Aggregate
    PROVE  IInv'
<1>1. UNCHANGED <<network, epoch, built, certified, contents, verified, synced, executed, mailbox, loop,
                  summaries, target, downloads, guard, event, executor, faults>>
  BY Zenon DEF Aggregate, disk, tasks
<1>2. PICK c \in 0 .. MaxSeq : certified = 0 .. c
  BY Zenon DEF IInv, CertifiedInv
<1>3. NextToCertify = c + 1 /\ c + 1 \in built
  BY Zenon, <1>2, NextIsAfterCertified DEF Aggregate
<1>4. c + 1 \in 1 .. MaxSeq /\ synced < c + 1 /\ c \in certified
  BY <1>2, <1>3, SyncAssumption DEF IInv, Types, CertifiedInv
<1>5. aggregator \in AggregatorTypes /\ aggregator' = [aggregator EXCEPT !.current = c + 1]
  BY Zenon, <1>3 DEF Aggregate, IInv, Types
<1>6. aggregator' \in AggregatorTypes /\ aggregator'.current = c + 1 /\ aggregator'.sending = aggregator.sending
  BY Zenon, <1>4, <1>5 DEF AggregatorTypes
<1>7. Types' /\ BuiltInv' /\ SummaryInv' /\ (0 .. synced \subseteq contents)'
  BY Zenon, <1>1, <1>6 DEF IInv, Types, BuiltInv, SummaryInv
<1>8. CertifiedInv' /\ ConsensusInv'
  BY <1>1, <1>3, <1>4, <1>6 DEF IInv, CertifiedInv, ConsensusInv
<1>9. GuardInv'
  BY Zenon, <1>1, <1>4, <1>6 DEF IInv, GuardInv
<1>10. DownloadInv(downloads)' /\ ExecutorInv(executor, epoch, executed, synced)'
  BY Zenon, <1>1 DEF IInv, DownloadInv, ExecutorInv, InStep
<1>11. QED
  BY Zenon, <1>7, <1>8, <1>9, <1>10 DEF IInv

LEMMA ResetCurrentStep ==
    ASSUME IInv, ResetCurrent
    PROVE  IInv'
<1>1. UNCHANGED <<network, epoch, built, certified, contents, verified, synced, executed, mailbox, loop,
                  summaries, target, downloads, guard, event, executor, faults>>
  BY Zenon DEF ResetCurrent, disk, tasks
<1>2. aggregator' \in AggregatorTypes /\ aggregator'.current = None /\ aggregator'.sending = aggregator.sending
  BY Zenon DEF ResetCurrent, IInv, Types, AggregatorTypes
<1>3. Types' /\ CertifiedInv' /\ BuiltInv' /\ ConsensusInv' /\ SummaryInv' /\ GuardInv'
      /\ (0 .. synced \subseteq contents)'
  BY Zenon, <1>1, <1>2 DEF IInv, Types, CertifiedInv, BuiltInv, ConsensusInv, SummaryInv, GuardInv
<1>4. DownloadInv(downloads)' /\ ExecutorInv(executor, epoch, executed, synced)'
  BY Zenon, <1>1 DEF IInv, DownloadInv, ExecutorInv, InStep
<1>5. QED
  BY Zenon, <1>3, <1>4 DEF IInv

LEMMA CertifyStep ==
    ASSUME IInv, Certify
    PROVE  IInv'
<1>1. UNCHANGED <<network, epoch, built, contents, verified, synced, executed, mailbox, loop,
                  summaries, target, downloads, guard, event, executor, faults>>
  BY Zenon DEF Certify, tasks
<1>2. PICK n \in 1 .. MaxSeq : aggregator.current = n /\ n # None
  BY Zenon DEF Certify, IInv, Types, AggregatorTypes
<1>3. PICK s \in Seq(1 .. MaxSeq) : aggregator.sending = s
  BY Zenon DEF IInv, Types, AggregatorTypes
<1>4. aggregator' = [current |-> None, sending |-> Append(s, n)] /\ certified' = certified \cup {n}
  BY Zenon, <1>2, <1>3 DEF Certify
<1>5. PICK t : t = Append(s, n)
  BY Zenon
<1>6. /\ t \in Seq(1 .. MaxSeq)
      /\ \A i \in DOMAIN t : t[i] = n \/ \E j \in DOMAIN s : t[i] = s[j]
  BY <1>5
<1>7. aggregator' \in AggregatorTypes /\ aggregator'.current = None /\ aggregator'.sending = t
  BY Zenon, <1>4, <1>5, <1>6 DEF AggregatorTypes
<1>8. n \in built /\ n - 1 \in certified /\ (guard = None => n > synced)
  BY Zenon, <1>2 DEF IInv, ConsensusInv, CertifiedInv, GuardInv
<1>9. \E c \in 0 .. MaxSeq : certified' = 0 .. c
  BY Zenon, <1>4, <1>8, CertifyNext DEF IInv
<1>10. Types' /\ BuiltInv' /\ SummaryInv' /\ (0 .. synced \subseteq contents)'
  BY Zenon, <1>1, <1>4, <1>7 DEF IInv, Types, BuiltInv, SummaryInv
<1>11. CertifiedInv'
  BY Zenon, <1>1, <1>4, <1>7, <1>9 DEF IInv, CertifiedInv
<1>12. ConsensusInv'
  BY SMTT(30), <1>1, <1>3, <1>4, <1>6, <1>7, <1>8 DEF IInv, ConsensusInv
<1>13. GuardInv'
  BY Zenon, <1>1, <1>3, <1>6, <1>7, <1>8 DEF IInv, GuardInv
<1>14. DownloadInv(downloads)' /\ ExecutorInv(executor, epoch, executed, synced)'
  BY Zenon, <1>1, <1>4 DEF IInv, DownloadInv, ExecutorInv, InStep
<1>15. QED
  BY Zenon, <1>10, <1>11, <1>12, <1>13, <1>14 DEF IInv

LEMMA SendCheckpointStep ==
    ASSUME IInv, SendCheckpoint
    PROVE  IInv'
<1>1. UNCHANGED <<network, epoch, built, certified, contents, verified, synced, executed, loop,
                  summaries, target, downloads, guard, event, executor, faults>>
  BY Zenon DEF SendCheckpoint, disk
<1>2. PICK s \in Seq(1 .. MaxSeq) : aggregator.sending = s /\ s # <<>>
  BY Zenon DEF SendCheckpoint, IInv, Types, AggregatorTypes
<1>3. /\ aggregator' \in AggregatorTypes /\ aggregator'.current = aggregator.current
      /\ aggregator'.sending = Tail(s)
  <2>1. PICK t \in Seq(1 .. MaxSeq) : t = Tail(s)
    BY Zenon, <1>2, HeadTailProperties
  <2>2. aggregator \in AggregatorTypes /\ aggregator' = [aggregator EXCEPT !.sending = t]
    BY Zenon, <1>2, <2>1 DEF SendCheckpoint, IInv, Types
  <2>3. QED
    BY Zenon, <2>1, <2>2 DEF AggregatorTypes
<1>4. /\ 1 \in DOMAIN s /\ Head(s) = s[1]
      /\ \A i \in DOMAIN Tail(s) : \E j \in DOMAIN s : Tail(s)[i] = s[j]
  BY <1>2
<1>5. PICK t : t = Append(mailbox, s[1])
  BY Zenon
<1>6. /\ mailbox \in Seq(1 .. MaxSeq) /\ t \in Seq(1 .. MaxSeq)
      /\ \A i \in DOMAIN t : t[i] = s[1] \/ \E j \in DOMAIN mailbox : t[i] = mailbox[j]
  <2>1. mailbox \in Seq(1 .. MaxSeq) /\ s[1] \in 1 .. MaxSeq
    BY Zenon, <1>2, <1>4, HeadTailProperties DEF IInv, Types
  <2>2. QED
    BY <1>5, <2>1
<1>7. mailbox' = t
  BY Zenon, <1>2, <1>4, <1>5 DEF SendCheckpoint
<1>8. Types' /\ CertifiedInv' /\ BuiltInv' /\ SummaryInv' /\ (0 .. synced \subseteq contents)'
  BY Zenon, <1>1, <1>3, <1>6, <1>7 DEF IInv, Types, CertifiedInv, BuiltInv, SummaryInv
<1>9. ConsensusInv'
  BY SMTT(30), <1>1, <1>2, <1>3, <1>4, <1>6, <1>7 DEF IInv, ConsensusInv
<1>10. GuardInv'
  BY SMTT(30), <1>1, <1>2, <1>3, <1>4, <1>6, <1>7 DEF IInv, GuardInv
<1>11. DownloadInv(downloads)' /\ ExecutorInv(executor, epoch, executed, synced)'
  BY Zenon, <1>1 DEF IInv, DownloadInv, ExecutorInv, InStep
<1>12. QED
  BY Zenon, <1>8, <1>9, <1>10, <1>11 DEF IInv

-----------------------------------------------------------------------------
(* The steps of the event loop *)

LEMMA ReceiveCheckpointStep ==
    ASSUME IInv, ReceiveCheckpoint
    PROVE  IInv'
<1>1. UNCHANGED <<network, epoch, built, certified, contents, verified, synced, executed, aggregator,
                  summaries, target, downloads, guard, event, executor, faults>>
  BY Zenon DEF ReceiveCheckpoint, disk
<1>2. mailbox \in Seq(1 .. MaxSeq) /\ mailbox # <<>> /\ mailbox' = Tail(mailbox)
  BY Zenon DEF ReceiveCheckpoint, IInv, Types
<1>3. /\ 1 \in DOMAIN mailbox /\ Head(mailbox) = mailbox[1] /\ mailbox[1] \in 1 .. MaxSeq
      /\ mailbox' \in Seq(1 .. MaxSeq)
      /\ \A i \in DOMAIN mailbox' : \E j \in DOMAIN mailbox : mailbox'[i] = mailbox[j]
  <2>1. /\ Head(mailbox) \in 1 .. MaxSeq /\ Tail(mailbox) \in Seq(1 .. MaxSeq)
        /\ Len(Tail(mailbox)) = Len(mailbox) - 1
        /\ \A i \in 1 .. Len(Tail(mailbox)) : Tail(mailbox)[i] = mailbox[i + 1]
    BY Zenon, <1>2, HeadTailProperties
  <2>2. QED
    BY <1>2, <2>1
<1>4. /\ loop' \in LoopTypes
      /\ \/ loop'.stage = "start"
         \/ loop'.stage = "compare" /\ loop'.checkpoint = mailbox[1]
  <2>1. loop' = At("start") \/ loop' = [stage |-> "compare", checkpoint |-> mailbox[1]]
    BY Zenon, <1>3 DEF ReceiveCheckpoint
  <2>2. QED
    BY <1>3, <2>1 DEF At, LoopTypes
<1>5. Types' /\ CertifiedInv' /\ BuiltInv' /\ SummaryInv' /\ (0 .. synced \subseteq contents)'
  BY Zenon, <1>1, <1>3, <1>4 DEF IInv, Types, CertifiedInv, BuiltInv, SummaryInv
<1>6. ConsensusInv'
  BY Zenon, <1>1, <1>3, <1>4 DEF IInv, ConsensusInv
<1>7. GuardInv'
  BY Zenon, <1>1, <1>3, <1>4 DEF IInv, GuardInv
<1>8. DownloadInv(downloads)' /\ ExecutorInv(executor, epoch, executed, synced)'
  BY Zenon, <1>1 DEF IInv, DownloadInv, ExecutorInv, InStep
<1>9. QED
  BY Zenon, <1>5, <1>6, <1>7, <1>8 DEF IInv

\* CompareVerified and WriteVerified go on with the checkpoint; WriteVerified writes it.
LEMMA VerifiedStep ==
    ASSUME IInv, CompareVerified \/ WriteVerified
    PROVE  IInv'
<1>1. UNCHANGED <<network, epoch, built, certified, contents, synced, executed, aggregator, mailbox,
                  summaries, target, downloads, guard, event, executor, faults>>
  BY Zenon DEF CompareVerified, WriteVerified, disk
<1>2. /\ loop \in LoopTypes /\ loop.stage \in {"compare", "write"}
      /\ \E st \in {"write", "sync"} : loop' = [loop EXCEPT !.stage = st]
      /\ verified' = verified \/ verified' = loop.checkpoint
  BY Zenon DEF CompareVerified, WriteVerified, disk, IInv, Types
<1>3. loop' \in LoopTypes /\ loop'.stage \in {"write", "sync"} /\ loop'.checkpoint = loop.checkpoint
  BY Zenon, <1>2 DEF LoopTypes
<1>4. loop.checkpoint \in built \cap certified /\ (guard = None => loop.checkpoint > synced)
  BY Zenon, <1>2 DEF IInv, ConsensusInv, GuardInv
<1>5. verified' \in certified /\ verified' \in 0 .. MaxSeq
  <2>1. PICK c \in 0 .. MaxSeq : certified = 0 .. c
    BY Zenon DEF IInv, CertifiedInv
  <2>2. verified' \in certified
    BY Zenon, <1>2, <1>4 DEF IInv, CertifiedInv
  <2>3. QED
    BY <2>1, <2>2, SyncAssumption
<1>6. Types' /\ CertifiedInv' /\ BuiltInv' /\ SummaryInv' /\ (0 .. synced \subseteq contents)'
  BY Zenon, <1>1, <1>3, <1>5 DEF IInv, Types, CertifiedInv, BuiltInv, SummaryInv
<1>7. ConsensusInv' /\ GuardInv'
  BY Zenon, <1>1, <1>3, <1>4 DEF IInv, ConsensusInv, GuardInv
<1>8. DownloadInv(downloads)' /\ ExecutorInv(executor, epoch, executed, synced)'
  BY Zenon, <1>1 DEF IInv, DownloadInv, ExecutorInv, InStep
<1>9. QED
  BY Zenon, <1>6, <1>7, <1>8 DEF IInv

LEMMA SyncFromConsensusStep ==
    ASSUME IInv, SyncFromConsensus
    PROVE  IInv' /\ synced' >= synced
<1>1. UNCHANGED <<network, epoch, built, certified, contents, verified, executed, aggregator, mailbox,
                  summaries, target, downloads, event, executor, faults>>
  BY Zenon DEF SyncFromConsensus
<1>2. /\ loop \in LoopTypes /\ loop.stage = "sync" /\ UpdateSynced(loop.checkpoint)
      /\ loop' = [loop EXCEPT !.stage = "notify"]
  BY Zenon DEF SyncFromConsensus, IInv, Types
<1>3. loop' \in LoopTypes /\ loop'.stage = "notify" /\ loop'.checkpoint = loop.checkpoint
  BY Zenon, <1>2 DEF LoopTypes
<1>4. loop.checkpoint \in built \cap certified /\ (guard = None => loop.checkpoint > synced)
  BY Zenon, <1>2 DEF IInv, ConsensusInv, GuardInv
<1>5. 0 .. loop.checkpoint \subseteq contents
  BY Zenon, <1>4 DEF IInv, BuiltInv
<1>6. /\ synced' \in 0 .. MaxSeq /\ synced' \in certified /\ 0 .. synced' \subseteq contents
      /\ synced' >= synced /\ guard' \in 0 .. MaxSeq /\ guard' = synced'
  BY Zenon, <1>2, <1>4, <1>5, UpdateAdvances
<1>7. Types' /\ CertifiedInv' /\ BuiltInv' /\ SummaryInv' /\ (0 .. synced \subseteq contents)'
  BY Zenon, <1>1, <1>3, <1>6 DEF IInv, Types, CertifiedInv, BuiltInv, SummaryInv
<1>8. ConsensusInv' /\ GuardInv'
  BY SMTT(30), <1>1, <1>3, <1>4, <1>6 DEF IInv, ConsensusInv, GuardInv, None
<1>9. DownloadInv(downloads)'
  BY Zenon, <1>1 DEF IInv, DownloadInv
<1>10. ExecutorInv(executor, epoch, executed, synced)'
  <2>1. executed \in 0 .. MaxSeq /\ synced \in 0 .. MaxSeq
    BY Zenon DEF IInv, Types
  <2>2. QED
    BY <1>1, <1>6, <2>1 DEF IInv, ExecutorInv, InStep
<1>11. QED
  BY Zenon, <1>6, <1>7, <1>8, <1>9, <1>10 DEF IInv

\* The other steps of the loop leave what is on disk alone.
LEMMA LoopStep ==
    ASSUME IInv, NotifyFromConsensus \/ Tick \/ JoinTask \/ MaybeStartSummaries \/ MaybeTriggerContents
    PROVE  IInv'
<1>1. UNCHANGED <<network, epoch, built, certified, contents, verified, synced, executed, aggregator,
                  mailbox, downloads, guard, executor, faults>>
  BY Zenon DEF NotifyFromConsensus, Tick, JoinTask, MaybeStartSummaries, MaybeTriggerContents, disk
<1>2. /\ loop' \in LoopTypes /\ loop'.stage \in {"start", "trigger", "select"}
      /\ event' \in BOOLEAN
  <2>1. event' = event \/ event' = TRUE
    BY Zenon DEF NotifyFromConsensus, Tick, JoinTask, MaybeStartSummaries, MaybeTriggerContents
  <2>2. \E st \in {"start", "trigger", "select"} : loop' = [stage |-> st, checkpoint |-> None]
    BY Zenon DEF NotifyFromConsensus, Tick, JoinTask, MaybeStartSummaries, MaybeTriggerContents, At
  <2>3. event' \in BOOLEAN
    BY <2>1, Zenon DEF IInv, Types
  <2>4. loop' \in LoopTypes /\ loop'.stage \in {"start", "trigger", "select"}
    BY <2>2 DEF LoopTypes
  <2>5. QED
    BY Zenon, <2>3, <2>4
<1>3. /\ target' \in [num : 0 .. MaxSeq, changed : BOOLEAN]
      /\ target'.num \in {target.num, verified}
  <2>1. target' = target \/ target' = [num |-> verified, changed |-> TRUE]
    BY Zenon DEF NotifyFromConsensus, Tick, JoinTask, MaybeStartSummaries, MaybeTriggerContents
  <2>2. verified \in 0 .. MaxSeq /\ target \in [num : 0 .. MaxSeq, changed : BOOLEAN]
    BY Zenon DEF IInv, Types
  <2>3. CASE target' = target
    BY <2>2, <2>3, Zenon
  <2>4. CASE target' = [num |-> verified, changed |-> TRUE]
    BY Zenon, <2>2, <2>4
  <2>5. QED
    BY Zenon, <2>1, <2>3, <2>4
<1>4. summaries' \in SummaryTypes /\ SummaryInv'
  <2>1. CASE summaries' = summaries
    BY Zenon, <1>1, <2>1 DEF IInv, Types, SummaryInv
  <2>2. CASE summaries' = [stage |-> "none", current |-> None, target |-> None]
    BY Zenon, <2>2 DEF SummaryTypes, SummaryInv
  <2>3. CASE summaries' = [stage |-> "begin", current |-> None, target |-> network]
    <3>1. network \in 0 .. MaxSeq
      BY Zenon DEF IInv, Types
    <3>2. QED
      BY <1>1, <2>3, <3>1 DEF SummaryTypes, SummaryInv
  <2>4. QED
    BY Zenon, <2>1, <2>2, <2>3
    DEF NotifyFromConsensus, Tick, JoinTask, MaybeStartSummaries, MaybeTriggerContents
<1>5. Types' /\ CertifiedInv' /\ BuiltInv' /\ (0 .. synced \subseteq contents)'
  BY Zenon, <1>1, <1>2, <1>3, <1>4 DEF IInv, Types, CertifiedInv, BuiltInv
<1>6. ConsensusInv' /\ GuardInv'
  BY Zenon, <1>1, <1>2 DEF IInv, ConsensusInv, GuardInv
<1>7. DownloadInv(downloads)' /\ ExecutorInv(executor, epoch, executed, synced)'
  BY Zenon, <1>1 DEF IInv, DownloadInv, ExecutorInv, InStep
<1>8. QED
  BY Zenon, <1>4, <1>5, <1>6, <1>7 DEF IInv

-----------------------------------------------------------------------------
(* The steps of sync_to_checkpoint *)

LEMMA SummariesStep ==
    ASSUME IInv, BeginSummaries \/ InsertSummary \/ CompareSummary \/ WriteSummary \/ FailSummary
    PROVE  IInv'
<1>1. UNCHANGED <<network, epoch, built, contents, synced, executed, aggregator, mailbox, loop,
                  target, downloads, guard, event, executor>>
  BY Zenon DEF BeginSummaries, InsertSummary, CompareSummary, WriteSummary, FailSummary, disk
<1>2. /\ summaries \in SummaryTypes /\ network \in 0 .. MaxSeq
      /\ verified \in 0 .. MaxSeq /\ verified \in certified
  BY Zenon DEF IInv, Types, CertifiedInv
<1>3. PICK st : summaries.stage = st
  BY Zenon
<1>4. PICK cu \in {None} \cup 0 .. MaxSeq : summaries.current = cu
  BY Zenon, <1>2 DEF SummaryTypes
<1>5. PICK ta \in {None} \cup 0 .. MaxSeq : summaries.target = ta
  BY Zenon, <1>2 DEF SummaryTypes
<1>6. /\ st = "begin" => ta \in 0 .. network
      /\ st \in {"fetch", "compare", "write"} => ta \in 0 .. network /\ cu \in certified /\ cu <= ta
      /\ st = "fetch" => cu < ta
  BY Zenon, <1>3, <1>4, <1>5 DEF IInv, SummaryInv
<1>7. /\ summaries' \in SummaryTypes /\ SummaryInv'
      /\ certified' = certified \/ (certified' = certified \cup {cu + 1} /\ cu \in certified /\ cu + 1 \in 1 .. MaxSeq)
      /\ verified' = verified \/ (verified' = cu /\ cu \in certified)
  <2>1. CASE BeginSummaries
    <3>1. verified' = verified /\ certified' = certified /\ st = "begin"
      BY Zenon, <1>3, <1>4, <1>5, <2>1 DEF BeginSummaries, disk
    <3>2. CASE verified >= ta
      <4>1. summaries' = [summaries EXCEPT !.stage = "finished"]
        BY Zenon, <1>3, <1>4, <1>5, <2>1, <3>2 DEF BeginSummaries, Finished
      <4>2. summaries' \in SummaryTypes /\ summaries'.stage = "finished"
        BY Zenon, <1>2, <4>1 DEF SummaryTypes
      <4>3. QED
        BY Zenon, <3>1, <4>2 DEF SummaryInv
    <3>3. CASE ~(verified >= ta)
      <4>1. summaries' = [summaries EXCEPT !.stage = "fetch", !.current = verified]
        BY Zenon, <1>3, <1>4, <1>5, <2>1, <3>3 DEF BeginSummaries
      <4>2. /\ summaries'.stage = "fetch" /\ summaries'.current = verified /\ summaries'.target = ta
            /\ summaries' \in SummaryTypes
        BY Zenon, <1>2, <1>3, <1>4, <1>5, <4>1 DEF SummaryTypes
      <4>3. QED
        BY <1>1, <1>2, <1>6, <3>1, <3>3, <4>2 DEF SummaryInv
    <3>4. QED
      BY Zenon, <3>2, <3>3
  <2>2. CASE InsertSummary
    <3>1. st = "fetch" /\ verified' = verified /\ certified' = certified \cup {cu + 1}
      BY Zenon, <1>3, <1>4, <1>5, <2>2 DEF InsertSummary
    <3>2. cu \in certified /\ cu + 1 \in 1 .. MaxSeq /\ cu + 1 <= ta /\ ta \in 0 .. network
      <4>1. cu \in certified /\ cu < ta /\ ta \in 0 .. network
        BY Zenon, <1>6, <3>1
      <4>2. cu \in Nat
        BY <4>1, SyncAssumption DEF IInv, CertifiedInv
      <4>3. QED
        BY <1>2, <4>1, <4>2, SyncAssumption
    <3>3. summaries' = [summaries EXCEPT !.stage = "compare", !.current = cu + 1]
      BY Zenon, <1>3, <1>4, <1>5, <2>2 DEF InsertSummary
    <3>4. /\ summaries'.stage = "compare" /\ summaries'.current = cu + 1 /\ summaries'.target = ta
          /\ summaries' \in SummaryTypes
      <4>1. PICK z : z = [summaries EXCEPT !.stage = "compare"]
        BY Zenon
      <4>2. z \in SummaryTypes /\ z.stage = "compare" /\ z.target = ta
        BY Zenon, <1>2, <1>3, <1>4, <1>5, <4>1 DEF SummaryTypes
      <4>3. summaries' = [z EXCEPT !.current = cu + 1] /\ cu + 1 \in 0 .. MaxSeq
        BY <3>2, <3>3, <4>1
      <4>4. QED
        BY Zenon, <4>2, <4>3 DEF SummaryTypes
    <3>5. QED
      BY Zenon, <1>1, <3>1, <3>2, <3>4 DEF SummaryInv
  <2>3. CASE CompareSummary \/ WriteSummary
    <3>1. /\ certified' = certified
          /\ verified' = verified \/ verified' = cu
          /\ st \in {"compare", "write"}
      BY Zenon, <1>3, <1>4, <1>5, <2>3 DEF CompareSummary, WriteSummary, disk
    <3>2. \/ summaries' = [summaries EXCEPT !.stage = "write"]
          \/ summaries' = [summaries EXCEPT !.stage = IF cu = ta THEN "finished" ELSE "fetch"]
      BY Zenon, <1>3, <1>4, <1>5, <2>3 DEF CompareSummary, WriteSummary, Continued
    <3>3. /\ summaries'.stage \in {"write", "finished"} \/ (summaries'.stage = "fetch" /\ cu # ta)
          /\ summaries'.current = cu /\ summaries'.target = ta
          /\ summaries' \in SummaryTypes
      BY Zenon, <1>2, <1>3, <1>4, <1>5, <3>2 DEF SummaryTypes
    <3>4. ta \in 0 .. network /\ cu \in certified /\ cu <= ta
      BY Zenon, <1>6, <3>1
    <3>5. SummaryInv'
      BY <1>1, <1>2, <3>1, <3>3, <3>4 DEF SummaryInv, None
    <3>6. QED
      BY Zenon, <3>1, <3>3, <3>4, <3>5
  <2>4. CASE FailSummary
    <3>1. summaries' = [summaries EXCEPT !.stage = "finished"] /\ verified' = verified /\ certified' = certified
      BY Zenon, <2>4 DEF FailSummary, Finished, disk
    <3>2. summaries' \in SummaryTypes /\ summaries'.stage = "finished"
      BY Zenon, <1>2, <3>1 DEF SummaryTypes
    <3>3. QED
      BY Zenon, <3>1, <3>2 DEF SummaryInv
  <2>5. QED
    BY Zenon, <2>1, <2>2, <2>3, <2>4
<1>8. certified \subseteq certified' /\ \E c \in 0 .. MaxSeq : certified' = 0 .. c
  <2>1. CASE certified' = certified
    BY Zenon, <2>1 DEF IInv, CertifiedInv
  <2>2. CASE certified' = certified \cup {cu + 1} /\ cu \in certified /\ cu + 1 \in 1 .. MaxSeq
    <3>1. (cu + 1) - 1 \in certified
      BY <2>2, <1>3, <1>4, <1>5, SyncAssumption DEF None
    <3>2. QED
      BY Zenon, <2>2, <3>1, CertifyNext DEF IInv
  <2>3. QED
    BY Zenon, <1>7, <2>1, <2>2
<1>9. verified' \in certified' /\ verified' \in 0 .. MaxSeq
  <2>1. PICK c \in 0 .. MaxSeq : certified' = 0 .. c
    BY Zenon, <1>8
  <2>2. verified' \in certified'
    BY Zenon, <1>2, <1>7, <1>8
  <2>3. QED
    BY <2>1, <2>2, SyncAssumption
<1>10. Types' /\ CertifiedInv' /\ BuiltInv' /\ (0 .. synced \subseteq contents)'
  BY Zenon, <1>1, <1>7, <1>8, <1>9 DEF IInv, Types, CertifiedInv, BuiltInv
<1>11. ConsensusInv' /\ GuardInv'
  BY Zenon, <1>1, <1>8 DEF IInv, ConsensusInv, GuardInv
<1>12. DownloadInv(downloads)' /\ ExecutorInv(executor, epoch, executed, synced)'
  BY Zenon, <1>1, <1>8 DEF IInv, DownloadInv, ExecutorInv, InStep
<1>13. QED
  BY Zenon, <1>7, <1>10, <1>11, <1>12 DEF IInv

-----------------------------------------------------------------------------
(* The steps of sync_checkpoint_contents *)

\* What the steps that change the downloads only leave alone.
LEMMA DownloadsOnly ==
    ASSUME IInv,
           UNCHANGED <<network, epoch, built, certified, contents, verified, synced, executed, aggregator,
                       mailbox, loop, summaries, guard, executor>>,
           target' \in [num : 0 .. MaxSeq, changed : BOOLEAN], target'.num = target.num, event' \in BOOLEAN,
           downloads' \in DownloadTypes, DownloadInv(downloads)',
           downloads'.current - Len(downloads'.tasks) >= downloads.current - Len(downloads.tasks)
    PROVE  IInv'
<1>1. Types' /\ CertifiedInv' /\ BuiltInv' /\ SummaryInv' /\ (0 .. synced \subseteq contents)'
  BY Zenon DEF IInv, Types, CertifiedInv, BuiltInv, SummaryInv
<1>2. ConsensusInv' /\ ExecutorInv(executor, epoch, executed, synced)'
  BY Zenon DEF IInv, ConsensusInv, ExecutorInv, InStep
<1>3. GuardInv'
  <2>1. /\ downloads.current \in Nat /\ Len(downloads.tasks) \in Nat
        /\ downloads'.current \in Nat /\ Len(downloads'.tasks) \in Nat /\ synced \in Nat
    BY SMTT(30) DEF IInv, Types, DownloadTypes
  <2>2. guard = None /\ downloads.current - Len(downloads.tasks) > synced =>
           downloads'.current - Len(downloads'.tasks) > synced
    BY <2>1
  <2>3. QED
    BY Zenon, <2>2 DEF IInv, GuardInv
<1>4. QED
  BY Zenon, <1>1, <1>2, <1>3 DEF IInv

LEMMA ReceiveTargetStep ==
    ASSUME IInv, ReceiveTarget
    PROVE  IInv'
<1>1. UNCHANGED <<network, epoch, built, certified, contents, verified, synced, executed, aggregator,
                  mailbox, loop, summaries, guard, event, executor>>
  BY Zenon DEF ReceiveTarget, disk
<1>2. /\ target \in [num : 0 .. MaxSeq, changed : BOOLEAN] /\ target' = [target EXCEPT !.changed = FALSE]
      /\ event \in BOOLEAN
  BY Zenon DEF ReceiveTarget, IInv, Types
<1>3. target' \in [num : 0 .. MaxSeq, changed : BOOLEAN] /\ target'.num = target.num /\ event' \in BOOLEAN
  BY Zenon, <1>1, <1>2
<1>4. PICK d : d = [downloads EXCEPT !.cursor = target.num + 1]
  BY Zenon
<1>5. /\ downloads \in DownloadTypes
      /\ d \in DownloadTypes /\ d.cursor = target.num + 1 /\ d.current = downloads.current
      /\ d.tasks = downloads.tasks /\ d.notify = downloads.notify
  <2>1. downloads \in DownloadTypes /\ target.num + 1 \in Nat
    BY <1>2 DEF IInv, Types
  <2>2. QED
    BY Zenon, <1>4, <2>1 DEF DownloadTypes
<1>6. DownloadInv(d)
  <2>1. d.cursor - 1 \in certified
    BY <1>2, <1>5 DEF IInv, CertifiedInv
  <2>2. QED
    BY Zenon, <1>5, <2>1 DEF IInv, DownloadInv
<1>7. downloads' = StartDownloads(d)
  BY Zenon, <1>4 DEF ReceiveTarget
<1>8. /\ downloads' \in DownloadTypes /\ DownloadInv(StartDownloads(d))
      /\ downloads'.current - Len(downloads'.tasks) = d.current - Len(d.tasks)
  BY Zenon, <1>5, <1>6, <1>7, StartDownloadsInOrder DEF IInv
<1>9. DownloadInv(downloads)'
  BY Zenon, <1>1, <1>7, <1>8 DEF DownloadInv
<1>10. downloads'.current - Len(downloads'.tasks) >= downloads.current - Len(downloads.tasks)
  <2>1. downloads.current \in Nat /\ Len(downloads.tasks) \in Nat
    BY <1>5 DEF DownloadTypes
  <2>2. QED
    BY <1>5, <1>8, <2>1
<1>11. QED
  BY Zenon, <1>1, <1>3, <1>8, <1>9, <1>10, DownloadsOnly

LEMMA DownloadStep ==
    ASSUME IInv, NEW n \in 1 .. MaxSeq, Download(n)
    PROVE  IInv'
<1>1. UNCHANGED <<network, epoch, built, certified, verified, synced, executed, aggregator, mailbox, loop,
                  summaries, target, downloads, guard, event, executor, faults>>
  BY Zenon DEF Download, tasks
<1>2. contents' = contents \cup {n}
  BY Zenon DEF Download
<1>3. Types' /\ CertifiedInv' /\ BuiltInv' /\ SummaryInv' /\ (0 .. synced \subseteq contents)'
  BY SMTT(30), <1>1, <1>2 DEF IInv, Types, CertifiedInv, BuiltInv, SummaryInv
<1>4. ConsensusInv' /\ GuardInv' /\ ExecutorInv(executor, epoch, executed, synced)'
  BY Zenon, <1>1 DEF IInv, ConsensusInv, GuardInv, ExecutorInv, InStep
<1>5. DownloadInv(downloads)'
  BY Zenon, <1>1, <1>2 DEF IInv, DownloadInv
<1>6. QED
  BY Zenon, <1>3, <1>4, <1>5 DEF IInv

LEMMA SyncContentsStep ==
    ASSUME IInv, SyncContents
    PROVE  IInv' /\ synced' >= synced
<1>1. UNCHANGED <<network, epoch, built, certified, contents, verified, executed, aggregator, mailbox,
                  loop, summaries, target, event, executor, faults>>
  BY Zenon DEF SyncContents
<1>2. /\ downloads \in DownloadTypes /\ DownloadInv(downloads)
      /\ downloads.tasks \in Seq(Nat) /\ downloads.tasks # <<>> /\ downloads.current \in Nat
  BY Zenon DEF SyncContents, IInv, Types, DownloadTypes
<1>3. PICK l \in Nat : l = Len(downloads.tasks) /\ l >= 1
  BY <1>2
<1>4. PICK n \in Nat : n = Head(downloads.tasks) /\ n = downloads.tasks[1]
  BY <1>2, HeadTailProperties
<1>5. n = downloads.current - l /\ n \in contents /\ downloads.current - 1 \in certified
  <2>1. \A i \in 1 .. l : downloads.tasks[i] = downloads.current - l + i - 1
    BY Zenon, <1>2, <1>3 DEF DownloadInv
  <2>2. n = downloads.current - l + 1 - 1
    BY <1>3, <1>4, <2>1
  <2>3. QED
    BY <1>2, <1>3, <1>4, <2>2 DEF SyncContents, DownloadInv
<1>6. n \in certified /\ 0 .. n \subseteq contents
  <2>1. PICK c \in 0 .. MaxSeq : certified = 0 .. c
    BY Zenon DEF IInv, CertifiedInv
  <2>2. 0 .. n - 1 \subseteq contents
    BY Zenon, <1>2, <1>3, <1>5 DEF DownloadInv
  <2>3. n \in 0 .. c
    BY SMTT(30), <1>2, <1>3, <1>5, <2>1, SyncAssumption
  <2>4. ASSUME NEW x \in 0 .. n PROVE x \in 0 .. n - 1 \/ x = n
    OBVIOUS
  <2>5. QED
    BY Zenon, <1>5, <2>1, <2>2, <2>3, <2>4
<1>7. guard = None => n > synced
  BY Zenon, <1>3, <1>5 DEF IInv, GuardInv
<1>8. /\ synced' \in 0 .. MaxSeq /\ synced' \in certified /\ 0 .. synced' \subseteq contents
      /\ synced' >= synced /\ guard' \in 0 .. MaxSeq /\ guard' = synced'
  <2>1. UpdateSynced(n)
    BY Zenon, <1>4 DEF SyncContents
  <2>2. QED
    BY Zenon, <1>6, <1>7, <2>1, UpdateAdvances
<1>9. /\ downloads' \in DownloadTypes /\ downloads'.notify = n /\ downloads'.tasks = downloads.tasks
      /\ downloads'.current = downloads.current /\ downloads'.cursor = downloads.cursor
  BY Zenon, <1>2, <1>4 DEF SyncContents, DownloadTypes
<1>10. Types' /\ CertifiedInv' /\ BuiltInv' /\ SummaryInv' /\ (0 .. synced \subseteq contents)'
  <2>1. Types'
    BY Zenon, <1>1, <1>8, <1>9 DEF IInv, Types
  <2>2. BuiltInv' /\ SummaryInv'
    BY Zenon, <1>1 DEF IInv, BuiltInv, SummaryInv
  <2>3. CertifiedInv'
    BY Zenon, <1>1, <1>8 DEF IInv, CertifiedInv
  <2>4. QED
    BY Zenon, <1>1, <1>8, <2>1, <2>2, <2>3
<1>11. ConsensusInv' /\ GuardInv'
  BY SMTT(30), <1>1, <1>8 DEF IInv, ConsensusInv, GuardInv, None
<1>12. DownloadInv(downloads)'
  <2>1. downloads.tasks # <<>> /\ downloads.tasks[1] \in contents
    BY Zenon, <1>2, <1>4, <1>5
  <2>2. DownloadInv(downloads')
    <3>1. PICK d : d = downloads'
      BY Zenon
    <3>2. d.tasks = downloads.tasks /\ d.current = downloads.current /\ d.cursor = downloads.cursor
      BY Zenon, <1>9, <3>1
    <3>3. DownloadInv(d)
      BY Zenon, <1>2, <2>1, <3>2 DEF DownloadInv
    <3>4. QED
      BY Zenon, <3>1, <3>3
  <2>3. QED
    BY Zenon, <1>1, <2>2 DEF DownloadInv
<1>13. ExecutorInv(executor, epoch, executed, synced)'
  <2>1. executed \in 0 .. MaxSeq /\ synced \in 0 .. MaxSeq
    BY Zenon DEF IInv, Types
  <2>2. QED
    BY <1>1, <1>8, <2>1 DEF IInv, ExecutorInv, InStep
<1>14. QED
  BY Zenon, <1>8, <1>10, <1>11, <1>12, <1>13 DEF IInv

LEMMA NotifyContentsStep ==
    ASSUME IInv, NotifyContents
    PROVE  IInv'
<1>1. UNCHANGED <<network, epoch, built, certified, contents, verified, synced, executed, aggregator,
                  mailbox, loop, summaries, target, guard, executor>>
  BY Zenon DEF NotifyContents, disk
<1>2. /\ downloads \in DownloadTypes /\ DownloadInv(downloads) /\ downloads.notify # None
      /\ target \in [num : 0 .. MaxSeq, changed : BOOLEAN]
  BY Zenon DEF NotifyContents, IInv, Types
<1>3. PICK p \in Seq(Nat), c \in Nat : p = downloads.tasks /\ c = downloads.current
  BY Zenon, <1>2 DEF DownloadTypes
<1>4. PICK l \in Nat : l = Len(p) /\ l >= 1 /\ p # <<>>
  <2>1. p # <<>>
    BY Zenon, <1>2, <1>3 DEF DownloadInv
  <2>2. QED
    BY <2>1
<1>5. PICK q \in Seq(Nat) : q = Tail(p) /\ Len(q) = l - 1 /\ \A i \in 1 .. l - 1 : q[i] = p[i + 1]
  <2>1. /\ Tail(p) \in Seq(Nat) /\ Len(Tail(p)) = l - 1
        /\ \A i \in 1 .. Len(Tail(p)) : Tail(p)[i] = p[i + 1]
    BY Zenon, <1>4, HeadTailProperties
  <2>2. QED
    BY Zenon, <2>1
<1>6. PICK z : z = [downloads EXCEPT !.notify = None]
  BY Zenon
<1>7. z \in DownloadTypes /\ z.notify = None /\ z.tasks = p /\ z.current = c /\ z.cursor = downloads.cursor
  BY Zenon, <1>2, <1>3, <1>6 DEF DownloadTypes
<1>8. PICK d : d = [z EXCEPT !.tasks = q]
  BY Zenon
<1>9. d \in DownloadTypes /\ d.notify = None /\ d.tasks = q /\ d.current = c /\ d.cursor = downloads.cursor
  BY Zenon, <1>7, <1>8 DEF DownloadTypes
<1>10. DownloadInv(d)
  <2>1. /\ c > l /\ c - 1 \in certified /\ l <= MaxDownloads
        /\ downloads.cursor = 0 \/ downloads.cursor - 1 \in certified
        /\ \A i \in 1 .. l : p[i] = c - l + i - 1
        /\ 0 .. c - l - 1 \subseteq contents
        /\ p[1] \in contents
    BY Zenon, <1>2, <1>3, <1>4 DEF DownloadInv
  <2>2. p[1] = c - l
    <3>1. 1 \in 1 .. l /\ c - l + 1 - 1 = c - l
      BY <1>4
    <3>2. QED
      BY Zenon, <2>1, <3>1
  <2>3. 0 .. c - (l - 1) - 1 \subseteq contents
    <3>1. ASSUME NEW x \in 0 .. c - (l - 1) - 1 PROVE x \in 0 .. c - l - 1 \/ x = c - l
      OBVIOUS
    <3>2. QED
      BY Zenon, <2>1, <2>2, <3>1
  <2>4. ASSUME NEW i \in 1 .. l - 1 PROVE q[i] = c - (l - 1) + i - 1
    <3>1. q[i] = p[i + 1] /\ i + 1 \in 1 .. l
      BY <1>4, <1>5
    <3>2. p[i + 1] = c - l + (i + 1) - 1
      BY Zenon, <2>1, <3>1
    <3>3. QED
      BY <3>1, <3>2
  <2>5. c > l - 1 /\ l - 1 <= MaxDownloads
    BY SMTT(30), <1>3, <1>4, <2>1, SyncAssumption
  <2>6. QED
    BY ZenonT(60), <1>5, <1>9, <2>1, <2>3, <2>4, <2>5 DEF DownloadInv
<1>11. downloads' = StartDownloads(d) /\ event' = TRUE
  BY Zenon, <1>3, <1>5, <1>6, <1>8 DEF NotifyContents
<1>12. /\ downloads' \in DownloadTypes /\ DownloadInv(StartDownloads(d))
       /\ downloads'.current - Len(downloads'.tasks) = d.current - Len(d.tasks)
  BY Zenon, <1>9, <1>10, <1>11, StartDownloadsInOrder DEF IInv
<1>13. DownloadInv(downloads)'
  BY Zenon, <1>1, <1>11, <1>12 DEF DownloadInv
<1>14. downloads'.current - Len(downloads'.tasks) >= downloads.current - Len(downloads.tasks)
  BY <1>3, <1>4, <1>5, <1>9, <1>12
<1>15. event' \in BOOLEAN /\ target' \in [num : 0 .. MaxSeq, changed : BOOLEAN] /\ target'.num = target.num
  BY <1>1, <1>2, <1>11, Zenon
<1>16. QED
  BY Zenon, <1>1, <1>12, <1>13, <1>14, <1>15, DownloadsOnly

-----------------------------------------------------------------------------
(* The steps of the executor, and the rest *)

\* RunEpoch starts in step, in the epoch of the executed checkpoint or the next one.
LEMMA RunEpochInStep ==
    ASSUME NEW e \in Nat, executed \in 0 .. MaxSeq, synced \in 0 .. MaxSeq,
           \/ e = EpochOf[executed]
           \/ e = EpochOf[executed] + 1 /\ LastOfEpoch(executed)
    PROVE  RunEpoch(e) \in ExecutorTypes /\ ExecutorInv(RunEpoch(e), e, executed, synced)
<1>1. InStep(executed + 1, <<>>, e, executed, synced) /\ executed + 1 \in Nat /\ <<>> \in Seq(Nat)
  BY SMTT(30), SyncAssumption DEF InStep
<1>2. QED
  BY Zenon, <1>1, IterateInStep DEF RunEpoch

\* What the steps of the executor leave alone.
LEMMA ExecutorOnly ==
    ASSUME IInv,
           UNCHANGED <<network, built, certified, contents, verified, synced, mailbox, loop, summaries,
                       target, downloads, guard>>,
           aggregator' \in AggregatorTypes, aggregator'.sending = aggregator.sending,
           aggregator'.current = aggregator.current \/ aggregator'.current = None,
           event' \in BOOLEAN, epoch' \in Nat, executed' \in 0 .. MaxSeq, 0 .. executed' \subseteq contents,
           executor' \in ExecutorTypes, ExecutorInv(executor', epoch', executed', synced)
    PROVE  IInv'
<1>1. Types' /\ CertifiedInv' /\ BuiltInv' /\ SummaryInv' /\ (0 .. synced \subseteq contents)'
  <2>1. Types'
    BY Zenon DEF IInv, Types
  <2>2. CertifiedInv' /\ BuiltInv' /\ SummaryInv'
    BY Zenon DEF IInv, CertifiedInv, BuiltInv, SummaryInv
  <2>3. QED
    BY Zenon, <2>1, <2>2 DEF IInv
<1>2. ConsensusInv' /\ GuardInv'
  <2>1. GuardInv'
    BY Zenon DEF IInv, GuardInv
  <2>2. ConsensusInv'
    BY Zenon DEF IInv, ConsensusInv
  <2>3. QED
    BY Zenon, <2>1, <2>2
<1>3. DownloadInv(downloads)' /\ ExecutorInv(executor, epoch, executed, synced)'
  BY Zenon DEF IInv, DownloadInv, ExecutorInv, InStep
<1>4. QED
  BY Zenon, <1>1, <1>2, <1>3 DEF IInv

\* The variables of the executor, without the records.
LEMMA ExecutorFields ==
    ASSUME IInv
    PROVE  /\ executor.next \in Nat /\ executor.pending \in Seq(Nat) /\ executor.ended \in BOOLEAN
           /\ epoch \in Nat /\ executed \in 0 .. MaxSeq /\ synced \in 0 .. MaxSeq
           /\ aggregator \in AggregatorTypes /\ event \in BOOLEAN
           /\ InStep(executor.next, executor.pending, epoch, executed, synced)
           /\ 0 .. executed \subseteq contents
           /\ executor.ended => LastOfEpoch(executed) /\ epoch = EpochOf[executed]
           /\ \/ epoch = EpochOf[executed]
              \/ epoch = EpochOf[executed] + 1 /\ LastOfEpoch(executed)
<1>1. executor.next \in Nat /\ executor.pending \in Seq(Nat) /\ executor.ended \in BOOLEAN
  BY Zenon DEF IInv, Types, ExecutorTypes
<1>2. /\ epoch \in Nat /\ executed \in 0 .. MaxSeq /\ synced \in 0 .. MaxSeq
      /\ aggregator \in AggregatorTypes /\ 0 .. executed \subseteq contents
  BY Zenon DEF IInv, Types, BuiltInv
<1>3. event \in BOOLEAN
  BY Zenon DEF IInv, Types
<1>4. QED
  BY Zenon, <1>1, <1>2, <1>3 DEF IInv, ExecutorInv

LEMMA ReceiveEventStep ==
    ASSUME IInv, ReceiveEvent
    PROVE  IInv'
<1>1. /\ UNCHANGED <<network, epoch, built, certified, contents, verified, synced, executed, aggregator,
                     mailbox, loop, summaries, target, downloads, guard>>
      /\ event' = FALSE
      /\ executor' = Iterate(epoch, executed, executor.next, executor.pending, synced)
  BY Zenon DEF ReceiveEvent, disk, tasks
<1>2. executor' \in ExecutorTypes /\ ExecutorInv(executor', epoch, executed, synced)
  BY Zenon, <1>1, ExecutorFields, IterateInStep
<1>3. QED
  BY ZenonT(60), <1>1, <1>2, ExecutorFields, ExecutorOnly

LEMMA CheckpointExecutedStep ==
    ASSUME IInv, CheckpointExecuted
    PROVE  IInv' /\ executed' = executed + 1
<1>1. UNCHANGED <<network, epoch, built, certified, contents, verified, synced, aggregator,
                  mailbox, loop, summaries, target, downloads, guard, event>>
  BY Zenon DEF CheckpointExecuted, tasks
<1>2. PICK p \in Seq(Nat), next \in Nat : p = executor.pending /\ next = executor.next
  BY Zenon, ExecutorFields
<1>3. /\ p # <<>> /\ Head(p) \in contents /\ executed' = Head(p)
      /\ executor' = Iterate(epoch, Head(p), next, Tail(p), synced)
  BY Zenon, <1>2 DEF CheckpointExecuted
<1>4. PICK l \in Nat : l = Len(p) /\ l >= 1
  BY <1>3
<1>5. PICK q \in Seq(Nat) : q = Tail(p) /\ Len(q) = l - 1 /\ \A i \in 1 .. l - 1 : q[i] = p[i + 1]
  <2>1. /\ Tail(p) \in Seq(Nat) /\ Len(Tail(p)) = l - 1
        /\ \A i \in 1 .. Len(Tail(p)) : Tail(p)[i] = p[i + 1]
    BY Zenon, <1>3, <1>4, HeadTailProperties
  <2>2. QED
    BY ZenonT(60), <2>1
<1>6. /\ \A i \in 1 .. l : p[i] = executed + i /\ executed + i <= synced /\ EpochOf[executed + i] = epoch
      /\ next = executed + l + 1 /\ l <= MaxExecutions
      /\ executed \in 0 .. MaxSeq /\ synced \in 0 .. MaxSeq /\ epoch \in Nat
  BY Zenon, <1>2, <1>4, ExecutorFields DEF InStep
<1>7. /\ Head(p) = executed + 1 /\ executed + 1 \in 0 .. MaxSeq /\ EpochOf[executed + 1] = epoch
      /\ executed' = executed + 1
  <2>1. 1 \in 1 .. l /\ Head(p) = p[1]
    BY <1>3, <1>4
  <2>2. QED
    BY <1>3, <1>6, <2>1, SyncAssumption
<1>8. InStep(next, q, epoch, executed + 1, synced)
  <2>1. next = (executed + 1) + (l - 1) + 1 /\ l - 1 <= MaxExecutions
    BY <1>4, <1>6, SyncAssumption
  <2>2. ASSUME NEW i \in 1 .. l - 1
        PROVE  /\ q[i] = executed + 1 + i /\ executed + 1 + i <= synced
               /\ EpochOf[executed + 1 + i] = epoch
    <3>1. q[i] = p[i + 1] /\ i + 1 \in 1 .. l /\ executed + (i + 1) = executed + 1 + i
      BY SMTT(30), <1>4, <1>5, <1>6
    <3>2. QED
      BY Zenon, <1>6, <3>1
  <2>3. QED
    BY Zenon, <1>5, <2>1, <2>2 DEF InStep
<1>9. executor' \in ExecutorTypes /\ ExecutorInv(executor', epoch, executed + 1, synced)
  <2>1. executor' = Iterate(epoch, executed + 1, next, q, synced)
    BY Zenon, <1>3, <1>5, <1>7
  <2>2. QED
    BY Zenon, <1>6, <1>7, <1>8, <2>1, IterateInStep
<1>10. 0 .. executed + 1 \subseteq contents
  <2>1. ASSUME NEW x \in 0 .. executed + 1 PROVE x \in 0 .. executed \/ x = executed + 1
    BY <1>6
  <2>2. QED
    BY Zenon, <1>3, <1>7, <2>1, ExecutorFields
<1>11. QED
  BY Zenon, <1>1, <1>6, <1>7, <1>9, <1>10, ExecutorFields, ExecutorOnly

LEMMA ReconfigureStep ==
    ASSUME IInv, Reconfigure
    PROVE  IInv'
<1>1. /\ UNCHANGED <<network, built, certified, contents, verified, synced, executed,
                     mailbox, loop, summaries, target, downloads, guard, event>>
      /\ executor.ended /\ epoch' = epoch + 1 /\ executor' = RunEpoch(epoch + 1)
      /\ aggregator' = [aggregator EXCEPT !.current = None]
  BY Zenon DEF Reconfigure, tasks
<1>2. aggregator' \in AggregatorTypes /\ aggregator'.sending = aggregator.sending /\ aggregator'.current = None
  BY Zenon, <1>1, ExecutorFields DEF AggregatorTypes
<1>3. epoch + 1 \in Nat /\ epoch + 1 = EpochOf[executed] + 1 /\ LastOfEpoch(executed)
  BY <1>1, ExecutorFields
<1>4. executor' \in ExecutorTypes /\ ExecutorInv(executor', epoch', executed, synced)
  BY Zenon, <1>1, <1>3, ExecutorFields, RunEpochInStep
<1>5. QED
  BY Zenon, <1>1, <1>2, <1>3, <1>4, ExecutorFields, ExecutorOnly

LEMMA PeersAdvanceStep ==
    ASSUME IInv, PeersAdvance
    PROVE  IInv'
<1>1. /\ UNCHANGED <<epoch, built, certified, contents, verified, synced, executed, aggregator,
                     mailbox, loop, summaries, target, downloads, guard, event, executor>>
      /\ network < MaxSeq /\ network' = network + 1
  BY Zenon DEF PeersAdvance, disk, tasks
<1>2. network \in 0 .. MaxSeq /\ network' \in 0 .. MaxSeq /\ 0 .. network \subseteq 0 .. network'
  BY SMTT(30), <1>1, SyncAssumption DEF IInv, Types
<1>3. Types' /\ CertifiedInv' /\ BuiltInv' /\ SummaryInv' /\ (0 .. synced \subseteq contents)'
  BY Zenon, <1>1, <1>2 DEF IInv, Types, CertifiedInv, BuiltInv, SummaryInv
<1>4. ConsensusInv' /\ GuardInv'
  BY ZenonT(60), <1>1 DEF IInv, ConsensusInv, GuardInv
<1>5. DownloadInv(downloads)' /\ ExecutorInv(executor, epoch, executed, synced)'
  BY Zenon, <1>1 DEF IInv, DownloadInv, ExecutorInv, InStep
<1>6. QED
  BY Zenon, <1>3, <1>4, <1>5 DEF IInv

\* The memory of a node that has just started, with what is on disk.
Started ==
    /\ aggregator = [current |-> None, sending |-> <<>>]
    /\ mailbox = <<>>
    /\ loop = At("select")
    /\ summaries = [stage |-> "none", current |-> None, target |-> None]
    /\ target = [num |-> 0, changed |-> FALSE]
    /\ downloads = [current |-> synced + 1, cursor |-> 0, tasks |-> <<>>, notify |-> None]
    /\ guard = None
    /\ event = FALSE
    /\ executor = RunEpoch(epoch)

\* What holds of the tables and the watermarks, whatever is in memory.
DiskInv ==
    /\ network \in 0 .. MaxSeq /\ epoch \in Nat /\ built \subseteq 1 .. MaxSeq /\ contents \subseteq Nat
    /\ verified \in 0 .. MaxSeq /\ synced \in 0 .. MaxSeq /\ executed \in 0 .. MaxSeq
    /\ \E k \in 0 .. MaxSeq : certified = 0 .. k
    /\ verified \in certified /\ synced \in certified
    /\ BuiltInv /\ 0 .. synced \subseteq contents
    /\ \/ epoch = EpochOf[executed]
       \/ epoch = EpochOf[executed] + 1 /\ LastOfEpoch(executed)

\* What is on disk is enough for the invariant after a start.
LEMMA StartedInv ==
    DiskInv /\ Started => IInv
<1> SUFFICES ASSUME DiskInv, Started PROVE IInv
  BY Zenon
<1> USE DEF DiskInv
<1>1. executor \in ExecutorTypes /\ ExecutorInv(executor, epoch, executed, synced)
  BY Zenon, RunEpochInStep DEF Started
<1>2. /\ aggregator \in AggregatorTypes /\ aggregator.current = None
      /\ aggregator.sending = <<>> /\ mailbox \in Seq(1 .. MaxSeq)
      /\ loop \in LoopTypes /\ loop.stage = "select"
      /\ summaries \in SummaryTypes /\ summaries.stage = "none"
  BY SMTT(30) DEF Started, At, AggregatorTypes, LoopTypes, SummaryTypes
<1>3. target \in [num : 0 .. MaxSeq, changed : BOOLEAN] /\ target.num = 0
  BY SMTT(30), SyncAssumption DEF Started
<1>4. /\ downloads \in DownloadTypes
      /\ downloads.current = synced + 1 /\ downloads.cursor = 0
      /\ downloads.tasks = <<>> /\ downloads.notify = None
  BY SyncAssumption DEF Started, DownloadTypes
<1>5. guard = None /\ event \in BOOLEAN /\ mailbox = <<>>
  BY ZenonT(60) DEF Started
<1>6. Types
  BY Zenon, <1>1, <1>2, <1>3, <1>4, <1>5 DEF Types
<1>7. CertifiedInv
  BY SMTT(30), <1>2, <1>3, SyncAssumption DEF CertifiedInv
<1>8. ConsensusInv /\ SummaryInv
  BY SMTT(30), <1>2, <1>5 DEF ConsensusInv, SummaryInv
<1>9. DownloadInv(downloads)
  BY <1>4, SyncAssumption DEF DownloadInv
<1>10. GuardInv
  BY <1>2, <1>4, <1>5 DEF GuardInv
<1>11. QED
  BY Zenon, <1>1, <1>6, <1>7, <1>8, <1>9, <1>10 DEF IInv

LEMMA InitInv ==
    Init => IInv
<1>1. SUFFICES ASSUME Init PROVE IInv
  BY Zenon
<1>2. Started
  BY SMTT(30), <1>1 DEF Init, Started
<1>3. /\ network = 0 /\ epoch = 0 /\ built = {} /\ certified = {0} /\ contents = {0}
      /\ verified = 0 /\ synced = 0 /\ executed = 0 /\ EpochOf[0] = 0 /\ 0 \in 0 .. MaxSeq
      /\ 0 .. 0 = {0}
  BY <1>1, SyncAssumption DEF Init
<1>4. BuiltInv
  BY Zenon, <1>3 DEF BuiltInv
<1>5. QED
  BY <1>2, <1>3, <1>4, StartedInv DEF DiskInv

LEMMA CrashStep ==
    ASSUME IInv, Crash
    PROVE  IInv'
<1>1. /\ UNCHANGED <<network, epoch, built, certified, contents, verified, synced, executed>>
      /\ Started'
  BY Zenon DEF Crash, disk, Started, RunEpoch, Iterate, Scheduled, At
<1>2. /\ network' \in 0 .. MaxSeq /\ epoch' \in Nat /\ built' \subseteq 1 .. MaxSeq /\ contents' \subseteq Nat
      /\ verified' \in 0 .. MaxSeq /\ synced' \in 0 .. MaxSeq /\ executed' \in 0 .. MaxSeq
  BY Zenon, <1>1 DEF IInv, Types
<1>3. /\ \E k \in 0 .. MaxSeq : certified' = 0 .. k
      /\ verified' \in certified' /\ synced' \in certified' /\ 0 .. synced' \subseteq contents'
  BY Zenon, <1>1 DEF IInv, CertifiedInv
<1>4. BuiltInv'
  BY Zenon, <1>1 DEF IInv, BuiltInv
<1>5. \/ epoch' = EpochOf[executed']
      \/ epoch' = EpochOf[executed'] + 1 /\ LastOfEpoch(executed')
  BY Zenon, <1>1, ExecutorFields
<1>6. DiskInv'
  BY Zenon, <1>2, <1>3, <1>4, <1>5 DEF DiskInv
<1>7. (DiskInv /\ Started => IInv)'
  BY StartedInv, PTL
<1>8. QED
  BY Zenon, <1>1, <1>6, <1>7

-----------------------------------------------------------------------------
(* The results *)

\* A step keeps the invariant, and no watermark goes back in it.
LEMMA NextInv ==
    ASSUME IInv, [Next]_vars
    PROVE  IInv' /\ synced' >= synced /\ executed' >= executed
<1>1. synced \in Nat /\ executed \in Nat
  BY SyncAssumption DEF IInv, Types
<1>2. CASE UNCHANGED vars
  <2>1. UNCHANGED <<network, epoch, built, certified, contents, verified, synced, executed, aggregator,
                    mailbox, loop, summaries, target, downloads, guard, event, executor>>
    BY Zenon, <1>2 DEF vars, disk, tasks
  <2>2. Types' /\ CertifiedInv' /\ BuiltInv' /\ SummaryInv' /\ (0 .. synced \subseteq contents)'
    BY Zenon, <2>1 DEF IInv, Types, CertifiedInv, BuiltInv, SummaryInv
  <2>3. ConsensusInv' /\ GuardInv'
    BY ZenonT(60), <2>1 DEF IInv, ConsensusInv, GuardInv
  <2>4. DownloadInv(downloads)' /\ ExecutorInv(executor, epoch, executed, synced)'
    BY Zenon, <2>1 DEF IInv, DownloadInv, ExecutorInv, InStep
  <2>5. QED
    BY SMTT(30), <1>1, <2>1, <2>2, <2>3, <2>4 DEF IInv
<1>3. CASE PeersAdvance \/ Crash
  <2>1. IInv'
    BY Zenon, <1>3, PeersAdvanceStep, CrashStep
  <2>2. UNCHANGED <<synced, executed>>
    BY Zenon, <1>3 DEF PeersAdvance, Crash, disk
  <2>3. QED
    BY <1>1, <2>1, <2>2
<1>4. CASE \E n \in 1 .. MaxSeq : Build(n)
  BY <1>1, <1>4, BuildStep DEF Build
<1>5. CASE Aggregate \/ ResetCurrent \/ Certify \/ SendCheckpoint
  BY <1>1, <1>5, AggregateStep, ResetCurrentStep, CertifyStep, SendCheckpointStep
  DEF Aggregate, ResetCurrent, Certify, SendCheckpoint, disk
<1>6. CASE EventLoop
  <2>1. CASE SyncFromConsensus
    BY <1>1, <2>1, SyncFromConsensusStep DEF SyncFromConsensus
  <2>2. CASE ReceiveCheckpoint \/ CompareVerified \/ WriteVerified
    BY SMTT(30), <1>1, <2>2, ReceiveCheckpointStep, VerifiedStep DEF ReceiveCheckpoint, CompareVerified, WriteVerified, disk
  <2>3. CASE NotifyFromConsensus \/ Tick \/ JoinTask \/ MaybeStartSummaries \/ MaybeTriggerContents
    <3>1. IInv'
      BY Zenon, <2>3, LoopStep
    <3>2. UNCHANGED <<synced, executed>>
      BY Zenon, <2>3 DEF NotifyFromConsensus, Tick, JoinTask, MaybeStartSummaries, MaybeTriggerContents, disk
    <3>3. QED
      BY <1>1, <3>1, <3>2
  <2>4. QED
    BY Zenon, <1>6, <2>1, <2>2, <2>3 DEF EventLoop
<1>7. CASE Summaries \/ FailSummary
  BY <1>1, <1>7, SummariesStep
  DEF Summaries, BeginSummaries, InsertSummary, CompareSummary, WriteSummary, FailSummary, disk
<1>8. CASE Contents
  <2>1. CASE SyncContents
    BY SMTT(30), <1>1, <2>1, SyncContentsStep DEF SyncContents
  <2>2. CASE ReceiveTarget \/ NotifyContents
    <3>1. IInv'
      BY Zenon, <2>2, ReceiveTargetStep, NotifyContentsStep
    <3>2. UNCHANGED <<synced, executed>>
      BY Zenon, <2>2 DEF ReceiveTarget, NotifyContents, disk
    <3>3. QED
      BY <1>1, <3>1, <3>2
  <2>3. QED
    BY Zenon, <1>8, <2>1, <2>2 DEF Contents
<1>9. CASE \E n \in 1 .. MaxSeq : Download(n)
  <2>1. PICK n \in 1 .. MaxSeq : Download(n)
    BY Zenon, <1>9
  <2>2. IInv'
    BY Zenon, <2>1, DownloadStep
  <2>3. UNCHANGED <<synced, executed>>
    BY Zenon, <2>1 DEF Download
  <2>4. QED
    BY <1>1, <2>2, <2>3
<1>10. CASE Executor
  <2>1. CASE CheckpointExecuted
    <3>1. IInv' /\ executed' = executed + 1
      BY Zenon, <2>1, CheckpointExecutedStep
    <3>2. synced' = synced
      BY Zenon, <2>1 DEF CheckpointExecuted
    <3>3. QED
      BY <1>1, <3>1, <3>2
  <2>2. CASE ReceiveEvent \/ Reconfigure
    <3>1. IInv'
      BY Zenon, <2>2, ReceiveEventStep, ReconfigureStep
    <3>2. UNCHANGED <<synced, executed>>
      BY Zenon, <2>2 DEF ReceiveEvent, Reconfigure, disk
    <3>3. QED
      BY <1>1, <3>1, <3>2
  <2>3. QED
    BY Zenon, <1>10, <2>1, <2>2 DEF Executor
<1>11. QED
  BY Zenon, <1>2, <1>3, <1>4, <1>5, <1>6, <1>7, <1>8, <1>9, <1>10 DEF Next

\* The inductive invariant of the aggregator, state sync and the executor holds in every
\* state, also after a crash at any point.
THEOREM SyncInvariance == Spec => []IInv
<1>1. IInv /\ [Next]_vars => IInv'
  BY Zenon, NextInv
<1>2. QED
  BY <1>1, InitInv, PTL DEF Spec

\* What the synced watermark, the download target or a message of the aggregator covers
\* is certified and complete: no jump of the watermark over checkpoints that the contents
\* task is still downloading leaves a gap below it.
THEOREM SyncComplete == Spec => []SyncedIsComplete
<1>1. ASSUME IInv PROVE SyncedIsComplete
  <2>1. PICK c \in 0 .. MaxSeq : certified = 0 .. c
    BY Zenon, <1>1 DEF IInv, CertifiedInv
  <2>2. ASSUME NEW n \in certified PROVE 0 .. n \subseteq certified
    BY <2>1, SyncAssumption
  <2>3. 0 .. synced \subseteq certified /\ 0 .. verified \subseteq certified /\ 0 .. target.num \subseteq certified
    BY Zenon, <1>1, <2>2 DEF IInv, CertifiedInv
  <2>4. ASSUME NEW i \in DOMAIN mailbox PROVE 0 .. mailbox[i] \subseteq certified \cap contents
    BY Zenon, <1>1, <2>2 DEF IInv, ConsensusInv, BuiltInv
  <2>5. QED
    BY Zenon, <1>1, <2>3, <2>4 DEF IInv, SyncedIsComplete
<1>2. QED
  BY <1>1, SyncInvariance, PTL

\* The executor runs the checkpoints of its own epoch in order and without a gap, across
\* reconfigurations and crashes.
THEOREM ExecutorFollows == Spec => []ExecutorInStep
<1>1. ASSUME IInv PROVE ExecutorInStep
  <2>1. executor.pending \in Seq(Nat)
    BY Zenon, <1>1, ExecutorFields
  <2>2. InStep(executor.next, executor.pending, epoch, executed, synced)
    BY Zenon, <1>1, ExecutorFields
  <2>3. \A i \in DOMAIN executor.pending :
           executor.pending[i] = executed + i /\ EpochOf[executor.pending[i]] = epoch
    BY <2>1, <2>2 DEF InStep
  <2>4. QED
    BY Zenon, <1>1, <2>3 DEF IInv, ExecutorInv, ExecutorInStep
<1>2. QED
  BY <1>1, SyncInvariance, PTL

\* The synced and the executed watermark never go back, whatever the lock of RocksDbStore
\* remembers and however the tasks interleave.
THEOREM NoWatermarkGoesBack == Spec => WatermarksAdvance
<1>1. IInv /\ [Next]_vars => [synced' >= synced /\ executed' >= executed]_vars
  BY Zenon, NextInv
<1>2. QED
  BY <1>1, SyncInvariance, PTL DEF Spec, WatermarksAdvance
=============================================================================
