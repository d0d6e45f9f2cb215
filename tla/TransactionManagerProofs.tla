----------------------- MODULE TransactionManagerProofs -----------------------
(***************************************************************************)
(* Proofs about TransactionManager for any workload, cache size, number of *)
(* tasks and permits, in one epoch of a node that crashes and restarts at  *)
(* any time (SpecCrash).                                                   *)
(*                                                                         *)
(* The inductive invariant IInv has four parts besides the types: what the *)
(* lock queues say (LockInv), where a certificate is in the execution      *)
(* driver (StageInv), what the cache, the pending lookups and the acquired *)
(* locks claim about storage (StorageInv), and what the recovery log       *)
(* covers (LogInv).                                                        *)
(*                                                                         *)
(* Balanced, AssertHolds and NoWakeupLost follow the calls of enqueue      *)
(* between their two critical sections, in which the cache is unbounded.   *)
(* CurrentEpochOnly is about reconfigurations as well (SpecEpochs).        *)
(***************************************************************************)
EXTENDS TransactionManager, FiniteSetTheorems, TLAPS

\* The driver's stages agree with the manager and with storage.
StageInv ==
    /\ pending \cap executed = {}
    /\ \A t \in Tx :
         /\ stage[t] \in {"queued", "running"} => t \in executing \ executed
         /\ stage[t] = "committed" => t \in executing \cap executed
         /\ stage[t] = "cleanup" => t \in executed
-----------------------------------------------------------------------------
\* Waiting pairs of a certificate and a key of object i.
Waiting(f, i) == {p \in Tx \X Key : p[2] \in f[p[1]] /\ IdOf[p[2]] = i}

\* The pairs counted in input_objects are finitely many.
LEMMA WaitingFinite ==
    ASSUME NEW f, NEW i
    PROVE  IsFiniteSet(Waiting(f, i)) /\ Cardinality(Waiting(f, i)) \in Nat
<1>1. IsFiniteSet(Tx \X Key)
  BY Zenon, FiniteAssumption, FS_Product
<1>2. Waiting(f, i) \subseteq Tx \X Key
  BY Zenon DEF Waiting
<1> QED
  BY Zenon, <1>1, <1>2, FS_Subset, FS_CardinalityType

\* Registering certificates that wait for nothing yet adds their count
\* (enqueue_impl).
LEMMA WaitingAdd ==
    ASSUME NEW f, NEW g, NEW h, NEW i,
           \A t \in Tx : h[t] = f[t] \cup g[t] /\ f[t] \cap g[t] = {}
    PROVE  Cardinality(Waiting(h, i)) =
             Cardinality(Waiting(f, i)) + Cardinality(Waiting(g, i))
<1>1. Waiting(h, i) = Waiting(f, i) \cup Waiting(g, i)
  BY DEF Waiting
<1>2. Waiting(f, i) \cap Waiting(g, i) = {}
  BY Zenon DEF Waiting
<1>3. Cardinality(Waiting(f, i) \cap Waiting(g, i)) = 0
  BY Zenon, <1>2, FS_EmptySet
<1>4. /\ IsFiniteSet(Waiting(f, i)) /\ Cardinality(Waiting(f, i)) \in Nat
      /\ IsFiniteSet(Waiting(g, i)) /\ Cardinality(Waiting(g, i)) \in Nat
  BY Zenon, WaitingFinite
<1>5. Cardinality(Waiting(f, i) \cup Waiting(g, i)) =
        Cardinality(Waiting(f, i)) + Cardinality(Waiting(g, i))
          - Cardinality(Waiting(f, i) \cap Waiting(g, i))
  BY Zenon, <1>4, FS_Union
<1> QED
  BY <1>1, <1>3, <1>4, <1>5

\* Granting locks that are waited for subtracts their count (try_acquire_lock).
LEMMA WaitingSubtract ==
    ASSUME NEW f, NEW g, NEW h, NEW i,
           \A t \in Tx : h[t] = f[t] \ g[t] /\ g[t] \subseteq f[t]
    PROVE  Cardinality(Waiting(h, i)) =
             Cardinality(Waiting(f, i)) - Cardinality(Waiting(g, i))
<1>1. Waiting(h, i) = Waiting(f, i) \ Waiting(g, i)
  BY DEF Waiting
<1>2. Waiting(f, i) \cap Waiting(g, i) = Waiting(g, i)
  BY Zenon DEF Waiting
<1>3. Cardinality(Waiting(f, i) \ Waiting(g, i)) =
        Cardinality(Waiting(f, i)) - Cardinality(Waiting(f, i) \cap Waiting(g, i))
  BY Zenon, WaitingFinite, FS_Difference
<1> QED
  BY Zenon, <1>1, <1>2, <1>3
-----------------------------------------------------------------------------
\* A commit grants only locks that are waited for, and its own certificate
\* waits for none.
LEMMA GotFacts ==
    ASSUME TypeOK, QueuesMatchLocks, NEW t \in Tx, NEW u \in Tx,
           NEW K, K \subseteq Key
    PROVE  /\ Got(t, K, u) \subseteq acquiring[u]
           /\ \A k \in K : k \in Got(t, K, u) <=>
                 \/ u \in readonly_waiters[k]
                 \/ u \in WritersToWake(k, Held(t, k))
BY Zenon DEF TypeOK, QueuesMatchLocks, Got, Woken, WritersToWake

\* notify_commit keeps queues and lock sets in agreement.
LEMMA NotifyQueues ==
    ASSUME TypeOK, QueuesMatchLocks, PendingOrExecuting, NEW t \in executing,
           NEW K, K \subseteq Key, Release(t) \subseteq K, try_acquire_lock(t, K)
    PROVE  QueuesMatchLocks' /\ PendingOrExecuting'
<1>0. t \in Tx /\ acquiring[t] = {}
  BY Zenon DEF TypeOK, PendingOrExecuting
<1>1. ASSUME NEW k \in Key, NEW u \in Tx
      PROVE  /\ u \in readonly_waiters'[k] <=> k \in acquiring'[u] \cap RoKeys[u]
             /\ u \in default_waiters'[k] <=> k \in acquiring'[u] \cap DefKeys[u]
  <2>1. CASE k \in K
    BY Zenon, <1>0, <2>1, LockModeAssumption, GotFacts
       DEF TypeOK, QueuesMatchLocks, try_acquire_lock, Got, Woken, WritersToWake
  <2>2. CASE k \notin K
    BY Zenon, <2>2 DEF TypeOK, QueuesMatchLocks, try_acquire_lock, Got
  <2> QED
    BY Zenon, <2>1, <2>2
<1>2. ASSUME NEW k \in Key, NEW u \in Tx
      PROVE  u \in readonly_holders'[k] <=> k \in acquired'[u] \cap RoKeys[u]
  <2>1. CASE u = t
    BY Zenon, <1>0, <2>1 DEF TypeOK, QueuesMatchLocks, try_acquire_lock, Held, Release
  <2>2. CASE u # t /\ k \in K
    BY Zenon, <2>2, LockModeAssumption
       DEF TypeOK, QueuesMatchLocks, try_acquire_lock, Held, Got, Woken, WritersToWake
  <2>3. CASE u # t /\ k \notin K
    BY Zenon, <2>3 DEF TypeOK, QueuesMatchLocks, try_acquire_lock, Got
  <2> QED
    BY Zenon, <2>1, <2>2, <2>3
<1>3. ASSUME NEW u \in Tx
      PROVE  /\ acquiring'[u] \cap acquired'[u] = {}
             /\ u \in pending' <=> acquiring'[u] # {}
             /\ u \in pending' \cup executing' =>
                   acquiring'[u] \cup acquired'[u] = Inputs(u)
             /\ u \notin pending' \cup executing' => acquired'[u] = {}
  <2>1. Got(t, K, u) \subseteq acquiring[u]
    BY Zenon, <1>0, GotFacts
  <2> HIDE DEF Got
  <2>2. CASE u = t
    BY Zenon, <1>0, <2>1, <2>2 DEF TypeOK, PendingOrExecuting, try_acquire_lock, Ready
  <2>3. CASE u # t
    BY ZenonT(60), <1>0, <2>1, <2>3 DEF TypeOK, PendingOrExecuting, try_acquire_lock, Ready
  <2> QED
    BY Zenon, <2>2, <2>3
<1>4. pending' \cap executing' = {}
  BY Zenon DEF PendingOrExecuting, try_acquire_lock
<1> QED
  BY Zenon, <1>1, <1>2, <1>3, <1>4 DEF QueuesMatchLocks, PendingOrExecuting

\* notify_commit keeps the counters exact and removes the queues it empties.
LEMMA NotifyCounters ==
    ASSUME TypeOK, LockInv, NEW t \in executing, NEW K, K \subseteq Key,
           Release(t) \subseteq K, try_acquire_lock(t, K)
    PROVE  InputObjectsExact' /\ NoLeakedQueue'
<1>0. t \in Tx /\ acquiring[t] = {}
  BY Zenon DEF TypeOK, LockInv, PendingOrExecuting
<1>1. InputObjectsExact'
  <2> DEFINE g == [u \in Tx |-> Got(t, K, u)]
  <2>1. \A u \in Tx : acquiring'[u] = acquiring[u] \ g[u] /\ g[u] \subseteq acquiring[u]
    BY Zenon, <1>0, GotFacts DEF TypeOK, LockInv, try_acquire_lock
  <2>2. ASSUME NEW i \in ObjectID
        PROVE  input_objects'[i] = Cardinality(Waiting(acquiring', i))
    <3>1. input_objects[i] = Cardinality(Waiting(acquiring, i))
      BY Zenon DEF LockInv, InputObjectsExact, Waiting
    <3>2. {p \in Tx \X Key : p[2] \in Got(t, K, p[1]) /\ IdOf[p[2]] = i} = Waiting(g, i)
      BY Zenon DEF Waiting
    <3>3. input_objects'[i] = input_objects[i] - Cardinality(Waiting(g, i))
      BY Zenon, <3>2 DEF try_acquire_lock
    <3> HIDE DEF g
    <3>4. Cardinality(Waiting(acquiring', i)) =
            Cardinality(Waiting(acquiring, i)) - Cardinality(Waiting(g, i))
      BY <2>1, WaitingSubtract
    <3> QED
      BY Zenon, <3>1, <3>3, <3>4
  <2> QED
    BY Zenon, <2>2 DEF InputObjectsExact, Waiting
<1>2. NoLeakedQueue'
  <2> DEFINE used(k) == readonly_waiters[k] \cup readonly_holders[k] \cup default_waiters[k]
             rest == [k \in K |-> Held(t, k) \cup readonly_waiters[k]
                                   \cup (default_waiters[k] \ Woken(t, k))]
  <2>1. lock_waiters = {k \in Key : used(k) # {}}
    BY Zenon DEF LockInv, NoLeakedQueue, has_readonly
  <2>2. lock_waiters' = lock_waiters \ {k \in K : rest[k] = {}}
    BY Zenon DEF try_acquire_lock, QueuesLeft
  <2>3. \A k \in K : used(k)' = rest[k] /\ rest[k] \subseteq used(k)
    BY Zenon DEF TypeOK, try_acquire_lock, Held
  <2>4. \A k \in Key \ K : used(k)' = used(k)
    BY Zenon DEF TypeOK, try_acquire_lock
  <2>5. lock_waiters' = {k \in Key : used(k)' # {}}
    <3> HIDE DEF used, rest
    <3> QED
      BY Zenon, <2>1, <2>2, <2>3, <2>4
  <2> QED
    BY Zenon, <2>5 DEF NoLeakedQueue, has_readonly
<1> QED
  BY Zenon, <1>1, <1>2

\* enqueue_impl registers certificates the manager does not know, and keeps
\* queues, lock sets and counters in agreement.
LEMMA TakeLocksInv ==
    ASSUME TypeOK, LockInv, NEW N, N \subseteq Tx \ (pending \cup executing),
           NEW wait \in [Tx -> SUBSET Key],
           \A t \in Tx : wait[t] \subseteq (IF t \in N THEN Inputs(t) ELSE {}),
           TakeLocks(N, wait)
    PROVE  LockInv'
<1>0. \A t \in N : acquiring[t] = {} /\ acquired[t] = {}
  BY Zenon DEF LockInv, PendingOrExecuting
<1>1. QueuesMatchLocks'
  <2> SUFFICES ASSUME NEW k \in Key, NEW t \in Tx
               PROVE  /\ t \in readonly_waiters'[k] <=> k \in acquiring'[t] \cap RoKeys[t]
                      /\ t \in default_waiters'[k] <=> k \in acquiring'[t] \cap DefKeys[t]
                      /\ t \in readonly_holders'[k] <=> k \in acquired'[t] \cap RoKeys[t]
    BY Zenon DEF QueuesMatchLocks
  <2>1. CASE t \in N
    BY Zenon, <1>0, <2>1 DEF TypeOK, LockInv, QueuesMatchLocks, TakeLocks, Inputs
  <2>2. CASE t \notin N
    BY Zenon, <2>2 DEF TypeOK, LockInv, QueuesMatchLocks, TakeLocks
  <2> QED
    BY Zenon, <2>1, <2>2
<1>2. PendingOrExecuting'
  <2>1. pending' \cap executing' = {}
    BY Zenon DEF LockInv, PendingOrExecuting, TakeLocks
  <2>2. ASSUME NEW t \in Tx
        PROVE  /\ acquiring'[t] \cap acquired'[t] = {}
               /\ t \in pending' <=> acquiring'[t] # {}
               /\ t \in pending' \cup executing' =>
                     acquiring'[t] \cup acquired'[t] = Inputs(t)
               /\ t \notin pending' \cup executing' => acquired'[t] = {}
    <3>1. CASE t \in N
      BY Zenon, <1>0, <3>1 DEF TypeOK, LockInv, PendingOrExecuting, TakeLocks
    <3>2. CASE t \notin N
      BY Zenon, <3>2 DEF TypeOK, LockInv, PendingOrExecuting, TakeLocks
    <3> QED
      BY Zenon, <3>1, <3>2
  <2> QED
    BY Zenon, <2>1, <2>2 DEF PendingOrExecuting
<1>3. InputObjectsExact'
  <2>1. \A t \in Tx : acquiring'[t] = acquiring[t] \cup wait[t] /\ acquiring[t] \cap wait[t] = {}
    BY Zenon, <1>0 DEF TypeOK, TakeLocks
  <2>2. ASSUME NEW i \in ObjectID
        PROVE  input_objects'[i] = Cardinality(Waiting(acquiring', i))
    <3>1. input_objects[i] = Cardinality(Waiting(acquiring, i))
      BY Zenon DEF LockInv, InputObjectsExact, Waiting
    <3>2. input_objects'[i] = input_objects[i] + Cardinality(Waiting(wait, i))
      BY Zenon DEF TakeLocks, InputCount, Waiting
    <3>3. Cardinality(Waiting(acquiring', i)) =
            Cardinality(Waiting(acquiring, i)) + Cardinality(Waiting(wait, i))
      BY <2>1, WaitingAdd
    <3> QED
      BY Zenon, <3>1, <3>2, <3>3
  <2> QED
    BY Zenon, <2>2 DEF InputObjectsExact, Waiting
<1>4. NoLeakedQueue'
  <2> SUFFICES ASSUME NEW k
               PROVE  k \in lock_waiters' <=>
                         /\ k \in Key
                         /\ has_readonly(k)' \/ default_waiters'[k] # {}
    BY Zenon DEF NoLeakedQueue
  <2>1. ASSUME k \in Key
        PROVE  (has_readonly(k)' \/ default_waiters'[k] # {}) <=>
                  \/ has_readonly(k) \/ default_waiters[k] # {}
                  \/ \E t \in N : k \in wait[t] \cup RoKeys[t]
    BY <2>1 DEF TypeOK, TakeLocks, has_readonly, Inputs
  <2>2. \A t \in N : wait[t] \cup RoKeys[t] \subseteq Key
    BY Zenon, ConstantsAssumption
  <2> QED
    BY Zenon, <2>1, <2>2 DEF LockInv, NoLeakedQueue, TakeLocks
<1> QED
  BY Zenon, <1>1, <1>2, <1>3, <1>4 DEF LockInv

\* In a fresh Inner (Inner::new) nobody waits.
LEMMA NobodyWaits ==
    ASSUME NEW f, f = [t \in Tx |-> {}], NEW i
    PROVE  Cardinality(Waiting(f, i)) = 0
<1>1. Waiting(f, i) = {}
  BY Zenon DEF Waiting
<1> QED
  BY Zenon, <1>1, FS_EmptySet

\* What a call registers is new to the manager, and waits for inputs of its own.
LEMMA WaitsFacts ==
    ASSUME TypeOK, NEW c \in Task, NEW ord
    PROVE  /\ New(c) \subseteq Tx \ (pending \cup executing)
           /\ Waits(c, ord) \in [Tx -> SUBSET Key]
           /\ \A t \in Tx : Waits(c, ord)[t] \subseteq (IF t \in New(c) THEN Inputs(t) ELSE {})
<1>1. \A t \in Tx : MustWait(c, t, ord) \subseteq Inputs(t) /\ Inputs(t) \subseteq Key
  BY Zenon, ConstantsAssumption DEF MustWait, Inputs
<1> QED
  BY Zenon, <1>1 DEF TypeOK, New, Known, Waits

\* Outputs and released locks of a commit are keys.
LEMMA CommitKeys ==
    ASSUME TypeOK, NEW t \in Tx
    PROVE  /\ Outputs[t] \cup Release(t) \subseteq Key
           /\ Release(t) \subseteq Outputs[t] \cup Release(t)
BY Zenon, ConstantsAssumption DEF TypeOK, Release

\* Every step keeps queues, lock sets and counters in agreement.
LEMMA LockStep ==
    ASSUME TypeOK, LockInv, StageInv, NextCrash
    PROVE  LockInv'
<1>1. ASSUME UNCHANGED <<queues, certs>>
      PROVE  LockInv'
  BY <1>1 DEF LockInv, QueuesMatchLocks, PendingOrExecuting, InputObjectsExact,
              NoLeakedQueue, has_readonly, queues, certs
<1>2. ASSUME NEW c \in Task, RegisterCertificates(c)
      PROVE  LockInv'
  <2>1. PICK ord \in Orders(c) : TakeLocks(New(c), Waits(c, ord))
    BY Zenon, <1>2 DEF RegisterCertificates
  <2> QED
    BY Zenon, <2>1, WaitsFacts, TakeLocksInv
<1>3. ASSUME NEW t \in Tx, NotifyCommit(t)
      PROVE  LockInv'
  <2>1. t \in executing /\ try_acquire_lock(t, Outputs[t] \cup Release(t))
    BY Zenon, <1>3 DEF NotifyCommit, StageInv
  <2> QED
    BY Zenon, <2>1, CommitKeys, NotifyQueues, NotifyCounters DEF LockInv
<1>4. ASSUME Restart
      PROVE  LockInv'
  <2>1. InnerNew
    BY Zenon, <1>4 DEF Restart
  <2>2. \A i : Cardinality(Waiting(acquiring', i)) = 0
    BY Zenon, <2>1, NobodyWaits DEF InnerNew
  <2>3. InputObjectsExact'
    BY Zenon, <2>1, <2>2 DEF InnerNew, InputObjectsExact, Waiting
  <2>4. QueuesMatchLocks' /\ PendingOrExecuting' /\ NoLeakedQueue'
    BY Zenon, <2>1 DEF InnerNew, QueuesMatchLocks, PendingOrExecuting, NoLeakedQueue, has_readonly
  <2> QED
    BY Zenon, <2>3, <2>4 DEF LockInv
<1>5. CASE ConsensusCommit \/ ScheduleTransactions \/ ExecuteCheckpoint
  BY Zenon, <1>1, <1>5 DEF ConsensusCommit, ScheduleTransactions, ExecuteCheckpoint, inner
<1>6. ASSUME NEW c \in Task,
             ExecuteCertificate(c) \/ ReadCache(c) \/ \E k \in Key : ReadDb(c, k)
      PROVE  LockInv'
  BY Zenon, <1>1, <1>6 DEF ExecuteCertificate, ReadCache, ReadDb, inner
<1>7. ASSUME NEW t \in Tx,
             Dispatch(t) \/ CommitCertificate(t) \/ RemovePendingExecution(t)
      PROVE  LockInv'
  BY Zenon, <1>1, <1>7 DEF Dispatch, CommitCertificate, RemovePendingExecution, inner
<1> QED
  BY ZenonT(60), <1>2, <1>3, <1>4, <1>5, <1>6, <1>7 DEF NextCrash, Next, Enqueue, Execute, Task
-----------------------------------------------------------------------------
\* Every step keeps the stages of the driver in agreement with the manager.
LEMMA StageStep ==
    ASSUME TypeOK, LockInv, StageInv, NextCrash
    PROVE  StageInv'
<1>1. ASSUME UNCHANGED <<executed, pending, executing, stage>>
      PROVE  StageInv'
  BY Zenon, <1>1 DEF StageInv
<1>2. ASSUME NEW c \in Task, RegisterCertificates(c)
      PROVE  StageInv'
  <2>1. PICK ord \in Orders(c) : TakeLocks(New(c), Waits(c, ord))
    BY Zenon, <1>2 DEF RegisterCertificates
  <2>2. New(c) \cap executed = {} /\ executed' = executed
    BY Zenon, <1>2 DEF New, RegisterCertificates, db
  <2> QED
    BY Zenon, <2>1, <2>2 DEF TypeOK, StageInv, TakeLocks
<1>3. ASSUME NEW t \in Tx, NotifyCommit(t)
      PROVE  StageInv'
  <2> DEFINE R == Ready(t, Outputs[t] \cup Release(t))
  <2>1. /\ pending' = pending \ R /\ executing' = (executing \ {t}) \cup R
        /\ stage' = [u \in Tx |-> IF u = t THEN "cleanup"
                                  ELSE IF u \in R THEN "queued" ELSE stage[u]]
        /\ executed' = executed /\ R \subseteq pending /\ stage[t] = "committed"
    BY Zenon, <1>3 DEF NotifyCommit, try_acquire_lock, Ready, db
  <2> HIDE DEF R
  <2> QED
    BY <2>1 DEF TypeOK, StageInv
<1>4. ASSUME Restart
      PROVE  StageInv'
  BY Zenon, <1>4 DEF Restart, InnerNew, StageInv
<1>5. CASE ConsensusCommit \/ ScheduleTransactions \/ ExecuteCheckpoint
  BY Zenon, <1>1, <1>5 DEF ConsensusCommit, ScheduleTransactions, ExecuteCheckpoint, inner,
                    certs, db
<1>6. ASSUME NEW c \in Task,
             ExecuteCertificate(c) \/ ReadCache(c) \/ \E k \in Key : ReadDb(c, k)
      PROVE  StageInv'
  BY Zenon, <1>1, <1>6 DEF ExecuteCertificate, ReadCache, ReadDb, inner, certs, db
<1>7. ASSUME NEW t \in Tx, Dispatch(t)
      PROVE  StageInv'
  <2>1. /\ executed' = executed /\ pending' = pending /\ executing' = executing
        /\ stage[t] = "queued"
        /\ stage' = [stage EXCEPT ![t] = IF t \in executed THEN "idle" ELSE "running"]
    BY Zenon, <1>7 DEF Dispatch, inner, certs, db
  <2> QED
    BY <2>1 DEF TypeOK, StageInv
<1>8. ASSUME NEW t \in Tx, CommitCertificate(t)
      PROVE  StageInv'
  <2>1. /\ executed' = executed \cup {t} /\ pending' = pending /\ executing' = executing
        /\ stage[t] = "running" /\ stage' = [stage EXCEPT ![t] = "committed"]
    BY Zenon, <1>8 DEF CommitCertificate, inner, certs
  <2>2. t \in executing /\ t \notin pending
    BY Zenon, <2>1 DEF StageInv, LockInv, PendingOrExecuting
  <2> QED
    BY <2>1, <2>2 DEF TypeOK, StageInv
<1>9. ASSUME NEW t \in Tx, RemovePendingExecution(t)
      PROVE  StageInv'
  <2>1. /\ executed' = executed /\ pending' = pending /\ executing' = executing
        /\ stage' = [stage EXCEPT ![t] = "idle"]
    BY Zenon, <1>9 DEF RemovePendingExecution, inner, certs, db
  <2> QED
    BY Zenon, <2>1 DEF TypeOK, StageInv
<1> QED
  BY Zenon, <1>2, <1>3, <1>4, <1>5, <1>6, <1>7, <1>8, <1>9
     DEF NextCrash, Next, Enqueue, Execute, Task

\* An executing certificate has acquired all its inputs.
LEMMA ExecutingAcquired ==
    ASSUME LockInv, NEW t \in Tx, t \in executing
    PROVE  acquired[t] = Inputs(t)
BY Zenon DEF LockInv, PendingOrExecuting

-----------------------------------------------------------------------------
(* Storage and the recovery log *)

\* A version of an object is in storage only with all the versions below it.
DownwardClosed ==
    \A l \in objects, k \in Key : SameId(k, l) /\ VerOf[k] < VerOf[l] => k \in objects

\* The cache knows only what is in storage.
CacheTrue ==
    /\ \A i \in ObjectID : versioned_cache[i] > 0 =>
           \E k \in objects : IdOf[k] = i /\ VerOf[k] = versioned_cache[i]
    /\ \A k \in Key : VerOf[k] = 0 /\ IdOf[k] \in unversioned_cache => k \in objects

\* What a call of enqueue has found available, what certificates have acquired
\* and what a commit is about to announce is in storage.
StorageInv ==
    /\ DownwardClosed /\ CacheTrue
    /\ \A c \in Task, k \in Key : avail[c][k] \in {InCache, InDb} => k \in objects
    /\ \A t \in Tx : acquired[t] \subseteq objects
    /\ \A t \in Tx : stage[t] = "committed" => Outputs[t] \subseteq objects

\* A task that is not in a call has no batch, and the recovery log has
\* certificates of the current epoch.
LogInv ==
    /\ RecoveryLogComplete /\ NeverForgotten
    /\ \A c \in Task : pc[c] = "idle" => batch[c] = {}
    /\ \A t \in pending_execution : EpochOf[t] = epoch
-----------------------------------------------------------------------------
\* A key the cache answers for is in storage: it knows of a version at least as
\* high, and storage has the versions below it.
LEMMA CachedInStorage ==
    ASSUME TypeOK, StorageInv, NEW k \in Key, cached(k) = InCache
    PROVE  k \in objects
<1>0. IdOf[k] \in ObjectID /\ VerOf[k] \in Nat /\ versioned_cache[IdOf[k]] \in Nat
  BY Zenon, ConstantsAssumption DEF TypeOK
<1>1. CASE VerOf[k] > 0
  <2>1. versioned_cache[IdOf[k]] # 0 /\ versioned_cache[IdOf[k]] >= VerOf[k]
    BY Zenon, <1>0, <1>1 DEF cached, InCache, Unknown, Missing
  <2>2. PICK l \in objects : IdOf[l] = IdOf[k] /\ VerOf[l] = versioned_cache[IdOf[k]]
    <3>1. versioned_cache[IdOf[k]] > 0
      BY <1>0, <2>1
    <3> QED
      BY Zenon, <1>0, <3>1 DEF StorageInv, CacheTrue
  <2>3. l \in Key /\ VerOf[l] \in Nat
    BY Zenon, ConstantsAssumption DEF TypeOK
  <2>4. CASE VerOf[k] < VerOf[l]
    BY Zenon, <2>2, <2>4 DEF StorageInv, DownwardClosed, SameId
  <2>5. CASE VerOf[k] = VerOf[l]
    BY Zenon, <2>2, <2>3, <2>5, KeyAssumption DEF SameId
  <2> QED
    BY <1>0, <2>1, <2>2, <2>3, <2>4, <2>5
<1>2. CASE VerOf[k] = 0
  <2>1. IdOf[k] \in unversioned_cache
    BY <1>2 DEF cached, InCache, Unknown
  <2> QED
    BY Zenon, <1>2, <2>1 DEF StorageInv, CacheTrue
<1> QED
  BY <1>0, <1>1, <1>2

\* Insertions into the cache (AvailableObjectsCache::insert), evictions included,
\* leave it with versions that are in storage.
LEMMA CacheInsert ==
    ASSUME TypeOK, CacheTrue, NEW K, K \subseteq objects, cache_insert(K),
           objects' = objects
    PROVE  /\ versioned_cache' \in [ObjectID -> Nat]
           /\ unversioned_cache' \subseteq ObjectID
           /\ CacheTrue'
<1>0. K \subseteq Key
  BY Zenon DEF TypeOK
<1> DEFINE versioned == {k \in K : VerOf[k] > 0}
           ids == {i \in ObjectID : versioned_cache[i] > 0} \cup Touched(versioned)
           packages == unversioned_cache \cup Touched(K \ versioned)
           new(i, gone) == {k \in versioned :
                              IdOf[k] = i /\ (i \in gone \/ VerOf[k] > versioned_cache[i])}
<1>1. PICK kept \in Kept(ids, Touched(versioned)),
           us \in Kept(packages, Touched(K \ versioned)),
           gone \in IF MayEvict(ids) THEN SUBSET Touched(versioned) ELSE {{}} :
         /\ versioned_cache' = [i \in ObjectID |->
               IF i \notin kept THEN 0
               ELSE IF new(i, gone) = {} THEN versioned_cache[i]
               ELSE VerOf[CHOOSE k \in new(i, gone) : TRUE]]
         /\ unversioned_cache' = us
  BY Zenon DEF cache_insert
<1>2. us \subseteq packages
  BY Zenon, <1>1 DEF Kept
<1>3. packages \subseteq ObjectID
  BY <1>0, ConstantsAssumption DEF TypeOK, Touched
<1>4. \A k \in Key : VerOf[k] = 0 /\ IdOf[k] \in unversioned_cache' => k \in objects'
  <2> SUFFICES ASSUME NEW k \in Key, VerOf[k] = 0, IdOf[k] \in packages
               PROVE  k \in objects
    BY Zenon, <1>1, <1>2
  <2>1. CASE IdOf[k] \in unversioned_cache
    BY Zenon, <2>1 DEF CacheTrue
  <2>2. CASE IdOf[k] \in Touched(K \ versioned)
    <3>1. PICK l \in K \ versioned : IdOf[l] = IdOf[k]
      BY Zenon, <2>2 DEF Touched
    <3>2. VerOf[l] = 0 /\ l \in Key
      BY <1>0, ConstantsAssumption
    <3> QED
      BY Zenon, <3>1, <3>2, KeyAssumption DEF SameId
  <2> QED
    BY Zenon, <2>1, <2>2
<1>5. ASSUME NEW i \in ObjectID
      PROVE  /\ versioned_cache'[i] \in Nat
             /\ versioned_cache'[i] > 0 =>
                  \E k \in objects : IdOf[k] = i /\ VerOf[k] = versioned_cache'[i]
  <2>1. CASE i \notin kept
    BY <1>1, <2>1
  <2>2. CASE i \in kept /\ new(i, gone) = {}
    <3>1. versioned_cache'[i] = versioned_cache[i]
      BY Zenon, <1>1, <2>2
    <3> QED
      BY Zenon, <3>1 DEF TypeOK, CacheTrue
  <2>3. CASE i \in kept /\ new(i, gone) # {}
    <3> DEFINE k == CHOOSE k \in new(i, gone) : TRUE
    <3>1. k \in new(i, gone)
      BY Zenon, <2>3
    <3>2. versioned_cache'[i] = VerOf[k]
      BY Zenon, <1>1, <2>3
    <3> HIDE DEF k
    <3> QED
      BY Zenon, <1>0, <3>1, <3>2, ConstantsAssumption
  <2> QED
    BY Zenon, <2>1, <2>2, <2>3
<1>6. versioned_cache' \in [ObjectID -> Nat]
  BY Zenon, <1>1, <1>5
<1> QED
  BY Zenon, <1>1, <1>2, <1>3, <1>4, <1>5, <1>6 DEF CacheTrue

\* A commit adds outputs whose lower versions are in storage already.
LEMMA CommitClosed ==
    ASSUME TypeOK, DownwardClosed, NEW t \in Tx, Inputs(t) \subseteq objects,
           objects' = objects \cup Outputs[t]
    PROVE  DownwardClosed'
<1> SUFFICES ASSUME NEW l \in objects', NEW k \in Key, SameId(k, l), VerOf[k] < VerOf[l]
             PROVE  k \in objects'
  BY Zenon DEF DownwardClosed, SameId
<1>1. CASE l \in objects
  BY Zenon, <1>1 DEF DownwardClosed
<1>2. CASE l \in Outputs[t]
  <2>1. PICK m \in Inputs(t) : SameId(k, m) /\ VerOf[k] <= VerOf[m]
    BY Zenon, <1>2, WorkloadOrder
  <2>2. m \in Key /\ m \in objects /\ VerOf[m] \in Nat /\ VerOf[k] \in Nat
    BY Zenon, ConstantsAssumption DEF TypeOK
  <2>3. CASE VerOf[k] = VerOf[m]
    BY Zenon, <2>1, <2>2, <2>3, KeyAssumption
  <2>4. CASE VerOf[k] < VerOf[m]
    BY Zenon, <2>1, <2>2, <2>4 DEF DownwardClosed
  <2> QED
    BY <2>1, <2>2, <2>3, <2>4
<1> QED
  BY Zenon, <1>1, <1>2

\* No step makes the manager believe in an object that is not in storage.
LEMMA StorageStep ==
    ASSUME TypeOK, LockInv, StageInv, StorageInv, NextCrash
    PROVE  StorageInv'
<1>1. ASSUME UNCHANGED <<objects, cache, avail, acquired>>,
             \A t \in Tx : stage'[t] = "committed" => stage[t] = "committed"
      PROVE  StorageInv'
  BY Zenon, <1>1 DEF StorageInv, DownwardClosed, CacheTrue, SameId, cache
<1>2. ASSUME NEW c \in Task, RegisterCertificates(c)
      PROVE  StorageInv'
  <2>1. PICK ord \in Orders(c) : TakeLocks(New(c), Waits(c, ord))
    BY Zenon, <1>2 DEF RegisterCertificates
  <2>2. /\ objects' = objects /\ versioned_cache' = versioned_cache
        /\ avail' = [avail EXCEPT ![c] = EmptyAvail]
        /\ unversioned_cache' = unversioned_cache \cup
              {IdOf[k] : k \in {l \in Key : VerOf[l] = 0 /\ avail[c][l] = InDb}}
        /\ \A k \in Needed(batch[c]) : avail[c][k] # Unknown
    BY Zenon, <1>2 DEF RegisterCertificates, Return, db, LookedUp
  <2>3. DownwardClosed'
    BY ZenonT(60), <2>2 DEF StorageInv, DownwardClosed, SameId
  <2>4. CacheTrue'
    <3>1. ASSUME NEW k \in Key, VerOf[k] = 0, IdOf[k] \in unversioned_cache'
          PROVE  k \in objects
      <4>1. CASE IdOf[k] \in unversioned_cache
        BY Zenon, <3>1, <4>1 DEF StorageInv, CacheTrue
      <4>2. CASE IdOf[k] \notin unversioned_cache
        <5>1. PICK l \in Key : VerOf[l] = 0 /\ avail[c][l] = InDb /\ IdOf[l] = IdOf[k]
          BY Zenon, <2>2, <3>1, <4>2
        <5>2. l = k
          BY Zenon, <3>1, <5>1, KeyAssumption DEF SameId
        <5> QED
          BY Zenon, <5>1, <5>2 DEF StorageInv
      <4> QED
        BY ZenonT(60), <4>1, <4>2
    <3> QED
      BY Zenon, <2>2, <3>1 DEF StorageInv, CacheTrue
  <2>5. \A d \in Task, k \in Key : avail'[d][k] \in {InCache, InDb} => k \in objects
    BY Zenon, <2>2 DEF TypeOK, StorageInv, EmptyAvail, InCache, InDb, Unknown
  <2>6. ASSUME NEW t \in Tx PROVE acquired'[t] \subseteq objects
    <3>1. CASE t \notin New(c)
      BY Zenon, <2>1, <3>1 DEF TypeOK, TakeLocks, StorageInv
    <3>2. CASE t \in New(c)
      <4> SUFFICES ASSUME NEW k \in Inputs(t), k \notin MustWait(c, t, ord)
                   PROVE  k \in objects
        BY Zenon, <2>1, <3>2 DEF TakeLocks, Waits
      <4>1. ~StillMissing(c, k) /\ k \in Key
        BY Zenon, ConstantsAssumption DEF MustWait, Inputs
      <4>2. avail[c][k] # Unknown
        BY Zenon, <2>2, <3>2 DEF New, Needed
      <4>3. CASE cached(k) = InCache
        BY Zenon, <4>1, <4>3, CachedInStorage
      <4>4. CASE avail[c][k] # Missing
        <5>1. avail[c][k] \in {Unknown, InCache, InDb, Missing}
          BY <4>1 DEF TypeOK
        <5> QED
          BY Zenon, <4>1, <4>2, <4>4, <5>1 DEF StorageInv
      <4> QED
        BY Zenon, <4>1, <4>3, <4>4 DEF StillMissing
    <3> QED
      BY Zenon, <3>1, <3>2
  <2>7. \A t \in Tx : stage'[t] = "committed" => stage[t] = "committed"
    BY ZenonT(60), <2>1 DEF TakeLocks
  <2> QED
    BY Zenon, <2>2, <2>3, <2>4, <2>5, <2>6, <2>7 DEF StorageInv
<1>3. ASSUME NEW t \in Tx, NotifyCommit(t)
      PROVE  StorageInv'
  <2> DEFINE K == Outputs[t] \cup Release(t)
  <2>1. K \subseteq objects
    BY Zenon, <1>3 DEF NotifyCommit, StorageInv, Release
  <2>2. cache_insert(K) /\ objects' = objects /\ avail' = avail
    BY Zenon, <1>3 DEF NotifyCommit, try_acquire_lock, db, calls
  <2>3. \A u \in Tx : acquired'[u] \subseteq acquired[u] \cup K
    BY Zenon, <1>3 DEF NotifyCommit, try_acquire_lock, Got
  <2>4. \A u \in Tx : stage'[u] = "committed" => stage[u] = "committed"
    BY Zenon, <1>3 DEF NotifyCommit, try_acquire_lock
  <2> HIDE DEF K
  <2>5. CacheTrue'
    BY Zenon, <2>1, <2>2, CacheInsert DEF StorageInv
  <2> QED
    BY Zenon, <2>1, <2>2, <2>3, <2>4, <2>5 DEF StorageInv, DownwardClosed, SameId
<1>4. ASSUME Restart
      PROVE  StorageInv'
  <2>1. DownwardClosed' /\ CacheTrue'
    <3>1. /\ objects' = objects /\ DownwardClosed
          /\ versioned_cache' = [i \in ObjectID |-> 0] /\ unversioned_cache' = {}
      BY Zenon, <1>4 DEF Restart, InnerNew, StorageInv, db
    <3>2. DownwardClosed'
      BY Zenon, <3>1 DEF DownwardClosed, SameId
    <3> QED
      BY <3>1, <3>2 DEF CacheTrue
  <2>2. \A c \in Task, k \in Key : avail'[c][k] = Unknown
    BY Zenon, <1>4 DEF Restart, EmptyAvail
  <2>3. \A t \in Tx : acquired'[t] = {} /\ stage'[t] = "idle"
    BY Zenon, <1>4 DEF Restart, InnerNew
  <2> QED
    BY Zenon, <2>1, <2>2, <2>3 DEF StorageInv, Unknown, InCache, InDb
<1>5. CASE ConsensusCommit \/ ScheduleTransactions \/ ExecuteCheckpoint
  BY Zenon, <1>1, <1>5 DEF ConsensusCommit, ScheduleTransactions, ExecuteCheckpoint, inner,
                    certs, db, calls
<1>6. ASSUME NEW c \in Task, ExecuteCertificate(c)
      PROVE  StorageInv'
  BY Zenon, <1>1, <1>6 DEF ExecuteCertificate, inner, certs, db
<1>7. ASSUME NEW c \in Task, ReadCache(c)
      PROVE  StorageInv'
  <2>1. UNCHANGED <<objects, cache, acquired, stage>>
    BY Zenon, <1>7 DEF ReadCache, db, certs
  <2>2. ASSUME NEW d \in Task, NEW k \in Key, avail'[d][k] \in {InCache, InDb}
        PROVE  k \in objects
    <3>1. CASE avail'[d][k] = avail[d][k]
      BY Zenon, <2>2, <3>1 DEF StorageInv
    <3>2. CASE avail'[d][k] # avail[d][k]
      <4>1. avail'[d][k] = cached(k)
        BY Zenon, <1>7, <2>2, <3>2 DEF ReadCache, TypeOK, Unknown, InCache, InDb
      <4>2. cached(k) = InCache
        BY Zenon, <2>2, <4>1 DEF cached, Unknown, InCache, InDb, Missing
      <4> QED
        BY Zenon, <4>2, CachedInStorage
    <3> QED
      BY Zenon, <3>1, <3>2
  <2> QED
    BY Zenon, <2>1, <2>2 DEF StorageInv, DownwardClosed, CacheTrue, SameId, cache
<1>8. ASSUME NEW c \in Task, NEW l \in Key, ReadDb(c, l)
      PROVE  StorageInv'
  <2>1. UNCHANGED <<objects, cache, acquired, stage>>
    BY Zenon, <1>8 DEF ReadDb, db, inner, certs
  <2>2. ASSUME NEW d \in Task, NEW k \in Key, avail'[d][k] \in {InCache, InDb}
        PROVE  k \in objects
    BY ZenonT(60), <1>8, <2>2 DEF ReadDb, TypeOK, StorageInv, InCache, InDb, Missing
  <2> QED
    BY Zenon, <2>1, <2>2 DEF StorageInv, DownwardClosed, CacheTrue, SameId, cache
<1>9. ASSUME NEW t \in Tx, Dispatch(t) \/ RemovePendingExecution(t)
      PROVE  StorageInv'
  BY Zenon, <1>1, <1>9 DEF Dispatch, RemovePendingExecution, inner, certs, db, calls, TypeOK
<1>10. ASSUME NEW t \in Tx, CommitCertificate(t)
       PROVE  StorageInv'
  <2>1. /\ UNCHANGED <<cache, acquired, avail>> /\ objects' = objects \cup Outputs[t]
        /\ stage' = [stage EXCEPT ![t] = "committed"]
    BY Zenon, <1>10 DEF CommitCertificate, inner, certs, calls
  <2>2. Inputs(t) \subseteq objects
    BY Zenon, <1>10, ExecutingAcquired DEF CommitCertificate, StageInv, StorageInv
  <2>3. DownwardClosed'
    BY Zenon, <2>1, <2>2, CommitClosed DEF StorageInv
  <2> QED
    BY Zenon, <2>1, <2>3 DEF TypeOK, StorageInv, CacheTrue, cache
<1> QED
  BY Zenon, <1>2, <1>3, <1>4, <1>5, <1>6, <1>7, <1>8, <1>9, <1>10
     DEF NextCrash, Next, Enqueue, Execute, Task
-----------------------------------------------------------------------------
\* A call of enqueue takes over the certificates it is given.
LEMMA CallLog ==
    ASSUME TypeOK, LogInv, NEW c \in Task, pc[c] = "idle", NEW S, S \subseteq Tx,
           Call(c, S), channel \subseteq channel' \cup S,
           UNCHANGED <<executed, sequenced, pending, executing, epoch, panicked>>
    PROVE  LogInv'
<1>1. /\ batch' = [batch EXCEPT ![c] = S \ executed] /\ pc' = [pc EXCEPT ![c] = "cache"]
      /\ pending_execution' = pending_execution \ (S \cap executed) /\ batch[c] = {}
  BY Zenon DEF Call, LogInv
<1>2. \A d \in Task : batch[d] \subseteq batch'[d]
  BY Zenon, <1>1 DEF TypeOK
<1>2a. S \ executed \subseteq batch'[c]
  BY Zenon, <1>1 DEF TypeOK
<1>3. RecoveryLogComplete'
  BY Zenon, <1>1 DEF LogInv, RecoveryLogComplete
<1>4. NeverForgotten'
  <2> SUFFICES ASSUME ~panicked, NEW t \in pending_execution \ executed
               PROVE  \/ t \in channel' \cup pending \cup executing
                      \/ \E d \in Task : t \in batch'[d]
    BY Zenon, <1>1 DEF NeverForgotten
  <2>1. \/ t \in channel \cup pending \cup executing
        \/ \E d \in Task : t \in batch[d]
    BY DEF LogInv, NeverForgotten
  <2> QED
    BY Zenon, <1>2, <1>2a, <2>1
<1> QED
  BY Zenon, <1>1, <1>3, <1>4 DEF TypeOK, LogInv

\* No step loses a certificate of the recovery log.
LEMMA LogStep ==
    ASSUME TypeOK, LockInv, StageInv, LogInv, NextCrash
    PROVE  LogInv'
<1>1. ASSUME UNCHANGED <<sequenced, channel, pc, batch, epoch, panicked>>,
             executed \subseteq executed',
             pending \cup executing \subseteq pending' \cup executing' \cup executed',
             pending_execution' \subseteq pending_execution,
             pending_execution \subseteq pending_execution' \cup executed'
      PROVE  LogInv'
  BY ZenonT(60), <1>1 DEF LogInv, RecoveryLogComplete, NeverForgotten
<1>2. ASSUME NEW c \in Task, RegisterCertificates(c)
      PROVE  LogInv'
  <2>1. PICK ord \in Orders(c) : TakeLocks(New(c), Waits(c, ord))
    BY Zenon, <1>2 DEF RegisterCertificates
  <2>2. /\ UNCHANGED <<executed, sequenced, channel, epoch, panicked>>
        /\ batch' = [batch EXCEPT ![c] = {}] /\ pc' = [pc EXCEPT ![c] = "idle"]
        /\ \/ pending_execution' = pending_execution \ Skipped(c)
           \/ pending_execution' = pending_execution
    BY Zenon, <1>2 DEF RegisterCertificates, Return, db, sources, node
  <2>3. pending \cup executing \cup New(c) \subseteq pending' \cup executing'
    BY Zenon, <2>1 DEF TakeLocks
  <2>4. RecoveryLogComplete'
    BY Zenon, <2>2 DEF LogInv, RecoveryLogComplete, Skipped
  <2>5. ASSUME ~panicked', NEW t \in pending_execution' \ executed'
        PROVE  t \in channel' \cup pending' \cup executing' \cup UNION {batch'[d] : d \in Task}
    <3>1. t \in channel \cup pending \cup executing \cup UNION {batch[d] : d \in Task}
      BY Zenon, <2>2, <2>5 DEF LogInv, NeverForgotten
    <3>2. CASE t \in batch[c]
      <4>1. EpochOf[t] = epoch /\ t \notin executed
        BY Zenon, <2>2, <2>5 DEF LogInv
      <4> QED
        BY Zenon, <2>3, <3>2, <4>1 DEF New, Known
    <3>3. CASE t \notin batch[c]
      BY <2>2, <2>3, <3>1, <3>3 DEF TypeOK
    <3> QED
      BY Zenon, <3>2, <3>3
  <2> QED
    BY Zenon, <2>2, <2>4, <2>5 DEF TypeOK, LogInv, NeverForgotten
<1>3. ASSUME NEW t \in Tx, NotifyCommit(t)
      PROVE  LogInv'
  <2>1. pending \cup executing \subseteq pending' \cup executing' \cup executed'
    BY Zenon, <1>3 DEF NotifyCommit, try_acquire_lock, StageInv, db
  <2> QED
    BY Zenon, <1>1, <1>3, <2>1 DEF NotifyCommit, db, sources, calls, node
<1>4. ASSUME Restart
      PROVE  LogInv'
  <2>1. /\ UNCHANGED <<executed, sequenced, epoch>>
        /\ pending_execution' = pending_execution \ executed
        /\ batch' = [c \in Task |-> IF c = Recovery THEN pending_execution \ executed
                                                    ELSE {}]
        /\ pc' = [c \in Task |-> IF c = Recovery THEN "cache" ELSE "idle"]
    BY Zenon, <1>4 DEF Restart, db, all_pending_execution
  <2>2. UNION {batch'[c] : c \in Task} = pending_execution \ executed
    BY Zenon, <2>1 DEF Task
  <2> QED
    BY Zenon, <2>1, <2>2 DEF LogInv, RecoveryLogComplete, NeverForgotten
<1>5. CASE ConsensusCommit
  <2>1. PICK S \in SUBSET {t \in Tx \ sequenced : EpochOf[t] = epoch} :
           /\ pending_execution' = pending_execution \cup S
           /\ sequenced' = sequenced \cup S /\ channel' = channel \cup S
    BY Zenon, <1>5 DEF ConsensusCommit, NextBatches
  <2>2. UNCHANGED <<executed, pending, executing, pc, batch, epoch, panicked>>
    BY Zenon, <1>5 DEF ConsensusCommit, db, inner, certs, calls, node
  <2>3. RecoveryLogComplete'
    BY ZenonT(60), <2>1, <2>2 DEF LogInv, RecoveryLogComplete
  <2>4. NeverForgotten'
    BY ZenonT(60), <2>1, <2>2 DEF LogInv, NeverForgotten
  <2> QED
    BY Zenon, <2>1, <2>2, <2>3, <2>4 DEF LogInv
<1>6. CASE ScheduleTransactions
  <2>1. PICK S \in NextBatches(channel) : channel' = channel \ S /\ Call(Scheduler, S)
    BY Zenon, <1>6 DEF ScheduleTransactions
  <2>2. S \subseteq Tx /\ channel \subseteq channel' \cup S
    BY Zenon, <2>1 DEF NextBatches, TypeOK
  <2>3. /\ UNCHANGED <<executed, sequenced, pending, executing, epoch, panicked>>
        /\ pc[Scheduler] = "idle" /\ Scheduler \in Task
    BY Zenon, <1>6 DEF ScheduleTransactions, db, inner, certs, node, Task
  <2> QED
    BY Zenon, <2>1, <2>2, <2>3, CallLog
<1>7. CASE ExecuteCheckpoint
  <2>1. PICK S \in SUBSET Tx : Call(Executor, S \ executed)
    BY Zenon, <1>7 DEF ExecuteCheckpoint, NextBatches
  <2>2. /\ UNCHANGED <<executed, sequenced, channel, pending, executing, epoch, panicked>>
        /\ pc[Executor] = "idle" /\ Executor \in Task
    BY Zenon, <1>7 DEF ExecuteCheckpoint, db, inner, certs, node, Task
  <2> QED
    BY Zenon, <2>1, <2>2, CallLog
<1>8. ASSUME NEW c \in Task, ExecuteCertificate(c)
      PROVE  LogInv'
  <2>1. PICK t \in Tx : Call(c, {t})
    BY Zenon, <1>8 DEF ExecuteCertificate
  <2>2. /\ UNCHANGED <<executed, sequenced, channel, pending, executing, epoch, panicked>>
        /\ pc[c] = "idle"
    BY Zenon, <1>8 DEF ExecuteCertificate, db, sources, inner, certs, node
  <2> QED
    BY Zenon, <2>1, <2>2, CallLog
<1>9. ASSUME NEW c \in Task, ReadCache(c)
      PROVE  LogInv'
  BY <1>9 DEF ReadCache, db, sources, certs, node, TypeOK, LogInv,
              RecoveryLogComplete, NeverForgotten
<1>10. ASSUME NEW c \in Task, NEW k \in Key, ReadDb(c, k)
       PROVE  LogInv'
  BY Zenon, <1>1, <1>10 DEF ReadDb, db, sources, inner, certs, node
<1>11. ASSUME NEW t \in Tx,
              Dispatch(t) \/ CommitCertificate(t) \/ RemovePendingExecution(t)
       PROVE  LogInv'
  BY Zenon, <1>1, <1>11 DEF Dispatch, CommitCertificate, RemovePendingExecution, db, sources,
                     inner, certs, calls, node, StageInv
<1> QED
  BY Zenon, <1>2, <1>3, <1>4, <1>5, <1>6, <1>7, <1>8, <1>9, <1>10, <1>11
     DEF NextCrash, Next, Enqueue, Execute, Task

\* The inductive invariant.
IInv == TypeOK /\ LockInv /\ StageInv /\ StorageInv /\ LogInv
-----------------------------------------------------------------------------
\* The counters are natural numbers because they count locks.
LEMMA CountersNat ==
    ASSUME LockInv', NEW f, input_objects' = [i \in ObjectID |-> f[i]]
    PROVE  input_objects' \in [ObjectID -> Nat]
<1>1. \A i \in ObjectID : input_objects'[i] = Cardinality(Waiting(acquiring', i))
  BY Zenon DEF LockInv, InputObjectsExact, Waiting
<1>2. \A i \in ObjectID : input_objects'[i] \in Nat
  BY Zenon, <1>1, WaitingFinite
<1> QED
  BY Zenon, <1>2

\* TypeOK by groups of variables.
TypeDb == executed \subseteq Tx /\ objects \subseteq Key

TypeSources == sequenced \subseteq Tx /\ channel \subseteq Tx /\ scheduled \subseteq Tx

TypeQueues ==
    /\ lock_waiters \subseteq Key
    /\ readonly_waiters \in [Key -> SUBSET Tx]
    /\ readonly_holders \in [Key -> SUBSET Tx]
    /\ default_waiters \in [Key -> SUBSET Tx]
    /\ input_objects \in [ObjectID -> Nat]

TypeCache == versioned_cache \in [ObjectID -> Nat] /\ unversioned_cache \subseteq ObjectID

TypeCerts ==
    /\ pending \subseteq Tx /\ executing \subseteq Tx
    /\ acquiring \in [Tx -> SUBSET Key] /\ acquired \in [Tx -> SUBSET Key]

TypePc == pc \in [Task -> {"idle", "cache", "db"}] /\ batch \in [Task -> SUBSET Tx]

TypeAvail == avail \in [Task -> [Key -> {Unknown, InCache, InDb, Missing}]]

TypeStage == stage \in [Tx -> {"idle", "queued", "running", "committed", "cleanup"}]

TypeNode == epoch \in Nat /\ panicked \in BOOLEAN /\ crashes \in Nat

Types ==
    /\ TypeDb /\ TypeSources /\ TypeQueues /\ TypeCache /\ TypeCerts /\ TypePc
    /\ TypeAvail /\ TypeStage /\ TypeNode
    /\ pending_execution \subseteq Tx /\ unbounded_cache_enabled \in Nat
    /\ store_epoch \in [Task -> Nat]

\* A group keeps its type when its variables do not change.
LEMMA TypeFrame ==
    ASSUME TypeOK
    PROVE  /\ Types
           /\ UNCHANGED db => TypeDb' /\ UNCHANGED <<executed, objects>>
           /\ UNCHANGED sources => TypeSources'
           /\ UNCHANGED queues => TypeQueues'
           /\ UNCHANGED cache => TypeCache'
           /\ UNCHANGED certs => TypeCerts'
           /\ UNCHANGED inner =>
                 UNCHANGED <<queues, cache, certs, unbounded_cache_enabled>>
           /\ UNCHANGED calls => TypePc' /\ TypeAvail' /\ UNCHANGED store_epoch
           /\ UNCHANGED <<pc, batch>> => TypePc'
           /\ UNCHANGED avail => TypeAvail'
           /\ UNCHANGED stage => TypeStage'
           /\ UNCHANGED node => TypeNode'
<1>1. Types
  BY Zenon DEF TypeOK, Types, TypeDb, TypeSources, TypeQueues, TypeCache, TypeCerts, TypePc,
         TypeAvail, TypeStage, TypeNode
<1>2. UNCHANGED db => TypeDb' /\ UNCHANGED <<executed, objects>>
  BY Zenon, <1>1 DEF Types, TypeDb, db
<1>3. UNCHANGED sources => TypeSources'
  BY Zenon, <1>1 DEF Types, TypeSources, sources
<1>4. UNCHANGED queues => TypeQueues'
  BY Zenon, <1>1 DEF Types, TypeQueues, queues
<1>5. UNCHANGED cache => TypeCache'
  BY Zenon, <1>1 DEF Types, TypeCache, cache
<1>6. UNCHANGED certs => TypeCerts'
  BY Zenon, <1>1 DEF Types, TypeCerts, certs
<1>7. UNCHANGED inner => UNCHANGED <<queues, cache, certs, unbounded_cache_enabled>>
  BY Zenon DEF inner
<1>8. UNCHANGED <<pc, batch>> => TypePc'
  BY Zenon, <1>1 DEF Types, TypePc
<1>9. UNCHANGED avail => TypeAvail'
  BY Zenon, <1>1 DEF Types, TypeAvail
<1>10. UNCHANGED calls => TypePc' /\ TypeAvail' /\ UNCHANGED store_epoch
  BY Zenon, <1>8, <1>9 DEF calls
<1>11. UNCHANGED stage => TypeStage'
  BY Zenon, <1>1 DEF Types, TypeStage
<1>12. UNCHANGED node => TypeNode'
  BY Zenon, <1>1 DEF Types, TypeNode, node
<1> QED
  BY Zenon, <1>1, <1>2, <1>3, <1>4, <1>5, <1>6, <1>7, <1>8, <1>9, <1>10, <1>11, <1>12

\* A call of enqueue is well typed.
LEMMA CallType ==
    ASSUME TypeOK, NEW c \in Task, NEW S, S \subseteq Tx, Call(c, S)
    PROVE  TypePc' /\ store_epoch' \in [Task -> Nat] /\ pending_execution' \subseteq Tx
BY Zenon DEF TypeOK, Call, TypePc

\* Every step preserves the types.
LEMMA TypeStep ==
    ASSUME TypeOK, StorageInv, NextCrash, LockInv'
    PROVE  TypeOK'
<1>0. TypeOK /\ StorageInv /\ Types
  BY Zenon, TypeFrame
<1> SUFFICES Types'
  BY Zenon DEF TypeOK, Types, TypeDb, TypeSources, TypeQueues, TypeCache, TypeCerts, TypePc,
         TypeAvail, TypeStage, TypeNode
<1>1. ASSUME NEW c \in Task, RegisterCertificates(c)
      PROVE  Types'
  <2>1. PICK ord \in Orders(c) : TakeLocks(New(c), Waits(c, ord))
    BY Zenon, <1>1 DEF RegisterCertificates
  <2> DEFINE N == New(c)
             w == Waits(c, ord)
  <2>2. N \subseteq Tx /\ w \in [Tx -> SUBSET Key] /\ TakeLocks(N, w)
    BY Zenon, <1>0, <2>1, WaitsFacts
  <2> HIDE DEF N, w
  <2>3. input_objects' \in [ObjectID -> Nat]
    <3> DEFINE f == [i \in ObjectID |-> input_objects[i] + InputCount(w, i)]
    <3>1. input_objects' = [i \in ObjectID |-> f[i]]
      BY Zenon, <2>2 DEF TakeLocks
    <3> HIDE DEF f
    <3> QED
      BY Zenon, <3>1, CountersNat
  <2>4. TypeQueues'
    <3>1. /\ readonly_waiters' \in [Key -> SUBSET Tx]
          /\ readonly_holders' \in [Key -> SUBSET Tx]
          /\ default_waiters' \in [Key -> SUBSET Tx]
      BY Zenon, <1>0, <2>2 DEF Types, TypeQueues, TakeLocks
    <3>2. lock_waiters' \subseteq Key
      BY <1>0, <2>2, ConstantsAssumption DEF Types, TypeQueues, TakeLocks
    <3> QED
      BY Zenon, <2>3, <3>1, <3>2 DEF TypeQueues
  <2>5. TypeCerts'
    BY Zenon, <1>0, <2>2, ConstantsAssumption DEF Types, TypeCerts, TakeLocks, Inputs
  <2>6. TypeStage'
    BY ZenonT(60), <1>0, <2>2 DEF Types, TypeStage, TakeLocks
  <2>7. TypeCache' /\ unbounded_cache_enabled' \in Nat
    BY <1>0, <1>1, ConstantsAssumption DEF Types, TypeCache, RegisterCertificates
  <2>8. TypePc' /\ TypeAvail' /\ pending_execution' \subseteq Tx
    BY Zenon, <1>0, <1>1 DEF Types, TypePc, TypeAvail, RegisterCertificates, Return, EmptyAvail
  <2>9. UNCHANGED db /\ UNCHANGED sources /\ UNCHANGED node /\ UNCHANGED store_epoch
    BY ZenonT(60), <1>1 DEF RegisterCertificates
  <2> QED
    BY Zenon, <1>0, <2>4, <2>5, <2>6, <2>7, <2>8, <2>9, TypeFrame DEF Types
<1>2. ASSUME NEW t \in Tx, NotifyCommit(t)
      PROVE  Types'
  <2> DEFINE K == Outputs[t] \cup Release(t)
  <2>1. K \subseteq Key /\ K \subseteq objects
    BY Zenon, <1>0, <1>2, CommitKeys DEF NotifyCommit, StorageInv, Release
  <2>2. try_acquire_lock(t, K) /\ objects' = objects
    BY ZenonT(60), <1>2 DEF NotifyCommit, db
  <2> HIDE DEF K
  <2>3. input_objects' \in [ObjectID -> Nat]
    <3> DEFINE f == [i \in ObjectID |-> input_objects[i] -
               Cardinality({p \in Tx \X Key : p[2] \in Got(t, K, p[1]) /\ IdOf[p[2]] = i})]
    <3>1. input_objects' = [i \in ObjectID |-> f[i]]
      BY Zenon, <2>2 DEF try_acquire_lock
    <3> HIDE DEF f
    <3> QED
      BY Zenon, <3>1, CountersNat
  <2>4. TypeCache'
    BY Zenon, <1>0, <2>1, <2>2, CacheInsert DEF try_acquire_lock, StorageInv, TypeCache
  <2>5. TypeQueues'
    <3>1. /\ readonly_waiters' \in [Key -> SUBSET Tx]
          /\ readonly_holders' \in [Key -> SUBSET Tx]
          /\ default_waiters' \in [Key -> SUBSET Tx]
      BY Zenon, <1>0, <2>2 DEF Types, TypeQueues, try_acquire_lock, Held
    <3>2. lock_waiters' \subseteq Key
      BY Zenon, <1>0, <2>2 DEF Types, TypeQueues, try_acquire_lock, QueuesLeft
    <3> QED
      BY Zenon, <2>3, <3>1, <3>2 DEF TypeQueues
  <2>6. TypeCerts'
    BY Zenon, <1>0, <2>1, <2>2 DEF Types, TypeCerts, try_acquire_lock, Got, Ready
  <2>7. TypeStage'
    BY ZenonT(60), <1>0, <2>2 DEF Types, TypeStage, try_acquire_lock
  <2>8. /\ UNCHANGED db /\ UNCHANGED sources /\ UNCHANGED calls /\ UNCHANGED node
        /\ UNCHANGED <<pending_execution, unbounded_cache_enabled>>
    BY Zenon, <1>2 DEF NotifyCommit
  <2> QED
    BY Zenon, <1>0, <2>4, <2>5, <2>6, <2>7, <2>8, TypeFrame DEF Types
<1>3. CASE Restart
  <2>1. all_pending_execution \ executed \subseteq Tx /\ ExecutedCheckpoints \subseteq Tx
    BY Zenon, <1>0 DEF TypeOK, all_pending_execution, ExecutedCheckpoints
  <2>2. TypePc' /\ TypeAvail'
    BY Zenon, <1>3, <2>1 DEF TypePc, TypeAvail, Restart, EmptyAvail
  <2>3. TypeStage' /\ TypeNode' /\ store_epoch' \in [Task -> Nat]
    <3>1. /\ epoch' = epoch /\ panicked' = FALSE /\ crashes' \in {crashes, crashes + 1}
          /\ store_epoch' = [c \in Task |-> epoch] /\ stage' = [t \in Tx |-> "idle"]
      BY Zenon, <1>3 DEF Restart
    <3> QED
      <4>1. panicked' \in BOOLEAN
        BY Zenon, <3>1
      <4>2. TypeStage' /\ store_epoch' \in [Task -> Nat] /\ crashes' \in Nat
        BY <1>0, <3>1 DEF Types, TypeNode, TypeStage
      <4> QED
        BY Zenon, <1>0, <3>1, <4>1, <4>2 DEF Types, TypeNode
  <2>4. TypeQueues' /\ TypeCache' /\ TypeCerts' /\ unbounded_cache_enabled' \in Nat
    BY Zenon, <1>3 DEF Restart, InnerNew, TypeQueues, TypeCache, TypeCerts
  <2>5. TypeSources' /\ pending_execution' \subseteq Tx /\ UNCHANGED db
    BY Zenon, <1>0, <1>3, <2>1 DEF Types, TypeSources, Restart
  <2> QED
    BY Zenon, <1>0, <2>2, <2>3, <2>4, <2>5, TypeFrame DEF Types
<1>4. CASE ConsensusCommit
  <2>1. TypeSources' /\ pending_execution' \subseteq Tx
    BY Zenon, <1>0, <1>4 DEF Types, TypeSources, ConsensusCommit, NextBatches
  <2>2. /\ UNCHANGED db /\ UNCHANGED inner /\ UNCHANGED calls /\ UNCHANGED stage
        /\ UNCHANGED node
    BY Zenon, <1>4 DEF ConsensusCommit
  <2> QED
    BY Zenon, <1>0, <2>1, <2>2, TypeFrame DEF Types
<1>5. CASE ScheduleTransactions
  <2>1. PICK S \in SUBSET Tx : channel' = channel \ S /\ Call(Scheduler, S)
    BY Zenon, <1>0, <1>5 DEF ScheduleTransactions, NextBatches, TypeOK
  <2>2. TypePc' /\ store_epoch' \in [Task -> Nat] /\ pending_execution' \subseteq Tx
    BY Zenon, <1>0, <2>1, CallType DEF Task
  <2>3. TypeSources'
    BY Zenon, <1>0, <1>5, <2>1 DEF Types, TypeSources, ScheduleTransactions
  <2>4. /\ UNCHANGED db /\ UNCHANGED inner /\ UNCHANGED avail /\ UNCHANGED stage
        /\ UNCHANGED node
    BY Zenon, <1>5 DEF ScheduleTransactions
  <2> QED
    BY Zenon, <1>0, <2>2, <2>3, <2>4, TypeFrame DEF Types
<1>6. CASE ExecuteCheckpoint
  <2>1. PICK S \in SUBSET Tx :
           scheduled' = scheduled \cup S /\ Call(Executor, S \ executed)
    BY ZenonT(60), <1>6 DEF ExecuteCheckpoint, NextBatches
  <2>2. TypePc' /\ store_epoch' \in [Task -> Nat] /\ pending_execution' \subseteq Tx
    BY Zenon, <1>0, <2>1, CallType DEF Task
  <2>3. TypeSources'
    BY Zenon, <1>0, <1>6, <2>1 DEF Types, TypeSources, ExecuteCheckpoint
  <2>4. /\ UNCHANGED db /\ UNCHANGED inner /\ UNCHANGED avail /\ UNCHANGED stage
        /\ UNCHANGED node
    BY Zenon, <1>6 DEF ExecuteCheckpoint
  <2> QED
    BY Zenon, <1>0, <2>2, <2>3, <2>4, TypeFrame DEF Types
<1>7. ASSUME NEW c \in Task, ExecuteCertificate(c)
      PROVE  Types'
  <2>1. PICK t \in Tx : Call(c, {t})
    BY Zenon, <1>7 DEF ExecuteCertificate
  <2>2. TypePc' /\ store_epoch' \in [Task -> Nat] /\ pending_execution' \subseteq Tx
    BY Zenon, <1>0, <2>1, CallType
  <2>3. /\ UNCHANGED db /\ UNCHANGED sources /\ UNCHANGED inner /\ UNCHANGED avail
        /\ UNCHANGED stage /\ UNCHANGED node
    BY Zenon, <1>7 DEF ExecuteCertificate
  <2> QED
    BY Zenon, <1>0, <2>2, <2>3, TypeFrame DEF Types
<1>8. ASSUME NEW c \in Task, ReadCache(c)
      PROVE  Types'
  <2>1. \A k \in Key : cached(k) \in {Unknown, InCache, InDb, Missing}
    BY Zenon DEF cached
  <2>2. TypeAvail'
    BY Zenon, <1>0, <1>8, <2>1 DEF Types, TypeAvail, ReadCache
  <2>3. TypePc' /\ unbounded_cache_enabled' \in Nat
    BY <1>0, <1>8 DEF Types, TypePc, ReadCache, UnboundedAfterRead
  <2>4. /\ UNCHANGED db /\ UNCHANGED sources /\ UNCHANGED queues /\ UNCHANGED cache
        /\ UNCHANGED certs /\ UNCHANGED stage /\ UNCHANGED node
        /\ UNCHANGED <<pending_execution, store_epoch>>
    BY ZenonT(60), <1>8 DEF ReadCache
  <2> QED
    BY Zenon, <1>0, <2>2, <2>3, <2>4, TypeFrame DEF Types
<1>9. ASSUME NEW c \in Task, NEW k \in Key, ReadDb(c, k)
      PROVE  Types'
  <2>1. TypeAvail'
    BY Zenon, <1>0, <1>9 DEF Types, TypeAvail, ReadDb
  <2>2. /\ UNCHANGED db /\ UNCHANGED sources /\ UNCHANGED inner /\ UNCHANGED stage
        /\ UNCHANGED node /\ UNCHANGED <<pc, batch>>
        /\ UNCHANGED <<pending_execution, store_epoch>>
    BY Zenon, <1>9 DEF ReadDb
  <2> QED
    BY Zenon, <1>0, <2>1, <2>2, TypeFrame DEF Types
<1>10. ASSUME NEW t \in Tx, Dispatch(t) \/ RemovePendingExecution(t)
       PROVE  Types'
  <2>1. TypeStage' /\ pending_execution' \subseteq Tx
    BY Zenon, <1>0, <1>10 DEF Types, TypeStage, Dispatch, RemovePendingExecution
  <2>2. /\ UNCHANGED db /\ UNCHANGED sources /\ UNCHANGED inner /\ UNCHANGED calls
        /\ UNCHANGED node
    BY Zenon, <1>10 DEF Dispatch, RemovePendingExecution
  <2> QED
    BY Zenon, <1>0, <2>1, <2>2, TypeFrame DEF Types
<1>11. ASSUME NEW t \in Tx, CommitCertificate(t)
       PROVE  Types'
  <2>1. TypeStage' /\ TypeDb'
    BY Zenon, <1>0, <1>11, ConstantsAssumption DEF Types, TypeStage, TypeDb, CommitCertificate
  <2>2. /\ UNCHANGED sources /\ UNCHANGED inner /\ UNCHANGED calls /\ UNCHANGED node
        /\ UNCHANGED pending_execution
    BY Zenon, <1>11 DEF CommitCertificate
  <2> QED
    BY Zenon, <1>0, <2>1, <2>2, TypeFrame DEF Types
<1> QED
  BY Zenon, <1>1, <1>2, <1>3, <1>4, <1>5, <1>6, <1>7, <1>8, <1>9, <1>10, <1>11
     DEF NextCrash, Next, Enqueue, Execute, Task
-----------------------------------------------------------------------------
\* The invariant holds of a node that starts with the genesis objects.
LEMMA IInvInit == Init => IInv
<1> SUFFICES ASSUME Init PROVE IInv
  BY Zenon
<1>1. TypeOK
  BY Zenon, ConstantsAssumption DEF Init, TypeOK, EmptyAvail
<1>2. LockInv
  <2>1. \A i : Cardinality(Waiting(acquiring, i)) = 0
    BY Zenon, NobodyWaits DEF Init
  <2>2. InputObjectsExact
    BY ZenonT(60), <2>1 DEF Init, InputObjectsExact, Waiting
  <2>3. QueuesMatchLocks /\ PendingOrExecuting /\ NoLeakedQueue
    BY Zenon DEF Init, QueuesMatchLocks, PendingOrExecuting, NoLeakedQueue, has_readonly
  <2> QED
    BY Zenon, <2>2, <2>3 DEF LockInv
<1>3. StageInv
  BY Zenon DEF Init, StageInv
<1>4. StorageInv
  <2>1. DownwardClosed
    BY ZenonT(60), WorkloadOrder DEF Init, DownwardClosed
  <2>1a. CacheTrue
    BY DEF Init, CacheTrue
  <2>2. \A c \in Task, k \in Key : avail[c][k] = Unknown
    BY Zenon DEF Init, EmptyAvail
  <2>3. \A t \in Tx : acquired[t] = {} /\ stage[t] = "idle"
    BY Zenon DEF Init
  <2> QED
    BY Zenon, <2>1, <2>1a, <2>2, <2>3 DEF StorageInv, Unknown, InCache, InDb
<1>5. LogInv
  BY Zenon DEF Init, LogInv, RecoveryLogComplete, NeverForgotten
<1> QED
  BY Zenon, <1>1, <1>2, <1>3, <1>4, <1>5 DEF IInv

\* The invariant is inductive.
LEMMA IInvNext == IInv /\ [NextCrash]_vars => IInv'
<1>1. ASSUME IInv, NextCrash PROVE IInv'
  <2>1. LockInv' /\ StageInv' /\ StorageInv' /\ LogInv'
    BY Zenon, <1>1, LockStep, StageStep, StorageStep, LogStep DEF IInv
  <2> QED
    BY Zenon, <1>1, <2>1, TypeStep DEF IInv
<1>2. ASSUME IInv, UNCHANGED vars PROVE IInv'
  <2>1. TypeOK'
    <3>1. /\ TypeOK /\ UNCHANGED db /\ UNCHANGED sources /\ UNCHANGED inner
          /\ UNCHANGED calls /\ UNCHANGED stage /\ UNCHANGED node
          /\ UNCHANGED pending_execution
      BY Zenon, <1>2 DEF IInv, vars
    <3>2. Types'
      BY Zenon, <3>1, TypeFrame DEF Types
    <3> QED
      BY Zenon, <3>2 DEF TypeOK, Types, TypeDb, TypeSources, TypeQueues, TypeCache, TypeCerts,
                  TypePc, TypeAvail, TypeStage, TypeNode
  <2>2. LockInv'
    <3>1. /\ QueuesMatchLocks /\ PendingOrExecuting /\ InputObjectsExact /\ NoLeakedQueue
          /\ UNCHANGED <<lock_waiters, readonly_waiters, readonly_holders, default_waiters,
                         input_objects, pending, executing, acquiring, acquired>>
      BY Zenon, <1>2 DEF IInv, LockInv, vars, inner, queues, certs
    <3>2. QueuesMatchLocks'
      BY Zenon, <3>1 DEF QueuesMatchLocks
    <3>3. PendingOrExecuting'
      BY Zenon, <3>1 DEF PendingOrExecuting
    <3>4. InputObjectsExact'
      BY Zenon, <3>1 DEF InputObjectsExact
    <3>5. NoLeakedQueue'
      BY Zenon, <3>1 DEF NoLeakedQueue, has_readonly
    <3> QED
      BY Zenon, <3>2, <3>3, <3>4, <3>5 DEF LockInv
  <2>3. StageInv' /\ StorageInv'
    BY Zenon, <1>2 DEF IInv, StageInv, StorageInv, DownwardClosed, CacheTrue, SameId, vars, db,
                inner, cache, certs, calls
  <2>4. LogInv'
    BY Zenon, <1>2 DEF IInv, LogInv, RecoveryLogComplete, NeverForgotten, vars, db, sources,
                inner, certs, calls, node
  <2> QED
    BY Zenon, <2>1, <2>2, <2>3, <2>4 DEF IInv
<1> QED
  BY Zenon, <1>1, <1>2

\* The invariant holds throughout, whatever the tasks, commits and crashes do.
THEOREM Invariance == SpecCrash => []IInv
BY IInvInit, IInvNext, PTL DEF SpecCrash

\* The variables keep their types; input_objects never underflows.
THEOREM TypeCorrect == SpecCrash => []TypeOK
<1>1. IInv => TypeOK
  BY Zenon DEF IInv
<1> QED
  BY <1>1, Invariance, PTL

\* Whatever the driver executes finds its inputs in storage.
THEOREM InputsCommitted == SpecCrash => []ReadyInputsCommitted
<1>1. IInv => ReadyInputsCommitted
  BY Zenon, ExecutingAcquired DEF IInv, TypeOK, StorageInv, ReadyInputsCommitted
<1> QED
  BY <1>1, Invariance, PTL

\* The lock queues of transaction_manager.rs agree with the lock sets of the
\* certificates, the counters are exact, and no queue leaks.
THEOREM LocksAgree == SpecCrash => []LockInv
<1>1. IInv => LockInv
  BY Zenon DEF IInv
<1> QED
  BY <1>1, Invariance, PTL

\* The driver never gets a certificate twice or after its effects are stored.
THEOREM DispatchedOnce == SpecCrash => []NoDuplicateDispatch
<1>1. IInv => NoDuplicateDispatch
  BY Zenon DEF IInv, StageInv, NoDuplicateDispatch
<1> QED
  BY <1>1, Invariance, PTL

\* A crash cannot lose a certificate that consensus has output.
THEOREM LogComplete == SpecCrash => []RecoveryLogComplete
<1>1. IInv => RecoveryLogComplete
  BY Zenon DEF IInv, LogInv
<1> QED
  BY <1>1, Invariance, PTL

\* A running node does not forget a certificate of its recovery log.
THEOREM NothingForgotten == SpecCrash => []NeverForgotten
<1>1. IInv => NeverForgotten
  BY Zenon DEF IInv, LogInv
<1> QED
  BY <1>1, Invariance, PTL
-----------------------------------------------------------------------------
\* A Default lock is granted only past all readers, in enqueue_impl and in
\* try_acquire_lock.
LEMMA DefaultStepHolds == ASSUME IInv, [NextCrash]_vars PROVE [DefaultStep]_vars
<1>0. TypeOK /\ QueuesMatchLocks
  BY Zenon DEF IInv, LockInv
<1>1. ASSUME \A t \in Tx : acquired'[t] \subseteq acquired[t] PROVE DefaultStep
  BY Zenon, <1>1 DEF DefaultStep
<1>2. ASSUME NEW c \in Task, RegisterCertificates(c)
      PROVE  DefaultStep
  <2>1. PICK ord \in Orders(c) : TakeLocks(New(c), Waits(c, ord))
    BY Zenon, <1>2 DEF RegisterCertificates
  <2> SUFFICES ASSUME NEW t \in Tx, NEW k \in (acquired'[t] \ acquired[t]) \cap DefKeys[t]
               PROVE  readonly_waiters[k] = {} /\ readonly_holders[k] = {}
    BY Zenon DEF DefaultStep
  <2>2. t \in New(c) /\ k \in Inputs(t) /\ k \notin MustWait(c, t, ord)
    BY Zenon, <1>0, <2>1 DEF TypeOK, TakeLocks, Waits
  <2> QED
    BY Zenon, <2>2 DEF MustWait, has_readonly
<1>3. ASSUME NEW t \in Tx, NotifyCommit(t)
      PROVE  DefaultStep
  <2> DEFINE K == Outputs[t] \cup Release(t)
  <2>1. try_acquire_lock(t, K) /\ K \subseteq Key
    BY Zenon, <1>0, <1>3, CommitKeys DEF NotifyCommit
  <2> HIDE DEF K
  <2> SUFFICES ASSUME NEW u \in Tx, NEW k \in (acquired'[u] \ acquired[u]) \cap DefKeys[u]
               PROVE  readonly_waiters[k] = {} /\ readonly_holders[k] \cap readonly_holders'[k] = {}
    BY Zenon DEF DefaultStep
  <2>2. k \in K /\ u \in Woken(t, k)
    BY ZenonT(60), <1>0, <2>1 DEF TypeOK, try_acquire_lock, Got
  <2>3. u \notin readonly_waiters[k]
    BY Zenon, <1>0, <2>1, <2>2, LockModeAssumption DEF QueuesMatchLocks
  <2>4. readonly_waiters[k] = {} /\ Held(t, k) = {}
    BY Zenon, <2>2, <2>3 DEF Woken, WritersToWake
  <2>5. readonly_holders'[k] = {}
    BY Zenon, <2>1, <2>2, <2>4 DEF try_acquire_lock
  <2> QED
    BY ZenonT(60), <2>4, <2>5
<1>4. CASE Restart
  BY Zenon, <1>1, <1>4 DEF Restart, InnerNew
<1>5. ASSUME UNCHANGED acquired PROVE DefaultStep
  BY Zenon, <1>1, <1>5
<1>6. CASE ConsensusCommit \/ ScheduleTransactions \/ ExecuteCheckpoint
  BY ZenonT(60), <1>5, <1>6 DEF ConsensusCommit, ScheduleTransactions, ExecuteCheckpoint, inner, certs
<1>7. ASSUME NEW c \in Task,
             ExecuteCertificate(c) \/ ReadCache(c) \/ \E k \in Key : ReadDb(c, k)
      PROVE  DefaultStep
  BY Zenon, <1>5, <1>7 DEF ExecuteCertificate, ReadCache, ReadDb, inner, certs
<1>8. ASSUME NEW t \in Tx,
             Dispatch(t) \/ CommitCertificate(t) \/ RemovePendingExecution(t)
      PROVE  DefaultStep
  BY Zenon, <1>5, <1>8 DEF Dispatch, CommitCertificate, RemovePendingExecution, inner, certs
<1>9. CASE UNCHANGED vars
  BY Zenon, <1>9
<1> QED
  BY Zenon, <1>2, <1>3, <1>4, <1>6, <1>7, <1>8, <1>9
     DEF NextCrash, Next, Enqueue, Execute, Task

\* LockMode::Default keeps its promise.
THEOREM DefaultLocksWait == SpecCrash => DefaultWaitsForReaders
<1>1. IInv /\ [NextCrash]_vars => [DefaultStep]_vars
  BY Zenon, DefaultStepHolds
<1> QED
  BY <1>1, Invariance, PTL DEF SpecCrash, DefaultWaitsForReaders
-----------------------------------------------------------------------------
\* Calls of enqueue between their two critical sections.
Looking == {c \in Task : pc[c] = "db"}

\* They are finitely many.
LEMMA LookingFinite == IsFiniteSet(Looking) /\ Cardinality(Looking) \in Nat
<1>1. IsFiniteSet(Rpc \cup {Scheduler})
  BY Zenon, FiniteAssumption, FS_AddElement
<1>2. IsFiniteSet((Rpc \cup {Scheduler}) \cup {Executor})
  BY Zenon, <1>1, FS_AddElement
<1>3. IsFiniteSet(((Rpc \cup {Scheduler}) \cup {Executor}) \cup {Recovery})
  BY Zenon, <1>2, FS_AddElement
<1>4. Looking \subseteq ((Rpc \cup {Scheduler}) \cup {Executor}) \cup {Recovery}
  BY Zenon DEF Looking, Task
<1> QED
  BY Zenon, <1>3, <1>4, FS_Subset, FS_CardinalityType

\* The cache is unbounded exactly while calls of enqueue are between their two
\* critical sections.
UnboundedModeBalanced == unbounded_cache_enabled = Cardinality(Looking)

\* enable_unbounded_cache and disable_unbounded_cache come in pairs.
LEMMA BalancedNext ==
    ASSUME TypeOK, UnboundedModeBalanced, [NextCrash]_vars
    PROVE  UnboundedModeBalanced'
<1>0. /\ unbounded_cache_enabled = Cardinality(Looking)
      /\ UnboundedModeBalanced' <=> unbounded_cache_enabled' = Cardinality(Looking')
  BY Zenon DEF UnboundedModeBalanced, Looking
<1>1. ASSUME Looking' = Looking, UNCHANGED unbounded_cache_enabled
      PROVE  UnboundedModeBalanced'
  BY Zenon, <1>0, <1>1
<1>2. ASSUME NEW c \in Task, NEW S, pc[c] = "idle", Call(c, S)
      PROVE  Looking' = Looking
  BY Zenon, <1>2 DEF TypeOK, Call, Looking
<1>3. CASE ConsensusCommit
  BY Zenon, <1>1, <1>3 DEF ConsensusCommit, calls, inner, Looking
<1>4. CASE ScheduleTransactions
  <2>1. Looking' = Looking
    BY ZenonT(30), <1>2, <1>4 DEF ScheduleTransactions, Task
  <2> QED
    BY Zenon, <1>1, <1>4, <2>1 DEF ScheduleTransactions, inner
<1>5. CASE ExecuteCheckpoint
  <2>1. Looking' = Looking
    BY ZenonT(30), <1>2, <1>5 DEF ExecuteCheckpoint, Task
  <2> QED
    BY Zenon, <1>1, <1>5, <2>1 DEF ExecuteCheckpoint, inner
<1>6. ASSUME NEW c \in Task, ExecuteCertificate(c) PROVE UnboundedModeBalanced'
  <2>1. Looking' = Looking
    BY ZenonT(30), <1>2, <1>6 DEF ExecuteCertificate
  <2> QED
    BY Zenon, <1>1, <1>6, <2>1 DEF ExecuteCertificate, inner
<1>7. ASSUME NEW c \in Task, ReadCache(c) PROVE UnboundedModeBalanced'
  <2>1. Looking' = Looking \cup {c} /\ c \notin Looking
    BY Zenon, <1>7 DEF TypeOK, ReadCache, Looking
  <2>2. Cardinality(Looking') = Cardinality(Looking) + 1
    BY Zenon, <2>1, LookingFinite, FS_AddElement
  <2> QED
    BY Zenon, <1>0, <1>7, <2>2 DEF ReadCache, UnboundedAfterRead
<1>8. ASSUME NEW c \in Task, NEW k \in Key, ReadDb(c, k) PROVE UnboundedModeBalanced'
  BY Zenon, <1>1, <1>8 DEF ReadDb, inner, Looking
<1>9. ASSUME NEW c \in Task, RegisterCertificates(c) PROVE UnboundedModeBalanced'
  <2>1. Looking' = Looking \ {c} /\ c \in Looking
    BY Zenon, <1>9 DEF TypeOK, RegisterCertificates, LookedUp, Return, Looking
  <2>2. Cardinality(Looking') = Cardinality(Looking) - 1
    BY Zenon, <2>1, LookingFinite, FS_RemoveElement
  <2> QED
    BY Zenon, <1>0, <1>9, <2>2 DEF RegisterCertificates
<1>10. ASSUME NEW t \in Tx, Dispatch(t) \/ CommitCertificate(t) \/ RemovePendingExecution(t)
       PROVE  UnboundedModeBalanced'
  BY Zenon, <1>1, <1>10 DEF Dispatch, CommitCertificate, RemovePendingExecution, inner, calls, Looking
<1>11. ASSUME NEW t \in Tx, NotifyCommit(t) PROVE UnboundedModeBalanced'
  BY Zenon, <1>1, <1>11 DEF NotifyCommit, calls, Looking
<1>12. CASE Restart
  <2>1. Looking' = {}
    BY Zenon, <1>12 DEF Restart, Looking
  <2>2. Cardinality(Looking') = 0
    BY Zenon, <2>1, FS_EmptySet
  <2> QED
    BY Zenon, <1>0, <1>12, <2>2 DEF Restart, InnerNew
<1>13. CASE UNCHANGED vars
  BY Zenon, <1>1, <1>13 DEF vars, inner, calls, Looking
<1> QED
  BY Zenon, <1>3, <1>4, <1>5, <1>6, <1>7, <1>8, <1>9, <1>10, <1>11, <1>12, <1>13
     DEF NextCrash, Next, Enqueue, Execute, Task

\* The cache is unbounded exactly while calls of enqueue look their inputs up, so
\* no commit evicts an entry that such a call relies on.
THEOREM Balanced == SpecCrash => []UnboundedModeBalanced
<1>1. Init => UnboundedModeBalanced
  <2>1. Init => Looking = {}
    BY Zenon DEF Init, Looking
  <2> QED
    BY Zenon, <2>1, FS_EmptySet DEF Init, UnboundedModeBalanced, Looking
<1>2. IInv /\ UnboundedModeBalanced /\ [NextCrash]_vars => UnboundedModeBalanced'
  BY Zenon, BalancedNext DEF IInv
<1> QED
  BY <1>1, <1>2, Invariance, PTL DEF SpecCrash

\* The assertion of disable_unbounded_cache does not fail before an epoch ends.
THEOREM AssertHolds ==
    SpecCrash => [](\A c \in Task : pc[c] = "db" => unbounded_cache_enabled > 0)
<1>1. ASSUME UnboundedModeBalanced, NEW c \in Task, pc[c] = "db"
      PROVE  unbounded_cache_enabled > 0
  <2>1. Looking # {} /\ unbounded_cache_enabled = Cardinality(Looking)
    BY Zenon, <1>1 DEF UnboundedModeBalanced, Looking
  <2> QED
    BY <2>1, LookingFinite, FS_EmptySet
<1>2. UnboundedModeBalanced => \A c \in Task : pc[c] = "db" => unbounded_cache_enabled > 0
  BY Zenon, <1>1
<1> QED
  BY <1>2, Balanced, PTL
-----------------------------------------------------------------------------
\* The manager never takes over a certificate of another epoch: enqueue_impl skips
\* them, also in calls that reconfiguration overtakes, and Inner is replaced.
THEOREM CurrentEpochOnly == SpecEpochs => []OnlyCurrentEpoch
<1>1. Init => OnlyCurrentEpoch
  BY Zenon DEF Init, OnlyCurrentEpoch
<1>2. ASSUME OnlyCurrentEpoch, [NextEpochs]_vars
      PROVE  OnlyCurrentEpoch'
  <2>1. ASSUME pending' \cup executing' \subseteq pending \cup executing, UNCHANGED epoch
        PROVE  OnlyCurrentEpoch'
    BY Zenon, <1>2, <2>1 DEF OnlyCurrentEpoch
  <2>2. ASSUME NEW c \in Task, RegisterCertificates(c) PROVE OnlyCurrentEpoch'
    <3>1. PICK ord \in Orders(c) : TakeLocks(New(c), Waits(c, ord))
      BY Zenon, <2>2 DEF RegisterCertificates
    <3>2. pending' \cup executing' \subseteq pending \cup executing \cup New(c)
      BY Zenon, <3>1 DEF TakeLocks
    <3>3. \A t \in New(c) : EpochOf[t] = epoch
      BY Zenon DEF New
    <3>4. UNCHANGED epoch
      BY Zenon, <2>2 DEF RegisterCertificates, node
    <3> QED
      BY Zenon, <1>2, <3>2, <3>3, <3>4 DEF OnlyCurrentEpoch
  <2>3. ASSUME NEW t \in Tx, NotifyCommit(t) PROVE OnlyCurrentEpoch'
    BY Zenon, <2>1, <2>3 DEF NotifyCommit, try_acquire_lock, Ready, node
  <2>4. CASE Restart \/ Reconfigure
    BY Zenon, <2>4 DEF Restart, Reconfigure, InnerNew, OnlyCurrentEpoch
  <2>5. ASSUME UNCHANGED certs, UNCHANGED epoch PROVE OnlyCurrentEpoch'
    BY Zenon, <2>1, <2>5 DEF certs
  <2>6. CASE ConsensusCommit \/ ScheduleTransactions \/ ExecuteCheckpoint
    BY ZenonT(30), <2>5, <2>6
       DEF ConsensusCommit, ScheduleTransactions, ExecuteCheckpoint, inner, node
  <2>7. ASSUME NEW c \in Task,
               \/ ExecuteCertificate(c) \/ ReadCache(c) \/ \E k \in Key : ReadDb(c, k)
               \/ AssertUnbounded(c)
        PROVE  OnlyCurrentEpoch'
    BY Zenon, <2>5, <2>7 DEF ExecuteCertificate, ReadCache, ReadDb, AssertUnbounded, inner, node
  <2>8. ASSUME NEW t \in Tx,
               \/ Dispatch(t) \/ CommitCertificate(t) \/ RemovePendingExecution(t)
               \/ ExhaustAttempts(t)
        PROVE  OnlyCurrentEpoch'
    BY Zenon, <2>5, <2>8
       DEF Dispatch, CommitCertificate, RemovePendingExecution, ExhaustAttempts, inner, node
  <2>9. CASE UNCHANGED vars
    BY Zenon, <2>5, <2>9 DEF vars, inner, node
  <2> QED
    BY Zenon, <1>2, <2>2, <2>3, <2>4, <2>6, <2>7, <2>8, <2>9
       DEF NextEpochs, NextCrash, Next, Enqueue, Execute, Task
<1>3. OnlyCurrentEpoch /\ [NextEpochs]_vars => OnlyCurrentEpoch'
  BY Zenon, <1>2
<1> QED
  BY <1>1, <1>3, PTL DEF SpecEpochs
-----------------------------------------------------------------------------
(* No wakeup is lost while the cache is not behind storage. *)

\* The cache denies a version that is in storage only while the commit that wrote
\* it has not notified the manager.  A commit that notifies late, after its entry
\* for a higher version was evicted, breaks this (run tm_stale_wakeup).
CacheCurrent == \A k \in objects : cached(k) = Missing => Notifying(k)

\* What a call of enqueue found missing and is in storage by now is in the cache,
\* or will be announced.
LookupCurrent ==
    \A c \in Task, k \in objects :
        pc[c] = "db" /\ avail[c][k] = Missing => Notifying(k) \/ cached(k) = InCache

WakeupInv == NoLostWakeup /\ LookupCurrent

\* A commit that notifies puts its keys in the cache and takes none from it while
\* the cache is unbounded.
LEMMA InsertKept ==
    ASSUME TypeOK, NEW t \in Tx, NEW K, K \subseteq Outputs[t] \cup RoKeys[t], K \subseteq Key,
           unbounded_cache_enabled > 0, cache_insert(K), NEW k \in Key,
           k \in K \/ cached(k) = InCache
    PROVE  (cached(k) = InCache)'
<1> DEFINE versioned == {l \in K : VerOf[l] > 0}
           ids == {i \in ObjectID : versioned_cache[i] > 0} \cup Touched(versioned)
           packages == unversioned_cache \cup Touched(K \ versioned)
           fresh(i, gone) == {l \in versioned :
                                IdOf[l] = i /\ (i \in gone \/ VerOf[l] > versioned_cache[i])}
           new(i) == fresh(i, {})
           version(i, gone) == VerOf[CHOOSE l \in fresh(i, gone) : TRUE]
<1>0. \A S : ~MayEvict(S)
  BY DEF MayEvict
<1>1. PICK kept \in Kept(ids, Touched(versioned)),
           us \in Kept(packages, Touched(K \ versioned)),
           gone \in IF MayEvict(ids) THEN SUBSET Touched(versioned) ELSE {{}} :
         /\ versioned_cache' = [i \in ObjectID |->
               IF i \notin kept THEN 0
               ELSE IF fresh(i, gone) = {} THEN versioned_cache[i]
               ELSE version(i, gone)]
         /\ unversioned_cache' = us
  BY Zenon DEF cache_insert
<1>2. kept = ids /\ us = packages /\ gone = {}
  BY Zenon, <1>0, <1>1 DEF Kept
<1>3. \A i \in ObjectID : versioned_cache'[i] =
         IF i \notin ids THEN 0
         ELSE IF new(i) = {} THEN versioned_cache[i]
         ELSE version(i, {})
  <2> HIDE DEF ids, packages, fresh, version
  <2> QED
    BY Zenon, <1>1, <1>2
<1>4. IdOf[k] \in ObjectID /\ VerOf[k] \in Nat /\ versioned_cache[IdOf[k]] \in Nat
  BY Zenon, ConstantsAssumption DEF TypeOK
<1>5. CASE VerOf[k] = 0
  <2>1. IdOf[k] \in packages
    <3>1. CASE k \in K
      <4>1. k \in K \ versioned
        BY SMTT(30), <1>5, <3>1
      <4> HIDE DEF versioned
      <4> QED
        BY Zenon, <4>1 DEF Touched
    <3>2. CASE cached(k) = InCache
      BY <1>5, <3>2 DEF cached, InCache, Unknown
    <3> QED
      BY Zenon, <3>1, <3>2
  <2>2. IdOf[k] \in unversioned_cache'
    BY ZenonT(60), <1>1, <1>2, <2>1
  <2> QED
    BY <1>5, <2>2 DEF cached
<1>6. CASE VerOf[k] > 0
  <2>1. IdOf[k] \in ids
    <3>1. CASE k \in K
      <4>1. k \in versioned
        BY Zenon, <1>6, <3>1
      <4> HIDE DEF versioned
      <4> QED
        BY Zenon, <4>1 DEF Touched
    <3>2. CASE cached(k) = InCache
      <4>1. versioned_cache[IdOf[k]] # 0
        BY Zenon, <1>6, <3>2 DEF cached, InCache, Unknown
      <4> QED
        BY SMTT(30), <1>4, <4>1
    <3> QED
      BY Zenon, <3>1, <3>2
  <2>2. versioned_cache'[IdOf[k]] >= VerOf[k]
    <3>1. CASE new(IdOf[k]) = {}
      <4>1. versioned_cache'[IdOf[k]] = versioned_cache[IdOf[k]]
        BY ZenonT(60), <1>3, <1>4, <2>1, <3>1
      <4>2. versioned_cache[IdOf[k]] >= VerOf[k]
        BY SMTT(30), <1>4, <1>6, <3>1 DEF cached, InCache, Unknown, Missing
      <4> QED
        BY Zenon, <4>1, <4>2
    <3>2. CASE new(IdOf[k]) # {}
      <4>1. PICK l \in new(IdOf[k]) : versioned_cache'[IdOf[k]] = VerOf[l]
        <5>1. (CHOOSE l \in new(IdOf[k]) : TRUE) \in new(IdOf[k])
          BY Zenon, <3>2
        <5>2. versioned_cache'[IdOf[k]] = VerOf[CHOOSE l \in new(IdOf[k]) : TRUE]
          BY ZenonT(60), <1>3, <1>4, <2>1, <3>2
        <5> QED
          BY Zenon, <5>1, <5>2
      <4>2. l \in K /\ IdOf[l] = IdOf[k] /\ VerOf[l] > versioned_cache[IdOf[k]]
        BY Zenon, <4>1
      <4>3. VerOf[l] \in Nat
        BY Zenon, <4>2, ConstantsAssumption
      <4>4. CASE k \in K
        <5>1. l = k
          BY ZenonT(60), <4>2, <4>4, WrittenOnce DEF SameId
        <5> QED
          BY <1>4, <4>1, <5>1
      <4>5. CASE cached(k) = InCache
        <5>1. versioned_cache[IdOf[k]] >= VerOf[k]
          BY Zenon, <1>4, <1>6, <4>5 DEF cached, InCache, Unknown, Missing
        <5> QED
          BY SMTT(30), <1>4, <4>1, <4>2, <4>3, <5>1
      <4> QED
        BY Zenon, <4>4, <4>5
    <3> QED
      BY Zenon, <3>1, <3>2
  <2> QED
    BY SMTT(30), <1>4, <1>6, <2>2 DEF cached
<1> QED
  BY <1>4, <1>5, <1>6

\* A commit that is about to notify stays so except in its own steps.
LEMMA StillNotifying ==
    ASSUME NEW S, \A u \in Tx \ S : stage[u] = "committed" => stage'[u] = "committed",
           NEW k, \E u \in Tx \ S : stage[u] = "committed" /\ k \in Outputs[u]
    PROVE  Notifying(k)'
BY Zenon DEF Notifying

\* Registration (enqueue_impl): a certificate waits for a key of storage only if
\* its commit will notify, or behind readers.
LEMMA WakeupRegister ==
    ASSUME IInv, WakeupInv, NEW c \in Task, RegisterCertificates(c)
    PROVE  WakeupInv'
<1>0. TypeOK /\ StageInv /\ NoLostWakeup /\ LookupCurrent
  BY Zenon DEF IInv, WakeupInv
<1>1. PICK ord \in Orders(c) : TakeLocks(New(c), Waits(c, ord))
  BY Zenon DEF RegisterCertificates
<1>2. pc[c] = "db" /\ UNCHANGED <<objects, versioned_cache>>
  BY Zenon DEF RegisterCertificates, LookedUp, db
<1>3. \A k : Notifying(k) => Notifying(k)'
  <2>1. \A u \in Tx \ {} : stage[u] = "committed" => stage'[u] = "committed"
    BY Zenon, <1>0, <1>1 DEF TypeOK, StageInv, TakeLocks, New
  <2> QED
    BY Zenon, <2>1, StillNotifying DEF Notifying
<1>4. \A k \in objects, t \in New(c) :
         k \in MustWait(c, t, ord) =>
            \/ Notifying(k)
            \/ k \in DefKeys[t] /\ (has_readonly(k) \/ \E u \in New(c) : k \in RoKeys[u])
  BY Zenon, <1>0, <1>2 DEF MustWait, StillMissing, LookupCurrent
<1>5. \A k \in Key : has_readonly(k) => has_readonly(k)'
  BY Zenon, <1>1 DEF TakeLocks, has_readonly
<1>6. \A k \in Key, u \in New(c) : k \in RoKeys[u] => has_readonly(k)'
  BY Zenon, <1>1 DEF TakeLocks, has_readonly
<1>7. \A t \in New(c) : t \in Tx /\ Waits(c, ord)[t] = MustWait(c, t, ord)
  BY Zenon, <1>0 DEF TypeOK, New, Waits
<1>8. NoLostWakeup'
  <2> SUFFICES ASSUME NEW k \in objects'
               PROVE  /\ readonly_waiters'[k] # {} => Notifying(k)'
                      /\ default_waiters'[k] # {} => Notifying(k)' \/ has_readonly(k)'
    BY Zenon DEF NoLostWakeup
  <2>1. k \in objects /\ k \in Key
    BY Zenon, <1>0, <1>2 DEF TypeOK
  <2>2. ASSUME NEW t \in readonly_waiters'[k] PROVE Notifying(k)'
    <3>1. CASE t \in readonly_waiters[k]
      BY Zenon, <1>0, <1>3, <2>1, <3>1 DEF NoLostWakeup
    <3>2. CASE t \in New(c) /\ k \in MustWait(c, t, ord) \cap RoKeys[t]
      BY Zenon, <1>3, <1>4, <1>7, <2>1, <3>2, LockModeAssumption
    <3> QED
      BY Zenon, <1>1, <1>7, <2>1, <2>2, <3>1, <3>2 DEF TakeLocks
  <2>3. ASSUME NEW t \in default_waiters'[k] PROVE Notifying(k)' \/ has_readonly(k)'
    <3>1. CASE t \in default_waiters[k]
      BY Zenon, <1>0, <1>3, <1>5, <2>1, <3>1 DEF NoLostWakeup
    <3>2. CASE t \in New(c) /\ k \in MustWait(c, t, ord)
      BY Zenon, <1>3, <1>4, <1>5, <1>6, <2>1, <3>2
    <3> QED
      BY Zenon, <1>1, <1>7, <2>1, <2>3, <3>1, <3>2 DEF TakeLocks
  <2> QED
    BY Zenon, <2>2, <2>3
<1>9. LookupCurrent'
  <2>1. \A k : cached(k) = InCache => (cached(k) = InCache)'
    <3>1. unversioned_cache \subseteq unversioned_cache'
      BY ZenonT(60) DEF RegisterCertificates
    <3> QED
      BY Zenon, <1>2, <3>1 DEF cached, InCache, Unknown, Missing
  <2>2. \A d \in Task : pc'[d] = "db" => d # c /\ pc[d] = "db" /\ avail'[d] = avail[d]
    BY Zenon, <1>0 DEF TypeOK, RegisterCertificates, Return
  <2> QED
    BY Zenon, <1>0, <1>2, <1>3, <2>1, <2>2 DEF LookupCurrent
<1> QED
  BY Zenon, <1>8, <1>9 DEF WakeupInv

\* notify_commit: whoever waits for a key that was written or released gets it, or
\* waits behind the readers that get it; and the cache now has the keys written.
LEMMA WakeupNotify ==
    ASSUME IInv, UnboundedModeBalanced, WakeupInv, NEW t \in Tx, NotifyCommit(t)
    PROVE  WakeupInv'
<1> DEFINE K == Outputs[t] \cup Release(t)
<1>0. TypeOK /\ LockInv /\ StageInv /\ NoLostWakeup /\ LookupCurrent
  BY Zenon DEF IInv, WakeupInv
<1>1. /\ try_acquire_lock(t, K) /\ K \subseteq Key /\ K \subseteq Outputs[t] \cup RoKeys[t]
      /\ UNCHANGED <<objects, pc, avail>>
  <2>1. K \subseteq Outputs[t] \cup RoKeys[t]
    BY ZenonT(60) DEF Release
  <2> QED
    BY Zenon, <1>0, <2>1, CommitKeys DEF NotifyCommit, db, calls
<1>2. Outputs[t] \subseteq K
  BY Zenon
<1> HIDE DEF K
<1>3. \A k : Notifying(k) => k \in K \/ Notifying(k)'
  <2>1. \A u \in Tx \ {t} : stage[u] = "committed" => stage'[u] = "committed"
    BY Zenon, <1>0, <1>1
       DEF TypeOK, LockInv, PendingOrExecuting, StageInv, try_acquire_lock, Ready
  <2> QED
    BY Zenon, <1>2, <2>1, StillNotifying DEF Notifying
<1>4. NoLostWakeup'
  <2> SUFFICES ASSUME NEW k \in objects
               PROVE  /\ readonly_waiters'[k] # {} => Notifying(k)'
                      /\ default_waiters'[k] # {} => Notifying(k)' \/ has_readonly(k)'
    BY Zenon, <1>1 DEF NoLostWakeup
  <2>0. k \in Key
    BY Zenon, <1>0 DEF TypeOK
  <2>1. CASE k \in K
    <3>1. readonly_waiters'[k] = {}
      BY Zenon, <1>1, <2>0, <2>1 DEF try_acquire_lock
    <3>2. /\ readonly_holders'[k] = Held(t, k) \cup readonly_waiters[k]
          /\ default_waiters'[k] = default_waiters[k] \ Woken(t, k)
      BY Zenon, <1>1, <2>0, <2>1 DEF try_acquire_lock
    <3>3. CASE readonly_waiters[k] = {} /\ Held(t, k) = {}
      BY Zenon, <3>1, <3>2, <3>3 DEF Woken, WritersToWake
    <3>4. CASE ~(readonly_waiters[k] = {} /\ Held(t, k) = {})
      BY Zenon, <3>1, <3>2, <3>4 DEF has_readonly
    <3> QED
      BY Zenon, <3>3, <3>4
  <2>2. CASE k \notin K
    <3>1. UNCHANGED <<readonly_waiters[k], readonly_holders[k], default_waiters[k]>>
      BY Zenon, <1>1, <2>0, <2>2 DEF try_acquire_lock
    <3> QED
      BY Zenon, <1>0, <1>3, <2>2, <3>1 DEF NoLostWakeup, has_readonly
  <2> QED
    BY Zenon, <2>1, <2>2
<1>5. LookupCurrent'
  <2> SUFFICES ASSUME NEW c \in Task, NEW k \in objects, pc[c] = "db", avail[c][k] = Missing,
                      ~Notifying(k)'
               PROVE  (cached(k) = InCache)'
    BY Zenon, <1>1 DEF LookupCurrent
  <2>1. k \in Key
    BY Zenon, <1>0 DEF TypeOK
  <2>2. k \in K \/ cached(k) = InCache
    BY Zenon, <1>0, <1>3 DEF LookupCurrent
  <2>3. unbounded_cache_enabled > 0
    <3>1. Looking # {} /\ unbounded_cache_enabled = Cardinality(Looking)
      BY Zenon DEF UnboundedModeBalanced, Looking
    <3> QED
      BY <3>1, LookingFinite, FS_EmptySet
  <2>4. cache_insert(K)
    BY Zenon, <1>1 DEF try_acquire_lock
  <2> QED
    BY Zenon, <1>0, <1>1, <2>1, <2>2, <2>3, <2>4, InsertKept
<1> QED
  BY Zenon, <1>4, <1>5 DEF WakeupInv

\* No step loses a wakeup while the cache is current.
LEMMA WakeupNext ==
    ASSUME IInv, UnboundedModeBalanced, CacheCurrent, WakeupInv, [NextCrash]_vars
    PROVE  WakeupInv'
<1>0. TypeOK /\ NoLostWakeup /\ LookupCurrent
  BY Zenon DEF IInv, WakeupInv
<1>1. ASSUME UNCHANGED <<queues, cache>>,
             \A u \in Tx : stage[u] = "committed" => stage'[u] = "committed",
             \A k \in objects' : k \in objects \/ Notifying(k)',
             \A c \in Task, k \in objects : pc'[c] = "db" /\ avail'[c][k] = Missing =>
                Notifying(k) \/ (pc[c] = "db" /\ avail[c][k] = Missing)
      PROVE  WakeupInv'
  <2>1. \A k : Notifying(k) => Notifying(k)'
    BY Zenon, <1>1 DEF Notifying
  <2>2. \A k : cached(k)' = cached(k)
    BY Zenon, <1>1 DEF cached, cache
  <2>3. NoLostWakeup'
    BY Zenon, <1>0, <1>1, <2>1 DEF NoLostWakeup, has_readonly, queues
  <2>4. LookupCurrent'
    <3> SUFFICES ASSUME NEW c \in Task, NEW k \in objects, pc'[c] = "db", avail'[c][k] = Missing
                 PROVE  Notifying(k)' \/ (cached(k) = InCache)'
      BY Zenon, <1>1 DEF LookupCurrent
    <3>1. Notifying(k) \/ cached(k) = InCache
      BY Zenon, <1>0, <1>1 DEF LookupCurrent
    <3>2. cached(k)' = cached(k)
      BY Zenon, <2>2
    <3> QED
      BY Zenon, <2>1, <3>1, <3>2
  <2> QED
    BY Zenon, <2>3, <2>4 DEF WakeupInv
<1>2. ASSUME UNCHANGED objects, UNCHANGED inner, UNCHANGED avail, UNCHANGED stage,
             \A c \in Task : pc'[c] = "db" => pc[c] = "db"
      PROVE  WakeupInv'
  BY Zenon, <1>1, <1>2 DEF inner
<1>3. ASSUME NEW c \in Task, NEW S, Call(c, S)
      PROVE  \A d \in Task : pc'[d] = "db" => pc[d] = "db"
  BY Zenon, <1>0, <1>3 DEF TypeOK, Call
<1>4. CASE ConsensusCommit
  BY Zenon, <1>2, <1>4 DEF ConsensusCommit, db, calls
<1>5. CASE ScheduleTransactions
  <2>1. \A d \in Task : pc'[d] = "db" => pc[d] = "db"
    BY Zenon, <1>3, <1>5 DEF ScheduleTransactions, Task
  <2> QED
    BY Zenon, <1>2, <1>5, <2>1 DEF ScheduleTransactions, db
<1>6. CASE ExecuteCheckpoint
  <2>1. \A d \in Task : pc'[d] = "db" => pc[d] = "db"
    BY Zenon, <1>3, <1>6 DEF ExecuteCheckpoint, Task
  <2> QED
    BY Zenon, <1>2, <1>6, <2>1 DEF ExecuteCheckpoint, db
<1>7. ASSUME NEW c \in Task, ExecuteCertificate(c) PROVE WakeupInv'
  <2>1. \A d \in Task : pc'[d] = "db" => pc[d] = "db"
    BY Zenon, <1>3, <1>7 DEF ExecuteCertificate
  <2> QED
    BY Zenon, <1>2, <1>7, <2>1 DEF ExecuteCertificate, db
<1>8. ASSUME NEW c \in Task, ReadCache(c) PROVE WakeupInv'
  <2>1. UNCHANGED <<queues, cache, objects, stage>>
    BY Zenon, <1>8 DEF ReadCache, db
  <2>2. ASSUME NEW d \in Task, NEW k \in objects, pc'[d] = "db", avail'[d][k] = Missing
        PROVE  Notifying(k) \/ (pc[d] = "db" /\ avail[d][k] = Missing)
    <3>1. CASE d # c
      BY Zenon, <1>0, <1>8, <2>2, <3>1 DEF TypeOK, ReadCache
    <3>2. CASE d = c
      <4>1. k \in Key
        BY Zenon, <1>0 DEF TypeOK
      <4>2. avail'[c][k] \in {cached(k), Unknown}
        BY Zenon, <1>0, <1>8, <4>1 DEF TypeOK, ReadCache
      <4>3. cached(k) = Missing
        BY Zenon, <2>2, <3>2, <4>2 DEF Unknown, Missing
      <4> QED
        BY Zenon, <4>3 DEF CacheCurrent
    <3> QED
      BY Zenon, <3>1, <3>2
  <2> QED
    BY Zenon, <1>1, <2>1, <2>2
<1>9. ASSUME NEW c \in Task, NEW k \in Key, ReadDb(c, k) PROVE WakeupInv'
  <2>1. UNCHANGED <<queues, cache, objects, stage, pc>>
    BY Zenon, <1>9 DEF ReadDb, db, inner
  <2>2. ASSUME NEW d \in Task, NEW l \in objects, pc'[d] = "db", avail'[d][l] = Missing
        PROVE  pc[d] = "db" /\ avail[d][l] = Missing
    <3>1. l \in Key
      BY Zenon, <1>0 DEF TypeOK
    <3>2. CASE d # c \/ l # k
      BY Zenon, <1>0, <1>9, <2>1, <2>2, <3>1, <3>2 DEF TypeOK, ReadDb
    <3>3. CASE d = c /\ l = k
      <4>1. avail'[c][k] = InDb
        BY Zenon, <1>0, <1>9, <3>3 DEF TypeOK, ReadDb
      <4> QED
        BY Zenon, <2>2, <3>3, <4>1 DEF InDb, Missing
    <3> QED
      BY Zenon, <3>2, <3>3
  <2> QED
    BY Zenon, <1>1, <2>1, <2>2
<1>10. ASSUME NEW t \in Tx, Dispatch(t) \/ RemovePendingExecution(t) PROVE WakeupInv'
  <2>1. UNCHANGED <<queues, cache, objects, pc, avail>>
    BY Zenon, <1>10 DEF Dispatch, RemovePendingExecution, db, inner, calls
  <2>2. \A u \in Tx : stage[u] = "committed" => stage'[u] = "committed"
    BY Zenon, <1>0, <1>10 DEF TypeOK, Dispatch, RemovePendingExecution
  <2> QED
    BY Zenon, <1>1, <2>1, <2>2
<1>11. ASSUME NEW t \in Tx, CommitCertificate(t) PROVE WakeupInv'
  <2>1. UNCHANGED <<queues, cache, pc, avail>>
    BY ZenonT(60), <1>11 DEF CommitCertificate, inner, calls
  <2>2. \A u \in Tx : stage[u] = "committed" => stage'[u] = "committed"
    BY ZenonT(60), <1>0, <1>11 DEF TypeOK, CommitCertificate
  <2>3. stage'[t] = "committed" /\ objects' = objects \cup Outputs[t]
    BY Zenon, <1>0, <1>11 DEF TypeOK, CommitCertificate
  <2>4. \A k \in objects' : k \in objects \/ Notifying(k)'
    BY Zenon, <2>3 DEF Notifying
  <2> QED
    BY Zenon, <1>1, <2>1, <2>2, <2>4
<1>12. CASE Restart
  <2>1. \A c \in Task : pc'[c] # "db"
    BY Zenon, <1>12 DEF Restart
  <2>2. \A k \in Key : readonly_waiters'[k] = {} /\ default_waiters'[k] = {}
    BY Zenon, <1>12 DEF Restart, InnerNew
  <2>3. objects' \subseteq Key
    BY Zenon, <1>0, <1>12 DEF TypeOK, Restart, db
  <2> QED
    BY Zenon, <2>1, <2>2, <2>3 DEF WakeupInv, NoLostWakeup, LookupCurrent
<1>13. CASE UNCHANGED vars
  BY Zenon, <1>2, <1>13 DEF vars, db, calls
<1> QED
  BY Zenon, <1>4, <1>5, <1>6, <1>7, <1>8, <1>9, <1>10, <1>11, <1>12, <1>13, WakeupRegister,
     WakeupNotify DEF NextCrash, Next, Enqueue, Execute, Task

\* The two lookups of enqueue_impl and the unbounded mode of the cache between them
\* lose no wakeup, whatever commits, evictions by other calls and crashes come in
\* between, as long as the cache never holds a version below the one in storage
\* except for a commit still to notify.  tm_stale_wakeup shows that the code does
\* not guarantee the proviso; by this theorem nothing else is missing.
THEOREM NoWakeupLost == SpecCrash /\ []CacheCurrent => []NoLostWakeup
<1>1. Init => WakeupInv
  <2> SUFFICES ASSUME Init PROVE WakeupInv
    BY Zenon
  <2>1. TypeOK
    BY Zenon, IInvInit DEF IInv
  <2> QED
    BY Zenon, <2>1 DEF Init, TypeOK, WakeupInv, NoLostWakeup, LookupCurrent
<1>2. IInv /\ UnboundedModeBalanced /\ CacheCurrent /\ WakeupInv /\ [NextCrash]_vars
         => WakeupInv'
  BY Zenon, WakeupNext
<1>3. WakeupInv => NoLostWakeup
  BY Zenon DEF WakeupInv
<1> QED
  BY <1>1, <1>2, <1>3, Invariance, Balanced, PTL DEF SpecCrash
=============================================================================
