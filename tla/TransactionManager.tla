------------------------- MODULE TransactionManager -------------------------
(***************************************************************************)
(* The execution scheduler of a Sui node: TransactionManager               *)
(* (transaction_manager.rs), the execution driver that runs what it        *)
(* releases (execution_driver.rs), and the part of AuthorityState that     *)
(* commits a certificate and tells the manager about it (authority.rs).    *)
(*                                                                         *)
(* Certificates are enqueued by several concurrent tasks.  enqueue_impl    *)
(* reads the cache under the lock, reads the database without it, and      *)
(* takes the lock again to register the certificates; commits happen in    *)
(* between.  `inner' is guarded by one RwLock, and each of its critical    *)
(* sections is one step.  Inside one, only two things are visible to other *)
(* tasks: the send to the driver's channel, which nothing can overtake,    *)
(* and a read of the executed effects of certificates the manager does not *)
(* know, which cannot change while the lock is held (NoDuplicateDispatch). *)
(*                                                                         *)
(* Definitions named Faulty... are variants of the definition that follows *)
(* them, each with one plausible mistake; no specification uses them.      *)
(***************************************************************************)
EXTENDS Integers, FiniteSets

CONSTANTS
    Tx,          \* certificates, by transaction digest
    Key,         \* InputKey: an object at a version, or a package
    ObjectID,
    IdOf,        \* InputKey::id
    VerOf,       \* InputKey::version, 0 for a package
    RoKeys,      \* keys a certificate locks in LockMode::ReadOnly
    DefKeys,     \* keys a certificate locks in LockMode::Default
    Outputs,     \* keys the execution of a certificate writes
    Genesis,     \* objects in storage at the start
    EpochOf,     \* epoch of a certificate
    Position,    \* place of a certificate in the consensus output
    Shared,      \* certificates with a shared input: RPC calls do not enqueue them
    Rpc,         \* tasks that serve certificates sent by clients
    Scheduler,   \* the AsyncTransactionScheduler
    Executor,    \* the CheckpointExecutor
    Recovery,    \* the call made by TransactionManager::new
    CacheSize,   \* max_size of the available-objects cache
    Permits,     \* permits of the execution driver's semaphore
    MaxBatch,    \* bound: certificates per call of enqueue
    MaxCrashes,  \* bound: number of crashes
    MaxEpoch     \* bound: last epoch

Inputs(t) == RoKeys[t] \cup DefKeys[t]

SameId(k, l) == IdOf[k] = IdOf[l]

Task == Rpc \cup {Scheduler, Executor, Recovery}

ASSUME ConstantsAssumption ==
    /\ IdOf \in [Key -> ObjectID]
    /\ VerOf \in [Key -> Nat]
    /\ RoKeys \in [Tx -> SUBSET Key]
    /\ DefKeys \in [Tx -> SUBSET Key]
    /\ Outputs \in [Tx -> SUBSET Key]
    /\ Genesis \subseteq Key
    /\ EpochOf \in [Tx -> Nat]
    /\ Position \in [Tx -> Nat]
    /\ Shared \subseteq Tx
    /\ CacheSize \in Nat \ {0} /\ Permits \in Nat \ {0}
    /\ MaxBatch \in Nat /\ MaxCrashes \in Nat /\ MaxEpoch \in Nat

ASSUME FiniteAssumption ==
    IsFiniteSet(Tx) /\ IsFiniteSet(Key) /\ IsFiniteSet(ObjectID) /\ IsFiniteSet(Rpc)

ASSUME TaskAssumption ==
    /\ Recovery \notin Rpc \cup {Scheduler, Executor}
    /\ Scheduler \notin Rpc \cup {Executor}
    /\ Executor \notin Rpc

\* An InputKey is determined by its object and version.
ASSUME KeyAssumption ==
    \A k, l \in Key : SameId(k, l) /\ VerOf[k] = VerOf[l] => k = l

\* get_input_object_locks maps a key to one mode.
ASSUME LockModeAssumption ==
    \A t \in Tx : RoKeys[t] \cap DefKeys[t] = {}

\* A transaction that writes a version of an object takes the preceding version
\* as an input, so no version appears before the ones below it.
ASSUME WorkloadOrder ==
    /\ \A l \in Genesis, k \in Key :
           SameId(k, l) /\ VerOf[k] < VerOf[l] => k \in Genesis
    /\ \A u \in Tx : \A l \in Outputs[u], k \in Key :
           SameId(k, l) /\ VerOf[k] < VerOf[l]
             => \E m \in Inputs(u) : SameId(k, m) /\ VerOf[k] <= VerOf[m]

\* A transaction writes an object at one version, and writes none of the objects
\* it takes in ReadOnly mode.
ASSUME WrittenOnce ==
    \A t \in Tx : \A k, l \in Outputs[t] \cup RoKeys[t] : SameId(k, l) => k = l

VARIABLES
    \* storage, which survives a crash
    executed,            \* certificates with executed effects
    objects,             \* keys in the objects table
    pending_execution,   \* the recovery log of the epoch store
    \* where certificates come from
    sequenced,           \* certificates output by consensus (in storage)
    channel,             \* of these, those on their way to the Scheduler
    scheduled,           \* certificates the Executor has taken from checkpoints
    \* Inner
    epoch,
    lock_waiters,        \* keys that have a LockQueue
    readonly_waiters, readonly_holders, default_waiters,
    input_objects,
    versioned_cache,     \* highest known version of an object, 0 if none
    unversioned_cache,   \* packages known to exist
    unbounded_cache_enabled,
    pending,             \* pending_certificates
    executing,           \* executing_certificates
    acquiring, acquired, \* locks of a pending or executing certificate
    \* tasks in enqueue_impl
    pc, batch, avail, store_epoch,
    stage,               \* of a certificate in the execution driver
    panicked, crashes

db == <<executed, objects>>
sources == <<sequenced, channel, scheduled>>
queues == <<lock_waiters, readonly_waiters, readonly_holders, default_waiters,
            input_objects>>
cache == <<versioned_cache, unversioned_cache>>
certs == <<pending, executing, acquiring, acquired>>
inner == <<queues, cache, unbounded_cache_enabled, certs>>
calls == <<pc, batch, avail, store_epoch>>
node == <<epoch, panicked, crashes>>
vars == <<db, pending_execution, sources, inner, calls, stage, node>>

Unknown == "unknown"   \* not looked up yet (None in the code)
InCache == "cached"
InDb    == "stored"    \* found in storage after a cache miss
Missing == "missing"
-----------------------------------------------------------------------------
(* The available-objects cache.                                            *)

\* CacheInner::is_object_available.
cached(k) ==
    IF VerOf[k] > 0
      THEN IF versioned_cache[IdOf[k]] = 0 THEN Unknown
           ELSE IF versioned_cache[IdOf[k]] >= VerOf[k] THEN InCache ELSE Missing
      ELSE IF IdOf[k] \in unversioned_cache THEN InCache ELSE Unknown

Touched(K) == {IdOf[k] : k \in K}

FaultyMayEvict(ids) == Cardinality(ids) > CacheSize   \* in unbounded mode too

\* AvailableObjectsCache::insert shrinks the cache unless it is unbounded.
MayEvict(ids) == unbounded_cache_enabled = 0 /\ Cardinality(ids) > CacheSize

\* What may be left of a cache with entries for ids after insertions: the last of
\* the inserted ones at least.  The order of the LRU list is left open.
Kept(ids, inserted) ==
    IF MayEvict(ids)
      THEN {s \in SUBSET ids : /\ Cardinality(s) = CacheSize
                               /\ inserted # {} => s \cap inserted # {}}
      ELSE {ids}

\* AvailableObjectsCache::insert for each of K, which has one version of an
\* object at most.  The known version of an object does not decrease, unless its
\* entry was evicted by the insertion of another one: `gone' are such entries.
cache_insert(K) ==
    LET versioned == {k \in K : VerOf[k] > 0}
        ids == {i \in ObjectID : versioned_cache[i] > 0} \cup Touched(versioned)
        packages == unversioned_cache \cup Touched(K \ versioned)
    IN  \E kept \in Kept(ids, Touched(versioned)),
           us \in Kept(packages, Touched(K \ versioned)),
           gone \in IF MayEvict(ids) THEN SUBSET Touched(versioned) ELSE {{}} :
            /\ gone = {} \/ gone # Touched(versioned)
            /\ versioned_cache' = [i \in ObjectID |->
                  LET new == {k \in versioned :
                                 IdOf[k] = i /\ (i \in gone \/ VerOf[k] > versioned_cache[i])}
                  IN  IF i \notin kept THEN 0
                      ELSE IF new = {} THEN versioned_cache[i]
                      ELSE VerOf[CHOOSE k \in new : TRUE]]
            /\ unversioned_cache' = us
-----------------------------------------------------------------------------
(* The lock queues.                                                        *)

\* LockQueue::has_readonly.
has_readonly(k) == readonly_waiters[k] \cup readonly_holders[k] # {}

FaultyWritersToWake(k, held) ==   \* forgets readers that still hold the key
    IF readonly_waiters[k] = {} THEN default_waiters[k] ELSE {}

\* Default locks are granted when no reader waits for the key or holds it.
WritersToWake(k, held) ==
    IF readonly_waiters[k] = {} /\ held = {} THEN default_waiters[k] ELSE {}

FaultyRelease(t) == {}   \* keeps the readonly locks

\* The readonly locks a certificate releases when it is done.
Release(t) == acquired[t] \cap RoKeys[t]

\* Of the queues of K, those that became empty are removed.
QueuesLeft(K, rest) == lock_waiters \ {k \in K : rest[k] = {}}

\* The readonly holders of k once t has dropped its own lock.
Held(t, k) == readonly_holders[k] \ (IF k \in Release(t) THEN {t} ELSE {})

\* The waiters that get k: all readers, or else the writers if they may.
Woken(t, k) == readonly_waiters[k] \cup WritersToWake(k, Held(t, k))

Got(t, K, u) == {k \in K : u \in Woken(t, k)}

\* Certificates that now have all their locks.
Ready(t, K) == {u \in pending : acquiring[u] \subseteq Got(t, K, u)}

\* Inner::try_acquire_lock(k, true) and certificate_ready for each of the keys K
\* that t has written or releases; no key is affected by another one.
try_acquire_lock(t, K) ==
    /\ cache_insert(K)
    /\ readonly_waiters' = [k \in Key |-> IF k \in K THEN {} ELSE readonly_waiters[k]]
    /\ readonly_holders' = [k \in Key |->
           IF k \in K THEN Held(t, k) \cup readonly_waiters[k] ELSE readonly_holders[k]]
    /\ default_waiters' = [k \in Key |->
           IF k \in K THEN default_waiters[k] \ Woken(t, k) ELSE default_waiters[k]]
    /\ lock_waiters' = QueuesLeft(K, [k \in K |->
           Held(t, k) \cup readonly_waiters[k] \cup (default_waiters[k] \ Woken(t, k))])
    /\ input_objects' = [i \in ObjectID |-> input_objects[i] -
           Cardinality({p \in Tx \X Key : p[2] \in Got(t, K, p[1]) /\ IdOf[p[2]] = i})]
    /\ acquiring' = [u \in Tx |-> acquiring[u] \ Got(t, K, u)]
    /\ acquired' = [u \in Tx |-> IF u = t THEN {} ELSE acquired[u] \cup Got(t, K, u)]
    /\ pending' = pending \ Ready(t, K)
    /\ executing' = (executing \ {t}) \cup Ready(t, K)
    /\ stage' = [u \in Tx |-> IF u = t THEN "cleanup"
                              ELSE IF u \in Ready(t, K) THEN "queued" ELSE stage[u]]
-----------------------------------------------------------------------------
(* Where certificates come from.                                           *)

Needed(S) == UNION {Inputs(t) : t \in S}

EmptyAvail == [k \in Key |-> Unknown]

Init ==
    /\ executed = {} /\ objects = Genesis /\ pending_execution = {}
    /\ sequenced = {} /\ channel = {} /\ scheduled = {}
    /\ epoch = 0 /\ panicked = FALSE /\ crashes = 0
    /\ lock_waiters = {}
    /\ readonly_waiters = [k \in Key |-> {}]
    /\ readonly_holders = [k \in Key |-> {}]
    /\ default_waiters = [k \in Key |-> {}]
    /\ input_objects = [i \in ObjectID |-> 0]
    /\ versioned_cache = [i \in ObjectID |-> 0] /\ unversioned_cache = {}
    /\ unbounded_cache_enabled = 0
    /\ pending = {} /\ executing = {}
    /\ acquiring = [t \in Tx |-> {}] /\ acquired = [t \in Tx |-> {}]
    /\ pc = [c \in Task |-> "idle"]
    /\ batch = [c \in Task |-> {}]
    /\ avail = [c \in Task |-> EmptyAvail]
    /\ store_epoch = [c \in Task |-> 0]
    /\ stage = [t \in Tx |-> "idle"]

Running == ~panicked /\ pc[Recovery] = "idle"

\* Task c calls enqueue with the certificates S.  Those already executed are
\* dropped, from the recovery log too.
Call(c, S) ==
    /\ pc' = [pc EXCEPT ![c] = "cache"]
    /\ batch' = [batch EXCEPT ![c] = S \ executed]
    /\ store_epoch' = [store_epoch EXCEPT ![c] = epoch]
    /\ pending_execution' = pending_execution \ (S \cap executed)

\* The first certificates of T in consensus order, at most MaxBatch.
NextBatches(T) ==
    {S \in SUBSET T : /\ S # {} /\ Cardinality(S) <= MaxBatch
                      /\ \A t \in S, u \in T \ S : Position[t] < Position[u]}

\* A consensus commit: ConsensusCommitBatch::commit writes its certificates to
\* pending_execution in one batch, then the handler sends them to the scheduler.
ConsensusCommit ==
    /\ Running
    /\ \E S \in NextBatches({t \in Tx \ sequenced : EpochOf[t] = epoch}) :
         /\ pending_execution' = pending_execution \cup S
         /\ sequenced' = sequenced \cup S
         /\ channel' = channel \cup S
    /\ UNCHANGED <<db, scheduled, inner, calls, stage, node>>

\* AsyncTransactionScheduler::run.  Commits can be of any size, so how they are
\* cut into calls is left open.
ScheduleTransactions ==
    /\ Running /\ pc[Scheduler] = "idle"
    /\ \E S \in NextBatches(channel) :
         /\ channel' = channel \ S
         /\ Call(Scheduler, S)
    /\ UNCHANGED <<db, sequenced, scheduled, inner, avail, stage, node>>

\* CheckpointExecutor::execute_checkpoint on the next checkpoint, which state
\* sync may have brought before local consensus got there.
ExecuteCheckpoint ==
    /\ Running /\ pc[Executor] = "idle"
    /\ \E S \in NextBatches({t \in Tx \ scheduled : EpochOf[t] = epoch}) :
         /\ scheduled' = scheduled \cup S
         /\ Call(Executor, S \ executed)
    /\ UNCHANGED <<db, sequenced, channel, inner, avail, stage, node>>

\* execute_certificate: a certificate on owned objects is enqueued as soon as
\* a client presents it, and is not written to pending_execution.
ExecuteCertificate(c) ==
    /\ Running /\ pc[c] = "idle"
    /\ \E t \in Tx \ Shared : EpochOf[t] = epoch /\ Call(c, {t})
    /\ UNCHANGED <<db, sources, inner, avail, stage, node>>
-----------------------------------------------------------------------------
(* enqueue_impl, as one task runs it.                                      *)

\* enable_unbounded_cache.
UnboundedAfterRead == unbounded_cache_enabled + 1

\* First critical section: look the inputs up in the cache, stop evictions.
ReadCache(c) ==
    /\ ~panicked /\ pc[c] = "cache"
    /\ avail' = [avail EXCEPT ![c] =
                    [k \in Key |-> IF k \in Needed(batch[c]) THEN cached(k)
                                                             ELSE Unknown]]
    /\ unbounded_cache_enabled' = UnboundedAfterRead
    /\ pc' = [pc EXCEPT ![c] = "db"]
    /\ UNCHANGED <<db, pending_execution, sources, queues, cache, certs, batch,
                   store_epoch, stage, node>>

\* multi_input_objects_available, one key at a time and without the lock.
ReadDb(c, k) ==
    /\ ~panicked /\ pc[c] = "db"
    /\ k \in Needed(batch[c]) /\ avail[c][k] = Unknown
    /\ avail' = [avail EXCEPT ![c][k] = IF k \in objects THEN InDb ELSE Missing]
    /\ UNCHANGED <<db, pending_execution, sources, inner, pc, batch, store_epoch,
                   stage, node>>

FaultyKnown(t) == t \in pending   \* forgets the executing ones

\* In pending_certificates or executing_certificates.
Known(t) == t \in pending \cup executing

FaultyNew(c) == {t \in batch[c] : ~Known(t) /\ t \notin executed}   \* any epoch

\* The certificates of the call the manager does not skip.
New(c) == {t \in batch[c] : EpochOf[t] = epoch /\ ~Known(t) /\ t \notin executed}

FaultySkipped(c) == batch[c] \ New(c)   \* whatever it skips

\* Of the skipped ones, those that must not be retried after a restart.
Skipped(c) == {t \in batch[c] : EpochOf[t] # epoch \/ (~Known(t) /\ t \in executed)}

\* The orders in which a call registers its certificates: the consensus order,
\* or for the recovery log the order of the digests, which is left open.
Orders(c) ==
    IF c = Recovery
      THEN {ord \in [batch[c] -> 1..Cardinality(batch[c])] :
               \A t, u \in batch[c] : ord[t] = ord[u] => t = u}
      ELSE {Position}

FaultyStillMissing(c, k) == avail[c][k] = Missing   \* trusts the first lookup

FaultyUnlessStale(c, k) ==   \* takes an object the cache does not know for available
    avail[c][k] = Missing /\ cached(k) = Missing

\* Inputs found missing are looked up in the cache again.
StillMissing(c, k) == avail[c][k] = Missing /\ cached(k) # InCache

\* The locks t must wait for: the input is missing, or t wants it in Default
\* mode while others hold or await it in ReadOnly mode, certificates registered
\* earlier in this call included.
MustWait(c, t, ord) ==
    {k \in Inputs(t) :
        \/ StillMissing(c, k)
        \/ /\ k \in DefKeys[t]
           /\ \/ has_readonly(k)
              \/ \E u \in New(c) : ord[u] < ord[t] /\ k \in RoKeys[u]}

FaultyInputCount(wait, i) ==   \* does not count waiting for readers
    Cardinality({p \in Tx \X Key :
                    p[2] \in wait[p[1]] /\ IdOf[p[2]] = i /\ ~has_readonly(p[2])})

\* Number of locks on object i that are waited for.
InputCount(wait, i) ==
    Cardinality({p \in Tx \X Key : p[2] \in wait[p[1]] /\ IdOf[p[2]] = i})

\* The locks each certificate waits for once the call has registered it.
Waits(c, ord) == [t \in Tx |-> IF t \in New(c) THEN MustWait(c, t, ord) ELSE {}]

\* The new certificates N take the locks they need not wait for and queue for
\* the others; those that wait for none go to the execution driver.
TakeLocks(N, wait) ==
    LET ready == {t \in N : wait[t] = {}}
    IN  /\ readonly_waiters' = [k \in Key |-> readonly_waiters[k] \cup
               {t \in N : k \in wait[t] \cap RoKeys[t]}]
        /\ readonly_holders' = [k \in Key |-> readonly_holders[k] \cup
               {t \in N : k \in RoKeys[t] \ wait[t]}]
        /\ default_waiters' = [k \in Key |-> default_waiters[k] \cup
               {t \in N : k \in wait[t] \cap DefKeys[t]}]
        /\ lock_waiters' = lock_waiters \cup UNION {wait[t] \cup RoKeys[t] : t \in N}
        /\ input_objects' = [i \in ObjectID |-> input_objects[i] + InputCount(wait, i)]
        /\ acquiring' = [t \in Tx |-> acquiring[t] \cup wait[t]]
        /\ acquired' = [t \in Tx |-> IF t \in N THEN Inputs(t) \ wait[t] ELSE acquired[t]]
        /\ pending' = pending \cup (N \ ready)
        /\ executing' = executing \cup ready
        /\ stage' = [t \in Tx |-> IF t \in ready THEN "queued" ELSE stage[t]]

\* enqueue_impl returns.
Return(c) ==
    /\ pc' = [pc EXCEPT ![c] = "idle"]
    /\ batch' = [batch EXCEPT ![c] = {}]
    /\ avail' = [avail EXCEPT ![c] = EmptyAvail]

LookedUp(c) == pc[c] = "db" /\ \A k \in Needed(batch[c]) : avail[c][k] # Unknown

\* Second critical section: packages found in storage enter the cache, evictions
\* resume, and the new certificates are registered.
RegisterCertificates(c) ==
    /\ ~panicked /\ LookedUp(c) /\ unbounded_cache_enabled > 0
    /\ unversioned_cache' = unversioned_cache \cup
          {IdOf[k] : k \in {l \in Key : VerOf[l] = 0 /\ avail[c][l] = InDb}}
    /\ unbounded_cache_enabled' = unbounded_cache_enabled - 1
    /\ \E ord \in Orders(c) : TakeLocks(New(c), Waits(c, ord))
    /\ pending_execution' = IF store_epoch[c] = epoch
                              THEN pending_execution \ Skipped(c)
                              ELSE pending_execution
    /\ Return(c)
    /\ UNCHANGED <<db, sources, versioned_cache, store_epoch, node>>

\* The assertion of disable_unbounded_cache fails.
AssertUnbounded(c) ==
    /\ ~panicked /\ LookedUp(c) /\ unbounded_cache_enabled = 0
    /\ panicked' = TRUE
    /\ UNCHANGED <<db, pending_execution, sources, inner, calls, stage, epoch, crashes>>
-----------------------------------------------------------------------------
(* The execution driver, and commit_cert_and_notify.                       *)

\* Driver tasks that hold a permit of the semaphore.
Active == {t \in Tx : stage[t] \notin {"idle", "queued"}}

\* A certificate leaves the channel; its task returns if it is already executed.
Dispatch(t) ==
    /\ Running /\ stage[t] = "queued" /\ Cardinality(Active) < Permits
    /\ stage' = [stage EXCEPT ![t] = IF t \in executed THEN "idle" ELSE "running"]
    /\ UNCHANGED <<db, pending_execution, sources, inner, calls, node>>

\* process_certificate takes the execution lock in the certificate's epoch and
\* commit_certificate writes effects and output objects in one batch.
CommitCertificate(t) ==
    /\ Running /\ stage[t] = "running" /\ EpochOf[t] = epoch
    /\ t \notin executed
    /\ executed' = executed \cup {t}
    /\ objects' = objects \cup Outputs[t]
    /\ stage' = [stage EXCEPT ![t] = "committed"]
    /\ UNCHANGED <<pending_execution, sources, inner, calls, node>>

\* In another epoch every one of the EXECUTION_MAX_ATTEMPTS attempts returns
\* WrongEpoch, and the driver panics.
ExhaustAttempts(t) ==
    /\ Running /\ stage[t] = "running" /\ EpochOf[t] # epoch
    /\ panicked' = TRUE
    /\ UNCHANGED <<db, pending_execution, sources, inner, calls, stage, epoch, crashes>>

\* notify_commit.  The task still holds the execution lock, so the epoch of its
\* store is the manager's, and the certificate is an executing one.
NotifyCommit(t) ==
    /\ Running /\ stage[t] = "committed"
    /\ try_acquire_lock(t, Outputs[t] \cup Release(t))
    /\ UNCHANGED <<db, pending_execution, sources, unbounded_cache_enabled, calls,
                   node>>

\* remove_pending_execution, after the lock is released.
RemovePendingExecution(t) ==
    /\ Running /\ stage[t] = "cleanup"
    /\ pending_execution' = pending_execution \ {t}
    /\ stage' = [stage EXCEPT ![t] = "idle"]
    /\ UNCHANGED <<db, sources, inner, calls, node>>
-----------------------------------------------------------------------------
(* Crash, restart and reconfiguration.                                     *)

\* Inner::new.
InnerNew ==
    /\ lock_waiters' = {}
    /\ readonly_waiters' = [k \in Key |-> {}]
    /\ readonly_holders' = [k \in Key |-> {}]
    /\ default_waiters' = [k \in Key |-> {}]
    /\ input_objects' = [i \in ObjectID |-> 0]
    /\ versioned_cache' = [i \in ObjectID |-> 0] /\ unversioned_cache' = {}
    /\ unbounded_cache_enabled' = 0
    /\ pending' = {} /\ executing' = {}
    /\ acquiring' = [t \in Tx |-> {}] /\ acquired' = [t \in Tx |-> {}]

\* The certificates of the checkpoints that are executed completely.
ExecutedCheckpoints ==
    {t \in executed : \A u \in Tx : Position[u] < Position[t] => u \in executed}

FaultyAllPendingExecution == pending_execution \cap channel   \* only unscheduled ones

all_pending_execution == pending_execution

\* The process dies, by a panic or otherwise, and restarts: only storage is
\* left, and TransactionManager::new enqueues the recovery log.
Restart ==
    /\ panicked \/ crashes < MaxCrashes
    /\ crashes' = IF panicked THEN crashes ELSE crashes + 1
    /\ panicked' = FALSE
    /\ InnerNew
    /\ channel' = {}
    /\ scheduled' = ExecutedCheckpoints
    /\ pc' = [c \in Task |-> IF c = Recovery THEN "cache" ELSE "idle"]
    /\ batch' = [c \in Task |-> IF c = Recovery THEN all_pending_execution \ executed
                                                 ELSE {}]
    /\ avail' = [c \in Task |-> EmptyAvail]
    /\ store_epoch' = [c \in Task |-> epoch]
    /\ stage' = [t \in Tx |-> "idle"]
    /\ pending_execution' = pending_execution \ executed
    /\ UNCHANGED <<db, sequenced, epoch>>

\* What revert_uncommitted_epoch_transactions undoes: executed certificates of
\* the epoch that made it to no checkpoint.
Uncommitted == {t \in executed \ (sequenced \cup scheduled) : EpochOf[t] = epoch}

\* AuthorityState::reconfigure, once the checkpoints of the epoch are executed:
\* it waits for running commits (the execution lock), opens an empty epoch
\* store and replaces Inner.  Tasks in enqueue and certificates in the driver's
\* channel are not waited for.
Reconfigure ==
    /\ Running /\ epoch < MaxEpoch
    /\ sequenced \cup scheduled \subseteq executed /\ pc[Executor] = "idle"
    /\ \A t \in Tx : stage[t] \in {"idle", "queued", "running"}
    /\ epoch' = epoch + 1
    /\ InnerNew
    /\ pending_execution' = {}
    /\ executed' = executed \ Uncommitted
    /\ objects' = objects \ UNION {Outputs[t] : t \in Uncommitted}
    /\ UNCHANGED <<sources, calls, stage, panicked, crashes>>
-----------------------------------------------------------------------------
(* Properties.                                                             *)

\* Every variable has the type of the field, table or local it stands for; in
\* particular the usize counters input_objects never go below zero.
TypeOK ==
    /\ executed \subseteq Tx /\ objects \subseteq Key
    /\ pending_execution \subseteq Tx /\ sequenced \subseteq Tx
    /\ channel \subseteq Tx /\ scheduled \subseteq Tx
    /\ epoch \in Nat
    /\ lock_waiters \subseteq Key
    /\ readonly_waiters \in [Key -> SUBSET Tx]
    /\ readonly_holders \in [Key -> SUBSET Tx]
    /\ default_waiters \in [Key -> SUBSET Tx]
    /\ input_objects \in [ObjectID -> Nat]
    /\ versioned_cache \in [ObjectID -> Nat]
    /\ unversioned_cache \subseteq ObjectID
    /\ unbounded_cache_enabled \in Nat
    /\ pending \subseteq Tx /\ executing \subseteq Tx
    /\ acquiring \in [Tx -> SUBSET Key] /\ acquired \in [Tx -> SUBSET Key]
    /\ pc \in [Task -> {"idle", "cache", "db"}]
    /\ batch \in [Task -> SUBSET Tx]
    /\ avail \in [Task -> [Key -> {Unknown, InCache, InDb, Missing}]]
    /\ store_epoch \in [Task -> Nat]
    /\ stage \in [Tx -> {"idle", "queued", "running", "committed", "cleanup"}]
    /\ panicked \in BOOLEAN /\ crashes \in Nat

\* A certificate is handed to the execution driver only when every input it
\* names is in storage at exactly that version, so check_sequenced_input_objects
\* (authority_store.rs) never meets a missing dependency, whatever mixture of
\* cache hits, stale database reads, evictions and restarts led there.
ReadyInputsCommitted == \A t \in executing : Inputs(t) \subseteq objects

\* The lock queues and the lock sets of the certificates describe the same
\* thing: a certificate is in a queue of a key exactly when it still acquires
\* the key in that mode, and it is a readonly holder exactly when it has acquired
\* the key in that mode.  The unwrap()s and assert!s
\* of try_acquire_lock, enqueue_impl and notify_commit rest on this.
QueuesMatchLocks ==
    \A k \in Key, t \in Tx :
        /\ t \in readonly_waiters[k] <=> k \in acquiring[t] \cap RoKeys[t]
        /\ t \in default_waiters[k] <=> k \in acquiring[t] \cap DefKeys[t]
        /\ t \in readonly_holders[k] <=> k \in acquired[t] \cap RoKeys[t]

\* "A transaction enqueued to TransactionManager must be in either
\* pending_certificates or executing_certificates", never in both, with its
\* input locks split between acquiring and acquired; a pending one waits for
\* something and an executing one for nothing.
PendingOrExecuting ==
    /\ pending \cap executing = {}
    /\ \A t \in Tx :
         /\ acquiring[t] \cap acquired[t] = {}
         /\ t \in pending <=> acquiring[t] # {}
         /\ t \in pending \cup executing => acquiring[t] \cup acquired[t] = Inputs(t)
         /\ t \notin pending \cup executing => acquired[t] = {}

\* input_objects, the counter that throttles transactions on a hot object,
\* "should match exactly" the number of locks certificates wait for on it.
InputObjectsExact ==
    \A i \in ObjectID :
        input_objects[i] =
            Cardinality({p \in Tx \X Key : p[2] \in acquiring[p[1]] /\ IdOf[p[2]] = i})

\* The commit that wrote k has not notified the manager yet.
Notifying(k) == \E u \in Tx : stage[u] = "committed" /\ k \in Outputs[u]

\* No lost wakeup: a certificate waiting for a key that storage already has
\* either will be woken by a commit that has not notified the manager yet, or
\* waits for readers to release the key.  This is what the second cache lookup
\* of enqueue_impl and the unbounded mode of the cache are for.
NoLostWakeup ==
    \A k \in objects :
        /\ readonly_waiters[k] # {} => Notifying(k)
        /\ default_waiters[k] # {} => Notifying(k) \/ has_readonly(k)

\* A LockQueue is kept exactly while somebody waits or holds through it: with
\* nothing pending and nothing executing, the manager is empty
\* (check_empty_for_testing), so queues do not leak over the life of a node.
NoLeakedQueue ==
    lock_waiters = {k \in Key : has_readonly(k) \/ default_waiters[k] # {}}

\* The lock queues, the lock sets of the certificates, the counters and the map of
\* queues agree after every critical section of enqueue_impl and notify_commit, so
\* none of their unwrap()s and assert!s fails and nothing is left behind.
LockInv ==
    /\ QueuesMatchLocks /\ PendingOrExecuting
    /\ InputObjectsExact /\ NoLeakedQueue

\* A certificate consensus has output stays in the recovery log until its
\* effects are in storage, so a crash at any point cannot lose it.
RecoveryLogComplete ==
    \A t \in sequenced \ executed : EpochOf[t] = epoch => t \in pending_execution

\* While the node runs, a certificate of the recovery log that is not executed
\* is on its way: in the scheduler's channel, in a call of enqueue, pending, or
\* executing.
NeverForgotten ==
    ~panicked =>
        \A t \in pending_execution \ executed :
            t \in channel \cup pending \cup executing \cup UNION {batch[c] : c \in Task}

\* Reconfiguration leaves nothing of the old epoch behind: what the manager waits
\* for or executes belongs to the current epoch, although calls of enqueue that
\* began in the old epoch end in the new one.
OnlyCurrentEpoch == \A t \in pending \cup executing : EpochOf[t] = epoch

\* The driver never receives a certificate that is already executed or that
\* it is already running.
NoDuplicateDispatch ==
    \A t \in Tx : stage[t] \in {"queued", "running"} /\ EpochOf[t] = epoch
                    => t \in executing \ executed

\* A step in which a certificate gets a Default lock only when nobody awaits the
\* key in ReadOnly mode, and whoever held it so releases it.
DefaultStep ==
    \A t \in Tx : \A k \in (acquired'[t] \ acquired[t]) \cap DefKeys[t] :
        readonly_waiters[k] = {} /\ readonly_holders[k] \cap readonly_holders'[k] = {}

\* LockMode::Default: "the transaction can acquire the lock whenever the object
\* is available and there is no pending or executing transaction with ReadOnly
\* locks": enqueue_impl and try_acquire_lock never let a writer overtake the
\* readers of a version that are ahead of it.
DefaultWaitsForReaders == [][DefaultStep]_vars

\* The transactions that make the inputs of t are executed, or consensus has output them.
Supplied(t) ==
    \A k \in Inputs(t) : k \in objects \/ \E u \in sequenced : k \in Outputs[u]

\* A certificate that consensus has output is executed once its inputs are to come:
\* also if the node crashes and recovers it from pending_execution, if a commit races
\* with the database reads of enqueue_impl, and if a reconfiguration overtakes a call or
\* a certificate in the driver, so that an assertion or the retry limit ends the process.
EveryCertificateExecutes ==
    \A t \in Tx : t \in sequenced /\ Supplied(t) ~> t \in executed
-----------------------------------------------------------------------------
Enqueue(c) == ReadCache(c) \/ (\E k \in Key : ReadDb(c, k)) \/ RegisterCertificates(c)

Execute(t) ==
    \/ Dispatch(t) \/ CommitCertificate(t) \/ NotifyCommit(t)
    \/ RemovePendingExecution(t)

\* One epoch of a node.
Next ==
    \/ ConsensusCommit \/ ScheduleTransactions \/ ExecuteCheckpoint
    \/ \E c \in Rpc : ExecuteCertificate(c)
    \/ \E c \in Task : Enqueue(c)
    \/ \E t \in Tx : Execute(t)

Spec == Init /\ [][Next]_vars

\* One epoch of a node that crashes and restarts.
NextCrash == Next \/ Restart

SpecCrash == Init /\ [][NextCrash]_vars

\* Several epochs.
NextEpochs ==
    \/ NextCrash
    \/ Reconfigure
    \/ \E c \in Task : AssertUnbounded(c)
    \/ \E t \in Tx : ExhaustAttempts(t)

SpecEpochs == Init /\ [][NextEpochs]_vars

\* What the node does by itself.  Clients need not call, consensus and state sync need
\* not deliver, and calls of clients need not get on.
OwnStep ==
    \/ \E t \in Tx : Dispatch(t) \/ CommitCertificate(t) \/ RemovePendingExecution(t)
    \/ \E c \in Task \ Rpc : ReadCache(c) \/ (\E k \in Key : ReadDb(c, k))
    \/ \E t \in Tx : NotifyCommit(t)
    \/ ScheduleTransactions
    \/ \E c \in Task \ Rpc : RegisterCertificates(c)
    \/ \E c \in Task : AssertUnbounded(c)
    \/ \E t \in Tx : ExhaustAttempts(t)
    \/ panicked /\ Restart

\* The tokio scheduler runs tasks that can run, and a process that panicked is restarted.
FairSpec == SpecEpochs /\ WF_vars(OwnStep)
=============================================================================
