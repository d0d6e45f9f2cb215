# A TLA+ model of the Sui validator

This directory holds a verification project for the parts of a Sui node that
decide *in which order* transactions are sequenced, *when* one is executed, *which*
state it sees, and how all validators come to the same checkpoints. Definitions are
translated from the Rust code; `PROJECT.json` gives, for each definition, the file
and lines it stands for. Definitions keep the names of the code where TLA+ allows it.

## 1. The system and its parts

A certificate of a transaction with shared objects is sequenced by **Narwhal**, which
certifies a DAG and orders it with **Bullshark**. The **consensus handler** of each
validator processes the commits, writes them to a recovery log and hands them to the
**transaction manager**; so do RPC calls (transactions with owned objects only need no
consensus) and the checkpoint executor. The manager gives a certificate to the
**execution driver** when all its inputs are in storage and its locks are free; the
driver executes it, commits effects and objects in one batch, and notifies the manager.
Owned objects are protected by **locks** that a validator takes when it signs. From each
commit the **checkpoint builder** makes checkpoints, in **causal order**; the aggregator
certifies them, **state sync** fetches those that are missing, and the checkpoint
executor executes what is synced. At the end of an epoch each validator stops accepting
certificates, sends **EndOfPublish** when it has no more of its own in flight, reverts
what was not sequenced, and reconfigures.

| Module | Models | Instance | Proofs |
|---|---|---|---|
| `TransactionManager` | transaction manager, execution driver, commit, recovery log, crash, epoch change | `MCTransactionManager`, `MCStaleVersion` | `TransactionManagerProofs` |
| `ObjectLocks` | locks of owned objects, signing, execution, revert, over several epochs, at all validators | `MCObjectLocks` | `ObjectLocksProofs` |
| `SingleSpend` | what clients are promised about owned objects; `ObjectLocks` implements it | | |
| `EpochEnd` | certificate acceptance, consensus adapter, consensus handler, EndOfPublish, revert, crash, at all validators | `MCEpochEnd` | `EpochEndProofs` |
| `CausalOrder` | `causal_sort`, step by step | `MCCausalOrder` | `CausalOrderProofs` |
| `CausalSort` | the result of `causal_sort` and of the split into checkpoints as operators | | |
| `CheckpointBuilder` | pending checkpoints and the checkpoint builder of several validators | `MCCheckpointBuilder` | `CheckpointBuilderProofs` |
| `CheckpointSync` | aggregator, state sync, checkpoint executor and their store at one validator | `MCCheckpointSync` | `CheckpointSyncProofs` |
| `Bullshark` | acceptance of certificates, commit rule, leader schedule, persistence, hand-over to the handler, crash, at all validators | `MCBullshark` | `BullsharkOrder`, `BullsharkProofs` |

The modules meet at interfaces that each one states as an assumption and another one
justifies: `CheckpointBuilder` assumes of the sort what `SortCausal` and `SortPartition`
prove of `CausalOrder`; `ObjectLocks` takes the end of an epoch as one step whose
content is what `EffectsFinal` proves of `EpochEnd`; `EpochEnd` and `CheckpointBuilder`
assume one log of commits, which `BullsharkAgreement` proves of `Bullshark`.

Definitions called `Faulty...` in a module are variants of the definition after them with
one mistake in it. They document what each property is sensitive to; no specification
uses them.

## 2. The modules and the code

### TransactionManager

One action per critical section. `Call`, `ReadCache`, `ReadDb`,
`RegisterCertificates` are the four parts of `enqueue_impl`: what happens before
the lock, the first critical section, the unlocked database reads (one key per
step, as `multi_input_objects_available` offers no snapshot), and the second
critical section. `NotifyCommit` is `notify_commit` with every
`try_acquire_lock` and `certificate_ready` it makes. `CommitCertificate` is the
atomic batch of `commit_certificate`; `RemovePendingExecution` follows in a step
of its own because the code does it after the lock is released.

Abstractions: an execution is the set of keys it writes; the order of the LRU
list is left open (any entries may be evicted, except the last inserted); a
checkpoint is a run of certificates in consensus order; gas-price order is
`Position`. `Restart` keeps the database and nothing else. `Reconfigure` is
`AuthorityState::reconfigure`: it waits for commits in progress (they hold the
execution lock for reading), not for calls of `enqueue` nor for certificates in
the driver's channel. Two panics are steps of their own, `AssertUnbounded` (the assertion of
`disable_unbounded_cache`) and `ExhaustAttempts` (the retry limit of the driver): after either the
process does nothing until `Restart`.

### ObjectLocks and SingleSpend

`HandleTransaction` starts a call with the epoch store it has read; the call then checks
the inputs, reads the locks under the mutex of the digests, writes them, and signs, in
separate steps, so that other calls, an execution, a crash or a reconfiguration come in
between. Executing a certificate deletes the locks of the inputs and creates those of the
outputs; the revert at the end of the epoch is one batch per transaction, in any order.
Quorums are given by their honest members, and any two have one in common; the others
may sign anything. `SingleSpend` has one ledger per epoch: a transaction becomes final only if it
conflicts with nothing final, nothing final is ever taken away, and a closed epoch does
not change. `LedgerSpec` maps to it: the ledger of an open epoch is what a quorum has
signed effects for, that of a closed one what its checkpoints hold.

In three places the model is not literal:

- `MayExecute` needs an open epoch, which the code that executes a certificate does not look at; an
  execution after the close is a behaviour of the model in which the close comes later.
- `Uncommitted` is everything executed in the epoch that is in no checkpoint, while the code goes through what is
  still pending (`authority.rs` 4023-4044). The two differ in the case of `ee_not_reverted` only (theorem
  `OnlyIgnoredSurvive`), which is left to `EpochEnd`.
- `Revert` applies to a transaction whose inputs are still stored. The code takes the pending ones in the order of
  the table and panics if an input is gone (`authority_store.rs:1583`); in the model that step is disabled.

### EpochEnd

A validator executes an owned-object certificate and signs the effects before
consensus has output the certificate, and reverts at the end of the epoch what was
not output. That this loses nothing a client may rely on is the business of four
pieces of code in four files, and `EpochEnd` composes them: several validators,
each with its `ReconfigState`, its table of pending consensus transactions, the
tasks of its consensus adapter and its consensus handler, joined by Narwhal.

- `HandleCertificate`, `SubmitCertificate`: `handle_certificate` on either side of
  the check whether consensus has output the certificate. Both hold the
  reconfiguration lock for reading, so `CloseEpoch`, which writes it, waits.
- `SubmitAndWait`, `RemovePending`, `FinishTask`: `submit_and_wait_inner`. The table
  is cleared and the decision to send EndOfPublish is taken in separate steps.
- `CloseEpoch`, `SendEndOfPublish`: `close_epoch` inside and outside the lock.
- `HandleConsensusOutput`: `handle_consensus_output` for one commit, with all of the
  batch it writes and the notifications it sends.
- `Crash`: the process restarts; tables stay, tasks are those of `submit_recovered`,
  Narwhal may lose what it had of this validator.
- `Reconfigure`: the validator has executed the last checkpoint of the epoch, its own
  or a synced one, and reverts the pending certificates that are not in it.
- `Execute`: the certificate was requested by a client, scheduled by consensus here, or is in a
  certified checkpoint that state sync has fetched. The third is `Checkpointed`: a quorum has
  scheduled it. The checkpoint executor looks at neither the reconfiguration state nor the pending table.

Narwhal is external here: one log of commits, each a set of messages that were submitted;
a message may be committed again. EndOfPublish of `v` is represented by `v`. All
validators run the code; lying ones are not modelled. Order inside a commit, system
transactions and checkpoint contents are abstracted away.

### CausalOrder, CausalSort and CheckpointBuilder

`CausalOrder` is the depth-first search of `causal_sort` with its explicit stack: taking
the smallest digest left (`PopFirst`), descending into a dependency, and putting a
transaction out. `RWLockDependencyBuilder` is `Dependencies`: what overwrites a version of
a shared object also depends on its readers. `CausalSort` states the same order as a recursive
operator, and how the result is split by number and size of transactions.

`CheckpointBuilder` has several honest validators that process one log, each at its own
pace: `HandleCommit` writes the pending checkpoint, the builder task waits for the roots,
completes them with the dependencies that are in no earlier checkpoint of the epoch
(`Closure`), sorts and splits (`Chunks`, a constant with the properties the sort has),
signs each checkpoint, writes `locally_computed_checkpoints`, and then the summaries in one
batch. A crash comes between any two of these. The log is chosen at the start: it is what consensus
will output. Transactions may be executed before they are ordered, or through state sync
(`Published`: a checkpoint that some validator has signed; the real one has a quorum, so
this is an over-approximation).

`Roots` of a commit are its certificates and its prologue, a transaction of its own for each commit (`Prologue`).
Consensus goes on after the commit that closes the epoch (`later`): the handler still records the messages as
processed and stores a pending checkpoint, but schedules nothing. The branch that would stop it
("Not forming checkpoint for round {} above final checkpoint round", `consensus_handler.rs:412-418`) is not taken,
since `final_checkpoint_round` is set in the batch of the closing commit only. What keeps the builder from
building after the last checkpoint is that the prologue of the later commit is a root that is never executed;
`LastIsComplete` states the consequence, and a variant of `Roots` without the prologue violates it.

### CheckpointSync

Five concurrent tasks of one validator share three watermarks and the tables under them:
the aggregator, the event loop of state sync, its summary and contents tasks, and the
checkpoint executor, which hands over to the node at the end of an epoch. Reading a
watermark, comparing it and writing it are separate steps where the code holds no lock
over them; `guard` is the mutex in `RocksDbStore` with the value it caches, which a restart forgets.
Peers answer with correct checkpoints or not at all.
The executed watermark starts at 0, the genesis checkpoint; in the code it is absent until the executor has run
that one (`insert_genesis_checkpoint`). `CompareVerified` leaves out the comparison with the value cached under
the mutex of the verified watermark (`storage.rs:202-205`), which never skips a write: the messages of the
aggregator increase.

### Bullshark

Every validator takes the same steps: `Accept` is the synchronizer (a certificate waits for its parents, or for
the garbage collection to pass them); `ProcessCertificate` and `Commit` are
`process_certificate`, with one step per iteration of `commit_leader`, as each iteration
writes to the store; `HandleOutput` is the consensus handler with its filter for repeated
commits. `Restart` rebuilds the DAG, the schedule and the output from the two stores. The
certified DAG is an input, one of `Dags`, the same for all: a quorum signs one certificate per
author and round. The loops of `linked`, `order_leaders` and `order_dag` are recursive functions of
the number of iterations; the stake of a set is the number of its units. `First` is a bound: if it
names a validator, that one gets the certificates round by round before the others get any.
Certificates suspended by the synchronizer are those not yet accepted; its gc round, which
lags behind that of consensus, is over-approximated. `CommitLeader` is the code with the protocol flag
`narwhal_new_leader_election_schedule` set (`bullshark.rs:405`), as it is on all networks at the current version.

## 3. Runs

| Run | Shows |
|---|---|
| `tm_concurrent` (`TM_OneEpoch.cfg`) | with scheduler, executor and one RPC task enqueuing the same certificates and a one-entry cache: inputs are committed before execution, queues, lock sets and counters agree, no wakeup is lost, no certificate is dispatched twice, writers wait for readers |
| `tm_restart` (`TM_Restart.cfg`) | with a crash and an epoch change at any point, also under running calls, and with the panics these may end in: the recovery log holds what consensus has output, nothing of it is forgotten, nothing of an old epoch stays in the manager, and a sequenced certificate whose inputs are to come is eventually executed |
| `tm_stale_wakeup` (violation) | a cache entry re-inserted by a late notification answers "not available" for a version that is stored |
| `ol_epochs` (`OL_Epochs.cfg`) | conflicting transactions sent to three validators over two epochs, with a crash and reverts: no validator signs both in an open epoch, certified effects are not undone, and `SingleSpend` is implemented |
| `ee_faults` (`EE_Faults.cfg`) | messages committed twice or lost by a crash, a validator left behind by the quorum: certificates come before their author's EndOfPublish, validators agree on what a commit does, no shared-object certificate is reverted; until the epoch closes, what was executed is scheduled, pending or in a checkpoint; quorum effects survive |
| `ee_live` (`EE_Live.cfg`) | the epoch ends at every validator |
| `ee_eop_lost` (violation) | after a crash inside `close_epoch` the validator never sends EndOfPublish, which a comment in `submit_recovered` says it would |
| `ee_not_reverted` (violation) | a certificate that consensus outputs after the close counts as processed, so that after a restart it is no longer pending, and the validator enters the next epoch with its execution |
| `co_sort` (`CO_Sort.cfg`) | every list of effects of up to four transactions is put in causal order, nothing is lost or doubled, the order is that of the recursive definition, and the search ends |
| `cb_epoch` (`CB_Epoch.cfg`) | two validators never sign different checkpoints with one number, also after a crash; every transaction is included once, in causal order; all that is signed was scheduled here; the last checkpoint closes a complete epoch and none follows, although consensus goes on; and the epoch is eventually completed |
| `cs_sync` (`CS_Sync.cfg`) | contents are there up to the synced watermark, the executor keeps in step with it, no watermark goes back, and the validator catches up with the network |
| `bs_order` (`BS_Order.cfg`) | 73 DAGs of seven rounds whose certificates arrive in any causal order, with a crash and schedule changes, at a validator beside one that got them round by round: both commit the same sub-dags, no certificate twice, never miss a parent, and hand the sub-dags over once and in order |

Deadlock is checked in `tm_concurrent` only. In the other runs the system may stop: everything
is executed, all validators have left the last epoch, the sort has returned, or the bound on rounds
or checkpoints is reached.

### Bounds

- *TransactionManager.* A reader, a writer of the same version, and a publisher of what both
  need are the smallest workload in which each lock mode waits for the other and for a
  missing object; a cache of one entry makes every insertion of a second object an eviction.
  `MCStaleVersion` has successive writers of one object and an unrelated one that
  evicts it. One crash is enough because `Restart` leaves nothing but the database, so a
  second crash starts from a state like the first. `MaxBatch` bounds the certificates of one call; calls with
  several certificates occur when the recovery log is enqueued. In `tm_restart` one transaction belongs
  to the second epoch. (180,651 states in `tm_concurrent`, 123,985 in `tm_restart`.)
- *ObjectLocks.* Three honest validators of four, of which two are a quorum. The two transactions
  spend one object and are sent to different pairs, so that either may be certified, or
  neither; `v1` gets both, concurrently. In the second epoch one of them is sent to `v2` again, which
  may have reverted the other. (353,216 states.)
- *EpochEnd.* With a heavy `v1`, `v2` is a validator that the quorum leaves behind, which is
  when something is reverted. A certificate, an EndOfPublish that follows it and a repetition
  of the certificate need three commits. One fault is allowed, a crash or a repetition; a crash alone gives
  repetitions too, as what is pending is sent again. In `ee_live` the log has room for every message
  the validators can send, so the bound never stops consensus. Three validators with
  overlapping quorums are covered by the proof. In `ee_not_reverted` one certificate is sent to
  both validators. (667,549 states in `ee_faults`, 419,977 in `ee_live`.)
- *CausalOrder.* All dependencies among four transactions, readers and a writer of one
  version, every order of the digests, with and without the first of them in the list. (293,376 states.)
- *CheckpointBuilder.* Two commits up to the close and one after it, each with its prologue, over three certificates:
  a reader and a writer of a shared version, and an owned-object transaction the writer depends on. The latter is
  ordered in a later commit than the writer, earlier and again with it, or after the close only, when it may be executed
  without being in a checkpoint. Chunks have two transactions, and one transaction is too large to share a chunk.
  (123,026 states.)
- *CheckpointSync.* Three checkpoints with an epoch change after the second, two downloads and
  two executions at a time, two crashes or failed requests: the second one hits a node that is
  recovering. (207,171 states.)
- *Bullshark.* Four authorities of equal stake, seven rounds: three leaders, so that one may be skipped
  and committed with a later one, with a schedule change in between; a gc depth of three,
  so that late certificates fall below it. The family of DAGs varies how many children a leader has (none,
  too few, just enough, plenty) and lets one certificate arrive last. The first of the two validators gets the certificates
  round by round (`First`) and does not crash, so that the states are those of the second. The proofs take any `First`, also none,
  and any number of crashes. (316,399 states.)

### Fairness

`FairSpec` of `TransactionManager` assumes weak fairness of `OwnStep`: as long as the scheduler, the checkpoint
executor, the recovery or the driver can go on, something of it happens, as tokio runs tasks that are ready; and a
process that panicked is restarted. One condition for all of them is enough, and weaker than one for each: every such step
consumes work. Consensus, state sync and clients need not do anything, and calls of clients need not go
on, which is why `EveryCertificateExecutes` is about certificates that were sequenced and whose inputs are stored or come from
sequenced ones. Crashes and reconfigurations are bounded and never forced. `FairSpec` of `EpochEnd` assumes weak fairness for the tasks of
each validator together, for consensus, and for `CloseEpoch`: checkpoint timestamps
grow, and the first one past the end of the epoch calls `close_epoch`. Clients need
not do anything. There is no crash in `ee_live`, because of `ee_eop_lost`. `CheckpointBuilder` assumes
weak fairness of the steps of each validator, `CheckpointSync` of each task and of the downloads
(a peer answers eventually), not of failures, `CausalOrder` of the search itself.
No liveness is stated of `Bullshark`: it depends on the DAG.

## 4. Proofs

The theorems hold for every value of the constants that satisfies the named assumptions of
the module, in particular for any number of validators, transactions, commits, calls and
crashes. Each rests on an inductive invariant, `IInv` unless said otherwise. All `ASSUME`s are
evaluated by TLC on the instances of section 3.

### TransactionManager (`SpecCrash`; `CurrentEpochOnly` for `SpecEpochs`)

Assumptions: the workload is finite, a key has one lock mode per certificate, a key is
determined by object and version, a version is written only by a transaction that read
the one below it (`WorkloadOrder`), and a transaction writes an object at one version and none of
those it reads in ReadOnly mode (`WrittenOnce`).

- `TypeOK`. The counters of waiters are naturals only because they equal the
  number of waiters, so typing needs the next part.
- `LockInv`: queues, lock sets and counters agree. The step that is not obvious
  is `notify_commit`: the released and the written keys are handled in a loop,
  and the lemmas `NotifyQueues` and `NotifyCounters` show that the keys do not
  interfere.
- `StageInv`: a certificate the driver has of the current epoch is an executing
  one, and not executed until it commits. It rules out double dispatch.
- `StorageInv`: what the cache and the calls believe about availability is true
  in storage. It needs that storage is closed downward in versions, since the
  cache answers "available" for every version at or below the highest known.
- `LogInv`: what the recovery log holds is executed or on its way.

The counter of unbounded mode is the number of calls between their critical sections (`Balanced`). This
is a step in the proof of `NoWakeupLost` below, and gives `AssertHolds`, that the assertion of `disable_unbounded_cache` holds as
long as the epoch does not change. `CurrentEpochOnly` needs no more than the checks of the epoch in the two critical
sections and holds across epochs.

`NoLostWakeup` is false in general, as `tm_stale_wakeup` shows. `NoWakeupLost` says exactly what is
missing: under the proviso `[]CacheCurrent`, that the cache holds no version below the stored one
except for commits still to notify, it holds for every workload and every crash. The
argument is that the unbounded mode keeps what a call has seen, or what was committed since, until
the call registers its certificates. The workloads of `tm_concurrent` and `tm_restart`, in which no
certificate waits for the second of two versions written, satisfy `NoLostWakeup` without it.

### ObjectLocks

- `EpochInv`: validators are in no epoch beyond the last closed one; calls and signatures are of
  the present epoch or earlier ones.
- `LockInv`: in an open epoch what a call or a signature holds stays locked to it until it is spent;
  calls that are writing locks do not overlap; so two held transactions do not conflict. The hard case is a call that
  keeps its old epoch store across a reconfiguration: its locks belong to a closed epoch.
- `CertInv`: what is executed is certified; the quorum that closed an epoch has executed in it what is
  final and nothing else; what is final is not executed again, hence not reverted.

`SignsOnce` and `EffectsSurvive` follow by quorum intersection, and `LedgerRefinement`
(`Spec => LedgerSpec`) shows step by step that the ledger changes only as `SingleSpend` allows.

### EpochEnd

Any quorum system in which two quorums meet (`EpochAssumption`).

- `TableInv`: what the handler has in its tables is a function of the number of
  commits it has handled: `Seen` (all keys) and `Counted` (those up to the commit that
  closes the epoch). Agreement of validators is immediate from it.
- `CloseInv`: a closed epoch was closed by counted votes.
- `AdapterInv`: a certificate that was submitted is pending until it is output, and
  once a validator has decided to send EndOfPublish none is pending.
- `OrderInv`: if EndOfPublish of `v` is in commit `i`, every certificate `v` has
  published is in an earlier commit, and every one it has executed is in an earlier
  commit or is counted.
- `ExecutionInv`, `SharedInv`: what was requested or executed is pending, output or in a
  checkpoint; shared-object certificates are executed only when scheduled here or in a checkpoint.

`EffectsFinal` then follows by quorum intersection: some validator is both among the
signers and among those whose EndOfPublish closed the epoch, and `OrderInv` places the
certificate before its EndOfPublish. `OrderInv` needs `AdapterInv` at the moment the
EndOfPublish is committed, and `TableInv` needs `OrderInv` because the handler ignores
certificates from validators that have voted: only since there are none of these is
the table a function of the log.

`ExecutionTracked` is about the time until the epoch closes. `UncommittedReverted`, its counterpart after the
reconfiguration, is false (`ee_not_reverted`). `OnlyIgnoredSurvive` says exactly what can be left: an
execution that survives and is in no checkpoint is of a certificate that consensus has output and the handler has
ignored because the epoch was closed. It needs that all a validator has scheduled when
it reconfigures is in a checkpoint, which is `TableInv` for the quorum it follows.

### CausalOrder

For every list of effects that come from an execution (`InputsAssumption`: a dependency was executed
earlier). `CausallySorted` is not inductive: when a transaction is put out, one of its dependencies
could be below it on the stack. `Chain` says that the stack descends along dependencies, so the
positions of execution decrease towards its top, and `Visited` that what was dropped from the dependencies of a
stack entry was visited.

### CheckpointBuilder

Assumptions: `Chunks` gives, for every set of transactions, a non-empty sequence of sequences that holds each
once and in causal order (`ChunksAssumption`; `SortCausal` and `SortPartition` prove it of the search
for the transactions that are sorted, splitting keeps it, and TLC evaluates it on the operators of `CausalSort`),
and a log orders, no later than a transaction, its shared-object dependencies and the readers of the versions it
replaces, and at some time all its dependencies of this epoch (`LogsAssumption`: versions are assigned in consensus
order, and EndOfPublish comes after a validator's certificates).

The checkpoints of an epoch are a function of the log, whoever computes them and whenever: `IsChain` describes
the sequence of all checkpoints up to a commit, and `ChainUnique` shows by induction on the commits that it is
unique. `IInv` says that what a validator has built, written, signed or has in memory is on a chain, that what it
has signed was scheduled here, and that the prologues of commits after the close are executed nowhere, so that no builder
gets beyond the closing commit. The
step that is not obvious is `Collect`: a validator completes the roots of a commit with their
dependencies while other validators may be ahead, and what it leaves out depends only on what it has built, not
on what it has executed. `CheckpointsAgree` follows; `IncludedOnce`, `CausalHistory` and
`EpochIsComplete` are facts about chains, by induction on the commits, carried over by `IInv`.
`SignaturesFound` is in `IInv`; its argument is that `Create` waits for the certificates to be processed, and those of
a chain are all ordered before the close.
`CausalHistory` uses that a batch closes under dependencies, so a dependency is in the same batch (then
the sort orders it) or in an earlier one, and that readers are ordered by the log.

### CheckpointSync

- `CertifiedInv`: the certified checkpoints have no gap, and the watermarks, the target and the
  aggregator are within them.
- `BuiltInv`, `ConsensusInv`: what was built here, and is on its way from the aggregator to the event loop, has the contents of all
  checkpoints below it.
- `SummaryInv`, `DownloadInv`: where the summary and contents tasks continue.
- `GuardInv`: the mutex of the store remembers the synced watermark or, after a restart, all that may
  still update it is above it. Without the second half the first update after a restart could move
  the watermark back.
- `ExecutorInv`: the executor has scheduled what follows the executed checkpoint, of its epoch, up to the synced one.

`SyncComplete` and `ExecutorFollows` are invariants, `NoWatermarkGoesBack` is the action property.

### Bullshark

Assumptions (`BullsharkAssumption`): a finite committee with positive stakes, a positive gc depth, at most 33 percent of the stake may be
swapped out of the schedule, and the DAG is one that a quorum has checked (`IsDag`): parents are of the round before and have a quorum of the stake.

`BullsharkOrder` is about the functions of the code on one DAG.

- `SupportedIsLinked`: every certificate two rounds or more above a leader with the validity threshold of support has a path to
  that leader, because supporters and parents have an authority in common.
- `FirstIsUnique`: so the walk back of `order_leaders`, with one table, ends at the same oldest leader whichever supported leader it starts from.
- `SearchEnds`: `order_dag` empties its stack within as many iterations as there are certificates, since each puts out one that no other does.
  What it visits depends on the DAG and on `last_committed`, not on what the validator has of the DAG.

The recursive functions are used through `Iteration`, which gives the two equations of a function defined by iteration.
Induction is on natural numbers, with the predicate written out in the step where it is used.

`BullsharkProofs` has the inductive invariant.

- `HasHistory`: the commits of a validator are a history, a sequence of commits each of which is the one that follows the
  state before it whatever validator computes it (`IsHistory`); two histories are equal up to the length of the shorter one
  (`HistoryUnique`). The table and `last_committed` are those of the history.
- `Fed`: the dag is closed above the gc round, so that an election in it gives what it would give in the whole DAG (`ElectSame`), and what is stored but not in the dag is at or below the gc round or still in the channel.
- `Committing`: the leaders left of a batch are those that the whole DAG gives with the present table and last commit. This is where a schedule change in the middle of
  a batch comes in: after it, `process_certificate` elects again.
- `Sent`: what is on its way to the handler continues what it has executed, or repeats the last of it.

`BullsharkAgreement`, `BullsharkCommittedOnce`, `BullsharkDagIsClosed` and `BullsharkExecutedInOrder` follow.

### Only model-checked

- Liveness: `EveryCertificateExecutes`, `EpochEnds`, `EpochCompletes`, `CatchesUp`, `Returns`. The
  prover has no support for fairness.
- `SearchOrder`: it compares with a recursive operator, and what that computes needs induction over
  its argument.

## 5. What the project found

Three runs end in a violation, each against a comment of the code (`findings` in `PROJECT.json`):
`tm_stale_wakeup`, `ee_eop_lost` and `ee_not_reverted`. In addition, modelling showed the following.

- `reconfigure` replaces `Inner`, and the counter of unbounded mode with it, between the two critical sections of a call of
  `enqueue_impl`, which nothing waits for; then `assert!(self.unbounded_cache_enabled > 0)` fails
  (`transaction_manager.rs:229`). `AssertHolds` is therefore stated for one epoch; across epochs the process panics and
  restarts, and `EveryCertificateExecutes` shows that nothing is lost by it.
- No commit after the close is kept from leaving a pending checkpoint by the branch written for it
  (`consensus_handler.rs:412-418`); see `CheckpointBuilder` in section 2.
- A call of `handle_transaction` keeps its epoch store across a reconfiguration, so it may write locks after the revert.
  A lock may also be created again for a version that is spent (`authority_store_tables.rs:57-62`).
  Neither affects the open epoch, which is what `SignsOnce` needs.
- The highest verified watermark may go back, and the synced one may pass it. State sync promises notifications
  in order (`state_sync/mod.rs:46-47`), but the event loop may notify a later checkpoint before the contents
  task an earlier one; the executor ignores the number and reads the watermark, so nothing depends on it. A crash
  between `insert_certified_checkpoint` and the message to state sync is repaired by the next message.

## 6. What is not modelled

- *TransactionManager*: receiving objects, whose availability rule differs; database errors; the
  throttling queries, which only read.
- *ObjectLocks*: receiving objects, shared inputs, gas and overload checks.
- *EpochEnd*: submission delays, capabilities and JWK votes, lying validators.
- *CheckpointBuilder*: gas totals, timestamps, the next committee; shared-object version assignment is an assumption on the log.
- *CheckpointSync*: signatures and the counting of a quorum (a quorum may be there for any checkpoint that was
  built), archive sync, the limit on transactions in flight, pruning, peers that answer wrongly.
- *Bullshark*: proposing, voting and certification (the DAG is an input), and workers.
- Shared-object version assignment, quorum driver, `NotifyRead` and the mutex table (used as atomic
  primitives), state accumulator, discovery, randomness, storage engine, Move, RPC and applications:
  `components` in `PROJECT.json` gives the reasons.
