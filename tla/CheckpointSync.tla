--------------------------- MODULE CheckpointSync ---------------------------
(***************************************************************************)
(* How one validator certifies, synchronizes and executes checkpoints:     *)
(*   - CheckpointAggregator (sui-core/src/checkpoints/mod.rs) certifies    *)
(*     the checkpoints that were built here and sends them to state sync;  *)
(*   - the event loop of state sync and its tasks for summaries and for    *)
(*     contents (sui-network/src/state_sync/mod.rs) work on the same       *)
(*     tables, through RocksDbStore (sui-core/src/storage.rs);             *)
(*   - CheckpointExecutor (checkpoints/checkpoint_executor/mod.rs) follows *)
(*     the highest synced checkpoint, and the node reconfigures after the  *)
(*     last checkpoint of an epoch (sui-node/src/lib.rs).                  *)
(* They run concurrently, and the process can stop between two writes.     *)
(*                                                                         *)
(* A checkpoint is its sequence number; 0 is the genesis checkpoint.       *)
(* Signatures are not modelled: there may be a quorum for any checkpoint   *)
(* that was built.  Peers answer with correct checkpoints or not at all.   *)
(*                                                                         *)
(* Definitions named Faulty... are variants of the definition that follows *)
(* them, each with one plausible mistake; no specification uses them.      *)
(***************************************************************************)
EXTENDS Integers, Sequences, FiniteSets

CONSTANTS
    MaxSeq,           \* bound on sequence numbers
    EpochOf,          \* the epoch of each checkpoint
    MaxDownloads,     \* checkpoint_content_download_concurrency
    MaxExecutions,    \* checkpoint_execution_max_concurrency
    MaxFaults         \* bound on crashes and on failed requests for summaries

ASSUME SyncAssumption ==
    /\ MaxSeq \in Nat /\ MaxDownloads \in Nat \ {0} /\ MaxExecutions \in Nat \ {0}
    /\ EpochOf \in [0 .. MaxSeq -> Nat] /\ EpochOf[0] = 0
    /\ \A n \in 1 .. MaxSeq : EpochOf[n] - EpochOf[n - 1] \in {0, 1}

VARIABLES
    network,     \* peer_heights: the highest checkpoint of the peers
    \* On disk.
    epoch,       \* the epoch of the node
    built,       \* builder_checkpoint_summary, of all epochs
    certified,   \* certified_checkpoints
    contents,    \* the checkpoints whose contents can be read from the tables
    verified, synced, executed,  \* the watermarks
    \* In memory.
    aggregator,  \* current checkpoint, and the certified ones still to send
    mailbox,     \* of state sync: VerifiedCheckpoint messages
    loop,        \* the event loop of state sync: where it is, with which checkpoint
    summaries,   \* sync_checkpoint_summaries_task
    target,      \* target_sequence_channel, and whether it has changed
    downloads,   \* locals of sync_checkpoint_contents
    guard,       \* RocksDbStore::highest_synced_checkpoint
    event,       \* the mailbox of the executor is not empty
    executor,    \* locals of run_epoch
    faults       \* crashes and failures so far

disk == <<epoch, built, certified, contents, verified, synced, executed>>
tasks == <<mailbox, loop, summaries, target, downloads, guard>>
vars == <<network, disk, aggregator, tasks, event, executor, faults>>

None == -1

LastOfEpoch(n) == n < MaxSeq /\ EpochOf[n + 1] > EpochOf[n]

\* next_checkpoint_to_certify.
NextToCertify == 1 + CHOOSE n \in certified : \A m \in certified : m <= n

-----------------------------------------------------------------------------
(* The executor *)

FaultyScheduled(e, next, pending, highest) ==
    LET n == IF next > highest THEN 0 ELSE highest - next + 1
        room == MaxExecutions - Len(pending)
        k == IF n < room THEN n ELSE room
    IN  [next |-> next + k, pending |-> pending \o [i \in 1 .. k |-> next + i - 1], ended |-> FALSE]

\* schedule_synced_checkpoints, in epoch e: schedules the synced checkpoints of the
\* epoch in order, while there is room for them.
Scheduled(e, next, pending, highest) ==
    LET OfEpoch == {n \in next .. highest : EpochOf[n] <= e}
        room == MaxExecutions - Len(pending)
        k == IF Cardinality(OfEpoch) < room THEN Cardinality(OfEpoch) ELSE room
    IN  [next |-> next + k, pending |-> pending \o [i \in 1 .. k |-> next + i - 1], ended |-> FALSE]

\* An iteration of the loop of run_epoch up to select!: if the highest executed
\* checkpoint ends epoch e (check_epoch_last_checkpoint) then run_epoch returns.
Iterate(e, highestExecuted, next, pending, highest) ==
    IF EpochOf[highestExecuted] = e /\ LastOfEpoch(highestExecuted)
    THEN [next |-> next, pending |-> pending, ended |-> TRUE]
    ELSE Scheduled(e, next, pending, highest)

\* run_epoch up to the first select!.
RunEpoch(e) == Iterate(e, executed, executed + 1, <<>>, synced)

\* A message of state sync wakes run_epoch up.
ReceiveEvent ==
    /\ ~executor.ended
    /\ event
    /\ event' = FALSE
    /\ executor' = Iterate(epoch, executed, executor.next, executor.pending, synced)
    /\ UNCHANGED <<network, disk, aggregator, tasks, faults>>

\* The first pending checkpoint is executed: process_executed_checkpoint.
CheckpointExecuted ==
    /\ ~executor.ended
    /\ executor.pending # <<>>
    /\ LET n == Head(executor.pending)
       IN  /\ n \in contents
           /\ executed' = n
           /\ executor' = Iterate(epoch, n, executor.next, Tail(executor.pending), synced)
    /\ UNCHANGED <<network, epoch, built, certified, contents, verified, synced,
                   aggregator, tasks, event, faults>>

\* monitor_reconfiguration, after run_epoch: stops the checkpoint service, moves to the
\* next epoch and runs the executor for it.
Reconfigure ==
    /\ executor.ended
    /\ epoch' = epoch + 1
    /\ executor' = RunEpoch(epoch + 1)
    /\ aggregator' = [aggregator EXCEPT !.current = None]
    /\ UNCHANGED <<network, built, certified, contents, verified, synced, executed,
                   tasks, event, faults>>

-----------------------------------------------------------------------------
(* The checkpoint service *)

\* CheckpointBuilder (module CheckpointBuilder) stores the next checkpoint of the
\* epoch; all its transactions were executed here.
Build(n) ==
    /\ EpochOf[n] = epoch
    /\ n \notin built
    /\ n > 1 /\ EpochOf[n - 1] = epoch => n - 1 \in built
    /\ built' = built \cup {n}
    /\ contents' = contents \cup {n}
    /\ UNCHANGED <<network, epoch, certified, verified, synced, executed,
                   aggregator, tasks, event, executor, faults>>

FaultyAggregate ==
    /\ aggregator.current = None
    /\ NextToCertify \in 1 .. MaxSeq
    /\ aggregator' = [aggregator EXCEPT !.current = NextToCertify]
    /\ UNCHANGED <<network, disk, tasks, event, executor, faults>>

\* run_inner: the next checkpoint to certify was built in this epoch, and its
\* signatures are aggregated from now on.
Aggregate ==
    /\ aggregator.current = None
    /\ NextToCertify \in built
    /\ EpochOf[NextToCertify] = epoch
    /\ aggregator' = [aggregator EXCEPT !.current = NextToCertify]
    /\ UNCHANGED <<network, disk, tasks, event, executor, faults>>

\* run_inner: the current checkpoint came through state sync.
ResetCurrent ==
    /\ aggregator.current # None
    /\ aggregator.current < NextToCertify
    /\ aggregator' = [aggregator EXCEPT !.current = None]
    /\ UNCHANGED <<network, disk, tasks, event, executor, faults>>

\* run_inner: there is a quorum for the current checkpoint.  State sync may have stored
\* the checkpoint since run_inner read next_checkpoint_to_certify.
Certify ==
    /\ aggregator.current # None
    /\ certified' = certified \cup {aggregator.current}
    /\ aggregator' = [current |-> None, sending |-> Append(aggregator.sending, aggregator.current)]
    /\ UNCHANGED <<network, epoch, built, contents, verified, synced, executed,
                   tasks, event, executor, faults>>

\* run_and_notify: the certified checkpoint goes to state sync.
SendCheckpoint ==
    /\ aggregator.sending # <<>>
    /\ mailbox' = Append(mailbox, Head(aggregator.sending))
    /\ aggregator' = [aggregator EXCEPT !.sending = Tail(@)]
    /\ UNCHANGED <<network, disk, loop, summaries, target, downloads, guard, event, executor, faults>>

-----------------------------------------------------------------------------
(* The event loop of state sync *)

At(stage) == [stage |-> stage, checkpoint |-> None]

FaultyUpdateSynced(n) == synced' = n /\ guard' = n

\* RocksDbStore::update_highest_synced_checkpoint.
UpdateSynced(n) ==
    IF guard >= n
    THEN UNCHANGED <<synced, guard>>
    ELSE synced' = n /\ guard' = n

\* handle_checkpoint_from_consensus: an old checkpoint is ignored.
ReceiveCheckpoint ==
    /\ loop.stage = "select"
    /\ mailbox # <<>>
    /\ mailbox' = Tail(mailbox)
    /\ loop' = IF verified >= Head(mailbox)
               THEN At("start")
               ELSE [stage |-> "compare", checkpoint |-> Head(mailbox)]
    /\ UNCHANGED <<network, disk, aggregator, summaries, target, downloads, guard,
                   event, executor, faults>>

\* CheckpointStore::update_highest_verified_checkpoint reads the watermark ...
CompareVerified ==
    /\ loop.stage = "compare"
    /\ loop' = [loop EXCEPT !.stage = IF loop.checkpoint > verified THEN "write" ELSE "sync"]
    /\ UNCHANGED <<network, disk, aggregator, mailbox, summaries, target, downloads, guard,
                   event, executor, faults>>

\* ... and then writes it.
WriteVerified ==
    /\ loop.stage = "write"
    /\ verified' = loop.checkpoint
    /\ loop' = [loop EXCEPT !.stage = "sync"]
    /\ UNCHANGED <<network, epoch, built, certified, contents, synced, executed,
                   aggregator, mailbox, summaries, target, downloads, guard, event, executor, faults>>

\* handle_checkpoint_from_consensus: the checkpoint is synced.
SyncFromConsensus ==
    /\ loop.stage = "sync"
    /\ UpdateSynced(loop.checkpoint)
    /\ loop' = [loop EXCEPT !.stage = "notify"]
    /\ UNCHANGED <<network, epoch, built, certified, contents, verified, executed,
                   aggregator, mailbox, summaries, target, downloads, event, executor, faults>>

\* handle_checkpoint_from_consensus: checkpoint_event_sender.
NotifyFromConsensus ==
    /\ loop.stage = "notify"
    /\ event' = TRUE
    /\ loop' = At("start")
    /\ UNCHANGED <<network, disk, aggregator, mailbox, summaries, target, downloads, guard,
                   executor, faults>>

MayStart == summaries.stage = "none" /\ verified < network

MayTrigger == verified > synced /\ network > synced /\ target.num # verified

\* The other messages and ticks of the event loop have no effect of their own here.
Tick ==
    /\ loop.stage = "select"
    /\ MayStart \/ MayTrigger
    /\ loop' = At("start")
    /\ UNCHANGED <<network, disk, aggregator, mailbox, summaries, target, downloads, guard,
                   event, executor, faults>>

\* The event loop learns that sync_checkpoint_summaries_task is finished.
JoinTask ==
    /\ loop.stage = "select"
    /\ summaries.stage = "finished"
    /\ summaries' = [stage |-> "none", current |-> None, target |-> None]
    /\ loop' = At("start")
    /\ UNCHANGED <<network, disk, aggregator, mailbox, target, downloads, guard,
                   event, executor, faults>>

\* maybe_start_checkpoint_summary_sync_task, at the end of every iteration.
MaybeStartSummaries ==
    /\ loop.stage = "start"
    /\ summaries' = IF MayStart
                    THEN [stage |-> "begin", current |-> None, target |-> network]
                    ELSE summaries
    /\ loop' = At("trigger")
    /\ UNCHANGED <<network, disk, aggregator, mailbox, target, downloads, guard,
                   event, executor, faults>>

\* maybe_trigger_checkpoint_contents_sync_task, at the end of every iteration.
MaybeTriggerContents ==
    /\ loop.stage = "trigger"
    /\ target' = IF MayTrigger THEN [num |-> verified, changed |-> TRUE] ELSE target
    /\ loop' = At("select")
    /\ UNCHANGED <<network, disk, aggregator, mailbox, summaries, downloads, guard,
                   event, executor, faults>>

-----------------------------------------------------------------------------
(* sync_to_checkpoint *)

Finished == [summaries EXCEPT !.stage = "finished"]

\* Reads the watermark: the target may have been reached meanwhile.
BeginSummaries ==
    /\ summaries.stage = "begin"
    /\ summaries' = IF verified >= summaries.target
                    THEN Finished
                    ELSE [summaries EXCEPT !.stage = "fetch", !.current = verified]
    /\ UNCHANGED <<network, disk, aggregator, mailbox, loop, target, downloads, guard,
                   event, executor, faults>>

\* The next summary comes from a peer: insert_verified_checkpoint first stores it.
InsertSummary ==
    /\ summaries.stage = "fetch"
    /\ summaries' = [summaries EXCEPT !.stage = "compare", !.current = @ + 1]
    /\ certified' = certified \cup {summaries.current + 1}
    /\ UNCHANGED <<network, epoch, built, contents, verified, synced, executed,
                   aggregator, mailbox, loop, target, downloads, guard, event, executor, faults>>

\* No peer was able to help.
FailSummary ==
    /\ summaries.stage = "fetch"
    /\ faults < MaxFaults
    /\ faults' = faults + 1
    /\ summaries' = Finished
    /\ UNCHANGED <<network, disk, aggregator, mailbox, loop, target, downloads, guard, event, executor>>

Continued(s) ==
    [s EXCEPT !.stage = IF s.current = s.target THEN "finished" ELSE "fetch"]

\* update_highest_verified_checkpoint, without the lock of RocksDbStore: reads ...
CompareSummary ==
    /\ summaries.stage = "compare"
    /\ summaries' = IF summaries.current > verified
                    THEN [summaries EXCEPT !.stage = "write"]
                    ELSE Continued(summaries)
    /\ UNCHANGED <<network, disk, aggregator, mailbox, loop, target, downloads, guard,
                   event, executor, faults>>

\* ... and then writes the watermark.
WriteSummary ==
    /\ summaries.stage = "write"
    /\ verified' = summaries.current
    /\ summaries' = Continued(summaries)
    /\ UNCHANGED <<network, epoch, built, certified, contents, synced, executed,
                   aggregator, mailbox, loop, target, downloads, guard, event, executor, faults>>

-----------------------------------------------------------------------------
(* sync_checkpoint_contents *)

\* The start of new downloads, at the end of every iteration.
StartDownloads(d) ==
    LET room == MaxDownloads - Len(d.tasks)
        left == IF d.current < d.cursor THEN d.cursor - d.current ELSE 0
        k == IF left < room THEN left ELSE room
    IN  [d EXCEPT !.current = @ + k,
                  !.tasks = @ \o [i \in 1 .. k |-> d.current + i - 1]]

\* The target has changed.
ReceiveTarget ==
    /\ downloads.notify = None
    /\ target.changed
    /\ target' = [target EXCEPT !.changed = FALSE]
    /\ downloads' = StartDownloads([downloads EXCEPT !.cursor = target.num + 1])
    /\ UNCHANGED <<network, disk, aggregator, mailbox, loop, summaries, guard, event, executor, faults>>

\* get_full_checkpoint_contents: what is not there comes from a peer.  A download that
\* fails is retried.
Download(n) ==
    /\ n \in {downloads.tasks[i] : i \in DOMAIN downloads.tasks} \ contents
    /\ network >= n
    /\ contents' = contents \cup {n}
    /\ UNCHANGED <<network, epoch, built, certified, verified, synced, executed,
                   aggregator, tasks, event, executor, faults>>

\* The result of the first task (FuturesOrdered): its checkpoint is synced.
SyncContents ==
    /\ downloads.notify = None
    /\ downloads.tasks # <<>>
    /\ Head(downloads.tasks) \in contents
    /\ UpdateSynced(Head(downloads.tasks))
    /\ downloads' = [downloads EXCEPT !.notify = Head(downloads.tasks)]
    /\ UNCHANGED <<network, epoch, built, certified, contents, verified, executed,
                   aggregator, mailbox, loop, summaries, target, event, executor, faults>>

FaultyNotifyContents ==
    /\ downloads.notify # None
    /\ downloads' = StartDownloads([downloads EXCEPT !.notify = None, !.tasks = Tail(@)])
    /\ UNCHANGED <<network, disk, aggregator, mailbox, loop, summaries, target, guard, event, executor, faults>>

\* checkpoint_event_sender, and the rest of the iteration.
NotifyContents ==
    /\ downloads.notify # None
    /\ event' = TRUE
    /\ downloads' = StartDownloads([downloads EXCEPT !.notify = None, !.tasks = Tail(@)])
    /\ UNCHANGED <<network, disk, aggregator, mailbox, loop, summaries, target, guard, executor, faults>>

-----------------------------------------------------------------------------
\* Peers certify or synchronize one more checkpoint, and tell.
PeersAdvance ==
    /\ network < MaxSeq
    /\ network' = network + 1
    /\ UNCHANGED <<disk, aggregator, tasks, event, executor, faults>>

\* The process stops and starts again, with what is on disk.
Crash ==
    /\ faults < MaxFaults
    /\ faults' = faults + 1
    /\ aggregator' = [current |-> None, sending |-> <<>>]
    /\ mailbox' = <<>>
    /\ loop' = At("select")
    /\ summaries' = [stage |-> "none", current |-> None, target |-> None]
    /\ target' = [num |-> 0, changed |-> FALSE]
    /\ downloads' = [current |-> synced + 1, cursor |-> 0, tasks |-> <<>>, notify |-> None]
    /\ guard' = None
    /\ event' = FALSE
    /\ executor' = RunEpoch(epoch)
    /\ UNCHANGED <<network, disk>>

Init ==
    /\ network = 0
    /\ epoch = 0
    /\ built = {} /\ certified = {0} /\ contents = {0}
    /\ verified = 0 /\ synced = 0 /\ executed = 0
    /\ aggregator = [current |-> None, sending |-> <<>>]
    /\ mailbox = <<>>
    /\ loop = At("select")
    /\ summaries = [stage |-> "none", current |-> None, target |-> None]
    /\ target = [num |-> 0, changed |-> FALSE]
    /\ downloads = [current |-> 1, cursor |-> 0, tasks |-> <<>>, notify |-> None]
    /\ guard = None
    /\ event = FALSE
    /\ executor = RunEpoch(0)
    /\ faults = 0

EventLoop ==
    \/ ReceiveCheckpoint \/ CompareVerified \/ WriteVerified
    \/ SyncFromConsensus \/ NotifyFromConsensus
    \/ Tick \/ JoinTask \/ MaybeStartSummaries \/ MaybeTriggerContents

Summaries == BeginSummaries \/ InsertSummary \/ CompareSummary \/ WriteSummary

Contents == ReceiveTarget \/ SyncContents \/ NotifyContents

Executor == ReceiveEvent \/ CheckpointExecuted \/ Reconfigure

Next ==
    \/ PeersAdvance
    \/ Crash
    \/ \E n \in 1 .. MaxSeq : Build(n)
    \/ Aggregate \/ ResetCurrent \/ Certify \/ SendCheckpoint
    \/ EventLoop
    \/ Summaries
    \/ FailSummary
    \/ Contents
    \/ \E n \in 1 .. MaxSeq : Download(n)
    \/ Executor

Spec == Init /\ [][Next]_vars

\* The tasks of state sync and of the executor run; peers answer in the end.  Nothing is
\* assumed of consensus, of the builder and of the aggregator.
FairSpec ==
    /\ Spec
    /\ WF_vars(EventLoop)
    /\ WF_vars(Summaries)
    /\ WF_vars(Contents)
    /\ WF_vars(\E n \in 1 .. MaxSeq : Download(n))
    /\ WF_vars(Executor)

-----------------------------------------------------------------------------
(* Properties *)

\* What is at or below the synced watermark can be executed: the certified summary and
\* the contents are in the tables, whichever of consensus and peers they came from, and
\* what sync_checkpoint_contents is told to download is certified ("BUG: store should
\* have all checkpoints older than highest_verified_checkpoint").  The watermark jumps
\* over checkpoints in handle_checkpoint_from_consensus, so this rests on the aggregator:
\* "when we have checkpoint n, we must have all of the checkpoints before n".
SyncedIsComplete ==
    /\ 0 .. synced \subseteq certified \cap contents
    /\ \A i \in DOMAIN mailbox : 0 .. mailbox[i] \subseteq certified \cap contents
    /\ 0 .. verified \cup 0 .. target.num \subseteq certified

\* The executor runs the checkpoints of its own epoch, one after the other and without a
\* gap, and leaves none behind at the end of the epoch, also when it restarts between
\* the last checkpoint and the reconfiguration: the assertions of schedule_checkpoint,
\* process_executed_checkpoint and run_epoch.
ExecutorInStep ==
    /\ \A i \in DOMAIN executor.pending :
          /\ executor.pending[i] = executed + i
          /\ EpochOf[executor.pending[i]] = epoch
    /\ executor.ended => executor.pending = <<>>
    /\ epoch = IF LastOfEpoch(executed) /\ ~executor.ended
               THEN EpochOf[executed] + 1
               ELSE EpochOf[executed]

\* The synced and the executed watermark never go back, although consensus and the
\* contents task write the first one concurrently, the lock that orders them is empty
\* after a restart, and the verified watermark, which filters the messages of the
\* aggregator, may go back.
WatermarksAdvance == [][synced' >= synced /\ executed' >= executed]_vars

\* The node executes every checkpoint that its peers have: no wake-up of the executor,
\* of the contents task or of the summary task is lost, in a crash or in a race.
CatchesUp == []<>(executed >= network)
=============================================================================
