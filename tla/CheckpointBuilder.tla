------------------------- MODULE CheckpointBuilder -------------------------
(***************************************************************************)
(* How validators turn the commits of consensus into the checkpoints of an *)
(* epoch: the pending checkpoint that ConsensusHandler writes for a commit *)
(* (sui-core/src/consensus_handler.rs), and CheckpointBuilder              *)
(* (sui-core/src/checkpoints/mod.rs), which waits for the roots, completes *)
(* them with their dependencies, sorts, splits, signs and stores.          *)
(*                                                                         *)
(* Validator stands for honest validators.  They process the same commits, *)
(* at their own pace: those of log, the last of which closes the epoch,    *)
(* and those of later, which consensus still outputs while it is shut      *)
(* down.  Owned object transactions are also executed before, or without,  *)
(* consensus.  A transaction is its digest.                                *)
(*                                                                         *)
(* Definitions named Faulty... are variants of the definition that follows *)
(* them, each with one plausible mistake; no specification uses them.      *)
(***************************************************************************)
EXTENDS Integers, Sequences

CONSTANTS
    Validator,
    Tx,          \* digests of the transactions of this epoch
    Prologue,    \* [1 .. n -> Tx], the consensus commit prologue of each commit
    Old,         \* digests of transactions executed in earlier epochs
    Deps,        \* [Tx -> SUBSET (Tx \cup Old)], the dependencies in their effects
    Readers,     \* [Tx -> SUBSET Tx], the readers of the shared versions it replaces
    Shared,      \* the transactions with shared objects
    Chunks,      \* how a set of transactions is sorted and split (CausalSort.tla)
    Logs,        \* what consensus may output up to the commit that closes the epoch
    Later,       \* what it may output after it: sequences of sets of certificates
    MaxCrashes,  \* [Validator -> Nat], bound on the crashes
    ADVANCE      \* the change epoch transaction

ASSUME TxAssumption ==
    /\ Tx \cap Old = {} /\ ADVANCE \notin Tx \cup Old
    /\ Deps \in [Tx -> SUBSET (Tx \cup Old)] /\ Readers \in [Tx -> SUBSET Tx]
    /\ \A t \in Tx : Readers[t] # {} => t \in Shared
    /\ Prologue \in Seq(Shared \cap Tx)
    /\ \A h, k \in DOMAIN Prologue : Prologue[h] = Prologue[k] => h = k

\* Place i of sequence n comes before place j of sequence m.
Before(n, i, m, j) == n < m \/ (n = m /\ i < j)

\* What the sequences of cs hold.
Members(cs) == UNION {{cs[n][i] : i \in DOMAIN cs[n]} : n \in DOMAIN cs}

\* The sequences of cs hold everything once.
Once(cs) ==
    \A n, m \in DOMAIN cs : \A i \in DOMAIN cs[n], j \in DOMAIN cs[m] :
        cs[n][i] = cs[m][j] => n = m /\ i = j

\* Each transaction of cs comes after those it needs.
Causal(cs, Need) ==
    \A n \in DOMAIN cs : \A i \in DOMAIN cs[n] : cs[n][i] \in Tx =>
        \A d \in Need[cs[n][i]] :
            \E m \in DOMAIN cs : \E j \in DOMAIN cs[m] : cs[m][j] = d /\ Before(m, j, n, i)

\* causal_sort and split_checkpoint_chunks: the chunks, one at least, hold the
\* transactions once each, after their dependencies and the readers of what they
\* replace (SortCausal and SortPartition of CausalOrderProofs).
ASSUME ChunksAssumption ==
    \A S \in SUBSET Tx :
        /\ Chunks[S] \in Seq(Seq(Tx)) /\ Chunks[S] # <<>>
        /\ Members(Chunks[S]) = S /\ Once(Chunks[S])
        /\ Causal(Chunks[S], [t \in Tx |-> (Deps[t] \cup Readers[t]) \cap S])

\* The least set with the transactions of roots and their dependencies, and the
\* dependencies of these, where those in stop are left out and not followed.
Closure(roots, stop) ==
    {t \in Tx : \A S \in SUBSET Tx :
        roots \ stop \subseteq S /\ (\A u \in S : Deps[u] \ stop \subseteq S) => t \in S}

\* What clients send to consensus; validators make the prologues themselves.
Certificate == Tx \ {Prologue[h] : h \in DOMAIN Prologue}

FaultyRoots(l, h) == l[h]

\* The roots of commit h: its prologue, which handle_consensus_output puts first, and
\* its certificates, whatever becomes of them.
Roots(l, h) == l[h] \cup {Prologue[h]}

\* The transactions of the first h commits.
Ordered(l, h) == UNION {Roots(l, k) : k \in 1 .. h}

\* What consensus may order: a certificate whose history has shared objects was made
\* after that history was executed, hence ordered, and is not ordered before it; a
\* version is read before it is replaced; and the epoch is closed when whatever was
\* ordered has its dependencies ordered.
IsLog(l) ==
    /\ l \in Seq(SUBSET Certificate) /\ Len(l) <= Len(Prologue)
    /\ \A h \in 1 .. Len(l) :
         /\ Closure(UNION {Deps[t] : t \in Roots(l, h)}, Old) \cap Shared \subseteq Ordered(l, h)
         /\ \A t \in Roots(l, h) : /\ Readers[t] \subseteq Ordered(l, h)
                                   /\ Deps[t] \ Old \subseteq Ordered(l, Len(l))

ASSUME LogsAssumption ==
    /\ Later \subseteq Seq(SUBSET Certificate)
    /\ \A l \in Logs : IsLog(l) /\ \A m \in Later : Len(l) + Len(m) <= Len(Prologue)

VARIABLES
    log,       \* the commits up to the one with the final EndOfPublish
    later,     \* the commits after it
    handled,   \* number of commits processed; their pending checkpoints are stored
    executed,  \* transactions with executed effects
    stage, height, effects, checkpoints, sent,  \* memory of the builder task
    local,     \* locally_computed_checkpoints of the epoch, by sequence number
    built,     \* builder_checkpoint_summary_v2 with builder_digest_to_checkpoint
    signed,    \* signatures submitted to consensus, <<sequence number, checkpoint>>
    crashes

builder == <<stage, height, effects, checkpoints, sent>>
commits == <<log, later>>
vars == <<commits, handled, executed, builder, local, built, signed, crashes>>

Init ==
    /\ log \in Logs
    /\ later \in Later
    /\ handled = [v \in Validator |-> 0]
    /\ executed = [v \in Validator |-> Old]
    /\ stage = [v \in Validator |-> "idle"]
    /\ height = [v \in Validator |-> 0]
    /\ effects = [v \in Validator |-> {}]
    /\ checkpoints = [v \in Validator |-> <<>>]
    /\ sent = [v \in Validator |-> 0]
    /\ local = [v \in Validator |-> <<>>]
    /\ built = [v \in Validator |-> <<>>]
    /\ signed = [v \in Validator |-> {}]
    /\ crashes = [v \in Validator |-> 0]

\* consensus_message_processed: recorded for whatever a commit holds.
Processed(v) == Ordered(log \o later, handled[v])

FaultyScheduled(v) == Ordered(log, IF handled[v] < Len(log) THEN handled[v] ELSE Len(log) - 1)

\* The transactions that are scheduled for execution, with shared object versions and
\* user signatures stored.  After the close process_consensus_transaction ignores them,
\* the prologue included.
Scheduled(v) == Ordered(log, IF handled[v] < Len(log) THEN handled[v] ELSE Len(log))

\* handle_consensus_output: the messages of the commit and the pending checkpoint are
\* stored in one batch, after the close as well.
HandleCommit(v) ==
    /\ handled[v] < Len(log) + Len(later)
    /\ handled' = [handled EXCEPT ![v] = @ + 1]
    /\ UNCHANGED <<commits, executed, builder, local, built, signed, crashes>>

\* A transaction executes after its dependencies, with shared objects not before
\* consensus schedules it (TransactionManager.tla).
Execute(v, t) ==
    /\ t \notin executed[v]
    /\ Deps[t] \subseteq executed[v]
    /\ t \in Shared => t \in Scheduled(v)
    /\ executed' = [executed EXCEPT ![v] = @ \cup {t}]
    /\ UNCHANGED <<commits, handled, builder, local, built, signed, crashes>>

\* Transactions of the checkpoints that other validators signed.
Published(v) ==
    UNION {{s[2].contents[i] : i \in DOMAIN s[2].contents} :
              s \in UNION {signed[w] : w \in Validator \ {v}}}

\* CheckpointExecutor executes a transaction of a certified checkpoint, here of one that
\* some other honest validator signed, and the change epoch transaction after the rest.
ExecuteSynced(v, t) ==
    /\ t \notin executed[v]
    /\ IF t = ADVANCE THEN Published(v) \subseteq executed[v] \cup {t}
                      ELSE Deps[t] \subseteq executed[v]
    /\ executed' = [executed EXCEPT ![v] = @ \cup {t}]
    /\ UNCHANGED <<commits, handled, builder, local, built, signed, crashes>>

Contents(b) == [n \in DOMAIN b |-> b[n].contents]

\* builder_included_transactions_in_checkpoint, for the checkpoints b.
Included(b) == Members(Contents(b))

FaultyComplete(b, roots) == roots \ (Included(b) \cup Old)

FaultyCompleteAgain(b, roots) == Closure(roots, Old)

\* complete_checkpoint_effects: the roots that are in no checkpoint, and what a loop
\* adds until their dependencies are there as well.  effects_signatures_exists is
\* false for those of earlier epochs.
Complete(b, roots) == Closure(roots, Included(b) \cup Old)

\* last_built_checkpoint_commit_height, and the pending checkpoint after it.
NextHeight(b) == IF b = <<>> THEN 1 ELSE b[Len(b)].height + 1

FaultyCollect(v) ==
    LET h == NextHeight(built[v])
        roots == Roots(log \o later, h)
    IN  /\ stage[v] = "idle"
        /\ h <= handled[v]
        /\ stage' = [stage EXCEPT ![v] = "sorted"]
        /\ height' = [height EXCEPT ![v] = h]
        /\ effects' = [effects EXCEPT ![v] = Complete(built[v], roots \cap executed[v])]
        /\ UNCHANGED <<commits, handled, executed, checkpoints, sent, local, built, signed, crashes>>

\* make_checkpoint: when the roots are executed, the effects of the checkpoint are
\* collected (and sorted, see Chunks).
Collect(v) ==
    LET h == NextHeight(built[v])
        roots == Roots(log \o later, h)
    IN  /\ stage[v] = "idle"
        /\ h <= handled[v]
        /\ roots \subseteq executed[v]
        /\ stage' = [stage EXCEPT ![v] = "sorted"]
        /\ height' = [height EXCEPT ![v] = h]
        /\ effects' = [effects EXCEPT ![v] = Complete(built[v], roots)]
        /\ UNCHANGED <<commits, handled, executed, checkpoints, sent, local, built, signed, crashes>>

\* The checkpoints made of the transactions S of commit h, one of each chunk.
\* augment_epoch_last_checkpoint adds the change epoch transaction to the last of the
\* epoch.
Checkpoints(S, h, last_of_epoch) ==
    LET chunks == Chunks[S]
        last(i) == last_of_epoch /\ i = Len(chunks)
    IN  [i \in 1 .. Len(chunks) |->
           [contents |-> IF last(i) THEN Append(chunks[i], ADVANCE) ELSE chunks[i],
            last |-> last(i), height |-> h]]

\* final_checkpoint_round is set for the commit that closes the epoch only: the pending
\* checkpoints of the commits after it are like those of the commits before.
LastOfEpoch(h) == h = Len(log)

FaultyCreate(v) ==
    /\ stage[v] = "sorted"
    /\ LastOfEpoch(height[v]) => ADVANCE \notin executed[v]
    /\ stage' = [stage EXCEPT ![v] = "created"]
    /\ checkpoints' = [checkpoints EXCEPT
          ![v] = Checkpoints(effects[v], height[v], LastOfEpoch(height[v]))]
    /\ sent' = [sent EXCEPT ![v] = 0]
    /\ UNCHANGED <<commits, handled, executed, height, effects, local, built, signed, crashes>>

\* create_checkpoints: waits until consensus processed the certificates.
\* augment_epoch_last_checkpoint fails if state sync executed the change of epoch.
Create(v) ==
    /\ stage[v] = "sorted"
    /\ effects[v] \cap Certificate \subseteq Processed(v)
    /\ LastOfEpoch(height[v]) => ADVANCE \notin executed[v]
    /\ stage' = [stage EXCEPT ![v] = "created"]
    /\ checkpoints' = [checkpoints EXCEPT
          ![v] = Checkpoints(effects[v], height[v], LastOfEpoch(height[v]))]
    /\ sent' = [sent EXCEPT ![v] = 0]
    /\ UNCHANGED <<commits, handled, executed, height, effects, local, built, signed, crashes>>

\* checkpoint_created: the signature of the next checkpoint is submitted to consensus.
Sign(v) ==
    /\ stage[v] = "created"
    /\ sent[v] < Len(checkpoints[v])
    /\ sent' = [sent EXCEPT ![v] = @ + 1]
    /\ signed' = [signed EXCEPT ![v] = @ \cup
          {<<Len(built[v]) + sent[v] + 1, checkpoints[v][sent[v] + 1]>>}]
    /\ UNCHANGED <<commits, handled, executed, stage, height, effects, checkpoints, local, built,
                   crashes>>

\* write_checkpoints: the contents and summaries, in one batch.
Write(v) ==
    LET n == Len(built[v])
        new == n + 1 .. n + Len(checkpoints[v])
    IN  /\ stage[v] = "created"
        /\ sent[v] = Len(checkpoints[v])
        /\ stage' = [stage EXCEPT ![v] = "written"]
        /\ local' = [local EXCEPT ![v] = [m \in DOMAIN local[v] \cup new |->
                        IF m \in new THEN checkpoints[v][m - n] ELSE local[v][m]]]
        /\ UNCHANGED <<commits, handled, executed, height, effects, checkpoints, sent, built, signed,
                       crashes>>

\* The builder task waits for its next pending checkpoint.
Idle(v) ==
    /\ stage' = [stage EXCEPT ![v] = "idle"]
    /\ height' = [height EXCEPT ![v] = 0]
    /\ effects' = [effects EXCEPT ![v] = {}]
    /\ checkpoints' = [checkpoints EXCEPT ![v] = <<>>]
    /\ sent' = [sent EXCEPT ![v] = 0]

\* process_pending_checkpoint: "All created checkpoints are inserted [...] in a single
\* batch", so that the builder resumes after their commit height.
ProcessPendingCheckpoint(v) ==
    /\ stage[v] = "written"
    /\ built' = [built EXCEPT ![v] = @ \o checkpoints[v]]
    /\ Idle(v)
    /\ UNCHANGED <<commits, handled, executed, local, signed, crashes>>

\* The process stops and restarts: the builder task begins again from the tables.
Crash(v) ==
    /\ crashes[v] < MaxCrashes[v]
    /\ crashes' = [crashes EXCEPT ![v] = @ + 1]
    /\ Idle(v)
    /\ UNCHANGED <<commits, handled, executed, local, built, signed>>

Step(v) ==
    \/ HandleCommit(v)
    \/ \E t \in Tx : Execute(v, t)
    \/ \E t \in Published(v) : ExecuteSynced(v, t)
    \/ Sign(v)
    \/ Write(v)
    \/ ProcessPendingCheckpoint(v)
    \/ Create(v)
    \/ Collect(v)

Next == \E v \in Validator : Step(v) \/ Crash(v)

Spec == Init /\ [][Next]_vars

\* Every validator keeps running.
FairSpec == Spec /\ \A v \in Validator : WF_vars(Step(v))

-----------------------------------------------------------------------------
(* Properties *)

\* Validators do not fork: whenever two of them, or one before and after a restart, sign
\* a checkpoint with the same sequence number, it is the same checkpoint; and it is the
\* one every other validator computes, so check_for_checkpoint_fork does not panic.
NoFork ==
    \A v, w \in Validator : \A s \in signed[v] :
        /\ \A r \in signed[w] : s[1] = r[1] => s[2] = r[2]
        /\ s[1] \in DOMAIN local[w] => s[2] = local[w][s[1]]

\* A transaction is in one checkpoint of the epoch, once, and never one of an earlier
\* epoch (complete_checkpoint_effects: "which are not part of checkpoint already").
ExactlyOnce ==
    \A v \in Validator : Included(built[v]) \cap Old = {} /\ Once(Contents(built[v]))

\* The checkpoints as a whole are a history: a transaction comes after its dependencies
\* of this epoch and after the readers of what it replaces, in whichever commits
\* consensus ordered them.
HistoryIsCausal ==
    \A v \in Validator :
        Causal(Contents(built[v]), [t \in Tx |-> (Deps[t] \ Old) \cup Readers[t]])

\* After the last checkpoint of the epoch no validator builds another one, although the
\* commits that follow the close leave pending checkpoints (only the prologue among
\* their roots, which is never executed, holds the builder); the change epoch
\* transaction ends it, and the checkpoints hold all that consensus ordered up to the
\* close and nothing else.
LastIsComplete ==
    \A v \in Validator : \A n \in DOMAIN built[v] :
        built[v][n].last =>
            /\ n = Len(built[v])
            /\ built[v][n].contents[Len(built[v][n].contents)] = ADVANCE
            /\ Included(built[v]) = Ordered(log, Len(log)) \cup {ADVANCE}

\* A validator signs a checkpoint only when consensus has scheduled all of its
\* transactions here, so that user_signatures_for_checkpoint finds their signatures;
\* that consensus processed them (consensus_messages_processed_notify) is less: it also
\* holds for what is ignored after the close.
SignedIsScheduled ==
    \A v \in Validator : \A s \in signed[v] :
        {s[2].contents[i] : i \in DOMAIN s[2].contents} \subseteq Scheduled(v) \cup {ADVANCE}

\* Every validator gets through the epoch: it builds the last checkpoint, or executes
\* the change epoch transaction from a checkpoint of the others.
EpochCompletes ==
    <>(\A v \in Validator : ADVANCE \in Included(built[v]) \cup executed[v])

=============================================================================
