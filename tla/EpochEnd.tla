------------------------------ MODULE EpochEnd ------------------------------
(***************************************************************************)
(* How the validators of one epoch agree on where it ends.                 *)
(*                                                                         *)
(* A validator that accepts a certificate puts it in its table of pending  *)
(* consensus transactions before it executes it, and a task of the         *)
(* ConsensusAdapter submits it and waits until consensus has output it     *)
(* (consensus_adapter.rs).  When the epoch is over the validator stops     *)
(* accepting certificates, and sends EndOfPublish once its table is empty. *)
(* The consensus handler closes the epoch at the commit in which a quorum  *)
(* of EndOfPublish messages is complete (consensus_handler.rs,             *)
(* authority_per_epoch_store.rs).  At reconfiguration a validator reverts  *)
(* what it has executed and consensus has not output (authority.rs).       *)
(*                                                                         *)
(* Validators run the code below and may crash and recover; they do not    *)
(* lie.  A commit is the set of its messages: a second copy in the same    *)
(* commit is dropped by processed_set.  System transactions, capability,   *)
(* JWK and checkpoint-signature messages leave this state alone.           *)
(*                                                                         *)
(* Definitions named Faulty... are variants of the definition that follows *)
(* them, each with one plausible mistake; no specification uses them.      *)
(***************************************************************************)
EXTENDS Integers, Sequences, FiniteSets

CONSTANTS
    Validator,
    Cert,        \* certificates of the epoch, by transaction digest
    Shared,      \* certificates with a shared input: executed only in consensus order
    Calls,       \* bound: how often clients send a certificate to a validator
    Quorum,      \* sets of validators with 2f+1 of the stake
    MaxCommit,   \* bound: messages in a commit
    MaxLog,      \* bound: commits in the epoch
    MaxFaults    \* bound: crashes, and messages Narwhal outputs a second time

ASSUME EpochAssumption ==
    /\ Shared \subseteq Cert
    /\ Calls \in [Validator -> [Cert -> Nat]]
    /\ Cert \cap Validator = {}
    /\ Quorum \subseteq SUBSET Validator
    /\ \A P, Q \in Quorum : P \cap Q # {}
    /\ MaxCommit \in Nat /\ MaxLog \in Nat /\ MaxFaults \in Nat

VARIABLES
    \* in the database of a validator
    status,        \* reconfig_state
    pending,       \* pending_consensus_transactions
    processed,     \* consensus_message_processed
    endOfPublish,  \* authorities whose EndOfPublish was counted
    scheduled,     \* certificates output for execution: roots and pending_execution
    index,         \* last_consensus_stats: commits handled
    executed,      \* certificates with executed effects
    ended,         \* the validator has reconfigured into the next epoch
    \* in its memory
    accepting,     \* handle_certificate calls that hold the reconfiguration lock
    requested,     \* owned-object certificates handed to execution by an RPC call
    tasks,         \* submit_and_wait_inner tasks: message and progress
    closing,       \* close_epoch has decided to send EndOfPublish
    \* outside
    narwhal,       \* messages in the workers and the DAG, with their author
    log,           \* commits of consensus
    calls,         \* calls of handle_certificate still to come
    signed,        \* history: certificates whose effects a validator has signed
    faults

vars == <<status, pending, processed, endOfPublish, scheduled, index, executed,
          ended, accepting, requested, tasks, closing, narwhal, log, signed,
          calls, faults>>

dbVars == <<processed, endOfPublish, scheduled, index>>
netVars == <<narwhal, log, calls, faults>>

\* ConsensusTransactionKey.  EndOfPublish(v) is represented by v.
EndOfPublish(v) == v

Message(v) == Cert \cup {EndOfPublish(v)}

Entry == {e \in Validator \X (Cert \cup Validator) : e[2] \in Message(e[1])}

Progress == {"start", "waiting", "woken", "removed"}

Status == {"AcceptAllCerts", "RejectUserCerts", "RejectAllCerts"}

should_accept_user_certs(v) == status[v] = "AcceptAllCerts"

is_reject_user_certs(v) == status[v] = "RejectUserCerts"

should_accept_consensus_certs(v) == status[v] # "RejectAllCerts"

Empty == [v \in Validator |-> {}]

Init ==
    /\ status = [v \in Validator |-> "AcceptAllCerts"]
    /\ index = [v \in Validator |-> 0]
    /\ ended = [v \in Validator |-> FALSE]
    /\ closing = [v \in Validator |-> FALSE]
    /\ pending = Empty /\ processed = Empty /\ endOfPublish = Empty
    /\ scheduled = Empty /\ executed = Empty /\ signed = Empty
    /\ accepting = Empty /\ requested = Empty /\ tasks = Empty
    /\ narwhal = {}
    /\ log = <<>>
    /\ calls = Calls
    /\ faults = 0

-----------------------------------------------------------------------------
(* Certificates from clients *)

FaultySubmit(v, m) ==
    /\ tasks' = [tasks EXCEPT ![v] = @ \cup {<<m, "start">>}]
    /\ UNCHANGED pending

\* ConsensusAdapter::submit: the message is persisted, and a task started for it.
submit(v, m) ==
    /\ pending' = [pending EXCEPT ![v] = @ \cup {m}]
    /\ tasks' = [tasks EXCEPT ![v] = @ \cup {<<m, "start">>}]

\* ValidatorService::handle_certificate up to the check whether consensus has
\* already output the certificate; the reconfiguration lock is held for reading.
HandleCertificate(v, c) ==
    /\ ~ended[v]
    /\ calls[v][c] > 0
    /\ calls' = [calls EXCEPT ![v][c] = @ - 1]
    /\ c \notin executed[v]
    /\ should_accept_user_certs(v)
    /\ IF c \in processed[v]
       THEN /\ requested' = [requested EXCEPT ![v] = @ \cup ({c} \ Shared)]
            /\ UNCHANGED accepting
       ELSE /\ accepting' = [accepting EXCEPT ![v] = @ \cup {c}]
            /\ UNCHANGED requested
    /\ UNCHANGED <<status, pending, executed, ended, tasks, closing, signed>>
    /\ UNCHANGED <<dbVars, narwhal, log, faults>>

FaultySubmitCertificate(v, c) ==
    /\ c \in accepting[v]
    /\ accepting' = [accepting EXCEPT ![v] = @ \ {c}]
    /\ submit(v, c)
    /\ requested' = [requested EXCEPT ![v] = @ \cup {c}]
    /\ UNCHANGED <<status, executed, ended, closing, signed>>
    /\ UNCHANGED <<dbVars, netVars>>

\* The rest of handle_certificate: submit, release the lock, and execute if no
\* shared object has to be sequenced first.
SubmitCertificate(v, c) ==
    /\ c \in accepting[v]
    /\ accepting' = [accepting EXCEPT ![v] = @ \ {c}]
    /\ submit(v, c)
    /\ requested' = [requested EXCEPT ![v] = @ \cup ({c} \ Shared)]
    /\ UNCHANGED <<status, executed, ended, closing, signed>>
    /\ UNCHANGED <<dbVars, netVars>>

\* The certificates of the certified checkpoints.  A validator signs a checkpoint when
\* it has scheduled the certificates in it (SignedIsScheduled of CheckpointBuilder).
Checkpointed == {c \in Cert : \E Q \in Quorum : \A w \in Q : c \in scheduled[w]}

\* process_certificate: effects are written, and signed for whoever asks.  What a
\* client or local consensus did not ask for comes from the checkpoint executor, if
\* the validator is behind the quorum.
Execute(v, c) ==
    /\ ~ended[v]
    /\ c \in (requested[v] \cup scheduled[v] \cup Checkpointed) \ executed[v]
    /\ executed' = [executed EXCEPT ![v] = @ \cup {c}]
    /\ signed' = [signed EXCEPT ![v] = @ \cup {c}]
    /\ requested' = [requested EXCEPT ![v] = @ \ {c}]
    /\ UNCHANGED <<status, pending, ended, accepting, tasks, closing>>
    /\ UNCHANGED <<dbVars, netVars>>

-----------------------------------------------------------------------------
(* Tasks of the consensus adapter *)

\* The task registers for the message and looks whether it was output already
\* (consensus_message_processed_notify); if not, it submits it and waits.  The
\* delay before the submission is not told apart from the time the message spends
\* in Narwhal before it is committed.
SubmitAndWait(v, m) ==
    /\ <<m, "start">> \in tasks[v]
    /\ LET known == m \in processed[v]
       IN  /\ tasks' = [tasks EXCEPT ![v] = (@ \ {<<m, "start">>})
                          \cup {<<m, IF known THEN "woken" ELSE "waiting">>}]
           /\ narwhal' = IF known THEN narwhal ELSE narwhal \cup {<<v, m>>}
    /\ UNCHANGED <<status, pending, executed, ended, accepting, requested, closing, signed>>
    /\ UNCHANGED <<dbVars, log, calls, faults>>

\* remove_pending_consensus_transaction, once the message has been output.  The
\* task of an EndOfPublish message has nothing more to do.
RemovePending(v, m) ==
    /\ <<m, "woken">> \in tasks[v]
    /\ tasks' = [tasks EXCEPT ![v] = (@ \ {<<m, "woken">>}) \cup ({m} \cap Cert) \X {"removed"}]
    /\ pending' = [pending EXCEPT ![v] = @ \ {m}]
    /\ UNCHANGED <<status, executed, ended, accepting, requested, closing, signed>>
    /\ UNCHANGED <<dbVars, netVars>>

pending_consensus_certificates(v) == pending[v] \cap Cert

FaultySendEndOfPublish(v) ==
    /\ should_accept_user_certs(v)
    /\ pending_consensus_certificates(v) = {}

\* Whether the task that removed a certificate has to send EndOfPublish.
send_end_of_publish(v) ==
    /\ is_reject_user_certs(v)
    /\ pending_consensus_certificates(v) = {}

\* The end of submit_and_wait_inner.
FinishTask(v, c) ==
    /\ <<c, "removed">> \in tasks[v]
    /\ LET left == tasks[v] \ {<<c, "removed">>}
           eop  == EndOfPublish(v)
       IN  IF send_end_of_publish(v)
           THEN /\ tasks' = [tasks EXCEPT ![v] = left \cup {<<eop, "start">>}]
                /\ pending' = [pending EXCEPT ![v] = @ \cup {eop}]
           ELSE /\ tasks' = [tasks EXCEPT ![v] = left]
                /\ UNCHANGED pending
    /\ UNCHANGED <<status, executed, ended, accepting, requested, closing, signed>>
    /\ UNCHANGED <<dbVars, netVars>>

-----------------------------------------------------------------------------
(* The end of the epoch *)

FaultyCloseEpoch(v) ==
    /\ ~ended[v]
    /\ should_accept_user_certs(v)
    /\ accepting[v] = {}
    /\ status' = [status EXCEPT ![v] = "RejectUserCerts"]
    /\ closing' = [closing EXCEPT ![v] = TRUE]
    /\ UNCHANGED <<pending, executed, ended, accepting, requested, tasks, signed>>
    /\ UNCHANGED <<dbVars, netVars>>

\* ConsensusAdapter::close_epoch under the write lock: no call of
\* handle_certificate is between its check and its submission.
CloseEpoch(v) ==
    /\ ~ended[v]
    /\ should_accept_user_certs(v)
    /\ accepting[v] = {}
    /\ status' = [status EXCEPT ![v] = "RejectUserCerts"]
    /\ closing' = [closing EXCEPT ![v] = pending_consensus_certificates(v) = {}]
    /\ UNCHANGED <<pending, executed, ended, accepting, requested, tasks, signed>>
    /\ UNCHANGED <<dbVars, netVars>>

\* The rest of close_epoch, outside the lock.
SendEndOfPublish(v) ==
    /\ closing[v]
    /\ closing' = [closing EXCEPT ![v] = FALSE]
    /\ submit(v, EndOfPublish(v))
    /\ UNCHANGED <<status, executed, ended, accepting, requested, signed>>
    /\ UNCHANGED <<dbVars, netVars>>

-----------------------------------------------------------------------------
(* Consensus and its handler *)

\* Narwhal commits some of the messages it has; every validator sees the same
\* sequence of commits.
Sequence(S) ==
    /\ S # {}
    /\ Cardinality(S) <= MaxCommit
    /\ Len(log) < MaxLog
    /\ \A e, f \in S : e[2] = f[2] => e = f
    /\ log' = Append(log, S)
    /\ narwhal' = narwhal \ S
    /\ UNCHANGED <<status, pending, executed, ended, accepting, requested, tasks, closing, signed>>
    /\ UNCHANGED <<dbVars, calls, faults>>

\* A message that was committed appears again in a later commit.
Resend(e) ==
    /\ faults < MaxFaults
    /\ faults' = faults + 1
    /\ narwhal' = narwhal \cup {e}
    /\ UNCHANGED <<status, pending, executed, ended, accepting, requested, tasks, closing, signed>>
    /\ UNCHANGED <<dbVars, log, calls>>

Keys(S) == {e[2] : e \in S}

FaultyFresh(v, commit) == commit

\* verify_consensus_transaction: what was handled before is skipped.
Fresh(v, commit) == {e \in commit : e[2] \notin processed[v]}

FaultyAccepted(v, commit) ==
    {e[2] : e \in {f \in Fresh(v, commit) :
                     /\ f[2] \in Cert
                     /\ f[1] \notin endOfPublish[v]
                     /\ should_accept_user_certs(v)}}

\* process_consensus_transaction for user certificates: those not Ignored.
Accepted(v, commit) ==
    {e[2] : e \in {f \in Fresh(v, commit) :
                     /\ f[2] \in Cert
                     /\ f[1] \notin endOfPublish[v]
                     /\ should_accept_consensus_certs(v)}}

FaultyVotes(v, commit) ==
    endOfPublish[v] \cup
      {a \in Keys(Fresh(v, commit)) : should_accept_consensus_certs(v)}

\* process_end_of_publish_transactions, which follow the certificates of the
\* commit.  (After the vote that completes the quorum no more are recorded; the
\* authorities recorded here in addition are not looked at in RejectAllCerts.)
Votes(v, commit) ==
    endOfPublish[v] \cup
      {a \in Keys(Fresh(v, commit)) \cap Validator : should_accept_consensus_certs(v)}

Closes(v, commit) ==
    /\ should_accept_consensus_certs(v)
    /\ \E Q \in Quorum : Q \subseteq Votes(v, commit)

\* process_notifications: ignored certificates wake nobody.
Notified(v, commit) == Accepted(v, commit) \cup (Keys(Fresh(v, commit)) \cap Validator)

\* handle_consensus_output.  All of it is one batch, written under the write lock
\* if the commit closes the epoch.
HandleConsensusOutput(v) ==
    /\ ~ended[v]
    /\ index[v] < Len(log)
    /\ LET commit == log[index[v] + 1]
           woken == {t \in tasks[v] : t[2] = "waiting" /\ t[1] \in Notified(v, commit)}
       IN  /\ Closes(v, commit) => accepting[v] = {}
           /\ status' = [status EXCEPT ![v] =
                           IF Closes(v, commit) THEN "RejectAllCerts" ELSE @]
           /\ processed' = [processed EXCEPT ![v] = @ \cup Keys(commit)]
           /\ endOfPublish' = [endOfPublish EXCEPT ![v] = Votes(v, commit)]
           /\ scheduled' = [scheduled EXCEPT ![v] = @ \cup Accepted(v, commit)]
           /\ tasks' = [tasks EXCEPT ![v] =
                          (@ \ woken) \cup {<<t[1], "woken">> : t \in woken}]
    /\ index' = [index EXCEPT ![v] = @ + 1]
    /\ UNCHANGED <<pending, executed, ended, accepting, requested, closing, signed>>
    /\ UNCHANGED netVars

-----------------------------------------------------------------------------
(* Crash and reconfiguration *)

\* What ConsensusAdapter::submit_recovered sends again after a restart.
recovered(v) ==
    IF /\ is_reject_user_certs(v)
       /\ pending_consensus_certificates(v) = {}
       /\ EndOfPublish(v) \in pending[v]
    THEN pending[v] \cup {EndOfPublish(v)}
    ELSE pending[v]

\* A crash, and the restart.  Narwhal workers may lose messages.
Crash(v) ==
    /\ ~ended[v]
    /\ faults < MaxFaults
    /\ faults' = faults + 1
    /\ accepting' = [accepting EXCEPT ![v] = {}]
    /\ requested' = [requested EXCEPT ![v] = {}]
    /\ closing' = [closing EXCEPT ![v] = FALSE]
    /\ tasks' = [tasks EXCEPT ![v] = recovered(v) \X {"start"}]
    /\ \E lost \in SUBSET {e \in narwhal : e[1] = v} : narwhal' = narwhal \ lost
    /\ UNCHANGED <<status, pending, executed, ended, signed, log, calls>>
    /\ UNCHANGED dbVars

\* The certificates in the checkpoints of the epoch, once the last one is certified.
Final(S) == \E Q \in Quorum : \A w \in Q : status[w] = "RejectAllCerts" /\ scheduled[w] = S

\* revert_uncommitted_epoch_transactions: pending and not in a checkpoint.
Reverted(v, S) == pending_consensus_certificates(v) \ S

\* The validator has executed the checkpoints of the epoch, its own or synced, and
\* AuthorityState::reconfigure runs.
Reconfigure(v, S) ==
    /\ ~ended[v]
    /\ Final(S)
    /\ accepting[v] = {}
    /\ ended' = [ended EXCEPT ![v] = TRUE]
    /\ status' = [status EXCEPT ![v] = IF should_accept_user_certs(v) THEN "RejectUserCerts" ELSE @]
    /\ executed' = [executed EXCEPT ![v] = (@ \cup S) \ Reverted(v, S)]
    /\ signed' = [signed EXCEPT ![v] = @ \cup S]
    /\ tasks' = [tasks EXCEPT ![v] = {}]
    /\ closing' = [closing EXCEPT ![v] = FALSE]
    /\ UNCHANGED <<pending, accepting, requested>>
    /\ UNCHANGED <<dbVars, netVars>>

Step(v) ==
    \/ \E c \in Cert :
         \/ HandleCertificate(v, c)
         \/ SubmitCertificate(v, c)
         \/ Execute(v, c)
         \/ FinishTask(v, c)
    \/ \E m \in Message(v) :
         \/ SubmitAndWait(v, m)
         \/ RemovePending(v, m)
    \/ CloseEpoch(v)
    \/ SendEndOfPublish(v)
    \/ HandleConsensusOutput(v)
    \/ Crash(v)
    \/ \E S \in SUBSET Cert : Reconfigure(v, S)

Next ==
    \/ \E v \in Validator : Step(v)
    \/ \E S \in SUBSET narwhal : Sequence(S)
    \/ \E i \in DOMAIN log : \E e \in log[i] : Resend(e)

Spec == Init /\ [][Next]_vars

\* The steps of v that its own tasks take; clients and crashes are left out.
OwnStep(v) ==
    \/ \E c \in Cert : SubmitCertificate(v, c) \/ FinishTask(v, c)
    \/ \E m \in Message(v) : SubmitAndWait(v, m) \/ RemovePending(v, m)
    \/ CloseEpoch(v)
    \/ SendEndOfPublish(v)
    \/ HandleConsensusOutput(v)
    \/ \E S \in SUBSET Cert : Reconfigure(v, S)

\* Tasks that can run are run, the epoch's time runs out, consensus delivers.
FairSpec ==
    /\ Spec
    /\ \A v \in Validator : WF_vars(OwnStep(v))
    /\ WF_vars(\E S \in SUBSET narwhal : Sequence(S))

-----------------------------------------------------------------------------
(* Properties *)

\* Types.  In particular only its author's EndOfPublish is among the messages of a
\* validator, and only validators are counted as voters in end_of_publish.
TypeOK ==
    /\ status \in [Validator -> Status]
    /\ pending \in [Validator -> SUBSET (Cert \cup Validator)]
    /\ \A v \in Validator : pending[v] \subseteq Message(v)
    /\ processed \in [Validator -> SUBSET (Cert \cup Validator)]
    /\ endOfPublish \in [Validator -> SUBSET Validator]
    /\ scheduled \in [Validator -> SUBSET Cert]
    /\ index \in [Validator -> Nat]
    /\ \A v \in Validator : index[v] <= Len(log)
    /\ executed \in [Validator -> SUBSET Cert]
    /\ ended \in [Validator -> BOOLEAN]
    /\ accepting \in [Validator -> SUBSET Cert]
    /\ requested \in [Validator -> SUBSET Cert]
    /\ tasks \in [Validator -> SUBSET ((Cert \cup Validator) \X Progress)]
    /\ closing \in [Validator -> BOOLEAN]
    /\ narwhal \subseteq Entry
    /\ log \in Seq(SUBSET Entry)
    /\ signed \in [Validator -> SUBSET Cert]
    /\ calls \in [Validator -> [Cert -> Nat]]
    /\ faults \in Nat

\* Finality across the epoch boundary.  A client that holds effects signed by a
\* quorum relies on them for ever, although each signer executed the certificate
\* before consensus had output it.  So whenever a validator has closed the epoch
\* (process_end_of_publish_transactions), the certificate is among those it has
\* scheduled: in the checkpoints of the epoch, and not reverted by
\* revert_uncommitted_epoch_transactions.
EffectsQuorumFinal ==
    \A c \in Cert, w \in Validator :
        /\ \E Q \in Quorum : \A v \in Q : c \in signed[v]
        /\ status[w] = "RejectAllCerts"
        => c \in scheduled[w]

\* "This can not happen with valid authority": process_consensus_transaction never
\* meets a certificate that is new to it and comes from a validator whose
\* EndOfPublish it has counted.
NoCertAfterEndOfPublish ==
    \A v \in Validator :
        index[v] < Len(log) =>
            \A e \in Fresh(v, log[index[v] + 1]) :
                e[2] \in Cert => e[1] \notin endOfPublish[v]

\* handle_consensus_output does not depend on local state: validators that have
\* handled the same commits agree on what is scheduled, who has voted, and whether
\* the epoch is closed, though they stop accepting certificates at different times
\* and some crash.
SameOutput ==
    \A v, w \in Validator :
        index[v] = index[w] =>
            /\ scheduled[v] = scheduled[w]
            /\ processed[v] = processed[w]
            /\ endOfPublish[v] = endOfPublish[w]
            /\ should_accept_consensus_certs(v) = should_accept_consensus_certs(w)

\* Until the epoch closes, what a validator has executed is in a certified checkpoint,
\* scheduled by consensus, or still in pending_consensus_transactions, where a restart
\* finds it and revert_uncommitted_epoch_transactions looks for it.
ExecutedIsTracked ==
    \A v \in Validator :
        should_accept_consensus_certs(v) /\ ~ended[v] =>
            executed[v] \subseteq Checkpointed \cup scheduled[v] \cup pending[v]

\* "Reconfiguration acquires write lock, changes the epoch and revert all transactions
\* from previous epoch that are executed but did not make into checkpoint": a validator
\* enters the next epoch with the executions of the checkpoints and no others.
UncommittedReverted ==
    \A v \in Validator : ended[v] => executed[v] \subseteq Checkpointed

\* The assertion of revert_state_update, "We should never be reverting shared object
\* transactions": of the certificates that reconfiguration would revert, none that
\* was executed has a shared input.
NoSharedRevert ==
    \A v \in Validator, S \in SUBSET Cert :
        ~ended[v] /\ Final(S) => Reverted(v, S) \cap executed[v] \cap Shared = {}

\* A validator that has stopped accepting certificates and has none pending has sent
\* EndOfPublish or is about to.  The comment in submit_recovered claims it for a
\* crash between the two steps.
EndOfPublishKept ==
    \A v \in Validator :
        is_reject_user_certs(v) /\ ~ended[v] =>
            \/ EndOfPublish(v) \in pending[v] \cup processed[v]
            \/ pending_consensus_certificates(v) # {}
            \/ closing[v]
            \/ \E c \in Cert : <<c, "removed">> \in tasks[v]

\* The epoch ends at every validator: pending certificates drain, everyone sends
\* EndOfPublish, a quorum of them is output, and all reconfigure.
EpochEnds == <>(\A v \in Validator : ended[v])

=============================================================================
