---------------------------- MODULE ObjectLocks ----------------------------
(***************************************************************************)
(* Owned objects: how validators lock object versions to transactions,     *)
(* sign, execute certificates, and give locks back at the end of an epoch. *)
(*                                                                         *)
(* A transaction that uses owned objects only needs no consensus.  Each    *)
(* validator locks its inputs and signs it (authority.rs,                  *)
(* handle_transaction); a quorum of signatures is a certificate; executing *)
(* it deletes the locks of the inputs and creates those of the outputs     *)
(* (authority_store.rs).  At the end of the epoch executions that are in   *)
(* no checkpoint are reverted, one database batch each, in the order in    *)
(* which a HashSet yields them.                                            *)
(*                                                                         *)
(* Validator is the set of honest validators and Quorum the honest parts   *)
(* of the sets with 2f+1 of the stake: the others are taken to sign        *)
(* whatever is asked of them.  Which executions are in the last checkpoint *)
(* is what EpochEnd is about; here it is one step (CloseEpoch).            *)
(* Transactions that receive objects, and shared inputs, are left out.     *)
(*                                                                         *)
(* Definitions named Faulty... are variants of the definition that follows *)
(* them, each with one plausible mistake; no specification uses them.      *)
(***************************************************************************)
EXTENDS Naturals, FiniteSets

CONSTANTS
    Validator,
    Quorum,
    Tx,
    Ref,        \* object references: id, version and digest
    Genesis,    \* references that exist from the start
    Inputs,     \* the owned objects a transaction takes as input
    Outputs,    \* the owned objects it writes
    Absent,     \* no entry in owned_object_transaction_locks
    NoTx,       \* an entry that is None
    Requests,   \* bound: the transactions clients send, by epoch and validator
    Crashing,   \* bound: the validators that may crash
    MaxCalls,   \* bound: handle_transaction calls in flight at each validator
    MaxEpoch    \* bound: epochs

Epoch == 0..MaxEpoch

LockDetails == Epoch \X Tx

ASSUME LockAssumption ==
    /\ Quorum \subseteq SUBSET Validator
    /\ \A P, Q \in Quorum : P \cap Q # {}
    /\ Inputs \in [Tx -> SUBSET Ref]
    /\ Outputs \in [Tx -> SUBSET Ref]
    /\ Genesis \subseteq Ref
    /\ \A t \in Tx : Outputs[t] \cap (Genesis \cup Inputs[t]) = {}
    /\ \A t, u \in Tx : t # u => Outputs[t] \cap Outputs[u] = {}
    /\ MaxCalls \in [Validator -> Nat]
    /\ MaxEpoch \in Nat
    /\ Absent # NoTx /\ Absent \notin LockDetails /\ NoTx \notin LockDetails

VARIABLES
    \* at a validator
    epoch,     \* its epoch
    phase,     \* accepting certificates of users, halted, or reverting
    locks,     \* owned_object_transaction_locks
    executed,  \* executed_effects
    signed,    \* signed_transactions of each epoch
    effects,   \* effects_signatures of each epoch
    calls,     \* handle_transaction calls in flight
    \* of the system
    closed,    \* epochs whose last checkpoint is fixed
    final      \* the transactions in the checkpoints of a closed epoch

vars == <<epoch, phase, locks, executed, signed, effects, calls, closed, final>>

Step == {"check", "write", "insert"}

\* A call keeps the epoch store it was started with; refs is locks_to_write.
Call == [epoch : Epoch, tx : Tx, step : Step, refs : SUBSET Ref]

Init ==
    /\ epoch = [v \in Validator |-> 0]
    /\ phase = [v \in Validator |-> "accepting"]
    /\ locks = [v \in Validator |-> [r \in Ref |-> IF r \in Genesis THEN NoTx ELSE Absent]]
    /\ executed = [v \in Validator |-> {}]
    /\ signed = [v \in Validator |-> {}]
    /\ effects = [v \in Validator |-> {}]
    /\ calls = [v \in Validator |-> {}]
    /\ closed = {}
    /\ final = [e \in Epoch |-> {}]

\* The versions in the objects table: executing adds the outputs, reverting deletes
\* them, and old versions stay.
Objects(v) == Genesis \cup UNION {Outputs[t] : t \in executed[v]}

Conflict(t, u) == t # u /\ Inputs[t] \cap Inputs[u] # {}

\* A quorum has signed the transaction in the epoch.
Certified(e, t) == \E Q \in Quorum : \A v \in Q : <<e, t>> \in signed[v]

\* A quorum has signed its effects in the epoch: to the client it is final.
EffectsCertified(e, t) == \E Q \in Quorum : \A v \in Q : <<e, t>> \in effects[v]

-----------------------------------------------------------------------------
(* Signing a transaction *)

\* handle_transaction up to the input checks: what is executed or signed already is
\* answered from the tables; an epoch that is ending accepts nothing new.
HandleTransaction(v, t) ==
    /\ <<epoch[v], v, t>> \in Requests
    /\ t \notin executed[v]
    /\ <<epoch[v], t>> \notin signed[v]
    /\ phase[v] = "accepting"
    /\ Cardinality(calls[v]) < MaxCalls[v]
    /\ calls' = [calls EXCEPT ![v] = @ \cup
                   {[epoch |-> epoch[v], tx |-> t, step |-> "check", refs |-> {}]}]
    /\ UNCHANGED <<epoch, phase, locks, executed, signed, effects, closed, final>>

\* The mutexes of the inputs, held from the first read of a lock to the last write.
Mutexes(v) == UNION {Inputs[c.tx] : c \in {d \in calls[v] : d.step = "write"}}

\* The conditions of acquire_transaction_locks: a lock exists, is not of a later
\* epoch, and not of another transaction in this one.
CanLock(v, e, t) ==
    \A r \in Inputs[t] :
        /\ locks[v][r] # Absent
        /\ locks[v][r] # NoTx =>
              /\ locks[v][r][1] <= e
              /\ locks[v][r][1] = e => locks[v][r][2] = t

Continue(v, c, d) == calls' = [calls EXCEPT ![v] = (@ \ {c}) \cup d]

FaultyReadLocks(v, c) ==
    /\ c \in calls[v] /\ c.step = "check"
    /\ Continue(v, c, IF Inputs[c.tx] \subseteq Objects(v) /\ CanLock(v, c.epoch, c.tx)
                   THEN {[c EXCEPT !.step = "write",
                                   !.refs = {r \in Inputs[c.tx] : locks[v][r] # <<c.epoch, c.tx>>}]}
                   ELSE {})
    /\ UNCHANGED <<epoch, phase, locks, executed, signed, effects, closed, final>>

\* check_transaction_input and the first half of acquire_transaction_locks, which
\* reads the locks; if it refuses, the call ends.  (The objects are read a little
\* earlier; an object whose lock is read afterwards is there both times or was
\* reverted and is not there now.)
ReadLocks(v, c) ==
    /\ c \in calls[v] /\ c.step = "check"
    /\ Inputs[c.tx] \cap Mutexes(v) = {}
    /\ Continue(v, c, IF Inputs[c.tx] \subseteq Objects(v) /\ CanLock(v, c.epoch, c.tx)
                   THEN {[c EXCEPT !.step = "write",
                                   !.refs = {r \in Inputs[c.tx] : locks[v][r] # <<c.epoch, c.tx>>}]}
                   ELSE {})
    /\ UNCHANGED <<epoch, phase, locks, executed, signed, effects, closed, final>>

\* The second half writes them, whatever has become of them meanwhile: executing a
\* certificate does not take the mutexes.
WriteLocks(v, c) ==
    /\ c \in calls[v] /\ c.step = "write"
    /\ locks' = [locks EXCEPT ![v] = [r \in Ref |->
                    IF r \in c.refs THEN <<c.epoch, c.tx>> ELSE @[r]]]
    /\ Continue(v, c, {[c EXCEPT !.step = "insert", !.refs = {}]})
    /\ UNCHANGED <<epoch, phase, executed, signed, effects, closed, final>>

\* insert_signed_transaction, and the answer to the client.
InsertSigned(v, c) ==
    /\ c \in calls[v] /\ c.step = "insert"
    /\ signed' = [signed EXCEPT ![v] = @ \cup {<<c.epoch, c.tx>>}]
    /\ Continue(v, c, {})
    /\ UNCHANGED <<epoch, phase, locks, executed, effects, closed, final>>

-----------------------------------------------------------------------------
(* Executing a certificate *)

\* A validator executes certificates that users bring as long as it accepts them,
\* and those of the checkpoints until it has left the epoch.
MayExecute(v, t) ==
    /\ phase[v] # "reverting"
    /\ Certified(epoch[v], t)
    /\ phase[v] = "accepting" \/ (epoch[v] \in closed /\ t \in final[epoch[v]])

\* process_certificate under the execution lock, and update_state in one batch: the
\* locks of the inputs exist and are deleted, those of the outputs are not taken and
\* are initialized.
Execute(v, t) ==
    /\ MayExecute(v, t)
    /\ t \notin executed[v]
    /\ Inputs[t] \subseteq Objects(v)
    /\ \A r \in Inputs[t] : locks[v][r] # Absent
    /\ \A r \in Outputs[t] : locks[v][r] \in {Absent, NoTx}
    /\ executed' = [executed EXCEPT ![v] = @ \cup {t}]
    /\ effects' = [effects EXCEPT ![v] = @ \cup {<<epoch[v], t>>}]
    /\ locks' = [locks EXCEPT ![v] = [r \in Ref |->
                    CASE r \in Outputs[t] -> NoTx
                      [] r \in Inputs[t]  -> Absent
                      [] OTHER            -> @[r]]]
    /\ UNCHANGED <<epoch, phase, signed, calls, closed, final>>

-----------------------------------------------------------------------------
(* The end of an epoch *)

\* The validator stops accepting certificates of users.
CloseUserCerts(v) ==
    /\ phase[v] = "accepting"
    /\ phase' = [phase EXCEPT ![v] = "halted"]
    /\ UNCHANGED <<epoch, locks, executed, signed, effects, calls, closed, final>>

\* What a validator has executed in an epoch.
ExecutedIn(v, e) == {t \in Tx : <<e, t>> \in effects[v]}

\* Every input is there: produced in the set or in an earlier epoch.
CausallyClosed(e, S) ==
    \A t \in S : Inputs[t] \subseteq
        Genesis \cup UNION {Outputs[u] : u \in S \cup UNION {final[d] : d \in 0..(e - 1)}}

FaultyCloseEpoch(e, S) ==
    /\ e \in Epoch \ closed /\ e < MaxEpoch
    /\ \E Q \in Quorum : \A v \in Q : epoch[v] = e /\ phase[v] = "halted"
    /\ \A t \in S : Certified(e, t)
    /\ CausallyClosed(e, S)
    /\ closed' = closed \cup {e}
    /\ final' = [final EXCEPT ![e] = S]
    /\ UNCHANGED <<epoch, phase, locks, executed, signed, effects, calls>>

\* The last checkpoint of the epoch.  A quorum of validators has sent EndOfPublish,
\* each after consensus had output everything it has executed (see EpochEnd).
CloseEpoch(e, S) ==
    /\ e \in Epoch \ closed /\ e < MaxEpoch
    /\ \E Q \in Quorum : \A v \in Q :
          epoch[v] = e /\ phase[v] = "halted" /\ ExecutedIn(v, e) \subseteq S
    /\ \A t \in S : Certified(e, t)
    /\ CausallyClosed(e, S)
    /\ closed' = closed \cup {e}
    /\ final' = [final EXCEPT ![e] = S]
    /\ UNCHANGED <<epoch, phase, locks, executed, signed, effects, calls>>

FaultyStartRevert(v) ==
    /\ phase[v] # "reverting"
    /\ final[epoch[v]] \subseteq executed[v]
    /\ phase' = [phase EXCEPT ![v] = "reverting"]
    /\ UNCHANGED <<epoch, locks, executed, signed, effects, calls, closed, final>>

\* AuthorityState::reconfigure, after the last checkpoint: from here on the
\* execution lock is held.
StartRevert(v) ==
    /\ phase[v] # "reverting"
    /\ epoch[v] \in closed
    /\ final[epoch[v]] \subseteq executed[v]
    /\ phase' = [phase EXCEPT ![v] = "reverting"]
    /\ UNCHANGED <<epoch, locks, executed, signed, effects, calls, closed, final>>

\* revert_uncommitted_epoch_transactions: executed here and in no checkpoint.
Uncommitted(v) == (ExecutedIn(v, epoch[v]) \cap executed[v]) \ final[epoch[v]]

FaultyRevert(v, t) ==
    /\ phase[v] = "reverting"
    /\ t \in ExecutedIn(v, epoch[v]) \cap executed[v]
    /\ executed' = [executed EXCEPT ![v] = @ \ {t}]
    /\ locks' = [locks EXCEPT ![v] = [r \in Ref |->
                    CASE r \in Inputs[t]  -> NoTx
                      [] r \in Outputs[t] -> Absent
                      [] OTHER            -> @[r]]]
    /\ UNCHANGED <<epoch, phase, signed, effects, calls, closed, final>>

\* revert_state_update, one batch: the old versions must be there, their locks are
\* re-created by force, and the new versions and their locks are deleted.
Revert(v, t) ==
    /\ phase[v] = "reverting"
    /\ t \in Uncommitted(v)
    /\ Inputs[t] \subseteq Objects(v)
    /\ executed' = [executed EXCEPT ![v] = @ \ {t}]
    /\ locks' = [locks EXCEPT ![v] = [r \in Ref |->
                    CASE r \in Inputs[t]  -> NoTx
                      [] r \in Outputs[t] -> Absent
                      [] OTHER            -> @[r]]]
    /\ UNCHANGED <<epoch, phase, signed, effects, calls, closed, final>>

\* reopen_epoch_db.  Calls that hold the old epoch store go on with it.
ReopenEpochDb(v) ==
    /\ phase[v] = "reverting"
    /\ Uncommitted(v) = {}
    /\ epoch' = [epoch EXCEPT ![v] = @ + 1]
    /\ phase' = [phase EXCEPT ![v] = "accepting"]
    /\ UNCHANGED <<locks, executed, signed, effects, calls, closed, final>>

\* A crash loses the calls in flight and the progress of a reconfiguration, which
\* starts again.
Crash(v) ==
    /\ v \in Crashing
    /\ calls[v] # {} \/ phase[v] = "reverting"
    /\ calls' = [calls EXCEPT ![v] = {}]
    /\ phase' = [phase EXCEPT ![v] = IF @ = "reverting" THEN "halted" ELSE @]
    /\ UNCHANGED <<epoch, locks, executed, signed, effects, closed, final>>

ValidatorStep(v) ==
    \/ \E t \in Tx : HandleTransaction(v, t) \/ Execute(v, t) \/ Revert(v, t)
    \/ \E c \in calls[v] : ReadLocks(v, c) \/ WriteLocks(v, c) \/ InsertSigned(v, c)
    \/ CloseUserCerts(v)
    \/ StartRevert(v)
    \/ ReopenEpochDb(v)
    \/ Crash(v)

Next ==
    \/ \E v \in Validator : ValidatorStep(v)
    \/ \E e \in Epoch, S \in SUBSET Tx : CloseEpoch(e, S)

Spec == Init /\ [][Next]_vars

-----------------------------------------------------------------------------
(* Properties *)

\* Types.  A lock holds the epoch and the transaction it was taken for.
TypeOK ==
    /\ epoch \in [Validator -> Epoch]
    /\ phase \in [Validator -> {"accepting", "halted", "reverting"}]
    /\ locks \in [Validator -> [Ref -> {Absent, NoTx} \cup LockDetails]]
    /\ executed \in [Validator -> SUBSET Tx]
    /\ signed \in [Validator -> SUBSET LockDetails]
    /\ effects \in [Validator -> SUBSET LockDetails]
    /\ calls \in [Validator -> SUBSET Call]
    /\ closed \subseteq Epoch
    /\ final \in [Epoch -> SUBSET Tx]

\* A validator signs two transactions for the same object version and epoch only
\* after the epoch is closed, when revert_state_update has reset the lock of the
\* first one and a call has gone on with the old epoch store.  Until then the mutexes
\* of acquire_transaction_locks, ObjectLockConflict, and the lock written before the
\* signature prevent it, whatever executes or crashes in between.
NoEquivocation ==
    \A v \in Validator, e \in Epoch, t, u \in Tx :
        /\ {<<e, t>>, <<e, u>>} \subseteq signed[v]
        /\ Conflict(t, u)
        => e \in closed

\* Effects that a quorum has signed survive the end of the epoch: a validator in a
\* later epoch has executed the transaction, and revert_uncommitted_epoch_transactions
\* has not undone it, at whichever step each of the signers stopped accepting
\* certificates.
CertifiedEffectsSurvive ==
    \A v \in Validator, e \in Epoch, t \in Tx :
        EffectsCertified(e, t) /\ epoch[v] > e => t \in executed[v]

\* The refinement mapping: final is what a client has certified effects of, and
\* what the checkpoints of a closed epoch contain.
ledger == [e \in Epoch |-> {t \in Tx : EffectsCertified(e, t)} \cup final[e]]

Ledger == INSTANCE SingleSpend WITH sealed <- closed

\* The validators together behave like one ledger in which every object version is
\* spent at most once per epoch and nothing final is ever lost, although they lock,
\* sign, execute and revert on their own.
LedgerSpec == Ledger!Spec

=============================================================================
