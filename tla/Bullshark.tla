---------------------------- MODULE Bullshark ----------------------------
(***************************************************************************)
(* Narwhal's ordering of certificates (narwhal/consensus), with the        *)
(* acceptance of certificates before it (narwhal/primary, synchronizer)    *)
(* and the hand-over of sub-dags to the consensus handler after it         *)
(* (narwhal/executor), at every validator that runs this code.             *)
(*                                                                         *)
(* The certified DAG is the same for every validator: a quorum signs at    *)
(* most one certificate per author and round.  What differs is the order   *)
(* in which certificates arrive, when the process crashes and what of the  *)
(* DAG a validator has when it elects a leader.                            *)
(*                                                                         *)
(* In-memory: state.dag, state.table, channel, commit, output.  In the     *)
(* database: stored (CertificateStore), state.last_committed and           *)
(* state.sub_dags (ConsensusStore, written in one batch), executed (the    *)
(* statistics of ConsensusHandler, written with the commit).               *)
(*                                                                         *)
(* Definitions named Faulty... are variants of the definition that follows *)
(* them, each with one plausible mistake; no specification uses them.      *)
(***************************************************************************)
EXTENDS Integers, Sequences, FiniteSets, FiniteSetsExt

CONSTANTS
    Validator,       \* the validators that run this code
    Authority,       \* identifiers of the committee: 1..n
    Stake,           \* their stakes
    Dags,            \* the DAGs to try: [certificate -> its parents]
    BaseLeader,      \* Committee::leader, the choice seeded by an even round
    Choice,          \* the random number swap() seeds with the round
    GcDepth,         \* gc_depth
    SubDagsPerSchedule,      \* num_sub_dags_per_schedule
    BadNodesThreshold,       \* consensus_bad_nodes_stake_threshold, percent
    First,           \* bound: gets the certificates round by round, before the others
    MaxChannel,      \* bound: certificates between synchronizer and consensus
    MaxCrashes       \* bound: crashes of each validator's process

\* The last element of a sequence and those before it (SequencesExt has them, but
\* its many definitions slow the prover down in every step).
Last(q) == q[Len(q)]
Front(q) == SubSeq(q, 1, Len(q) - 1)

\* A certificate is <<round, author>>.
Round(c) == c[1]
Origin(c) == c[2]

\* The stake of a set of authorities, counted in units.
Units(A) == UNION {{a} \X (1..Stake[a]) : a \in A}
StakeOf(A) == Cardinality(Units(A))
Total == StakeOf(Authority)
QuorumThreshold == (2 * Total) \div 3 + 1
ValidityThreshold == (Total + 2) \div 3

\* What a quorum has checked before it signed a certificate: the parents are of
\* the round before and have a quorum of the stake (those of round 1 are the
\* genesis certificates, which the DAG leaves out).
IsDag(p) ==
    /\ IsFiniteSet(DOMAIN p) /\ DOMAIN p \subseteq (Nat \ {0}) \X Authority
    /\ \A c \in DOMAIN p :
        /\ p[c] \subseteq {d \in DOMAIN p : Round(d) = Round(c) - 1}
        /\ Round(c) > 1 => StakeOf({Origin(d) : d \in p[c]}) >= QuorumThreshold

ASSUME BullsharkAssumption ==
    /\ Authority \subseteq Nat /\ IsFiniteSet(Authority) /\ Authority # {}
    /\ Stake \in [Authority -> Nat \ {0}]
    /\ GcDepth \in Nat \ {0} /\ SubDagsPerSchedule \in Nat \ {0}
    /\ BadNodesThreshold \in 0..33
    /\ \A p \in Dags : IsDag(p)

VARIABLES parents, stored, channel, state, commit, output, executed, crashes

vars == <<parents, stored, channel, state, commit, output, executed, crashes>>

--------------------------------------------------------------------------
\* The leader schedule.

gc_round(r) == IF r > GcDepth THEN r - GcDepth ELSE 0

\* last_round.committed_round and last_round.gc_round.
CommittedRound(s) == Max({s.last_committed[a] : a \in Authority})
GcRound(s) == gc_round(CommittedRound(s))

authorities_by_score_desc(scores) ==
    LET place == [a \in Authority |-> Cardinality({b \in Authority :
                      scores[b] > scores[a] \/ (scores[b] = scores[a] /\ b >= a)})]
    IN  [k \in 1..Cardinality(Authority) |-> CHOOSE a \in Authority : place[a] = k]

retrieve_first_nodes(order) ==
    SubSeq(order, 1, Max({k \in 0..Len(order) :
        StakeOf(Range(SubSeq(order, 1, k))) <= (BadNodesThreshold * Total) \div 100}))

NoSwaps == [good_nodes |-> <<>>, bad_nodes |-> {}]

LeaderSwapTable(scores) ==
    LET order == authorities_by_score_desc(scores)
        reversed == [i \in DOMAIN order |-> order[Len(order) + 1 - i]]
    IN  [good_nodes |-> retrieve_first_nodes(order),
         bad_nodes |-> Range(retrieve_first_nodes(reversed))]

leader(table, r) ==
    IF BaseLeader[r] \in table.bad_nodes
    THEN table.good_nodes[1 + (Choice[r] % Len(table.good_nodes))]
    ELSE BaseLeader[r]

\* The certificate of the round's leader, which the dag may not have.
leader_certificate(table, r) == <<r, leader(table, r)>>

--------------------------------------------------------------------------
\* Electing and ordering leaders.

Supporters(dag, l) == {c \in dag : Round(c) = Round(l) + 1 /\ l \in parents[c]}

\* The certificates of the dag that l has paths to, k rounds below it.
Reached(dag, l) ==
    LET reached[k \in Nat] ==
            IF k = 0 THEN {l} ELSE dag \cap UNION {parents[x] : x \in reached[k - 1]}
    IN  reached

\* A path of certificates of the dag from l down to p.
linked(dag, l, p) == p \in Reached(dag, l)[Round(l) - Round(p)]

\* Going back from l, the leaders of the last k even rounds that the next one is
\* linked to; the oldest comes first.
LinkedLeaders(dag, table, l) ==
    LET to_commit[k \in Nat] ==
            IF k = 0 THEN <<l>>
            ELSE LET later == to_commit[k - 1]
                     prev == leader_certificate(table, Round(l) - 2 * k)
                 IN  IF prev \in dag /\ linked(dag, Head(later), prev)
                     THEN <<prev>> \o later
                     ELSE later
    IN  to_commit

\* Back to the round after the last commit.
order_leaders(s, l) ==
    LinkedLeaders(s.dag, s.table, l)[(Round(l) - CommittedRound(s)) \div 2 - 1]

\* The start of commit_leader: the leaders to commit, none if the leader of the
\* round is missing or has too little support.
elect(s, r) ==
    LET l == leader_certificate(s.table, r)
    IN  IF /\ l \in s.dag
           /\ StakeOf({Origin(c) : c \in Supporters(s.dag, l)}) >= ValidityThreshold
        THEN order_leaders(s, l)
        ELSE <<>>

--------------------------------------------------------------------------
\* Committing a leader.

FaultySkip(s, c, seen) == c \in seen              \* forgets what is committed

\* order_dag does not visit a certificate again, nor one at or below the last
\* round committed for its author.
Skip(s, c, seen) == c \in seen \/ Round(c) <= s.last_committed[Origin(c)]

\* Parents are pushed in the order of their digests, here that of their authors.
InDigestOrder(C) ==
    [k \in 1..Cardinality(C) |->
        CHOOSE c \in C : Cardinality({d \in C : Origin(d) <= Origin(c)}) = k]

\* An iteration of order_dag's depth-first search: buffer is its stack.
Visit(s, l, now) ==
    LET x == Last(now.buffer)
        new == {p \in parents[x] : /\ Round(x) # gc_round(Round(l)) + 1
                                   /\ ~Skip(s, p, now.already_ordered)}
    IN  [ordered |-> Append(now.ordered, x),
         buffer |-> Front(now.buffer) \o InDigestOrder(new),
         already_ordered |-> now.already_ordered \cup new]

\* The search from l after k iterations; it ends when the buffer is empty.
Search(s, l) ==
    LET search[k \in Nat] ==
            IF k = 0 THEN [ordered |-> <<>>, buffer |-> <<l>>, already_ordered |-> {}]
            ELSE LET now == search[k - 1]
                 IN  IF now.buffer = <<>> THEN now ELSE Visit(s, l, now)
    IN  search

\* A stable sort by round.
ByRound(q) ==
    LET place == [i \in DOMAIN q |-> Cardinality({j \in DOMAIN q :
                      \/ Round(q[j]) < Round(q[i])
                      \/ Round(q[j]) = Round(q[i]) /\ j <= i})]
    IN  [k \in DOMAIN q |-> q[CHOOSE i \in DOMAIN q : place[i] = k]]

\* order_dag: what the search from l visits, each certificate at most once, sorted.
order_dag(s, l) == ByRound(Search(s, l)[Cardinality(DOMAIN parents)].ordered)

\* resolve_reputation_score for the sub-dag with the given certificates.
resolve_reputation_score(s, certificates) ==
    LET index == Len(s.sub_dags) + 1
        fresh == index = 1 \/ index % SubDagsPerSchedule = 0
        Votes(a) == Cardinality({c \in Range(certificates) :
                        Origin(c) = a /\ Last(s.sub_dags).leader \in parents[c]})
    IN  [a \in Authority |-> (IF fresh THEN 0 ELSE Last(s.sub_dags).scores[a])
                             + (IF s.sub_dags = <<>> THEN 0 ELSE Votes(a))]

\* reputation_score.final_of_schedule, of the sub-dag with this index.
FinalOfSchedule(index) == (index + 1) % SubDagsPerSchedule = 0

\* The body of commit_leader's loop: order the sub-dag, update the state (the
\* dag is purged), persist, and change the schedule at its end.
CommitLeader(s, l) ==
    LET certificates == order_dag(s, l)
        scores == resolve_reputation_score(s, certificates)
        index == Len(s.sub_dags) + 1
        last == [a \in Authority |-> Max({s.last_committed[a]} \cup
                    {Round(c) : c \in {d \in Range(certificates) : Origin(d) = a}})]
        gc == gc_round(Max({last[a] : a \in Authority}))
    IN  [dag |-> {c \in s.dag : Round(c) > gc},
         last_committed |-> last,
         sub_dags |-> Append(s.sub_dags,
             [leader |-> l, certificates |-> certificates, scores |-> scores]),
         table |-> IF FinalOfSchedule(index) THEN LeaderSwapTable(scores) ELSE s.table]

FaultyRemaining(s, r, leaders) == Tail(leaders)   \* keeps the old schedule's leaders

\* The leaders still to commit after the first one: if it changed the schedule,
\* process_certificate elects again with the new one.
Remaining(s, r, leaders) ==
    IF FinalOfSchedule(Len(s.sub_dags)) /\ Len(leaders) > 1
    THEN elect(s, r)
    ELSE Tail(leaders)

\* try_insert: a certificate at or below the gc round is ignored.
Insert(s, c) == IF Round(c) > GcRound(s) THEN [s EXCEPT !.dag = @ \cup {c}] ELSE s

\* process_certificate up to its loop: the leaders the inserted certificate
\* lets the validator commit.
LeadersFor(s, c) ==
    IF \/ Round(c) <= GcRound(s) \/ Round(c) <= s.last_committed[Origin(c)]
       \/ (Round(c) - 1) % 2 # 0 \/ Round(c) - 1 < 2
       \/ Round(c) - 1 <= CommittedRound(s)
    THEN <<>>
    ELSE elect(s, Round(c) - 1)

--------------------------------------------------------------------------
\* ConsensusState::new, with the default swap table.
New == [dag |-> {}, last_committed |-> [a \in Authority |-> 0],
        sub_dags |-> <<>>, table |-> NoSwaps]

\* The loop of process_certificate: leaders of round and before it to commit, and
\* the index of the first sub-dag it commits.
NoCommit == [round |-> 0, leaders |-> <<>>, first |-> 0]
Idle(v) == commit[v].leaders = <<>>

Init ==
    /\ parents \in Dags
    /\ stored = [v \in Validator |-> {}]
    /\ channel = [v \in Validator |-> <<>>]
    /\ state = [v \in Validator |-> New]
    /\ commit = [v \in Validator |-> NoCommit]
    /\ output = [v \in Validator |-> <<>>]
    /\ executed = [v \in Validator |-> <<>>]
    /\ crashes = [v \in Validator |-> 0]

\* Bound: First gets the certificates in the order of rounds and authors, and is
\* done with all of them before another validator gets any.
Turn(v, c) ==
    IF v = First
    THEN \A d \in DOMAIN parents \ stored[v] :
            Round(c) < Round(d) \/ (Round(c) = Round(d) /\ Origin(c) <= Origin(d))
    ELSE First \in Validator =>
            /\ stored[First] = DOMAIN parents /\ channel[First] = <<>>
            /\ Idle(First) /\ output[First] = <<>>

FaultyCausal(v, c) == parents[c] \subseteq stored[v] \/ Round(c) <= GcRound(state[v]) + 2

\* A certificate waits in the synchronizer until its parents are stored or the
\* gc round, published when process_certificate has returned, has reached them.
Causal(v, c) ==
    \/ parents[c] \subseteq stored[v]
    \/ Idle(v) /\ Round(c) <= GcRound(state[v]) + 1

\* accept_certificate_internal: store the certificate, send it to consensus.
Accept(v, c) ==
    /\ Turn(v, c)
    /\ c \notin stored[v] /\ Causal(v, c)
    /\ Len(channel[v]) < MaxChannel
    /\ stored' = [stored EXCEPT ![v] = @ \cup {c}]
    /\ channel' = [channel EXCEPT ![v] = Append(@, c)]
    /\ UNCHANGED <<parents, state, commit, output, executed, crashes>>

\* Consensus::run_inner takes a certificate from the channel: process_certificate
\* up to the first leader to commit.
ProcessCertificate(v) ==
    /\ Idle(v) /\ channel[v] # <<>>
    /\ LET c == Head(channel[v])
           s == Insert(state[v], c)
           leaders == LeadersFor(s, c)
       IN  /\ state' = [state EXCEPT ![v] = s]
           /\ commit' = [commit EXCEPT ![v] =
                            IF leaders = <<>> THEN NoCommit
                            ELSE [round |-> Round(c) - 1, leaders |-> leaders,
                                  first |-> Len(s.sub_dags) + 1]]
    /\ channel' = [channel EXCEPT ![v] = Tail(@)]
    /\ UNCHANGED <<parents, stored, output, executed, crashes>>

\* The indices from..to, in order.
Indices(from, to) == [i \in 1..(to - from + 1) |-> from + i - 1]

\* One iteration of commit_leader.  After the last one process_certificate
\* returns the sub-dags, and run_inner sends them to the executor.
Commit(v) ==
    /\ ~Idle(v)
    /\ LET s == CommitLeader(state[v], Head(commit[v].leaders))
           leaders == Remaining(s, commit[v].round, commit[v].leaders)
       IN  /\ state' = [state EXCEPT ![v] = s]
           /\ IF leaders = <<>>
              THEN /\ commit' = [commit EXCEPT ![v] = NoCommit]
                   /\ output' = [output EXCEPT ![v] =
                                    @ \o Indices(commit[v].first, Len(s.sub_dags))]
              ELSE /\ commit' = [commit EXCEPT ![v].leaders = leaders]
                   /\ UNCHANGED output
    /\ UNCHANGED <<parents, stored, channel, executed, crashes>>

--------------------------------------------------------------------------
\* The subscriber keeps the order of the channel; output holds the indices of
\* sub-dags on their way to the handler.

LastExecuted(v) == IF executed[v] = <<>> THEN 0 ELSE Last(executed[v])
RoundOf(v, index) == IF index = 0 THEN 0 ELSE Round(state[v].sub_dags[index].leader)

FaultySeen(v, index) == FALSE

\* handle_consensus_output ignores the commit of the last round it handled.
Seen(v, index) == RoundOf(v, index) = RoundOf(v, LastExecuted(v))

HandleOutput(v) ==
    /\ output[v] # <<>>
    /\ executed' = [executed EXCEPT ![v] = IF Seen(v, Head(output[v])) THEN @
                                           ELSE Append(@, Head(output[v]))]
    /\ output' = [output EXCEPT ![v] = Tail(@)]
    /\ UNCHANGED <<parents, stored, channel, state, commit, crashes>>

\* get_restored_consensus_output: the sub-dags from the last executed one on.
Restored(v) == Indices(Max({1, LastExecuted(v)}), Len(state[v].sub_dags))

\* LeaderSchedule::from_store: the table of the last final reputation scores.
RestoredTable(sub_dags) ==
    LET final == {i \in 1..Len(sub_dags) : FinalOfSchedule(i)}
    IN  IF final = {} THEN NoSwaps ELSE LeaderSwapTable(sub_dags[Max(final)].scores)

\* The process crashes and starts again: Consensus::spawn and the executor
\* restore their state from the two stores.  Certificates that were stored but
\* not processed enter the dag without an election.
Restart(v) ==
    /\ crashes[v] < MaxCrashes[v]
    /\ crashes' = [crashes EXCEPT ![v] = @ + 1]
    /\ channel' = [channel EXCEPT ![v] = <<>>]
    /\ commit' = [commit EXCEPT ![v] = NoCommit]
    /\ state' = [state EXCEPT
                    ![v].dag = {c \in stored[v] : Round(c) >= GcRound(state[v]) + 1},
                    ![v].table = RestoredTable(state[v].sub_dags)]
    /\ output' = [output EXCEPT ![v] = Restored(v)]
    /\ UNCHANGED <<parents, stored, executed>>

Next ==
    \E v \in Validator :
        \/ \E c \in DOMAIN parents : Accept(v, c)
        \/ ProcessCertificate(v) \/ Commit(v) \/ HandleOutput(v) \/ Restart(v)

Spec == Init /\ [][Next]_vars

--------------------------------------------------------------------------
IsPrefix(q, r) == Len(q) <= Len(r) /\ q = SubSeq(r, 1, Len(q))

\* Agreement: whatever the order in which certificates arrive, and wherever a
\* process crashes, process_certificate commits the same sub-dags at every
\* validator, one may only be behind another: the same leaders, certificates in
\* the same sequence, and scores, although leaders are committed in different
\* batches and the schedule may change within a batch.
Agreement ==
    \A v, w \in Validator :
        \/ IsPrefix(state[v].sub_dags, state[w].sub_dags)
        \/ IsPrefix(state[w].sub_dags, state[v].sub_dags)

\* No certificate is committed twice, by one sub-dag or by two: last_committed
\* stands for every certificate already sequenced, also after the dag was rebuilt
\* from the store.
CommittedOnce ==
    \A v \in Validator : \A i \in 1..Len(state[v].sub_dags) :
        /\ IsInjective(state[v].sub_dags[i].certificates)
        /\ \A j \in 1..Len(state[v].sub_dags) : i # j =>
            Range(state[v].sub_dags[i].certificates)
                \cap Range(state[v].sub_dags[j].certificates) = {}

\* The dag holds the parents of its certificates down to the gc round, so
\* neither check_parents nor order_dag panics: what the synchronizer lets
\* through, what update purges and what a restart reads fit together.
DagIsClosed ==
    \A v \in Validator : \A c \in state[v].dag :
        Round(c) > GcRound(state[v]) + 1 => parents[c] \subseteq state[v].dag

\* The handler gets every sub-dag once and in order, although a restart sends
\* it again those from the last one it handled.
ExecutedInOrder ==
    \A v \in Validator : \A i \in 1..Len(executed[v]) : executed[v][i] = i
==========================================================================
