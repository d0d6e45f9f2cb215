---------------------------- MODULE CausalOrder ----------------------------
(***************************************************************************)
(* CausalOrder::causal_sort (checkpoints/causal_order.rs): the order in    *)
(* which the transactions of a commit are put into checkpoints.  It is a   *)
(* depth-first search with its own stack, over the dependencies recorded   *)
(* in the effects and over edges that RWLockDependencyBuilder adds: a      *)
(* transaction that overwrites a version of a shared object comes after    *)
(* those that only read this version.                                      *)
(*                                                                         *)
(* A digest is a number; the byte order of digests is <.  Dependencies may *)
(* lie outside the set that is sorted (earlier checkpoints and epochs).    *)
(*                                                                         *)
(* Definitions named Faulty... are variants of the definition that follows *)
(* them, each with one plausible mistake; no specification uses them.      *)
(***************************************************************************)
EXTENDS Integers, Sequences

CONSTANTS
    Version,  \* ObjectKeys: versions of shared objects
    Inputs    \* the lists of effects that are sorted

\* A list of effects: the digests in it; of each transaction the dependencies, the
\* versions of shared objects it reads only and those it replaces; and its place in
\* an order in which the transactions were executed.
IsEffects(e) ==
    /\ e.tx \subseteq Nat
    /\ e.dependencies \in [e.tx -> SUBSET Nat]
    /\ e.reads \in [e.tx -> SUBSET Version]
    /\ e.overwrites \in [e.tx -> SUBSET Version]
    /\ e.position \in [e.tx -> Nat]

VARIABLES
    effects,   \* the argument of causal_sort
    not_seen,  \* digests of CausalOrder::not_seen
    output,    \* digests of CausalOrder::output
    states     \* the stack of InsertStates in CausalOrder::insert

vars == <<effects, not_seen, output, states>>

FaultyDependencies(e, t) == e.dependencies[t]

\* TransactionDependencies::from_effects with add_dependencies_for.
Dependencies(e, t) ==
    e.dependencies[t] \cup {r \in e.tx : e.reads[r] \cap e.overwrites[t] # {}}

\* A transaction is executed after those it depends on, and consensus gives a version
\* of a shared object to its readers before a later transaction replaces it.
Executable(e) ==
    \A t \in e.tx : \A d \in Dependencies(e, t) \cap e.tx : e.position[d] < e.position[t]

ASSUME InputsAssumption == \A e \in Inputs : IsEffects(e) /\ Executable(e)

\* InsertState::new.
NewState(t) == [transaction |-> t, dependencies |-> Dependencies(effects, t)]

\* from_vec.
Init ==
    /\ effects \in Inputs
    /\ not_seen = effects.tx
    /\ output = <<>>
    /\ states = <<>>

\* The loop of causal_sort: the smallest digest left is taken out and inserted.
PopFirst ==
    /\ states = <<>>
    /\ \E t \in not_seen :
         /\ \A u \in not_seen : t <= u
         /\ not_seen' = not_seen \ {t}
         /\ states' = <<NewState(t)>>
    /\ UNCHANGED <<effects, output>>

Top == states[Len(states)]

\* The dependencies of the top of the stack that are still to be visited.
Unseen == Top.dependencies \cap not_seen

FaultyDescend ==
    /\ states # <<>>
    /\ \E d \in Unseen :
         /\ \A x \in Unseen : d <= x
         /\ not_seen' = not_seen \ {d}
         /\ states' = Append([states EXCEPT ![Len(states)].dependencies =
                                {x \in @ : x > d}],
                             NewState(d))
    /\ UNCHANGED <<effects, output>>

\* InsertState::process finds a dependency, largest first, that was not seen, and
\* insert pushes a state for it.
Descend ==
    /\ states # <<>>
    /\ \E d \in Unseen :
         /\ \A x \in Unseen : x <= d
         /\ not_seen' = not_seen \ {d}
         /\ states' = Append([states EXCEPT ![Len(states)].dependencies =
                                {x \in @ : x < d}],
                             NewState(d))
    /\ UNCHANGED <<effects, output>>

FaultyFinish ==
    /\ states # <<>>
    /\ Unseen = {}
    /\ output' = Append(output, states[1].transaction)
    /\ states' = SubSeq(states, 1, Len(states) - 1)
    /\ UNCHANGED <<effects, not_seen>>

FaultyFinishLate ==
    /\ states # <<>>
    /\ Top.dependencies = {}
    /\ output' = Append(output, Top.transaction)
    /\ states' = SubSeq(states, 1, Len(states) - 1)
    /\ UNCHANGED <<effects, not_seen>>

\* process has no dependency left: the transaction is output, and insert pops the
\* state.
Finish ==
    /\ states # <<>>
    /\ Unseen = {}
    /\ output' = Append(output, Top.transaction)
    /\ states' = SubSeq(states, 1, Len(states) - 1)
    /\ UNCHANGED <<effects, not_seen>>

Next == PopFirst \/ Descend \/ Finish

Spec == Init /\ [][Next]_vars

\* The search runs until it returns.
FairSpec == Spec /\ WF_vars(Next)

-----------------------------------------------------------------------------
(* Properties *)

\* Types.
TypeOK ==
    /\ effects \in Inputs
    /\ not_seen \subseteq effects.tx
    /\ output \in Seq(effects.tx)
    /\ states \in Seq([transaction : effects.tx, dependencies : SUBSET Nat])

Before(d, i) == \E j \in 1 .. i - 1 : output[j] = d

\* "Returned list has effects that [are] (a) Causally sorted": a transaction comes
\* after its dependencies, and "write transaction for next version" after the
\* "transactions that read previous versions" (RWLockDependencyBuilder).
CausallySorted ==
    \A i \in 1 .. Len(output) : \A d \in effects.tx :
        \/ d \in effects.dependencies[output[i]]
        \/ effects.reads[d] \cap effects.overwrites[output[i]] # {}
        => Before(d, i)

\* causal_sort drops nothing and repeats nothing: a transaction is still unseen, on
\* the stack or in the output, in one of them and once.
Partition ==
    /\ \A t \in effects.tx :
         \/ t \in not_seen
         \/ \E i \in 1 .. Len(states) : states[i].transaction = t
         \/ \E i \in 1 .. Len(output) : output[i] = t
    /\ \A i \in 1 .. Len(output) :
         /\ output[i] \notin not_seen
         /\ \A j \in 1 .. Len(states) : states[j].transaction # output[i]
         /\ \A j \in 1 .. Len(output) : output[j] = output[i] => i = j
    /\ \A i, j \in 1 .. Len(states) :
         /\ states[i].transaction \notin not_seen
         /\ states[j].transaction = states[i].transaction => i = j

\* causal_sort returns, with all of the effects.
Returns == <>(Len(output) > 0 /\ not_seen = {} /\ states = <<>>)

=============================================================================
