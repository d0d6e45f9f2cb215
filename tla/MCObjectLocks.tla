--------------------------- MODULE MCObjectLocks ---------------------------
(***************************************************************************)
(* An instance of ObjectLocks for TLC: transactions a and c spend the same *)
(* object version.                                                         *)
(***************************************************************************)
EXTENDS ObjectLocks, TLC

CONSTANTS v1, v2, v3, a, c

Refs == {"gas", "a1", "c1"}

Spends == [t \in Tx |-> {"gas"}]

Writes == [t \in Tx |-> IF t = a THEN {"a1"} ELSE {"c1"}]

\* Four validators of equal stake, one of them not honest: two honest ones are
\* enough for a quorum.
HonestQuorums == {Q \in SUBSET Validator : Cardinality(Q) * 2 > Cardinality(Validator)}

\* Two transactions that spend the same object; one is sent again in epoch 1.
Clients ==
    ({0} \X {v1, v2} \X {a}) \cup ({0} \X {v1, v3} \X {c}) \cup ({1} \X {v2} \X {c})

\* Two calls at a time at v1, which both conflicting transactions are sent to.
CallBounds == [v \in Validator |-> IF v = v1 THEN 2 ELSE 1]
=============================================================================
