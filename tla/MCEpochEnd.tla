----------------------------- MODULE MCEpochEnd -----------------------------
(***************************************************************************)
(* Instances of EpochEnd for TLC.                                          *)
(***************************************************************************)
EXTENDS EpochEnd

CONSTANTS v1, v2, c1, c2

\* Equal stakes: a quorum is a majority.
Majorities == {Q \in SUBSET Validator : Cardinality(Q) * 2 > Cardinality(Validator)}

\* v1 has most of the stake: v2 can be left behind by the quorum.
Heavy == {Q \in SUBSET Validator : v1 \in Q}

Once(S) == [v \in Validator |-> [c \in Cert |-> IF <<v, c>> \in S THEN 1 ELSE 0]]

\* The same certificate reaches two validators.
SameCert == Once({<<v1, c1>>, <<v2, c1>>})

\* Each of two validators gets a certificate of its own.
OwnCert == Once({<<v1, c1>>, <<v2, c2>>})

=============================================================================
