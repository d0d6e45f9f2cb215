--------------------------- MODULE MCCausalOrder ---------------------------
(***************************************************************************)
(* All lists of effects of N executed transactions in which one version of *)
(* a shared object is read by some and replaced by one.                    *)
(***************************************************************************)
EXTENDS CausalOrder, CausalSort

CONSTANTS N, x1

Executed == 1 .. N

\* What the i-th executed transaction may depend on.
Earlier == {D \in [Executed -> SUBSET Executed] : \A i \in Executed : \A j \in D[i] : j < i}

\* The readers of the version, and the transaction that replaces it afterwards.
ReadWrite == {rw \in (SUBSET Executed) \X Executed : \A r \in rw[1] : r < rw[2]}

\* digest[i] is the digest of the i-th executed transaction.
List(S, digest, D, rw) ==
    LET tx == {digest[i] : i \in S}
        At(t) == CHOOSE i \in Executed : digest[i] = t
    IN  [tx |-> tx,
         dependencies |-> [t \in tx |-> {digest[j] : j \in D[At(t)]}],
         reads |-> [t \in tx |-> IF At(t) \in rw[1] THEN {x1} ELSE {}],
         overwrites |-> [t \in tx |-> IF At(t) = rw[2] THEN {x1} ELSE {}],
         position |-> [t \in tx |-> At(t)]]

\* All of them are sorted, or all but the first executed.
MCInputs ==
    {List(S, digest, D, rw) : S \in {Executed, Executed \ {1}}, digest \in Permutations(Executed),
                              D \in Earlier, rw \in ReadWrite}

\* The order is a function of the effects, which every validator can recompute: the
\* explicit stack of CausalOrder::insert gives the order of the recursive depth-first
\* search, with the smallest digest first and the largest dependency first.
SearchOrder ==
    not_seen = {} /\ states = <<>> =>
        output = Sort([t \in effects.tx |-> Dependencies(effects, t) \cap effects.tx])

=============================================================================
