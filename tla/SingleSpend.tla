---------------------------- MODULE SingleSpend ----------------------------
(***************************************************************************)
(* What owned-object transactions promise their clients, without           *)
(* validators, locks or signatures: in every epoch one ledger of final     *)
(* transactions, in which no object version is spent twice, from which     *)
(* nothing is ever taken away, and which is fixed when the epoch ends.     *)
(* ObjectLocks implements this specification.                              *)
(***************************************************************************)
EXTENDS Naturals

CONSTANTS
    Tx,
    Inputs,    \* the object versions a transaction spends
    Epoch

VARIABLES
    ledger,    \* the final transactions of each epoch
    sealed     \* epochs that have ended

vars == <<ledger, sealed>>

Conflict(t, u) == t # u /\ Inputs[t] \cap Inputs[u] # {}

NoConflict(S) == \A t, u \in S : ~Conflict(t, u)

Init ==
    /\ ledger = [e \in Epoch |-> {}]
    /\ sealed = {}

\* In one epoch transactions become final, and the epoch may end.
Extend(e) ==
    /\ sealed' \in {sealed, sealed \cup {e}}
    /\ ledger[e] \subseteq ledger'[e]
    /\ NoConflict(ledger'[e])
    /\ \A d \in Epoch \ {e} : ledger'[d] = ledger[d]

Next == \E e \in Epoch \ sealed : Extend(e)

Spec == Init /\ [][Next]_vars

=============================================================================
