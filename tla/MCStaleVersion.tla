--------------------------- MODULE MCStaleVersion ---------------------------
(***************************************************************************)
(* A workload for TransactionManager in which three certificates write the *)
(* same shared object one after the other, while another one changes a     *)
(* coin and so competes for the only entry of the cache.                   *)
(***************************************************************************)
EXTENDS TransactionManager, TLC

CONSTANTS write1, write2, write3, pay, coin, obj, coin1, coin2, obj1, obj2, obj3

MCTx == {write1, write2, write3, pay}
MCKey == {coin1, coin2, obj1, obj2, obj3}
MCObjectID == {coin, obj}
MCIdOf == coin1 :> coin @@ coin2 :> coin @@ obj1 :> obj @@ obj2 :> obj @@ obj3 :> obj
MCVerOf == coin1 :> 1 @@ coin2 :> 2 @@ obj1 :> 1 @@ obj2 :> 2 @@ obj3 :> 3
MCRoKeys == [t \in MCTx |-> {}]
MCDefKeys == write1 :> {obj1} @@ write2 :> {obj2} @@ write3 :> {obj3} @@ pay :> {coin1}
MCOutputs == write1 :> {obj2} @@ write2 :> {obj3} @@ write3 :> {} @@ pay :> {coin2}
MCGenesis == {coin1, obj1}
MCPosition == pay :> 1 @@ write1 :> 2 @@ write2 :> 3 @@ write3 :> 4
MCShared == {write1, write2, write3}
OneEpoch == [t \in MCTx |-> 0]
=============================================================================
