------------------------ MODULE MCTransactionManager ------------------------
(***************************************************************************)
(* A workload for TransactionManager.  `publish' changes a coin, writes a  *)
(* package and creates a shared object; `reader' calls the package and     *)
(* reads the object; `writer' replaces the version that was read.  The     *)
(* outputs of `publish' alone overflow a cache of size 1.                  *)
(***************************************************************************)
EXTENDS TransactionManager, TLC

CONSTANTS publish, reader, writer, coin, pkg, obj, coin1, coin2, pkg0, obj1, obj2

MCTx == {publish, reader, writer}
MCKey == {coin1, coin2, pkg0, obj1, obj2}
MCObjectID == {coin, pkg, obj}
MCIdOf == coin1 :> coin @@ coin2 :> coin @@ pkg0 :> pkg @@ obj1 :> obj @@ obj2 :> obj
MCVerOf == coin1 :> 1 @@ coin2 :> 2 @@ pkg0 :> 0 @@ obj1 :> 1 @@ obj2 :> 2
MCRoKeys == publish :> {} @@ reader :> {obj1} @@ writer :> {}
MCDefKeys == publish :> {coin1} @@ reader :> {pkg0} @@ writer :> {obj1}
MCOutputs == publish :> {coin2, pkg0, obj1} @@ reader :> {} @@ writer :> {obj2}
MCGenesis == {coin1}
MCPosition == publish :> 1 @@ reader :> 2 @@ writer :> 3
MCShared == {reader, writer}
OneEpoch == [t \in MCTx |-> 0]
TwoEpochs == [t \in MCTx |-> IF t = writer THEN 1 ELSE 0]
=============================================================================
