------------------------ MODULE MCCheckpointBuilder ------------------------
(***************************************************************************)
(* Two validators; two commits up to the close and one after it.  3 has    *)
(* owned objects only; 2 reads a version of a shared object that 4         *)
(* replaces, and 4 depends on 3; 5, 6 and 7 are the prologues.             *)
(***************************************************************************)
EXTENDS CheckpointBuilder, CausalSort

CONSTANTS Size, MaxTx, MaxSize, v1, v2

MCDeps == 2 :> {0} @@ 3 :> {0} @@ 4 :> {3} @@ 5 :> {0} @@ 6 :> {5} @@ 7 :> {6}
MCReaders == [t \in Tx |-> IF t = 4 THEN {2} ELSE {}]
MCSize == [t \in Tx |-> IF t = 3 THEN 3 ELSE 1]
MCPrologue == <<5, 6, 7>>

\* With <<>> @@ TLC tabulates the function, and it does so once.
Table ==
    <<>> @@ [S \in SUBSET Tx |->
                Split(Sort([t \in S |-> (Deps[t] \cup Readers[t]) \cap S]), Size, MaxTx, MaxSize)]

MCChunks == Table

\* The dependency 3 of 4 is ordered after it, before it and with it, or after the close
\* only.
MCLogs == {<<{2, 4}, {3}>>, <<{2, 3}, {3, 4}>>, <<{2}, {}>>}
MCLater == {<<{3}>>}

MCMaxCrashes == (v1 :> 1) @@ (v2 :> 0)
=============================================================================
