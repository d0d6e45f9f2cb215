----------------------------- MODULE CausalSort -----------------------------
(***************************************************************************)
(* The order that CausalOrder::causal_sort                                 *)
(* (sui-core/src/checkpoints/causal_order.rs) returns, as a function of the *)
(* effects: depth first, from the smallest digest, dependencies first and  *)
(* the largest of them first.  CausalOrder.tla models the search that      *)
(* computes it.  And how CheckpointBuilder (checkpoints/mod.rs) splits the *)
(* sorted transactions into checkpoints.                                   *)
(***************************************************************************)
EXTENDS Integers, SequencesExt

RECURSIVE Insert(_, _, _)

\* CausalOrder::insert, for a transaction t that is not in the output.
Insert(output, t, Dep) ==
    LET Visit(out, d) == IF d \in ToSet(out) THEN out ELSE Insert(out, d, Dep)
    IN  Append(FoldLeft(Visit, output, SetToSortSeq(Dep[t], >)), t)

\* causal_sort of the transactions DOMAIN Dep, each with its dependencies among them.
Sort(Dep) ==
    LET Visit(out, t) == IF t \in ToSet(out) THEN out ELSE Insert(out, t, Dep)
    IN  FoldLeft(Visit, <<>>, SetToSortSeq(DOMAIN Dep, <))

\* split_checkpoint_chunks: a chunk takes transactions up to max_transactions_per_checkpoint
\* and max_checkpoint_size_bytes, and one in any case; an empty list gives one empty chunk.
Split(list, Size, MaxTx, MaxSize) ==
    LET SizeOf(chunk) == FoldLeft(LAMBDA n, t : n + Size[t], 0, chunk)
        RollOver(chunks, t) ==
            LET chunk == Last(chunks)
            IN  IF chunk # <<>> /\ (Len(chunk) = MaxTx \/ SizeOf(chunk) + Size[t] > MaxSize)
                THEN Append(chunks, <<t>>)
                ELSE [chunks EXCEPT ![Len(chunks)] = Append(@, t)]
    IN  FoldLeft(RollOver, <<(<<>>)>>, list)
=============================================================================
