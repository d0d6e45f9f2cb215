-------------------------- MODULE MCCheckpointSync --------------------------
(* Checkpoints 1 and 2 end epoch 0; 3 is the first checkpoint of epoch 1. *)
EXTENDS CheckpointSync

MCEpochOf == [n \in 0 .. MaxSeq |-> IF n <= 2 THEN 0 ELSE 1]
=============================================================================
