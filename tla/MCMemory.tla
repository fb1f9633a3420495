------------------------------ MODULE MCMemory ------------------------------
(***************************************************************************)
(* CoroutineMemory for TLC, without batches: a member of a batch counts    *)
(* for activityCnt as any other coroutine does.                            *)
(***************************************************************************)
EXTENDS CoroutineMemory

NoBatch == \A b \in BatchIds : batchState[b] = "Idle"
=============================================================================
