------------------------- MODULE CoroutineForkJoin -------------------------
(***************************************************************************)
(* The scheduler implements ForkJoin as long as callers keep the rules of  *)
(* Coroutine and give every coroutine the same priority.                   *)
(***************************************************************************)
EXTENDS Coroutine

liveTasks == {c \in Cids : state[c] # "Idle"}

\* The coroutines added to the batch that p has opened.
childrenOf ==
    [p \in Cids |->
        {c \in liveTasks : /\ isInsertBatch[p] /\ ~isInsertBatch[c]
                           /\ relateBatchId[c] = relateBatchId[p]}]

waitingTasks == {c \in Cids : barrier[c] # INVALID}

Abstract == INSTANCE ForkJoin WITH
    Tasks <- Cids,
    live <- liveTasks,
    children <- childrenOf,
    waiting <- waitingTasks

\* Every step of the scheduler is a step of ForkJoin or changes nothing that
\* ForkJoin speaks of: pools, resume functions and the finish list together
\* keep the promise of the batch functions.
ImplementsForkJoin == Abstract!Spec
=============================================================================
