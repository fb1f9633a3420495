---------------------------- MODULE MCCoroutine ----------------------------
(***************************************************************************)
(* Coroutine for TLC when callers break all the rules: a coroutine that is *)
(* resumed around the finish list leaves its entry there, so that the list *)
(* grows without end.  ListBound bounds the states explored.  What callers *)
(* do to stacks is explored apart from what they do to batches: the number *)
(* of states is then the sum of both, not the product.                     *)
(***************************************************************************)
EXTENDS Coroutine

CONSTANT ListBound      \* entries of batchFinishList up to which TLC explores

ShortList == Len(batchFinishList) <= ListBound

StacksOrBatches ==
    \/ stackCheck /\ status # "cleaned" /\ \A c \in Cids : stack[c] # "overrun"
    \/ \A b \in BatchIds : batchState[b] = "Idle"
=============================================================================
