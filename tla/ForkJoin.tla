------------------------------ MODULE ForkJoin ------------------------------
(***************************************************************************)
(* What the batch functions of the coroutine scheduler promise: a task     *)
(* forks children and waits for them, a task that waits goes on only when  *)
(* its children have all returned, and a task with children does not       *)
(* return before them.  Nothing is said of pools, of who resumes whom, or  *)
(* of the list of finished batches.                                        *)
(***************************************************************************)
CONSTANT Tasks

VARIABLES
    live,       \* the tasks that have been started and have not returned
    children,   \* of each task, the forked tasks that have not returned
    waiting     \* the tasks that wait for their children

vars == <<live, children, waiting>>

Init ==
    /\ live = {}
    /\ children = [t \in Tasks |-> {}]
    /\ waiting = {}

Start(t) ==
    /\ t \notin live
    /\ live' = live \cup {t}
    /\ UNCHANGED <<children, waiting>>

Fork(p, t) ==
    /\ p \in live \ waiting
    /\ t \notin live
    /\ live' = live \cup {t}
    /\ children' = [children EXCEPT ![p] = @ \cup {t}]
    /\ UNCHANGED waiting

Wait(t) ==
    /\ t \in live \ waiting
    /\ waiting' = waiting \cup {t}
    /\ UNCHANGED <<live, children>>

Join(t) ==
    /\ t \in waiting
    /\ children[t] = {}
    /\ waiting' = waiting \ {t}
    /\ UNCHANGED <<live, children>>

Return(t) ==
    /\ t \in live \ waiting
    /\ children[t] = {}
    /\ live' = live \ {t}
    /\ children' = [p \in Tasks |-> children[p] \ {t}]
    /\ UNCHANGED waiting

Next ==
    \/ \E t \in Tasks : Start(t) \/ Wait(t) \/ Join(t) \/ Return(t)
    \/ \E p, t \in Tasks : Fork(p, t)

Spec == Init /\ [][Next]_vars
=============================================================================
