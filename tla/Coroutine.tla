----------------------------- MODULE Coroutine -----------------------------
(***************************************************************************)
(* The coroutine scheduler of src/corotine/coroutine.{h,cpp}.              *)
(*                                                                         *)
(* One operating-system thread runs everything.  The master coroutine (the *)
(* caller's main loop) resumes slave coroutines; a slave gives control     *)
(* back by CoroutineYield, by BatchRun (which yields inside) or when its   *)
(* entry function returns.  A slave can open a batch, add coroutines to it *)
(* and wait in BatchRun until the scheduler resumes it.                    *)
(*                                                                         *)
(* What a caller of the library does is not fixed by the library, so the   *)
(* actions let main and every running coroutine make any call at any time, *)
(* except for the habits that Usage has to name: with Usage = {} callers   *)
(* keep the discipline each guard below spells out, and every member of    *)
(* Usage lets them leave one of these rules.                               *)
(*                                                                         *)
(* An assertion that fails stops the process: the action sets status and   *)
(* leaves everything else as it is.                                        *)
(***************************************************************************)
EXTENDS Integers, Sequences, FiniteSets

CONSTANTS
    coroutineCnt,       \* slots of the coroutine pool, given to ScheduleInit
    MAX_BATCH_RUN_SIZE, \* slots of the batch pool
    MAX_RELEASE,        \* stacks one call of ScheduleTryReleaseMemory may free
    Priorities,         \* priorities callers use, the smaller the earlier
    Keys,               \* keys of coroutine-local variables
    PctValues,          \* P99 values Percentile may answer; {} while it has
                        \* too few samples to answer at all
    Usage               \* rules of use that callers do not keep

Habits == {"nestedBatch", "yieldInBatch", "abandonBatch", "resumeListed",
           "restartBatch", "reResumeBatch", "unguardedAdd", "overrun",
           "disableCheck", "clean"}

ASSUME CoroutineAssumption ==
    /\ coroutineCnt \in Nat \ {0}
    /\ MAX_BATCH_RUN_SIZE \in Nat \ {0}
    /\ MAX_RELEASE \in Nat \ {0}
    /\ Priorities \subseteq Nat
    /\ PctValues \subseteq Nat
    /\ Usage \subseteq Habits

Cids     == 0 .. coroutineCnt - 1
BatchIds == 0 .. MAX_BATCH_RUN_SIZE - 1
INVALID  == -1          \* INVALID_ROUTINE_ID and INVALID_BATCH_ID

States   == {"Idle", "Ready", "Run", "Suspend"}
Faults   == {"batchNotRun",   \* isBatchDone: the batch is not in state Run
             "noCoroutine",   \* BatchAdd: CoroutineCreate found no slot
             "resumeFailed",  \* an asserted CoroutineResumeById did not succeed
             "memberDone",    \* CoroutineResumeInBatch met a finished member
             "stackOverrun"}  \* CoroutineRun: the canary is damaged

VARIABLES
    \* Coroutine, one of each per slot
    state, priority, relateBatchId, isInsertBatch,
    stack,              \* "none", "intact" or "overrun" (a canary was hit)
    local,              \* "none", "own", or "stale": set by an earlier
                        \* coroutine that had this slot
    barrier,            \* the batch of the BatchRun call that the saved
                        \* context is inside of, or INVALID
    \* Batch, one of each per batch slot; cid2finish is split in two sets
    batchState, relateId, unfinished, finished,
    \* Schedule
    runningCorouineId, isMasterCoroutine, activityCnt, batchFinishList,
    stackCheck,
    \* master's position inside CoroutineResumeInBatch (the batch and the
    \* members still to visit) and CoroutineResumeBatchFinish
    resumeBatch, todo, draining,
    status              \* "up", "cleaned" (ScheduleClean) or the fault

linkVars   == <<relateBatchId, isInsertBatch, barrier>>
batchVars  == <<batchState, relateId, unfinished, finished>>
memVars    == <<stack, local, stackCheck>>
loopVars   == <<resumeBatch, todo, draining>>
switchVars == <<runningCorouineId, isMasterCoroutine>>
vars == <<state, priority, linkVars, batchVars, memVars, loopVars, switchVars,
          activityCnt, batchFinishList, status>>

\* The values the pools and the schedule take, whoever calls what: ids that are
\* slots or INVALID, and a finish list of slots only.
TypeOK ==
    /\ state \in [Cids -> States]
    /\ priority \in [Cids -> Priorities \cup {0}]
    /\ relateBatchId \in [Cids -> BatchIds \cup {INVALID}]
    /\ isInsertBatch \in [Cids -> BOOLEAN]
    /\ stack \in [Cids -> {"none", "intact", "overrun"}]
    /\ local \in [Cids -> [Keys -> {"none", "own", "stale"}]]
    /\ barrier \in [Cids -> BatchIds \cup {INVALID}]
    /\ batchState \in [BatchIds -> {"Idle", "Ready", "Run"}]
    /\ relateId \in [BatchIds -> Cids \cup {INVALID}]
    /\ unfinished \in [BatchIds -> SUBSET Cids]
    /\ finished \in [BatchIds -> SUBSET Cids]
    /\ runningCorouineId \in Cids \cup {INVALID}
    /\ isMasterCoroutine \in BOOLEAN
    /\ activityCnt \in Int
    /\ batchFinishList \in Seq(Cids)
    /\ stackCheck \in BOOLEAN
    /\ resumeBatch \in BatchIds \cup {INVALID}
    /\ todo \in SUBSET Cids
    /\ draining \in BOOLEAN
    /\ status \in {"up", "cleaned"} \cup Faults

-----------------------------------------------------------------------------
(* Who may act, and what is asked of the pools.                            *)

MasterFree == status = "up" /\ isMasterCoroutine /\ todo = {} /\ ~draining

Running(c) == status = "up" /\ ~isMasterCoroutine /\ runningCorouineId = c

Lowest(x, S) == x \in S /\ \A y \in S : x <= y

ReadySlotsToo == {c \in Cids : state[c] \in {"Idle", "Ready"}}     \* mutant

IdleSlots == {c \in Cids : state[c] = "Idle"}

CoroutineCanCreate == IdleSlots # {}

Runnable == {c \in Cids : state[c] \in {"Ready", "Suspend"}}

Listed == {batchFinishList[i] : i \in 1 .. Len(batchFinishList)}

isBatchDone(b) == unfinished[b] = {}

\* The test of CoroutineResumeById that asks isBatchDone is an assertion
\* failure when the batch is not in state Run.
BatchNotRun(c) == isInsertBatch[c] /\ batchState[relateBatchId[c]] # "Run"

ResumableEarly(c) == c \in Runnable      \* mutant: the batch is not asked

Resumable(c) ==
    /\ c \in Runnable
    /\ isInsertBatch[c] => isBatchDone(relateBatchId[c])

Abort(fault) ==
    /\ status' = fault
    /\ UNCHANGED <<state, priority, linkVars, batchVars, memVars, loopVars,
                   switchVars, activityCnt, batchFinishList>>

\* What CoroutineLocalGet finds for coroutine c: its own variable, else that
\* of the coroutine that opened the batch c is related to.
CoroutineLocalGet(c, k) ==
    IF local[c][k] # "none" \/ relateBatchId[c] = INVALID
    THEN local[c][k]
    ELSE local[relateId[relateBatchId[c]]][k]

ScheduleRunning ==
    runningCorouineId # INVALID \/ \E c \in Cids : state[c] # "Idle"

-----------------------------------------------------------------------------
Init ==
    /\ state = [c \in Cids |-> "Idle"]
    /\ priority = [c \in Cids |-> 0]
    /\ relateBatchId = [c \in Cids |-> INVALID]
    /\ isInsertBatch = [c \in Cids |-> FALSE]
    /\ stack = [c \in Cids |-> "none"]
    /\ local = [c \in Cids |-> [k \in Keys |-> "none"]]
    /\ barrier = [c \in Cids |-> INVALID]
    /\ batchState = [b \in BatchIds |-> "Idle"]
    /\ relateId = [b \in BatchIds |-> INVALID]
    /\ unfinished = [b \in BatchIds |-> {}]
    /\ finished = [b \in BatchIds |-> {}]
    /\ runningCorouineId = INVALID
    /\ isMasterCoroutine = TRUE
    /\ activityCnt = 0
    /\ batchFinishList = <<>>
    /\ stackCheck = TRUE
    /\ resumeBatch = INVALID
    /\ todo = {}
    /\ draining = FALSE
    /\ status = "up"

-----------------------------------------------------------------------------
(* Creation.                                                               *)

\* CoroutineInit reuses the slot's stack and leaves its local variables: what
\* was the predecessor's own is from now on stale.
CoroutineInit(c, p, b) ==
    /\ state' = [state EXCEPT ![c] = "Ready"]
    /\ priority' = [priority EXCEPT ![c] = p]
    /\ relateBatchId' = [relateBatchId EXCEPT ![c] = b]
    /\ isInsertBatch' = [isInsertBatch EXCEPT ![c] = FALSE]
    /\ stack' = [stack EXCEPT ![c] = IF @ = "none" THEN "intact" ELSE @]
    /\ local' = [local EXCEPT ![c] =
                    [k \in Keys |-> IF @[k] = "none" THEN "none" ELSE "stale"]]
    /\ barrier' = [barrier EXCEPT ![c] = INVALID]

\* A call that finds the pool full answers INVALID_ROUTINE_ID and changes
\* nothing.  Main calls it, and so may a running coroutine.
CoroutineCreate(c, p) ==
    /\ MasterFree \/ \E r \in Cids : Running(r)
    /\ Lowest(c, IdleSlots)
    /\ CoroutineInit(c, p, INVALID)
    /\ activityCnt' = activityCnt + 1
    /\ UNCHANGED <<batchVars, loopVars, switchVars, stackCheck,
                   batchFinishList, status>>

-----------------------------------------------------------------------------
(* Switching between the master and a slave.                               *)

\* The slave continues where it left off; inside BatchRun that is the code
\* after CoroutineYield, which closes the batch.
SwitchTo(c) ==
    LET b == barrier[c]
    IN  /\ state' = [state EXCEPT ![c] = "Run"]
        /\ runningCorouineId' = c
        /\ isMasterCoroutine' = FALSE
        /\ IF b = INVALID
           THEN UNCHANGED <<linkVars, batchState, unfinished, finished>>
           ELSE /\ batchState' = [batchState EXCEPT ![b] = "Idle"]
                /\ unfinished' = [unfinished EXCEPT ![b] = {}]
                /\ finished' = [finished EXCEPT ![b] = {}]
                /\ relateBatchId' = [relateBatchId EXCEPT ![c] = INVALID]
                /\ isInsertBatch' = [isInsertBatch EXCEPT ![c] = FALSE]
                /\ barrier' = [barrier EXCEPT ![c] = INVALID]
        /\ UNCHANGED <<priority, relateId, memVars, activityCnt, status>>

PickedAny(c) ==     \* mutant: a barrier does not matter at all
    /\ c \in Runnable
    /\ \A d \in Runnable :
           \/ priority[c] < priority[d]
           \/ priority[c] = priority[d] /\ c <= d

\* The slot CoroutineResume selects: the first runnable coroutine without a
\* barrier starts the search, and every later runnable coroutine of a smaller
\* priority takes over, barrier or not.
Picked(c) ==
    \E f \in Cids :
        /\ Lowest(f, {d \in Runnable : ~isInsertBatch[d]})
        /\ c \in Runnable /\ c >= f
        /\ \A d \in Runnable : d >= f =>
               \/ priority[c] < priority[d]
               \/ priority[c] = priority[d] /\ c <= d

CoroutineResume(c) ==
    /\ MasterFree
    /\ Picked(c)
    /\ SwitchTo(c)
    /\ UNCHANGED <<loopVars, batchFinishList>>

\* A call for a coroutine that cannot be resumed answers NotRunnable.
CoroutineResumeById(c) ==
    /\ MasterFree
    /\ c \in Runnable
    /\ "resumeListed" \in Usage \/ c \notin Listed
    /\ IF BatchNotRun(c)
       THEN Abort("batchNotRun")
       ELSE /\ Resumable(c)
            /\ SwitchTo(c)
            /\ UNCHANGED <<loopVars, batchFinishList>>

\* One turn of the loop of CoroutineResumeInBatch: any member that is still to
\* be visited, since the map is unordered.
VisitMember(b, members) ==
    \E m \in members :
        IF m \in finished[b] THEN Abort("memberDone")
        ELSE IF m \in Runnable /\ BatchNotRun(m) THEN Abort("batchNotRun")
        ELSE IF ~Resumable(m) THEN Abort("resumeFailed")
        ELSE /\ SwitchTo(m)
             /\ resumeBatch' = b
             /\ todo' = members \ {m}
             /\ UNCHANGED <<draining, batchFinishList>>

\* Asked for a slot that is taken: the fields of a slot never used are not
\* initialised.
CoroutineResumeInBatch(c) ==
    /\ MasterFree
    /\ state[c] # "Idle" /\ isInsertBatch[c]
    /\ "reResumeBatch" \in Usage \/ finished[relateBatchId[c]] = {}
    /\ VisitMember(relateBatchId[c],
                   unfinished[relateBatchId[c]] \cup finished[relateBatchId[c]])

ResumeRestOfBatch ==
    /\ status = "up" /\ isMasterCoroutine
    /\ todo # {}
    /\ VisitMember(resumeBatch, todo)

\* One turn of the loop of CoroutineResumeBatchFinish.
CoroutineResumeBatchFinish ==
    /\ status = "up" /\ isMasterCoroutine /\ todo = {}
    /\ batchFinishList # <<>>
    /\ LET c == Head(batchFinishList)
       IN  IF c \in Runnable /\ BatchNotRun(c) THEN Abort("batchNotRun")
           ELSE IF ~Resumable(c) THEN Abort("resumeFailed")
           ELSE /\ SwitchTo(c)
                /\ batchFinishList' = Tail(batchFinishList)
                /\ draining' = TRUE
                /\ UNCHANGED <<resumeBatch, todo>>

\* Control returns to the master, with list as the finish list: the loop of
\* CoroutineResumeBatchFinish goes on while it is not empty.
ToMaster(list) ==
    /\ isMasterCoroutine' = TRUE
    /\ batchFinishList' = list
    /\ draining' = (draining /\ list # <<>>)
    /\ UNCHANGED <<resumeBatch, todo>>

CoroutineYield(c) ==
    /\ Running(c)
    /\ "yieldInBatch" \in Usage \/ ~isInsertBatch[c]
    /\ state' = [state EXCEPT ![c] = "Suspend"]
    /\ ToMaster(batchFinishList)
    /\ UNCHANGED <<priority, linkVars, batchVars, memVars, runningCorouineId,
                   activityCnt, status>>

FinishListBefore(c, b) ==    \* mutant: asked before the member is marked
    IF b # INVALID /\ unfinished[b] = {}
    THEN Append(batchFinishList, relateId[b])
    ELSE batchFinishList

FinishListEach(c, b) ==      \* mutant: every member announces the batch
    IF b # INVALID THEN Append(batchFinishList, relateId[b]) ELSE batchFinishList

FinishListSelf(c, b) ==      \* mutant: lists runningCorouineId after its reset
    IF b # INVALID /\ unfinished[b] \subseteq {c}
    THEN Append(batchFinishList, INVALID)
    ELSE batchFinishList

\* The member that was the last one unfinished puts the coroutine that waits
\* for the batch on the list.
FinishListAfter(c, b) ==
    IF b # INVALID /\ unfinished[b] \subseteq {c}
    THEN Append(batchFinishList, relateId[b])
    ELSE batchFinishList

RetireRunning(c) ==          \* mutant: runningCorouineId is not reset
    /\ state' = [state EXCEPT ![c] = "Idle"]
    /\ relateBatchId' = [relateBatchId EXCEPT ![c] = INVALID]
    /\ activityCnt' = activityCnt - 1
    /\ UNCHANGED runningCorouineId

Retire(c) ==
    /\ state' = [state EXCEPT ![c] = "Idle"]
    /\ relateBatchId' = [relateBatchId EXCEPT ![c] = INVALID]
    /\ activityCnt' = activityCnt - 1
    /\ runningCorouineId' = INVALID

CanaryUnread(c) == stack[c] # "none"        \* mutant: only asks for a stack

CoroutineStackCheck(c) == stack[c] # "overrun"

\* The end of CoroutineRun: the entry function of c has returned.
CoroutineRun(c) ==
    LET b == relateBatchId[c]
    IN  /\ Running(c)
        /\ "abandonBatch" \in Usage \/ ~isInsertBatch[c]
        /\ IF b # INVALID /\ batchState[b] # "Run" THEN Abort("batchNotRun")
           ELSE IF stackCheck /\ ~CoroutineStackCheck(c) THEN Abort("stackOverrun")
           ELSE /\ Retire(c)
                /\ IF b = INVALID
                   THEN UNCHANGED <<unfinished, finished>>
                   ELSE /\ unfinished' = [unfinished EXCEPT ![b] = @ \ {c}]
                        /\ finished' = [finished EXCEPT ![b] = @ \cup {c}]
                /\ ToMaster(FinishListAfter(c, b))
                /\ UNCHANGED <<priority, isInsertBatch, barrier, batchState,
                               relateId, memVars, status>>

-----------------------------------------------------------------------------
(* Batches.                                                                *)

\* A call that finds no free batch answers INVALID_BATCH_ID.
BatchInit(c, b) ==
    /\ Running(c)
    /\ "nestedBatch" \in Usage \/ relateBatchId[c] = INVALID
    /\ Lowest(b, {x \in BatchIds : batchState[x] = "Idle"})
    /\ batchState' = [batchState EXCEPT ![b] = "Ready"]
    /\ relateId' = [relateId EXCEPT ![b] = c]
    /\ relateBatchId' = [relateBatchId EXCEPT ![c] = b]
    /\ isInsertBatch' = [isInsertBatch EXCEPT ![c] = TRUE]
    /\ UNCHANGED <<state, priority, barrier, unfinished, finished, memVars,
                   loopVars, switchVars, activityCnt, batchFinishList, status>>

BatchAdd(c, b, p) ==
    /\ Running(c)
    /\ batchState[b] = "Ready" /\ relateId[b] = c
    /\ "unguardedAdd" \in Usage \/ CoroutineCanCreate
    /\ IF ~CoroutineCanCreate
       THEN Abort("noCoroutine")
       ELSE \E m \in Cids :
               /\ Lowest(m, IdleSlots)
               /\ CoroutineInit(m, p, b)
               /\ activityCnt' = activityCnt + 1
               /\ unfinished' = [unfinished EXCEPT ![b] = @ \cup {m}]
               /\ finished' = [finished EXCEPT ![b] = @ \ {m}]
               /\ UNCHANGED <<batchState, relateId, loopVars, switchVars,
                              stackCheck, batchFinishList, status>>

\* BatchRun up to and including the switch inside its CoroutineYield; the rest
\* runs in SwitchTo.  Its assertions ask who opened the batch, not whether the
\* batch is still open.
BatchRun(c, b) ==
    /\ Running(c)
    /\ relateId[b] = c
    /\ "restartBatch" \in Usage \/ batchState[b] = "Ready"
    /\ batchState' = [batchState EXCEPT ![b] = "Run"]
    /\ state' = [state EXCEPT ![c] = "Suspend"]
    /\ barrier' = [barrier EXCEPT ![c] = b]
    /\ ToMaster(batchFinishList)
    /\ UNCHANGED <<priority, relateBatchId, isInsertBatch, relateId, unfinished,
                   finished, memVars, runningCorouineId, activityCnt, status>>

-----------------------------------------------------------------------------
(* Local variables, stacks and memory.                                     *)

CoroutineLocalSet(c, k) ==
    /\ Running(c)
    /\ local[c][k] # "own"      \* writing an own variable again looks the same
    /\ local' = [local EXCEPT ![c][k] = "own"]
    /\ UNCHANGED <<state, priority, linkVars, batchVars, stack, stackCheck,
                   loopVars, switchVars, activityCnt, batchFinishList, status>>

\* The running entry function writes past either end of its stack.
Overrun(c) ==
    /\ Running(c)
    /\ "overrun" \in Usage
    /\ stack' = [stack EXCEPT ![c] = "overrun"]
    /\ UNCHANGED <<state, priority, linkVars, batchVars, local, stackCheck,
                   loopVars, switchVars, activityCnt, batchFinishList, status>>

ScheduleDisableStackCheck ==
    /\ MasterFree
    /\ "disableCheck" \in Usage
    /\ stackCheck' = FALSE
    /\ UNCHANGED <<state, priority, linkVars, batchVars, stack, local, loopVars,
                   switchVars, activityCnt, batchFinishList, status>>

StacksNotRunning == {c \in Cids : state[c] # "Run" /\ stack[c] # "none"} \* mutant

IdleStacks == {c \in IdleSlots : stack[c] # "none"}

IdleStacksBelow(c) == Cardinality({d \in IdleStacks : d < c})

ReleasedOneMore(pct) ==     \* mutant: the last stack granted is not kept
    LET keep == IF pct > activityCnt THEN pct - activityCnt ELSE 0
    IN  {c \in IdleStacks : /\ IdleStacksBelow(c) >= keep - 1
                            /\ IdleStacksBelow(c) < keep + MAX_RELEASE}

\* The scan of ScheduleTryReleaseMemory: the first idle stacks fill what the
\* percentile still grants, and of the others the first MAX_RELEASE are freed.
Released(pct) ==
    LET keep == IF pct > activityCnt THEN pct - activityCnt ELSE 0
    IN  {c \in IdleStacks : /\ IdleStacksBelow(c) >= keep
                            /\ IdleStacksBelow(c) < keep + MAX_RELEASE}

ScheduleTryReleaseMemory(pct) ==
    /\ MasterFree
    /\ stack' = [c \in Cids |-> IF c \in Released(pct) THEN "none" ELSE stack[c]]
    /\ local' = [c \in Cids |-> IF c \in Released(pct)
                                THEN [k \in Keys |-> "none"] ELSE local[c]]
    /\ UNCHANGED <<state, priority, linkVars, batchVars, stackCheck, loopVars,
                   switchVars, activityCnt, batchFinishList, status>>

ScheduleClean ==
    /\ MasterFree
    /\ "clean" \in Usage
    /\ status' = "cleaned"
    /\ stack' = [c \in Cids |-> "none"]
    /\ local' = [c \in Cids |-> [k \in Keys |-> "none"]]
    /\ UNCHANGED <<state, priority, linkVars, batchVars, stackCheck, loopVars,
                   switchVars, activityCnt, batchFinishList>>

-----------------------------------------------------------------------------
\* What callers may do, but for ScheduleTryReleaseMemory.
Calls ==
    \/ \E c \in Cids, p \in Priorities : CoroutineCreate(c, p)
    \/ \E c \in Cids : CoroutineResume(c)
    \/ \E c \in Cids : CoroutineResumeById(c)
    \/ \E c \in Cids : CoroutineResumeInBatch(c)
    \/ ResumeRestOfBatch
    \/ CoroutineResumeBatchFinish
    \/ \E c \in Cids : CoroutineYield(c)
    \/ \E c \in Cids : CoroutineRun(c)
    \/ \E c \in Cids, b \in BatchIds : BatchInit(c, b)
    \/ \E c \in Cids, b \in BatchIds, p \in Priorities : BatchAdd(c, b, p)
    \/ \E c \in Cids, b \in BatchIds : BatchRun(c, b)
    \/ \E c \in Cids, k \in Keys : CoroutineLocalSet(c, k)
    \/ \E c \in Cids : Overrun(c)
    \/ ScheduleDisableStackCheck
    \/ ScheduleClean

Next == Calls \/ \E pct \in PctValues : ScheduleTryReleaseMemory(pct)

Spec == Init /\ [][Next]_vars

-----------------------------------------------------------------------------
(* Properties of every use of the scheduler.                               *)

\* activityCnt, which ScheduleTryReleaseMemory subtracts from the percentile,
\* is the number of coroutines that are not Idle.
ActivityCountOK ==
    activityCnt = Cardinality({c \in Cids : state[c] # "Idle"})

\* runningCorouineId is left as it is when a coroutine yields and is read by
\* ScheduleRunning: it never names a slot that has gone idle, so
\* ScheduleRunning is true exactly while some coroutine is not Idle.
RunningIdLive ==
    status = "up" => (ScheduleRunning <=> \E c \in Cids : state[c] # "Idle")

\* A coroutine that is Ready, Suspend or Run has the stack its context points
\* into: releasing memory never takes it away.
LiveStacks ==
    status = "up" => \A c \in Cids : state[c] # "Idle" => stack[c] # "none"

Stacked == {c \in Cids : stack[c] # "none"}

\* While the stack check is on, no slot waits for its next coroutine with a
\* stack whose canary an earlier coroutine damaged.
NoOverrunStackPooled ==
    stackCheck => \A c \in IdleSlots : stack[c] # "overrun"

-----------------------------------------------------------------------------
(* Properties of batches.                                                  *)

\* The coroutines that belong to the batch that p waits for and still live.
LiveMembers(p) ==
    {m \in Cids : /\ state[m] # "Idle" /\ ~isInsertBatch[m]
                  /\ relateBatchId[m] = barrier[p]}

\* A coroutine passes the barrier of BatchRun only when every coroutine it
\* added to the batch has returned.
BarrierHolds ==
    [][\A p \in Cids :
          (barrier[p] # INVALID /\ barrier'[p] = INVALID) => LiveMembers(p) = {}]_vars

\* batchFinishList holds exactly the coroutines whose barrier the last member
\* of a batch has lifted, each of them once: no wake-up is lost or doubled.
FinishListExact ==
    /\ Listed = {p \in Cids : /\ barrier[p] # INVALID
                              /\ unfinished[barrier[p]] = {}
                              /\ finished[barrier[p]] # {}}
    /\ Cardinality(Listed) = Len(batchFinishList)

\* Callers that keep the rules never run into one of the assertions.
NoFault == status = "up"

\* A coroutine of a batch that has not set a variable itself reads the value
\* of the coroutine that opened the batch (the comment in CoroutineLocalGet).
BatchSharesLocals ==
    \A c \in Cids, k \in Keys :
        (/\ Running(c)
         /\ relateBatchId[c] # INVALID
         /\ local[c][k] # "own"
         /\ local[relateId[relateBatchId[c]]][k] = "own")
        => CoroutineLocalGet(c, k) = "own"
=============================================================================
