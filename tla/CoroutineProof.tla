-------------------------- MODULE CoroutineProof --------------------------
(***************************************************************************)
(* Theorems of Coroutine for every size of the pools and for callers that  *)
(* make any call at any time (any Usage), proved by TLAPS.                 *)
(***************************************************************************)
EXTENDS Coroutine, TLAPS, FiniteSetTheorems

Live == {c \in Cids : state[c] # "Idle"}

\* A slave that has control is the one runningCorouineId names and is in state
\* Run; a name left over from the last switch still belongs to a live slot.
RunningOK ==
    /\ (status = "up" /\ ~isMasterCoroutine) =>
          /\ runningCorouineId \in Cids
          /\ state[runningCorouineId] = "Run"
    /\ runningCorouineId # INVALID => state[runningCorouineId] # "Idle"

\* Whoever opened a batch is known as long as the batch is open, and a live
\* coroutine with a barrier names a batch.
BatchOwned ==
    /\ \A b \in BatchIds : batchState[b] # "Idle" => relateId[b] \in Cids
    /\ \A c \in Cids :
          state[c] # "Idle" /\ isInsertBatch[c] => relateBatchId[c] \in BatchIds

IInv == TypeOK /\ RunningOK /\ BatchOwned

-----------------------------------------------------------------------------
(* The shared parts of the actions.                                        *)

\* After ScheduleInit no slot is taken and no batch is open.
LEMMA InitInv == Init => IInv
<1> SUFFICES ASSUME Init PROVE IInv
  OBVIOUS
<1>1. /\ batchFinishList \in Seq(Cids)
      /\ local \in [Cids -> [Keys -> {"none", "own", "stale"}]]
  BY DEF Init
<1>2. TypeOK
  <2>1. /\ state \in [Cids -> States]
        /\ priority \in [Cids -> Priorities \cup {0}]
        /\ relateBatchId \in [Cids -> BatchIds \cup {INVALID}]
        /\ isInsertBatch \in [Cids -> BOOLEAN]
        /\ stack \in [Cids -> {"none", "intact", "overrun"}]
        /\ barrier \in [Cids -> BatchIds \cup {INVALID}]
    BY DEF Init, States
  <2>2. /\ batchState \in [BatchIds -> {"Idle", "Ready", "Run"}]
        /\ relateId \in [BatchIds -> Cids \cup {INVALID}]
        /\ unfinished \in [BatchIds -> SUBSET Cids]
        /\ finished \in [BatchIds -> SUBSET Cids]
    BY DEF Init
  <2>3. /\ activityCnt \in Int
        /\ runningCorouineId \in Cids \cup {INVALID}
        /\ resumeBatch \in BatchIds \cup {INVALID}
        /\ todo \in SUBSET Cids
        /\ status \in {"up", "cleaned"} \cup Faults
    BY DEF Init
  <2>4. /\ isMasterCoroutine \in BOOLEAN
        /\ stackCheck \in BOOLEAN
        /\ draining \in BOOLEAN
    BY Zenon DEF Init
  <2> QED BY <1>1, <2>1, <2>2, <2>3, <2>4 DEF TypeOK
<1>3. RunningOK /\ BatchOwned
  BY DEF Init, RunningOK, BatchOwned
<1> QED BY <1>2, <1>3 DEF IInv

\* A failed assertion leaves pools, batches and schedule as they are.
LEMMA AbortInv ==
    ASSUME IInv, NEW f \in Faults, Abort(f)
    PROVE  IInv'
<1> USE DEF IInv, Abort, linkVars, batchVars, memVars, loopVars, switchVars
<1>1. TypeOK'
  BY DEF TypeOK
<1>2. RunningOK'
  BY DEF RunningOK, Faults
<1>3. BatchOwned'
  BY DEF BatchOwned
<1> QED BY <1>1, <1>2, <1>3

\* Resuming a coroutine keeps the invariant, whatever the resume function does
\* with its loop and the list.
LEMMA SwitchInv ==
    ASSUME IInv, NEW c \in Cids, c \in Runnable, SwitchTo(c),
           batchFinishList' \in Seq(Cids),
           resumeBatch' \in BatchIds \cup {INVALID},
           todo' \in SUBSET Cids, draining' \in BOOLEAN
    PROVE  IInv'
<1> USE DEF IInv, SwitchTo, linkVars, memVars
<1>1. TypeOK'
  BY DEF TypeOK, States, INVALID
<1>2. RunningOK'
  BY DEF RunningOK, TypeOK, States
<1>3. BatchOwned'
  BY DEF BatchOwned, TypeOK, Runnable, INVALID
<1> QED BY <1>1, <1>2, <1>3

\* One turn of the loop of CoroutineResumeInBatch keeps the invariant.
LEMMA VisitInv ==
    ASSUME IInv, NEW b \in BatchIds \cup {INVALID}, NEW ms \in SUBSET Cids, VisitMember(b, ms)
    PROVE  IInv'
<1> PICK m \in ms : VisitMember(b, ms)!(m)
  BY DEF VisitMember
<1>1. CASE \E f \in Faults : Abort(f)
  BY <1>1, AbortInv
<1>2. CASE /\ Resumable(m) /\ SwitchTo(m) /\ resumeBatch' = b /\ todo' = ms \ {m}
           /\ UNCHANGED <<draining, batchFinishList>>
  <2> batchFinishList' \in Seq(Cids) /\ draining' \in BOOLEAN
    BY <1>2 DEF IInv, TypeOK
  <2> QED BY <1>2, SwitchInv DEF Resumable
<1> QED BY <1>1, <1>2 DEF Faults

\* What CoroutineInit writes into a slot has the type of the slot's fields.
LEMMA InitCoroutineTypes ==
    ASSUME TypeOK, NEW c \in Cids, NEW p \in Priorities,
           NEW b \in BatchIds \cup {INVALID}, CoroutineInit(c, p, b)
    PROVE  /\ state' \in [Cids -> States]
           /\ priority' \in [Cids -> Priorities \cup {0}]
           /\ relateBatchId' \in [Cids -> BatchIds \cup {INVALID}]
           /\ isInsertBatch' \in [Cids -> BOOLEAN]
           /\ stack' \in [Cids -> {"none", "intact", "overrun"}]
           /\ local' \in [Cids -> [Keys -> {"none", "own", "stale"}]]
           /\ barrier' \in [Cids -> BatchIds \cup {INVALID}]
<1> USE DEF TypeOK, CoroutineInit
<1>1. /\ state' \in [Cids -> States]
      /\ priority' \in [Cids -> Priorities \cup {0}]
      /\ isInsertBatch' \in [Cids -> BOOLEAN]
  BY DEF States
<1>2. /\ relateBatchId' \in [Cids -> BatchIds \cup {INVALID}]
      /\ barrier' \in [Cids -> BatchIds \cup {INVALID}]
      /\ stack' \in [Cids -> {"none", "intact", "overrun"}]
  OBVIOUS
<1>3. local' \in [Cids -> [Keys -> {"none", "own", "stale"}]]
  OBVIOUS
<1> QED BY <1>1, <1>2, <1>3

\* CoroutineCreate keeps the invariant: the slot it takes was Idle.
LEMMA CreateInv ==
    ASSUME IInv, NEW c \in Cids, NEW p \in Priorities, CoroutineCreate(c, p)
    PROVE  IInv'
<1> USE DEF IInv, CoroutineCreate, batchVars, loopVars, switchVars
<1>1. TypeOK'
  <2> CoroutineInit(c, p, INVALID)
    OBVIOUS
  <2> QED BY InitCoroutineTypes DEF TypeOK
<1>2. RunningOK'
  BY DEF RunningOK, TypeOK, CoroutineInit, Lowest, IdleSlots
<1>3. BatchOwned'
  BY DEF BatchOwned, TypeOK, CoroutineInit, Lowest, IdleSlots
<1> QED BY <1>1, <1>2, <1>3

\* BatchAdd keeps the invariant: the new member is not the owner of a batch.
LEMMA BatchAddInv ==
    ASSUME IInv, NEW c \in Cids, NEW b \in BatchIds, NEW p \in Priorities,
           BatchAdd(c, b, p)
    PROVE  IInv'
<1>1. CASE ~CoroutineCanCreate
  BY <1>1, AbortInv DEF BatchAdd, Faults
<1>2. CASE CoroutineCanCreate
  <2> PICK m \in Cids :
        /\ Lowest(m, IdleSlots)
        /\ CoroutineInit(m, p, b)
        /\ activityCnt' = activityCnt + 1
        /\ unfinished' = [unfinished EXCEPT ![b] = @ \cup {m}]
        /\ finished' = [finished EXCEPT ![b] = @ \ {m}]
        /\ UNCHANGED <<batchState, relateId, loopVars, switchVars,
                       stackCheck, batchFinishList, status>>
    BY <1>2 DEF BatchAdd
  <2> USE DEF IInv, loopVars, switchVars
  <2>1. TypeOK'
    BY InitCoroutineTypes DEF TypeOK
  <2>2. RunningOK'
    BY DEF RunningOK, TypeOK, CoroutineInit, Lowest, IdleSlots
  <2>3. BatchOwned'
    BY DEF BatchOwned, TypeOK, CoroutineInit, Lowest, IdleSlots
  <2> QED BY <2>1, <2>2, <2>3
<1> QED BY <1>1, <1>2

-----------------------------------------------------------------------------
(* What a slave does to itself.                                            *)

\* CoroutineYield keeps the invariant.
LEMMA YieldInv ==
    ASSUME IInv, NEW c \in Cids, CoroutineYield(c)
    PROVE  IInv'
<1> USE DEF IInv, CoroutineYield, ToMaster, linkVars, batchVars, memVars
<1>1. TypeOK'
  BY DEF TypeOK, States
<1>2. RunningOK'
  BY DEF RunningOK, TypeOK, Running
<1>3. BatchOwned'
  BY DEF BatchOwned, TypeOK, RunningOK, Running
<1> QED BY <1>1, <1>2, <1>3

\* The end of CoroutineRun keeps the invariant: the coroutine put on the finish
\* list is the one that opened the batch, so it is a slot.
LEMMA RunInv ==
    ASSUME IInv, NEW c \in Cids, CoroutineRun(c)
    PROVE  IInv'
<1> DEFINE b == relateBatchId[c]
<1>1. CASE \E f \in Faults : Abort(f)
  BY <1>1, AbortInv
<1>2. CASE /\ ~(b # INVALID /\ batchState[b] # "Run")
           /\ ~(stackCheck /\ stack[c] = "overrun")
  <2> b \in BatchIds \cup {INVALID}
    BY DEF IInv, TypeOK
  <2>1. /\ batchFinishList' = FinishListAfter(c, b)
        /\ draining' = (draining /\ batchFinishList' # <<>>)
        /\ isMasterCoroutine' = TRUE
        /\ state' = [state EXCEPT ![c] = "Idle"]
        /\ relateBatchId' = [relateBatchId EXCEPT ![c] = INVALID]
        /\ activityCnt' = activityCnt - 1
        /\ runningCorouineId' = INVALID
        /\ UNCHANGED <<priority, isInsertBatch, barrier, batchState, relateId,
                       stack, local, stackCheck, resumeBatch, todo, status>>
    BY <1>2 DEF CoroutineRun, Retire, CoroutineStackCheck, ToMaster, memVars
  <2>2. FinishListAfter(c, b) \in Seq(Cids)
    BY <1>2 DEF FinishListAfter, IInv, TypeOK, BatchOwned
  <2>3. /\ unfinished' \in [BatchIds -> SUBSET Cids]
        /\ finished' \in [BatchIds -> SUBSET Cids]
    <3>1. CASE b = INVALID
      BY <1>2, <3>1 DEF CoroutineRun, CoroutineStackCheck, IInv, TypeOK
    <3>2. CASE b # INVALID
      <4> /\ unfinished' = [unfinished EXCEPT ![b] = @ \ {c}]
          /\ finished' = [finished EXCEPT ![b] = @ \cup {c}]
        BY <1>2, <3>2 DEF CoroutineRun, CoroutineStackCheck
      <4> QED BY DEF IInv, TypeOK
    <3> QED BY <3>1, <3>2
  <2>4. draining' \in BOOLEAN /\ isMasterCoroutine' \in BOOLEAN
    BY <2>1, Zenon
  <2>5. TypeOK'
    BY <2>1, <2>2, <2>3, <2>4 DEF IInv, TypeOK, States
  <2>6. RunningOK'
    BY <2>1 DEF RunningOK
  <2>7. BatchOwned'
    BY <2>1 DEF IInv, BatchOwned, TypeOK
  <2> QED BY <2>5, <2>6, <2>7 DEF IInv
<1> QED BY <1>1, <1>2 DEF CoroutineRun, Retire, CoroutineStackCheck, Faults

\* BatchInit keeps the invariant: the batch now has an owner.
LEMMA BatchInitInv ==
    ASSUME IInv, NEW c \in Cids, NEW b \in BatchIds, BatchInit(c, b)
    PROVE  IInv'
<1> USE DEF IInv, BatchInit, memVars, loopVars, switchVars
<1>1. TypeOK'
  BY DEF TypeOK
<1>2. RunningOK'
  BY DEF RunningOK
<1>3. BatchOwned'
  BY DEF BatchOwned, TypeOK
<1> QED BY <1>1, <1>2, <1>3

\* BatchRun up to its yield keeps the invariant: its batch has an owner.
LEMMA BatchRunInv ==
    ASSUME IInv, NEW c \in Cids, NEW b \in BatchIds, BatchRun(c, b)
    PROVE  IInv'
<1> USE DEF IInv, BatchRun, ToMaster, memVars
<1>1. TypeOK'
  BY DEF TypeOK, States
<1>2. RunningOK'
  BY DEF RunningOK, TypeOK, Running
<1>3. BatchOwned'
  BY DEF BatchOwned, TypeOK, RunningOK, Running
<1> QED BY <1>1, <1>2, <1>3

-----------------------------------------------------------------------------
(* Memory: neither the pools nor the batches change.                       *)

\* Steps that only touch local variables, stacks and the stack check, or clean
\* the schedule, keep the invariant.
LEMMA MemoryInv ==
    ASSUME IInv,
           UNCHANGED <<state, priority, linkVars, batchVars, loopVars,
                       switchVars, activityCnt, batchFinishList>>,
           stack' \in [Cids -> {"none", "intact", "overrun"}],
           local' \in [Cids -> [Keys -> {"none", "own", "stale"}]],
           stackCheck' \in BOOLEAN,
           status' \in {status, "cleaned"}
    PROVE  IInv'
<1> USE DEF IInv, linkVars, batchVars, loopVars, switchVars
<1>1. TypeOK'
  BY DEF TypeOK
<1>2. RunningOK'
  BY DEF RunningOK
<1>3. BatchOwned'
  BY DEF BatchOwned
<1> QED BY <1>1, <1>2, <1>3

\* Releasing memory keeps the invariant, whatever the percentile is.
LEMMA ReleaseInv ==
    ASSUME IInv, NEW pct, ScheduleTryReleaseMemory(pct)
    PROVE  IInv'
<1>1. /\ stack' \in [Cids -> {"none", "intact", "overrun"}]
      /\ local' \in [Cids -> [Keys -> {"none", "own", "stale"}]]
      /\ stackCheck' \in BOOLEAN
  BY DEF ScheduleTryReleaseMemory, IInv, TypeOK
<1> QED BY <1>1, MemoryInv DEF ScheduleTryReleaseMemory

\* Every step of the scheduler keeps the invariant.
LEMMA StepInv == IInv /\ [Next]_vars => IInv'
<1> SUFFICES ASSUME IInv, [Next]_vars PROVE IInv'
  OBVIOUS
<1>0. /\ batchFinishList \in Seq(Cids) /\ todo \in SUBSET Cids
      /\ resumeBatch \in BatchIds \cup {INVALID} /\ draining \in BOOLEAN
      /\ stack \in [Cids -> {"none", "intact", "overrun"}]
      /\ local \in [Cids -> [Keys -> {"none", "own", "stale"}]]
      /\ stackCheck \in BOOLEAN
  BY DEF IInv, TypeOK
<1>1. CASE UNCHANGED vars
  <2> USE <1>1 DEF vars, linkVars, batchVars, memVars, loopVars, switchVars
  <2>1. TypeOK'
    BY DEF IInv, TypeOK
  <2>2. RunningOK' /\ BatchOwned'
    BY DEF IInv, RunningOK, BatchOwned
  <2> QED BY <2>1, <2>2 DEF IInv
<1>2. CASE \E c \in Cids, p \in Priorities : CoroutineCreate(c, p)
  BY <1>2, CreateInv
<1>3. ASSUME NEW c \in Cids, CoroutineResume(c) PROVE IInv'
  <2> UNCHANGED <<loopVars, batchFinishList>> /\ SwitchTo(c) /\ c \in Runnable
    BY <1>3 DEF CoroutineResume, Picked
  <2> QED BY <1>0, SwitchInv DEF loopVars
<1>4. ASSUME NEW c \in Cids, CoroutineResumeById(c) PROVE IInv'
  <2>1. CASE BatchNotRun(c)
    BY <1>4, <2>1, AbortInv DEF CoroutineResumeById, Faults
  <2>2. CASE ~BatchNotRun(c)
    <3> UNCHANGED <<loopVars, batchFinishList>> /\ SwitchTo(c) /\ c \in Runnable
      BY <1>4, <2>2 DEF CoroutineResumeById
    <3> QED BY <1>0, SwitchInv DEF loopVars
  <2> QED BY <2>1, <2>2
<1>5. ASSUME NEW c \in Cids, CoroutineResumeInBatch(c) PROVE IInv'
  <2> DEFINE b == relateBatchId[c]
  <2>1. b \in BatchIds
    BY <1>5 DEF CoroutineResumeInBatch, IInv, BatchOwned
  <2>2. unfinished[b] \cup finished[b] \in SUBSET Cids
    BY <2>1 DEF IInv, TypeOK
  <2> QED BY <1>5, <2>1, <2>2, VisitInv DEF CoroutineResumeInBatch
<1>6. CASE ResumeRestOfBatch
  BY <1>0, <1>6, VisitInv DEF ResumeRestOfBatch
<1>7. CASE CoroutineResumeBatchFinish
  <2> DEFINE c == Head(batchFinishList)
  <2>1. CASE \E f \in Faults : Abort(f)
    BY <2>1, AbortInv
  <2>2. CASE /\ Resumable(c) /\ SwitchTo(c)
             /\ batchFinishList' = Tail(batchFinishList)
             /\ draining' = TRUE /\ UNCHANGED <<resumeBatch, todo>>
    <3>1. c \in Cids /\ batchFinishList' \in Seq(Cids)
      BY <1>0, <1>7, <2>2 DEF CoroutineResumeBatchFinish
    <3> c \in Runnable
      BY <2>2 DEF Resumable
    <3> HIDE DEF c
    <3>2. draining' \in BOOLEAN
      BY <2>2, Zenon
    <3> QED BY <1>0, <2>2, <3>1, <3>2, SwitchInv
  <2> QED BY <1>7, <2>1, <2>2 DEF CoroutineResumeBatchFinish, Faults
<1>8. CASE \E c \in Cids : CoroutineYield(c) \/ CoroutineRun(c)
  BY <1>8, YieldInv, RunInv
<1>9. CASE \E c \in Cids, b \in BatchIds : BatchInit(c, b) \/ BatchRun(c, b)
  BY <1>9, BatchInitInv, BatchRunInv
<1>10. CASE \E c \in Cids, b \in BatchIds, p \in Priorities : BatchAdd(c, b, p)
  BY <1>10, BatchAddInv
<1>11. CASE \E c \in Cids, k \in Keys : CoroutineLocalSet(c, k)
  <2>1. local' \in [Cids -> [Keys -> {"none", "own", "stale"}]]
    BY <1>0, <1>11 DEF CoroutineLocalSet
  <2> QED BY <1>0, <1>11, <2>1, MemoryInv DEF CoroutineLocalSet
<1>12. CASE \E c \in Cids : Overrun(c)
  <2>1. stack' \in [Cids -> {"none", "intact", "overrun"}]
    BY <1>0, <1>12 DEF Overrun
  <2> QED BY <1>0, <1>12, <2>1, MemoryInv DEF Overrun
<1>13. CASE ScheduleDisableStackCheck
  <2>1. stackCheck' \in BOOLEAN
    BY <1>13, Zenon DEF ScheduleDisableStackCheck
  <2> QED BY <1>0, <1>13, <2>1, MemoryInv DEF ScheduleDisableStackCheck
<1>14. CASE \E pct \in PctValues : ScheduleTryReleaseMemory(pct)
  BY <1>14, ReleaseInv
<1>15. CASE ScheduleClean
  <2>1. /\ stack' \in [Cids -> {"none", "intact", "overrun"}]
        /\ local' \in [Cids -> [Keys -> {"none", "own", "stale"}]]
    BY <1>15 DEF ScheduleClean
  <2> QED BY <1>0, <1>15, <2>1, MemoryInv DEF ScheduleClean
<1> QED
  BY <1>1, <1>2, <1>3, <1>4, <1>5, <1>6, <1>7, <1>8, <1>9, <1>10, <1>11,
     <1>12, <1>13, <1>14, <1>15 DEF Next, Calls

\* The invariant holds in every state of every run of the scheduler.
LEMMA InvAlways == Spec => []IInv
  BY InitInv, StepInv, PTL DEF Spec

\* Every variable of the scheduler keeps its type, whatever callers do.
THEOREM TypeCorrect == Spec => []TypeOK
<1>1. IInv => TypeOK
  BY DEF IInv
<1> QED BY <1>1, InvAlways, PTL

-----------------------------------------------------------------------------
(* The number of live coroutines.                                          *)

Same == Live' = Live /\ activityCnt' = activityCnt

Born == \E c \in Cids \ Live : Live' = Live \cup {c} /\ activityCnt' = activityCnt + 1

Died == \E c \in Live : Live' = Live \ {c} /\ activityCnt' = activityCnt - 1

\* Creating a coroutine takes one Idle slot and counts it.
LEMMA InitBorn ==
    ASSUME TypeOK, NEW c \in Cids, NEW p, NEW b, Lowest(c, IdleSlots),
           CoroutineInit(c, p, b), activityCnt' = activityCnt + 1
    PROVE  Born
<1>1. c \in Cids \ Live
  BY DEF Lowest, IdleSlots, Live
<1>2. Live' = Live \cup {c}
  BY DEF CoroutineInit, TypeOK, Live
<1> QED BY <1>1, <1>2 DEF Born

\* Resuming a coroutine does not change who is live.
LEMMA SwitchSame ==
    ASSUME TypeOK, NEW c \in Cids, c \in Runnable, SwitchTo(c)
    PROVE  Same
  BY DEF SwitchTo, Runnable, TypeOK, Same, Live

\* A failed assertion does not change who is live.
LEMMA AbortSame ==
    ASSUME NEW f \in Faults, Abort(f)
    PROVE  Same
  BY DEF Abort, Same, Live

\* One turn of the loop of CoroutineResumeInBatch does not change who is live.
LEMMA VisitSame ==
    ASSUME TypeOK, NEW b, NEW ms \in SUBSET Cids, VisitMember(b, ms)
    PROVE  Same
<1> PICK m \in ms : VisitMember(b, ms)!(m)
  BY DEF VisitMember
<1>1. CASE \E f \in Faults : Abort(f)
  BY <1>1, AbortSame
<1>2. CASE Resumable(m) /\ SwitchTo(m)
  BY <1>2, SwitchSame DEF Resumable
<1> QED BY <1>1, <1>2 DEF Faults

\* A step leaves the live coroutines and activityCnt alone, adds one, or removes
\* one.
LEMMA LiveStep == IInv /\ [Next]_vars => Same \/ Born \/ Died
<1> SUFFICES ASSUME IInv, [Next]_vars PROVE Same \/ Born \/ Died
  OBVIOUS
<1>0. TypeOK /\ RunningOK
  BY DEF IInv
<1>1. CASE UNCHANGED <<state, activityCnt>>
  BY <1>1 DEF Same, Live
<1>2. CASE \E c \in Cids, p \in Priorities : CoroutineCreate(c, p)
  BY <1>0, <1>2, InitBorn DEF CoroutineCreate
<1>3. CASE \E c \in Cids : CoroutineResume(c)
  BY <1>0, <1>3, SwitchSame DEF CoroutineResume, Picked
<1>4. CASE \E c \in Cids : CoroutineResumeById(c)
  BY <1>0, <1>4, SwitchSame, AbortSame DEF CoroutineResumeById, Faults
<1>5. ASSUME NEW c \in Cids, CoroutineResumeInBatch(c) PROVE Same
  <2> DEFINE b == relateBatchId[c]
  <2>1. b \in BatchIds
    BY <1>5 DEF CoroutineResumeInBatch, IInv, BatchOwned
  <2>2. unfinished[b] \cup finished[b] \in SUBSET Cids
    BY <1>0, <2>1 DEF TypeOK
  <2> QED BY <1>0, <1>5, <2>2, VisitSame DEF CoroutineResumeInBatch
<1>6. CASE ResumeRestOfBatch
  BY <1>0, <1>6, VisitSame DEF ResumeRestOfBatch, TypeOK
<1>7. CASE CoroutineResumeBatchFinish
  BY <1>0, <1>7, SwitchSame, AbortSame
     DEF CoroutineResumeBatchFinish, Faults, Resumable, Runnable
<1>8. ASSUME NEW c \in Cids, CoroutineYield(c) \/ \E b \in BatchIds : BatchRun(c, b)
      PROVE  Same
  BY <1>0, <1>8 DEF CoroutineYield, BatchRun, Running, RunningOK, TypeOK, Same, Live
<1>9. ASSUME NEW c \in Cids, CoroutineRun(c) PROVE Same \/ Died
  <2>1. CASE \E f \in Faults : Abort(f)
    BY <2>1, AbortSame
  <2>2. CASE /\ state' = [state EXCEPT ![c] = "Idle"]
             /\ activityCnt' = activityCnt - 1
    <3>1. c \in Live
      BY <1>0, <1>9 DEF CoroutineRun, Running, RunningOK, Live
    <3>2. Live' = Live \ {c}
      BY <1>0, <2>2 DEF TypeOK, Live
    <3> QED BY <2>2, <3>1, <3>2 DEF Died
  <2> QED BY <1>9, <2>1, <2>2 DEF CoroutineRun, Retire, CoroutineStackCheck, Faults
<1>10. CASE \E c \in Cids, b \in BatchIds, p \in Priorities : BatchAdd(c, b, p)
  BY <1>0, <1>10, InitBorn, AbortSame DEF BatchAdd, Faults
<1> QED
  BY <1>1, <1>2, <1>3, <1>4, <1>5, <1>6, <1>7, <1>8, <1>9, <1>10
     DEF Next, Calls, vars, BatchInit, CoroutineLocalSet, Overrun,
         ScheduleDisableStackCheck, ScheduleTryReleaseMemory, ScheduleClean

\* In each of these ways activityCnt goes on being the number of the live.
LEMMA ActivityKept ==
    ASSUME ActivityCountOK, Same \/ Born \/ Died
    PROVE  ActivityCountOK'
<1> SUFFICES ASSUME activityCnt = Cardinality(Live)
             PROVE  activityCnt' = Cardinality(Live')
  BY DEF ActivityCountOK, Live
<1>1. IsFiniteSet(Live) /\ Cardinality(Live) \in Nat
  <2>1. IsFiniteSet(Cids)
    BY FS_Interval, CoroutineAssumption DEF Cids
  <2> QED BY <2>1, FS_Subset, FS_CardinalityType DEF Live
<1>2. CASE Same
  BY <1>2 DEF Same
<1>3. CASE Born
  BY <1>1, <1>3, FS_AddElement DEF Born
<1>4. CASE Died
  BY <1>1, <1>4, FS_RemoveElement DEF Died
<1> QED BY <1>2, <1>3, <1>4

\* After ScheduleInit activityCnt is 0 and nothing is live.
LEMMA ActivityInit == Init => ActivityCountOK
<1> SUFFICES ASSUME Init PROVE activityCnt = Cardinality(Live)
  BY DEF ActivityCountOK, Live
<1>1. Live = {}
  BY DEF Init, Live
<1> QED BY <1>1, FS_EmptySet DEF Init

\* activityCnt is the number of coroutines that are not Idle: every slot that
\* is taken was Idle, and only a live coroutine returns.
THEOREM ActivityCount == Spec => []ActivityCountOK
<1>1. IInv /\ ActivityCountOK /\ [Next]_vars => ActivityCountOK'
  BY LiveStep, ActivityKept
<1> QED BY <1>1, ActivityInit, InvAlways, PTL DEF Spec

\* ScheduleRunning, which also looks at a runningCorouineId that may be left
\* over, is true exactly while some coroutine is live.
THEOREM RunningIdNeverStale == Spec => []RunningIdLive
<1>1. IInv => RunningIdLive
  BY DEF IInv, TypeOK, RunningOK, RunningIdLive, ScheduleRunning
<1> QED BY <1>1, InvAlways, PTL

-----------------------------------------------------------------------------
(* Stacks.                                                                 *)

\* Resuming a coroutine leaves stacks alone and neither takes nor frees a slot.
LEMMA SwitchStack ==
    ASSUME TypeOK, NEW c \in Cids, c \in Runnable, SwitchTo(c)
    PROVE  stack' = stack /\ status' = status /\ IdleSlots' = IdleSlots
           /\ stackCheck' = stackCheck
  BY DEF SwitchTo, Runnable, TypeOK, IdleSlots, memVars

\* A failed assertion leaves stacks and idle slots alone.
LEMMA AbortStack ==
    ASSUME NEW f \in Faults, Abort(f)
    PROVE  stack' = stack /\ status' # "up" /\ IdleSlots' = IdleSlots
           /\ stackCheck' = stackCheck
  BY DEF Abort, Faults, IdleSlots, memVars

\* One turn of the loop of CoroutineResumeInBatch leaves stacks alone.
LEMMA VisitStack ==
    ASSUME TypeOK, NEW b, NEW ms \in SUBSET Cids, VisitMember(b, ms)
    PROVE  /\ stack' = stack /\ IdleSlots' = IdleSlots
           /\ stackCheck' = stackCheck
           /\ status' \in {status} \cup Faults
<1> PICK m \in ms : VisitMember(b, ms)!(m)
  BY DEF VisitMember
<1>1. CASE \E f \in Faults : Abort(f)
  BY <1>1, AbortStack DEF Abort
<1>2. CASE Resumable(m) /\ SwitchTo(m)
  BY <1>2, SwitchStack DEF Resumable
<1> QED BY <1>1, <1>2 DEF Faults

\* What the steps may do to stacks and to the set of idle slots.
StacksKept ==
    /\ stack' = stack
    /\ stackCheck' = stackCheck
    /\ status' \in {status} \cup Faults
    /\ \/ IdleSlots' = IdleSlots
       \/ \E c \in Cids : /\ IdleSlots' = IdleSlots \cup {c}
                         /\ ~(stackCheck /\ stack[c] = "overrun")

StackGiven ==
    \E c \in IdleSlots :
        /\ stack' = [stack EXCEPT ![c] = IF @ = "none" THEN "intact" ELSE @]
        /\ IdleSlots' = IdleSlots \ {c}
        /\ UNCHANGED <<stackCheck, status>>

StacksChanged ==
    /\ IdleSlots' = IdleSlots
    /\ \/ /\ UNCHANGED stackCheck
          /\ status' = status
          /\ stack' \in [Cids -> {"none", "intact", "overrun"}]
          /\ \A c \in Cids : \/ stack'[c] = stack[c]
                            \/ (stack'[c] = "none" /\ c \in IdleSlots)
                            \/ (stack'[c] = "overrun" /\ c \notin IdleSlots)
       \/ (stack' = stack /\ stackCheck' = FALSE /\ status' = status)
       \/ (status' = "cleaned" /\ stack' = [c \in Cids |-> "none"])

\* The slot CoroutineInit fills has a stack, kept or new.
LEMMA GivenStack ==
    ASSUME TypeOK, NEW c \in Cids, NEW p, NEW b, Lowest(c, IdleSlots),
           CoroutineInit(c, p, b), UNCHANGED <<stackCheck, status>>
    PROVE  StackGiven
<1>1. c \in IdleSlots
  BY DEF Lowest
<1>2. IdleSlots' = IdleSlots \ {c}
  BY DEF CoroutineInit, TypeOK, IdleSlots
<1> QED BY <1>1, <1>2 DEF StackGiven, CoroutineInit

\* Releasing memory only takes stacks of idle slots.
LEMMA ReleaseStack ==
    ASSUME IInv, NEW pct, ScheduleTryReleaseMemory(pct)
    PROVE  StacksChanged
<1>1. Released(pct) \subseteq IdleSlots
  BY DEF Released, IdleStacks
<1>2. /\ stack' \in [Cids -> {"none", "intact", "overrun"}]
      /\ \A d \in Cids : \/ stack'[d] = stack[d]
                        \/ (d \in Released(pct) /\ stack'[d] = "none")
  <2>1. stack' = [c \in Cids |-> IF c \in Released(pct) THEN "none" ELSE stack[c]]
    BY DEF ScheduleTryReleaseMemory
  <2>2. stack \in [Cids -> {"none", "intact", "overrun"}]
    BY DEF IInv, TypeOK
  <2> QED BY <2>1, <2>2
<1>3. IdleSlots' = IdleSlots /\ status' = status /\ stackCheck' = stackCheck
  BY DEF ScheduleTryReleaseMemory, IdleSlots
<1> QED BY <1>1, <1>2, <1>3 DEF StacksChanged

\* Every step treats the stacks in one of the ways above.
LEMMA StackStep ==
    IInv /\ [Next]_vars => StacksKept \/ StackGiven \/ StacksChanged
<1> SUFFICES ASSUME IInv, [Next]_vars PROVE StacksKept \/ StackGiven \/ StacksChanged
  OBVIOUS
<1>0. TypeOK /\ RunningOK
  BY DEF IInv
<1>1. CASE UNCHANGED <<state, stack, stackCheck, status>>
  BY <1>1 DEF StacksKept, IdleSlots
<1>2. CASE \E c \in Cids, p \in Priorities : CoroutineCreate(c, p)
  BY <1>0, <1>2, GivenStack DEF CoroutineCreate
<1>3. CASE \E c \in Cids : CoroutineResume(c)
  BY <1>0, <1>3, SwitchStack DEF CoroutineResume, Picked, StacksKept
<1>4. ASSUME NEW c \in Cids, CoroutineResumeById(c) PROVE StacksKept
  BY <1>0, <1>4, SwitchStack, AbortStack DEF CoroutineResumeById, Faults, StacksKept, Abort
<1>5. ASSUME NEW c \in Cids, CoroutineResumeInBatch(c) PROVE StacksKept
  <2> DEFINE b == relateBatchId[c]
  <2>1. b \in BatchIds
    BY <1>5 DEF CoroutineResumeInBatch, IInv, BatchOwned
  <2>2. unfinished[b] \cup finished[b] \in SUBSET Cids
    BY <1>0, <2>1 DEF TypeOK
  <2> QED BY <1>0, <1>5, <2>2, VisitStack DEF CoroutineResumeInBatch, StacksKept
<1>6. CASE ResumeRestOfBatch
  BY <1>0, <1>6, VisitStack DEF ResumeRestOfBatch, TypeOK, StacksKept
<1>7. CASE CoroutineResumeBatchFinish
  <2>1. CASE \E f \in Faults : Abort(f)
    BY <2>1, AbortStack DEF StacksKept, Abort
  <2>2. CASE \E c \in Cids : c \in Runnable /\ SwitchTo(c)
    BY <1>0, <2>2, SwitchStack DEF StacksKept
  <2> QED BY <1>7, <2>1, <2>2
          DEF CoroutineResumeBatchFinish, Faults, Resumable, Runnable
<1>8. ASSUME NEW c \in Cids, CoroutineYield(c) \/ \E b \in BatchIds : BatchRun(c, b)
      PROVE  StacksKept
  <2>1. stack' = stack /\ stackCheck' = stackCheck /\ status' = status
    BY <1>8 DEF CoroutineYield, BatchRun, memVars
  <2>2. IdleSlots' = IdleSlots
    BY <1>0, <1>8
       DEF CoroutineYield, BatchRun, Running, RunningOK, TypeOK, IdleSlots
  <2> QED BY <2>1, <2>2 DEF StacksKept
<1>9. ASSUME NEW c \in Cids, CoroutineRun(c) PROVE StacksKept
  <2>1. CASE \E f \in Faults : Abort(f)
    BY <2>1, AbortStack DEF StacksKept, Abort
  <2>2. CASE /\ state' = [state EXCEPT ![c] = "Idle"]
             /\ ~(stackCheck /\ stack[c] = "overrun")
             /\ UNCHANGED <<memVars, status>>
    <3>1. IdleSlots' = IdleSlots \cup {c}
      BY <1>0, <2>2 DEF TypeOK, IdleSlots
    <3> QED BY <2>2, <3>1 DEF StacksKept, memVars
  <2> QED BY <1>9, <2>1, <2>2 DEF CoroutineRun, Retire, CoroutineStackCheck, Faults
<1>10. CASE \E c \in Cids, b \in BatchIds, p \in Priorities : BatchAdd(c, b, p)
  <2>1. CASE \E f \in Faults : Abort(f)
    BY <2>1, AbortStack DEF StacksKept, Abort
  <2>2. CASE \E m \in Cids, p \in Priorities, b \in BatchIds :
               /\ Lowest(m, IdleSlots) /\ CoroutineInit(m, p, b)
               /\ UNCHANGED <<stackCheck, status>>
    BY <1>0, <2>2, GivenStack
  <2> QED BY <1>10, <2>1, <2>2 DEF BatchAdd, Faults
<1>11. ASSUME NEW c \in Cids, Overrun(c) PROVE StacksChanged
  <2>1. c \notin IdleSlots
    BY <1>0, <1>11 DEF Overrun, Running, RunningOK, IdleSlots
  <2>2. /\ stack' \in [Cids -> {"none", "intact", "overrun"}]
        /\ \A d \in Cids : stack'[d] = stack[d] \/ (d = c /\ stack'[d] = "overrun")
    <3>1. stack' = [stack EXCEPT ![c] = "overrun"]
      BY <1>11 DEF Overrun
    <3>2. stack \in [Cids -> {"none", "intact", "overrun"}]
      BY <1>0 DEF TypeOK
    <3> QED BY <3>1, <3>2
  <2>3. IdleSlots' = IdleSlots /\ status' = status /\ stackCheck' = stackCheck
    BY <1>11 DEF Overrun, IdleSlots
  <2> QED BY <2>1, <2>2, <2>3 DEF StacksChanged
<1>12. CASE ScheduleDisableStackCheck
  BY <1>12, Zenon DEF ScheduleDisableStackCheck, StacksChanged, IdleSlots
<1>13. CASE \E pct \in PctValues : ScheduleTryReleaseMemory(pct)
  BY <1>13, ReleaseStack
<1>14. CASE ScheduleClean
  BY <1>14 DEF ScheduleClean, StacksChanged, IdleSlots
<1>15. CASE \E c \in Cids, k \in Keys : CoroutineLocalSet(c, k)
  BY <1>1, <1>15 DEF CoroutineLocalSet
<1>16. CASE \E c \in Cids, b \in BatchIds : BatchInit(c, b)
  BY <1>1, <1>16 DEF BatchInit, memVars
<1> QED
  BY <1>1, <1>2, <1>3, <1>4, <1>5, <1>6, <1>7, <1>8, <1>9, <1>10, <1>11,
     <1>12, <1>13, <1>14, <1>15, <1>16 DEF Next, Calls, vars, memVars

\* In each of these ways a live coroutine keeps its stack.
LEMMA LiveStacksKept ==
    ASSUME TypeOK, LiveStacks, StacksKept \/ StackGiven \/ StacksChanged
    PROVE  LiveStacks'
<1>1. CASE StacksKept
  BY <1>1 DEF StacksKept, LiveStacks, IdleSlots, Faults
<1>2. CASE StackGiven
  BY <1>2 DEF StackGiven, LiveStacks, IdleSlots, TypeOK
<1>3. CASE StacksChanged
  BY <1>3 DEF StacksChanged, LiveStacks, IdleSlots, TypeOK
<1> QED BY <1>1, <1>2, <1>3

\* In each of these ways a damaged stack stays out of the pool.
LEMMA NoOverrunKept ==
    ASSUME TypeOK, NoOverrunStackPooled,
           StacksKept \/ StackGiven \/ StacksChanged
    PROVE  NoOverrunStackPooled'
<1>1. CASE StacksKept
  BY <1>1 DEF StacksKept, NoOverrunStackPooled
<1>2. CASE StackGiven
  BY <1>2 DEF StackGiven, NoOverrunStackPooled, IdleSlots, TypeOK
<1>3. CASE StacksChanged
  BY <1>3 DEF StacksChanged, NoOverrunStackPooled, IdleSlots, TypeOK
<1> QED BY <1>1, <1>2, <1>3

\* A live coroutine always has a stack: ScheduleTryReleaseMemory only frees
\* stacks of idle slots, and a slot that is taken again gets a new one.
THEOREM StacksStayLive == Spec => []LiveStacks
<1>1. Init => LiveStacks
  BY DEF Init, LiveStacks
<1>2. IInv /\ LiveStacks /\ [Next]_vars => LiveStacks'
  BY StackStep, LiveStacksKept DEF IInv
<1> QED BY <1>1, <1>2, InvAlways, PTL DEF Spec

\* While the stack check is on, no idle slot holds a stack with a damaged
\* canary, so none is handed to the next coroutine of the slot.
THEOREM OverrunNeverPooled == Spec => []NoOverrunStackPooled
<1>1. Init => NoOverrunStackPooled
  BY DEF Init, NoOverrunStackPooled, IdleSlots
<1>2. IInv /\ NoOverrunStackPooled /\ [Next]_vars => NoOverrunStackPooled'
  BY StackStep, NoOverrunKept DEF IInv
<1> QED BY <1>1, <1>2, InvAlways, PTL DEF Spec

=============================================================================
