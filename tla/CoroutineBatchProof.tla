------------------------ MODULE CoroutineBatchProof ------------------------
(***************************************************************************)
(* Theorems about batches, for every size of the pools: callers keep the   *)
(* rules and all priorities are equal.  Both conditions are needed; the    *)
(* runs coroutine_any_usage and coroutine_priority show what happens       *)
(* without them.                                                           *)
(***************************************************************************)
EXTENDS CoroutineForkJoin, CoroutineProof

RulesKept ==
    /\ Usage = {}
    /\ \A p, q \in Priorities : p = q

Distinct(s) == \A i, j \in 1 .. Len(s) : s[i] = s[j] => i = j

\* The coroutines that batchFinishList has to hold.
Due == {p \in Cids : /\ barrier[p] # INVALID
                     /\ unfinished[barrier[p]] = {}
                     /\ finished[barrier[p]] # {}}

-----------------------------------------------------------------------------
(* The parts of the invariant.                                             *)

\* Only the coroutine that has control is in state Run.
RunOK == \A c \in Cids :
    state[c] = "Run" => ~isMasterCoroutine /\ runningCorouineId = c

\* A coroutine that waits in BatchRun is suspended, and waits for its batch.
BarrierOK == \A c \in Cids : barrier[c] # INVALID =>
    /\ state[c] = "Suspend" /\ isInsertBatch[c]
    /\ relateBatchId[c] = barrier[c] /\ batchState[barrier[c]] = "Run"

\* A coroutine with a barrier is the owner of a batch, and either waits for it
\* or is still adding to it.
OwnerOK == \A c \in Cids : isInsertBatch[c] =>
    /\ relateBatchId[c] \in BatchIds /\ relateId[relateBatchId[c]] = c
    /\ \/ barrier[c] = relateBatchId[c]
       \/ state[c] = "Run" /\ batchState[relateBatchId[c]] = "Ready"

\* An idle batch is empty; an open one belongs to its owner, and no member has
\* returned before the owner waits.
BatchOK == \A b \in BatchIds :
    /\ batchState[b] = "Idle" => unfinished[b] = {}
    /\ batchState[b] # "Run" => finished[b] = {}
    /\ batchState[b] # "Idle" => /\ relateId[b] \in Cids
                                 /\ isInsertBatch[relateId[b]]
                                 /\ relateBatchId[relateId[b]] = b
    /\ unfinished[b] \cap finished[b] = {}

\* The unfinished members of a batch are the live coroutines that relate to it
\* and have no barrier.
MemberOK == \A b \in BatchIds, c \in Cids :
    c \in unfinished[b] <=>
        state[c] # "Idle" /\ ~isInsertBatch[c] /\ relateBatchId[c] = b

\* The members CoroutineResumeInBatch has still to visit can be resumed.
TodoOK == todo # {} =>
    /\ resumeBatch \in BatchIds /\ todo \subseteq unfinished[resumeBatch]
    /\ \A m \in todo : state[m] # "Run"

\* The finish list holds what it has to, once.
ListOK == Listed = Due /\ Distinct(batchFinishList)

\* No slot has a damaged stack, and live coroutines have one of the priorities.
SlotOK == \A c \in Cids :
    /\ stack[c] # "overrun"
    /\ state[c] # "Idle" => priority[c] \in Priorities

BInv == /\ IInv /\ status = "up"
        /\ RunOK /\ BarrierOK /\ OwnerOK /\ BatchOK /\ MemberOK /\ TodoOK
        /\ ListOK /\ SlotOK

-----------------------------------------------------------------------------
(* The finish list as a sequence.                                          *)

Elements(s) == {s[i] : i \in 1 .. Len(s)}

\* Appending a coroutine that is not on the list keeps the entries distinct.
LEMMA AppendDistinct ==
    ASSUME NEW s \in Seq(Cids), Distinct(s), NEW x \in Cids, x \notin Elements(s)
    PROVE  /\ Distinct(Append(s, x))
           /\ Elements(Append(s, x)) = Elements(s) \cup {x}
<1> DEFINE t == Append(s, x)
<1>1. /\ Len(t) = Len(s) + 1 /\ Len(s) \in Nat
      /\ t[Len(s) + 1] = x /\ \A i \in 1 .. Len(s) : t[i] = s[i]
  OBVIOUS
<1> HIDE DEF t
<1>2. Distinct(t)
  BY <1>1 DEF Distinct, Elements
<1>3. Elements(t) = Elements(s) \cup {x}
  BY <1>1 DEF Elements
<1> QED BY <1>2, <1>3 DEF t

\* Taking the head off a list of distinct entries removes it from the list.
LEMMA TailDistinct ==
    ASSUME NEW s \in Seq(Cids), Distinct(s), s # <<>>
    PROVE  /\ Distinct(Tail(s)) /\ Head(s) \in Elements(s)
           /\ Elements(Tail(s)) = Elements(s) \ {Head(s)}
<1> DEFINE t == Tail(s)
<1>1. /\ Len(s) \in Nat \ {0} /\ Len(t) = Len(s) - 1 /\ Head(s) = s[1]
      /\ \A i \in 1 .. Len(t) : t[i] = s[i + 1]
  OBVIOUS
<1> HIDE DEF t
<1>2. Distinct(t)
  BY <1>1 DEF Distinct
<1>3. Head(s) \in Elements(s)
  BY <1>1 DEF Elements
<1>4. Elements(t) \subseteq Elements(s) \ {Head(s)}
  BY <1>1 DEF Elements, Distinct
<1>5. Elements(s) \ {Head(s)} \subseteq Elements(t)
  <2> SUFFICES ASSUME NEW i \in 1 .. Len(s), s[i] # s[1] PROVE s[i] \in Elements(t)
    BY <1>1 DEF Elements
  <2> i - 1 \in 1 .. Len(t) /\ t[i - 1] = s[i]
    BY <1>1
  <2> QED BY DEF Elements
<1> QED BY <1>2, <1>3, <1>4, <1>5 DEF t

-----------------------------------------------------------------------------
(* Resuming.                                                               *)

\* Resuming a coroutine without a barrier keeps the invariant.
LEMMA SwitchSlave ==
    ASSUME BInv, NEW c \in Cids, c \in Runnable, ~isInsertBatch[c], SwitchTo(c),
           isMasterCoroutine, batchFinishList' = batchFinishList,
           draining' \in BOOLEAN, resumeBatch' \in BatchIds \cup {INVALID},
           todo' = {} \/ /\ resumeBatch' \in BatchIds
                         /\ todo' \subseteq unfinished[resumeBatch'] \ {c}
    PROVE  BInv'
<1> USE DEF BInv
<1>1. /\ barrier[c] = INVALID
      /\ state' = [state EXCEPT ![c] = "Run"]
      /\ runningCorouineId' = c /\ isMasterCoroutine' = FALSE
      /\ UNCHANGED <<priority, relateBatchId, isInsertBatch, barrier, batchState,
                     relateId, unfinished, finished, stack, status>>
  BY DEF BarrierOK, SwitchTo, linkVars, memVars
<1>2. IInv'
  <2> todo' \in SUBSET Cids /\ batchFinishList' \in Seq(Cids)
    BY DEF IInv, TypeOK
  <2> QED BY SwitchInv
<1>3. \A d \in Cids : state[d] # "Run"
  BY DEF RunOK
<1>4. state[c] \in {"Ready", "Suspend"} /\ state \in [Cids -> States]
  BY DEF Runnable, IInv, TypeOK
<1>5. RunOK' /\ BarrierOK' /\ OwnerOK'
  BY <1>1, <1>3, <1>4 DEF RunOK, BarrierOK, OwnerOK
<1>6. BatchOK'
  BY <1>1 DEF BatchOK
<1>7. MemberOK'
  BY <1>1, <1>4 DEF MemberOK
<1>8. TodoOK'
  <2> SUFFICES ASSUME todo' # {}
               PROVE  /\ todo' \subseteq unfinished'[resumeBatch']
                      /\ \A m \in todo' : state'[m] # "Run"
    BY DEF TodoOK
  <2>1. resumeBatch' \in BatchIds /\ todo' \subseteq unfinished[resumeBatch'] \ {c}
    OBVIOUS
  <2>2. unfinished[resumeBatch'] \subseteq Cids
    BY <2>1 DEF IInv, TypeOK
  <2> QED BY <1>1, <1>3, <1>4, <2>1, <2>2
<1>9. ListOK'
  BY <1>1 DEF ListOK, Listed, Due
<1>10. SlotOK'
  BY <1>1, <1>4 DEF SlotOK
<1> QED BY <1>1, <1>2, <1>5, <1>6, <1>7, <1>8, <1>9, <1>10

\* Resuming the owner of a batch whose members have all returned keeps the
\* invariant: the batch is closed and the owner leaves the finish list.
LEMMA SwitchOwner ==
    ASSUME BInv, NEW c \in Cids, c \in Runnable, isInsertBatch[c],
           isBatchDone(relateBatchId[c]), SwitchTo(c), isMasterCoroutine,
           todo = {}, UNCHANGED <<resumeBatch, todo>>, draining' \in BOOLEAN,
           \/ c \notin Listed /\ batchFinishList' = batchFinishList
           \/ /\ batchFinishList # <<>> /\ c = Head(batchFinishList)
              /\ batchFinishList' = Tail(batchFinishList)
    PROVE  BInv'
<1> USE DEF BInv
<1> DEFINE b == relateBatchId[c]
<1>0. \A d \in Cids : state[d] # "Run"
  BY DEF RunOK
<1>1. /\ b \in BatchIds /\ barrier[c] = b /\ b # INVALID /\ relateId[b] = c
      /\ batchState[b] = "Run" /\ unfinished[b] = {}
  BY <1>0 DEF OwnerOK, BarrierOK, isBatchDone, BatchIds, INVALID
<1>2. /\ state' = [state EXCEPT ![c] = "Run"]
      /\ runningCorouineId' = c /\ isMasterCoroutine' = FALSE
      /\ batchState' = [batchState EXCEPT ![b] = "Idle"]
      /\ unfinished' = [unfinished EXCEPT ![b] = {}]
      /\ finished' = [finished EXCEPT ![b] = {}]
      /\ relateBatchId' = [relateBatchId EXCEPT ![c] = INVALID]
      /\ isInsertBatch' = [isInsertBatch EXCEPT ![c] = FALSE]
      /\ barrier' = [barrier EXCEPT ![c] = INVALID]
      /\ UNCHANGED <<priority, relateId, stack, status>>
  BY <1>1 DEF SwitchTo, memVars
<1>3. /\ state \in [Cids -> States] /\ batchFinishList \in Seq(Cids)
      /\ batchState \in [BatchIds -> {"Idle", "Ready", "Run"}]
      /\ relateId \in [BatchIds -> Cids \cup {INVALID}]
      /\ unfinished \in [BatchIds -> SUBSET Cids]
      /\ finished \in [BatchIds -> SUBSET Cids]
      /\ relateBatchId \in [Cids -> BatchIds \cup {INVALID}]
      /\ isInsertBatch \in [Cids -> BOOLEAN]
      /\ barrier \in [Cids -> BatchIds \cup {INVALID}]
      /\ INVALID \notin BatchIds
  BY DEF IInv, TypeOK, BatchIds, INVALID
<1>4. batchFinishList' \in Seq(Cids)
  <2>1. CASE batchFinishList' = batchFinishList
    BY <1>3, <2>1
  <2>2. CASE batchFinishList # <<>> /\ batchFinishList' = Tail(batchFinishList)
    BY <1>3, <2>2
  <2> QED BY <2>1, <2>2
<1>5. IInv'
  <2> todo' \in SUBSET Cids /\ resumeBatch' \in BatchIds \cup {INVALID}
    BY DEF IInv, TypeOK
  <2> QED BY <1>4, SwitchInv
<1> HIDE DEF b
<1>6. \A d \in Cids : d # c /\ isInsertBatch[d] => relateBatchId[d] # b
  BY <1>1 DEF OwnerOK
<1>7. RunOK' /\ BarrierOK'
  BY <1>0, <1>1, <1>2, <1>3, <1>6 DEF RunOK, BarrierOK
<1>8. OwnerOK'
  BY <1>1, <1>2, <1>3, <1>6 DEF OwnerOK
<1>9. BatchOK'
  BY <1>1, <1>2, <1>3 DEF BatchOK
<1>10. MemberOK'
  <2> state[c] \in {"Ready", "Suspend"}
    BY DEF Runnable
  <2>1. c \notin unfinished[b] /\ \A x \in BatchIds : c \notin unfinished'[x]
    BY <1>1, <1>2, <1>3 DEF MemberOK
  <2>2. \A d \in Cids : d # c /\ isInsertBatch[d] = FALSE => (relateBatchId[d] = b => state[d] = "Idle")
    BY <1>1 DEF MemberOK
  <2> QED BY <1>1, <1>2, <1>3, <2>1, <2>2 DEF MemberOK
<1>11. TodoOK'
  BY DEF TodoOK
<1>12. ListOK'
  <2>1. Due' = Due \ {c}
    BY <1>1, <1>2, <1>3, <1>6 DEF Due, BarrierOK
  <2>2. CASE c \notin Listed /\ batchFinishList' = batchFinishList
    BY <2>1, <2>2 DEF ListOK, Listed
  <2>3. CASE /\ batchFinishList # <<>> /\ c = Head(batchFinishList)
             /\ batchFinishList' = Tail(batchFinishList)
    <3>1. /\ Elements(batchFinishList) = Listed
          /\ Elements(batchFinishList') = Listed'
      BY DEF Elements, Listed
    <3>2. /\ Distinct(batchFinishList')
          /\ Elements(batchFinishList') = Elements(batchFinishList) \ {c}
      BY <1>3, <2>3, TailDistinct DEF ListOK
    <3> QED BY <2>1, <3>1, <3>2 DEF ListOK
  <2> QED BY <2>2, <2>3
<1>13. SlotOK'
  BY <1>2, <1>3 DEF SlotOK, Runnable
<1> QED BY <1>2, <1>5, <1>7, <1>8, <1>9, <1>10, <1>11, <1>12, <1>13

\* One turn of the loop of CoroutineResumeInBatch over unfinished members finds
\* each of them ready to be resumed.
LEMMA VisitBatch ==
    ASSUME BInv, NEW b \in BatchIds, NEW members \in SUBSET unfinished[b],
           \A m \in members : state[m] # "Run",
           VisitMember(b, members), isMasterCoroutine
    PROVE  BInv'
<1> PICK m \in members : VisitMember(b, members)!(m)
  BY DEF VisitMember
<1>1. /\ m \in Cids /\ state[m] # "Idle" /\ ~isInsertBatch[m]
      /\ m \notin finished[b]
  BY DEF BInv, MemberOK, BatchOK, IInv, TypeOK
<1>2. m \in Runnable
  BY <1>1 DEF BInv, Runnable, IInv, TypeOK, States
<1>3. /\ SwitchTo(m) /\ resumeBatch' = b /\ todo' = members \ {m}
      /\ UNCHANGED <<draining, batchFinishList>>
  BY <1>1, <1>2 DEF Resumable, BatchNotRun
<1>4. draining' \in BOOLEAN
  BY <1>3 DEF BInv, IInv, TypeOK
<1> QED BY <1>1, <1>2, <1>3, <1>4, SwitchSlave

-----------------------------------------------------------------------------
(* Creating.                                                               *)

\* A coroutine that is created outside of a batch keeps the invariant.
LEMMA CreateBatch ==
    ASSUME BInv, NEW c \in Cids, NEW p \in Priorities, CoroutineCreate(c, p)
    PROVE  BInv'
<1> USE DEF BInv
<1>1. /\ state[c] = "Idle"
      /\ state' = [state EXCEPT ![c] = "Ready"]
      /\ priority' = [priority EXCEPT ![c] = p]
      /\ relateBatchId' = [relateBatchId EXCEPT ![c] = INVALID]
      /\ isInsertBatch' = [isInsertBatch EXCEPT ![c] = FALSE]
      /\ stack' = [stack EXCEPT ![c] = IF @ = "none" THEN "intact" ELSE @]
      /\ barrier' = [barrier EXCEPT ![c] = INVALID]
      /\ UNCHANGED <<batchState, relateId, unfinished, finished, resumeBatch, todo,
                     runningCorouineId, isMasterCoroutine, batchFinishList, status>>
  BY DEF CoroutineCreate, CoroutineInit, Lowest, IdleSlots, batchVars, loopVars,
         switchVars
<1>2. /\ state \in [Cids -> States] /\ priority \in [Cids -> Priorities \cup {0}]
      /\ relateBatchId \in [Cids -> BatchIds \cup {INVALID}]
      /\ isInsertBatch \in [Cids -> BOOLEAN]
      /\ barrier \in [Cids -> BatchIds \cup {INVALID}]
      /\ stack \in [Cids -> {"none", "intact", "overrun"}]
      /\ relateId \in [BatchIds -> Cids \cup {INVALID}]
      /\ unfinished \in [BatchIds -> SUBSET Cids]
      /\ INVALID \notin BatchIds
  BY DEF IInv, TypeOK, BatchIds, INVALID
<1>3. barrier[c] = INVALID /\ isInsertBatch[c] = FALSE
  BY <1>1, <1>2 DEF BarrierOK, OwnerOK
<1>4. IInv'
  BY CreateInv
<1>5. RunOK' /\ BarrierOK' /\ OwnerOK'
  BY <1>1, <1>2, <1>3 DEF RunOK, BarrierOK, OwnerOK
<1>6. BatchOK'
  BY <1>1, <1>2, <1>3 DEF BatchOK
<1>7. MemberOK'
  BY <1>1, <1>2, <1>3 DEF MemberOK
<1>8. TodoOK'
  BY <1>1, <1>2 DEF TodoOK
<1>9. ListOK'
  <2>1. barrier' = barrier
    BY <1>1, <1>2, <1>3
  <2>2. UNCHANGED <<barrier, unfinished, finished, batchFinishList>>
    BY <1>1, <2>1
  <2> QED BY <2>2 DEF ListOK, Listed, Due
<1>10. SlotOK'
  BY <1>1, <1>2 DEF SlotOK
<1> QED BY <1>1, <1>4, <1>5, <1>6, <1>7, <1>8, <1>9, <1>10

\* A coroutine that is added to a batch which is not yet waited for keeps the
\* invariant.
LEMMA AddBatch ==
    ASSUME BInv, RulesKept, NEW c \in Cids, NEW b \in BatchIds,
           NEW p \in Priorities, BatchAdd(c, b, p)
    PROVE  BInv'
<1> USE DEF BInv
<1>1. CoroutineCanCreate /\ batchState[b] = "Ready" /\ relateId[b] = c
  BY DEF BatchAdd, RulesKept
<1> PICK m \in Cids :
      /\ Lowest(m, IdleSlots)
      /\ CoroutineInit(m, p, b)
      /\ activityCnt' = activityCnt + 1
      /\ unfinished' = [unfinished EXCEPT ![b] = @ \cup {m}]
      /\ finished' = [finished EXCEPT ![b] = @ \ {m}]
      /\ UNCHANGED <<batchState, relateId, loopVars, switchVars,
                     stackCheck, batchFinishList, status>>
  BY <1>1 DEF BatchAdd
<1>2. /\ state[m] = "Idle"
      /\ state' = [state EXCEPT ![m] = "Ready"]
      /\ priority' = [priority EXCEPT ![m] = p]
      /\ relateBatchId' = [relateBatchId EXCEPT ![m] = b]
      /\ isInsertBatch' = [isInsertBatch EXCEPT ![m] = FALSE]
      /\ stack' = [stack EXCEPT ![m] = IF @ = "none" THEN "intact" ELSE @]
      /\ barrier' = [barrier EXCEPT ![m] = INVALID]
      /\ UNCHANGED <<resumeBatch, todo, runningCorouineId, isMasterCoroutine>>
  BY DEF CoroutineInit, Lowest, IdleSlots, loopVars, switchVars
<1>3. /\ state \in [Cids -> States] /\ priority \in [Cids -> Priorities \cup {0}]
      /\ relateBatchId \in [Cids -> BatchIds \cup {INVALID}]
      /\ isInsertBatch \in [Cids -> BOOLEAN]
      /\ barrier \in [Cids -> BatchIds \cup {INVALID}]
      /\ stack \in [Cids -> {"none", "intact", "overrun"}]
      /\ relateId \in [BatchIds -> Cids \cup {INVALID}]
      /\ batchState \in [BatchIds -> {"Idle", "Ready", "Run"}]
      /\ unfinished \in [BatchIds -> SUBSET Cids]
      /\ finished \in [BatchIds -> SUBSET Cids]
      /\ INVALID \notin BatchIds
  BY DEF IInv, TypeOK, BatchIds, INVALID
<1>4. barrier[m] = INVALID /\ isInsertBatch[m] = FALSE
  BY <1>2, <1>3 DEF BarrierOK, OwnerOK
<1>5. IInv'
  BY BatchAddInv
<1>6. RunOK' /\ BarrierOK' /\ OwnerOK'
  BY <1>2, <1>3, <1>4 DEF RunOK, BarrierOK, OwnerOK
<1>7. BatchOK'
  BY <1>1, <1>2, <1>3, <1>4 DEF BatchOK
<1>8. MemberOK'
  <2>1. \A x \in BatchIds : m \notin unfinished[x]
    BY <1>2 DEF MemberOK
  <2> QED BY <1>2, <1>3, <1>4, <2>1 DEF MemberOK
<1>9. TodoOK'
  BY <1>2, <1>3 DEF TodoOK
<1>10. ListOK'
  <2>1. \A q \in Cids : barrier[q] # b
    BY <1>1, <1>3 DEF BarrierOK
  <2>2. Due' = Due
    BY <1>2, <1>3, <1>4, <2>1 DEF Due
  <2> QED BY <2>2 DEF ListOK, Listed
<1>11. SlotOK'
  BY <1>2, <1>3 DEF SlotOK
<1> QED BY <1>5, <1>6, <1>7, <1>8, <1>9, <1>10, <1>11

-----------------------------------------------------------------------------
(* What a slave does.                                                      *)

\* A yield outside of BatchInit and BatchRun keeps the invariant.
LEMMA YieldBatch ==
    ASSUME BInv, RulesKept, NEW c \in Cids, CoroutineYield(c)
    PROVE  BInv'
<1> USE DEF BInv
<1>1. /\ state[c] = "Run" /\ isInsertBatch[c] = FALSE
      /\ state' = [state EXCEPT ![c] = "Suspend"]
      /\ isMasterCoroutine' = TRUE
      /\ UNCHANGED <<priority, relateBatchId, isInsertBatch, barrier, batchState,
                     relateId, unfinished, finished, stack, resumeBatch, todo,
                     runningCorouineId, batchFinishList, status>>
  BY DEF CoroutineYield, RulesKept, Running, RunningOK, IInv, TypeOK, ToMaster,
         linkVars, batchVars, memVars
<1>2. state \in [Cids -> States] /\ \A d \in Cids : state[d] = "Run" => d = c
  BY <1>1 DEF IInv, TypeOK, RunOK, CoroutineYield, Running
<1>3. IInv'
  BY YieldInv
<1>4. RunOK' /\ BarrierOK' /\ OwnerOK'
  BY <1>1, <1>2 DEF RunOK, BarrierOK, OwnerOK
<1>5. BatchOK' /\ MemberOK'
  BY <1>1, <1>2 DEF BatchOK, MemberOK
<1>6. TodoOK'
  BY <1>1, <1>2 DEF TodoOK, IInv, TypeOK
<1>7. ListOK'
  BY <1>1 DEF ListOK, Listed, Due
<1>8. SlotOK'
  BY <1>1, <1>2 DEF SlotOK
<1> QED BY <1>1, <1>3, <1>4, <1>5, <1>6, <1>7, <1>8

\* A coroutine that returns keeps the invariant, and no assertion of
\* CoroutineRun fails: the batch of a member that runs is waited for.
LEMMA RunBatch ==
    ASSUME BInv, RulesKept, NEW c \in Cids, CoroutineRun(c)
    PROVE  BInv'
<1> USE DEF BInv
<1> DEFINE b == relateBatchId[c]
<1>1. /\ state[c] = "Run" /\ isInsertBatch[c] = FALSE
      /\ runningCorouineId = c /\ ~isMasterCoroutine
      /\ stack[c] # "overrun"
  BY DEF CoroutineRun, RulesKept, Running, RunningOK, IInv, TypeOK, SlotOK
<1>2. /\ state \in [Cids -> States] /\ batchFinishList \in Seq(Cids)
      /\ batchState \in [BatchIds -> {"Idle", "Ready", "Run"}]
      /\ relateId \in [BatchIds -> Cids \cup {INVALID}]
      /\ unfinished \in [BatchIds -> SUBSET Cids]
      /\ finished \in [BatchIds -> SUBSET Cids]
      /\ relateBatchId \in [Cids -> BatchIds \cup {INVALID}]
      /\ isInsertBatch \in [Cids -> BOOLEAN]
      /\ barrier \in [Cids -> BatchIds \cup {INVALID}]
      /\ INVALID \notin BatchIds /\ b \in BatchIds \cup {INVALID}
  BY DEF IInv, TypeOK, BatchIds, INVALID
<1>3. b # INVALID => c \in unfinished[b] /\ batchState[b] = "Run"
                     /\ relateId[b] \in Cids /\ barrier[relateId[b]] = b
  <2> SUFFICES ASSUME b \in BatchIds
               PROVE  c \in unfinished[b] /\ batchState[b] = "Run"
                      /\ relateId[b] \in Cids /\ barrier[relateId[b]] = b
    BY <1>2
  <2>1. c \in unfinished[b]
    BY <1>1 DEF MemberOK
  <2>2. /\ batchState[b] # "Idle" /\ relateId[b] \in Cids
        /\ isInsertBatch[relateId[b]] /\ relateBatchId[relateId[b]] = b
    BY <2>1 DEF BatchOK
  <2>3. state[relateId[b]] # "Run"
    BY <1>1, <2>2 DEF RunOK
  <2>4. barrier[relateId[b]] = b
    BY <2>2, <2>3 DEF OwnerOK
  <2> QED BY <1>2, <2>1, <2>2, <2>4 DEF BarrierOK
<1>4. /\ state' = [state EXCEPT ![c] = "Idle"]
      /\ relateBatchId' = [relateBatchId EXCEPT ![c] = INVALID]
      /\ isMasterCoroutine' = TRUE
      /\ IF b = INVALID
         THEN UNCHANGED <<unfinished, finished>>
         ELSE /\ unfinished' = [unfinished EXCEPT ![b] = @ \ {c}]
              /\ finished' = [finished EXCEPT ![b] = @ \cup {c}]
      /\ batchFinishList' = FinishListAfter(c, b)
      /\ UNCHANGED <<priority, isInsertBatch, barrier, batchState, relateId,
                     stack, resumeBatch, todo, status>>
  BY <1>1, <1>3 DEF CoroutineRun, Retire, ToMaster, CoroutineStackCheck, memVars
<1>5. IInv'
  BY RunInv
<1> HIDE DEF b
<1>6. /\ b # INVALID => b \in BatchIds
      /\ \A x \in BatchIds : x # b => c \notin unfinished[x]
  BY <1>1, <1>2 DEF MemberOK, b
<1>7. RunOK' /\ BarrierOK' /\ OwnerOK'
  BY <1>1, <1>2, <1>4 DEF RunOK, BarrierOK, OwnerOK
<1>8. BatchOK'
  BY <1>1, <1>2, <1>3, <1>4, <1>6 DEF BatchOK
<1>9. MemberOK'
  <2>1. \A x \in BatchIds : unfinished'[x] = unfinished[x] \ {c}
    BY <1>2, <1>3, <1>4, <1>6
  <2> QED BY <1>1, <1>2, <1>4, <2>1 DEF MemberOK
<1>10. TodoOK'
  <2> SUFFICES ASSUME todo # {}
               PROVE  /\ todo \subseteq unfinished'[resumeBatch]
                      /\ \A m \in todo : state'[m] # "Run"
    BY <1>4 DEF TodoOK
  <2>1. resumeBatch \in BatchIds /\ todo \subseteq unfinished[resumeBatch]
        /\ c \notin todo
    BY <1>1 DEF TodoOK
  <2>2. unfinished[resumeBatch] \ {c} \subseteq unfinished'[resumeBatch]
    BY <1>2, <1>4, <1>6, <2>1
  <2>3. todo \subseteq Cids /\ \A m \in todo : state'[m] = state[m]
    BY <1>2, <1>4, <2>1
  <2> QED BY <2>1, <2>2, <2>3 DEF TodoOK
<1>11. ListOK'
  <2>1. CASE b = INVALID
    <3> batchFinishList' = batchFinishList /\ UNCHANGED <<barrier, unfinished, finished>>
      BY <1>4, <2>1 DEF FinishListAfter
    <3> QED BY DEF ListOK, Listed, Due
  <2>2. CASE b # INVALID /\ unfinished[b] # {c}
    <3>1. batchFinishList' = batchFinishList
      BY <1>3, <1>4, <2>2 DEF FinishListAfter
    <3>2. /\ unfinished'[b] # {} /\ unfinished[b] # {}
          /\ \A x \in BatchIds : x # b => unfinished'[x] = unfinished[x]
                                          /\ finished'[x] = finished[x]
      BY <1>2, <1>3, <1>4, <1>6, <2>2
    <3>3. Due' = Due
      BY <1>2, <1>4, <3>2 DEF Due
    <3> QED BY <3>1, <3>3 DEF ListOK, Listed
  <2>3. CASE b # INVALID /\ unfinished[b] = {c}
    <3> DEFINE p == relateId[b]
    <3>1. p \in Cids /\ batchFinishList' = Append(batchFinishList, p)
      BY <1>3, <1>4, <2>3 DEF FinishListAfter
    <3>2. /\ unfinished'[b] = {} /\ finished'[b] # {} /\ unfinished[b] # {}
          /\ \A x \in BatchIds : x # b => unfinished'[x] = unfinished[x]
                                          /\ finished'[x] = finished[x]
      <4>1. b \in BatchIds /\ c \in unfinished[b]
        BY <1>3, <1>6, <2>3
      <4>2. /\ unfinished' = [unfinished EXCEPT ![b] = @ \ {c}]
            /\ finished' = [finished EXCEPT ![b] = @ \cup {c}]
        BY <1>4, <2>3
      <4>3. unfinished'[b] = unfinished[b] \ {c} /\ finished'[b] = finished[b] \cup {c}
        BY <1>2, <4>1, <4>2
      <4>4. \A x \in BatchIds : x # b => unfinished'[x] = unfinished[x]
                                        /\ finished'[x] = finished[x]
        BY <1>2, <4>2
      <4> QED BY <2>3, <4>1, <4>3, <4>4
    <3>3. \A d \in Cids : barrier[d] = b => d = p
      BY <1>2, <1>3, <2>3 DEF BarrierOK, OwnerOK
    <3>4. p \notin Due /\ Due' = Due \cup {p}
      <4>1. p \notin Due
        BY <1>3, <2>3, <3>2 DEF Due
      <4>2. ASSUME NEW d \in Cids PROVE d \in Due' <=> d \in Due \/ d = p
        BY <1>2, <1>3, <1>4, <1>6, <2>3, <3>2, <3>3 DEF Due
      <4>3. Due \subseteq Cids /\ Due' \subseteq Cids
        BY DEF Due
      <4> HIDE DEF p
      <4> QED BY <3>1, <4>1, <4>2, <4>3
    <3>5. Elements(batchFinishList) = Listed /\ Elements(batchFinishList') = Listed'
      BY DEF Elements, Listed
    <3> HIDE DEF p
    <3> QED BY <1>2, <3>1, <3>4, <3>5, AppendDistinct DEF ListOK
  <2> QED BY <2>1, <2>2, <2>3
<1>12. SlotOK'
  BY <1>2, <1>4 DEF SlotOK
<1> QED BY <1>4, <1>5, <1>7, <1>8, <1>9, <1>10, <1>11, <1>12

\* Opening a batch keeps the invariant: the coroutine is not a member of one.
LEMMA OpenBatch ==
    ASSUME BInv, RulesKept, NEW c \in Cids, NEW b \in BatchIds, BatchInit(c, b)
    PROVE  BInv'
<1> USE DEF BInv
<1>1. /\ state[c] = "Run" /\ relateBatchId[c] = INVALID
      /\ batchState[b] = "Idle"
      /\ batchState' = [batchState EXCEPT ![b] = "Ready"]
      /\ relateId' = [relateId EXCEPT ![b] = c]
      /\ relateBatchId' = [relateBatchId EXCEPT ![c] = b]
      /\ isInsertBatch' = [isInsertBatch EXCEPT ![c] = TRUE]
      /\ UNCHANGED <<state, priority, barrier, unfinished, finished, stack,
                     resumeBatch, todo, runningCorouineId, isMasterCoroutine,
                     batchFinishList, status>>
  BY DEF BatchInit, RulesKept, Running, RunningOK, IInv, TypeOK, Lowest, memVars,
         loopVars, switchVars
<1>2. /\ state \in [Cids -> States]
      /\ batchState \in [BatchIds -> {"Idle", "Ready", "Run"}]
      /\ relateId \in [BatchIds -> Cids \cup {INVALID}]
      /\ relateBatchId \in [Cids -> BatchIds \cup {INVALID}]
      /\ isInsertBatch \in [Cids -> BOOLEAN]
      /\ barrier \in [Cids -> BatchIds \cup {INVALID}]
      /\ INVALID \notin BatchIds
  BY DEF IInv, TypeOK, BatchIds, INVALID
<1>3. isInsertBatch[c] = FALSE /\ barrier[c] = INVALID
  BY <1>1, <1>2 DEF OwnerOK, BarrierOK
<1>4. \A d \in Cids : barrier[d] # b /\ (isInsertBatch[d] => relateBatchId[d] # b)
  BY <1>1, <1>2 DEF OwnerOK, BarrierOK
<1>5. IInv'
  BY BatchInitInv
<1>6. RunOK' /\ BarrierOK' /\ OwnerOK'
  BY <1>1, <1>2, <1>3, <1>4 DEF RunOK, BarrierOK, OwnerOK
<1>7. BatchOK'
  BY <1>1, <1>2, <1>3, <1>4 DEF BatchOK
<1>8. MemberOK'
  <2>1. \A x \in BatchIds : c \notin unfinished[x]
    BY <1>1, <1>2 DEF MemberOK
  <2> QED BY <1>1, <1>2, <1>3, <2>1 DEF MemberOK
<1>9. TodoOK' /\ SlotOK'
  BY <1>1 DEF TodoOK, SlotOK
<1>10. ListOK'
  <2>1. UNCHANGED <<barrier, unfinished, finished, batchFinishList>>
    BY <1>1
  <2> QED BY <2>1 DEF ListOK, Listed, Due
<1> QED BY <1>1, <1>5, <1>6, <1>7, <1>8, <1>9, <1>10

\* Waiting for a batch keeps the invariant: no member has run before.
LEMMA WaitBatch ==
    ASSUME BInv, RulesKept, NEW c \in Cids, NEW b \in BatchIds, BatchRun(c, b)
    PROVE  BInv'
<1> USE DEF BInv
<1>1. /\ state[c] = "Run" /\ batchState[b] = "Ready" /\ relateId[b] = c
      /\ batchState' = [batchState EXCEPT ![b] = "Run"]
      /\ state' = [state EXCEPT ![c] = "Suspend"]
      /\ barrier' = [barrier EXCEPT ![c] = b]
      /\ isMasterCoroutine' = TRUE
      /\ UNCHANGED <<priority, relateBatchId, isInsertBatch, relateId, unfinished,
                     finished, stack, resumeBatch, todo, runningCorouineId,
                     batchFinishList, status>>
  BY DEF BatchRun, RulesKept, Running, RunningOK, IInv, TypeOK, ToMaster, memVars
<1>2. /\ state \in [Cids -> States]
      /\ batchState \in [BatchIds -> {"Idle", "Ready", "Run"}]
      /\ unfinished \in [BatchIds -> SUBSET Cids]
      /\ relateBatchId \in [Cids -> BatchIds \cup {INVALID}]
      /\ barrier \in [Cids -> BatchIds \cup {INVALID}]
      /\ INVALID \notin BatchIds
      /\ todo \subseteq Cids
  BY DEF IInv, TypeOK, BatchIds, INVALID
<1>3. /\ isInsertBatch[c] /\ relateBatchId[c] = b /\ finished[b] = {}
      /\ barrier[c] = INVALID /\ \A d \in Cids : state[d] = "Run" => d = c
  BY <1>1, <1>2 DEF BatchOK, BarrierOK, RunOK
<1>4. IInv'
  BY BatchRunInv
<1>5. RunOK' /\ BarrierOK'
  BY <1>1, <1>2, <1>3 DEF RunOK, BarrierOK
<1>6. OwnerOK'
  <2> SUFFICES ASSUME NEW d \in Cids, isInsertBatch[d]
               PROVE  /\ relateBatchId[d] \in BatchIds /\ relateId[relateBatchId[d]] = d
                      /\ \/ barrier'[d] = relateBatchId[d]
                         \/ state'[d] = "Run" /\ batchState'[relateBatchId[d]] = "Ready"
    BY <1>1 DEF OwnerOK
  <2>1. CASE d = c
    BY <1>1, <1>2, <1>3, <2>1 DEF OwnerOK
  <2>2. CASE d # c
    BY <1>1, <1>2, <1>3, <2>2 DEF OwnerOK
  <2> QED BY <2>1, <2>2
<1>7. BatchOK'
  BY <1>1, <1>2, <1>3 DEF BatchOK
<1>8. MemberOK' /\ TodoOK' /\ SlotOK'
  BY <1>1, <1>2, <1>3 DEF MemberOK, TodoOK, SlotOK
<1>9. ListOK'
  <2>1. Due' = Due
    BY <1>1, <1>2, <1>3 DEF Due
  <2> QED BY <1>1, <2>1 DEF ListOK, Listed
<1> QED BY <1>1, <1>4, <1>5, <1>6, <1>7, <1>8, <1>9

-----------------------------------------------------------------------------
\* After ScheduleInit there is no batch, no member and no entry on the list.
LEMMA InitBatch == Init => BInv
<1> SUFFICES ASSUME Init PROVE BInv
  OBVIOUS
<1>1. RunOK /\ BarrierOK /\ OwnerOK /\ BatchOK /\ MemberOK /\ TodoOK
  BY DEF Init, RunOK, BarrierOK, OwnerOK, BatchOK, MemberOK, TodoOK
<1>2. ListOK
  <2>1. Listed = {} /\ Due = {}
    BY DEF Init, Listed, Due
  <2> QED BY <2>1 DEF Init, ListOK, Distinct
<1>3. SlotOK
  BY DEF Init, SlotOK
<1> QED BY <1>1, <1>2, <1>3, InitInv DEF BInv, Init

\* With equal priorities CoroutineResume chooses a coroutine without a barrier.
LEMMA PickedSlave ==
    ASSUME BInv, RulesKept, NEW c \in Cids, Picked(c)
    PROVE  c \in Runnable /\ ~isInsertBatch[c]
<1> PICK f \in Cids :
      /\ Lowest(f, {d \in Runnable : ~isInsertBatch[d]})
      /\ c \in Runnable /\ c >= f
      /\ \A d \in Runnable : d >= f =>
             \/ priority[c] < priority[d]
             \/ priority[c] = priority[d] /\ c <= d
  BY DEF Picked
<1>1. f \in Runnable /\ ~isInsertBatch[f] /\ c \in Int /\ f \in Int
  BY DEF Lowest, Cids, CoroutineAssumption
<1>2. priority[c] = priority[f] /\ priority[f] \in Nat
  <2> state[c] # "Idle" /\ state[f] # "Idle"
    BY <1>1 DEF Runnable
  <2>1. priority[c] \in Priorities /\ priority[f] \in Priorities
    BY DEF BInv, SlotOK
  <2> QED BY <2>1, CoroutineAssumption DEF RulesKept
<1> QED BY <1>1, <1>2

\* CoroutineResume keeps the invariant.
LEMMA ResumeBatch ==
    ASSUME BInv, RulesKept, NEW c \in Cids, CoroutineResume(c)
    PROVE  BInv'
<1>1. c \in Runnable /\ ~isInsertBatch[c]
  BY PickedSlave DEF CoroutineResume
<1>2. /\ SwitchTo(c) /\ isMasterCoroutine /\ todo' = {}
      /\ UNCHANGED <<resumeBatch, draining, batchFinishList>>
  BY DEF CoroutineResume, MasterFree, loopVars
<1>3. draining' \in BOOLEAN /\ resumeBatch' \in BatchIds \cup {INVALID}
  BY <1>2 DEF BInv, IInv, TypeOK
<1> QED BY <1>1, <1>2, <1>3, SwitchSlave

\* CoroutineResumeById keeps the invariant, for a coroutine that waits for its
\* batch as for any other.
LEMMA ResumeByIdBatch ==
    ASSUME BInv, RulesKept, NEW c \in Cids, CoroutineResumeById(c)
    PROVE  BInv'
<1>1. /\ c \in Runnable /\ c \notin Listed /\ isMasterCoroutine /\ todo = {}
  BY DEF CoroutineResumeById, RulesKept, MasterFree
<1>2. ~BatchNotRun(c)
  BY <1>1 DEF BInv, BatchNotRun, OwnerOK, BarrierOK, RunOK, BatchIds, INVALID
<1>3. /\ Resumable(c) /\ SwitchTo(c)
      /\ UNCHANGED <<resumeBatch, todo, draining, batchFinishList>>
  BY <1>2 DEF CoroutineResumeById, loopVars
<1>4. draining' \in BOOLEAN /\ resumeBatch' \in BatchIds \cup {INVALID}
  BY <1>3 DEF BInv, IInv, TypeOK
<1>5. CASE isInsertBatch[c]
  BY <1>1, <1>3, <1>4, <1>5, SwitchOwner DEF Resumable
<1>6. CASE ~isInsertBatch[c]
  BY <1>1, <1>3, <1>4, <1>6, SwitchSlave
<1> QED BY <1>5, <1>6

\* CoroutineResumeInBatch keeps the invariant.
LEMMA ResumeInBatch ==
    ASSUME BInv, RulesKept, NEW c \in Cids, CoroutineResumeInBatch(c)
    PROVE  BInv'
<1> DEFINE b == relateBatchId[c]
<1>1. b \in BatchIds /\ finished[b] = {} /\ isMasterCoroutine
  BY DEF CoroutineResumeInBatch, RulesKept, MasterFree, BInv, OwnerOK
<1>2. VisitMember(b, unfinished[b])
  <2>1. unfinished[b] \cup finished[b] = unfinished[b]
    BY <1>1
  <2> QED BY <2>1 DEF CoroutineResumeInBatch
<1>3. unfinished[b] \subseteq Cids /\ \A m \in Cids : state[m] # "Run"
  BY <1>1 DEF BInv, IInv, TypeOK, RunOK
<1> HIDE DEF b
<1> QED BY <1>1, <1>2, <1>3, VisitBatch

\* CoroutineResumeBatchFinish keeps the invariant: whoever is on the list can
\* be resumed.
LEMMA ResumeFinishBatch ==
    ASSUME BInv, CoroutineResumeBatchFinish
    PROVE  BInv'
<1> DEFINE c == Head(batchFinishList)
<1>1. /\ batchFinishList \in Seq(Cids) /\ batchFinishList # <<>>
      /\ isMasterCoroutine /\ todo = {}
  BY DEF CoroutineResumeBatchFinish, BInv, IInv, TypeOK
<1>2. c \in Due
  BY <1>1, TailDistinct DEF BInv, ListOK, Listed, Elements
<1>3. /\ c \in Cids /\ c \in Runnable /\ isInsertBatch[c] /\ ~BatchNotRun(c)
      /\ isBatchDone(relateBatchId[c])
  BY <1>2 DEF Due, BInv, BarrierOK, Runnable, BatchNotRun, isBatchDone
<1>4. /\ SwitchTo(c) /\ batchFinishList' = Tail(batchFinishList)
      /\ draining' = TRUE /\ UNCHANGED <<resumeBatch, todo>>
  BY <1>3 DEF CoroutineResumeBatchFinish, Resumable
<1>5. draining' \in BOOLEAN
  BY <1>4, Zenon
<1> QED BY <1>1, <1>3, <1>4, <1>5, SwitchOwner

\* Steps that change neither pools, batches nor the schedule, and damage no
\* stack, keep the invariant.
LEMMA KeepBatch ==
    ASSUME BInv, IInv', \A c \in Cids : stack'[c] # "overrun",
           UNCHANGED <<state, priority, linkVars, batchVars, loopVars, switchVars,
                       batchFinishList, status>>
    PROVE  BInv'
<1> USE DEF BInv, linkVars, batchVars, loopVars, switchVars
<1>1. RunOK' /\ BarrierOK' /\ OwnerOK'
  BY DEF RunOK, BarrierOK, OwnerOK
<1>2. BatchOK' /\ MemberOK' /\ TodoOK'
  BY DEF BatchOK, MemberOK, TodoOK
<1>3. ListOK'
  BY DEF ListOK, Listed, Due
<1>4. SlotOK'
  BY DEF SlotOK
<1> QED BY <1>1, <1>2, <1>3, <1>4

\* Every step of a scheduler whose callers keep the rules keeps the invariant.
LEMMA StepBatch ==
    ASSUME RulesKept
    PROVE  BInv /\ [Next]_vars => BInv'
<1> SUFFICES ASSUME BInv, [Next]_vars PROVE BInv'
  OBVIOUS
<1>0. IInv' /\ \A c \in Cids : stack[c] # "overrun"
  BY StepInv DEF BInv, SlotOK
<1>1. CASE UNCHANGED vars
  BY <1>0, <1>1, KeepBatch DEF vars, memVars
<1>2. CASE \E c \in Cids, p \in Priorities : CoroutineCreate(c, p)
  BY <1>2, CreateBatch
<1>3. CASE \E c \in Cids : CoroutineResume(c)
  BY <1>3, ResumeBatch
<1>4. CASE \E c \in Cids : CoroutineResumeById(c)
  BY <1>4, ResumeByIdBatch
<1>5. CASE \E c \in Cids : CoroutineResumeInBatch(c)
  BY <1>5, ResumeInBatch
<1>6. CASE ResumeRestOfBatch
  <2>1. /\ resumeBatch \in BatchIds /\ todo \in SUBSET unfinished[resumeBatch]
        /\ \A m \in todo : state[m] # "Run"
        /\ VisitMember(resumeBatch, todo) /\ isMasterCoroutine
    BY <1>6 DEF ResumeRestOfBatch, BInv, TodoOK
  <2> QED BY <2>1, VisitBatch
<1>7. CASE CoroutineResumeBatchFinish
  BY <1>7, ResumeFinishBatch
<1>8. CASE \E c \in Cids : CoroutineYield(c) \/ CoroutineRun(c)
  BY <1>8, YieldBatch, RunBatch
<1>9. CASE \E c \in Cids, b \in BatchIds : BatchInit(c, b) \/ BatchRun(c, b)
  BY <1>9, OpenBatch, WaitBatch
<1>10. CASE \E c \in Cids, b \in BatchIds, p \in Priorities : BatchAdd(c, b, p)
  BY <1>10, AddBatch
<1>11. CASE \E c \in Cids, k \in Keys : CoroutineLocalSet(c, k)
  BY <1>0, <1>11, KeepBatch DEF CoroutineLocalSet
<1>12. ASSUME NEW pct \in PctValues, ScheduleTryReleaseMemory(pct) PROVE BInv'
  <2> \A c \in Cids : stack'[c] # "overrun"
    BY <1>0, <1>12 DEF ScheduleTryReleaseMemory
  <2> QED BY <1>0, <1>12, KeepBatch DEF ScheduleTryReleaseMemory
<1>13. ~(\/ \E c \in Cids : Overrun(c)
         \/ ScheduleDisableStackCheck
         \/ ScheduleClean)
  BY DEF RulesKept, Overrun, ScheduleDisableStackCheck, ScheduleClean
<1> QED
  BY <1>1, <1>2, <1>3, <1>4, <1>5, <1>6, <1>7, <1>8, <1>9, <1>10, <1>11,
     <1>12, <1>13 DEF Next, Calls

\* The invariant of batches holds in every state of every such run.
LEMMA BatchAlways ==
    ASSUME RulesKept
    PROVE  Spec => []BInv
<1>1. BInv /\ [Next]_vars => BInv'
  BY StepBatch
<1> QED BY <1>1, InitBatch, PTL DEF Spec

-----------------------------------------------------------------------------
\* Callers that keep the rules never meet a failed assertion: every resume the
\* scheduler asserts succeeds, and batches are in the state it asserts.
THEOREM AssertionsHold ==
    ASSUME RulesKept
    PROVE  Spec => []NoFault
<1>1. BInv => NoFault
  BY DEF BInv, NoFault
<1> QED BY <1>1, BatchAlways, PTL

\* The finish list holds each coroutine whose batch is done, exactly once.
THEOREM WakeUpsExact ==
    ASSUME RulesKept
    PROVE  Spec => []FinishListExact
<1>1. BInv => FinishListExact
  <2> SUFFICES ASSUME BInv PROVE FinishListExact
    OBVIOUS
  <2>1. Listed = Due /\ Distinct(batchFinishList) /\ batchFinishList \in Seq(Cids)
    BY DEF BInv, ListOK, IInv, TypeOK
  <2>2. Cardinality(Listed) = Len(batchFinishList)
    <3>1. batchFinishList \in Bijection(1 .. Len(batchFinishList), Listed)
      <4> DEFINE s == batchFinishList
                 L == Listed
      <4>1. s \in [1 .. Len(s) -> L]
        BY <2>1 DEF Listed
      <4>2. \A i, j \in 1 .. Len(s) : s[i] = s[j] => i = j
        BY <2>1 DEF Distinct
      <4>3. \A x \in L : \E i \in 1 .. Len(s) : s[i] = x
        BY DEF Listed
      <4> HIDE DEF s, L
      <4>4. s \in Bijection(1 .. Len(s), L)
        BY <4>1, <4>2, <4>3 DEF Bijection, Injection, Surjection, IsInjective
      <4> QED BY <4>4 DEF s, L
    <3> QED BY <2>1, <3>1, FS_CountingElements DEF ExistsBijection
  <2> QED BY <2>1, <2>2 DEF FinishListExact, Due
<1> QED BY <1>1, BatchAlways, PTL


\* A step that takes a coroutine out of BatchRun is a resume which has asked
\* whether the batch is done.
LEMMA BarrierLeft ==
    ASSUME BInv, RulesKept, [Next]_vars, NEW p \in Cids,
           barrier[p] # INVALID, barrier'[p] = INVALID
    PROVE  Resumable(p)
<1>1. /\ barrier \in [Cids -> BatchIds \cup {INVALID}]
      /\ state[p] = "Suspend" /\ isInsertBatch[p]
  BY DEF BInv, BarrierOK, IInv, TypeOK
<1>2. ASSUME NEW c \in Cids, SwitchTo(c) PROVE c = p
  BY <1>1, <1>2 DEF SwitchTo, linkVars
<1>3. ASSUME NEW c \in Cids, NEW q, NEW b, c \in IdleSlots, CoroutineInit(c, q, b)
      PROVE  FALSE
  BY <1>1, <1>3 DEF CoroutineInit, IdleSlots
<1>4. CASE UNCHANGED barrier
  BY <1>4
<1>5. CASE \E c \in Cids, q \in Priorities : CoroutineCreate(c, q)
  BY <1>3, <1>5 DEF CoroutineCreate, Lowest
<1>6. CASE \E c \in Cids : CoroutineResume(c)
  BY <1>1, <1>2, <1>6, PickedSlave DEF CoroutineResume
<1>7. CASE \E c \in Cids : CoroutineResumeById(c)
  BY <1>2, <1>4, <1>7 DEF CoroutineResumeById, Abort, linkVars
<1>8. ASSUME NEW b, NEW ms \in SUBSET Cids, VisitMember(b, ms)
      PROVE  Resumable(p)
  BY <1>2, <1>4, <1>8 DEF VisitMember, Abort, linkVars
<1>9. CASE \E c \in Cids : CoroutineResumeInBatch(c)
  <2> PICK c \in Cids : CoroutineResumeInBatch(c)
    BY <1>9
  <2>1. unfinished[relateBatchId[c]] \cup finished[relateBatchId[c]] \in SUBSET Cids
    BY DEF CoroutineResumeInBatch, BInv, OwnerOK, IInv, TypeOK
  <2> QED BY <1>8, <2>1 DEF CoroutineResumeInBatch
<1>10. CASE ResumeRestOfBatch
  BY <1>8, <1>10 DEF ResumeRestOfBatch, BInv, IInv, TypeOK
<1>11. CASE CoroutineResumeBatchFinish
  <2> DEFINE c == Head(batchFinishList)
  <2>1. c \in Cids
    BY <1>11 DEF CoroutineResumeBatchFinish, BInv, IInv, TypeOK
  <2> HIDE DEF c
  <2>2. \/ Abort("batchNotRun") \/ Abort("resumeFailed")
        \/ Resumable(c) /\ SwitchTo(c)
    BY <1>11 DEF CoroutineResumeBatchFinish, c
  <2> QED BY <1>2, <1>4, <2>1, <2>2 DEF Abort, linkVars
<1>12. CASE \E c \in Cids : CoroutineYield(c) \/ CoroutineRun(c)
  BY <1>4, <1>12 DEF CoroutineYield, CoroutineRun, Abort, linkVars
<1>13. CASE \E c \in Cids, b \in BatchIds : BatchInit(c, b) \/ BatchRun(c, b)
  <2> INVALID \notin BatchIds
    BY DEF INVALID, BatchIds
  <2> QED BY <1>1, <1>4, <1>13 DEF BatchInit, BatchRun
<1>14. CASE \E c \in Cids, b \in BatchIds, q \in Priorities : BatchAdd(c, b, q)
  BY <1>3, <1>4, <1>14 DEF BatchAdd, Abort, linkVars, Lowest
<1>15. CASE \/ \E c \in Cids, k \in Keys : CoroutineLocalSet(c, k)
            \/ \E c \in Cids : Overrun(c)
            \/ ScheduleDisableStackCheck
            \/ \E pct \in PctValues : ScheduleTryReleaseMemory(pct)
            \/ ScheduleClean
            \/ UNCHANGED vars
  BY <1>4, <1>15 DEF CoroutineLocalSet, Overrun, ScheduleDisableStackCheck,
     ScheduleTryReleaseMemory, ScheduleClean, vars, linkVars
<1> QED
  BY <1>5, <1>6, <1>7, <1>9, <1>10, <1>11, <1>12, <1>13, <1>14, <1>15 DEF Next, Calls

\* BatchRun is a barrier: no step takes a coroutine out of it while a member of
\* its batch lives.
THEOREM BarrierKept ==
    ASSUME RulesKept
    PROVE  Spec => BarrierHolds
<1>1. BInv /\ [Next]_vars =>
        \A p \in Cids : (barrier[p] # INVALID /\ barrier'[p] = INVALID)
                        => LiveMembers(p) = {}
  <2> SUFFICES ASSUME BInv, [Next]_vars, NEW p \in Cids,
                      barrier[p] # INVALID, barrier'[p] = INVALID
               PROVE  LiveMembers(p) = {}
    OBVIOUS
  <2>1. isInsertBatch[p] /\ relateBatchId[p] = barrier[p] /\ barrier[p] \in BatchIds
    BY DEF BInv, BarrierOK, IInv, TypeOK
  <2>2. unfinished[barrier[p]] = {}
    BY <2>1, BarrierLeft DEF Resumable, isBatchDone
  <2> QED BY <2>1, <2>2 DEF LiveMembers, BInv, MemberOK
<1>2. BInv /\ [Next]_vars =>
        [\A p \in Cids : (barrier[p] # INVALID /\ barrier'[p] = INVALID)
                         => LiveMembers(p) = {}]_vars
  BY <1>1
<1> QED BY <1>2, BatchAlways, PTL DEF Spec, BarrierHolds

-----------------------------------------------------------------------------
(* The scheduler implements ForkJoin.  BInv says what the children of a    *)
(* coroutine are in terms of the batch pool; each action is then one       *)
(* action of ForkJoin or none.                                             *)

\* The children of a coroutine as the batch pool has them.
ChildrenOK ==
    childrenOf = [p \in Cids |-> IF isInsertBatch[p]
                                 THEN unfinished[relateBatchId[p]] ELSE {}]

FJStep == [Abstract!Next]_(Abstract!vars)

\* The unfinished set of the batch that a coroutine has opened is the set of
\* the live coroutines it has added.
LEMMA ChildrenAre ==
    ASSUME BInv
    PROVE  ChildrenOK
<1> SUFFICES ASSUME NEW p \in Cids
             PROVE  childrenOf[p] = IF isInsertBatch[p]
                                    THEN unfinished[relateBatchId[p]] ELSE {}
  BY DEF ChildrenOK, childrenOf
<1>1. CASE isInsertBatch[p]
  <2> relateBatchId[p] \in BatchIds /\ unfinished[relateBatchId[p]] \subseteq Cids
    BY <1>1 DEF BInv, OwnerOK, IInv, TypeOK
  <2> QED BY <1>1 DEF childrenOf, liveTasks, BInv, MemberOK
<1>2. CASE ~isInsertBatch[p]
  BY <1>2 DEF childrenOf
<1> QED BY <1>1, <1>2

\* The same after a step.
LEMMA ChildrenNext ==
    ASSUME BInv'
    PROVE  ChildrenOK'
<1> SUFFICES ASSUME NEW p \in Cids
             PROVE  childrenOf'[p] = IF isInsertBatch'[p]
                                     THEN unfinished'[relateBatchId'[p]] ELSE {}
  BY DEF ChildrenOK, childrenOf
<1>1. CASE isInsertBatch'[p]
  <2> relateBatchId'[p] \in BatchIds /\ unfinished'[relateBatchId'[p]] \subseteq Cids
    BY <1>1 DEF BInv, OwnerOK, IInv, TypeOK
  <2> QED BY <1>1 DEF childrenOf, liveTasks, BInv, MemberOK
<1>2. CASE ~isInsertBatch'[p]
  BY <1>2 DEF childrenOf
<1> QED BY <1>1, <1>2

-----------------------------------------------------------------------------
(* The steps.                                                              *)

\* Resuming the coroutine that waits is Join; resuming another is nothing.
LEMMA SwitchFJ ==
    ASSUME BInv, BInv', NEW c \in Cids, Resumable(c), SwitchTo(c)
    PROVE  FJStep
<1>1. /\ ChildrenOK /\ ChildrenOK'
      /\ state \in [Cids -> States] /\ barrier \in [Cids -> BatchIds \cup {INVALID}]
      /\ unfinished \in [BatchIds -> SUBSET Cids] /\ INVALID \notin BatchIds
      /\ relateBatchId \in [Cids -> BatchIds \cup {INVALID}]
      /\ isInsertBatch \in [Cids -> BOOLEAN]
  BY ChildrenAre, ChildrenNext DEF BInv, IInv, TypeOK, INVALID, BatchIds
<1>2. liveTasks' = liveTasks
  BY <1>1 DEF liveTasks, SwitchTo, Resumable, Runnable
<1>3. CASE barrier[c] = INVALID
  <2> UNCHANGED <<relateBatchId, isInsertBatch, barrier, unfinished>>
    BY <1>3 DEF SwitchTo, linkVars
  <2> childrenOf' = childrenOf /\ waitingTasks' = waitingTasks
    BY <1>1 DEF ChildrenOK, waitingTasks
  <2> QED BY <1>2 DEF FJStep, Abstract!vars
<1>4. CASE barrier[c] # INVALID
  <2> DEFINE b == barrier[c]
  <2>1. /\ b \in BatchIds /\ unfinished[b] = {}
        /\ isInsertBatch[c] /\ relateBatchId[c] = b
    BY <1>1, <1>4 DEF BInv, BarrierOK, Resumable, isBatchDone
  <2>2. /\ unfinished' = [unfinished EXCEPT ![b] = {}]
        /\ relateBatchId' = [relateBatchId EXCEPT ![c] = INVALID]
        /\ isInsertBatch' = [isInsertBatch EXCEPT ![c] = FALSE]
        /\ barrier' = [barrier EXCEPT ![c] = INVALID]
    BY <1>4 DEF SwitchTo
  <2> HIDE DEF b
  <2>3. unfinished' = unfinished
    BY <1>1, <2>1, <2>2
  <2>4. childrenOf' = childrenOf
    BY <1>1, <2>1, <2>2, <2>3 DEF ChildrenOK
  <2>5. c \in waitingTasks /\ childrenOf[c] = {}
    BY <1>1, <1>4, <2>1 DEF waitingTasks, ChildrenOK
  <2>6. waitingTasks' = waitingTasks \ {c}
    BY <1>1, <2>2 DEF waitingTasks
  <2>7. Abstract!Join(c)
    BY <1>2, <2>4, <2>5, <2>6 DEF Abstract!Join
  <2> QED BY <2>7 DEF FJStep, Abstract!Next
<1> QED BY <1>3, <1>4

\* Creating a coroutine is Start.
LEMMA CreateFJ ==
    ASSUME BInv, BInv', NEW c \in Cids, NEW p \in Priorities, CoroutineCreate(c, p)
    PROVE  FJStep
<1>1. /\ ChildrenOK /\ ChildrenOK'
      /\ state \in [Cids -> States] /\ barrier \in [Cids -> BatchIds \cup {INVALID}]
      /\ relateBatchId \in [Cids -> BatchIds \cup {INVALID}]
      /\ isInsertBatch \in [Cids -> BOOLEAN]
  BY ChildrenAre, ChildrenNext DEF BInv, IInv, TypeOK
<1>2. state[c] = "Idle" /\ ~isInsertBatch[c] /\ barrier[c] = INVALID
  BY DEF CoroutineCreate, Lowest, IdleSlots, BInv, OwnerOK, BarrierOK, INVALID,
     BatchIds
<1>3. /\ state' = [state EXCEPT ![c] = "Ready"]
      /\ relateBatchId' = [relateBatchId EXCEPT ![c] = INVALID]
      /\ isInsertBatch' = [isInsertBatch EXCEPT ![c] = FALSE]
      /\ barrier' = [barrier EXCEPT ![c] = INVALID]
      /\ unfinished' = unfinished
  BY DEF CoroutineCreate, CoroutineInit, batchVars
<1>4. c \notin liveTasks /\ liveTasks' = liveTasks \cup {c}
  BY <1>1, <1>2, <1>3 DEF liveTasks
<1>5. childrenOf' = childrenOf
  BY <1>1, <1>2, <1>3 DEF ChildrenOK
<1>6. waitingTasks' = waitingTasks
  BY <1>1, <1>2, <1>3 DEF waitingTasks
<1>7. Abstract!Start(c)
  BY <1>4, <1>5, <1>6 DEF Abstract!Start
<1> QED BY <1>7 DEF FJStep, Abstract!Next

\* Adding to a batch is Fork by the coroutine that opened it.
LEMMA AddFJ ==
    ASSUME BInv, BInv', NEW c \in Cids, NEW b \in BatchIds, NEW p \in Priorities,
           BatchAdd(c, b, p)
    PROVE  FJStep
<1>1. /\ ChildrenOK /\ ChildrenOK'
      /\ state \in [Cids -> States] /\ barrier \in [Cids -> BatchIds \cup {INVALID}]
      /\ unfinished \in [BatchIds -> SUBSET Cids]
      /\ relateBatchId \in [Cids -> BatchIds \cup {INVALID}]
      /\ isInsertBatch \in [Cids -> BOOLEAN]
  BY ChildrenAre, ChildrenNext DEF BInv, IInv, TypeOK
<1>2. /\ state[c] = "Run" /\ barrier[c] = INVALID
      /\ isInsertBatch[c] /\ relateBatchId[c] = b
  BY DEF BatchAdd, Running, BInv, IInv, RunningOK, BatchOK, BarrierOK
<1>3. PICK m \in Cids :
        /\ state[m] = "Idle"
        /\ CoroutineInit(m, p, b)
        /\ unfinished' = [unfinished EXCEPT ![b] = @ \cup {m}]
  BY DEF BatchAdd, Abort, Lowest, IdleSlots, BInv
<1>4. ~isInsertBatch[m] /\ barrier[m] = INVALID /\ m # c
  BY <1>2, <1>3 DEF BInv, OwnerOK, BarrierOK, INVALID, BatchIds
<1>5. /\ state' = [state EXCEPT ![m] = "Ready"]
      /\ relateBatchId' = [relateBatchId EXCEPT ![m] = b]
      /\ isInsertBatch' = [isInsertBatch EXCEPT ![m] = FALSE]
      /\ barrier' = [barrier EXCEPT ![m] = INVALID]
  BY <1>3 DEF CoroutineInit
<1>6. /\ c \in liveTasks \ waitingTasks /\ m \notin liveTasks
      /\ liveTasks' = liveTasks \cup {m}
  BY <1>1, <1>2, <1>3, <1>4, <1>5 DEF liveTasks, waitingTasks
<1>7. \A q \in Cids : isInsertBatch[q] /\ relateBatchId[q] = b => q = c
  BY <1>2 DEF BInv, OwnerOK
<1>8. childrenOf' = [childrenOf EXCEPT ![c] = @ \cup {m}]
  <2>1. ASSUME NEW q \in Cids, q # c PROVE childrenOf'[q] = childrenOf[q]
    <3>1. CASE isInsertBatch[q]
      <4> relateBatchId[q] \in BatchIds \ {b} /\ q # m
        BY <1>4, <1>5, <1>7, <2>1, <3>1 DEF BInv, OwnerOK
      <4> QED BY <1>1, <1>3, <1>4, <1>5, <3>1 DEF ChildrenOK
    <3>2. CASE ~isInsertBatch[q]
      BY <1>1, <1>4, <1>5, <3>2 DEF ChildrenOK
    <3> QED BY <3>1, <3>2
  <2>2. childrenOf'[c] = childrenOf[c] \cup {m}
    BY <1>1, <1>2, <1>3, <1>4, <1>5 DEF ChildrenOK
  <2> QED BY <2>1, <2>2 DEF childrenOf
<1>9. waitingTasks' = waitingTasks
  BY <1>1, <1>4, <1>5 DEF waitingTasks
<1>10. Abstract!Fork(c, m)
  BY <1>6, <1>8, <1>9 DEF Abstract!Fork
<1> QED BY <1>10 DEF FJStep, Abstract!Next

\* BatchRun is Wait.
LEMMA RunBatchFJ ==
    ASSUME BInv, BInv', NEW c \in Cids, NEW b \in BatchIds, BatchRun(c, b)
    PROVE  FJStep
<1>1. /\ ChildrenOK /\ ChildrenOK' /\ state \in [Cids -> States]
      /\ barrier \in [Cids -> BatchIds \cup {INVALID}] /\ INVALID \notin BatchIds
  BY ChildrenAre, ChildrenNext DEF BInv, IInv, TypeOK, INVALID, BatchIds
<1>2. state[c] = "Run" /\ barrier[c] = INVALID
  BY DEF BatchRun, Running, BInv, IInv, RunningOK, BarrierOK
<1>3. /\ state' = [state EXCEPT ![c] = "Suspend"]
      /\ barrier' = [barrier EXCEPT ![c] = b]
      /\ UNCHANGED <<relateBatchId, isInsertBatch, unfinished>>
  BY DEF BatchRun
<1>4. c \in liveTasks \ waitingTasks /\ liveTasks' = liveTasks
  BY <1>1, <1>2, <1>3 DEF liveTasks, waitingTasks
<1>5. childrenOf' = childrenOf
  BY <1>1, <1>3 DEF ChildrenOK
<1>6. waitingTasks' = waitingTasks \cup {c}
  BY <1>1, <1>3 DEF waitingTasks
<1>7. Abstract!Wait(c)
  BY <1>4, <1>5, <1>6 DEF Abstract!Wait
<1> QED BY <1>7 DEF FJStep, Abstract!Next

\* The end of an entry function is Return: the coroutine has no children.
LEMMA RunFJ ==
    ASSUME BInv, BInv', RulesKept, NEW c \in Cids, CoroutineRun(c)
    PROVE  FJStep
<1> DEFINE b == relateBatchId[c]
<1>1. /\ ChildrenOK /\ ChildrenOK' /\ state \in [Cids -> States]
      /\ barrier \in [Cids -> BatchIds \cup {INVALID}]
      /\ unfinished \in [BatchIds -> SUBSET Cids]
      /\ relateBatchId \in [Cids -> BatchIds \cup {INVALID}]
  BY ChildrenAre, ChildrenNext DEF BInv, IInv, TypeOK
<1>2. state[c] = "Run" /\ ~isInsertBatch[c] /\ barrier[c] = INVALID
  BY DEF CoroutineRun, Running, RulesKept, BInv, IInv, RunningOK, BarrierOK
<1>3. /\ state' = [state EXCEPT ![c] = "Idle"]
      /\ relateBatchId' = [relateBatchId EXCEPT ![c] = INVALID]
      /\ IF b = INVALID THEN unfinished' = unfinished
                        ELSE unfinished' = [unfinished EXCEPT ![b] = @ \ {c}]
      /\ UNCHANGED <<isInsertBatch, barrier>>
  BY DEF CoroutineRun, Abort, Retire, BInv
<1>4. c \in liveTasks \ waitingTasks /\ liveTasks' = liveTasks \ {c}
  BY <1>1, <1>2, <1>3 DEF liveTasks, waitingTasks
<1>5. childrenOf[c] = {}
  BY <1>1, <1>2 DEF ChildrenOK
<1>6. ASSUME NEW q \in Cids PROVE childrenOf'[q] = childrenOf[q] \ {c}
  <2>1. CASE ~isInsertBatch[q]
    BY <1>1, <1>3, <2>1 DEF ChildrenOK
  <2>2. CASE isInsertBatch[q]
    <3>1. /\ q # c /\ relateBatchId[q] \in BatchIds
          /\ c \in unfinished[relateBatchId[q]] => b = relateBatchId[q]
      BY <1>2, <2>2 DEF BInv, OwnerOK, MemberOK
    <3>2. /\ childrenOf[q] = unfinished[relateBatchId[q]]
          /\ childrenOf'[q] = unfinished'[relateBatchId[q]]
      BY <1>1, <1>3, <2>2, <3>1 DEF ChildrenOK
    <3>3. /\ b = relateBatchId[q] => b # INVALID
          /\ b \in BatchIds \/ b = INVALID
      BY <1>1, <3>1 DEF INVALID, BatchIds
    <3> HIDE DEF b
    <3> QED BY <1>1, <1>3, <3>1, <3>2, <3>3
  <2> QED BY <2>1, <2>2
<1>7. childrenOf' = [q \in Cids |-> childrenOf[q] \ {c}]
  BY <1>6 DEF childrenOf
<1>8. waitingTasks' = waitingTasks
  BY <1>3 DEF waitingTasks
<1>9. Abstract!Return(c)
  BY <1>4, <1>5, <1>7, <1>8 DEF Abstract!Return
<1> QED BY <1>9 DEF FJStep, Abstract!Next

\* Opening a batch is nothing: the batch is empty.
LEMMA OpenFJ ==
    ASSUME BInv, BInv', RulesKept, NEW c \in Cids, NEW b \in BatchIds, BatchInit(c, b)
    PROVE  FJStep
<1>1. /\ ChildrenOK /\ ChildrenOK'
      /\ relateBatchId \in [Cids -> BatchIds \cup {INVALID}]
      /\ isInsertBatch \in [Cids -> BOOLEAN] /\ INVALID \notin BatchIds
  BY ChildrenAre, ChildrenNext DEF BInv, IInv, TypeOK, INVALID, BatchIds
<1>2. ~isInsertBatch[c] /\ unfinished[b] = {}
  BY <1>1 DEF BatchInit, RulesKept, Lowest, BInv, OwnerOK, BatchOK
<1>3. /\ relateBatchId' = [relateBatchId EXCEPT ![c] = b]
      /\ isInsertBatch' = [isInsertBatch EXCEPT ![c] = TRUE]
      /\ UNCHANGED <<state, barrier, unfinished>>
  BY DEF BatchInit
<1>4. childrenOf' = childrenOf
  BY <1>1, <1>2, <1>3 DEF ChildrenOK
<1> QED BY <1>3, <1>4 DEF FJStep, Abstract!vars, liveTasks, waitingTasks

\* A yield, and what leaves the pools alone, is nothing.
LEMMA KeepFJ ==
    ASSUME BInv, BInv', UNCHANGED <<linkVars, unfinished>>, liveTasks' = liveTasks
    PROVE  FJStep
<1> childrenOf' = childrenOf
  BY ChildrenAre, ChildrenNext DEF ChildrenOK, linkVars
<1> QED BY DEF FJStep, Abstract!vars, waitingTasks, linkVars

-----------------------------------------------------------------------------
\* Every step of the scheduler is a step of ForkJoin or none.
LEMMA StepFJ ==
    ASSUME BInv, BInv', RulesKept, [Next]_vars
    PROVE  FJStep
<1>1. status' = "up" /\ state \in [Cids -> States]
  BY DEF BInv, IInv, TypeOK
<1>2. \A f \in Faults : ~Abort(f)
  BY <1>1 DEF Abort, Faults
<1>3. CASE UNCHANGED vars
  BY <1>3, KeepFJ DEF vars, batchVars, liveTasks
<1>4. CASE \E c \in Cids, p \in Priorities : CoroutineCreate(c, p)
  BY <1>4, CreateFJ
<1>5. CASE \E c \in Cids : CoroutineResume(c)
  BY <1>5, PickedSlave, SwitchFJ DEF CoroutineResume, Resumable
<1>6. CASE \E c \in Cids : CoroutineResumeById(c)
  BY <1>2, <1>6, SwitchFJ DEF CoroutineResumeById, Faults
<1>7. ASSUME NEW b, NEW ms \in SUBSET Cids, VisitMember(b, ms)
      PROVE  FJStep
  BY <1>2, <1>7, SwitchFJ DEF VisitMember, Faults
<1>8. CASE \E c \in Cids : CoroutineResumeInBatch(c)
  <2> PICK c \in Cids : CoroutineResumeInBatch(c)
    BY <1>8
  <2>1. unfinished[relateBatchId[c]] \cup finished[relateBatchId[c]] \in SUBSET Cids
    BY DEF CoroutineResumeInBatch, BInv, OwnerOK, IInv, TypeOK
  <2> QED BY <1>7, <2>1 DEF CoroutineResumeInBatch
<1>9. CASE ResumeRestOfBatch
  BY <1>7, <1>9 DEF ResumeRestOfBatch, BInv, IInv, TypeOK
<1>10. CASE CoroutineResumeBatchFinish
  <2> DEFINE c == Head(batchFinishList)
  <2>1. c \in Cids
    BY <1>10 DEF CoroutineResumeBatchFinish, BInv, IInv, TypeOK
  <2> HIDE DEF c
  <2>2. Resumable(c) /\ SwitchTo(c)
    BY <1>2, <1>10 DEF CoroutineResumeBatchFinish, Faults, c
  <2> QED BY <2>1, <2>2, SwitchFJ
<1>11. ASSUME NEW c \in Cids, CoroutineYield(c) PROVE FJStep
  <2>1. state[c] = "Run" /\ state' = [state EXCEPT ![c] = "Suspend"]
    BY <1>11 DEF CoroutineYield, Running, BInv, IInv, RunningOK
  <2>2. liveTasks' = liveTasks
    BY <1>1, <2>1 DEF liveTasks
  <2> QED BY <1>11, <2>2, KeepFJ DEF CoroutineYield, batchVars
<1>12. CASE \E c \in Cids : CoroutineRun(c)
  BY <1>12, RunFJ
<1>13. CASE \E c \in Cids, b \in BatchIds : BatchInit(c, b) \/ BatchRun(c, b)
  BY <1>13, OpenFJ, RunBatchFJ
<1>14. CASE \E c \in Cids, b \in BatchIds, p \in Priorities : BatchAdd(c, b, p)
  BY <1>14, AddFJ
<1>15. CASE \/ \E c \in Cids, k \in Keys : CoroutineLocalSet(c, k)
            \/ \E c \in Cids : Overrun(c)
            \/ ScheduleDisableStackCheck
            \/ \E pct \in PctValues : ScheduleTryReleaseMemory(pct)
            \/ ScheduleClean
  <2> UNCHANGED <<state, linkVars, unfinished>>
    BY <1>15 DEF CoroutineLocalSet, Overrun, ScheduleDisableStackCheck,
       ScheduleTryReleaseMemory, ScheduleClean, batchVars
  <2> QED BY KeepFJ DEF liveTasks
<1> QED
  BY <1>3, <1>4, <1>5, <1>6, <1>8, <1>9, <1>10, <1>11, <1>12, <1>13, <1>14,
     <1>15 DEF Next, Calls

\* The scheduler implements ForkJoin: pools, resume functions, switches and the
\* finish list together keep what the batch functions promise.
THEOREM KeepsForkJoin ==
    ASSUME RulesKept
    PROVE  Spec => ImplementsForkJoin
<1>1. Init => Abstract!Init
  BY DEF Init, Abstract!Init, liveTasks, childrenOf, waitingTasks
<1>2. BInv /\ [Next]_vars => BInv'
  BY StepBatch
<1>3. BInv /\ BInv' /\ [Next]_vars => [Abstract!Next]_(Abstract!vars)
  BY StepFJ DEF FJStep
<1> QED
  BY <1>1, <1>2, <1>3, BatchAlways, PTL DEF Spec, ImplementsForkJoin, Abstract!Spec
=============================================================================
