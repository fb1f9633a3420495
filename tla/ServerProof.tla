---------------------------- MODULE ServerProof ----------------------------
(***************************************************************************)
(* Theorems of CoroutineServer for every number of connections and of      *)
(* coroutines, every length of requests and responses and every size of    *)
(* the socket's buffer, proved by TLAPS.                                   *)
(*                                                                         *)
(* A step of the server is a step of the scheduler or leaves it alone, so  *)
(* the server inherits every theorem of Coroutine.  Its own invariant is   *)
(* SInv:                                                                   *)
(*                                                                         *)
(*  - Plain: the server opens no batch, so nothing but its state decides   *)
(*    whether a coroutine can be resumed, and no assertion of the          *)
(*    scheduler can fail;                                                  *)
(*  - OneRuns: at most one coroutine is in state Run, the one that has     *)
(*    control;                                                             *)
(*  - CidBinding, the property itself, with SlotServes;                    *)
(*  - ConnOK: how the states of a connection, of its client and of its     *)
(*    handler go together, one predicate per connection;                   *)
(*  - MainOK: main is among its events while a handler runs, and neither   *)
(*    the connection of that handler nor the one main has just created a   *)
(*    coroutine for is among the events still to come.                     *)
(***************************************************************************)
EXTENDS CoroutineServer, CoroutineProof

\* The server's use of the scheduler.
Plain ==
    /\ status = "up" /\ todo = {} /\ ~draining /\ batchFinishList = <<>>
    /\ \A c \in Cids : /\ relateBatchId[c] = INVALID /\ ~isInsertBatch[c]
                       /\ barrier[c] = INVALID /\ stack[c] # "overrun"

OneRuns ==
    \A c \in Cids :
        state[c] = "Run" <=> ~isMasterCoroutine /\ runningCorouineId = c

SlotServes == \A c \in Cids : state[c] # "Idle" => serves[c] \in Conns

\* What a connection has done so far.
Unserved(k) ==
    conn[k] \in {"none", "backlog"} =>
        /\ cid_[k] = INVALID /\ phase[k] = "read" /\ rd[k] = 0 /\ wr[k] = 0

InService(k) ==
    conn[k] = "open" =>
        \/ phase[k] = "read" /\ interest[k] = "in" /\ rd[k] < ReqLen /\ wr[k] = 0
        \/ phase[k] = "write" /\ interest[k] = "out" /\ wr[k] < RespLen

GivenUp(k) ==
    conn[k] = "closed" =>
        \/ wr[k] = RespLen
        \/ client[k] = "reset"
        \/ client[k] = "fin" /\ sentReq[k] < ReqLen

ConnOK(k) ==
    /\ client[k] = "new" <=> conn[k] = "none"
    /\ conn[k] = "open" <=> interest[k] # "none"
    /\ rd[k] <= sentReq[k] /\ got[k] <= wr[k]
    /\ Unserved(k) /\ InService(k) /\ GivenUp(k)

MainOK ==
    /\ ~isMasterCoroutine => pc = "events" /\ serves[runningCorouineId] \notin events
    /\ pc = "wait" => events = {}
    /\ pc = "resume" => /\ current \in Conns /\ current \notin events
                        /\ conn[current] = "open" /\ cid_[current] # INVALID

SInv ==
    /\ ServerTypeOK
    /\ Plain /\ OneRuns
    /\ CidBinding /\ SlotServes
    /\ \A k \in Conns : ConnOK(k)
    /\ EventsLive /\ MainOK

-----------------------------------------------------------------------------
(* The server and the scheduler.                                           *)

\* Every step of the server is a call of the scheduler or leaves it alone.
LEMMA SchedulerStep == [ServerNext]_serverVars => [Next]_vars
<1> SUFFICES ASSUME [ServerNext]_serverVars PROVE [Next]_vars
  OBVIOUS
<1>1. CASE UNCHANGED vars
  BY <1>1
<1>2. CASE \E c \in Cids : CoroutineCreate(c, 0)
  BY <1>2, ServerAssumption DEF Next, Calls
<1>3. CASE \E c \in Cids : \/ CoroutineResumeById(c)
                           \/ CoroutineYield(c) \/ CoroutineRun(c)
  BY <1>3 DEF Next, Calls
<1>4. CASE \E pct \in PctValues : ScheduleTryReleaseMemory(pct)
  BY <1>4 DEF Next
<1>5. ASSUME NEW k \in Conns, ResumeHandler(k) PROVE [Next]_vars
  BY <1>1, <1>3, <1>5 DEF ResumeHandler, Resumable, Runnable
<1>6. ASSUME NEW k \in Conns, CreateHandler(k) PROVE [Next]_vars
  BY <1>1, <1>2, <1>6 DEF CreateHandler
<1>7. ASSUME NEW c \in Cids, handlerClient(c) PROVE [Next]_vars
  BY <1>1, <1>3, <1>7
     DEF handlerClient, HandlerRead, HandlerReadAgain, HandlerReadEnds,
         HandlerWrite, HandlerWriteAgain, HandlerWriteFails
<1>8. CASE EpollWait \/ LoopAccept \/ EndOfRound
  BY <1>1, <1>4, <1>8 DEF EpollWait, LoopAccept, EndOfRound
<1>9. CASE Clients
  BY <1>1, <1>9 DEF Clients, Connect, Send, Take, ShutDown, Reset
<1>10. CASE UNCHANGED serverVars
  BY <1>1, <1>10 DEF serverVars
<1> QED
  BY <1>5, <1>6, <1>7, <1>8, <1>9, <1>10 DEF ServerNext, Server

\* The server uses the scheduler as its specification says, so what holds of
\* every use of the scheduler holds of the server's.
THEOREM UsesScheduler == ServerSpec => Spec
<1>1. ServerInit => Init
  BY DEF ServerInit
<1> QED BY <1>1, SchedulerStep, PTL DEF ServerSpec, Spec

\* CoroutineCreate keeps the server's use of the scheduler plain.
LEMMA PlainCreate ==
    ASSUME TypeOK, Plain, NEW c \in Cids, CoroutineCreate(c, 0)
    PROVE  /\ Plain'
           /\ state[c] = "Idle" /\ state' = [state EXCEPT ![c] = "Ready"]
           /\ UNCHANGED <<runningCorouineId, isMasterCoroutine>>
<1> USE DEF CoroutineCreate, CoroutineInit, loopVars, switchVars
<1>1. Plain'
  BY DEF Plain, TypeOK
<1>2. state[c] = "Idle"
  BY DEF Lowest, IdleSlots
<1> QED BY <1>1, <1>2

\* A coroutine outside of a batch is resumed where it left off.
LEMMA PlainResume ==
    ASSUME TypeOK, Plain, NEW c \in Cids, CoroutineResumeById(c)
    PROVE  /\ Plain'
           /\ state[c] # "Idle" /\ state' = [state EXCEPT ![c] = "Run"]
           /\ isMasterCoroutine
           /\ runningCorouineId' = c /\ isMasterCoroutine' = FALSE
<1>1. ~BatchNotRun(c)
  BY DEF Plain, BatchNotRun
<1>2. SwitchTo(c) /\ UNCHANGED <<loopVars, batchFinishList>>
  BY <1>1 DEF CoroutineResumeById
<1>3. barrier[c] = INVALID
  BY DEF Plain
<1>4. UNCHANGED <<linkVars, stack, status>>
  BY <1>2, <1>3 DEF SwitchTo, memVars
<1>5. Plain'
  BY <1>2, <1>4 DEF Plain, linkVars, loopVars
<1> QED
  BY <1>2, <1>5 DEF SwitchTo, CoroutineResumeById, Runnable, MasterFree

\* A coroutine that yields waits for main.
LEMMA PlainYield ==
    ASSUME TypeOK, Plain, NEW c \in Cids, CoroutineYield(c)
    PROVE  /\ Plain'
           /\ state' = [state EXCEPT ![c] = "Suspend"]
           /\ isMasterCoroutine' = TRUE
<1> USE DEF CoroutineYield, ToMaster
<1>1. Plain'
  <2>1. UNCHANGED <<todo, batchFinishList, linkVars, stack, status>>
    BY DEF memVars
  <2>2. ~draining'
    BY Zenon DEF Plain
  <2> QED BY <2>1, <2>2 DEF Plain, linkVars
<1> QED BY <1>1

\* A handler that returns frees its slot: no assertion of CoroutineRun fails and
\* no batch is waiting for it.
LEMMA PlainRun ==
    ASSUME TypeOK, Plain, NEW c \in Cids, CoroutineRun(c)
    PROVE  /\ Plain'
           /\ state' = [state EXCEPT ![c] = "Idle"]
           /\ isMasterCoroutine' = TRUE
<1>1. relateBatchId[c] = INVALID /\ stack[c] # "overrun" /\ batchFinishList = <<>>
  BY DEF Plain
<1>2. Retire(c) /\ ToMaster(<<>>)
  BY <1>1 DEF CoroutineRun, CoroutineStackCheck, FinishListAfter
<1>3. UNCHANGED <<isInsertBatch, barrier, stack, status>>
  BY <1>1 DEF CoroutineRun, CoroutineStackCheck, memVars
<1>4. ~draining'
  BY <1>2, Zenon DEF ToMaster, Plain
<1>5. Plain'
  BY <1>2, <1>3, <1>4 DEF Plain, TypeOK, Retire, ToMaster
<1> QED BY <1>2, <1>5 DEF Retire, ToMaster

\* Releasing memory changes nothing the server relies on.
LEMMA PlainRelease ==
    ASSUME TypeOK, Plain, NEW pct \in PctValues, ScheduleTryReleaseMemory(pct)
    PROVE  Plain' /\ UNCHANGED <<state, runningCorouineId, isMasterCoroutine>>
<1> USE DEF ScheduleTryReleaseMemory, linkVars, loopVars, switchVars
<1>1. \A c \in Cids : stack'[c] # "overrun"
  BY DEF Plain
<1> QED BY <1>1 DEF Plain

-----------------------------------------------------------------------------
(* What several actions have in common.                                    *)

\* The server starts without clients, connections and coroutines.
LEMMA ServerInitInv == ServerInit => SInv
<1> SUFFICES ASSUME ServerInit PROVE SInv
  OBVIOUS
<1>1. ServerTypeOK
  BY ServerAssumption DEF ServerInit, ServerTypeOK
<1>2. Plain /\ OneRuns
  <2>1. isMasterCoroutine /\ ~draining
    BY Zenon DEF ServerInit, Init
  <2> QED BY <2>1 DEF ServerInit, Init, Plain, OneRuns
<1>3. CidBinding /\ SlotServes
  BY DEF ServerInit, Init, CidBinding, SlotServes
<1>4. \A k \in Conns : ConnOK(k)
  BY DEF ServerInit, ConnOK, Unserved, InService, GivenUp
<1>5. EventsLive /\ MainOK
  <2>1. isMasterCoroutine
    BY Zenon DEF ServerInit, Init
  <2> QED BY <2>1 DEF ServerInit, EventsLive, MainOK
<1> QED BY <1>1, <1>2, <1>3, <1>4, <1>5 DEF SInv

\* A step that leaves the scheduler alone.
LEMMA SchedulerStill ==
    ASSUME Plain, OneRuns, UNCHANGED vars
    PROVE  /\ Plain' /\ OneRuns'
           /\ UNCHANGED <<state, runningCorouineId, isMasterCoroutine>>
<1> USE DEF vars, linkVars, memVars, loopVars, switchVars
<1>1. UNCHANGED <<state, runningCorouineId, isMasterCoroutine>>
  OBVIOUS
<1>2. Plain'
  BY DEF Plain
<1>3. OneRuns'
  BY DEF OneRuns
<1> QED BY <1>1, <1>2, <1>3

\* A step that neither takes nor frees a slot, and opens or closes no
\* connection that has a coroutine.
LEMMA BindingKept ==
    ASSUME ServerTypeOK, CidBinding, SlotServes, UNCHANGED <<cid_, serves>>,
           \A c \in Cids : state'[c] = "Idle" <=> state[c] = "Idle",
           \A k \in Conns : cid_[k] # INVALID => conn'[k] = conn[k]
    PROVE  CidBinding' /\ SlotServes'
<1>1. SlotServes'
  BY DEF SlotServes
<1>2. ASSUME NEW k \in Conns, conn'[k] = "open", cid_[k] # INVALID
      PROVE  state'[cid_[k]] # "Idle" /\ serves[cid_[k]] = k
  <2>1. state[cid_[k]] # "Idle" /\ serves[cid_[k]] = k
    BY <1>2 DEF CidBinding
  <2>2. cid_[k] \in Cids
    BY <1>2 DEF ServerTypeOK
  <2> QED BY <2>1, <2>2
<1>3. ASSUME NEW c \in Cids, state'[c] # "Idle"
      PROVE  conn'[serves[c]] = "open" /\ cid_[serves[c]] = c
  <2>1. conn[serves[c]] = "open" /\ cid_[serves[c]] = c /\ serves[c] \in Conns
    BY <1>3 DEF CidBinding, SlotServes
  <2> QED BY <2>1 DEF Cids, INVALID
<1> QED BY <1>1, <1>2, <1>3 DEF CidBinding

\* A step that leaves the connections, their clients and handlers alone.
LEMMA ConnsKept ==
    ASSUME \A k \in Conns : ConnOK(k),
           UNCHANGED <<clientVars, connVars, phase, rd, wr>>
    PROVE  \A k \in Conns : ConnOK(k)'
  BY DEF ConnOK, Unserved, InService, GivenUp, clientVars, connVars

\* The handler that runs serves an open connection that is not among the events
\* main still has to handle.
LEMMA RunningServes ==
    ASSUME SInv, NEW c \in Cids, Running(c)
    PROVE  /\ ~isMasterCoroutine /\ runningCorouineId = c
           /\ state[c] = "Run" /\ pc = "events"
           /\ serves[c] \in Conns /\ serves[c] \notin events
           /\ conn[serves[c]] = "open" /\ cid_[serves[c]] = c
<1>1. ~isMasterCoroutine /\ runningCorouineId = c
  BY DEF Running
<1>2. state[c] = "Run"
  BY <1>1 DEF SInv, OneRuns
<1>3. serves[c] \in Conns /\ conn[serves[c]] = "open" /\ cid_[serves[c]] = c
  BY <1>2 DEF SInv, CidBinding, SlotServes
<1>4. pc = "events" /\ serves[c] \notin events
  BY <1>1 DEF SInv, MainOK
<1> QED BY <1>1, <1>2, <1>3, <1>4

-----------------------------------------------------------------------------
(* Clients, epoll and accept.                                              *)

\* No step of a client breaks the invariant: a client that has shut down its
\* side sends nothing more, and takes only what was written.
LEMMA ClientsInv == SInv /\ Clients => SInv'
<1> SUFFICES ASSUME SInv, NEW k \in Conns,
                    Connect(k) \/ Send(k) \/ Take(k) \/ ShutDown(k) \/ Reset(k)
             PROVE  SInv'
  BY DEF Clients
<1>0. /\ ServerTypeOK /\ Plain /\ OneRuns /\ CidBinding /\ SlotServes
      /\ EventsLive /\ MainOK /\ ConnOK(k)
  BY DEF SInv
<1>1. /\ UNCHANGED vars
      /\ UNCHANGED <<cid_, interest, serves, phase, rd, wr, pc, events, current, msec>>
  BY DEF Connect, Send, Take, ShutDown, Reset, connVars, handlerVars, mainVars
<1>2. /\ Plain' /\ OneRuns'
      /\ UNCHANGED <<state, runningCorouineId, isMasterCoroutine>>
  BY <1>0, <1>1, SchedulerStill
<1>3. \A j \in Conns : conn'[j] = conn[j] \/ (conn[j] = "none" /\ conn'[j] = "backlog")
  <2>1. CASE Connect(k)
    BY <1>0, <2>1 DEF Connect, ConnOK, ServerTypeOK
  <2>2. CASE ~Connect(k)
    BY <2>2 DEF Send, Take, ShutDown, Reset, connVars
  <2> QED BY <2>1, <2>2
<1>4. ServerTypeOK'
  <2>1. CASE Connect(k)
    BY <1>0, <1>1, <2>1 DEF Connect, ServerTypeOK
  <2>2. CASE Send(k)
    BY <1>0, <1>1, <2>2, ServerAssumption DEF Send, ServerTypeOK, connVars
  <2>3. CASE Take(k)
    BY <1>0, <1>1, <2>3, ServerAssumption DEF Take, ServerTypeOK, connVars
  <2>4. CASE ShutDown(k) \/ Reset(k)
    BY <1>0, <1>1, <2>4 DEF ShutDown, Reset, ServerTypeOK, connVars
  <2> QED BY <2>1, <2>2, <2>3, <2>4
<1>5. CidBinding' /\ SlotServes'
  <2>1. \A j \in Conns : cid_[j] # INVALID => conn'[j] = conn[j]
    BY <1>3 DEF SInv, ConnOK, Unserved
  <2> QED BY <1>0, <1>1, <1>2, <2>1, BindingKept
<1>6. \A j \in Conns : ConnOK(j)'
  <2> SUFFICES ASSUME NEW j \in Conns PROVE ConnOK(j)'
    OBVIOUS
  <2>0. ConnOK(j)
    BY DEF SInv
  <2> USE DEF ConnOK, Unserved, InService, GivenUp
  <2>1. CASE Connect(k)
    BY <1>0, <1>1, <2>0, <2>1 DEF Connect, ServerTypeOK
  <2>2. CASE Send(k)
    BY <1>0, <1>1, <2>0, <2>2 DEF Send, ServerTypeOK, connVars
  <2>3. CASE Take(k)
    BY <1>0, <1>1, <2>0, <2>3 DEF Take, ServerTypeOK, connVars
  <2>4. CASE ShutDown(k) \/ Reset(k)
    BY <1>0, <1>1, <2>0, <2>4 DEF ShutDown, Reset, ServerTypeOK, connVars
  <2> QED BY <2>1, <2>2, <2>3, <2>4
<1>7. EventsLive'
  <2>1. ASSUME NEW j \in events \ {Listen} PROVE conn'[j] = "open"
    <3>1. j \in Conns /\ conn[j] = "open"
      BY <1>0 DEF EventsLive, ServerTypeOK
    <3> QED BY <1>3, <3>1
  <2> QED BY <1>1, <2>1 DEF EventsLive
<1>8. MainOK'
  BY <1>0, <1>1, <1>2, <1>3 DEF MainOK
<1> QED BY <1>2, <1>4, <1>5, <1>6, <1>7, <1>8 DEF SInv

\* The events of a round are of open connections and of the listening socket.
LEMMA EpollWaitInv == SInv /\ EpollWait => SInv'
<1> SUFFICES ASSUME SInv, EpollWait PROVE SInv'
  OBVIOUS
<1>0. /\ ServerTypeOK /\ Plain /\ OneRuns /\ CidBinding /\ SlotServes
      /\ EventsLive /\ MainOK
  BY DEF SInv
<1>1. /\ UNCHANGED vars /\ UNCHANGED <<clientVars, connVars, phase, rd, wr>>
      /\ UNCHANGED <<client, sentReq, got, conn, cid_, interest, serves, current>>
  BY DEF EpollWait, clientVars, connVars, handlerVars
<1>2. /\ Plain' /\ OneRuns'
      /\ UNCHANGED <<state, runningCorouineId, isMasterCoroutine>>
  BY <1>0, <1>1, SchedulerStill
<1>3. /\ pc = "wait" /\ events = {} /\ isMasterCoroutine
      /\ \/ events' = Ready /\ pc' = "events"
         \/ events' = {} /\ pc' = "wait"
  BY <1>0 DEF EpollWait, MainOK
<1>4. /\ Ready \subseteq Conns \cup {Listen}
      /\ \A k \in Ready \ {Listen} : conn[k] = "open"
  BY DEF Ready, ReadyConns
<1>5. ServerTypeOK'
  <2>1. msec' \in {-1, 0}
    BY <1>0 DEF EpollWait, ServerTypeOK
  <2> QED BY <1>0, <1>1, <1>3, <1>4, <2>1 DEF ServerTypeOK
<1>6. CidBinding' /\ SlotServes'
  BY <1>0, <1>1, <1>2, BindingKept
<1>7. \A k \in Conns : ConnOK(k)'
  BY <1>1, ConnsKept DEF SInv
<1>8. EventsLive' /\ MainOK'
  BY <1>1, <1>2, <1>3, <1>4 DEF EventsLive, MainOK
<1> QED BY <1>2, <1>5, <1>6, <1>7, <1>8 DEF SInv

\* LoopAccept opens the connections of the backlog, untouched so far.
LEMMA LoopAcceptInv == SInv /\ LoopAccept => SInv'
<1> SUFFICES ASSUME SInv, LoopAccept PROVE SInv'
  OBVIOUS
<1>0. /\ ServerTypeOK /\ Plain /\ OneRuns /\ CidBinding /\ SlotServes
      /\ EventsLive /\ MainOK
  BY DEF SInv
<1>1. /\ UNCHANGED vars
      /\ UNCHANGED <<client, sentReq, got, cid_, serves, phase, rd, wr, pc, current, msec>>
      /\ events' = events \ {Listen}
      /\ isMasterCoroutine /\ pc = "events"
  BY DEF LoopAccept, clientVars, handlerVars, MasterFree
<1>2. /\ Plain' /\ OneRuns'
      /\ UNCHANGED <<state, runningCorouineId, isMasterCoroutine>>
  BY <1>0, <1>1, SchedulerStill
<1>3. ASSUME NEW k \in Conns
      PROVE  \/ conn[k] = "backlog" /\ conn'[k] = "open" /\ interest'[k] = "in"
             \/ conn[k] # "backlog" /\ conn'[k] = conn[k] /\ interest'[k] = interest[k]
  BY DEF LoopAccept, Backlog
<1>4. ServerTypeOK'
  <2>1. /\ conn' \in [Conns -> {"none", "backlog", "open", "closed"}]
        /\ interest' \in [Conns -> {"none", "in", "out"}]
    BY <1>0 DEF LoopAccept, Backlog, ServerTypeOK
  <2> QED BY <1>0, <1>1, <2>1 DEF ServerTypeOK
<1>5. CidBinding' /\ SlotServes'
  <2>1. \A k \in Conns : cid_[k] # INVALID => conn'[k] = conn[k]
    BY <1>3 DEF SInv, ConnOK, Unserved
  <2> QED BY <1>0, <1>1, <1>2, <2>1, BindingKept
<1>6. ASSUME NEW k \in Conns PROVE ConnOK(k)'
  <2>1. ConnOK(k)
    BY DEF SInv
  <2> QED
    BY <1>1, <1>3, <2>1, ServerAssumption DEF ConnOK, Unserved, InService, GivenUp
<1>7. EventsLive'
  BY <1>0, <1>1, <1>3 DEF EventsLive, ServerTypeOK
<1>8. MainOK'
  BY <1>0, <1>1, <1>2 DEF MainOK
<1> QED BY <1>2, <1>4, <1>5, <1>6, <1>7, <1>8 DEF SInv

-----------------------------------------------------------------------------
(* Main's calls of the scheduler.                                          *)

\* A new coroutine takes an idle slot, which no open connection names, and its
\* connection is no longer among the events when main resumes it.
LEMMA CreateHandlerInv ==
    ASSUME TypeOK, SInv, NEW k \in Conns, CreateHandler(k)
    PROVE  SInv'
<1>0. /\ ServerTypeOK /\ Plain /\ OneRuns /\ CidBinding /\ SlotServes
      /\ EventsLive /\ MainOK
  BY DEF SInv
<1>1. /\ pc = "events" /\ isMasterCoroutine /\ k \in events /\ cid_[k] = INVALID
      /\ events' = events \ {k}
      /\ UNCHANGED <<client, sentReq, got, conn, interest, phase, rd, wr, msec>>
  BY DEF CreateHandler, MasterFree, clientVars
<1>2. conn[k] = "open"
  BY <1>0, <1>1, ServerAssumption DEF EventsLive
<1>3. ASSUME NEW j \in Conns, cid_'[j] = cid_[j] \/ j = k PROVE ConnOK(j)'
  <2>1. ConnOK(j)
    BY DEF SInv
  <2> QED BY <1>1, <1>2, <1>3, <2>1 DEF ConnOK, Unserved, InService, GivenUp
<1>4. EventsLive'
  BY <1>0, <1>1 DEF EventsLive
<1>5. CASE ~CoroutineCanCreate
  <2>1. UNCHANGED vars /\ UNCHANGED <<cid_, serves, current, pc>>
    BY <1>5 DEF CreateHandler
  <2>2. /\ Plain' /\ OneRuns'
        /\ UNCHANGED <<state, runningCorouineId, isMasterCoroutine>>
    BY <1>0, <2>1, SchedulerStill
  <2>3. ServerTypeOK'
    BY <1>0, <1>1, <2>1 DEF ServerTypeOK
  <2>4. CidBinding' /\ SlotServes'
    BY <1>0, <1>1, <2>1, <2>2, BindingKept
  <2>5. MainOK'
    BY <1>0, <1>1, <2>1, <2>2 DEF MainOK
  <2> QED BY <1>3, <1>4, <2>1, <2>2, <2>3, <2>4, <2>5 DEF SInv
<1>6. CASE CoroutineCanCreate
  <2>0. PICK c \in Cids : /\ CoroutineCreate(c, 0)
                          /\ cid_' = [cid_ EXCEPT ![k] = c]
                          /\ serves' = [serves EXCEPT ![c] = k]
    BY <1>6 DEF CreateHandler
  <2>1. current' = k /\ pc' = "resume"
    BY <1>6 DEF CreateHandler
  <2>2. /\ Plain' /\ state[c] = "Idle" /\ state' = [state EXCEPT ![c] = "Ready"]
        /\ UNCHANGED <<runningCorouineId, isMasterCoroutine>>
    BY <1>0, <2>0, PlainCreate
  <2>3. OneRuns'
    BY <1>0, <1>1, <2>2 DEF OneRuns, TypeOK
  <2>4. ServerTypeOK'
    BY <1>0, <1>1, <2>0, <2>1 DEF ServerTypeOK
  <2>5. cid_'[k] = c /\ serves'[c] = k /\ state'[c] = "Ready"
    BY <1>0, <2>0, <2>2 DEF ServerTypeOK, TypeOK
  <2>6. ASSUME NEW j \in Conns, j # k PROVE cid_'[j] = cid_[j]
    BY <1>0, <2>0, <2>6 DEF ServerTypeOK
  <2>7. ASSUME NEW d \in Cids, d # c
        PROVE  serves'[d] = serves[d] /\ state'[d] = state[d]
    BY <1>0, <2>0, <2>2, <2>7 DEF ServerTypeOK, TypeOK
  <2>8. SlotServes'
    BY <1>0, <2>5, <2>7 DEF SlotServes
  <2>9. ASSUME NEW j \in Conns, conn[j] = "open", cid_'[j] # INVALID
        PROVE  state'[cid_'[j]] # "Idle" /\ serves'[cid_'[j]] = j
    <3>1. CASE j = k
      BY <2>5, <3>1
    <3>2. CASE j # k
      <4>1. cid_'[j] = cid_[j] /\ cid_[j] \in Cids
        BY <1>0, <2>6, <2>9, <3>2 DEF ServerTypeOK
      <4>2. state[cid_[j]] # "Idle" /\ serves[cid_[j]] = j
        BY <1>0, <2>9, <4>1 DEF CidBinding
      <4>3. cid_[j] # c
        BY <2>2, <4>2
      <4> QED BY <2>7, <4>1, <4>2, <4>3
    <3> QED BY <3>1, <3>2
  <2>10. ASSUME NEW d \in Cids, state'[d] # "Idle"
         PROVE  conn[serves'[d]] = "open" /\ cid_'[serves'[d]] = d
    <3>1. CASE d = c
      BY <1>2, <2>5, <3>1
    <3>2. CASE d # c
      <4>1. /\ conn[serves[d]] = "open" /\ cid_[serves[d]] = d
            /\ serves[d] \in Conns /\ serves'[d] = serves[d]
        BY <1>0, <2>7, <2>10, <3>2 DEF CidBinding, SlotServes
      <4>2. serves[d] # k
        BY <1>1, <4>1 DEF Cids, INVALID
      <4> QED BY <2>6, <4>1, <4>2
    <3> QED BY <3>1, <3>2
  <2>11. CidBinding'
    BY <1>1, <2>9, <2>10 DEF CidBinding
  <2>12. MainOK'
    <3>1. cid_'[k] # INVALID
      BY <2>5 DEF Cids, INVALID
    <3> QED BY <1>1, <1>2, <2>1, <2>2, <3>1 DEF MainOK
  <2>13. \A j \in Conns : ConnOK(j)'
    BY <1>3, <2>6
  <2> QED BY <1>4, <2>2, <2>3, <2>4, <2>8, <2>11, <2>12, <2>13 DEF SInv
<1> QED BY <1>5, <1>6

\* The coroutine main resumes serves the connection of the event, which is no
\* longer among the events.
LEMMA ResumeHandlerInv ==
    ASSUME TypeOK, SInv, NEW k \in Conns, ResumeHandler(k)
    PROVE  SInv'
<1>0. /\ ServerTypeOK /\ Plain /\ OneRuns /\ CidBinding /\ SlotServes
      /\ EventsLive /\ MainOK
  BY DEF SInv
<1>1. /\ isMasterCoroutine /\ cid_[k] # INVALID
      /\ \/ pc = "resume" /\ current = k
         \/ pc = "events" /\ k \in events
      /\ events' = events \ {k} /\ pc' = "events"
      /\ UNCHANGED <<clientVars, connVars, handlerVars, current, msec>>
  BY DEF ResumeHandler, MasterFree, EventHandled
<1>2. UNCHANGED <<client, sentReq, got, conn, cid_, interest, serves, phase, rd, wr>>
  BY <1>1 DEF clientVars, connVars, handlerVars
<1>3. conn[k] = "open"
  BY <1>0, <1>1, ServerAssumption DEF EventsLive, MainOK
<1>4. cid_[k] \in Cids /\ state[cid_[k]] # "Idle" /\ serves[cid_[k]] = k
  BY <1>0, <1>1, <1>3 DEF CidBinding, ServerTypeOK
<1>5. ServerTypeOK' /\ EventsLive'
  BY <1>0, <1>1, <1>2 DEF ServerTypeOK, EventsLive
<1>6. \A j \in Conns : ConnOK(j)'
  BY <1>1, <1>2, ConnsKept DEF SInv
<1>7. CASE UNCHANGED vars
  <2>1. /\ Plain' /\ OneRuns'
        /\ UNCHANGED <<state, runningCorouineId, isMasterCoroutine>>
    BY <1>0, <1>7, SchedulerStill
  <2>2. CidBinding' /\ SlotServes'
    BY <1>0, <1>2, <2>1, BindingKept
  <2>3. MainOK'
    BY <1>1, <2>1 DEF MainOK
  <2> QED BY <1>5, <1>6, <2>1, <2>2, <2>3 DEF SInv
<1>8. CASE CoroutineResumeById(cid_[k])
  <2> DEFINE c == cid_[k]
  <2>0. c \in Cids /\ CoroutineResumeById(c)
    BY <1>4, <1>8
  <2> HIDE DEF c
  <2>1. /\ Plain' /\ state' = [state EXCEPT ![c] = "Run"]
        /\ runningCorouineId' = c /\ isMasterCoroutine' = FALSE
    BY <1>0, <2>0, PlainResume
  <2>2. OneRuns'
    BY <1>0, <1>1, <2>0, <2>1 DEF OneRuns, TypeOK
  <2>3. \A d \in Cids : state'[d] = "Idle" <=> state[d] = "Idle"
    BY <1>4, <2>1 DEF TypeOK, c
  <2>4. CidBinding' /\ SlotServes'
    BY <1>0, <1>2, <2>3, BindingKept
  <2>5. serves'[runningCorouineId'] \notin events'
    BY <1>1, <1>2, <1>4, <2>1 DEF c
  <2>6. MainOK'
    BY <1>1, <2>5 DEF MainOK
  <2> QED BY <1>5, <1>6, <2>1, <2>2, <2>4, <2>6 DEF SInv
<1> QED BY <1>7, <1>8 DEF ResumeHandler

\* The end of a round frees stacks, and no slot.
LEMMA EndOfRoundInv ==
    ASSUME TypeOK, SInv, EndOfRound
    PROVE  SInv'
<1>0. /\ ServerTypeOK /\ Plain /\ OneRuns /\ CidBinding /\ SlotServes
      /\ EventsLive /\ MainOK
  BY DEF SInv
<1>1. /\ isMasterCoroutine /\ events = {} /\ pc' = "wait"
      /\ UNCHANGED <<events, current, msec, clientVars, connVars, handlerVars>>
  BY DEF EndOfRound, MasterFree
<1>2. UNCHANGED <<client, sentReq, got, conn, cid_, interest, serves, phase, rd, wr>>
  BY <1>1 DEF clientVars, connVars, handlerVars
<1>3. Plain' /\ UNCHANGED <<state, runningCorouineId, isMasterCoroutine>>
  BY <1>0, SchedulerStill, PlainRelease DEF EndOfRound
<1>4. OneRuns'
  BY <1>0, <1>3 DEF OneRuns
<1>5. CidBinding' /\ SlotServes'
  BY <1>0, <1>2, <1>3, BindingKept
<1>6. \A j \in Conns : ConnOK(j)'
  BY <1>1, <1>2, ConnsKept DEF SInv
<1>7. ServerTypeOK' /\ EventsLive' /\ MainOK'
  BY <1>0, <1>1, <1>2, <1>3 DEF ServerTypeOK, EventsLive, MainOK
<1> QED BY <1>3, <1>4, <1>5, <1>6, <1>7 DEF SInv

-----------------------------------------------------------------------------
(* The handler.                                                            *)

\* A handler that waits for its next event, or goes on without leaving its
\* connection, changes no binding.
LEMMA HandlerStays ==
    ASSUME TypeOK, SInv, NEW c \in Cids, Running(c),
           UNCHANGED vars \/ CoroutineYield(c),
           UNCHANGED <<conn, cid_, serves, mainVars>>
    PROVE  /\ Plain' /\ OneRuns' /\ CidBinding' /\ SlotServes'
           /\ EventsLive' /\ MainOK'
<1>0. /\ ServerTypeOK /\ Plain /\ OneRuns /\ CidBinding /\ SlotServes
      /\ EventsLive /\ MainOK
  BY DEF SInv
<1>1. UNCHANGED <<pc, events, current, msec>>
  BY DEF mainVars
<1>2. /\ ~isMasterCoroutine /\ runningCorouineId = c /\ state[c] = "Run"
      /\ pc = "events"
  BY RunningServes
<1>3. EventsLive'
  BY <1>0, <1>1 DEF EventsLive
<1>4. CASE UNCHANGED vars
  <2>1. /\ Plain' /\ OneRuns'
        /\ UNCHANGED <<state, runningCorouineId, isMasterCoroutine>>
    BY <1>0, <1>4, SchedulerStill
  <2>2. CidBinding' /\ SlotServes'
    BY <1>0, <2>1, BindingKept
  <2>3. MainOK'
    BY <1>0, <1>1, <2>1 DEF MainOK
  <2> QED BY <1>3, <2>1, <2>2, <2>3
<1>5. CASE CoroutineYield(c)
  <2>1. /\ Plain' /\ state' = [state EXCEPT ![c] = "Suspend"]
        /\ isMasterCoroutine' = TRUE
    BY <1>0, <1>5, PlainYield
  <2>2. OneRuns'
    BY <1>0, <1>2, <2>1 DEF OneRuns, TypeOK
  <2>3. \A d \in Cids : state'[d] = "Idle" <=> state[d] = "Idle"
    BY <1>2, <2>1 DEF TypeOK
  <2>4. CidBinding' /\ SlotServes'
    BY <1>0, <2>3, BindingKept
  <2>5. MainOK'
    BY <1>1, <1>2, <2>1 DEF MainOK
  <2> QED BY <1>3, <2>1, <2>2, <2>4, <2>5
<1> QED BY <1>4, <1>5

\* A handler that returns after releaseConn takes the connection and the slot
\* out of the binding together.
LEMMA HandlerReturns ==
    ASSUME TypeOK, SInv, NEW c \in Cids, Running(c),
           releaseConn(serves[c]), CoroutineRun(c),
           UNCHANGED <<serves, mainVars>>
    PROVE  /\ Plain' /\ OneRuns' /\ CidBinding' /\ SlotServes'
           /\ EventsLive' /\ MainOK'
<1>0. /\ ServerTypeOK /\ Plain /\ OneRuns /\ CidBinding /\ SlotServes
      /\ EventsLive /\ MainOK
  BY DEF SInv
<1>1. UNCHANGED <<pc, events, current, msec>>
  BY DEF mainVars
<1> DEFINE k == serves[c]
<1>2. /\ ~isMasterCoroutine /\ runningCorouineId = c /\ pc = "events"
      /\ k \in Conns /\ k \notin events /\ conn[k] = "open" /\ cid_[k] = c
  BY RunningServes
<1>3. conn' = [conn EXCEPT ![k] = "closed"] /\ cid_' = cid_
  BY DEF releaseConn
<1> HIDE DEF k
<1>4. /\ Plain' /\ state' = [state EXCEPT ![c] = "Idle"]
      /\ isMasterCoroutine' = TRUE
  BY <1>0, PlainRun
<1>5. OneRuns'
  BY <1>0, <1>2, <1>4 DEF OneRuns, TypeOK
<1>6. conn'[k] = "closed" /\ \A j \in Conns : j # k => conn'[j] = conn[j]
  BY <1>0, <1>2, <1>3 DEF ServerTypeOK
<1>7. state'[c] = "Idle" /\ \A d \in Cids : d # c => state'[d] = state[d]
  BY <1>4 DEF TypeOK
<1>8. SlotServes'
  BY <1>0, <1>7 DEF SlotServes
<1>9. ASSUME NEW j \in Conns, conn'[j] = "open", cid_[j] # INVALID
      PROVE  state'[cid_[j]] # "Idle" /\ serves[cid_[j]] = j
  <2>1. j # k /\ conn[j] = "open" /\ cid_[j] \in Cids
    BY <1>0, <1>6, <1>9 DEF ServerTypeOK
  <2>2. state[cid_[j]] # "Idle" /\ serves[cid_[j]] = j
    BY <1>0, <1>9, <2>1 DEF CidBinding
  <2>3. cid_[j] # c
    BY <2>1, <2>2 DEF k
  <2> QED BY <1>7, <2>1, <2>2, <2>3
<1>10. ASSUME NEW d \in Cids, state'[d] # "Idle"
       PROVE  conn'[serves[d]] = "open" /\ cid_[serves[d]] = d
  <2>1. d # c /\ state[d] # "Idle"
    BY <1>7, <1>10
  <2>2. serves[d] \in Conns /\ conn[serves[d]] = "open" /\ cid_[serves[d]] = d
    BY <1>0, <2>1 DEF CidBinding, SlotServes
  <2>3. serves[d] # k
    BY <1>2, <2>1, <2>2
  <2> QED BY <1>6, <2>2, <2>3
<1>11. CidBinding'
  BY <1>3, <1>9, <1>10 DEF CidBinding
<1>12. EventsLive'
  BY <1>0, <1>1, <1>2, <1>6 DEF EventsLive, ServerTypeOK
<1>13. MainOK'
  BY <1>1, <1>2, <1>4 DEF MainOK
<1> QED BY <1>4, <1>5, <1>8, <1>11, <1>12, <1>13

\* A read that returns a piece brings the request one piece nearer its end; with
\* the last piece the connection turns to writing.
LEMMA HandlerReadInv ==
    ASSUME TypeOK, SInv, NEW c \in Cids, HandlerRead(c)
    PROVE  SInv'
<1> DEFINE k == serves[c]
<1>0. ServerTypeOK /\ \A j \in Conns : ConnOK(j)
  BY DEF SInv
<1>1. Running(c) /\ phase[k] = "read" /\ rd[k] < sentReq[k]
  BY DEF HandlerRead, HandlerAt
<1>2. /\ UNCHANGED <<vars, conn, cid_, serves, wr, mainVars>>
      /\ UNCHANGED <<client, sentReq, got, pc, events, current, msec>>
      /\ rd' = [rd EXCEPT ![k] = @ + 1]
  BY DEF HandlerRead, clientVars, mainVars
<1>3. /\ Plain' /\ OneRuns' /\ CidBinding' /\ SlotServes'
      /\ EventsLive' /\ MainOK'
  BY <1>1, <1>2, HandlerStays
<1>4. \/ rd[k] + 1 < ReqLen /\ UNCHANGED <<interest, phase>>
      \/ /\ ~(rd[k] + 1 < ReqLen)
         /\ phase' = [phase EXCEPT ![k] = "write"]
         /\ interest' = [interest EXCEPT ![k] = "out"]
  BY DEF HandlerRead, ModToWriteEvent
<1>5. k \in Conns /\ conn[k] = "open"
  BY <1>1, RunningServes
<1> HIDE DEF k
<1>6. ServerTypeOK'
  <2>1. rd' \in [Conns -> 0 .. ReqLen]
    BY <1>0, <1>1, <1>2, <1>5, ServerAssumption DEF ServerTypeOK
  <2>2. /\ phase' \in [Conns -> {"read", "write"}]
        /\ interest' \in [Conns -> {"none", "in", "out"}]
    BY <1>0, <1>4 DEF ServerTypeOK
  <2> QED BY <1>0, <1>2, <2>1, <2>2 DEF ServerTypeOK
<1>7. ASSUME NEW j \in Conns PROVE ConnOK(j)'
  <2>1. CASE j = k
    BY <1>0, <1>1, <1>2, <1>4, <1>5, <2>1, ServerAssumption
       DEF ConnOK, Unserved, InService, GivenUp, ServerTypeOK
  <2>2. CASE j # k
    BY <1>0, <1>2, <1>4, <2>2
       DEF ConnOK, Unserved, InService, GivenUp, ServerTypeOK
  <2> QED BY <2>1, <2>2
<1> QED BY <1>3, <1>6, <1>7 DEF SInv

\* A handler that finds nothing to read or no room to write yields, and leaves
\* the interest of its connection as it is.
LEMMA HandlerAgainInv ==
    ASSUME TypeOK, SInv, NEW c \in Cids, HandlerReadAgain(c) \/ HandlerWriteAgain(c)
    PROVE  SInv'
<1>1. /\ Running(c) /\ CoroutineYield(c)
      /\ UNCHANGED <<clientVars, connVars, handlerVars, mainVars>>
  BY DEF HandlerReadAgain, HandlerWriteAgain, HandlerAt
<1>2. UNCHANGED <<client, sentReq, got, conn, cid_, interest, serves, phase,
                  rd, wr, pc, events, current, msec>>
  BY <1>1 DEF clientVars, connVars, handlerVars, mainVars
<1>3. /\ Plain' /\ OneRuns' /\ CidBinding' /\ SlotServes'
      /\ EventsLive' /\ MainOK'
  BY <1>1, <1>2, HandlerStays
<1>4. ServerTypeOK'
  BY <1>2 DEF SInv, ServerTypeOK
<1>5. \A j \in Conns : ConnOK(j)'
  BY <1>1, <1>2, ConnsKept DEF SInv
<1> QED BY <1>3, <1>4, <1>5 DEF SInv

\* A handler gives up only a client that is gone: one that has shut down its
\* side before the request was complete, or one that has reset the connection.
LEMMA HandlerFailsInv ==
    ASSUME TypeOK, SInv, NEW c \in Cids, HandlerReadEnds(c) \/ HandlerWriteFails(c)
    PROVE  SInv'
<1> DEFINE k == serves[c]
<1>0. ServerTypeOK /\ \A j \in Conns : ConnOK(j)
  BY DEF SInv
<1>1. /\ Running(c) /\ CoroutineRun(c) /\ releaseConn(k)
      /\ UNCHANGED <<client, sentReq, got, serves, phase, rd, wr>>
      /\ UNCHANGED mainVars
  BY DEF HandlerReadEnds, HandlerWriteFails, HandlerAt, clientVars, handlerVars
<1>2. \/ client[k] = "reset"
      \/ phase[k] = "read" /\ client[k] = "fin" /\ rd[k] = sentReq[k]
  BY DEF HandlerReadEnds, HandlerWriteFails, HandlerAt, ReadEnds
<1>3. /\ Plain' /\ OneRuns' /\ CidBinding' /\ SlotServes'
      /\ EventsLive' /\ MainOK'
  BY <1>1, HandlerReturns
<1>4. k \in Conns /\ conn[k] = "open"
  BY <1>1, RunningServes
<1>5. /\ conn' = [conn EXCEPT ![k] = "closed"]
      /\ interest' = [interest EXCEPT ![k] = "none"] /\ cid_' = cid_
      /\ UNCHANGED <<pc, events, current, msec>>
  BY <1>1 DEF releaseConn, mainVars
<1> HIDE DEF k
<1>6. ServerTypeOK'
  BY <1>0, <1>1, <1>5 DEF ServerTypeOK
<1>7. ASSUME NEW j \in Conns PROVE ConnOK(j)'
  <2>1. CASE j = k
    BY <1>0, <1>1, <1>2, <1>4, <1>5, <2>1, ServerAssumption
       DEF ConnOK, Unserved, InService, GivenUp, ServerTypeOK
  <2>2. CASE j # k
    BY <1>0, <1>1, <1>5, <2>2
       DEF ConnOK, Unserved, InService, GivenUp, ServerTypeOK
  <2> QED BY <2>1, <2>2
<1> QED BY <1>3, <1>6, <1>7 DEF SInv

\* A write sends a piece, and the last one ends the handler with the whole
\* response written.
LEMMA HandlerWriteInv ==
    ASSUME TypeOK, SInv, NEW c \in Cids, HandlerWrite(c)
    PROVE  SInv'
<1> DEFINE k == serves[c]
<1>0. ServerTypeOK /\ \A j \in Conns : ConnOK(j)
  BY DEF SInv
<1>1. /\ Running(c) /\ phase[k] = "write"
      /\ wr' = [wr EXCEPT ![k] = @ + 1]
      /\ UNCHANGED <<client, sentReq, got, serves, phase, rd>>
      /\ UNCHANGED mainVars
  BY DEF HandlerWrite, HandlerAt, clientVars
<1>2. /\ k \in Conns /\ conn[k] = "open"
      /\ UNCHANGED <<pc, events, current, msec>>
  BY <1>1, RunningServes DEF mainVars
<1>3. wr[k] < RespLen
  BY <1>0, <1>1, <1>2 DEF ConnOK, InService
<1>4. CASE AllSent(k)
  <2>1. releaseConn(k) /\ CoroutineRun(c)
    BY <1>4 DEF HandlerWrite
  <2>2. /\ Plain' /\ OneRuns' /\ CidBinding' /\ SlotServes'
        /\ EventsLive' /\ MainOK'
    BY <1>1, <2>1, HandlerReturns
  <2>3. /\ conn' = [conn EXCEPT ![k] = "closed"]
        /\ interest' = [interest EXCEPT ![k] = "none"] /\ cid_' = cid_
    BY <2>1 DEF releaseConn
  <2>4. wr[k] + 1 = RespLen
    BY <1>4 DEF AllSent
  <2> HIDE DEF k
  <2>5. ServerTypeOK'
    BY <1>0, <1>1, <1>2, <1>3, <2>3, ServerAssumption DEF ServerTypeOK
  <2>6. ASSUME NEW j \in Conns PROVE ConnOK(j)'
    <3>1. CASE j = k
      BY <1>0, <1>1, <1>2, <2>3, <2>4, <3>1, ServerAssumption
         DEF ConnOK, Unserved, InService, GivenUp, ServerTypeOK
    <3>2. CASE j # k
      BY <1>0, <1>1, <2>3, <3>2
         DEF ConnOK, Unserved, InService, GivenUp, ServerTypeOK
    <3> QED BY <3>1, <3>2
  <2> QED BY <2>2, <2>5, <2>6 DEF SInv
<1>5. CASE ~AllSent(k)
  <2>1. UNCHANGED vars /\ UNCHANGED <<conn, cid_, interest>>
    BY <1>5 DEF HandlerWrite, connVars
  <2>2. /\ Plain' /\ OneRuns' /\ CidBinding' /\ SlotServes'
        /\ EventsLive' /\ MainOK'
    BY <1>1, <2>1, HandlerStays
  <2>3. wr[k] + 1 # RespLen
    BY <1>5 DEF AllSent
  <2> HIDE DEF k
  <2>4. ServerTypeOK'
    BY <1>0, <1>1, <1>2, <1>3, <2>1, ServerAssumption DEF ServerTypeOK
  <2>5. ASSUME NEW j \in Conns PROVE ConnOK(j)'
    <3>1. CASE j = k
      BY <1>0, <1>1, <1>2, <1>3, <2>1, <2>3, <3>1, ServerAssumption
         DEF ConnOK, Unserved, InService, GivenUp, ServerTypeOK
    <3>2. CASE j # k
      BY <1>0, <1>1, <2>1, <3>2
         DEF ConnOK, Unserved, InService, GivenUp, ServerTypeOK
    <3> QED BY <3>1, <3>2
  <2> QED BY <2>2, <2>4, <2>5 DEF SInv
<1> QED BY <1>4, <1>5

-----------------------------------------------------------------------------
(* The theorems.                                                           *)

\* Every step of the server keeps the invariant.
LEMMA ServerStepInv == TypeOK /\ SInv /\ [ServerNext]_serverVars => SInv'
<1> SUFFICES ASSUME TypeOK, SInv, [ServerNext]_serverVars PROVE SInv'
  OBVIOUS
<1>1. CASE UNCHANGED serverVars
  <2>1. /\ UNCHANGED vars /\ UNCHANGED <<clientVars, connVars, phase, rd, wr>>
        /\ UNCHANGED <<client, sentReq, got, conn, cid_, interest, serves,
                       pc, events, current, msec>>
    BY <1>1 DEF serverVars, clientVars, connVars, handlerVars, mainVars
  <2>2. /\ Plain' /\ OneRuns'
        /\ UNCHANGED <<state, runningCorouineId, isMasterCoroutine>>
    BY <2>1, SchedulerStill DEF SInv
  <2>3. CidBinding' /\ SlotServes'
    BY <2>1, <2>2, BindingKept DEF SInv
  <2>4. \A j \in Conns : ConnOK(j)'
    BY <2>1, ConnsKept DEF SInv
  <2>5. ServerTypeOK' /\ EventsLive' /\ MainOK'
    BY <2>1, <2>2 DEF SInv, ServerTypeOK, EventsLive, MainOK
  <2> QED BY <2>2, <2>3, <2>4, <2>5 DEF SInv
<1>2. CASE Clients
  BY <1>2, ClientsInv
<1>3. CASE EpollWait \/ LoopAccept \/ EndOfRound
  BY <1>3, EpollWaitInv, LoopAcceptInv, EndOfRoundInv
<1>4. CASE \E k \in Conns : CreateHandler(k) \/ ResumeHandler(k)
  BY <1>4, CreateHandlerInv, ResumeHandlerInv
<1>5. CASE \E c \in Cids : handlerClient(c)
  BY <1>5, HandlerReadInv, HandlerAgainInv, HandlerFailsInv, HandlerWriteInv
     DEF handlerClient
<1> QED BY <1>1, <1>2, <1>3, <1>4, <1>5 DEF ServerNext, Server

\* The invariant holds in every state of every run; the types of the scheduler
\* come from the scheduler's own theorem.
LEMMA ServerInvAlways == ServerSpec => []SInv
<1>1. ServerSpec => []TypeOK
  BY UsesScheduler, TypeCorrect, PTL
<1> QED BY <1>1, ServerInitInv, ServerStepInv, PTL DEF ServerSpec

\* No piece is read or written beyond what was sent and what belongs to the
\* response, and every id, event and position of main keeps its range.
THEOREM ServerTypeCorrect == ServerSpec => []ServerTypeOK
<1>1. SInv => ServerTypeOK
  BY DEF SInv
<1> QED BY <1>1, ServerInvAlways, PTL

\* The coroutine an open connection remembers is live and serves it, and no
\* live coroutine serves a closed or another connection, however often the
\* slots of the pool change hands.
THEOREM BindingsHold == ServerSpec => []CidBinding
<1>1. SInv => CidBinding
  BY DEF SInv
<1> QED BY <1>1, ServerInvAlways, PTL

\* No event main still has to handle is of a connection a handler has closed
\* and deleted in this round.
THEOREM EventsStayLive == ServerSpec => []EventsLive
<1>1. SInv => EventsLive
  BY DEF SInv
<1> QED BY <1>1, ServerInvAlways, PTL

\* A handler that has yielded finds its connection registered for the event it
\* needs next.
THEOREM WaitsAreRight == ServerSpec => []WaitsForItsEvent
<1>1. ASSUME SInv PROVE WaitsForItsEvent
  <2> SUFFICES ASSUME NEW c \in Cids, state[c] = "Suspend"
               PROVE  interest[serves[c]] =
                         (IF phase[serves[c]] = "read" THEN "in" ELSE "out")
    BY DEF WaitsForItsEvent
  <2>1. serves[c] \in Conns /\ conn[serves[c]] = "open"
    BY <1>1 DEF SInv, CidBinding, SlotServes
  <2> QED BY <1>1, <2>1 DEF SInv, ConnOK, InService
<1> QED BY <1>1, ServerInvAlways, PTL

\* A client that has sent its whole request and is still there has all of the
\* response when the server closes its connection.
THEOREM RepliesAreWhole == ServerSpec => []ReplyUnlessGone
<1>1. ASSUME SInv PROVE ReplyUnlessGone
  <2> SUFFICES ASSUME NEW k \in Conns, conn[k] = "closed",
                      sentReq[k] = ReqLen, client[k] # "reset"
               PROVE  wr[k] = RespLen
    BY DEF ReplyUnlessGone
  <2>1. GivenUp(k)
    BY <1>1 DEF SInv, ConnOK
  <2> QED BY <2>1, ServerAssumption DEF GivenUp
<1> QED BY <1>1, ServerInvAlways, PTL

\* The server never fails an assertion of the scheduler and its handlers, which
\* stay on their stacks, are never stopped by the stack check: the process goes
\* on whatever the clients do.
THEOREM NeverAborts == ServerSpec => []NoFault
<1>1. SInv => NoFault
  BY DEF SInv, Plain, NoFault
<1> QED BY <1>1, ServerInvAlways, PTL
=============================================================================
