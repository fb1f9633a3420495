-------------------------------- MODULE Hsha --------------------------------
(***************************************************************************)
(* The half-sync half-async server of src/epoll_reactor_threadpoll_hsha:   *)
(* io threads, each with its own listening socket and epoll, read requests *)
(* and put connections on a shared queue; worker threads take them off,    *)
(* encode the response and either send it (directSend) or give the         *)
(* connection back to its io thread.                                       *)
(*                                                                         *)
(* A thread takes a step per system call and per critical section of       *)
(* Mutex; Cond.wait gives up Mutex and starts waiting in one step.         *)
(***************************************************************************)
EXTENDS EpollConn

CONSTANTS
    IoThreads,
    Workers,
    Listen,     \* the Conn of a listening socket
    NoConn      \* no connection is being handled

ASSUME HshaAssumption ==
    /\ Listen \notin Conns /\ NoConn \notin Conns \cup {Listen}
    /\ IoThreads # {} /\ IsFiniteSet(IoThreads)
    /\ Workers # {} /\ IsFiniteSet(Workers)

VARIABLES
    directSend, \* the third argument of main
    io,         \* of each connection, the io thread whose epoll it is in
    Queue,      \* of connections with a complete request
    pc,         \* of io threads: "loop", "accept", "read", "write", "push" or
                \* "notify" (between the two steps of pushInQueue)
    cur,        \* of io threads: the connection of the event being handled
    events,     \* of io threads: the events of the round still to be handled
    wpc,        \* of workers: "get", "wait", "send" or "mod"
    wcur        \* of workers: the connection being handled

ioVars     == <<pc, cur, events>>
workerVars == <<wpc, wcur>>
vars == <<clientVars, connVars, directSend, io, Queue, ioVars, workerVars>>

Init ==
    /\ ConnInit
    /\ directSend \in BOOLEAN
    /\ io \in [Conns -> IoThreads]
    /\ Queue = <<>>
    /\ pc = [t \in IoThreads |-> "loop"]
    /\ cur = [t \in IoThreads |-> NoConn]
    /\ events = [t \in IoThreads |-> {}]
    /\ wpc = [w \in Workers |-> "get"]
    /\ wcur = [w \in Workers |-> NoConn]

-----------------------------------------------------------------------------
(* io threads: epoll_wait and accept.                                      *)

Backlog(t) == {k \in Conns : io[k] = t /\ life[k] = "backlog"}

ReadyEvents(t) ==
    {<<k, "read">> : k \in {x \in Conns : io[x] = t /\ ReadyIn(x)}} \cup
    {<<k, "write">> : k \in {x \in Conns : io[x] = t /\ ReadyOut(x)}} \cup
    (IF Backlog(t) = {} THEN {} ELSE {<<Listen, "accept">>})

\* All events of the last round are handled.  epoll_wait disables the one-shot
\* interests it reports.
EpollWait(t) ==
    /\ pc[t] = "loop" /\ events[t] = {}
    /\ ReadyEvents(t) # {}
    /\ events' = [events EXCEPT ![t] = ReadyEvents(t)]
    /\ interest' = [k \in Conns |->
           IF interest[k] = "in1" /\ <<k, "read">> \in ReadyEvents(t)
           THEN "off" ELSE interest[k]]
    /\ UNCHANGED <<clientVars, life, rd, encoded, wr, directSend, io, Queue, pc,
                   cur, workerVars>>

NextEvent(t) ==
    /\ pc[t] = "loop"
    /\ \E e \in events[t] :
          /\ events' = [events EXCEPT ![t] = @ \ {e}]
          /\ cur' = [cur EXCEPT ![t] = e[1]]
          /\ pc' = [pc EXCEPT ![t] = e[2]]
    /\ UNCHANGED <<clientVars, connVars, directSend, io, Queue, workerVars>>

\* The io thread is done with the event and with its connection.
NextTurn(t) ==
    /\ pc' = [pc EXCEPT ![t] = "loop"]
    /\ cur' = [cur EXCEPT ![t] = NoConn]

AddReadEventLevel(k) == "in"                \* mutant: isOneShot is not passed

AddReadEvent(k) == "in1"

LoopAccept(t) ==
    /\ pc[t] = "accept"
    /\ life' = [k \in Conns |-> IF k \in Backlog(t) THEN "open" ELSE life[k]]
    /\ interest' = [k \in Conns |-> IF k \in Backlog(t) THEN AddReadEvent(k)
                                    ELSE interest[k]]
    /\ NextTurn(t)
    /\ UNCHANGED <<clientVars, rd, encoded, wr, directSend, io, Queue, events,
                   workerVars>>

-----------------------------------------------------------------------------
(* io threads: the events of connections.                                  *)

IoRead(t) ==
    /\ pc[t] = "read"
    /\ ReadPiece(cur[t])
    /\ UNCHANGED <<clientVars, life, interest, encoded, wr, directSend, io,
                   Queue, ioVars, workerVars>>

IoReadFails(t) ==
    /\ pc[t] = "read"
    /\ ReadFails(cur[t])
    /\ Release(cur[t])
    /\ NextTurn(t)
    /\ UNCHANGED <<clientVars, rd, encoded, wr, directSend, io, Queue, events,
                   workerVars>>

RearmForgotten(t) ==                        \* mutant: no ReStartReadEvent
    IF OneMessage(cur[t])
    THEN pc' = [pc EXCEPT ![t] = "push"] /\ UNCHANGED <<cur, interest>>
    ELSE NextTurn(t) /\ UNCHANGED interest

RearmAlways(t) ==                           \* mutant: also when it is queued
    /\ ReStartReadEvent(cur[t])
    /\ IF OneMessage(cur[t])
       THEN pc' = [pc EXCEPT ![t] = "push"] /\ UNCHANGED cur
       ELSE NextTurn(t)

\* What follows a Read that returned true.
AfterRead(t) ==
    IF OneMessage(cur[t])
    THEN pc' = [pc EXCEPT ![t] = "push"] /\ UNCHANGED <<cur, interest>>
    ELSE NextTurn(t) /\ ReStartReadEvent(cur[t])

IoReadAgain(t) ==
    /\ pc[t] = "read"
    /\ ReadAgain(cur[t])
    /\ AfterRead(t)
    /\ UNCHANGED <<clientVars, life, rd, encoded, wr, directSend, io, Queue,
                   events, workerVars>>

\* pushInQueue: first the critical section, then the notification.
pushInQueue(t) ==
    /\ pc[t] = "push"
    /\ Queue' = Append(Queue, cur[t])
    /\ pc' = [pc EXCEPT ![t] = "notify"]
    /\ cur' = [cur EXCEPT ![t] = NoConn]
    /\ UNCHANGED <<clientVars, connVars, directSend, io, events, workerVars>>

Waiting == {w \in Workers : wpc[w] = "wait"}

notifyIfFirst(t) ==                         \* mutant: only for the first entry
    /\ pc[t] = "notify"
    /\ NextTurn(t)
    /\ IF Waiting = {} \/ Len(Queue) # 1 THEN UNCHANGED wpc
       ELSE \E w \in Waiting : wpc' = [wpc EXCEPT ![w] = "get"]
    /\ UNCHANGED <<clientVars, connVars, directSend, io, Queue, events, wcur>>

\* Nobody may be waiting: then nothing happens.
notify_one(t) ==
    /\ pc[t] = "notify"
    /\ NextTurn(t)
    /\ IF Waiting = {} THEN UNCHANGED wpc
       ELSE \E w \in Waiting : wpc' = [wpc EXCEPT ![w] = "get"]
    /\ UNCHANGED <<clientVars, connVars, directSend, io, Queue, events, wcur>>

IoWrite(t) ==
    /\ pc[t] = "write"
    /\ WritePiece(cur[t])
    /\ UNCHANGED <<clientVars, life, interest, rd, encoded, directSend, io,
                   Queue, ioVars, workerVars>>

\* Write returns true with something left to send: epoll reports it again.
IoWriteAgain(t) ==
    /\ pc[t] = "write"
    /\ WriteAgain(cur[t])
    /\ NextTurn(t)
    /\ UNCHANGED <<clientVars, connVars, directSend, io, Queue, events,
                   workerVars>>

IoWriteEnds(t) ==
    /\ pc[t] = "write"
    /\ WriteFails(cur[t]) \/ FinishWrite(cur[t])
    /\ Release(cur[t])
    /\ NextTurn(t)
    /\ UNCHANGED <<clientVars, rd, encoded, wr, directSend, io, Queue, events,
                   workerVars>>

-----------------------------------------------------------------------------
(* Workers.                                                                *)

\* The end of getQueueData, and conn->Encode().
Handle(w, k) ==
    /\ wcur' = [wcur EXCEPT ![w] = k]
    /\ Encode(k)
    /\ wpc' = [wpc EXCEPT ![w] = IF directSend THEN "send" ELSE "mod"]

\* Cond.wait and what follows it: the predicate is asked under Mutex, when the
\* worker arrives and after every notification.
getQueueData(w) ==
    /\ wpc[w] = "get"
    /\ IF Queue # <<>>
       THEN /\ Handle(w, Head(Queue))
            /\ Queue' = Tail(Queue)
       ELSE /\ wpc' = [wpc EXCEPT ![w] = "wait"]
            /\ UNCHANGED <<wcur, Queue, encoded>>
    /\ UNCHANGED <<clientVars, life, interest, rd, wr, directSend, io, ioVars>>

\* Condition variables may wake a thread for no reason.
SpuriousWakeup(w) ==
    /\ wpc[w] = "wait"
    /\ wpc' = [wpc EXCEPT ![w] = "get"]
    /\ UNCHANGED <<clientVars, connVars, directSend, io, Queue, ioVars, wcur>>

\* The worker is done with the connection.
NextRequest(w) ==
    /\ wpc' = [wpc EXCEPT ![w] = "get"]
    /\ wcur' = [wcur EXCEPT ![w] = NoConn]

\* A write that answers EAGAIN is tried again at once: no step.
WorkerWrite(w) ==
    /\ wpc[w] = "send"
    /\ WritePiece(wcur[w])
    /\ UNCHANGED <<clientVars, life, interest, rd, encoded, directSend, io,
                   Queue, ioVars, workerVars>>

WorkerWriteEnds(w) ==
    /\ wpc[w] = "send"
    /\ WriteFails(wcur[w]) \/ FinishWrite(wcur[w])
    /\ Release(wcur[w])
    /\ NextRequest(w)
    /\ UNCHANGED <<clientVars, rd, encoded, wr, directSend, io, Queue, ioVars>>

WorkerMod(w) ==
    /\ wpc[w] = "mod"
    /\ ModToWriteEvent(wcur[w])
    /\ NextRequest(w)
    /\ UNCHANGED <<clientVars, life, rd, encoded, wr, directSend, io, Queue,
                   ioVars>>

-----------------------------------------------------------------------------
ioHandler(t) ==
    \/ EpollWait(t) \/ NextEvent(t) \/ LoopAccept(t)
    \/ IoRead(t) \/ IoReadFails(t) \/ IoReadAgain(t)
    \/ pushInQueue(t) \/ notify_one(t)
    \/ IoWrite(t) \/ IoWriteAgain(t) \/ IoWriteEnds(t)

workerHandler(w) ==
    \/ getQueueData(w)
    \/ WorkerWrite(w) \/ WorkerWriteEnds(w) \/ WorkerMod(w)

Continue ==
    /\ \E k \in Conns : Send(k) \/ Take(k)
    /\ UNCHANGED <<directSend, io, Queue, ioVars, workerVars>>

BeginOrEnd ==
    /\ \E k \in Conns : Connect(k) \/ ShutDown(k) \/ Reset(k)
    /\ UNCHANGED <<directSend, io, Queue, ioVars, workerVars>>

Next ==
    \/ \E t \in IoThreads : ioHandler(t)
    \/ \E w \in Workers : workerHandler(w) \/ SpuriousWakeup(w)
    \/ Continue \/ BeginOrEnd

Spec == Init /\ [][Next]_vars

\* Every thread keeps running, and a client that is still there sends its
\* request and takes the response (there are finitely many such steps, so that
\* one condition for all clients is as strong as one for each).
Fairness ==
    /\ \A t \in IoThreads : WF_vars(ioHandler(t))
    /\ \A w \in Workers : WF_vars(workerHandler(w))
    /\ WF_vars(Continue)

FairSpec == Spec /\ Fairness

-----------------------------------------------------------------------------
\* The values of connections, threads and the queue; nothing is sent beyond
\* the response.
TypeOK ==
    /\ ConnTypeOK
    /\ directSend \in BOOLEAN
    /\ io \in [Conns -> IoThreads]
    /\ Queue \in Seq(Conns)
    /\ pc \in [IoThreads -> {"loop", "accept", "read", "write", "push", "notify"}]
    /\ cur \in [IoThreads -> Conns \cup {Listen, NoConn}]
    /\ events \in [IoThreads -> SUBSET (Conns \X {"read", "write"}
                                        \cup {<<Listen, "accept">>})]
    /\ wpc \in [Workers -> {"get", "wait", "send", "mod"}]
    /\ wcur \in [Workers -> Conns \cup {NoConn}]

\* Who has a pointer to connection k and will use it: the io thread that handles
\* it or has an event of it left, a place in the queue, or a worker.
InEvents(t, k) == <<k, "read">> \in events[t] \/ <<k, "write">> \in events[t]

IoOwners(k)     == {t \in IoThreads : cur[t] = k \/ InEvents(t, k)}
Places(k)       == {i \in 1 .. Len(Queue) : Queue[i] = k}
WorkerOwners(k) == {w \in Workers : wcur[w] = k}

Owners(k) ==
    {<<"io", t>> : t \in IoOwners(k)} \cup {<<"queue", i>> : i \in Places(k)}
    \cup {<<"worker", w>> : w \in WorkerOwners(k)}

\* An open connection has exactly one owner, or none and is armed in epoll: no
\* two threads use a Conn at the same time, and none is forgotten on its way
\* between them.
OneOwner ==
    \A k \in Conns : life[k] = "open" =>
        \/ \E o \in Owners(k) : Owners(k) = {o}
        \/ Owners(k) = {} /\ interest[k] \in {"in1", "out"}

\* Whoever deletes a Conn is the last that has a pointer to it.
NoDeletedConn == \A k \in Conns : life[k] # "open" => Owners(k) = {}

\* While a worker waits, every connection in the queue has a worker of its own
\* that is about to look at the queue, or a notification that is on its way: no
\* wake-up is lost, and none of them is shared by two connections.
Looking   == {w \in Workers : wpc[w] = "get"}
Notifying == {t \in IoThreads : pc[t] = "notify"}

NoLostWakeup ==
    Waiting # {} =>
        Len(Queue) <= Cardinality(Looking) + Cardinality(Notifying)

\* A client that has sent its whole request, keeps the connection open and did
\* not reset it has all of the response when the Conn is deleted.
ReplyToOpenClient ==
    \A k \in Conns :
        (life[k] = "deleted" /\ client[k] = "open" /\ sentReq[k] = ReqLen)
        => wr[k] = RespLen

\* Every connection is accepted, served and closed.
Served == \A k \in Conns : (life[k] = "backlog") ~> (life[k] = "deleted")
=============================================================================
