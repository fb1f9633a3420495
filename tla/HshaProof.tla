----------------------------- MODULE HshaProof -----------------------------
(***************************************************************************)
(* Theorems of Hsha for any number of io threads, workers and connections, *)
(* any sizes of request, response and socket buffer, with and without      *)
(* directSend.                                                             *)
(***************************************************************************)
EXTENDS Hsha, TLAPS, FiniteSetTheorems

IoHas(t, k) == cur[t] = k \/ InEvents(t, k)

InQueue(k) == \E i \in 1 .. Len(Queue) : Queue[i] = k

-----------------------------------------------------------------------------
(* The invariant of ownership.                                             *)

\* Which steps of a thread have a connection.
CurOK ==
    /\ \A t \in IoThreads : cur[t] \in Conns <=> pc[t] \in {"read", "write", "push"}
    /\ \A w \in Workers : wcur[w] \in Conns <=> wpc[w] \in {"send", "mod"}

\* Exactly the open connections are in epoll, and none with a level-triggered
\* interest in reading.
ArmOK == \A k \in Conns :
    /\ client[k] = "new" => life[k] = "none"
    /\ interest[k] \in IF life[k] = "open" THEN {"in1", "off", "out"} ELSE {"none"}

\* An io thread handles connections of its own epoll: for reading while the
\* one-shot interest is off, for writing while it is armed for that.
IoUseOK == \A t \in IoThreads, k \in Conns :
    /\ IoHas(t, k) => io[k] = t
    /\ InEvents(t, k) => cur[t] # k
    /\ <<k, "read">> \in events[t] => interest[k] = "off"
    /\ <<k, "write">> \in events[t] => interest[k] = "out"
    /\ cur[t] = k => interest[k] = IF pc[t] = "write" THEN "out" ELSE "off"

\* The queue holds connections that are off in epoll, each of them once.
QueueOK ==
    /\ \A i \in 1 .. Len(Queue) : interest[Queue[i]] = "off"
    /\ \A i, j \in 1 .. Len(Queue) : Queue[i] = Queue[j] => i = j

\* So do the workers.
WorkerOK == \A v, w \in Workers : wcur[w] \in Conns =>
    /\ interest[wcur[w]] = "off"
    /\ wcur[v] = wcur[w] => v = w

\* io threads, queue and workers have no connection in common.
Apart == \A k \in Conns :
    /\ InQueue(k) => \A t \in IoThreads : ~IoHas(t, k)
    /\ \A w \in Workers : wcur[w] = k =>
           ~InQueue(k) /\ \A t \in IoThreads : ~IoHas(t, k)

\* A connection that is off in epoll is on its way.
NotLost == \A k \in Conns : interest[k] = "off" =>
    InQueue(k) \/ (\E t \in IoThreads : IoHas(t, k)) \/ (\E w \in Workers : wcur[w] = k)

Own == CurOK /\ ArmOK /\ IoUseOK /\ QueueOK /\ WorkerOK /\ Apart /\ NotLost

(* The invariant of the response. *)

\* What is being sent has been encoded, nothing is sent beyond it, and a Conn
\* whose client is still there is deleted after the last piece.
DataOK ==
    /\ \A k \in Conns :
          /\ wr[k] <= PktLen(k)
          /\ interest[k] = "out" => encoded[k]
          /\ life[k] = "deleted" /\ client[k] = "open" => wr[k] = RespLen
    /\ \A w \in Workers : wcur[w] \in Conns => encoded[wcur[w]]

HInv == TypeOK /\ Own /\ DataOK

-----------------------------------------------------------------------------
\* No connection is in use at the start.
LEMMA InitInv == Init => HInv
<1> SUFFICES ASSUME Init PROVE HInv
  OBVIOUS
<1> USE DEF Init, ConnInit
<1>1. TypeOK
  BY ConnAssumption DEF TypeOK, ConnTypeOK
<1>2. Own
  BY HshaAssumption DEF Own, CurOK, ArmOK, IoUseOK, QueueOK, WorkerOK, Apart,
     NotLost, IoHas, InEvents, InQueue
<1>3. DataOK
  BY HshaAssumption DEF DataOK, PktLen
<1> QED BY <1>1, <1>2, <1>3 DEF HInv

\* The events a round can bring.
LEMMA ReadyEventsAre ==
    ASSUME NEW t \in IoThreads
    PROVE  /\ ReadyEvents(t) \subseteq (Conns \X {"read", "write"})
                                       \cup {<<Listen, "accept">>}
           /\ \A k \in Conns :
                 /\ <<k, "read">> \in ReadyEvents(t) <=> io[k] = t /\ ReadyIn(k)
                 /\ <<k, "write">> \in ReadyEvents(t) <=> io[k] = t /\ ReadyOut(k)
<1> USE HshaAssumption
<1>1. ReadyEvents(t) \subseteq (Conns \X {"read", "write"}) \cup {<<Listen, "accept">>}
  BY DEF ReadyEvents
<1>2. ASSUME NEW k \in Conns
      PROVE  <<k, "read">> \in ReadyEvents(t) <=> io[k] = t /\ ReadyIn(k)
  BY <1>2 DEF ReadyEvents
<1>3. ASSUME NEW k \in Conns
      PROVE  <<k, "write">> \in ReadyEvents(t) <=> io[k] = t /\ ReadyOut(k)
  BY <1>3 DEF ReadyEvents
<1> QED BY <1>1, <1>2, <1>3

-----------------------------------------------------------------------------
(* Types.                                                                  *)

\* Every step keeps the types.
LEMMA StepType ==
    ASSUME HInv, [Next]_vars
    PROVE  TypeOK'
<1> USE ConnAssumption, HshaAssumption DEF HInv, TypeOK, ConnTypeOK
<1> USE DEF clientVars, connVars, ioVars, workerVars
<1>1. CASE UNCHANGED vars
  BY <1>1 DEF vars
<1>2. CASE Continue \/ BeginOrEnd
  <2>1. ASSUME NEW k \in Conns, Send(k) PROVE ConnTypeOK'
    BY <2>1 DEF Send
  <2>2. ASSUME NEW k \in Conns, Take(k) PROVE ConnTypeOK'
    BY <2>2 DEF Take
  <2>3. ASSUME NEW k \in Conns, Connect(k) PROVE ConnTypeOK'
    BY <2>3 DEF Connect
  <2>4. ASSUME NEW k \in Conns, ShutDown(k) \/ Reset(k) PROVE ConnTypeOK'
    BY <2>4 DEF ShutDown, Reset
  <2>5. ConnTypeOK'
    BY <1>2, <2>1, <2>2, <2>3, <2>4 DEF Continue, BeginOrEnd
  <2>6. UNCHANGED <<directSend, io, Queue, pc, cur, events, wpc, wcur>>
    BY <1>2 DEF Continue, BeginOrEnd
  <2> QED BY <2>5, <2>6
<1>3. ASSUME NEW k \in Conns, ReadPiece(k) PROVE rd' \in [Conns -> 0 .. ReqLen]
  BY <1>3 DEF ReadPiece
<1>4. ASSUME NEW k \in Conns, WritePiece(k) PROVE wr' \in [Conns -> 0 .. RespLen]
  BY <1>4 DEF WritePiece, FinishWrite, PktLen, DataOK
<1>5. ASSUME NEW t \in IoThreads, IoRead(t) \/ IoWrite(t) PROVE TypeOK'
  <2> cur[t] \in Conns
    BY <1>5 DEF IoRead, IoWrite, Own, CurOK
  <2> QED BY <1>3, <1>4, <1>5 DEF IoRead, IoWrite
<1>6. ASSUME NEW w \in Workers, WorkerWrite(w) PROVE TypeOK'
  <2> wcur[w] \in Conns
    BY <1>6 DEF WorkerWrite, Own, CurOK
  <2> QED BY <1>4, <1>6 DEF WorkerWrite
<1>7. ASSUME NEW t \in IoThreads, EpollWait(t) PROVE TypeOK'
  <2> events' \in [IoThreads -> SUBSET (Conns \X {"read", "write"}
                                        \cup {<<Listen, "accept">>})]
    BY <1>7, ReadyEventsAre DEF EpollWait
  <2> QED BY <1>7 DEF EpollWait
<1>8. ASSUME NEW t \in IoThreads, NextEvent(t) PROVE TypeOK'
  <2> PICK e \in events[t] :
        /\ events' = [events EXCEPT ![t] = @ \ {e}]
        /\ cur' = [cur EXCEPT ![t] = e[1]]
        /\ pc' = [pc EXCEPT ![t] = e[2]]
    BY <1>8 DEF NextEvent
  <2>1. e[1] \in Conns \cup {Listen} /\ e[2] \in {"read", "write", "accept"}
    OBVIOUS
  <2>2. events' \in [IoThreads -> SUBSET (Conns \X {"read", "write"}
                                          \cup {<<Listen, "accept">>})]
    OBVIOUS
  <2> QED BY <1>8, <2>1, <2>2 DEF NextEvent
<1>9. ASSUME NEW t \in IoThreads,
             \/ LoopAccept(t) \/ IoReadFails(t) \/ IoReadAgain(t)
             \/ IoWriteAgain(t) \/ IoWriteEnds(t)
      PROVE  TypeOK'
  <2>1. ASSUME NextTurn(t)
        PROVE  /\ pc' \in [IoThreads -> {"loop", "accept", "read", "write", "push",
                                         "notify"}]
               /\ cur' \in [IoThreads -> Conns \cup {Listen, NoConn}]
    BY <2>1 DEF NextTurn
  <2>2. CASE LoopAccept(t)
    BY <2>1, <2>2 DEF LoopAccept, AddReadEvent
  <2>3. CASE IoReadFails(t)
    BY <2>1, <2>3 DEF IoReadFails, Release, SetInterest
  <2>4. CASE IoReadAgain(t)
    <3> UNCHANGED <<clientVars, life, rd, encoded, wr, directSend, io, Queue,
                    events, workerVars>>
      BY <2>4 DEF IoReadAgain
    <3>1. CASE OneMessage(cur[t])
      <4> UNCHANGED <<cur, interest>> /\ pc' = [pc EXCEPT ![t] = "push"]
        BY <2>4, <3>1 DEF IoReadAgain, AfterRead
      <4> QED OBVIOUS
    <3>2. CASE ~OneMessage(cur[t])
      <4> NextTurn(t) /\ interest' = [interest EXCEPT ![cur[t]] = "in1"]
        BY <2>4, <3>2 DEF IoReadAgain, AfterRead, ReStartReadEvent, SetInterest
      <4> QED BY <2>1
    <3> QED BY <3>1, <3>2
  <2>5. CASE IoWriteAgain(t)
    BY <2>1, <2>5 DEF IoWriteAgain
  <2>6. CASE IoWriteEnds(t)
    BY <2>1, <2>6 DEF IoWriteEnds, Release, SetInterest
  <2> QED BY <1>9, <2>2, <2>3, <2>4, <2>5, <2>6
<1>10. ASSUME NEW t \in IoThreads, pushInQueue(t) PROVE TypeOK'
  <2> Queue' \in Seq(Conns)
    BY <1>10 DEF pushInQueue, Own, CurOK
  <2> QED BY <1>10 DEF pushInQueue
<1>11. ASSUME NEW t \in IoThreads, notify_one(t) PROVE TypeOK'
  BY <1>11 DEF notify_one, NextTurn, Waiting
<1>12. ASSUME NEW w \in Workers, getQueueData(w) PROVE TypeOK'
  <2>1. CASE Queue # <<>>
    <3> DEFINE k == Head(Queue)
    <3>1. k \in Conns /\ Tail(Queue) \in Seq(Conns)
      BY <2>1
    <3> HIDE DEF k
    <3>2. Handle(w, k) /\ Queue' = Tail(Queue)
      BY <1>12, <2>1 DEF getQueueData, k
    <3>3. /\ encoded' \in [Conns -> BOOLEAN]
          /\ wcur' \in [Workers -> Conns \cup {NoConn}]
          /\ wpc' \in [Workers -> {"get", "wait", "send", "mod"}]
      BY <3>1, <3>2 DEF Handle, Encode
    <3>4. UNCHANGED <<clientVars, life, interest, rd, wr, directSend, io, ioVars>>
      BY <1>12 DEF getQueueData
    <3> QED BY <3>1, <3>2, <3>3, <3>4
  <2>2. CASE Queue = <<>>
    BY <1>12, <2>2 DEF getQueueData
  <2> QED BY <2>1, <2>2
<1>13. ASSUME NEW w \in Workers,
              SpuriousWakeup(w) \/ WorkerWriteEnds(w) \/ WorkerMod(w)
       PROVE  TypeOK'
  <2>1. ASSUME NextRequest(w)
        PROVE  /\ wpc' \in [Workers -> {"get", "wait", "send", "mod"}]
               /\ wcur' \in [Workers -> Conns \cup {NoConn}]
    BY <2>1 DEF NextRequest
  <2>2. CASE SpuriousWakeup(w)
    BY <2>2 DEF SpuriousWakeup
  <2>3. CASE WorkerWriteEnds(w)
    BY <2>1, <2>3 DEF WorkerWriteEnds, Release, SetInterest
  <2>4. CASE WorkerMod(w)
    BY <2>1, <2>4 DEF WorkerMod, ModToWriteEvent, SetInterest
  <2> QED BY <1>13, <2>2, <2>3, <2>4
<1> QED
  BY <1>1, <1>2, <1>5, <1>6, <1>7, <1>8, <1>9, <1>10, <1>11, <1>12, <1>13
  DEF Next, ioHandler, workerHandler

-----------------------------------------------------------------------------
(* Ownership.                                                              *)

\* What does not touch queue, threads and epoll keeps the owners.
LEMMA KeepOwn ==
    ASSUME HInv, UNCHANGED <<life, interest, io, Queue, ioVars, workerVars>>,
           \A k \in Conns : client'[k] = "new" => client[k] = "new"
    PROVE  Own'
<1> USE DEF HInv, Own, ioVars, workerVars
<1>1. CurOK' /\ ArmOK'
  BY DEF CurOK, ArmOK
<1>2. IoUseOK' /\ QueueOK' /\ WorkerOK'
  BY DEF IoUseOK, QueueOK, WorkerOK, IoHas, InEvents
<1>3. Apart' /\ NotLost'
  BY DEF Apart, NotLost, IoHas, InEvents, InQueue
<1> QED BY <1>1, <1>2, <1>3

\* Io threads that go on with the connections they have, or with fewer of them.
LEMMA IoUseKept ==
    ASSUME IoUseOK, UNCHANGED <<io, events>>,
           \A t \in IoThreads, k \in Conns : IoHas(t, k)' =>
               IoHas(t, k) /\ interest'[k] = interest[k],
           \A t \in IoThreads, k \in Conns : cur'[t] = k =>
               cur[t] = k /\ (pc'[t] = "write" <=> pc[t] = "write")
    PROVE  IoUseOK'
<1> SUFFICES ASSUME NEW t \in IoThreads, NEW k \in Conns
             PROVE  /\ IoHas(t, k)' => io[k] = t
                    /\ InEvents(t, k)' => cur'[t] # k
                    /\ <<k, "read">> \in events[t] => interest'[k] = "off"
                    /\ <<k, "write">> \in events[t] => interest'[k] = "out"
                    /\ cur'[t] = k => interest'[k] = IF pc'[t] = "write" THEN "out" ELSE "off"
  BY DEF IoUseOK
<1>1. InEvents(t, k)' <=> InEvents(t, k)
  BY DEF InEvents
<1>2. CASE IoHas(t, k)'
  BY <1>1, <1>2 DEF IoUseOK
<1>3. CASE ~IoHas(t, k)'
  BY <1>1, <1>3 DEF IoHas, InEvents
<1> QED BY <1>2, <1>3

\* Connections that arrive or are accepted (the set S) have no owner yet, and
\* threads that go on with the connections they have keep the owners.
LEMMA ArrivalOwn ==
    ASSUME HInv, UNCHANGED <<io, Queue, events, wcur>>,
           NEW S \in SUBSET Conns, \A k \in S : interest[k] = "none",
           \A k \in Conns : k \notin S =>
               /\ life'[k] = life[k] /\ interest'[k] = interest[k]
               /\ client'[k] = "new" => client[k] = "new",
           \A k \in S : /\ client'[k] = "new" => life'[k] = "none"
                        /\ \/ life'[k] = "open" /\ interest'[k] = "in1"
                           \/ life'[k] # "open" /\ interest'[k] = "none",
           CurOK', \A t \in IoThreads : cur'[t] \in Conns =>
                                         cur'[t] = cur[t] /\ (pc'[t] = "write" <=> pc[t] = "write"),
           \A t \in IoThreads : cur[t] \in Conns => cur'[t] = cur[t]
    PROVE  Own'
<1> USE DEF HInv, Own
<1>1. \A k \in Conns :
        \/ k \notin S /\ life'[k] = life[k] /\ interest'[k] = interest[k]
        \/ k \in S /\ interest[k] = "none" /\ interest'[k] \in {"in1", "none"}
  <2> TAKE k \in Conns
  <2>1. CASE k \in S
    BY <2>1
  <2>2. CASE k \notin S
    BY <2>2
  <2> QED BY <2>1, <2>2
<1>2. ArmOK'
  <2> SUFFICES ASSUME NEW k \in Conns
               PROVE  /\ client'[k] = "new" => life'[k] = "none"
                      /\ interest'[k] \in IF life'[k] = "open"
                                         THEN {"in1", "off", "out"} ELSE {"none"}
    BY DEF ArmOK
  <2>1. CASE k \in S
    BY <2>1
  <2>2. CASE k \notin S
    <3> /\ life'[k] = life[k] /\ interest'[k] = interest[k]
        /\ client'[k] = "new" => client[k] = "new"
      BY <2>2
    <3> QED BY DEF ArmOK
  <2> QED BY <2>1, <2>2
<1>3. \A t \in IoThreads, k \in Conns : IoHas(t, k)' <=> IoHas(t, k)
  BY DEF IoHas, InEvents
<1>4. \A t \in IoThreads, k \in Conns : IoHas(t, k) => interest[k] \in {"off", "out"}
  BY DEF IoUseOK, IoHas, InEvents
<1>5. IoUseOK'
  BY <1>1, <1>3, <1>4, IoUseKept
<1>6. QueueOK' /\ WorkerOK'
  <2> \A i \in 1 .. Len(Queue) : Queue[i] \in Conns
    BY DEF TypeOK
  <2>1. QueueOK'
    BY <1>1 DEF QueueOK
  <2>2. WorkerOK'
    BY <1>1 DEF WorkerOK
  <2> QED BY <2>1, <2>2
<1>7. Apart'
  BY <1>3 DEF Apart, InQueue
<1>8. NotLost'
  BY <1>1, <1>3 DEF NotLost, InQueue
<1> QED BY <1>2, <1>5, <1>6, <1>7, <1>8

\* epoll_wait turns armed connections without an owner into events.
LEMMA EpollWaitOwn ==
    ASSUME HInv, NEW t \in IoThreads, EpollWait(t)
    PROVE  Own'
<1> DEFINE R == ReadyEvents(t)
<1> USE DEF HInv, Own
<1>1. /\ events[t] = {} /\ pc[t] = "loop" /\ cur[t] \notin Conns
      /\ events \in [IoThreads -> SUBSET (Conns \X {"read", "write"}
                                          \cup {<<Listen, "accept">>})]
      /\ events' = [events EXCEPT ![t] = R]
      /\ \A k \in Conns : interest'[k] = IF interest[k] = "in1" /\ <<k, "read">> \in R
                                         THEN "off" ELSE interest[k]
      /\ UNCHANGED <<client, life, io, Queue, pc, cur, wpc, wcur>>
  BY DEF EpollWait, CurOK, TypeOK, clientVars, workerVars
<1>2. \A k \in Conns : /\ <<k, "read">> \in R => io[k] = t /\ interest[k] = "in1"
                       /\ <<k, "write">> \in R => io[k] = t /\ interest[k] = "out"
  BY ReadyEventsAre DEF ReadyIn, ReadyOut, ArmOK
<1> HIDE DEF R
<1>3. \A k \in Conns, u \in IoThreads :
        InEvents(u, k)' <=> \/ u # t /\ InEvents(u, k)
                            \/ u = t /\ (<<k, "read">> \in R \/ <<k, "write">> \in R)
  BY <1>1 DEF InEvents
<1>4. \A k \in Conns, u \in IoThreads : IoHas(u, k) => IoHas(u, k)'
  BY <1>1, <1>3 DEF IoHas, InEvents
<1>5. \A k \in Conns : interest[k] = "off" => interest'[k] = "off"
  BY <1>1
<1>6. CurOK' /\ ArmOK'
  BY <1>1 DEF CurOK, ArmOK
<1>7. IoUseOK'
  <2> UNCHANGED <<io, cur, pc>>
    BY <1>1
  <2> SUFFICES ASSUME NEW u \in IoThreads, NEW k \in Conns
               PROVE  /\ IoHas(u, k)' => io[k] = u
                      /\ InEvents(u, k)' => cur[u] # k
                      /\ <<k, "read">> \in events'[u] => interest'[k] = "off"
                      /\ <<k, "write">> \in events'[u] => interest'[k] = "out"
                      /\ cur[u] = k => interest'[k] = IF pc[u] = "write" THEN "out" ELSE "off"
    BY DEF IoUseOK
  <2>1. IoHas(u, k)' => io[k] = u
    <3>1. CASE IoHas(u, k)
      BY <3>1 DEF IoUseOK
    <3>2. CASE IoHas(u, k)' /\ ~IoHas(u, k)
      BY <1>2, <1>3, <3>2 DEF IoHas
    <3> QED BY <3>1, <3>2
  <2>2. InEvents(u, k)' => cur[u] # k
    <3>1. CASE u = t
      BY <1>1, <3>1
    <3>2. CASE u # t
      <4>1. InEvents(u, k)' => InEvents(u, k)
        BY <1>3, <3>2
      <4>2. InEvents(u, k) => cur[u] # k
        BY DEF IoUseOK
      <4> QED BY <4>1, <4>2
    <3> QED BY <3>1, <3>2
  <2>3. CASE u = t
    BY <1>1, <1>2, <2>1, <2>2, <2>3
  <2>4. CASE u # t
    <3> events'[u] = events[u]
      BY <1>1, <2>4
    <3> QED BY <1>1, <2>1, <2>2 DEF IoUseOK
  <2> QED BY <2>3, <2>4
<1>8. QueueOK' /\ WorkerOK'
  <2> \A i \in 1 .. Len(Queue) : Queue[i] \in Conns
    BY DEF TypeOK
  <2> QED BY <1>1, <1>5 DEF QueueOK, WorkerOK
<1>9. \A k \in Conns, u \in IoThreads :
        interest[k] = "off" /\ IoHas(u, k)' => IoHas(u, k)
  BY <1>1, <1>2, <1>3 DEF IoHas
<1>10. Apart'
  <2>1. \A k \in Conns : InQueue(k) => interest[k] = "off"
    BY DEF InQueue, QueueOK
  <2> QED BY <1>1, <1>9, <2>1 DEF Apart, InQueue, WorkerOK
<1>11. NotLost'
  <2> SUFFICES ASSUME NEW k \in Conns, interest'[k] = "off"
               PROVE  \/ InQueue(k) \/ \E u \in IoThreads : IoHas(u, k)'
                      \/ \E w \in Workers : wcur[w] = k
    BY <1>1 DEF NotLost, InQueue
  <2>1. CASE interest[k] = "off"
    BY <1>4, <2>1 DEF NotLost
  <2>2. CASE interest[k] # "off"
    BY <1>1, <1>3, <2>2 DEF IoHas
  <2> QED BY <2>1, <2>2
<1> QED BY <1>6, <1>7, <1>8, <1>10, <1>11

\* The io thread takes an event and with it the connection.
LEMMA NextEventOwn ==
    ASSUME HInv, NEW t \in IoThreads, NextEvent(t)
    PROVE  Own'
<1> USE DEF HInv, Own
<1>1. PICK e \in events[t] :
        /\ events' = [events EXCEPT ![t] = @ \ {e}]
        /\ cur' = [cur EXCEPT ![t] = e[1]]
        /\ pc' = [pc EXCEPT ![t] = e[2]]
  BY DEF NextEvent
<1>2. /\ pc[t] = "loop" /\ cur[t] \notin Conns
      /\ events \in [IoThreads -> SUBSET (Conns \X {"read", "write"}
                                          \cup {<<Listen, "accept">>})]
      /\ cur \in [IoThreads -> Conns \cup {Listen, NoConn}]
      /\ UNCHANGED <<client, life, interest, io, Queue, wpc, wcur>>
      /\ pc \in [IoThreads -> {"loop", "accept", "read", "write", "push", "notify"}]
  BY DEF NextEvent, CurOK, TypeOK, clientVars, connVars, workerVars
<1>3. \/ e = <<Listen, "accept">> /\ e[1] = Listen /\ e[2] = "accept"
      \/ \E k \in Conns : e = <<k, "read">> /\ e[1] = k /\ e[2] = "read"
      \/ \E k \in Conns : e = <<k, "write">> /\ e[1] = k /\ e[2] = "write"
  BY <1>2
<1>4. \A u \in IoThreads, k \in Conns : IoHas(u, k)' <=> IoHas(u, k)
  <2> SUFFICES ASSUME NEW u \in IoThreads, NEW k \in Conns
               PROVE  IoHas(u, k)' <=> IoHas(u, k)
    OBVIOUS
  <2>1. CASE u # t
    BY <1>1, <1>2, <2>1 DEF IoHas, InEvents
  <2>2. CASE u = t /\ e[1] # k
    BY <1>1, <1>2, <1>3, <2>2 DEF IoHas, InEvents
  <2>3. CASE u = t /\ e[1] = k
    BY <1>1, <1>2, <1>3, <2>3, HshaAssumption DEF IoHas, InEvents
  <2> QED BY <2>1, <2>2, <2>3
<1>5. CurOK'
  BY <1>1, <1>2, <1>3, HshaAssumption DEF CurOK
<1>6. IoUseOK'
  <2> SUFFICES ASSUME NEW u \in IoThreads, NEW k \in Conns
               PROVE  /\ IoHas(u, k)' => io[k] = u
                      /\ InEvents(u, k)' => cur'[u] # k
                      /\ <<k, "read">> \in events'[u] => interest[k] = "off"
                      /\ <<k, "write">> \in events'[u] => interest[k] = "out"
                      /\ cur'[u] = k => interest[k] = IF pc'[u] = "write" THEN "out" ELSE "off"
    BY <1>2 DEF IoUseOK
  <2>1. IoHas(u, k)' => io[k] = u
    BY <1>4 DEF IoUseOK
  <2>2. CASE u # t
    BY <1>1, <1>2, <2>1, <2>2 DEF IoUseOK, InEvents
  <2>3. CASE u = t /\ e[1] # k
    BY <1>1, <1>2, <2>1, <2>3 DEF IoUseOK, InEvents
  <2>4. CASE u = t /\ e[1] = k
    <3>1. \/ e = <<k, "read">> /\ pc'[t] = "read" /\ interest[k] = "off"
          \/ e = <<k, "write">> /\ pc'[t] = "write" /\ interest[k] = "out"
      <4>1. \/ e = <<k, "read">> /\ e[2] = "read"
            \/ e = <<k, "write">> /\ e[2] = "write"
        BY <1>3, <2>4, HshaAssumption
      <4>2. pc'[t] = e[2]
        BY <1>1, <1>2
      <4> QED BY <1>1, <2>4, <4>1, <4>2 DEF IoUseOK
    <3>2. ~InEvents(t, k)'
      BY <1>1, <1>2, <3>1 DEF InEvents, IoUseOK
    <3> QED BY <2>1, <2>4, <3>1, <3>2 DEF InEvents
  <2> QED BY <2>2, <2>3, <2>4
<1>7. ArmOK' /\ QueueOK' /\ WorkerOK'
  BY <1>2 DEF ArmOK, QueueOK, WorkerOK
<1>8. Apart' /\ NotLost'
  BY <1>2, <1>4 DEF Apart, NotLost, InQueue
<1> QED BY <1>5, <1>6, <1>7, <1>8

\* Accepting the connections of the backlog arms them.
LEMMA AcceptOwn ==
    ASSUME HInv, NEW t \in IoThreads, LoopAccept(t)
    PROVE  Own'
<1> DEFINE S == Backlog(t)
<1>1. /\ pc[t] = "accept" /\ cur[t] \notin Conns
      /\ pc' = [pc EXCEPT ![t] = "loop"] /\ cur' = [cur EXCEPT ![t] = NoConn]
      /\ pc \in [IoThreads -> {"loop", "accept", "read", "write", "push", "notify"}]
      /\ cur \in [IoThreads -> Conns \cup {Listen, NoConn}]
      /\ UNCHANGED <<client, io, Queue, events, wcur, wpc>>
  BY DEF LoopAccept, NextTurn, HInv, TypeOK, Own, CurOK, workerVars, clientVars
<1>2. \A k \in Conns :
        /\ life'[k] = IF k \in S THEN "open" ELSE life[k]
        /\ interest'[k] = IF k \in S THEN "in1" ELSE interest[k]
  BY DEF LoopAccept, AddReadEvent
<1>3. \A k \in S : /\ k \in Conns /\ life[k] = "backlog"
                   /\ interest[k] = "none" /\ client[k] # "new"
  BY DEF Backlog, HInv, Own, ArmOK
<1>4. CurOK'
  BY <1>1, HshaAssumption DEF HInv, Own, CurOK
<1>5. \A u \in IoThreads : /\ cur'[u] \in Conns => cur'[u] = cur[u] /\ pc'[u] = pc[u]
                           /\ cur[u] \in Conns => cur'[u] = cur[u]
  BY <1>1, HshaAssumption
<1> HIDE DEF S
<1> QED BY <1>1, <1>2, <1>3, <1>4, <1>5, ArrivalOwn

\* The same without arrivals.
LEMMA GoOnOwn ==
    ASSUME HInv, UNCHANGED <<client, life, interest, io, Queue, events, wcur>>, CurOK',
           \A t \in IoThreads : cur'[t] \in Conns =>
               cur'[t] = cur[t] /\ (pc'[t] = "write" <=> pc[t] = "write"),
           \A t \in IoThreads : cur[t] \in Conns => cur'[t] = cur[t]
    PROVE  Own'
<1> DEFINE S == {}
<1>1. S \in SUBSET Conns /\ \A k \in S : FALSE
  OBVIOUS
<1>2. \A k \in Conns : k \notin S =>
          /\ life'[k] = life[k] /\ interest'[k] = interest[k]
          /\ client'[k] = "new" => client[k] = "new"
  OBVIOUS
<1> HIDE DEF S
<1> QED BY <1>1, <1>2, ArrivalOwn

\* An io thread that is done with a connection leaves it armed or deleted.
LEMMA IoLetsGo ==
    ASSUME HInv, NEW t \in IoThreads, NEW k \in Conns, cur[t] = k, NextTurn(t),
           UNCHANGED <<client, io, Queue, events, workerVars>>,
           \A x \in Conns \ {k} : life'[x] = life[x] /\ interest'[x] = interest[x],
           \/ life'[k] = "open" /\ interest'[k] \in {"in1", "out"}
           \/ life'[k] = "deleted" /\ interest'[k] = "none",
           client[k] # "new"
    PROVE  Own'
<1> USE DEF HInv, Own
<1>1. /\ pc' = [pc EXCEPT ![t] = "loop"] /\ cur' = [cur EXCEPT ![t] = NoConn]
      /\ pc \in [IoThreads -> {"loop", "accept", "read", "write", "push", "notify"}]
      /\ cur \in [IoThreads -> Conns \cup {Listen, NoConn}]
      /\ UNCHANGED <<client, io, Queue, events, wcur, wpc>>
      /\ Queue \in Seq(Conns) /\ NoConn \notin Conns
  BY HshaAssumption DEF NextTurn, TypeOK, workerVars
<1>2. \A x \in Conns : x # k => life'[x] = life[x] /\ interest'[x] = interest[x]
  OBVIOUS
<1>3. interest'[k] # "off" /\ interest[k] \in {"off", "out"}
  BY DEF IoUseOK, IoHas
<1>4. \A u \in IoThreads, x \in Conns : IoHas(u, x)' <=> x # k /\ IoHas(u, x)
  <2> SUFFICES ASSUME NEW u \in IoThreads, NEW x \in Conns
               PROVE  IoHas(u, x)' <=> x # k /\ IoHas(u, x)
    OBVIOUS
  <2>1. IoHas(u, k) => u = t
    BY DEF IoUseOK, IoHas
  <2>2. ~InEvents(t, k)
    BY DEF IoUseOK
  <2> QED BY <1>1, <2>1, <2>2 DEF IoHas, InEvents
<1>5. CurOK'
  BY <1>1 DEF CurOK
<1>6. ArmOK'
  BY <1>1, <1>2 DEF ArmOK
<1>7. IoUseOK'
  BY <1>1, <1>2, <1>4, IoUseKept
<1>8. ~InQueue(k) /\ \A w \in Workers : wcur[w] # k
  BY DEF Apart, IoHas
<1>9. QueueOK'
  <2> \A i \in 1 .. Len(Queue) : Queue[i] \in Conns /\ Queue[i] # k
    BY <1>1, <1>8 DEF InQueue
  <2> QED BY <1>1, <1>2 DEF QueueOK
<1>10. WorkerOK'
  BY <1>1, <1>2, <1>8 DEF WorkerOK
<1>11. Apart'
  BY <1>1, <1>4 DEF Apart, InQueue
<1>12. NotLost'
  <2> SUFFICES ASSUME NEW x \in Conns, interest'[x] = "off"
               PROVE  \/ InQueue(x) \/ \E u \in IoThreads : IoHas(u, x)'
                      \/ \E w \in Workers : wcur[w] = x
    BY <1>1 DEF NotLost, InQueue
  <2> x # k /\ interest[x] = "off"
    BY <1>2, <1>3
  <2> QED BY <1>4 DEF NotLost
<1> QED BY <1>5, <1>6, <1>7, <1>9, <1>10, <1>11, <1>12

\* A worker that is done with a connection leaves it armed or deleted.
LEMMA WorkerLetsGo ==
    ASSUME HInv, NEW w \in Workers, NEW k \in Conns, wcur[w] = k, NextRequest(w),
           UNCHANGED <<client, io, Queue, ioVars>>,
           \A x \in Conns \ {k} : life'[x] = life[x] /\ interest'[x] = interest[x],
           \/ life'[k] = "open" /\ interest'[k] = "out"
           \/ life'[k] = "deleted" /\ interest'[k] = "none",
           client[k] # "new"
    PROVE  Own'
<1> USE DEF HInv, Own
<1>1. /\ wpc' = [wpc EXCEPT ![w] = "get"] /\ wcur' = [wcur EXCEPT ![w] = NoConn]
      /\ wpc \in [Workers -> {"get", "wait", "send", "mod"}]
      /\ wcur \in [Workers -> Conns \cup {NoConn}]
      /\ UNCHANGED <<client, io, Queue, events, pc, cur>>
      /\ Queue \in Seq(Conns) /\ NoConn \notin Conns
  BY HshaAssumption DEF NextRequest, TypeOK, ioVars
<1>2. \A x \in Conns : x # k => life'[x] = life[x] /\ interest'[x] = interest[x]
  OBVIOUS
<1>3. /\ interest'[k] # "off" /\ ~InQueue(k)
      /\ \A u \in IoThreads : ~IoHas(u, k)
  BY DEF Apart
<1>4. \A u \in IoThreads, x \in Conns : IoHas(u, x)' <=> IoHas(u, x)
  BY <1>1 DEF IoHas, InEvents
<1>5. \A v \in Workers : wcur'[v] \in Conns => wcur'[v] = wcur[v] /\ wcur[v] # k
  BY <1>1 DEF WorkerOK
<1>6. CurOK'
  BY <1>1 DEF CurOK
<1>7. ArmOK'
  BY <1>1, <1>2 DEF ArmOK
<1>8. IoUseOK'
  BY <1>1, <1>2, <1>3, <1>4, IoUseKept
<1>9. QueueOK'
  <2> \A i \in 1 .. Len(Queue) : Queue[i] \in Conns /\ Queue[i] # k
    BY <1>1, <1>3 DEF InQueue
  <2> QED BY <1>1, <1>2 DEF QueueOK
<1>10. WorkerOK'
  BY <1>2, <1>5 DEF WorkerOK
<1>11. Apart'
  <2> SUFFICES ASSUME NEW x \in Conns
               PROVE  /\ InQueue(x) => \A u \in IoThreads : ~IoHas(u, x)
                      /\ \A v \in Workers : wcur'[v] = x =>
                             ~InQueue(x) /\ \A u \in IoThreads : ~IoHas(u, x)
    BY <1>1, <1>4 DEF Apart, InQueue
  <2> QED BY <1>5 DEF Apart
<1>12. NotLost'
  <2> SUFFICES ASSUME NEW x \in Conns, interest'[x] = "off"
               PROVE  \/ InQueue(x) \/ \E u \in IoThreads : IoHas(u, x)
                      \/ \E v \in Workers : wcur'[v] = x
    BY <1>1, <1>4 DEF NotLost, InQueue
  <2>1. x # k /\ interest[x] = "off"
    BY <1>2, <1>3
  <2>2. \A v \in Workers : wcur[v] = x => wcur'[v] = x
    BY <1>1, <2>1
  <2> QED BY <2>1, <2>2 DEF NotLost
<1> QED BY <1>6, <1>7, <1>8, <1>9, <1>10, <1>11, <1>12

\* The connection goes from the io thread to the queue.
LEMMA PushOwn ==
    ASSUME HInv, NEW t \in IoThreads, pushInQueue(t)
    PROVE  Own'
<1> USE DEF HInv, Own
<1> DEFINE k == cur[t]
           n == Len(Queue)
<1>1. /\ pc' = [pc EXCEPT ![t] = "notify"] /\ cur' = [cur EXCEPT ![t] = NoConn]
      /\ pc \in [IoThreads -> {"loop", "accept", "read", "write", "push", "notify"}]
      /\ cur \in [IoThreads -> Conns \cup {Listen, NoConn}]
      /\ UNCHANGED <<client, life, interest, io, events, wcur, wpc>>
      /\ Queue \in Seq(Conns) /\ NoConn \notin Conns /\ pc[t] = "push"
  BY HshaAssumption DEF pushInQueue, TypeOK, workerVars, clientVars, connVars
<1>2. k \in Conns /\ interest[k] = "off" /\ ~InEvents(t, k) /\ io[k] = t
  BY <1>1 DEF CurOK, IoUseOK, IoHas
<1>3. ~InQueue(k) /\ \A w \in Workers : wcur[w] # k
  BY <1>2 DEF Apart, IoHas
<1>4. /\ Queue' = Append(Queue, k) /\ Len(Queue') = n + 1 /\ n \in Nat
      /\ Queue'[n + 1] = k /\ \A i \in 1 .. n : Queue'[i] = Queue[i]
      /\ \A i \in 1 .. n + 1 : i \in 1 .. n \/ i = n + 1
  BY <1>1, <1>2 DEF pushInQueue
<1>5. cur[t] = k
  OBVIOUS
<1> HIDE DEF k, n
<1>6. \A u \in IoThreads, x \in Conns : IoHas(u, x)' <=> x # k /\ IoHas(u, x)
  <2> SUFFICES ASSUME NEW u \in IoThreads, NEW x \in Conns
               PROVE  IoHas(u, x)' <=> x # k /\ IoHas(u, x)
    OBVIOUS
  <2>1. IoHas(u, k) => u = t
    BY <1>2 DEF IoUseOK, IoHas
  <2> QED BY <1>1, <1>2, <1>5, <2>1 DEF IoHas, InEvents
<1>7. \A x \in Conns : InQueue(x)' <=> InQueue(x) \/ x = k
  <2> SUFFICES ASSUME NEW x \in Conns
               PROVE  (\E i \in 1 .. n + 1 : Queue'[i] = x)
                      <=> (\E i \in 1 .. n : Queue[i] = x) \/ x = k
    BY <1>4 DEF InQueue, n
  <2>1. n + 1 \in 1 .. n + 1 /\ \A i \in 1 .. n : i \in 1 .. n + 1
    BY <1>4
  <2> QED BY <1>4, <2>1
<1>8. CurOK' /\ ArmOK'
  BY <1>1 DEF CurOK, ArmOK
<1>9. IoUseOK'
  BY <1>1, <1>6, IoUseKept
<1>10. QueueOK'
  <2>1. \A i \in 1 .. n + 1 : interest[Queue'[i]] = "off"
    BY <1>2, <1>4 DEF QueueOK, n
  <2>2. \A i \in 1 .. n : Queue[i] # k
    BY <1>3 DEF InQueue, n
  <2>3. \A i, j \in 1 .. n : Queue[i] = Queue[j] => i = j
    BY DEF QueueOK, n
  <2>4. \A i, j \in 1 .. n + 1 : Queue'[i] = Queue'[j] => i = j
    BY <1>4, <2>2, <2>3
  <2> QED BY <1>1, <1>4, <2>1, <2>4 DEF QueueOK
<1>11. WorkerOK'
  BY <1>1 DEF WorkerOK
<1>12. Apart'
  <2> UNCHANGED wcur
    BY <1>1
  <2> QED BY <1>3, <1>6, <1>7 DEF Apart
<1>13. NotLost'
  <2> UNCHANGED <<wcur, interest>>
    BY <1>1
  <2> QED BY <1>6, <1>7 DEF NotLost
<1> QED BY <1>8, <1>9, <1>10, <1>11, <1>12, <1>13

\* The connection goes from the queue to the worker.
LEMMA PopOwn ==
    ASSUME HInv, NEW w \in Workers, getQueueData(w), Queue # <<>>
    PROVE  Own'
<1> USE DEF HInv, Own
<1> DEFINE k == Head(Queue)
           n == Len(Queue)
<1>1. /\ wcur' = [wcur EXCEPT ![w] = k]
      /\ wpc' = [wpc EXCEPT ![w] = IF directSend THEN "send" ELSE "mod"]
      /\ wpc \in [Workers -> {"get", "wait", "send", "mod"}] /\ wpc[w] = "get"
      /\ wcur \in [Workers -> Conns \cup {NoConn}]
      /\ UNCHANGED <<client, life, interest, io, events, pc, cur>>
  BY DEF getQueueData, Handle, TypeOK, ioVars, clientVars
<1>2. /\ Queue \in Seq(Conns) /\ n \in Nat \ {0} /\ Queue[1] = k /\ k \in Conns
      /\ Len(Queue') = n - 1 /\ \A i \in 1 .. n - 1 : Queue'[i] = Queue[i + 1]
  <2>1. Queue \in Seq(Conns) /\ Queue # <<>>
    BY DEF TypeOK
  <2>2. Queue' = Tail(Queue)
    BY DEF getQueueData
  <2>3. n \in Nat \ {0}
    BY <2>1
  <2> QED BY <2>1, <2>2, <2>3
<1>3. 1 \in 1 .. n /\ \A i \in 1 .. n - 1 : i + 1 \in 1 .. n /\ i + 1 # 1
  BY <1>2
<1> HIDE DEF k
<1>4. InQueue(k) /\ interest[k] = "off" /\ wcur[w] \notin Conns
  BY <1>1, <1>2, <1>3 DEF InQueue, QueueOK, CurOK
<1>5. \A u \in IoThreads, x \in Conns : IoHas(u, x)' <=> IoHas(u, x)
  BY <1>1 DEF IoHas, InEvents
<1>6. \A i \in 1 .. n : Queue[i] = k => i = 1
  BY <1>2, <1>3 DEF QueueOK
<1> HIDE DEF n
<1>7. \A x \in Conns : InQueue(x)' <=> InQueue(x) /\ x # k
  <2> SUFFICES ASSUME NEW x \in Conns
               PROVE  (\E i \in 1 .. n - 1 : Queue'[i] = x)
                      <=> (\E i \in 1 .. n : Queue[i] = x) /\ x # k
    BY <1>2 DEF InQueue, n
  <2>1. CASE x = k
    BY <1>2, <1>3, <1>6, <2>1
  <2>2. CASE x # k
    <3>1. ASSUME NEW i \in 1 .. n, Queue[i] = x
          PROVE  i - 1 \in 1 .. n - 1 /\ Queue'[i - 1] = x
      <4>1. i # 1
        BY <1>2, <2>2, <3>1
      <4>2. i - 1 \in 1 .. n - 1 /\ (i - 1) + 1 = i
        BY <1>2, <4>1
      <4> QED BY <1>2, <3>1, <4>2
    <3>2. ASSUME NEW i \in 1 .. n - 1, Queue'[i] = x
          PROVE  i + 1 \in 1 .. n /\ Queue[i + 1] = x
      BY <1>2, <1>3, <3>2
    <3> QED BY <2>2, <3>1, <3>2
  <2> QED BY <2>1, <2>2
<1>8. CurOK'
  <2>1. \A v \in Workers : wcur'[v] = IF v = w THEN k ELSE wcur[v]
    BY <1>1
  <2>2. wpc'[w] \in {"send", "mod"} /\ \A v \in Workers : v # w => wpc'[v] = wpc[v]
    BY <1>1
  <2> QED BY <1>1, <1>2, <2>1, <2>2 DEF CurOK
<1>9. ArmOK' /\ IoUseOK'
  BY <1>1 DEF ArmOK, IoUseOK, IoHas, InEvents
<1>10. QueueOK'
  <2>1. \A i \in 1 .. n - 1 : interest[Queue'[i]] = "off"
    BY <1>2, <1>3 DEF QueueOK, n
  <2>2. ASSUME NEW i \in 1 .. n - 1, NEW j \in 1 .. n - 1, Queue'[i] = Queue'[j]
        PROVE  i = j
    <3> i + 1 = j + 1
      BY <1>2, <1>3, <2>2 DEF QueueOK, n
    <3> QED BY <1>2
  <2> QED BY <1>1, <1>2, <2>1, <2>2 DEF QueueOK
<1>11. \A v \in Workers : v # w => wcur'[v] = wcur[v] /\ wcur[v] # k
  BY <1>1, <1>2, <1>4 DEF Apart
<1>12. WorkerOK'
  BY <1>1, <1>2, <1>4, <1>11 DEF WorkerOK
<1>13. wcur'[w] = k /\ \A u \in IoThreads : ~IoHas(u, k)
  BY <1>1, <1>2, <1>4 DEF Apart
<1>14. Apart'
  <2> SUFFICES ASSUME NEW x \in Conns
               PROVE  /\ InQueue(x)' => \A u \in IoThreads : ~IoHas(u, x)'
                      /\ \A v \in Workers : wcur'[v] = x =>
                             ~InQueue(x)' /\ \A u \in IoThreads : ~IoHas(u, x)'
    BY DEF Apart
  <2>1. CASE x = k
    <3> ~InQueue(x)' /\ \A u \in IoThreads : ~IoHas(u, x)'
      BY <1>5, <1>7, <1>13, <2>1
    <3> QED OBVIOUS
  <2>2. CASE x # k
    <3>1. \A v \in Workers : wcur'[v] = x => wcur[v] = x
      BY <1>11, <1>13, <2>2
    <3>2. InQueue(x) => \A u \in IoThreads : ~IoHas(u, x)
      BY DEF Apart
    <3>3. \A v \in Workers : wcur[v] = x =>
              ~InQueue(x) /\ \A u \in IoThreads : ~IoHas(u, x)
      BY DEF Apart
    <3> QED BY <1>5, <1>7, <3>1, <3>2, <3>3
  <2> QED BY <2>1, <2>2
<1>15. NotLost'
  <2> SUFFICES ASSUME NEW x \in Conns, interest[x] = "off"
               PROVE  \/ InQueue(x)' \/ \E u \in IoThreads : IoHas(u, x)'
                      \/ \E v \in Workers : wcur'[v] = x
    BY <1>1 DEF NotLost
  <2>1. CASE x = k
    BY <1>13, <2>1
  <2>2. CASE \E v \in Workers : wcur[v] = x
    BY <1>2, <1>4, <1>11, <2>2
  <2>3. CASE x # k /\ ~\E v \in Workers : wcur[v] = x
    BY <1>5, <1>7, <2>3 DEF NotLost
  <2> QED BY <2>1, <2>2, <2>3
<1> QED BY <1>8, <1>9, <1>10, <1>12, <1>14, <1>15

\* A connection that is in epoll is open, and so its client has connected.
LEMMA InEpoll ==
    ASSUME HInv, NEW k \in Conns, interest[k] # "none"
    PROVE  life[k] = "open" /\ client[k] # "new"
BY DEF HInv, Own, ArmOK

\* Every step of an io thread keeps the owners.
LEMMA IoOwn ==
    ASSUME HInv, NEW t \in IoThreads, ioHandler(t)
    PROVE  Own'
<1> USE HshaAssumption DEF HInv
<1>1. /\ pc \in [IoThreads -> {"loop", "accept", "read", "write", "push", "notify"}]
      /\ cur \in [IoThreads -> Conns \cup {Listen, NoConn}]
      /\ interest \in [Conns -> {"none", "in", "in1", "off", "out"}]
      /\ life \in [Conns -> {"none", "backlog", "open", "deleted"}]
  BY DEF TypeOK, ConnTypeOK
<1>2. pc[t] \in {"read", "write"} =>
          /\ cur[t] \in Conns /\ life[cur[t]] = "open" /\ client[cur[t]] # "new"
          /\ interest[cur[t]] = IF pc[t] = "write" THEN "out" ELSE "off"
  <2> SUFFICES ASSUME pc[t] \in {"read", "write"}
               PROVE  /\ cur[t] \in Conns /\ life[cur[t]] = "open"
                      /\ client[cur[t]] # "new"
                      /\ interest[cur[t]] = IF pc[t] = "write" THEN "out" ELSE "off"
    OBVIOUS
  <2>1. /\ cur[t] \in Conns
        /\ interest[cur[t]] = IF pc[t] = "write" THEN "out" ELSE "off"
    BY DEF Own, CurOK, IoUseOK
  <2> QED BY <2>1, InEpoll
<1>3. CASE EpollWait(t)
  BY <1>3, EpollWaitOwn
<1>4. CASE NextEvent(t)
  BY <1>4, NextEventOwn
<1>5. CASE LoopAccept(t)
  BY <1>5, AcceptOwn
<1>6. CASE IoRead(t) \/ IoWrite(t)
  BY <1>6, KeepOwn DEF IoRead, IoWrite, clientVars
<1>7. CASE IoReadFails(t) \/ IoWriteEnds(t)
  <2>1. /\ pc[t] \in {"read", "write"} /\ NextTurn(t)
        /\ UNCHANGED <<client, io, Queue, events, workerVars>>
        /\ interest' = [interest EXCEPT ![cur[t]] = "none"]
        /\ life' = [life EXCEPT ![cur[t]] = "deleted"]
    BY <1>7 DEF IoReadFails, IoWriteEnds, Release, SetInterest, clientVars
  <2> QED BY <1>1, <1>2, <2>1, IoLetsGo
<1>8. CASE IoReadAgain(t)
  <2>1. /\ pc[t] = "read"
        /\ UNCHANGED <<client, life, io, Queue, events, workerVars>>
    BY <1>8 DEF IoReadAgain, clientVars
  <2>2. CASE OneMessage(cur[t])
    <3>1. pc' = [pc EXCEPT ![t] = "push"] /\ UNCHANGED <<cur, interest>>
      BY <1>8, <2>2 DEF IoReadAgain, AfterRead
    <3>2. CurOK'
      BY <1>1, <2>1, <3>1 DEF Own, CurOK, workerVars
    <3>3. \A u \in IoThreads : cur'[u] \in Conns =>
              cur'[u] = cur[u] /\ (pc'[u] = "write" <=> pc[u] = "write")
      BY <1>1, <2>1, <3>1
    <3>4. UNCHANGED wcur
      BY <2>1 DEF workerVars
    <3> QED BY <2>1, <3>1, <3>2, <3>3, <3>4, GoOnOwn
  <2>3. CASE ~OneMessage(cur[t])
    <3>1. NextTurn(t) /\ interest' = [interest EXCEPT ![cur[t]] = "in1"]
      BY <1>8, <2>3 DEF IoReadAgain, AfterRead, ReStartReadEvent, SetInterest
    <3> QED BY <1>1, <1>2, <2>1, <3>1, IoLetsGo
  <2> QED BY <2>2, <2>3
<1>9. CASE IoWriteAgain(t)
  <2>1. /\ pc[t] = "write" /\ NextTurn(t)
        /\ UNCHANGED <<client, life, interest, io, Queue, events, workerVars>>
    BY <1>9 DEF IoWriteAgain, clientVars, connVars
  <2> QED BY <1>1, <1>2, <2>1, IoLetsGo
<1>10. CASE pushInQueue(t)
  BY <1>10, PushOwn
<1>11. CASE notify_one(t)
  <2>1. /\ pc[t] = "notify" /\ cur[t] \notin Conns
        /\ pc' = [pc EXCEPT ![t] = "loop"] /\ cur' = [cur EXCEPT ![t] = NoConn]
        /\ UNCHANGED <<client, life, interest, io, Queue, events, wcur>>
    BY <1>11 DEF notify_one, NextTurn, clientVars, connVars, Own, CurOK
  <2>2. \/ UNCHANGED wpc
        \/ \E w \in Workers : wpc[w] = "wait" /\ wpc' = [wpc EXCEPT ![w] = "get"]
    BY <1>11 DEF notify_one, Waiting
  <2>3. wpc \in [Workers -> {"get", "wait", "send", "mod"}]
    BY DEF TypeOK
  <2>4. CurOK'
    <3>1. \A u \in IoThreads : cur'[u] \in Conns <=> pc'[u] \in {"read", "write", "push"}
      BY <1>1, <2>1 DEF Own, CurOK
    <3>2. \A w \in Workers : wpc'[w] \in {"send", "mod"} <=> wpc[w] \in {"send", "mod"}
      BY <2>2, <2>3
    <3> QED BY <2>1, <3>1, <3>2 DEF Own, CurOK
  <2>5. \A u \in IoThreads :
            /\ cur'[u] \in Conns => cur'[u] = cur[u] /\ pc'[u] = pc[u]
            /\ cur[u] \in Conns => cur'[u] = cur[u]
    BY <1>1, <2>1
  <2> QED BY <2>1, <2>4, <2>5, GoOnOwn
<1> QED
  BY <1>3, <1>4, <1>5, <1>6, <1>7, <1>8, <1>9, <1>10, <1>11 DEF ioHandler

\* So does every step of a worker.
LEMMA WorkerOwn ==
    ASSUME HInv, NEW w \in Workers, workerHandler(w) \/ SpuriousWakeup(w)
    PROVE  Own'
<1> USE HshaAssumption DEF HInv
<1>1. /\ wpc \in [Workers -> {"get", "wait", "send", "mod"}]
      /\ wcur \in [Workers -> Conns \cup {NoConn}]
      /\ interest \in [Conns -> {"none", "in", "in1", "off", "out"}]
      /\ life \in [Conns -> {"none", "backlog", "open", "deleted"}]
  BY DEF TypeOK, ConnTypeOK
<1>2. wpc[w] \in {"send", "mod"} =>
          wcur[w] \in Conns /\ life[wcur[w]] = "open" /\ client[wcur[w]] # "new"
  <2> SUFFICES ASSUME wpc[w] \in {"send", "mod"}
               PROVE  /\ wcur[w] \in Conns /\ life[wcur[w]] = "open"
                      /\ client[wcur[w]] # "new"
    OBVIOUS
  <2>1. wcur[w] \in Conns /\ interest[wcur[w]] = "off"
    BY DEF Own, CurOK, WorkerOK
  <2> QED BY <2>1, InEpoll
<1>3. CASE getQueueData(w) /\ Queue # <<>>
  BY <1>3, PopOwn
<1>4. CASE (getQueueData(w) /\ Queue = <<>>) \/ SpuriousWakeup(w)
  <2>1. /\ UNCHANGED <<client, life, interest, io, Queue, events, pc, cur, wcur>>
        /\ \/ wpc[w] = "get" /\ wpc' = [wpc EXCEPT ![w] = "wait"]
           \/ wpc[w] = "wait" /\ wpc' = [wpc EXCEPT ![w] = "get"]
    BY <1>4 DEF getQueueData, SpuriousWakeup, clientVars, connVars, ioVars
  <2>2. CurOK'
    BY <1>1, <2>1 DEF Own, CurOK
  <2> QED BY <2>1, <2>2, GoOnOwn
<1>5. CASE WorkerWrite(w)
  BY <1>5, KeepOwn DEF WorkerWrite, clientVars
<1>6. CASE WorkerWriteEnds(w)
  <2>1. /\ wpc[w] \in {"send", "mod"} /\ NextRequest(w)
        /\ UNCHANGED <<client, io, Queue, ioVars>>
        /\ interest' = [interest EXCEPT ![wcur[w]] = "none"]
        /\ life' = [life EXCEPT ![wcur[w]] = "deleted"]
    BY <1>6 DEF WorkerWriteEnds, Release, SetInterest, clientVars
  <2> QED BY <1>1, <1>2, <2>1, WorkerLetsGo
<1>7. CASE WorkerMod(w)
  <2>1. /\ wpc[w] \in {"send", "mod"} /\ NextRequest(w)
        /\ UNCHANGED <<client, life, io, Queue, ioVars>>
        /\ interest' = [interest EXCEPT ![wcur[w]] = "out"]
    BY <1>7 DEF WorkerMod, ModToWriteEvent, SetInterest, clientVars
  <2> QED BY <1>1, <1>2, <2>1, WorkerLetsGo
<1> QED BY <1>3, <1>4, <1>5, <1>6, <1>7 DEF workerHandler

\* Every step keeps the owners.
LEMMA StepOwn ==
    ASSUME HInv, [Next]_vars
    PROVE  Own'
<1>1. CASE UNCHANGED vars
  BY <1>1, KeepOwn DEF vars, connVars, clientVars
<1>2. CASE Continue
  <2>1. ASSUME NEW k \in Conns, Send(k) \/ Take(k) PROVE UNCHANGED <<client, connVars>>
    BY <2>1 DEF Send, Take
  <2>2. UNCHANGED <<client, connVars, directSend, io, Queue, ioVars, workerVars>>
    BY <1>2, <2>1 DEF Continue
  <2> QED BY <2>2, KeepOwn DEF connVars
<1>3. CASE BeginOrEnd
  <2>1. UNCHANGED <<io, Queue, ioVars, workerVars>>
    BY <1>3 DEF BeginOrEnd
  <2>2. client \in [Conns -> {"new", "open", "fin", "reset"}]
    BY DEF HInv, TypeOK, ConnTypeOK
  <2>3. ASSUME NEW k \in Conns, ShutDown(k) \/ Reset(k) PROVE Own'
    <3>1. /\ UNCHANGED connVars
          /\ client' = [client EXCEPT ![k] = "fin"] \/ client' = [client EXCEPT ![k] = "reset"]
      BY <2>3 DEF ShutDown, Reset
    <3>2. \A x \in Conns : client'[x] = "new" => client[x] = "new"
      BY <2>2, <3>1
    <3> QED BY <2>1, <3>1, <3>2, KeepOwn DEF connVars
  <2>4. ASSUME NEW k \in Conns, Connect(k) PROVE Own'
    <3>1. /\ client[k] = "new" /\ client' = [client EXCEPT ![k] = "open"]
          /\ life' = [life EXCEPT ![k] = "backlog"] /\ UNCHANGED interest
          /\ life \in [Conns -> {"none", "backlog", "open", "deleted"}]
      BY <2>4 DEF Connect, HInv, TypeOK, ConnTypeOK
    <3>2. interest[k] = "none"
      BY <3>1, InEpoll
    <3>3. CurOK' /\ UNCHANGED <<cur, pc, events, wcur>>
      BY <2>1 DEF HInv, Own, CurOK, ioVars, workerVars
    <3>4. \A x \in Conns : x \notin {k} =>
              /\ life'[x] = life[x] /\ interest'[x] = interest[x]
              /\ client'[x] = "new" => client[x] = "new"
      BY <2>2, <3>1
    <3>5. life'[k] = "backlog" /\ client'[k] = "open" /\ interest'[k] = "none"
      BY <2>2, <3>1, <3>2
    <3> DEFINE S == {k}
    <3>6. /\ S \in SUBSET Conns
          /\ \A x \in S : /\ interest[x] = "none"
                          /\ client'[x] = "new" => life'[x] = "none"
                          /\ life'[x] # "open" /\ interest'[x] = "none"
      BY <3>2, <3>5
    <3> HIDE DEF S
    <3>7. \A x \in Conns : x \notin S =>
              /\ life'[x] = life[x] /\ interest'[x] = interest[x]
              /\ client'[x] = "new" => client[x] = "new"
      BY <3>4 DEF S
    <3>8. UNCHANGED <<io, Queue, events, wcur>>
      BY <2>1, <3>3
    <3>9. \A u \in IoThreads : cur'[u] = cur[u] /\ pc'[u] = pc[u]
      BY <3>3
    <3> QED BY <3>3, <3>6, <3>7, <3>8, <3>9, ArrivalOwn
  <2> QED BY <1>3, <2>3, <2>4 DEF BeginOrEnd
<1> QED BY <1>1, <1>2, <1>3, IoOwn, WorkerOwn DEF Next

-----------------------------------------------------------------------------
(* The response.                                                           *)

\* Steps that neither encode nor write.
LEMMA KeepData ==
    ASSUME UNCHANGED <<wr, encoded>>, DataOK,
           \A k \in Conns : interest'[k] = "out" => encoded[k],
           \A w \in Workers : wcur'[w] \in Conns => encoded[wcur'[w]],
           \A k \in Conns : life'[k] = "deleted" /\ client'[k] = "open"
                            => wr[k] = RespLen
    PROVE  DataOK'
BY DEF DataOK, PktLen

\* A piece is written only while there is something left.
LEMMA WriteData ==
    ASSUME HInv, NEW k \in Conns, interest[k] # "none", WritePiece(k),
           UNCHANGED <<client, life, interest, encoded, wcur>>
    PROVE  DataOK'
<1>1. /\ wr \in [Conns -> 0 .. RespLen] /\ wr' = [wr EXCEPT ![k] = @ + 1]
      /\ wr[k] # PktLen(k) /\ wr[k] <= PktLen(k) /\ PktLen(k) \in Nat
  BY ConnAssumption
  DEF HInv, TypeOK, ConnTypeOK, DataOK, WritePiece, FinishWrite, PktLen
<1>2. wr[k] + 1 <= PktLen(k)
  BY <1>1
<1>3. \A x \in Conns : PktLen(x)' = PktLen(x)
  BY DEF PktLen
<1>4. life[k] # "deleted"
  BY InEpoll
<1>5. \A x \in Conns : wr'[x] = IF x = k THEN wr[k] + 1 ELSE wr[x]
  BY <1>1
<1> QED BY <1>2, <1>3, <1>4, <1>5 DEF HInv, DataOK

\* A Conn is deleted after a failure, when its client is gone, or after the last
\* piece of an encoded response.
LEMMA ReleaseData ==
    ASSUME HInv, NEW k \in Conns, Release(k), UNCHANGED <<client, wr, encoded>>,
           \/ client[k] # "open" \/ (encoded[k] /\ FinishWrite(k)),
           \A w \in Workers : wcur'[w] \in Conns => wcur'[w] = wcur[w]
    PROVE  DataOK'
<1>1. \A x \in Conns : /\ interest'[x] = "out" => interest[x] = "out"
                       /\ x # k => life'[x] = life[x]
  BY DEF Release, SetInterest, HInv, TypeOK, ConnTypeOK
<1>2. client[k] = "open" => wr[k] = RespLen
  BY DEF FinishWrite, PktLen
<1> QED BY <1>1, <1>2, KeepData DEF HInv, DataOK

\* Every step keeps the invariant of the response.
LEMMA StepData ==
    ASSUME HInv, [Next]_vars
    PROVE  DataOK'
<1> USE HshaAssumption DEF HInv
<1>1. /\ client \in [Conns -> {"new", "open", "fin", "reset"}]
      /\ interest \in [Conns -> {"none", "in", "in1", "off", "out"}]
      /\ life \in [Conns -> {"none", "backlog", "open", "deleted"}]
      /\ encoded \in [Conns -> BOOLEAN] /\ wr \in [Conns -> 0 .. RespLen]
      /\ wcur \in [Workers -> Conns \cup {NoConn}]
  BY DEF TypeOK, ConnTypeOK
<1>2. ASSUME UNCHANGED <<client, life, interest, wr, encoded, wcur>> PROVE DataOK'
  BY <1>2, KeepData DEF DataOK
<1>3. CASE UNCHANGED vars
  BY <1>2, <1>3 DEF vars, clientVars, connVars, workerVars
<1>4. CASE Continue
  <2>1. ASSUME NEW k \in Conns, Send(k) \/ Take(k) PROVE UNCHANGED <<client, connVars>>
    BY <2>1 DEF Send, Take
  <2> QED BY <1>2, <1>4, <2>1 DEF Continue, connVars, workerVars
<1>5. CASE BeginOrEnd
  <2>1. UNCHANGED wcur
    BY <1>5 DEF BeginOrEnd, workerVars
  <2>2. ASSUME NEW k \in Conns, Connect(k) \/ ShutDown(k) \/ Reset(k)
        PROVE  /\ UNCHANGED <<interest, wr, encoded>>
               /\ \A x \in Conns : life'[x] = "deleted" /\ client'[x] = "open"
                                    => life[x] = "deleted" /\ client[x] = "open"
    BY <1>1, <2>2 DEF Connect, ShutDown, Reset, connVars
  <2>3. PICK k \in Conns : Connect(k) \/ ShutDown(k) \/ Reset(k)
    BY <1>5 DEF BeginOrEnd
  <2> QED BY <2>1, <2>2, <2>3, KeepData DEF DataOK
<1>6. ASSUME NEW t \in IoThreads, ioHandler(t) PROVE DataOK'
  <2>1. pc[t] \in {"read", "write"} =>
            /\ cur[t] \in Conns
            /\ interest[cur[t]] = IF pc[t] = "write" THEN "out" ELSE "off"
    BY DEF Own, CurOK, IoUseOK
  <2>2. CASE EpollWait(t)
    <3>1. UNCHANGED <<client, life, wr, encoded, wcur>>
      BY <2>2 DEF EpollWait, clientVars, workerVars
    <3>2. \A k \in Conns : interest'[k] = "out" => interest[k] = "out"
      BY <1>1, <2>2 DEF EpollWait
    <3> QED BY <3>1, <3>2, KeepData DEF DataOK
  <2>3. CASE LoopAccept(t)
    <3>1. UNCHANGED <<client, wr, encoded, wcur>>
      BY <2>3 DEF LoopAccept, clientVars, workerVars
    <3>2. \A k \in Conns : /\ interest'[k] = "out" => interest[k] = "out"
                           /\ life'[k] = "deleted" => life[k] = "deleted"
      BY <1>1, <2>3 DEF LoopAccept, AddReadEvent
    <3> QED BY <3>1, <3>2, KeepData DEF DataOK
  <2>4. CASE NextEvent(t) \/ pushInQueue(t) \/ notify_one(t) \/ IoRead(t) \/ IoWriteAgain(t)
    BY <1>2, <2>4 DEF NextEvent, pushInQueue, notify_one, IoRead, IoWriteAgain,
       clientVars, connVars, workerVars
  <2>5. CASE IoReadFails(t) \/ IoWriteEnds(t)
    <3>1. /\ Release(cur[t]) /\ UNCHANGED <<client, wr, encoded, wcur>>
          /\ pc[t] \in {"read", "write"}
      BY <2>5 DEF IoReadFails, IoWriteEnds, clientVars, workerVars
    <3>2. client[cur[t]] # "open" \/ (encoded[cur[t]] /\ FinishWrite(cur[t]))
      <4>1. CASE IoReadFails(t)
        BY <4>1 DEF IoReadFails, ReadFails
      <4>2. CASE IoWriteEnds(t)
        BY <2>1, <4>2 DEF IoWriteEnds, WriteFails, DataOK
      <4> QED BY <2>5, <4>1, <4>2
    <3> QED BY <2>1, <3>1, <3>2, ReleaseData
  <2>6. CASE IoReadAgain(t)
    <3>1. /\ UNCHANGED <<client, life, wr, encoded, wcur>>
          /\ UNCHANGED interest \/ interest' = [interest EXCEPT ![cur[t]] = "in1"]
      BY <2>6 DEF IoReadAgain, AfterRead, ReStartReadEvent, SetInterest, clientVars,
         workerVars
    <3>2. \A k \in Conns : interest'[k] = "out" => interest[k] = "out"
      BY <1>1, <3>1
    <3> QED BY <3>1, <3>2, KeepData DEF DataOK
  <2>7. CASE IoWrite(t)
    <3>1. /\ WritePiece(cur[t]) /\ pc[t] = "write"
          /\ UNCHANGED <<client, life, interest, encoded, wcur>>
      BY <2>7 DEF IoWrite, clientVars, workerVars
    <3> QED BY <2>1, <3>1, WriteData
  <2> QED BY <1>6, <2>2, <2>3, <2>4, <2>5, <2>6, <2>7 DEF ioHandler
<1>7. ASSUME NEW w \in Workers, workerHandler(w) \/ SpuriousWakeup(w) PROVE DataOK'
  <2>1. wpc[w] \in {"send", "mod"} =>
            /\ wcur[w] \in Conns /\ interest[wcur[w]] # "none" /\ encoded[wcur[w]]
    BY DEF Own, CurOK, WorkerOK, DataOK
  <2>2. CASE getQueueData(w) /\ Queue # <<>>
    <3>1. PICK k \in Conns : Handle(w, k)
      BY <2>2 DEF getQueueData, TypeOK
    <3>2. UNCHANGED <<client, life, interest, wr>>
      BY <2>2 DEF getQueueData, clientVars
    <3>3. \A x \in Conns : /\ encoded'[x] <=> x = k \/ encoded[x]
                           /\ wr[x] <= RespLen
      BY <1>1, <3>1, ConnAssumption DEF Handle, Encode
    <3>4. \A v \in Workers : wcur'[v] = k \/ wcur'[v] = wcur[v]
      BY <1>1, <3>1 DEF Handle
    <3>5. \A x \in Conns : wr[x] <= PktLen(x)'
      BY <3>3 DEF DataOK, PktLen
    <3> QED BY <3>2, <3>3, <3>4, <3>5 DEF DataOK
  <2>3. CASE (getQueueData(w) /\ Queue = <<>>) \/ SpuriousWakeup(w)
    BY <1>2, <2>3 DEF getQueueData, SpuriousWakeup, clientVars, connVars
  <2>4. CASE WorkerWrite(w)
    <3>1. /\ WritePiece(wcur[w]) /\ wpc[w] = "send"
          /\ UNCHANGED <<client, life, interest, encoded, wcur>>
      BY <2>4 DEF WorkerWrite, clientVars, workerVars
    <3> QED BY <2>1, <3>1, WriteData
  <2>5. CASE WorkerWriteEnds(w)
    <3>1. /\ Release(wcur[w]) /\ UNCHANGED <<client, wr, encoded>>
          /\ wpc[w] = "send" /\ wcur' = [wcur EXCEPT ![w] = NoConn]
          /\ WriteFails(wcur[w]) \/ FinishWrite(wcur[w])
      BY <2>5 DEF WorkerWriteEnds, NextRequest, clientVars
    <3>2. \A v \in Workers : wcur'[v] \in Conns => wcur'[v] = wcur[v]
      BY <1>1, <3>1
    <3>3. client[wcur[w]] # "open" \/ (encoded[wcur[w]] /\ FinishWrite(wcur[w]))
      BY <2>1, <3>1 DEF WriteFails
    <3> QED BY <2>1, <3>1, <3>2, <3>3, ReleaseData
  <2>6. CASE WorkerMod(w)
    <3>1. /\ UNCHANGED <<client, life, wr, encoded>> /\ wpc[w] = "mod"
          /\ interest' = [interest EXCEPT ![wcur[w]] = "out"]
          /\ wcur' = [wcur EXCEPT ![w] = NoConn]
      BY <2>6 DEF WorkerMod, ModToWriteEvent, SetInterest, NextRequest, clientVars
    <3>2. \A k \in Conns : interest'[k] = "out" => interest[k] = "out" \/ k = wcur[w]
      BY <1>1, <3>1
    <3>3. \A v \in Workers : wcur'[v] \in Conns => wcur'[v] = wcur[v]
      BY <1>1, <3>1
    <3> QED BY <2>1, <3>1, <3>2, <3>3, KeepData DEF DataOK
  <2> QED BY <1>7, <2>2, <2>3, <2>4, <2>5, <2>6 DEF workerHandler
<1> QED BY <1>3, <1>4, <1>5, <1>6, <1>7 DEF Next

\* The invariant holds in every state that can be reached.
LEMMA HInvAlways == Spec => []HInv
<1>1. HInv /\ [Next]_vars => HInv'
  BY StepType, StepOwn, StepData DEF HInv
<1> QED BY InitInv, <1>1, PTL DEF Spec

-----------------------------------------------------------------------------
(* Theorems.                                                               *)

\* Connections, threads and the queue keep their types, and at most the response
\* is sent.
THEOREM TypesKept == Spec => []TypeOK
<1> HInv => TypeOK
  BY DEF HInv
<1> QED BY HInvAlways, PTL

\* An open connection has exactly one owner, or none and is armed in epoll, for
\* any number of io threads and workers.
THEOREM OneOwnerOnly == Spec => []OneOwner
<1>1. HInv => OneOwner
  <2> SUFFICES ASSUME HInv, NEW k \in Conns, life[k] = "open"
               PROVE  \/ \E o \in Owners(k) : Owners(k) = {o}
                      \/ Owners(k) = {} /\ interest[k] \in {"in1", "out"}
    BY DEF OneOwner
  <2> USE DEF HInv, Own
  <2>1. \A t \in IoThreads : t \in IoOwners(k) <=> IoHas(t, k)
    BY DEF IoOwners, IoHas
  <2>2. \A i : i \in Places(k) <=> i \in 1 .. Len(Queue) /\ Queue[i] = k
    BY DEF Places
  <2>3. \A w : w \in WorkerOwners(k) <=> w \in Workers /\ wcur[w] = k
    BY DEF WorkerOwners
  <2>4. CASE \E t \in IoThreads : IoHas(t, k)
    <3>1. PICK t \in IoThreads : IoHas(t, k)
      BY <2>4
    <3>2. \A u \in IoThreads : IoHas(u, k) => u = t
      <4> \A u \in IoThreads : IoHas(u, k) => io[k] = u
        BY DEF IoUseOK
      <4> QED BY <3>1
    <3>3. IoOwners(k) = {t}
      BY <2>1, <3>1, <3>2 DEF IoOwners
    <3>4. Places(k) = {} /\ WorkerOwners(k) = {}
      BY <2>2, <2>3, <3>1 DEF Apart, InQueue
    <3>5. Owners(k) = {<<"io", t>>}
      BY <3>3, <3>4 DEF Owners
    <3> QED BY <3>5
  <2>5. CASE ~(\E t \in IoThreads : IoHas(t, k)) /\ InQueue(k)
    <3>1. PICK i \in 1 .. Len(Queue) : Queue[i] = k
      BY <2>5 DEF InQueue
    <3>2. Places(k) = {i}
      BY <2>2, <3>1 DEF QueueOK
    <3>3. IoOwners(k) = {} /\ WorkerOwners(k) = {}
      BY <2>1, <2>3, <2>5 DEF Apart, IoOwners
    <3>4. Owners(k) = {<<"queue", i>>}
      BY <3>2, <3>3 DEF Owners
    <3> QED BY <3>4
  <2>6. CASE ~(\E t \in IoThreads : IoHas(t, k)) /\ ~InQueue(k)
    <3>1. IoOwners(k) = {} /\ Places(k) = {}
      BY <2>1, <2>2, <2>6 DEF IoOwners, InQueue
    <3>2. CASE \E w \in Workers : wcur[w] = k
      <4>1. PICK w \in Workers : wcur[w] = k
        BY <3>2
      <4>2. WorkerOwners(k) = {w}
        BY <2>3, <4>1 DEF WorkerOK
      <4>3. Owners(k) = {<<"worker", w>>}
        BY <3>1, <4>2 DEF Owners
      <4> QED BY <4>3
    <3>3. CASE ~\E w \in Workers : wcur[w] = k
      <4>1. WorkerOwners(k) = {}
        BY <2>3, <3>3
      <4>2. Owners(k) = {}
        BY <3>1, <4>1 DEF Owners
      <4>3. interest[k] \in {"in1", "out"}
        BY <2>6, <3>3 DEF ArmOK, NotLost
      <4> QED BY <4>2, <4>3
    <3> QED BY <3>2, <3>3
  <2> QED BY <2>4, <2>5, <2>6
<1> QED BY <1>1, HInvAlways, PTL

\* Nobody has a pointer to a deleted Conn.
THEOREM DeletedUnused == Spec => []NoDeletedConn
<1>1. HInv => NoDeletedConn
  <2> SUFFICES ASSUME HInv, NEW k \in Conns, life[k] # "open" PROVE Owners(k) = {}
    BY DEF NoDeletedConn
  <2> USE DEF HInv, Own
  <2>1. interest[k] = "none"
    BY DEF ArmOK
  <2>2. IoOwners(k) = {}
    BY <2>1 DEF IoOwners, IoUseOK, IoHas, InEvents
  <2>3. Places(k) = {}
    BY <2>1 DEF Places, QueueOK
  <2>4. WorkerOwners(k) = {}
    BY <2>1 DEF WorkerOwners, WorkerOK
  <2> QED BY <2>2, <2>3, <2>4 DEF Owners
<1> QED BY <1>1, HInvAlways, PTL

\* A Conn whose client is still there is deleted after the whole response.
THEOREM OpenClientReplied == Spec => []ReplyToOpenClient
<1> HInv => ReplyToOpenClient
  BY DEF HInv, DataOK, ReplyToOpenClient
<1> QED BY HInvAlways, PTL

\* Threads are counted.
LEMMA CountsAre ==
    /\ IsFiniteSet(Looking) /\ Cardinality(Looking) \in Nat
    /\ IsFiniteSet(Notifying) /\ Cardinality(Notifying) \in Nat
<1>1. Looking \in SUBSET Workers /\ Notifying \in SUBSET IoThreads
  BY DEF Looking, Notifying
<1>2. IsFiniteSet(Looking) /\ IsFiniteSet(Notifying)
  BY <1>1, HshaAssumption, FS_Subset
<1> QED BY <1>2, FS_CardinalityType

\* A thread more or less.
LEMMA OneMore ==
    ASSUME NEW S, IsFiniteSet(S), NEW x, x \notin S
    PROVE  Cardinality(S \cup {x}) = Cardinality(S) + 1
BY FS_AddElement

LEMMA OneLess ==
    ASSUME NEW S, IsFiniteSet(S), NEW x, x \in S
    PROVE  Cardinality(S \ {x}) = Cardinality(S) - 1
BY FS_RemoveElement

\* While a worker waits, there are no more connections in the queue than workers
\* about to look at it and notifications on their way.
THEOREM WakeupsKept == Spec => []NoLostWakeup
<1>1. Init => NoLostWakeup
  <2> SUFFICES ASSUME Init PROVE NoLostWakeup
    OBVIOUS
  <2> Waiting = {}
    BY DEF Init, Waiting
  <2> QED BY DEF NoLostWakeup
<1>2. HInv /\ NoLostWakeup /\ [Next]_vars => NoLostWakeup'
  <2> SUFFICES ASSUME HInv, NoLostWakeup, [Next]_vars PROVE NoLostWakeup'
    OBVIOUS
  <2> DEFINE L == Cardinality(Looking)
             N == Cardinality(Notifying)
             n == Len(Queue)
  <2>1. /\ pc \in [IoThreads -> {"loop", "accept", "read", "write", "push", "notify"}]
        /\ wpc \in [Workers -> {"get", "wait", "send", "mod"}]
        /\ Queue \in Seq(Conns) /\ n \in Nat /\ L \in Nat /\ N \in Nat
    BY CountsAre DEF HInv, TypeOK
  <2>2. ASSUME UNCHANGED <<Queue, wpc, Notifying>> PROVE NoLostWakeup'
    BY <2>2 DEF NoLostWakeup, Waiting, Looking
  <2>3. ASSUME UNCHANGED <<Queue, wpc, pc>> PROVE NoLostWakeup'
    BY <2>2, <2>3 DEF Notifying
  <2>4. CASE UNCHANGED vars \/ Continue \/ BeginOrEnd
    BY <2>3, <2>4 DEF vars, Continue, BeginOrEnd, ioVars, workerVars
  <2>5. ASSUME NEW t \in IoThreads, ioHandler(t) PROVE NoLostWakeup'
    <3>1. CASE /\ UNCHANGED <<Queue, wpc>> /\ pc[t] # "notify"
               /\ \/ UNCHANGED pc
                  \/ \E s : s # "notify" /\ pc' = [pc EXCEPT ![t] = s]
      <4> UNCHANGED Notifying
        BY <2>1, <3>1 DEF Notifying
      <4> QED BY <2>2, <3>1
    <3>2. CASE EpollWait(t) \/ IoRead(t) \/ IoWrite(t)
      BY <2>3, <3>2 DEF EpollWait, IoRead, IoWrite, ioVars, workerVars
    <3>3. CASE NextEvent(t)
      <4>1. PICK e \in events[t] : pc' = [pc EXCEPT ![t] = e[2]]
        BY <3>3 DEF NextEvent
      <4>2. e \in Conns \X {"read", "write"} \cup {<<Listen, "accept">>}
        BY DEF HInv, TypeOK
      <4>3. e[2] # "notify"
        BY <4>2
      <4> QED BY <3>1, <3>3, <4>1, <4>3 DEF NextEvent, workerVars
    <3>4. CASE LoopAccept(t) \/ IoReadFails(t) \/ IoWriteAgain(t) \/ IoWriteEnds(t)
      BY <3>1, <3>4
      DEF LoopAccept, IoReadFails, IoWriteAgain, IoWriteEnds, NextTurn, workerVars
    <3>5. CASE IoReadAgain(t)
      BY <3>1, <3>5 DEF IoReadAgain, AfterRead, NextTurn, workerVars
    <3>6. CASE pushInQueue(t)
      <4>1. pc[t] = "push" /\ pc' = [pc EXCEPT ![t] = "notify"] /\ UNCHANGED wpc
        BY <3>6 DEF pushInQueue, workerVars
      <4>2. Len(Queue') = n + 1
        BY <2>1, <3>6 DEF pushInQueue
      <4>3. t \notin Notifying /\ Notifying' = Notifying \cup {t}
        BY <2>1, <4>1 DEF Notifying
      <4>4. Cardinality(Notifying') = N + 1
        BY <4>3, CountsAre, OneMore
      <4> HIDE DEF n, L, N
      <4>5. Waiting' = Waiting /\ Looking' = Looking
        BY <4>1 DEF Waiting, Looking
      <4>6. Waiting # {} => n <= L + N
        BY DEF NoLostWakeup, n, L, N
      <4>7. Cardinality(Looking') = L
        BY <4>5 DEF L
      <4> QED BY <2>1, <4>2, <4>4, <4>5, <4>6, <4>7 DEF NoLostWakeup
    <3>7. CASE notify_one(t)
      <4>1. /\ pc[t] = "notify" /\ pc' = [pc EXCEPT ![t] = "loop"] /\ UNCHANGED Queue
            /\ IF Waiting = {} THEN UNCHANGED wpc
               ELSE \E w \in Waiting : wpc' = [wpc EXCEPT ![w] = "get"]
        BY <3>7 DEF notify_one, NextTurn
      <4>2. CASE Waiting = {}
        BY <4>1, <4>2 DEF NoLostWakeup, Waiting
      <4>3. CASE Waiting # {}
        <5>1. PICK w \in Waiting : wpc' = [wpc EXCEPT ![w] = "get"]
          BY <4>1, <4>3
        <5>2. w \notin Looking /\ Looking' = Looking \cup {w}
          BY <2>1, <5>1 DEF Waiting, Looking
        <5>3. t \in Notifying /\ Notifying' = Notifying \ {t}
          BY <2>1, <4>1 DEF Notifying
        <5>4. Cardinality(Looking') = L + 1 /\ Cardinality(Notifying') = N - 1
          BY <5>2, <5>3, CountsAre, OneMore, OneLess
        <5>5. Len(Queue') = n /\ n <= L + N
          BY <4>1, <4>3 DEF NoLostWakeup
        <5> HIDE DEF n, L, N
        <5> QED BY <2>1, <5>4, <5>5 DEF NoLostWakeup
      <4> QED BY <4>2, <4>3
    <3> QED BY <2>5, <3>2, <3>3, <3>4, <3>5, <3>6, <3>7 DEF ioHandler
  <2>6. ASSUME NEW w \in Workers, workerHandler(w) \/ SpuriousWakeup(w)
        PROVE  NoLostWakeup'
    <3> UNCHANGED Notifying
      BY <2>6 DEF workerHandler, getQueueData, WorkerWrite, WorkerWriteEnds, WorkerMod,
         SpuriousWakeup, ioVars, Notifying
    <3>1. Cardinality(Notifying') = N
      OBVIOUS
    <3>2. CASE getQueueData(w) /\ Queue # <<>>
      <4>1. PICK s \in {"send", "mod"} : wpc' = [wpc EXCEPT ![w] = s]
        BY <3>2 DEF getQueueData, Handle
      <4>2. wpc[w] = "get" /\ Queue' = Tail(Queue)
        BY <3>2 DEF getQueueData
      <4>3. w \in Looking /\ Looking' = Looking \ {w} /\ Waiting' = Waiting
        BY <2>1, <4>1, <4>2 DEF Looking, Waiting
      <4>4. Cardinality(Looking') = L - 1
        BY <4>3, CountsAre, OneLess
      <4>5. Len(Queue') = n - 1
        BY <2>1, <3>2, <4>2
      <4>6. Waiting # {} => n <= L + N
        BY DEF NoLostWakeup
      <4> HIDE DEF n, L, N
      <4> QED BY <2>1, <3>1, <4>3, <4>4, <4>5, <4>6 DEF NoLostWakeup
    <3>3. CASE getQueueData(w) /\ Queue = <<>>
      <4>1. Len(Queue') = 0
        BY <3>3 DEF getQueueData
      <4>2. Cardinality(Looking') \in Nat
        <5> IsFiniteSet(Looking')
          BY HshaAssumption, FS_Subset DEF Looking
        <5> QED BY FS_CardinalityType
      <4> HIDE DEF N
      <4> QED BY <2>1, <3>1, <4>1, <4>2 DEF NoLostWakeup
    <3>4. CASE SpuriousWakeup(w) \/ WorkerWriteEnds(w) \/ WorkerMod(w)
      <4>1. /\ wpc[w] # "get" /\ wpc' = [wpc EXCEPT ![w] = "get"] /\ UNCHANGED Queue
        BY <3>4 DEF SpuriousWakeup, WorkerWriteEnds, WorkerMod, NextRequest
      <4>2. w \notin Looking /\ Looking' = Looking \cup {w}
        BY <2>1, <4>1 DEF Looking
      <4>3. Waiting' # {} => Waiting # {}
        BY <2>1, <4>1 DEF Waiting
      <4>4. Cardinality(Looking') = L + 1
        BY <4>2, CountsAre, OneMore
      <4>5. Len(Queue') = n /\ (Waiting # {} => n <= L + N)
        BY <4>1 DEF NoLostWakeup
      <4> HIDE DEF n, L, N
      <4> QED BY <2>1, <3>1, <4>3, <4>4, <4>5 DEF NoLostWakeup
    <3>5. CASE WorkerWrite(w)
      BY <2>2, <3>5 DEF WorkerWrite, workerVars
    <3> QED BY <2>6, <3>2, <3>3, <3>4, <3>5 DEF workerHandler
  <2> QED BY <2>4, <2>5, <2>6 DEF Next
<1> QED BY <1>1, <1>2, HInvAlways, PTL DEF Spec
=============================================================================
