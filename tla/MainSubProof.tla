---------------------------- MODULE MainSubProof ----------------------------
(***************************************************************************)
(* Theorems of MainSub, and with it of Reactor, for all six programs, any  *)
(* number of reactors, main reactors and connections, any sizes of         *)
(* request, response and socket buffer, and any bounds on failures and on  *)
(* clients that leave.                                                     *)
(***************************************************************************)
EXTENDS MainSub, TLAPS, FiniteSetTheorems

\* A thread that has got an epoll and, if it is a reactor, has counted it.  It
\* never leaves its loop again.
Running == {"notify", "loop", "accept", "read", "hand", "wasRead", "write",
            "wrote"}

\* Steps of a thread at which it handles a connection.
Busy == {"read", "hand", "wasRead", "write", "wrote"}

InEvents(t, k) == <<k, "read">> \in events[t] \/ <<k, "write">> \in events[t]

-----------------------------------------------------------------------------
(* The barrier.                                                            *)

Counted == {s \in Reactors : pc[s] \in Running}

\* EpollInitCnt is the number of reactors that run; a main reactor behind the
\* barrier has all of them.
BarrierOK ==
    /\ HasMains => EpollInitCnt = Cardinality(Counted)
    /\ \A s \in Reactors : pc[s] = "count" => HasMains
    /\ \A m \in Mains : ~HasMains => pc[m] = "absent"
    /\ \A m \in Mains : pc[m] \notin {"absent", "barrier", "waiting"} =>
           \A s \in Reactors : pc[s] \in Running

(* The home of a connection.                                               *)

\* Which steps of which threads have a connection.
CurOK == \A t \in Threads :
    /\ cur[t] \in Conns <=> pc[t] \in Busy
    /\ t \in Reactors => pc[t] \notin {"barrier", "waiting", "hand"}
    /\ t \in Mains => pc[t] \notin {"count", "notify", "wasRead", "write", "wrote"}

\* An open connection is in the epoll of one running thread and armed there, or
\* on its way from a main reactor to a reactor and nowhere; no other is armed.
Placed(k) ==
    /\ client[k] = "new" => life[k] = "none"
    /\ life[k] \in {"none", "backlog"} => home[k] = {} /\ interest[k] = "none"
    /\ life[k] = "deleted" => interest[k] = "none"
    /\ life[k] = "open" =>
          \/ /\ interest[k] \in {"in", "out"}
             /\ \E t \in Threads : home[k] = {t} /\ pc[t] \in Running
          \/ /\ interest[k] = "none" /\ home[k] = {}
             /\ \E m \in Mains : pc[m] = "hand" /\ cur[m] = k
    /\ \A m \in Mains : m \in home[k] => interest[k] = "in" /\ port[k] = m

PlaceOK == \A k \in Conns : Placed(k)

\* A thread handles connections of its own epoll, for what they are armed for,
\* and a main reactor the one it has just taken out of it.
Uses(t, k) ==
    /\ InEvents(t, k) => cur[t] # k
    /\ <<k, "read">> \in events[t] => home[k] = {t} /\ interest[k] = "in"
    /\ <<k, "write">> \in events[t] => home[k] = {t} /\ interest[k] = "out"
    /\ cur[t] = k =>
          /\ pc[t] \in {"read", "wasRead"} => home[k] = {t} /\ interest[k] = "in"
          /\ pc[t] \in {"write", "wrote"} => home[k] = {t} /\ interest[k] = "out"
          /\ pc[t] = "hand" => /\ home[k] = {} /\ interest[k] = "none"
                               /\ life[k] = "open" /\ port[k] = t

UseOK == \A t \in Threads, k \in Conns : Uses(t, k)

\* No two main reactors hand over the same connection.
HandOK == \A m, n \in Mains :
    pc[m] = "hand" /\ pc[n] = "hand" /\ cur[m] = cur[n] => m = n

Own == CurOK /\ PlaceOK /\ UseOK /\ HandOK

(* Requests and responses.                                                 *)

\* What is being sent has been encoded and nothing is sent beyond it; where
\* Read returns after one read, a complete request does not wait to be read; a
\* Conn that is deleted has sent its response, or its client has left.
Data(k) ==
    /\ wr[k] <= PktLen(k)
    /\ life[k] \in {"none", "backlog"} => rd[k] = 0
    /\ life[k] = "deleted" /\ client[k] = "open" => wr[k] = RespLen
    /\ life[k] = "deleted" /\ client[k] = "fin" /\ sentReq[k] = ReqLen /\ ~isMultiIo =>
           wr[k] = RespLen
    /\ interest[k] = "in" /\ ~isMultiIo /\ rd[k] = ReqLen =>
           \E t \in Threads : pc[t] = "wasRead" /\ cur[t] = k

Sends(t) ==
    /\ pc[t] \in {"write", "wrote"} => encoded[cur[t]]
    /\ pc[t] \in {"wasRead", "wrote"} => ~isMultiIo

DataOK == (\A k \in Conns : Data(k)) /\ (\A t \in Threads : Sends(t))

(* Whose turn it is.                                                       *)

DealtTo(m, s) == {k \in Conns : port[k] = m /\ s \in home[k]}

\* A main reactor has dealt q rounds, and one more connection to each reactor
\* from 1 to index.
Dealing == \A m \in Mains :
    /\ \A s \in Reactors : IsFiniteSet(DealtTo(m, s))
    /\ \E q \in Nat : \A s \in Reactors :
          Dealt(m, s) = IF s \in 1 .. index[m] THEN q + 1 ELSE q

MInv == TypeOK /\ BarrierOK /\ Own /\ DataOK /\ Dealing /\ NoMissedEdge

-----------------------------------------------------------------------------
\* Reactors and main reactors are the threads, and there are NProcs reactors.
LEMMA ThreadsAre ==
    /\ Reactors \subseteq Threads /\ Mains \subseteq Threads
    /\ Threads = Reactors \cup Mains /\ Reactors \cap Mains = {}
    /\ IsFiniteSet(Reactors) /\ Cardinality(Reactors) = NProcs
<1> USE MainSubAssumption DEF Reactors, Mains
<1>1. IsFiniteSet(Reactors) /\ Cardinality(Reactors) = NProcs
  BY FS_Interval
<1> QED BY <1>1

\* What a thread holds.
LEMMA HeldIs ==
    ASSUME TypeOK, NEW t \in Threads, NEW k \in Conns
    PROVE  k \in Held(t) <=> cur[t] = k \/ InEvents(t, k)
<1>1. events[t] \subseteq (Conns \X {"read", "write"}) \cup {<<Listen, "accept">>}
  BY DEF TypeOK
<1>2. \A e \in events[t] : e[1] = k => e = <<k, "read">> \/ e = <<k, "write">>
  BY <1>1, ReactorAssumption
<1> QED BY <1>2 DEF Held, InEvents

\* No connection is in use at the start.
LEMMA InitInv == Init => MInv
<1> SUFFICES ASSUME Init PROVE MInv
  OBVIOUS
<1> USE DEF Init, ConnInit
<1> USE ThreadsAre, ReactorAssumption, MainSubAssumption
<1>0. Acceptors \subseteq Threads
  BY DEF Acceptors, Reactors
<1>1. TypeOK
  <2>1. ConnTypeOK
    BY ConnAssumption DEF ConnTypeOK
  <2>2. index \in [Mains -> 0 .. NProcs - 1] /\ EpollInitCnt \in 0 .. NProcs
    OBVIOUS
  <2>3. port \in [Conns -> Threads]
    BY <1>0
  <2> QED BY <2>1, <2>2, <2>3 DEF TypeOK
<1>2. BarrierOK
  <2>1. Counted = {}
    BY DEF Counted, Running
  <2>2. Cardinality(Counted) = 0
    BY <2>1, FS_EmptySet
  <2> QED BY <2>2 DEF BarrierOK, HasMains
<1>3. Own
  BY DEF Own, CurOK, PlaceOK, Placed, UseOK, Uses, HandOK, InEvents, Busy
<1>4. DataOK
  BY ConnAssumption DEF DataOK, Data, Sends, PktLen
<1>5. Dealing
  <2>1. ASSUME NEW m \in Mains, NEW s \in Reactors
        PROVE  /\ IsFiniteSet(DealtTo(m, s))
               /\ Dealt(m, s) = IF s \in 1 .. index[m] THEN 0 + 1 ELSE 0
    <3>1. DealtTo(m, s) = {}
      BY DEF DealtTo
    <3>2. IsFiniteSet(DealtTo(m, s)) /\ Dealt(m, s) = 0
      BY <3>1, FS_EmptySet DEF Dealt, DealtTo
    <3>3. s \notin 1 .. index[m]
      OBVIOUS
    <3> QED BY <3>2, <3>3
  <2> QED BY <2>1 DEF Dealing
<1>6. NoMissedEdge
  BY DEF NoMissedEdge, ReadyIn, ReadyOut
<1> QED BY <1>1, <1>2, <1>3, <1>4, <1>5, <1>6 DEF MInv

-----------------------------------------------------------------------------
(* Types.                                                                  *)

\* The events a round can bring.
LEMMA ReadyEventsAre ==
    ASSUME TypeOK, NEW t \in Threads
    PROVE  /\ ReadyEvents(t) \subseteq (Conns \X {"read", "write"})
                                       \cup {<<Listen, "accept">>}
           /\ \A k \in Conns :
                 /\ <<k, "read">> \in ReadyEvents(t) <=>
                        k \in Reported(t) /\ ReadyIn(k)
                 /\ <<k, "write">> \in ReadyEvents(t) <=>
                        k \in Reported(t) /\ ReadyOut(k)
<1> USE ReactorAssumption
<1>1. Reported(t) \subseteq Conns
  BY DEF Reported, InEpoll
<1>2. ReadyEvents(t) \subseteq (Conns \X {"read", "write"}) \cup {<<Listen, "accept">>}
  BY <1>1 DEF ReadyEvents
<1>3. ASSUME NEW k \in Conns
      PROVE  <<k, "read">> \in ReadyEvents(t) <=> k \in Reported(t) /\ ReadyIn(k)
  BY <1>3 DEF ReadyEvents
<1>4. ASSUME NEW k \in Conns
      PROVE  <<k, "write">> \in ReadyEvents(t) <=> k \in Reported(t) /\ ReadyOut(k)
  BY <1>4 DEF ReadyEvents
<1> QED BY <1>2, <1>3, <1>4

\* The event a thread takes, and what it does with it.
LEMMA NextEventIs ==
    ASSUME MInv, NEW t \in Threads, NextEvent(t)
    PROVE  /\ pc[t] = "loop" /\ cur[t] \notin Conns
           /\ \/ /\ <<Listen, "accept">> \in events[t]
                 /\ events' = [events EXCEPT ![t] = @ \ {<<Listen, "accept">>}]
                 /\ cur' = [cur EXCEPT ![t] = Listen] /\ Goto(t, "accept")
                 /\ UNCHANGED encoded
              \/ \E k \in Conns :
                 /\ <<k, "read">> \in events[t]
                 /\ events' = [events EXCEPT ![t] = @ \ {<<k, "read">>}]
                 /\ cur' = [cur EXCEPT ![t] = k] /\ Goto(t, "read")
                 /\ UNCHANGED encoded
              \/ \E k \in Conns :
                 /\ <<k, "write">> \in events[t]
                 /\ events' = [events EXCEPT ![t] = @ \ {<<k, "write">>}]
                 /\ cur' = [cur EXCEPT ![t] = k] /\ Goto(t, "write")
                 /\ IF wr[k] = 0 THEN Encode(k) ELSE UNCHANGED encoded
<1>1. PICK e \in events[t] :
        /\ events' = [events EXCEPT ![t] = @ \ {e}]
        /\ cur' = [cur EXCEPT ![t] = e[1]]
        /\ Goto(t, e[2])
        /\ IF e[2] = "write" /\ wr[e[1]] = 0 THEN Encode(e[1])
           ELSE UNCHANGED encoded
  BY DEF NextEvent
<1>2. events[t] \subseteq (Conns \X {"read", "write"}) \cup {<<Listen, "accept">>}
  BY DEF MInv, TypeOK
<1>3. \/ e = <<Listen, "accept">> /\ e[1] = Listen /\ e[2] = "accept"
      \/ \E k \in Conns : e = <<k, "read">> /\ e[1] = k /\ e[2] = "read"
      \/ \E k \in Conns : e = <<k, "write">> /\ e[1] = k /\ e[2] = "write"
  BY <1>2
<1>4. pc[t] = "loop" /\ cur[t] \notin Conns
  BY DEF NextEvent, MInv, Own, CurOK, Busy
<1>5. CASE e = <<Listen, "accept">> /\ e[1] = Listen /\ e[2] = "accept"
  <2> UNCHANGED encoded /\ Goto(t, "accept")
    BY <1>1, <1>5
  <2> QED BY <1>1, <1>4, <1>5
<1>6. ASSUME NEW k \in Conns, e = <<k, "read">>, e[1] = k, e[2] = "read"
      PROVE  /\ <<k, "read">> \in events[t]
             /\ events' = [events EXCEPT ![t] = @ \ {<<k, "read">>}]
             /\ cur' = [cur EXCEPT ![t] = k] /\ Goto(t, "read")
             /\ UNCHANGED encoded
  <2> UNCHANGED encoded /\ Goto(t, "read")
    BY <1>1, <1>6
  <2> QED BY <1>1, <1>6
<1>7. ASSUME NEW k \in Conns, e = <<k, "write">>, e[1] = k, e[2] = "write"
      PROVE  /\ <<k, "write">> \in events[t]
             /\ events' = [events EXCEPT ![t] = @ \ {<<k, "write">>}]
             /\ cur' = [cur EXCEPT ![t] = k] /\ Goto(t, "write")
             /\ IF wr[k] = 0 THEN Encode(k) ELSE UNCHANGED encoded
  <2> Goto(t, "write") /\ IF wr[k] = 0 THEN Encode(k) ELSE UNCHANGED encoded
    BY <1>1, <1>7
  <2> QED BY <1>1, <1>7
<1> QED BY <1>3, <1>4, <1>5, <1>6, <1>7

\* The connection of a step that handles one.
LEMMA CurIs ==
    ASSUME MInv, NEW t \in Threads, pc[t] \in Busy
    PROVE  /\ cur[t] \in Conns /\ life[cur[t]] = "open" /\ client[cur[t]] # "new"
           /\ ~InEvents(t, cur[t])
           /\ \A u \in Threads : cur[u] = cur[t] \/ InEvents(u, cur[t]) => u = t
<1> USE DEF MInv, Own
<1> DEFINE k == cur[t]
<1>1. k \in Conns
  BY DEF CurOK
<1>2. \/ home[k] = {t} /\ interest[k] \in {"in", "out"}
      \/ home[k] = {} /\ pc[t] = "hand" /\ interest[k] = "none" /\ life[k] = "open"
  BY <1>1 DEF UseOK, Uses, Busy
<1>3. life[k] = "open" /\ client[k] # "new"
  BY <1>1, <1>2 DEF PlaceOK, Placed, TypeOK, ConnTypeOK
<1>4. ~InEvents(t, k)
  BY <1>1 DEF UseOK, Uses
<1>5. ASSUME NEW u \in Threads, cur[u] = k \/ InEvents(u, k)
      PROVE  u = t
  <2>1. \/ home[k] = {u}
        \/ home[k] = {} /\ pc[u] = "hand" /\ cur[u] = k
    <3>1. CASE InEvents(u, k)
      BY <1>1, <3>1 DEF UseOK, Uses, InEvents
    <3>2. CASE cur[u] = k
      <4> pc[u] \in Busy
        BY <1>1, <3>2 DEF CurOK
      <4> QED BY <1>1, <3>2 DEF UseOK, Uses, Busy
    <3> QED BY <1>5, <3>1, <3>2
  <2>2. CASE home[k] = {u}
    BY <1>2, <2>2
  <2>3. CASE home[k] = {} /\ pc[u] = "hand" /\ cur[u] = k
    <3>1. pc[t] = "hand"
      BY <1>2, <2>3
    <3>2. t \in Mains /\ u \in Mains
      BY <2>3, <3>1, ThreadsAre DEF CurOK
    <3> QED BY <2>3, <3>1, <3>2 DEF HandOK
  <2> QED BY <2>1, <2>2, <2>3
<1> QED BY <1>1, <1>3, <1>4, <1>5

\* Every step keeps the types, but for the count of reactors.
LEMMA StepType ==
    ASSUME MInv, [Next]_allVars, EpollInitCnt' \in 0 .. NProcs
    PROVE  TypeOK'
<1> USE ConnAssumption, ReactorAssumption DEF MInv, TypeOK, ConnTypeOK
<1> USE DEF clientVars, connVars, loopVars, msVars
<1> USE ThreadsAre
<1>1. CASE UNCHANGED allVars
  BY <1>1 DEF allVars, vars
<1>2. CASE Clients /\ UNCHANGED msVars
  <2> UNCHANGED <<program, port, listening, home, loopVars, msVars>>
    BY <1>2 DEF Clients, Continue, Begin, End
  <2>1. ASSUME NEW k \in Conns, Send(k) PROVE ConnTypeOK'
    BY <2>1 DEF Send
  <2>2. ASSUME NEW k \in Conns, Take(k) PROVE ConnTypeOK'
    BY <2>2 DEF Take
  <2>3. ASSUME NEW k \in Conns, Connect(k) PROVE ConnTypeOK'
    BY <2>3 DEF Connect
  <2>4. ASSUME NEW k \in Conns, ShutDown(k) \/ Reset(k) PROVE ConnTypeOK'
    BY <2>4 DEF ShutDown, Reset
  <2>5. ConnTypeOK'
    BY <1>2, <2>1, <2>2, <2>3, <2>4 DEF Clients, Continue, Begin, End
  <2>6. edge' \subseteq Conns
    BY <1>2 DEF Clients, Continue, Begin, End, Armed
  <2> QED BY <2>5, <2>6
<1>3. ASSUME NEW t \in Threads, UNCHANGED msVars,
             CreateListenSocket(t) \/ EpollCreate(t, "loop")
             \/ EpollCreate(t, "count") \/ AcceptAgain(t)
      PROVE  TypeOK'
  <2>1. CASE CreateListenSocket(t)
    BY <1>3, <2>1 DEF CreateListenSocket, Goto
  <2>2. CASE EpollCreate(t, "loop") \/ EpollCreate(t, "count")
    BY <1>3, <2>2 DEF EpollCreate, Goto
  <2>3. CASE AcceptAgain(t)
    BY <1>3, <2>3 DEF AcceptAgain, NextTurn, Goto
  <2> QED BY <1>3, <2>1, <2>2, <2>3
<1>4. ASSUME NEW t \in Threads, EpollWait(t), UNCHANGED msVars PROVE TypeOK'
  <2> events' \in [Threads -> SUBSET (Conns \X {"read", "write"}
                                      \cup {<<Listen, "accept">>})]
    BY <1>4, ReadyEventsAre DEF EpollWait
  <2> QED BY <1>4 DEF EpollWait
<1>5. ASSUME NEW t \in Threads, NextEvent(t), UNCHANGED msVars PROVE TypeOK'
  <2>1. /\ UNCHANGED <<clientVars, life, interest, rd, wr, program, port,
                       listening, home, edge>>
    BY <1>5 DEF NextEvent
  <2>2. ASSUME NEW e, NEW k \in Conns \cup {Listen}, NEW p \in {"accept", "read", "write"},
               events' = [events EXCEPT ![t] = @ \ {e}],
               cur' = [cur EXCEPT ![t] = k], Goto(t, p)
        PROVE  /\ events' \in [Threads -> SUBSET (Conns \X {"read", "write"}
                                                  \cup {<<Listen, "accept">>})]
               /\ cur' \in [Threads -> Conns \cup {Listen, NoConn}]
               /\ pc' \in [Threads -> {"absent", "barrier", "waiting", "listen",
                               "create", "count", "notify", "loop", "accept",
                               "read", "hand", "wasRead", "write", "wrote", "ended"}]
    BY <2>2 DEF Goto
  <2>3. encoded' \in [Conns -> BOOLEAN]
    <3>1. UNCHANGED encoded \/ \E k \in Conns : Encode(k)
      BY <1>5 DEF NextEvent
    <3> QED BY <3>1 DEF Encode
  <2>4. /\ events' \in [Threads -> SUBSET (Conns \X {"read", "write"}
                                           \cup {<<Listen, "accept">>})]
        /\ cur' \in [Threads -> Conns \cup {Listen, NoConn}]
        /\ pc' \in [Threads -> {"absent", "barrier", "waiting", "listen",
                        "create", "count", "notify", "loop", "accept",
                        "read", "hand", "wasRead", "write", "wrote", "ended"}]
    <3> HIDE DEF MInv, TypeOK
    <3> QED BY <1>5, <2>2, NextEventIs
  <2> QED BY <1>5, <2>1, <2>3, <2>4
<1>6. ASSUME NEW t \in Threads, NEW s \in Threads, NEW k \in Conns,
             Accepted(k) \/ UNCHANGED life, AddReadEvent(k, s)
      PROVE  /\ life' \in [Conns -> {"none", "backlog", "open", "deleted"}]
             /\ interest' \in [Conns -> {"none", "in", "in1", "off", "out"}]
             /\ home' \in [Conns -> SUBSET Threads] /\ edge' \subseteq Conns
  BY <1>6 DEF Accepted, AddReadEvent, SetInterest, Armed
<1>7. ASSUME NEW t \in Threads, Accept(t), UNCHANGED msVars PROVE TypeOK'
  <2> PICK k \in Conns : Accepted(k) /\ AddReadEvent(k, t)
    BY <1>7 DEF Accept, Backlog
  <2> QED BY <1>6, <1>7 DEF Accept
<1>8. ASSUME NEW t \in Threads, HandleEvent(t), UNCHANGED msVars PROVE TypeOK'
  <2> HIDE DEF MInv
  <2>0. cur[t] \in Conns
    <3> pc[t] \in Busy
      BY <1>8 DEF HandleEvent, Read, ReadLost, AfterRead, Write, WriteLost,
         AfterWrite, Wrote, Busy
    <3> QED BY CurIs
  <2>1. ASSUME NextTurn(t)
        PROVE  /\ pc' \in [Threads -> {"absent", "barrier", "waiting", "listen",
                        "create", "count", "notify", "loop", "accept",
                        "read", "hand", "wasRead", "write", "wrote", "ended"}]
               /\ cur' \in [Threads -> Conns \cup {Listen, NoConn}]
    BY <2>1 DEF NextTurn, Goto, MInv
  <2>2. ASSUME Release(cur[t]) \/ UNCHANGED <<interest, life>>
        PROVE  /\ life' \in [Conns -> {"none", "backlog", "open", "deleted"}]
               /\ interest' \in [Conns -> {"none", "in", "in1", "off", "out"}]
    BY <2>0, <2>2 DEF Release, SetInterest, MInv
  <2>3. CASE Read(t)
    BY <1>8, <2>0, <2>3 DEF Read, ReadPiece, Goto, MInv
  <2>4. CASE ReadLost(t)
    BY <1>8, <2>1, <2>2, <2>4 DEF ReadLost, MInv
  <2>5. CASE AfterRead(t)
    <3>1. /\ edge' \subseteq Conns
          /\ interest' \in [Conns -> {"none", "in", "in1", "off", "out"}]
      BY <2>0, <2>5 DEF AfterRead, ModToWriteEvent, SetInterest, Armed, MInv
    <3> QED BY <1>8, <2>1, <2>5, <3>1 DEF AfterRead, MInv
  <2>6. CASE Write(t)
    <3>0. wr' \in [Conns -> 0 .. RespLen]
      <4>0. wr \in [Conns -> 0 .. RespLen] /\ RespLen \in Nat
        BY DEF MInv
      <4>1. /\ wr[cur[t]] <= PktLen(cur[t]) /\ wr[cur[t]] # PktLen(cur[t])
            /\ wr' = [wr EXCEPT ![cur[t]] = @ + 1]
        BY <2>0, <2>6 DEF Write, WritePiece, FinishWrite, MInv, DataOK, Data, Sends
      <4>2. PktLen(cur[t]) \in 0 .. RespLen
        BY <4>0 DEF PktLen
      <4>3. wr[cur[t]] + 1 \in 0 .. RespLen
        BY <2>0, <4>0, <4>1, <4>2
      <4> QED BY <4>0, <4>1, <4>3
    <3> QED BY <1>8, <2>6, <3>0 DEF Write, Goto, MInv
  <2>7. CASE WriteLost(t)
    BY <1>8, <2>1, <2>2, <2>7 DEF WriteLost, MInv
  <2>8. CASE AfterWrite(t)
    BY <1>8, <2>1, <2>2, <2>8 DEF AfterWrite, MInv
  <2> QED BY <1>8, <2>3, <2>4, <2>5, <2>6, <2>7, <2>8 DEF HandleEvent
<1>9. ASSUME NEW t \in Threads,
             waitSubReactor(t) \/ SpuriousWakeup(t) \/ CountReady(t) \/ notify_all(t)
      PROVE  TypeOK'
  <2>1. CASE waitSubReactor(t) \/ SpuriousWakeup(t) \/ CountReady(t)
    BY <2>1 DEF waitSubReactor, SpuriousWakeup, CountReady, Goto
  <2>2. CASE notify_all(t)
    BY <2>2 DEF notify_all
  <2> QED BY <1>9, <2>1, <2>2
<1>10. ASSUME NEW m \in Mains
       PROVE  /\ NextIndex(m) \in 0 .. NProcs - 1 /\ NextIndex(m) \in Threads
              /\ m \in Threads
  BY MainSubAssumption DEF NextIndex, Mains, Reactors
<1>11. ASSUME NEW m \in Mains, MainAccept(m) PROVE TypeOK'
  <2> PICK k \in Conns :
        /\ Accepted(k)
        /\ IF mainMonitorRead
           THEN AddReadEvent(k, m) /\ UNCHANGED index
           ELSE addToSubReactor(m, k)
    BY <1>11 DEF MainAccept, Backlog
  <2>1. PICK s \in Threads : AddReadEvent(k, s)
    BY <1>10 DEF addToSubReactor
  <2>2. index' \in [Mains -> 0 .. NProcs - 1]
    BY <1>10 DEF addToSubReactor
  <2> QED BY <1>6, <1>10, <1>11, <2>1, <2>2 DEF MainAccept
<1>12. ASSUME NEW m \in Mains, ClearEvent(m) PROVE TypeOK'
  <2> cur[m] \in Conns
    BY <1>12, CurIs DEF ClearEvent, Busy
  <2> QED BY <1>12 DEF ClearEvent, Goto, SetInterest
<1>13. ASSUME NEW m \in Mains, HandOver(m) PROVE TypeOK'
  <2>1. cur[m] \in Conns
    BY <1>13, CurIs DEF HandOver, Busy
  <2>2. AddReadEvent(cur[m], NextIndex(m)) /\ index' \in [Mains -> 0 .. NProcs - 1]
    BY <1>10, <1>13 DEF HandOver, addToSubReactor
  <2>3. UNCHANGED life
    BY <1>13 DEF HandOver
  <2>4. /\ interest' \in [Conns -> {"none", "in", "in1", "off", "out"}]
        /\ home' \in [Conns -> SUBSET Threads] /\ edge' \subseteq Conns
    BY <1>6, <1>10, <2>1, <2>2, <2>3
  <2> QED BY <1>13, <2>2, <2>4 DEF HandOver, NextTurn, Goto
<1> QED
  <2> HIDE DEF MInv, TypeOK, ConnTypeOK, clientVars, connVars, loopVars, msVars
  <2>1. ASSUME NEW t \in Reactors, Reactor(t) PROVE TypeOK'
    BY <1>3, <1>4, <1>5, <1>7, <1>8, <1>9, <2>1 DEF Reactor
  <2>2. ASSUME NEW m \in Mains, MainReactor(m) \/ SpuriousWakeup(m) PROVE TypeOK'
    BY <1>3, <1>4, <1>5, <1>9, <1>11, <1>12, <1>13, <2>2 DEF MainReactor
  <2> QED BY <1>1, <1>2, <2>1, <2>2 DEF Next

-----------------------------------------------------------------------------
(* The barrier.                                                            *)

\* All reactors run when as many have been counted as there are.
LEMMA CountedIs ==
    /\ IsFiniteSet(Counted) /\ Cardinality(Counted) \in 0 .. NProcs
    /\ Cardinality(Counted) = NProcs => Counted = Reactors
<1>1. Counted \subseteq Reactors
  BY DEF Counted
<1>2. /\ IsFiniteSet(Counted) /\ Cardinality(Counted) <= Cardinality(Reactors)
      /\ Cardinality(Counted) = Cardinality(Reactors) => Counted = Reactors
  BY <1>1, ThreadsAre, FS_Subset
<1>3. Cardinality(Counted) \in Nat
  BY <1>2, FS_CardinalityType
<1> QED BY <1>2, <1>3, ThreadsAre, MainSubAssumption

\* Once in its loop a thread never leaves it.
LEMMA RunningStays ==
    ASSUME MInv, [Next]_allVars, NEW u \in Threads, pc[u] \in Running
    PROVE  pc'[u] \in Running
<1> USE DEF Running
<1>0. pc \in [Threads -> {"absent", "barrier", "waiting", "listen", "create",
                          "count", "notify", "loop", "accept", "read", "hand",
                          "wasRead", "write", "wrote", "ended"}]
  BY DEF MInv, TypeOK
<1>1. CASE UNCHANGED pc
  BY <1>1
<1>2. ASSUME NEW t \in Threads, NEW x \in Running, Goto(t, x)
      PROVE  pc'[u] \in Running
  BY <1>0, <1>2 DEF Goto
<1>3. ASSUME NEW t \in Threads, pc[t] \notin Running, NEW x, Goto(t, x)
      PROVE  pc'[u] \in Running
  BY <1>0, <1>3 DEF Goto
<1>4. ASSUME NEW t \in Threads, NextTurn(t)
      PROVE  pc'[u] \in Running
  BY <1>2, <1>4 DEF NextTurn
<1>5. ASSUME NEW t \in Threads,
             CreateListenSocket(t) \/ EpollCreate(t, "loop")
             \/ EpollCreate(t, "count") \/ AcceptAgain(t)
      PROVE  pc'[u] \in Running
  BY <1>3, <1>4, <1>5 DEF CreateListenSocket, EpollCreate, AcceptAgain
<1>6. ASSUME NEW t \in Threads, NextEvent(t)
      PROVE  pc'[u] \in Running
  <2> \E x \in Running : Goto(t, x)
    BY <1>6, NextEventIs
  <2> QED BY <1>2
<1>7. ASSUME NEW t \in Threads, HandleEvent(t)
      PROVE  pc'[u] \in Running
  BY <1>2, <1>4, <1>7 DEF HandleEvent, Read, ReadLost, AfterRead, Write, WriteLost,
     AfterWrite
<1>8. ASSUME NEW t \in Threads,
             waitSubReactor(t) \/ SpuriousWakeup(t) \/ CountReady(t) \/ notify_all(t)
             \/ ClearEvent(t) \/ HandOver(t)
      PROVE  pc'[u] \in Running
  <2>1. CASE waitSubReactor(t) \/ SpuriousWakeup(t) \/ CountReady(t)
    BY <1>3, <2>1 DEF waitSubReactor, SpuriousWakeup, CountReady
  <2>2. CASE notify_all(t)
    BY <1>0, <2>2 DEF notify_all, Waiting
  <2>3. CASE ClearEvent(t) \/ HandOver(t)
    BY <1>2, <1>4, <2>3 DEF ClearEvent, HandOver
  <2> QED BY <1>8, <2>1, <2>2, <2>3
<1>9. ASSUME NEW t \in Threads,
             Clients \/ EpollWait(t) \/ Accept(t) \/ MainAccept(t)
      PROVE  UNCHANGED pc
  BY <1>9 DEF Clients, Continue, Begin, End, EpollWait, Accept, MainAccept, loopVars
<1>10. UNCHANGED allVars => UNCHANGED pc
  BY DEF allVars, vars, loopVars
<1> HIDE DEF Running
<1> QED
  BY ThreadsAre, <1>1, <1>5, <1>6, <1>7, <1>8, <1>9, <1>10
  DEF Next, Reactor, MainReactor

\* A step of one thread that does not start to count or to run keeps the count.
LEMMA KeepBarrier ==
    ASSUME MInv, NEW t \in Threads, NEW x, Goto(t, x),
           UNCHANGED <<program, EpollInitCnt>>,
           t \in Reactors /\ HasMains => (pc[t] \in Running <=> x \in Running),
           t \in Reactors /\ x = "count" => HasMains,
           t \in Mains => /\ pc[t] # "absent"
                          /\ \/ x \in {"barrier", "waiting"}
                             \/ \A s \in Reactors : pc[s] \in Running
    PROVE  BarrierOK'
<1> USE DEF MInv, BarrierOK
<1>0. pc' = [pc EXCEPT ![t] = x] /\ Threads = DOMAIN pc /\ HasMains' = HasMains
  BY DEF Goto, TypeOK, HasMains
<1>1. HasMains => Counted' = Counted
  BY <1>0, ThreadsAre DEF Counted
<1>2. \A s \in Reactors : pc'[s] = "count" => HasMains
  BY <1>0, ThreadsAre
<1>3. \A m \in Mains : ~HasMains => pc'[m] = "absent"
  BY <1>0, ThreadsAre
<1>4. ASSUME NEW m \in Mains, pc'[m] \notin {"absent", "barrier", "waiting"},
             NEW s \in Reactors
      PROVE  pc'[s] \in Running
  <2>1. pc[s] \in Running
    BY <1>0, <1>4, ThreadsAre
  <2>2. HasMains
    BY <1>0, <1>3, <1>4
  <2> QED BY <1>0, <2>1, <2>2, ThreadsAre
<1> QED BY <1>0, <1>1, <1>2, <1>3, <1>4

\* Every step keeps the barrier.
LEMMA StepBarrier ==
    ASSUME MInv, [Next]_allVars
    PROVE  BarrierOK' /\ EpollInitCnt' \in 0 .. NProcs
<1>0. /\ pc \in [Threads -> {"absent", "barrier", "waiting", "listen", "create",
                          "count", "notify", "loop", "accept", "read", "hand",
                          "wasRead", "write", "wrote", "ended"}]
      /\ EpollInitCnt \in 0 .. NProcs
  BY DEF MInv, TypeOK
<1> DEFINE Goal == BarrierOK' /\ EpollInitCnt' \in 0 .. NProcs
<1>1. ASSUME UNCHANGED <<pc, program, EpollInitCnt>> PROVE Goal
  <2> Counted' = Counted
    BY <1>1 DEF Counted
  <2> QED BY <1>0, <1>1 DEF BarrierOK, HasMains, MInv
<1>2. ASSUME NEW t \in Threads, NEW x, Goto(t, x),
             UNCHANGED <<program, EpollInitCnt>>,
             pc[t] \in Running /\ x \in Running
      PROVE  Goal
  <2>1. t \in Mains => /\ pc[t] # "absent"
                       /\ \A s \in Reactors : pc[s] \in Running
    BY <1>2 DEF MInv, BarrierOK, Running
  <2>2. x # "count"
    BY <1>2 DEF Running
  <2> QED BY <1>0, <1>2, <2>1, <2>2, KeepBarrier
<1>3. ASSUME NEW t \in Threads, CreateListenSocket(t), UNCHANGED msVars
      PROVE  Goal
  <2>1. /\ pc[t] = "listen" /\ UNCHANGED <<program, EpollInitCnt>>
        /\ Goto(t, "create") \/ Goto(t, "ended")
    BY <1>3 DEF CreateListenSocket, msVars
  <2>2. t \in Mains => /\ pc[t] # "absent"
                       /\ \A s \in Reactors : pc[s] \in Running
    BY <2>1 DEF MInv, BarrierOK
  <2>3. \A x \in {"create", "ended", "listen"} : x \notin Running /\ x # "count"
    BY DEF Running
  <2> QED BY <1>0, <2>1, <2>2, <2>3, KeepBarrier
<1>4. ASSUME NEW t \in Threads, NEW x \in {"loop", "count"}, EpollCreate(t, x),
             t \in Reactors => x = IF HasMains THEN "count" ELSE "loop",
             UNCHANGED msVars
      PROVE  Goal
  <2>1. /\ pc[t] = "create" /\ UNCHANGED <<program, EpollInitCnt>>
        /\ Goto(t, x) \/ Goto(t, "ended")
    BY <1>4 DEF EpollCreate, msVars
  <2>2. t \in Mains => /\ pc[t] # "absent"
                       /\ \A s \in Reactors : pc[s] \in Running
    BY <2>1 DEF MInv, BarrierOK
  <2>3. \A y \in {"create", "ended", "count"} : y \notin Running
    BY DEF Running
  <2>4. CASE Goto(t, "ended")
    BY <1>0, <2>1, <2>2, <2>3, <2>4, KeepBarrier
  <2>5. CASE Goto(t, x)
    <3>1. t \in Reactors /\ HasMains => (pc[t] \in Running <=> x \in Running)
      BY <1>4, <2>1, <2>3
    <3>2. t \in Reactors /\ x = "count" => HasMains
      BY <1>4
    <3> QED BY <1>0, <2>1, <2>2, <2>5, <3>1, <3>2, KeepBarrier
  <2> QED BY <2>1, <2>4, <2>5
<1>5. ASSUME NEW t \in Threads, NextEvent(t), UNCHANGED msVars
      PROVE  Goal
  <2>1. UNCHANGED <<program, EpollInitCnt>> /\ pc[t] \in Running
    BY <1>5 DEF NextEvent, msVars, Running
  <2>2. \E x \in Running : Goto(t, x)
    BY <1>5, NextEventIs DEF Running
  <2> QED BY <1>2, <2>1, <2>2
<1>6. ASSUME NEW t \in Threads, HandleEvent(t) \/ AcceptAgain(t), UNCHANGED msVars
      PROVE  Goal
  <2>1. UNCHANGED <<program, EpollInitCnt>> /\ pc[t] \in Running
    BY <1>6 DEF HandleEvent, Read, ReadLost, AfterRead, Write, WriteLost, AfterWrite,
       Wrote, AcceptAgain, msVars, Running
  <2>2. \E x \in Running : Goto(t, x)
    BY <1>6 DEF HandleEvent, Read, ReadLost, AfterRead, Write, WriteLost, AfterWrite,
       AcceptAgain, NextTurn, Running
  <2> QED BY <1>2, <2>1, <2>2
<1>7. ASSUME NEW m \in Mains, waitSubReactor(m)
      PROVE  Goal
  <2>1. /\ pc[m] = "barrier" /\ UNCHANGED <<program, EpollInitCnt>> /\ m \in Threads
        /\ Goto(m, IF AllReady THEN "listen" ELSE "waiting")
    BY <1>7, ThreadsAre DEF waitSubReactor, msVars
  <2>2. HasMains
    BY <2>1 DEF MInv, BarrierOK
  <2>3. ASSUME AllReady, NEW s \in Reactors PROVE pc[s] \in Running
    <3> Cardinality(Counted) = NProcs
      BY <1>0, <2>2, <2>3, CountedIs, MainSubAssumption DEF AllReady, MInv, BarrierOK
    <3> QED BY <2>3, CountedIs DEF Counted
  <2>4. m \notin Reactors
    BY ThreadsAre
  <2>5. CASE AllReady
    BY <1>0, <2>1, <2>3, <2>4, <2>5, KeepBarrier
  <2>6. CASE ~AllReady
    BY <1>0, <2>1, <2>4, <2>6, KeepBarrier
  <2> QED BY <2>5, <2>6
<1>8. ASSUME NEW m \in Mains, SpuriousWakeup(m)
      PROVE  Goal
  <2>1. /\ pc[m] = "waiting" /\ UNCHANGED <<program, EpollInitCnt>> /\ m \in Threads
        /\ Goto(m, "barrier") /\ m \notin Reactors
    BY <1>8, ThreadsAre DEF SpuriousWakeup, msVars
  <2> QED BY <1>0, <2>1, KeepBarrier
<1>9. ASSUME NEW s \in Reactors, CountReady(s)
      PROVE  Goal
  <2>1. /\ pc[s] = "count" /\ pc' = [pc EXCEPT ![s] = "notify"]
        /\ EpollInitCnt' = EpollInitCnt + 1 /\ HasMains /\ HasMains' /\ s \in Threads
    BY <1>9, ThreadsAre DEF CountReady, Goto, MInv, BarrierOK, HasMains
  <2>2. s \notin Counted /\ Counted' = Counted \cup {s}
    BY <1>0, <2>1, ThreadsAre DEF Counted, Running
  <2>3. EpollInitCnt' = Cardinality(Counted')
    BY <1>0, <2>1, <2>2, CountedIs, FS_AddElement DEF MInv, BarrierOK
  <2>4. Counted' \subseteq Reactors
    BY <2>2 DEF Counted
  <2>5. Cardinality(Counted') \in 0 .. NProcs
    <3>1. IsFiniteSet(Counted') /\ Cardinality(Counted') <= Cardinality(Reactors)
      BY <2>4, ThreadsAre, FS_Subset
    <3>2. Cardinality(Counted') \in Nat
      BY <3>1, FS_CardinalityType
    <3> QED BY <3>1, <3>2, ThreadsAre, MainSubAssumption
  <2>6. \A m \in Mains : pc'[m] = pc[m]
    BY <1>0, <2>1, ThreadsAre
  <2>7. \A r \in Reactors : /\ pc'[r] = "count" => HasMains'
                            /\ pc[r] \in Running => pc'[r] \in Running
    BY <1>0, <2>1, ThreadsAre DEF Running
  <2> QED BY <2>1, <2>3, <2>5, <2>6, <2>7 DEF MInv, BarrierOK
<1>10. ASSUME NEW s \in Reactors, notify_all(s)
       PROVE  Goal
  <2>1. /\ pc[s] = "notify" /\ UNCHANGED <<program, EpollInitCnt>>
        /\ \A t \in Threads : pc'[t] = IF t = s THEN "loop"
                                ELSE IF t \in Waiting THEN "barrier" ELSE pc[t]
    BY <1>10 DEF notify_all, msVars
  <2>2. \A r \in Reactors : /\ pc'[r] \in Running <=> pc[r] \in Running
                            /\ pc'[r] = "count" => pc[r] = "count"
    BY <2>1, ThreadsAre DEF Waiting, Running
  <2>3. Counted' = Counted
    BY <2>2 DEF Counted
  <2>4. \A m \in Mains : \/ pc'[m] = pc[m]
                         \/ pc'[m] = "barrier" /\ pc[m] = "waiting"
    BY <2>1, ThreadsAre DEF Waiting
  <2>5. HasMains' = HasMains
    BY <2>1 DEF HasMains
  <2> QED BY <1>0, <2>1, <2>2, <2>3, <2>4, <2>5 DEF MInv, BarrierOK
<1>11. ASSUME NEW m \in Mains, ClearEvent(m) \/ HandOver(m)
       PROVE  Goal
  <2>1. UNCHANGED <<program, EpollInitCnt>> /\ pc[m] \in Running /\ m \in Threads
    BY <1>11, ThreadsAre DEF ClearEvent, HandOver, msVars, Running
  <2>2. \E x \in Running : Goto(m, x)
    BY <1>11 DEF ClearEvent, HandOver, NextTurn, Running
  <2> QED BY <1>2, <2>1, <2>2
<1>12. ASSUME NEW t \in Threads,
             \/ (Clients \/ EpollWait(t) \/ Accept(t)) /\ UNCHANGED msVars
             \/ MainAccept(t)
       PROVE  UNCHANGED <<pc, program, EpollInitCnt>>
  BY <1>12 DEF Clients, Continue, Begin, End, EpollWait, Accept, MainAccept, loopVars,
     msVars
<1>13. ASSUME UNCHANGED allVars PROVE Goal
  BY <1>1, <1>13 DEF allVars, vars, msVars, loopVars
<1>14. ASSUME NEW t \in Reactors, Reactor(t) PROVE Goal
  <2>1. CASE EpollCreate(t, IF HasMains THEN "count" ELSE "loop") /\ UNCHANGED msVars
    BY <1>4, <2>1, ThreadsAre
  <2> HIDE DEF Goal
  <2> QED BY <1>1, <1>3, <1>5, <1>6, <1>9, <1>10, <1>12, <1>14, <2>1, ThreadsAre
      DEF Reactor
<1>15. ASSUME NEW m \in Mains, MainReactor(m) \/ SpuriousWakeup(m) PROVE Goal
  <2>0. m \in Threads /\ m \notin Reactors
    BY ThreadsAre
  <2>1. CASE EpollCreate(m, "loop") /\ UNCHANGED msVars
    BY <1>4, <2>0, <2>1
  <2> HIDE DEF Goal
  <2> QED BY <1>1, <1>3, <1>5, <1>6, <1>7, <1>8, <1>11, <1>12, <1>15, <2>0, <2>1
      DEF MainReactor
<1>16. ASSUME Clients, UNCHANGED msVars PROVE Goal
  BY <1>1, <1>12, <1>16, ThreadsAre, ReactorAssumption
<1> HIDE DEF Goal
<1>17. Goal
  BY <1>13, <1>14, <1>15, <1>16 DEF Next
<1> QED BY <1>17 DEF Goal

-----------------------------------------------------------------------------
(* The home of a connection.                                               *)

\* Threads that go on with the connections they have keep the homes.
LEMMA GoOnOwn ==
    ASSUME MInv, UNCHANGED <<life, interest, home, port, events>>, CurOK',
           \A k \in Conns : client'[k] = "new" => client[k] = "new",
           \A t \in Threads : pc[t] \in Running => pc'[t] \in Running,
           \A t \in Threads : cur'[t] \in Conns =>
               /\ cur'[t] = cur[t]
               /\ \/ pc'[t] = pc[t]
                  \/ pc'[t] \in {"read", "wasRead"} /\ pc[t] \in {"read", "wasRead"}
                  \/ pc'[t] \in {"write", "wrote"} /\ pc[t] \in {"write", "wrote"},
           \A t \in Threads : cur[t] \in Conns => cur'[t] = cur[t]
    PROVE  Own'
<1> USE DEF MInv, Own
<1>1. \A m \in Mains : pc[m] = "hand" <=> pc'[m] = "hand"
  <2> TAKE m \in Mains
  <2>1. m \in Threads
    BY ThreadsAre
  <2>2. CASE cur'[m] \in Conns
    BY <2>1, <2>2
  <2>3. CASE cur'[m] \notin Conns
    BY <2>1, <2>3 DEF CurOK, Busy
  <2> QED BY <2>2, <2>3
<1>2. \A m \in Mains : pc[m] = "hand" => cur[m] \in Conns /\ cur'[m] = cur[m]
  BY ThreadsAre DEF CurOK, Busy
<1>3. PlaceOK'
  <2> SUFFICES ASSUME NEW k \in Conns
               PROVE  Placed(k)'
    BY DEF PlaceOK
  <2> USE DEF Placed, PlaceOK
  <2>1. CASE life[k] = "open" /\ \E t \in Threads : home[k] = {t} /\ pc[t] \in Running
    BY <2>1 DEF PlaceOK, Placed
  <2>2. CASE life[k] = "open" /\ home[k] = {}
    BY <1>1, <1>2, <2>2 DEF PlaceOK, Placed
  <2> QED BY <2>1, <2>2 DEF PlaceOK, Placed
<1>4. UseOK'
  <2> SUFFICES ASSUME NEW t \in Threads, NEW k \in Conns
               PROVE  Uses(t, k)'
    BY DEF UseOK
  <2> USE DEF Uses, UseOK
  <2>1. InEvents(t, k)' <=> InEvents(t, k)
    BY DEF InEvents
  <2>2. CASE cur'[t] = k
    <3> cur[t] = k
      BY <2>2
    <3> QED BY <2>1, <2>2 DEF UseOK, Uses
  <2>3. CASE cur'[t] # k
    BY <2>1, <2>3 DEF UseOK, Uses
  <2> QED BY <2>2, <2>3
<1>5. HandOK'
  BY <1>1, <1>2 DEF HandOK
<1> QED BY <1>3, <1>4, <1>5

\* A connection that is accepted into the epoll of a running thread has its home
\* there.
LEMMA AcceptedOwn ==
    ASSUME MInv, NEW k \in Conns, NEW s \in Threads,
           life[k] = "backlog", Accepted(k), AddReadEvent(k, s),
           pc[s] \in Running, s \in Mains => port[k] = s,
           UNCHANGED <<client, port, events, cur, pc>>
    PROVE  Own'
<1> USE DEF MInv, Own
<1>1. home[k] = {} /\ interest[k] = "none" /\ client[k] # "new"
  BY DEF PlaceOK, Placed
<1>2. /\ life'[k] = "open" /\ interest'[k] = "in" /\ home'[k] = {s}
      /\ \A x \in Conns : x # k =>
            life'[x] = life[x] /\ interest'[x] = interest[x] /\ home'[x] = home[x]
  BY <1>1 DEF Accepted, AddReadEvent, SetInterest, TypeOK, ConnTypeOK
<1>3. CurOK' /\ HandOK'
  BY DEF CurOK, HandOK
<1>4. PlaceOK'
  <2> SUFFICES ASSUME NEW x \in Conns
               PROVE  Placed(x)'
    BY DEF PlaceOK
  <2> USE DEF Placed, PlaceOK
  <2>1. CASE x = k
    BY <1>1, <1>2, <2>1
  <2>2. CASE x # k
    BY <1>2, <2>2 DEF PlaceOK, Placed
  <2> QED BY <2>1, <2>2
<1>5. \A t \in Threads : cur[t] # k /\ ~InEvents(t, k)
  <2> TAKE t \in Threads
  <2>1. ~InEvents(t, k)
    BY <1>1 DEF UseOK, Uses, InEvents
  <2>2. ASSUME cur[t] = k PROVE FALSE
    <3> pc[t] \in Busy
      BY <2>2 DEF CurOK
    <3> QED BY <2>2, CurIs
  <2> QED BY <2>1, <2>2
<1>6. UseOK'
  <2> SUFFICES ASSUME NEW t \in Threads, NEW x \in Conns
               PROVE  Uses(t, x)'
    BY DEF UseOK
  <2> USE DEF Uses, UseOK
  <2>1. CASE x = k
    BY <1>5, <2>1 DEF InEvents
  <2>2. CASE x # k
    BY <1>2, <2>2 DEF UseOK, Uses, InEvents
  <2> QED BY <2>1, <2>2
<1> QED BY <1>3, <1>4, <1>6

\* A reactor that is done with a connection leaves it armed or deleted.
LEMMA LetsGoOwn ==
    ASSUME MInv, NEW t \in Reactors, NEW k \in Conns, cur[t] = k,
           NextTurn(t), UNCHANGED <<client, port, home, events>>,
           \A x \in Conns \ {k} : life'[x] = life[x] /\ interest'[x] = interest[x],
           \/ life'[k] = life[k] /\ interest'[k] \in {"in", "out"}
           \/ life'[k] = "deleted" /\ interest'[k] = "none"
    PROVE  Own'
<1> USE DEF MInv, Own
<1>1. /\ t \in Threads /\ t \notin Mains /\ NoConn \notin Conns
      /\ \A u \in Threads : pc'[u] = IF u = t THEN "loop" ELSE pc[u]
      /\ \A u \in Threads : cur'[u] = IF u = t THEN NoConn ELSE cur[u]
  BY ThreadsAre, ReactorAssumption DEF NextTurn, Goto, TypeOK
<1>2. pc[t] \in Busy /\ pc[t] # "hand"
  BY <1>1 DEF CurOK
<1>3. /\ life[k] = "open" /\ client[k] # "new" /\ ~InEvents(t, k)
      /\ \A u \in Threads : cur[u] = k \/ InEvents(u, k) => u = t
  BY <1>1, <1>2, CurIs
<1>4. home[k] = {t}
  BY <1>1, <1>2 DEF UseOK, Uses, Busy
<1>5. CurOK'
  BY <1>1 DEF CurOK, Busy
<1>6. \A m \in Mains : pc'[m] = pc[m] /\ cur'[m] = cur[m]
  BY <1>1, ThreadsAre
<1>7. PlaceOK'
  <2> SUFFICES ASSUME NEW x \in Conns
               PROVE  Placed(x)'
    BY DEF PlaceOK
  <2> USE DEF Placed, PlaceOK
  <2>1. CASE x = k
    <3> pc'[t] \in Running
      BY <1>1 DEF Running
    <3> QED BY <1>1, <1>3, <1>4, <2>1
  <2>2. CASE x # k
    <3>1. life'[x] = life[x] /\ interest'[x] = interest[x]
      BY <2>2
    <3>2. \A u \in Threads : pc[u] \in Running => pc'[u] \in Running
      BY <1>1 DEF Running
    <3> QED BY <1>6, <3>1, <3>2 DEF PlaceOK, Placed
  <2> QED BY <2>1, <2>2
<1>8. UseOK'
  <2> SUFFICES ASSUME NEW u \in Threads, NEW x \in Conns
               PROVE  Uses(u, x)'
    BY DEF UseOK
  <2> USE DEF Uses, UseOK
  <2>1. InEvents(u, x)' <=> InEvents(u, x)
    BY DEF InEvents
  <2>2. CASE x = k
    BY <1>1, <1>3, <2>1, <2>2 DEF InEvents
  <2>3. CASE x # k /\ u = t
    <3>1. life'[x] = life[x] /\ interest'[x] = interest[x]
      BY <2>3
    <3> QED BY <1>1, <2>1, <2>3, <3>1 DEF UseOK, Uses
  <2>4. CASE x # k /\ u # t
    <3>1. life'[x] = life[x] /\ interest'[x] = interest[x]
      BY <2>4
    <3> QED BY <1>1, <2>1, <2>4, <3>1 DEF UseOK, Uses
  <2> QED BY <2>2, <2>3, <2>4
<1>9. HandOK'
  BY <1>6 DEF HandOK
<1> QED BY <1>5, <1>7, <1>8, <1>9

\* epoll_wait reports connections of this epoll, for what they are armed for.
LEMMA EpollWaitOwn ==
    ASSUME MInv, NEW t \in Threads, EpollWait(t)
    PROVE  Own'
<1> USE DEF MInv, Own
<1> DEFINE R == ReadyEvents(t)
<1>1. /\ pc[t] = "loop" /\ cur[t] \notin Conns
      /\ \A u \in Threads : events'[u] = IF u = t THEN R ELSE events[u]
      /\ UNCHANGED <<client, life, interest, home, port, pc, cur>>
  BY DEF EpollWait, CurOK, TypeOK, clientVars, connVars, Busy
<1>2. \A k \in Conns :
        /\ <<k, "read">> \in R => home[k] = {t} /\ interest[k] = "in"
        /\ <<k, "write">> \in R => home[k] = {t} /\ interest[k] = "out"
  <2> TAKE k \in Conns
  <2>1. <<k, "read">> \in R \/ <<k, "write">> \in R => t \in home[k]
    BY ReadyEventsAre DEF Reported, InEpoll
  <2>2. /\ <<k, "read">> \in R => interest[k] \in {"in", "in1"}
        /\ <<k, "write">> \in R => interest[k] = "out"
    BY ReadyEventsAre DEF ReadyIn, ReadyOut
  <2>3. ASSUME t \in home[k], interest[k] # "none" PROVE home[k] = {t} /\ interest[k] # "in1"
    <3>1. life[k] = "open"
      BY <2>3 DEF PlaceOK, Placed, TypeOK, ConnTypeOK
    <3> QED BY <2>3, <3>1 DEF PlaceOK, Placed
  <2> QED BY <2>1, <2>2, <2>3
<1> HIDE DEF R
<1>3. CurOK' /\ PlaceOK' /\ HandOK'
  BY <1>1 DEF CurOK, PlaceOK, Placed, HandOK
<1>4. UseOK'
  <2> SUFFICES ASSUME NEW u \in Threads, NEW k \in Conns
               PROVE  Uses(u, k)'
    BY DEF UseOK
  <2> USE DEF Uses, UseOK
  <2>1. CASE u = t
    BY <1>1, <1>2, <2>1 DEF InEvents
  <2>2. CASE u # t
    BY <1>1, <2>2 DEF UseOK, Uses, InEvents
  <2> QED BY <2>1, <2>2
<1> QED BY <1>3, <1>4

\* The thread takes an event and with it the connection.
LEMMA NextEventOwn ==
    ASSUME MInv, NEW t \in Threads, NextEvent(t)
    PROVE  Own'
<1> USE DEF MInv, Own
<1>1. /\ pc[t] = "loop" /\ cur[t] \notin Conns
      /\ UNCHANGED <<client, life, interest, home, port>>
      /\ Listen \notin Conns
      /\ events \in [Threads -> SUBSET (Conns \X {"read", "write"}
                                      \cup {<<Listen, "accept">>})]
  BY ReactorAssumption DEF NextEvent, CurOK, TypeOK, clientVars, connVars, Busy
<1>2. PICK x \in Conns \cup {Listen}, p \in {"accept", "read", "write"} :
        /\ <<x, p>> \in events[t] /\ (x = Listen <=> p = "accept")
        /\ \A u \in Threads : events'[u] = IF u = t THEN events[t] \ {<<x, p>>} ELSE events[u]
        /\ \A u \in Threads : cur'[u] = IF u = t THEN x ELSE cur[u]
        /\ \A u \in Threads : pc'[u] = IF u = t THEN p ELSE pc[u]
  <2>1. /\ cur \in [Threads -> Conns \cup {Listen, NoConn}] /\ DOMAIN pc = Threads
        /\ DOMAIN events = Threads
    BY DEF TypeOK
  <2> DEFINE Takes(x, p) ==
        /\ <<x, p>> \in events[t]
        /\ \A u \in Threads : events'[u] = IF u = t THEN events[t] \ {<<x, p>>} ELSE events[u]
        /\ \A u \in Threads : cur'[u] = IF u = t THEN x ELSE cur[u]
        /\ \A u \in Threads : pc'[u] = IF u = t THEN p ELSE pc[u]
  <2>2. ASSUME NEW x, NEW p, <<x, p>> \in events[t],
               events' = [events EXCEPT ![t] = @ \ {<<x, p>>}],
               cur' = [cur EXCEPT ![t] = x], Goto(t, p)
        PROVE  Takes(x, p)
    BY <2>1, <2>2 DEF Goto
  <2> HIDE DEF MInv, Own, Takes
  <2>3. Takes(Listen, "accept") \/ \E k \in Conns : Takes(k, "read") \/ Takes(k, "write")
    BY <2>2, NextEventIs
  <2>4. \E x \in Conns \cup {Listen}, p \in {"accept", "read", "write"} :
           Takes(x, p) /\ (x = Listen <=> p = "accept")
    BY <1>1, <2>3
  <2> QED BY <2>4 DEF Takes
<1>3. x \in Conns => /\ home[x] = {t}
                     /\ interest[x] = IF p = "read" THEN "in" ELSE "out"
                     /\ ~InEvents(t, x)'
  BY <1>1, <1>2 DEF UseOK, Uses, InEvents
<1>4. t \in Mains => p # "write"
  <2> SUFFICES ASSUME t \in Mains, p = "write" PROVE FALSE
    OBVIOUS
  <2> x \in Conns /\ home[x] = {t} /\ interest[x] = "out"
    BY <1>2, <1>3
  <2> QED BY DEF PlaceOK, Placed
<1>5. CurOK'
  BY <1>1, <1>2, <1>4 DEF CurOK, Busy
<1>6. \A m \in Mains : /\ pc'[m] = "hand" <=> pc[m] = "hand"
                       /\ pc[m] = "hand" => cur'[m] = cur[m]
  BY <1>1, <1>2, ThreadsAre
<1>7. HandOK'
  BY <1>6 DEF HandOK
<1>8. PlaceOK'
  <2>1. \A u \in Threads : pc[u] \in Running => pc'[u] \in Running
    BY <1>2 DEF Running
  <2>2. ASSUME NEW k \in Conns, \E u \in Threads : home[k] = {u} /\ pc[u] \in Running
        PROVE  \E u \in Threads : home[k] = {u} /\ pc'[u] \in Running
    BY <2>1, <2>2
  <2> QED BY <1>1, <1>6, <2>2 DEF PlaceOK, Placed
<1>9. UseOK'
  <2> SUFFICES ASSUME NEW u \in Threads, NEW k \in Conns
               PROVE  Uses(u, k)'
    BY DEF UseOK
  <2> USE DEF Uses, UseOK
  <2>1. CASE u # t
    BY <1>1, <1>2, <2>1 DEF InEvents
  <2>2. CASE u = t /\ k = x
    BY <1>1, <1>2, <1>3, <2>2 DEF InEvents
  <2>3. CASE u = t /\ k # x
    BY <1>1, <1>2, <2>3 DEF InEvents
  <2> QED BY <2>1, <2>2, <2>3
<1> QED BY <1>5, <1>7, <1>8, <1>9

\* A main reactor takes a connection out of its epoll and keeps it in hand.
LEMMA ClearEventOwn ==
    ASSUME MInv, NEW m \in Mains, ClearEvent(m)
    PROVE  Own'
<1> USE DEF MInv, Own
<1> DEFINE k == cur[m]
<1>1. /\ pc[m] = "read" /\ m \in Threads
      /\ \A u \in Threads : pc'[u] = IF u = m THEN "hand" ELSE pc[u]
      /\ UNCHANGED <<client, life, port, events, cur>>
  BY ThreadsAre DEF ClearEvent, Goto, TypeOK, clientVars
<1>2. /\ k \in Conns /\ life[k] = "open" /\ client[k] # "new" /\ ~InEvents(m, k)
      /\ \A u \in Threads : cur[u] = k \/ InEvents(u, k) => u = m
  BY <1>1, CurIs DEF Busy
<1>3. home[k] = {m} /\ port[k] = m
  <2>1. home[k] = {m}
    BY <1>1, <1>2 DEF UseOK, Uses
  <2> QED BY <1>2, <2>1 DEF PlaceOK, Placed
<1>4. /\ interest'[k] = "none" /\ home'[k] = {}
      /\ \A x \in Conns : x # k => interest'[x] = interest[x] /\ home'[x] = home[x]
  BY <1>2, <1>3 DEF ClearEvent, SetInterest, TypeOK, ConnTypeOK
<1>5. cur[m] = k
  OBVIOUS
<1> HIDE DEF k
<1>6. CurOK'
  BY <1>1, ThreadsAre DEF CurOK, Busy
<1>7. HandOK'
  BY <1>1, <1>2, <1>5, ThreadsAre DEF HandOK
<1>8. PlaceOK'
  <2> SUFFICES ASSUME NEW x \in Conns
               PROVE  Placed(x)'
    BY DEF PlaceOK
  <2> USE DEF Placed, PlaceOK
  <2>1. CASE x = k
    BY <1>1, <1>2, <1>4, <1>5, <2>1
  <2>2. CASE x # k
    <3>1. \A u \in Threads : pc[u] \in Running => pc'[u] \in Running
      BY <1>1 DEF Running
    <3>2. \A n \in Mains : pc[n] = "hand" => pc'[n] = "hand"
      BY <1>1, ThreadsAre
    <3> QED BY <1>1, <1>4, <2>2, <3>1, <3>2
  <2> QED BY <2>1, <2>2
<1>9. UseOK'
  <2> SUFFICES ASSUME NEW u \in Threads, NEW x \in Conns
               PROVE  Uses(u, x)'
    BY DEF UseOK
  <2> USE DEF Uses, UseOK
  <2>1. InEvents(u, x)' <=> InEvents(u, x)
    BY <1>1 DEF InEvents
  <2>2. CASE x = k
    BY <1>1, <1>2, <1>3, <1>4, <1>5, <2>1, <2>2 DEF InEvents
  <2>3. CASE x # k /\ u = m
    BY <1>1, <1>4, <1>5, <2>1, <2>3 DEF UseOK, Uses
  <2>4. CASE x # k /\ u # m
    BY <1>1, <1>4, <2>1, <2>4 DEF UseOK, Uses
  <2> QED BY <2>2, <2>3, <2>4
<1> QED BY <1>6, <1>7, <1>8, <1>9

\* The reactor whose turn it is gets the connection from the main reactor.
LEMMA HandOverOwn ==
    ASSUME MInv, NEW m \in Mains, HandOver(m)
    PROVE  Own'
<1> USE DEF MInv, Own
<1> DEFINE k == cur[m]
           s == NextIndex(m)
<1>1. /\ pc[m] = "hand" /\ m \in Threads /\ NoConn \notin Conns
      /\ \A u \in Threads : pc'[u] = IF u = m THEN "loop" ELSE pc[u]
      /\ \A u \in Threads : cur'[u] = IF u = m THEN NoConn ELSE cur[u]
      /\ UNCHANGED <<client, life, port, events>>
  BY ThreadsAre, ReactorAssumption DEF HandOver, NextTurn, Goto, TypeOK, clientVars
<1>2. /\ k \in Conns /\ life[k] = "open" /\ client[k] # "new" /\ ~InEvents(m, k)
      /\ \A u \in Threads : cur[u] = k \/ InEvents(u, k) => u = m
  BY <1>1, CurIs DEF Busy
<1>3. s \in Reactors /\ s \in Threads /\ s \notin Mains
  <2> s \in Reactors
    BY MainSubAssumption DEF NextIndex, Reactors, TypeOK
  <2> QED BY ThreadsAre
<1>4. pc[s] \in Running
  BY <1>1, <1>3 DEF BarrierOK
<1>5. home[k] = {}
  BY <1>1, <1>2 DEF UseOK, Uses
<1>6. /\ interest'[k] = "in" /\ home'[k] = {s}
      /\ \A x \in Conns : x # k => interest'[x] = interest[x] /\ home'[x] = home[x]
  BY <1>2, <1>5 DEF HandOver, addToSubReactor, AddReadEvent, SetInterest, TypeOK,
     ConnTypeOK
<1>7. cur[m] = k
  OBVIOUS
<1> HIDE DEF k, s
<1>8. CurOK'
  BY <1>1 DEF CurOK, Busy
<1>9. HandOK'
  BY <1>1, ThreadsAre DEF HandOK
<1>10. PlaceOK'
  <2> SUFFICES ASSUME NEW x \in Conns
               PROVE  Placed(x)'
    BY DEF PlaceOK
  <2> USE DEF Placed, PlaceOK
  <2>0. \A u \in Threads : pc[u] \in Running => pc'[u] \in Running
    BY <1>1 DEF Running
  <2>1. CASE x = k
    BY <1>1, <1>2, <1>3, <1>4, <1>6, <2>0, <2>1
  <2>2. CASE x # k
    <3>1. \A n \in Mains : pc[n] = "hand" /\ cur[n] = x => pc'[n] = "hand" /\ cur'[n] = x
      BY <1>1, <1>7, <2>2, ThreadsAre
    <3> QED BY <1>1, <1>6, <2>0, <2>2, <3>1
  <2> QED BY <2>1, <2>2
<1>11. UseOK'
  <2> SUFFICES ASSUME NEW u \in Threads, NEW x \in Conns
               PROVE  Uses(u, x)'
    BY DEF UseOK
  <2> USE DEF Uses, UseOK
  <2>1. InEvents(u, x)' <=> InEvents(u, x)
    BY <1>1 DEF InEvents
  <2>2. CASE x = k
    BY <1>1, <1>2, <2>1, <2>2 DEF InEvents
  <2>3. CASE x # k /\ u = m
    BY <1>1, <1>6, <2>1, <2>3 DEF UseOK, Uses
  <2>4. CASE x # k /\ u # m
    BY <1>1, <1>6, <2>1, <2>4 DEF UseOK, Uses
  <2> QED BY <2>2, <2>3, <2>4
<1> QED BY <1>8, <1>9, <1>10, <1>11

\* Steps of clients move no connection.
LEMMA ClientsOwn ==
    ASSUME MInv, Clients
    PROVE  Own'
<1> USE DEF MInv, Own, TypeOK, ConnTypeOK
<1>1. UNCHANGED <<program, port, listening, home, pc, cur, events>>
  BY DEF Clients, Continue, Begin, End, loopVars
<1>2. CurOK'
  BY <1>1 DEF CurOK
<1>3. ASSUME NEW k \in Conns, Send(k) \/ Take(k) \/ ShutDown(k) \/ Reset(k)
      PROVE  Own'
  <2>1. /\ UNCHANGED <<life, interest>>
        /\ \A x \in Conns : client'[x] = "new" => client[x] = "new"
    BY <1>3 DEF Send, Take, ShutDown, Reset, connVars
  <2> HIDE DEF MInv, Own
  <2> QED BY <1>1, <1>2, <2>1, GoOnOwn
<1>4. ASSUME NEW k \in Conns, Connect(k)
      PROVE  Own'
  <2>1. /\ client[k] = "new" /\ client'[k] = "open" /\ life'[k] = "backlog"
        /\ \A x \in Conns : x # k => client'[x] = client[x] /\ life'[x] = life[x]
        /\ UNCHANGED interest
    BY <1>4 DEF Connect
  <2>2. PlaceOK'
    <3> SUFFICES ASSUME NEW x \in Conns PROVE Placed(x)'
      BY DEF PlaceOK
    <3> Placed(x) /\ (x = k => life[x] = "none")
      BY <2>1 DEF PlaceOK, Placed
    <3> QED BY <1>1, <2>1 DEF Placed
  <2>3. UseOK'
    <3> SUFFICES ASSUME NEW t \in Threads, NEW x \in Conns PROVE Uses(t, x)'
      BY DEF UseOK
    <3> Uses(t, x) /\ (x = k => life[x] = "none")
      BY <2>1 DEF UseOK, PlaceOK, Placed
    <3> QED BY <1>1, <2>1 DEF Uses, InEvents
  <2>4. HandOK'
    BY <1>1 DEF HandOK
  <2> QED BY <1>2, <2>2, <2>3, <2>4
<1> QED BY <1>3, <1>4 DEF Clients, Continue, Begin, End

\* Every step keeps the homes.
LEMMA StepOwn ==
    ASSUME MInv, [Next]_allVars
    PROVE  Own'
<1>0. /\ \A t \in Threads : pc[t] \in Running => pc'[t] \in Running
      /\ DOMAIN pc = Threads /\ DOMAIN cur = Threads
      /\ Listen \notin Conns /\ NoConn \notin Conns /\ CurOK
  BY RunningStays, ReactorAssumption DEF MInv, TypeOK, Own
<1>1. CASE UNCHANGED allVars
  <2> UNCHANGED <<client, life, interest, home, port, events, pc, cur>>
    BY <1>1 DEF allVars, vars, clientVars, connVars, loopVars
  <2> CurOK'
    BY <1>0 DEF CurOK
  <2> QED BY GoOnOwn
<1>2. CASE Clients
  BY <1>2, ClientsOwn
<1>3. ASSUME NEW t \in Threads,
             UNCHANGED <<client, life, interest, home, port, events>>,
             pc[t] \notin Busy,
             \/ UNCHANGED cur
             \/ cur' = [cur EXCEPT ![t] = NoConn],
             NEW p \in {"listen", "create", "ended", "loop", "barrier", "waiting"}
                       \cup (IF t \in Mains THEN {} ELSE {"count", "notify"}),
             t \in Reactors => p \notin {"barrier", "waiting"},
             Goto(t, p)
      PROVE  Own'
  <2>1. /\ \A u \in Threads : pc'[u] = IF u = t THEN p ELSE pc[u]
        /\ cur[t] \notin Conns /\ cur'[t] \notin Conns
        /\ \A u \in Threads : u # t => cur'[u] = cur[u]
    BY <1>0, <1>3 DEF CurOK, Goto
  <2>2. p \notin Busy
    BY <1>3 DEF Busy
  <2>3. CurOK'
    BY <1>0, <1>3, <2>1, <2>2 DEF CurOK
  <2> QED BY <1>0, <1>3, <2>1, <2>3, GoOnOwn
<1>4. ASSUME NEW t \in Threads,
             \/ CreateListenSocket(t) \/ EpollCreate(t, "loop")
             \/ t \in Reactors /\ EpollCreate(t, "count")
             \/ AcceptAgain(t)
      PROVE  Own'
  <2>1. UNCHANGED <<client, life, interest, home, port, events>> /\ pc[t] \notin Busy
    BY <1>4 DEF CreateListenSocket, EpollCreate, AcceptAgain, clientVars, connVars, Busy
  <2>2. CASE CreateListenSocket(t)
    <3> UNCHANGED cur /\ \E p \in {"create", "ended"} : Goto(t, p)
      BY <2>2 DEF CreateListenSocket
    <3> QED BY <1>3, <2>1
  <2>3. CASE EpollCreate(t, "loop")
    <3> UNCHANGED cur /\ \E p \in {"loop", "ended"} : Goto(t, p)
      BY <2>3 DEF EpollCreate
    <3> QED BY <1>3, <2>1
  <2>4. CASE t \in Reactors /\ EpollCreate(t, "count")
    <3> UNCHANGED cur /\ \E p \in {"count", "ended"} : Goto(t, p)
      BY <2>4 DEF EpollCreate
    <3> QED BY <1>3, <2>1, <2>4, ThreadsAre
  <2>5. CASE AcceptAgain(t)
    <3> cur' = [cur EXCEPT ![t] = NoConn] /\ Goto(t, "loop")
      BY <2>5 DEF AcceptAgain, NextTurn
    <3> QED BY <1>3, <2>1
  <2> QED BY <1>4, <2>2, <2>3, <2>4, <2>5
<1>5. ASSUME NEW s \in Reactors, CountReady(s)
      PROVE  Own'
  <2> /\ UNCHANGED <<client, life, interest, home, port, events, cur>>
      /\ pc[s] \notin Busy /\ Goto(s, "notify") /\ s \in Threads /\ s \notin Mains
    BY <1>5, ThreadsAre DEF CountReady, clientVars, connVars, Busy
  <2> QED BY <1>3
<1>6. ASSUME NEW s \in Reactors, notify_all(s)
      PROVE  Own'
  <2>1. /\ UNCHANGED <<client, life, interest, home, port, events, cur>>
        /\ pc[s] = "notify" /\ s \in Threads /\ s \notin Mains
        /\ \A t \in Threads : pc'[t] = IF t = s THEN "loop"
                               ELSE IF t \in Waiting THEN "barrier" ELSE pc[t]
    BY <1>6, ThreadsAre DEF notify_all, clientVars, connVars
  <2>2. \A t \in Threads : \/ pc'[t] = pc[t]
                           \/ t = s /\ pc[t] = "notify" /\ pc'[t] = "loop"
                           \/ t \in Mains /\ pc[t] = "waiting" /\ pc'[t] = "barrier"
    BY <2>1 DEF Waiting
  <2>3. CurOK'
    BY <1>0, <2>1, <2>2, ThreadsAre DEF CurOK, Busy
  <2>4. \A t \in Threads : cur[t] \in Conns => pc'[t] = pc[t]
    BY <1>0, <2>2 DEF CurOK, Busy
  <2> QED BY <1>0, <2>1, <2>3, <2>4, GoOnOwn
<1>7. ASSUME NEW m \in Mains, waitSubReactor(m) \/ SpuriousWakeup(m)
      PROVE  Own'
  <2>1. /\ UNCHANGED <<client, life, interest, home, port, events, cur>>
        /\ pc[m] \notin Busy /\ m \in Threads /\ m \notin Reactors
    BY <1>7, ThreadsAre DEF waitSubReactor, SpuriousWakeup, clientVars, connVars, Busy
  <2>2. \E p \in {"listen", "waiting", "barrier"} : Goto(m, p)
    BY <1>7 DEF waitSubReactor, SpuriousWakeup
  <2> QED BY <1>3, <2>1, <2>2
<1>8. ASSUME NEW t \in Reactors, Accept(t)
      PROVE  Own'
  <2>1. PICK k \in Conns : life[k] = "backlog" /\ Accepted(k) /\ AddReadEvent(k, t)
    BY <1>8 DEF Accept, Backlog
  <2>2. UNCHANGED <<client, port, events, cur, pc>> /\ pc[t] \in Running
    BY <1>8 DEF Accept, clientVars, loopVars, Running
  <2> QED BY <2>1, <2>2, ThreadsAre, AcceptedOwn
<1>9. ASSUME NEW m \in Mains, MainAccept(m)
      PROVE  Own'
  <2>1. PICK k \in Conns :
          /\ life[k] = "backlog" /\ port[k] = m /\ Accepted(k)
          /\ AddReadEvent(k, m) \/ AddReadEvent(k, NextIndex(m))
    BY <1>9 DEF MainAccept, Backlog, addToSubReactor
  <2>2. UNCHANGED <<client, port, events, cur, pc>> /\ pc[m] \in Running /\ pc[m] = "accept"
    BY <1>9 DEF MainAccept, clientVars, loopVars, Running
  <2>3. NextIndex(m) \in Reactors
    BY MainSubAssumption DEF NextIndex, Reactors, MInv, TypeOK
  <2>4. pc[NextIndex(m)] \in Running
    BY <2>2, <2>3 DEF MInv, BarrierOK
  <2> QED BY <2>1, <2>2, <2>3, <2>4, ThreadsAre, AcceptedOwn
<1>10. ASSUME NEW t \in Reactors, HandleEvent(t)
       PROVE  Own'
  <2> DEFINE k == cur[t]
  <2>1. UNCHANGED <<client, port, home, events>> /\ pc[t] \in Busy /\ t \in Threads
    BY <1>10, ThreadsAre DEF HandleEvent, Read, ReadLost, AfterRead, Write, WriteLost,
       AfterWrite, Wrote, Busy, clientVars
  <2>2. k \in Conns /\ interest \in [Conns -> {"none", "in", "in1", "off", "out"}]
        /\ life \in [Conns -> {"none", "backlog", "open", "deleted"}]
    BY <2>1, CurIs DEF MInv, TypeOK, ConnTypeOK
  <2>3. ASSUME Release(k), NextTurn(t) PROVE Own'
    <3> /\ \A x \in Conns \ {k} : life'[x] = life[x] /\ interest'[x] = interest[x]
        /\ life'[k] = "deleted" /\ interest'[k] = "none"
      BY <2>2, <2>3 DEF Release, SetInterest
    <3> QED BY <2>1, <2>2, <2>3, LetsGoOwn
  <2>4. ASSUME UNCHANGED <<life, interest>>, NextTurn(t), pc[t] # "hand" PROVE Own'
    <3> interest[k] \in {"in", "out"}
      BY <2>1, <2>2, <2>4 DEF MInv, Own, UseOK, Uses, Busy
    <3> QED BY <2>1, <2>2, <2>4, LetsGoOwn
  <2>5. CASE ReadLost(t) \/ WriteLost(t)
    BY <2>3, <2>5 DEF ReadLost, WriteLost
  <2>6. CASE AfterWrite(t)
    <3> pc[t] # "hand"
      BY <2>6 DEF AfterWrite, Wrote
    <3> QED BY <2>3, <2>4, <2>6 DEF AfterWrite
  <2>7. CASE AfterRead(t)
    <3>1. NextTurn(t) /\ UNCHANGED life /\ pc[t] # "hand"
      BY <2>7 DEF AfterRead
    <3>2. CASE OneMessage(k)
      <4> interest' = [interest EXCEPT ![k] = "out"]
        BY <2>7, <3>2 DEF AfterRead, ModToWriteEvent, SetInterest
      <4> interest'[k] = "out" /\ \A x \in Conns \ {k} : interest'[x] = interest[x]
        BY <2>2
      <4> QED BY <2>1, <2>2, <3>1, LetsGoOwn
    <3>3. CASE ~OneMessage(k)
      <4> UNCHANGED interest
        BY <2>7, <3>3 DEF AfterRead
      <4> QED BY <2>4, <3>1
    <3> QED BY <3>2, <3>3
  <2>8. CASE Read(t) \/ Write(t)
    <3>1. /\ UNCHANGED <<life, interest, cur>>
          /\ \/ pc[t] = "read" /\ \E p \in {"read", "wasRead"} : Goto(t, p)
             \/ pc[t] = "write" /\ \E p \in {"write", "wrote"} : Goto(t, p)
      BY <2>8 DEF Read, Write
    <3>2. /\ \A u \in Threads : u # t => pc'[u] = pc[u]
          /\ \/ pc[t] = "read" /\ pc'[t] \in {"read", "wasRead"}
             \/ pc[t] = "write" /\ pc'[t] \in {"write", "wrote"}
      BY <1>0, <2>1, <3>1 DEF Goto
    <3>3. CurOK'
      BY <1>0, <2>1, <3>1, <3>2, ThreadsAre DEF CurOK, Busy
    <3>4. \A u \in Threads :
               \/ pc'[u] = pc[u]
               \/ pc'[u] \in {"read", "wasRead"} /\ pc[u] \in {"read", "wasRead"}
               \/ pc'[u] \in {"write", "wrote"} /\ pc[u] \in {"write", "wrote"}
      BY <3>2
    <3> QED BY <1>0, <2>1, <3>1, <3>3, <3>4, GoOnOwn
  <2> QED BY <1>10, <2>5, <2>6, <2>7, <2>8 DEF HandleEvent
<1> QED
  BY <1>1, <1>2, <1>4, <1>5, <1>6, <1>7, <1>8, <1>9, <1>10, ThreadsAre,
     EpollWaitOwn, NextEventOwn, ClearEventOwn, HandOverOwn
  DEF Next, Reactor, MainReactor

-----------------------------------------------------------------------------
(* Edge-triggered events.                                                  *)

Ready(k) == ReadyIn(k) \/ ReadyOut(k)

HeldBySome(k) == \E t \in Threads : cur[t] = k \/ InEvents(t, k)

\* The program never changes.
LEMMA SameProgram == [Next]_allVars => UNCHANGED program
BY DEF Next, Reactor, MainReactor, allVars, vars, Clients, Continue, Begin, End,
   CreateListenSocket, EpollCreate, EpollWait, NextEvent, Accept, AcceptAgain,
   HandleEvent, Read, ReadLost, AfterRead, Write, WriteLost, AfterWrite, CountReady,
   notify_all, waitSubReactor, SpuriousWakeup, MainAccept, ClearEvent, HandOver

\* A thread that lets go of one connection lets go of no other.
LEMMA StillHeld ==
    ASSUME TypeOK, NEW t \in Threads, UNCHANGED events, NEW k \in Conns,
           cur[t] # k, HeldBySome(k), UNCHANGED cur \/ NextTurn(t)
    PROVE  HeldBySome(k)'
<1>1. PICK u \in Threads : cur[u] = k \/ InEvents(u, k)
  BY DEF HeldBySome
<1>2. cur[u] = k => cur'[u] = k
  BY DEF NextTurn, TypeOK
<1>3. InEvents(u, k) => InEvents(u, k)'
  BY DEF InEvents
<1> QED BY <1>1, <1>2, <1>3 DEF HeldBySome

\* Every step leaves edge-triggered connections that are ready on the list of
\* epoll or with the thread.
LEMMA StepEdge ==
    ASSUME MInv, [Next]_allVars
    PROVE  NoMissedEdge'
<1>0. /\ isET' = isET /\ (isET => isMultiIo /\ ~HasMains)
      /\ edge \subseteq Conns
      /\ interest \in [Conns -> {"none", "in", "in1", "off", "out"}]
      /\ client \in [Conns -> {"new", "open", "fin", "reset"}]
      /\ DOMAIN cur = Threads /\ DOMAIN events = Threads
  BY SameProgram DEF isET, isMultiIo, HasMains, MInv, TypeOK, ConnTypeOK
<1> SUFFICES ASSUME isET, NEW k \in Conns, Ready(k)'
             PROVE  k \in edge' \/ HeldBySome(k)'
  BY <1>0 DEF NoMissedEdge, Ready, HeldBySome, Held, InEvents
<1> DEFINE Goal == k \in edge' \/ HeldBySome(k)'
<1>1. Ready(k) => k \in edge \/ HeldBySome(k)
  BY HeldIs DEF MInv, NoMissedEdge, Ready, HeldBySome
<1>2. \A j \in Conns : \A c : Armed(j, c) = IF c THEN edge \cup {j} ELSE edge
  BY DEF Armed
<1>3. ASSUME UNCHANGED <<client, sentReq, got, interest, rd, wr>>
      PROVE  Ready(k)
  BY <1>3 DEF Ready, ReadyIn, ReadyOut, Readable, Writable
<1>4. ASSUME UNCHANGED <<client, sentReq, got, interest, rd, wr, cur, events, edge>>
      PROVE  Goal
  BY <1>1, <1>3, <1>4 DEF HeldBySome, InEvents
<1>5. CASE UNCHANGED allVars
  BY <1>4, <1>5 DEF allVars, vars, clientVars, connVars, loopVars
<1>6. CASE Clients
  <2>1. UNCHANGED <<cur, events>>
    BY <1>6 DEF Clients, Continue, Begin, End, loopVars
  <2>2. HeldBySome(k)' <=> HeldBySome(k)
    BY <2>1 DEF HeldBySome, InEvents
  <2>3. ASSUME NEW j \in Conns, Send(j), edge' = Armed(j, interest[j] = "in") PROVE Goal
    <3> UNCHANGED <<client, got, interest, rd, wr>> /\ sentReq' = [sentReq EXCEPT ![j] = @ + 1]
      BY <2>3 DEF Send, connVars
    <3>1. CASE k = j
      <4>1. interest[k] \in {"in", "out", "none"}
        BY <1>0 DEF MInv, Own, PlaceOK, Placed, TypeOK, ConnTypeOK
      <4>2. interest[k] = "in" \/ ReadyOut(k)
        BY <4>1 DEF Ready, ReadyIn, ReadyOut, Writable
      <4> QED BY <4>2, <1>1, <1>2, <2>2, <2>3, <3>1 DEF Ready
    <3>2. CASE k # j
      <4> Ready(k)
        BY <1>0, <3>2 DEF Ready, ReadyIn, ReadyOut, Readable, Writable
      <4> QED BY <1>1, <1>2, <2>2, <2>3
    <3> QED BY <3>1, <3>2
  <2>4. ASSUME NEW j \in Conns, Take(j),
               edge' = Armed(j, interest[j] = "out" /\ ~Writable(j))
        PROVE  Goal
    <3> UNCHANGED <<client, sentReq, interest, rd, wr>>
      BY <2>4 DEF Take, connVars
    <3>1. CASE k = j
      <4> (interest[k] = "out" /\ ~Writable(k)) \/ Ready(k)
        BY <3>1 DEF Ready, ReadyIn, ReadyOut, Readable
      <4> QED BY <1>1, <1>2, <2>2, <2>4, <3>1
    <3>2. CASE k # j
      <4> got'[k] = got[k]
        BY <2>4, <3>2 DEF Take, MInv, TypeOK, ConnTypeOK
      <4> Ready(k)
        BY DEF Ready, ReadyIn, ReadyOut, Readable, Writable
      <4> QED BY <1>1, <1>2, <2>2, <2>4
    <3> QED BY <3>1, <3>2
  <2>5. ASSUME NEW j \in Conns, Connect(j), UNCHANGED edge PROVE Goal
    <3> /\ client[j] = "new" /\ client' = [client EXCEPT ![j] = "open"]
        /\ UNCHANGED <<sentReq, got, interest, rd, wr>>
      BY <2>5 DEF Connect
    <3>1. CASE k = j
      <4> interest[k] = "none"
        BY <3>1 DEF MInv, Own, PlaceOK, Placed
      <4> QED BY DEF Ready, ReadyIn, ReadyOut
    <3>2. CASE k # j
      <4> client'[k] = client[k]
        BY <3>2
      <4> Ready(k)
        BY DEF Ready, ReadyIn, ReadyOut, Readable, Writable
      <4> QED BY <1>1, <2>2, <2>5
    <3> QED BY <3>1, <3>2
  <2>6. ASSUME NEW j \in Conns,
               \/ ShutDown(j) /\ edge' = Armed(j, interest[j] = "in")
               \/ Reset(j) /\ edge' = Armed(j, interest[j] # "none")
        PROVE  Goal
    <3> UNCHANGED <<sentReq, got, interest, rd, wr>>
      BY <2>6 DEF ShutDown, Reset, connVars
    <3>1. CASE k = j
      <4>1. interest[k] \in {"in", "out", "none"}
        BY <1>0 DEF MInv, Own, PlaceOK, Placed, TypeOK, ConnTypeOK
      <4>2. CASE ShutDown(j) /\ edge' = Armed(j, interest[j] = "in")
        <5>1. client[k] = "open" /\ client'[k] = "fin"
          BY <1>0, <3>1, <4>2 DEF ShutDown
        <5>2. interest[k] = "in" \/ Ready(k)
          BY <4>1, <5>1 DEF Ready, ReadyIn, ReadyOut, Writable
        <5> QED BY <1>1, <1>2, <2>2, <3>1, <4>2, <5>2
      <4>3. CASE Reset(j) /\ edge' = Armed(j, interest[j] # "none")
        <5>1. interest[k] # "none"
          BY DEF Ready, ReadyIn, ReadyOut
        <5> QED BY <1>2, <3>1, <4>3, <5>1
      <4> QED BY <2>6, <4>2, <4>3
    <3>2. CASE k # j
      <4>1. client'[k] = client[k]
        BY <1>0, <2>6, <3>2 DEF ShutDown, Reset
      <4>2. Ready(k)
        BY <4>1 DEF Ready, ReadyIn, ReadyOut, Readable, Writable
      <4> QED BY <1>1, <1>2, <2>2, <2>6, <4>2
    <3> QED BY <3>1, <3>2
  <2> QED BY <1>6, <2>3, <2>4, <2>5, <2>6 DEF Clients, Continue, Begin, End
<1>7. ASSUME NEW t \in Reactors, EpollWait(t) PROVE Goal
  <2>1. /\ UNCHANGED <<client, sentReq, got, interest, rd, wr, cur>> /\ t \in Threads
        /\ edge' = edge \ InEpoll(t) /\ events[t] = {}
        /\ events' = [events EXCEPT ![t] = ReadyEvents(t)]
    BY <1>7, ThreadsAre DEF EpollWait, clientVars, connVars
  <2>2. Ready(k)
    BY <1>3, <2>1
  <2>3. CASE HeldBySome(k)
    <3> PICK u \in Threads : cur[u] = k \/ InEvents(u, k)
      BY <2>3 DEF HeldBySome
    <3> cur'[u] = k \/ InEvents(u, k)'
      BY <1>0, <2>1 DEF InEvents
    <3> QED BY DEF HeldBySome
  <2>4. CASE k \in edge /\ k \in InEpoll(t)
    <3>1. k \in Reported(t)
      BY <2>4 DEF Reported
    <3>2. <<k, "read">> \in ReadyEvents(t) \/ <<k, "write">> \in ReadyEvents(t)
      BY <2>1, <2>2, <3>1, ReadyEventsAre DEF Ready, MInv
    <3>3. InEvents(t, k)'
      BY <1>0, <2>1, <3>2 DEF InEvents
    <3> QED BY <2>1, <3>3 DEF HeldBySome
  <2> QED BY <1>1, <2>1, <2>2, <2>3, <2>4
<1>8. ASSUME NEW t \in Reactors, NextEvent(t) PROVE Goal
  <2>1. /\ UNCHANGED <<client, sentReq, got, interest, rd, wr, edge>> /\ t \in Threads
    BY <1>8, ThreadsAre DEF NextEvent, clientVars
  <2>2. Ready(k)
    BY <1>3, <2>1
  <2>3. CASE HeldBySome(k)
    <3>1. PICK u \in Threads : cur[u] = k \/ InEvents(u, k)
      BY <2>3 DEF HeldBySome
    <3>2. PICK x, p : /\ cur[t] \notin Conns
                      /\ events' = [events EXCEPT ![t] = @ \ {<<x, p>>}]
                      /\ cur' = [cur EXCEPT ![t] = x]
      BY <1>8, <2>1, NextEventIs
    <3>3. CASE u = t /\ x = k
      BY <1>0, <3>2, <3>3 DEF HeldBySome
    <3>4. CASE u # t \/ x # k
      <4> cur'[u] = k \/ InEvents(u, k)'
        BY <1>0, <3>1, <3>2, <3>4 DEF InEvents
      <4> QED BY DEF HeldBySome
    <3> QED BY <3>3, <3>4
  <2> QED BY <1>1, <2>1, <2>2, <2>3
<1>9. ASSUME NEW t \in Reactors, Accept(t) PROVE Goal
  <2>1. PICK j \in Conns : AddReadEvent(j, t)
    BY <1>9 DEF Accept, Backlog
  <2>2. /\ UNCHANGED <<client, sentReq, got, rd, wr, cur, events>>
        /\ interest' = [interest EXCEPT ![j] = "in"] /\ edge' = Armed(j, Readable(j))
    BY <1>9, <2>1 DEF Accept, AddReadEvent, SetInterest, clientVars, loopVars
  <2>3. CASE k = j
    <3> Readable(k)
      BY <1>0, <2>2, <2>3 DEF Ready, ReadyIn, ReadyOut, Readable
    <3> QED BY <1>2, <2>2, <2>3
  <2>4. CASE k # j
    <3>1. interest'[k] = interest[k]
      BY <2>2, <2>4
    <3>2. Ready(k)
      BY <2>2, <3>1 DEF Ready, ReadyIn, ReadyOut, Readable, Writable
    <3>3. HeldBySome(k)' <=> HeldBySome(k)
      BY <2>2 DEF HeldBySome, InEvents
    <3> QED BY <1>1, <1>2, <2>2, <3>2, <3>3
  <2> QED BY <2>3, <2>4
<1>10. ASSUME NEW t \in Reactors, HandleEvent(t) PROVE Goal
  <2> DEFINE j == cur[t]
  <2>1. /\ UNCHANGED <<client, sentReq, got, events>> /\ pc[t] \in Busy /\ t \in Threads
        /\ UNCHANGED cur \/ NextTurn(t)
    BY <1>10, ThreadsAre DEF HandleEvent, Read, ReadLost, AfterRead, Write, WriteLost,
       AfterWrite, Wrote, Busy, clientVars
  <2>2. j \in Conns
    BY <2>1, CurIs
  <2>3. CASE Read(t) \/ Write(t)
    <3>1. UNCHANGED <<interest, cur, edge>>
      BY <2>3 DEF Read, Write
    <3>2. CASE k = j
      BY <2>1, <3>1, <3>2 DEF HeldBySome
    <3>3. CASE k # j
      <4>1. rd'[k] = rd[k] /\ wr'[k] = wr[k]
        BY <2>2, <2>3, <3>3 DEF Read, Write, ReadPiece, WritePiece, MInv, TypeOK, ConnTypeOK
      <4>2. Ready(k)
        BY <2>1, <3>1, <4>1 DEF Ready, ReadyIn, ReadyOut, Readable, Writable
      <4> QED BY <1>1, <2>1, <3>1, <3>3, <4>2, StillHeld DEF MInv
    <3> QED BY <3>2, <3>3
  <2>4. CASE ReadLost(t) \/ WriteLost(t) \/ AfterRead(t) \/ AfterWrite(t)
    <3>1. UNCHANGED <<rd, wr>> /\ NextTurn(t) /\ edge \subseteq edge'
      BY <1>2, <2>2, <2>4 DEF ReadLost, WriteLost, AfterRead, AfterWrite
    <3>2. CASE k # j
      <4>1. interest'[k] = interest[k]
        BY <1>0, <2>2, <2>4, <3>2 DEF ReadLost, WriteLost, AfterRead, AfterWrite, Release,
           ModToWriteEvent, SetInterest
      <4>2. Ready(k)
        BY <2>1, <3>1, <4>1 DEF Ready, ReadyIn, ReadyOut, Readable, Writable
      <4> QED BY <1>1, <2>1, <3>1, <3>2, <4>2, StillHeld DEF MInv
    <3>3. CASE k = j
      <4>1. ~Release(k)
        BY <1>0 DEF Release, SetInterest, Ready, ReadyIn, ReadyOut
      <4>2. pc[t] \in {"read", "write"} /\ (AfterRead(t) \/ AfterWrite(t))
        BY <1>0, <2>1, <2>4, <3>3, <4>1 DEF ReadLost, WriteLost, AfterRead, AfterWrite,
           Wrote, MInv, DataOK, Data, Sends
      <4>3. CASE AfterRead(t) /\ OneMessage(k)
        <5>1. interest'[k] = "out" /\ edge' = Armed(k, Writable(k))
          BY <1>0, <3>3, <4>3 DEF AfterRead, ModToWriteEvent, SetInterest
        <5>2. Writable(k)
          BY <2>1, <3>1, <5>1 DEF Ready, ReadyIn, ReadyOut, Writable
        <5> QED BY <1>2, <5>1, <5>2
      <4>4. CASE AfterRead(t) /\ ~OneMessage(k)
        <5>1. pc[t] = "read"
          BY <4>2, <4>4 DEF AfterRead
        <5>2. UNCHANGED interest /\ ~Readable(k)
          BY <3>3, <4>4, <5>1 DEF AfterRead, ReadAgain
        <5>3. interest[k] = "in"
          BY <2>1, <3>3, <5>1 DEF MInv, Own, UseOK, Uses
        <5> QED BY <2>1, <3>1, <5>2, <5>3 DEF Ready, ReadyIn, ReadyOut, Readable
      <4>5. CASE AfterWrite(t)
        <5>1. UNCHANGED interest /\ pc[t] = "write" /\ ~FinishWrite(k)
          BY <3>3, <4>1, <4>2, <4>5 DEF AfterWrite, Wrote
        <5>2. ~Writable(k)
          BY <3>3, <4>5, <5>1 DEF AfterWrite, Wrote, WriteAgain
        <5>3. interest[k] = "out"
          BY <2>1, <3>3, <5>1 DEF MInv, Own, UseOK, Uses
        <5> QED BY <2>1, <3>1, <5>1, <5>2, <5>3 DEF Ready, ReadyIn, ReadyOut, Writable
      <4> QED BY <4>2, <4>3, <4>4, <4>5
    <3> QED BY <3>2, <3>3
  <2> QED BY <1>10, <2>3, <2>4 DEF HandleEvent
<1>11. ASSUME NEW t \in Reactors,
              CreateListenSocket(t) \/ EpollCreate(t, IF HasMains THEN "count" ELSE "loop")
              \/ CountReady(t) \/ notify_all(t)
       PROVE  Goal
  <2> UNCHANGED <<client, sentReq, got, interest, rd, wr, cur, events, edge>>
    BY <1>11 DEF CreateListenSocket, EpollCreate, CountReady, notify_all, clientVars,
       connVars
  <2> QED BY <1>4
<1>12. ASSUME NEW t \in Reactors, AcceptAgain(t) PROVE Goal
  <2>1. /\ UNCHANGED <<client, sentReq, got, interest, rd, wr, events, edge>>
        /\ NextTurn(t) /\ t \in Threads
    BY <1>12, ThreadsAre DEF AcceptAgain, clientVars, connVars
  <2>2. Ready(k) /\ TypeOK
    BY <1>3, <2>1 DEF MInv
  <2>3. cur[t] # k
    BY <1>12, <2>1 DEF AcceptAgain, MInv, Own, CurOK, Busy
  <2> QED BY <1>1, <2>1, <2>2, <2>3, StillHeld
<1>13. \A m \in Mains : ~MainReactor(m) /\ ~SpuriousWakeup(m)
  <2>1. \A m \in Mains : pc[m] = "absent"
    BY <1>0 DEF MInv, BarrierOK
  <2> QED BY <2>1 DEF MainReactor, SpuriousWakeup, waitSubReactor, CreateListenSocket,
       EpollCreate, EpollWait, NextEvent, AcceptAgain, MainAccept, ClearEvent, HandOver
<1> QED
  BY <1>5, <1>6, <1>7, <1>8, <1>9, <1>10, <1>11, <1>12, <1>13 DEF Next, Reactor

-----------------------------------------------------------------------------
(* Requests and responses.                                                 *)

\* Steps that neither read nor write nor delete.
LEMMA KeepData ==
    ASSUME MInv, UNCHANGED <<rd, wr, encoded, program>>,
           \A k \in Conns :
               /\ life'[k] \in {"none", "backlog"} => life[k] \in {"none", "backlog"}
               /\ life'[k] = "deleted" =>
                     /\ life[k] = "deleted"
                     /\ client'[k] = "open" => client[k] = "open"
                     /\ client'[k] = "fin" /\ sentReq'[k] = ReqLen =>
                           \/ client[k] = "open"
                           \/ client[k] = "fin" /\ sentReq[k] = ReqLen
               /\ interest'[k] = "in" =>
                     interest[k] = "in" \/ isMultiIo \/ rd[k] = 0,
           \A t \in Threads :
               \/ pc[t] \in {"wasRead", "write", "wrote"}
               \/ pc'[t] \in {"wasRead", "write", "wrote"}
               => pc'[t] = pc[t] /\ cur'[t] = cur[t]
    PROVE  DataOK'
<1>1. isMultiIo' = isMultiIo
  BY DEF isMultiIo
<1>2. ASSUME NEW k \in Conns PROVE Data(k)'
  <2>1. Data(k) /\ PktLen(k)' = PktLen(k)
    BY DEF MInv, DataOK, PktLen
  <2>2. ASSUME interest'[k] = "in", ~isMultiIo, rd[k] = ReqLen
        PROVE  \E t \in Threads : pc'[t] = "wasRead" /\ cur'[t] = k
    <3> interest[k] = "in"
      BY <2>2, ConnAssumption
    <3> PICK t \in Threads : pc[t] = "wasRead" /\ cur[t] = k
      BY <2>1, <2>2 DEF Data
    <3> QED OBVIOUS
  <2> HIDE DEF MInv
  <2>3. /\ wr'[k] <= PktLen(k)'
        /\ life'[k] \in {"none", "backlog"} => rd'[k] = 0
        /\ life'[k] = "deleted" /\ client'[k] = "open" => wr'[k] = RespLen
        /\ life'[k] = "deleted" /\ client'[k] = "fin" /\ sentReq'[k] = ReqLen
           /\ ~isMultiIo' => wr'[k] = RespLen
    BY <1>1, <2>1 DEF Data
  <2> QED BY <1>1, <2>2, <2>3 DEF Data
<1>3. ASSUME NEW t \in Threads PROVE Sends(t)'
  <2> Sends(t)
    BY DEF MInv, DataOK
  <2> QED BY <1>1 DEF Sends
<1> QED BY <1>2, <1>3 DEF DataOK

\* The thread takes an event; what it will write is encoded.
LEMMA NextEventData ==
    ASSUME MInv, NEW t \in Threads, NextEvent(t)
    PROVE  DataOK'
<1>1. /\ UNCHANGED <<client, sentReq, life, interest, rd, wr, program>>
      /\ isMultiIo' = isMultiIo /\ pc[t] = "loop"
      /\ encoded \in [Conns -> BOOLEAN] /\ wr \in [Conns -> 0 .. RespLen]
      /\ RespLen \in Nat /\ DOMAIN pc = Threads /\ DOMAIN cur = Threads
      /\ Listen \notin Conns
  BY ConnAssumption, ReactorAssumption
  DEF NextEvent, clientVars, isMultiIo, MInv, TypeOK, ConnTypeOK
<1>2. PICK x \in Conns \cup {Listen}, p \in {"accept", "read", "write"} :
        /\ \A u \in Threads : u # t => pc'[u] = pc[u] /\ cur'[u] = cur[u]
        /\ pc'[t] = p /\ cur'[t] = x
        /\ p = "write" => x \in Conns /\ IF wr[x] = 0 THEN Encode(x) ELSE UNCHANGED encoded
        /\ p # "write" => UNCHANGED encoded
  <2> DEFINE Takes(x, p) ==
        /\ \A u \in Threads : u # t => pc'[u] = pc[u] /\ cur'[u] = cur[u]
        /\ pc'[t] = p /\ cur'[t] = x
        /\ p = "write" => x \in Conns /\ IF wr[x] = 0 THEN Encode(x) ELSE UNCHANGED encoded
        /\ p # "write" => UNCHANGED encoded
  <2>1. ASSUME NEW x, NEW p, cur' = [cur EXCEPT ![t] = x], Goto(t, p),
               p = "write" => x \in Conns /\ IF wr[x] = 0 THEN Encode(x) ELSE UNCHANGED encoded,
               p # "write" => UNCHANGED encoded
        PROVE  Takes(x, p)
    BY <1>1, <2>1 DEF Goto
  <2> HIDE DEF Takes
  <2>2. Takes(Listen, "accept") \/ \E k \in Conns : Takes(k, "read") \/ Takes(k, "write")
    BY <2>1, NextEventIs
  <2>3. \E x \in Conns \cup {Listen}, p \in {"accept", "read", "write"} : Takes(x, p)
    BY <2>2
  <2> QED BY <2>3 DEF Takes
<1>3. \A k \in Conns : encoded[k] => encoded'[k]
  BY <1>1, <1>2 DEF Encode
<1>4. ASSUME p = "write" PROVE encoded'[x]
  <2>1. CASE wr[x] = 0
    BY <1>1, <1>2, <1>4, <2>1 DEF Encode
  <2>2. CASE wr[x] # 0
    <3> Data(x)
      BY <1>2, <1>4 DEF MInv, DataOK
    <3> QED BY <1>1, <1>2, <1>4, <2>2 DEF Data, PktLen
  <2> QED BY <2>1, <2>2
<1>5. ASSUME NEW k \in Conns PROVE Data(k)'
  <2>1. Data(k)
    BY DEF MInv, DataOK
  <2>2. wr[k] <= PktLen(k)'
    BY <1>1, <1>3, <2>1 DEF Data, PktLen
  <2>3. \A u \in Threads : pc[u] = "wasRead" => pc'[u] = pc[u] /\ cur'[u] = cur[u]
    BY <1>1, <1>2
  <2> QED BY <1>1, <2>1, <2>2, <2>3 DEF Data
<1>6. ASSUME NEW u \in Threads PROVE Sends(u)'
  <2>1. Sends(u) /\ (pc[u] \in {"write", "wrote"} => cur[u] \in Conns)
    BY DEF MInv, DataOK, Own, CurOK, Busy
  <2>2. CASE u = t
    BY <1>2, <1>4, <2>2 DEF Sends
  <2>3. CASE u # t
    BY <1>1, <1>2, <1>3, <2>1, <2>3 DEF Sends
  <2> QED BY <2>2, <2>3
<1> QED BY <1>5, <1>6 DEF DataOK

\* Reads, writes and what follows them.
LEMMA HandleEventData ==
    ASSUME MInv, NEW t \in Reactors, HandleEvent(t)
    PROVE  DataOK'
<1>1. /\ UNCHANGED <<client, sentReq, encoded, program>>
      /\ isMultiIo' = isMultiIo /\ t \in Threads /\ pc[t] \in Busy \ {"hand"}
      /\ DOMAIN pc = Threads /\ DOMAIN cur = Threads
      /\ life \in [Conns -> {"none", "backlog", "open", "deleted"}]
      /\ interest \in [Conns -> {"none", "in", "in1", "off", "out"}]
      /\ client \in [Conns -> {"new", "open", "fin", "reset"}]
      /\ rd \in [Conns -> 0 .. ReqLen] /\ wr \in [Conns -> 0 .. RespLen]
      /\ RespLen \in Nat /\ ReqLen \in Nat
      /\ encoded \in [Conns -> BOOLEAN]
  BY ConnAssumption, ThreadsAre
  DEF HandleEvent, Read, ReadLost, AfterRead, Write, WriteLost, AfterWrite, Wrote, Busy,
      clientVars, isMultiIo, MInv, TypeOK, ConnTypeOK
<1> PICK j \in Conns : cur[t] = j
  BY <1>1, CurIs
<1>2. /\ life[j] = "open"
      /\ \A u \in Threads : cur[u] = j => u = t
      /\ pc[t] \in {"read", "wasRead"} => interest[j] = "in"
      /\ pc[t] \in {"write", "wrote"} => interest[j] = "out"
  BY <1>1, CurIs DEF MInv, Own, UseOK, Uses
<1>3. Data(j) /\ Sends(t)
  BY <1>1, <1>2 DEF MInv, DataOK
<1>4. \A u \in Threads : u # t => pc'[u] = pc[u] /\ cur'[u] = cur[u]
  BY <1>1 DEF HandleEvent, Read, ReadLost, AfterRead, Write, WriteLost, AfterWrite,
     NextTurn, Goto
<1>5. \A u \in Threads : pc[u] \in {"write", "wrote"} => cur[u] \in Conns
  BY DEF MInv, Own, CurOK, Busy
<1>6. ASSUME NEW k \in Conns, k # j PROVE Data(k)'
  <2>1. /\ rd'[k] = rd[k] /\ wr'[k] = wr[k]
        /\ life'[k] = life[k] /\ interest'[k] = interest[k]
    BY <1>1, <1>2, <1>6 DEF HandleEvent, Read, ReadLost, AfterRead, Write, WriteLost, AfterWrite,
       ReadPiece, WritePiece, Release, ModToWriteEvent, SetInterest
  <2>2. Data(k) /\ PktLen(k)' = PktLen(k)
    BY <1>1 DEF MInv, DataOK, PktLen
  <2>3. \A u \in Threads : pc[u] = "wasRead" /\ cur[u] = k => pc'[u] = "wasRead" /\ cur'[u] = k
    BY <1>4, <1>6
  <2> QED BY <1>1, <2>1, <2>2, <2>3 DEF Data
<1>7. ASSUME NEW u \in Threads, u # t PROVE Sends(u)'
  <2> Sends(u)
    BY DEF MInv, DataOK
  <2> QED BY <1>1, <1>4, <1>5, <1>7 DEF Sends
<1>8. ASSUME NextTurn(t) PROVE Sends(t)'
  BY <1>1, <1>8 DEF NextTurn, Goto, Sends
<1>9. PktLen(j)' = PktLen(j) /\ PktLen(j) \in 0 .. RespLen
  BY <1>1 DEF PktLen
<1>10. Data(j)' /\ Sends(t)'
  <2>1. CASE Read(t)
    <3>1. /\ UNCHANGED <<life, interest, wr, cur>> /\ pc[t] = "read"
          /\ pc'[t] = IF isMultiIo THEN "read" ELSE "wasRead"
          /\ rd'[j] = rd[j] + 1
      BY <1>1, <1>2, <2>1 DEF Read, ReadOn, Goto, ReadPiece
    <3>2. Sends(t)'
      BY <1>1, <3>1 DEF Sends
    <3>3. ~isMultiIo => pc'[t] = "wasRead" /\ cur'[t] = j
      BY <3>1
    <3> QED BY <1>1, <1>2, <1>3, <1>9, <3>1, <3>2, <3>3 DEF Data
  <2>2. CASE ReadLost(t)
    <3>1. /\ UNCHANGED <<rd, wr>> /\ NextTurn(t) /\ ReadFails(j) /\ pc[t] = "read"
          /\ life'[j] = "deleted" /\ interest'[j] = "none"
      BY <1>1, <1>2, <2>2 DEF ReadLost, Release, SetInterest
    <3>2. client[j] = "reset" \/ (client[j] = "fin" /\ rd[j] = sentReq[j])
      BY <3>1 DEF ReadFails
    <3>3. client[j] # "open"
      BY <3>2
    <3>4. ASSUME client[j] = "fin", sentReq[j] = ReqLen, ~isMultiIo PROVE FALSE
      <4>1. rd[j] = ReqLen
        BY <3>2, <3>4
      <4>2. PICK u \in Threads : pc[u] = "wasRead" /\ cur[u] = j
        BY <1>2, <1>3, <3>1, <3>4, <4>1 DEF Data
      <4> QED BY <1>2, <3>1, <4>2
    <3>5. wr[j] <= PktLen(j)
      BY <1>3 DEF Data
    <3> QED BY <1>1, <1>8, <1>9, <3>1, <3>3, <3>4, <3>5 DEF Data
  <2>3. CASE AfterRead(t)
    <3>1. UNCHANGED <<life, rd, wr>> /\ NextTurn(t)
      BY <2>3 DEF AfterRead
    <3>2. interest'[j] = IF rd[j] = ReqLen THEN "out" ELSE interest[j]
      BY <1>1, <1>2, <2>3 DEF AfterRead, OneMessage, ModToWriteEvent, SetInterest
    <3> QED BY <1>1, <1>2, <1>3, <1>8, <1>9, <3>1, <3>2 DEF Data
  <2>4. CASE Write(t)
    <3>1. /\ UNCHANGED <<life, interest, rd, cur>> /\ pc[t] = "write"
          /\ pc'[t] = IF isMultiIo THEN "write" ELSE "wrote"
          /\ wr'[j] = wr[j] + 1 /\ wr[j] # PktLen(j)
      BY <1>1, <1>2, <2>4 DEF Write, Goto, WritePiece, FinishWrite
    <3>2. wr'[j] <= PktLen(j)'
      BY <1>1, <1>2, <1>3, <1>9, <3>1 DEF Data
    <3>3. Sends(t)'
      BY <1>1, <1>3, <3>1 DEF Sends
    <3> QED BY <1>1, <1>2, <3>1, <3>2, <3>3 DEF Data
  <2>5. CASE WriteLost(t)
    <3>1. /\ UNCHANGED <<rd, wr>> /\ NextTurn(t) /\ client[j] = "reset"
          /\ life'[j] = "deleted" /\ interest'[j] = "none"
      BY <1>1, <1>2, <2>5 DEF WriteLost, WriteFails, Release, SetInterest
    <3>2. wr[j] <= PktLen(j)
      BY <1>3 DEF Data
    <3> QED BY <1>1, <1>8, <1>9, <3>1, <3>2 DEF Data
  <2>6. CASE AfterWrite(t)
    <3>1. UNCHANGED <<rd, wr>> /\ NextTurn(t) /\ pc[t] \in {"write", "wrote"}
      BY <2>6 DEF AfterWrite, Wrote
    <3>2. wr[j] <= PktLen(j)
      BY <1>3 DEF Data
    <3>3. CASE FinishWrite(j)
      <4>1. life'[j] = "deleted" /\ interest'[j] = "none"
        BY <1>1, <1>2, <2>6, <3>3 DEF AfterWrite, Release, SetInterest
      <4>2. wr[j] = RespLen
        BY <1>3, <3>1, <3>3 DEF Sends, FinishWrite, PktLen
      <4> QED BY <1>1, <1>8, <1>9, <3>1, <3>2, <4>1, <4>2 DEF Data
    <3>4. CASE ~FinishWrite(j)
      <4> UNCHANGED <<interest, life>>
        BY <2>6, <3>4 DEF AfterWrite
      <4> QED BY <1>1, <1>2, <1>8, <1>9, <3>1, <3>2 DEF Data
    <3> QED BY <3>3, <3>4
  <2> QED BY <2>1, <2>2, <2>3, <2>4, <2>5, <2>6 DEF HandleEvent
<1>11. \A k \in Conns : Data(k)'
  BY <1>6, <1>10
<1> QED BY <1>7, <1>10, <1>11 DEF DataOK

\* Every step keeps requests and responses.
LEMMA StepData ==
    ASSUME MInv, [Next]_allVars
    PROVE  DataOK'
<1>0. /\ UNCHANGED program /\ DOMAIN pc = Threads /\ DOMAIN cur = Threads
      /\ life \in [Conns -> {"none", "backlog", "open", "deleted"}]
      /\ interest \in [Conns -> {"none", "in", "in1", "off", "out"}]
      /\ client \in [Conns -> {"new", "open", "fin", "reset"}]
      /\ sentReq \in [Conns -> 0 .. ReqLen] /\ ReqLen \in Nat
  BY SameProgram, ConnAssumption DEF MInv, TypeOK, ConnTypeOK
<1> DEFINE Sending == {"wasRead", "write", "wrote"}
<1>1. ASSUME UNCHANGED <<rd, wr, encoded, client, sentReq, life, interest>>,
             \A t \in Threads : pc[t] \in Sending \/ pc'[t] \in Sending =>
                   pc'[t] = pc[t] /\ cur'[t] = cur[t]
      PROVE  DataOK'
  BY <1>0, <1>1, KeepData
<1>2. ASSUME NEW t \in Threads, NEW p, Goto(t, p), p \notin Sending, pc[t] \notin Sending,
             UNCHANGED cur \/ cur' = [cur EXCEPT ![t] = NoConn]
      PROVE  \A u \in Threads : pc[u] \in Sending \/ pc'[u] \in Sending =>
                   pc'[u] = pc[u] /\ cur'[u] = cur[u]
  BY <1>0, <1>2 DEF Goto
<1>3. CASE UNCHANGED allVars
  BY <1>1, <1>3 DEF allVars, vars, clientVars, connVars, loopVars
<1>4. CASE Clients
  <2>1. UNCHANGED <<rd, wr, encoded, interest, pc, cur>>
    BY <1>4 DEF Clients, Continue, Begin, End, loopVars, Send, Take, Connect, ShutDown,
       Reset, connVars
  <2>2. PICK j \in Conns : Send(j) \/ Take(j) \/ Connect(j) \/ ShutDown(j) \/ Reset(j)
    BY <1>4 DEF Clients, Continue, Begin, End
  <2>3. \A k \in Conns :
            /\ life'[k] = life[k] \/ (life[k] = "none" /\ life'[k] = "backlog")
            /\ client'[k] = "open" => client[k] \in {"open", "new"}
            /\ client'[k] = "fin" => client[k] \in {"open", "fin"}
            /\ client[k] = "fin" => sentReq'[k] = sentReq[k]
            /\ client[k] = "new" => life[k] = "none"
    <3>1. \A k \in Conns : client[k] = "new" => life[k] = "none"
      BY DEF MInv, Own, PlaceOK, Placed
    <3>2. CASE Connect(j)
      BY <1>0, <3>1, <3>2 DEF Connect
    <3>3. CASE Send(j) \/ Take(j) \/ ShutDown(j) \/ Reset(j)
      BY <1>0, <3>1, <3>3 DEF Send, Take, ShutDown, Reset, connVars
    <3> QED BY <2>2, <3>2, <3>3
  <2> QED BY <1>0, <2>1, <2>3, KeepData
<1>5. ASSUME NEW t \in Threads,
             \/ CreateListenSocket(t) \/ EpollCreate(t, "loop") \/ EpollCreate(t, "count")
             \/ AcceptAgain(t) \/ CountReady(t) \/ waitSubReactor(t) \/ SpuriousWakeup(t)
      PROVE  DataOK'
  <2>1. UNCHANGED <<rd, wr, encoded, client, sentReq, life, interest>>
    BY <1>5 DEF CreateListenSocket, EpollCreate, AcceptAgain, CountReady, waitSubReactor,
       SpuriousWakeup, clientVars, connVars
  <2>2. /\ pc[t] \notin Sending /\ (UNCHANGED cur \/ cur' = [cur EXCEPT ![t] = NoConn])
        /\ \E p \in {"create", "ended", "loop", "count", "notify", "listen", "waiting",
                     "barrier"} : Goto(t, p)
    BY <1>5 DEF CreateListenSocket, EpollCreate, AcceptAgain, CountReady, waitSubReactor,
       SpuriousWakeup, NextTurn
  <2> QED BY <1>1, <1>2, <2>1, <2>2
<1>6. ASSUME NEW t \in Threads, EpollWait(t)
      PROVE  DataOK'
  BY <1>1, <1>6 DEF EpollWait, clientVars, connVars
<1>7. ASSUME NEW s \in Reactors, notify_all(s)
      PROVE  DataOK'
  <2>1. UNCHANGED <<rd, wr, encoded, client, sentReq, life, interest, cur>>
    BY <1>7 DEF notify_all, clientVars, connVars
  <2>2. \A t \in Threads : pc'[t] = pc[t] \/ (pc[t] \notin Sending /\ pc'[t] \notin Sending)
    BY <1>7 DEF notify_all, Waiting
  <2> QED BY <1>1, <2>1, <2>2
<1>8. ASSUME NEW k \in Conns, NEW s, life[k] = "backlog", Accepted(k), AddReadEvent(k, s),
             UNCHANGED <<rd, wr, encoded, client, sentReq, pc, cur>>
      PROVE  DataOK'
  <2>1. rd[k] = 0
    BY <1>8 DEF MInv, DataOK, Data
  <2>2. \A x \in Conns : /\ life'[x] = IF x = k THEN "open" ELSE life[x]
                         /\ interest'[x] = IF x = k THEN "in" ELSE interest[x]
    BY <1>0, <1>8 DEF Accepted, AddReadEvent, SetInterest
  <2> QED BY <1>0, <1>8, <2>1, <2>2, KeepData
<1>9. ASSUME NEW t \in Threads, Accept(t) \/ MainAccept(t)
      PROVE  DataOK'
  <2>1. PICK k \in Conns, s \in {t, NextIndex(t)} :
          life[k] = "backlog" /\ Accepted(k) /\ AddReadEvent(k, s)
    BY <1>9 DEF Accept, MainAccept, Backlog, addToSubReactor
  <2>2. UNCHANGED <<rd, wr, encoded, client, sentReq, pc, cur>>
    BY <1>9 DEF Accept, MainAccept, clientVars, loopVars
  <2> QED BY <1>8, <2>1, <2>2
<1>10. ASSUME NEW m \in Mains, ClearEvent(m) \/ HandOver(m)
       PROVE  DataOK'
  <2>1. /\ UNCHANGED <<rd, wr, encoded, client, sentReq, life>> /\ m \in Threads
        /\ pc[m] \notin Sending /\ (UNCHANGED cur \/ cur' = [cur EXCEPT ![m] = NoConn])
        /\ \E p \in {"hand", "loop"} : Goto(m, p)
    BY <1>10, ThreadsAre DEF ClearEvent, HandOver, NextTurn, clientVars
  <2>2. isMultiIo
    <3> HasMains
      BY <1>10 DEF ClearEvent, HandOver, MInv, BarrierOK
    <3> QED BY DEF HasMains, isMultiIo
  <2>3. \A u \in Threads : pc[u] \in Sending \/ pc'[u] \in Sending =>
                   pc'[u] = pc[u] /\ cur'[u] = cur[u]
    BY <1>2, <2>1
  <2> QED BY <1>0, <2>1, <2>2, <2>3, KeepData
<1> QED
  BY <1>3, <1>4, <1>5, <1>6, <1>7, <1>9, <1>10, ThreadsAre, NextEventData, HandleEventData
  DEF Next, Reactor, MainReactor

-----------------------------------------------------------------------------
(* Whose turn it is.                                                       *)

\* Steps that give no reactor a connection of a main reactor.
LEMMA KeepDealing ==
    ASSUME MInv, UNCHANGED index,
           \A m \in Mains, s \in Reactors, k \in Conns :
               port'[k] = m /\ s \in home'[k] <=> port[k] = m /\ s \in home[k]
    PROVE  Dealing'
<1>1. \A m \in Mains, s \in Reactors : DealtTo(m, s)' = DealtTo(m, s)
  BY DEF DealtTo
<1>2. \A m \in Mains, s \in Reactors : Dealt(m, s)' = Dealt(m, s)
  BY <1>1 DEF Dealt, DealtTo
<1> QED BY <1>1, <1>2 DEF Dealing, MInv

\* A main reactor gives the next reactor one more connection.
LEMMA DealOne ==
    ASSUME MInv, NEW m \in Mains, NEW k \in Conns, port[k] = m, home[k] = {},
           addToSubReactor(m, k), UNCHANGED port
    PROVE  Dealing'
<1> DEFINE i == index[m]
<1>0. NextIndex(m) \in Reactors
  BY MainSubAssumption DEF NextIndex, Reactors, MInv, TypeOK
<1> PICK n \in Reactors : n = NextIndex(m)
  BY <1>0
<1>1. /\ NProcs \in Nat \ {0} /\ i \in 0 .. NProcs - 1
      /\ n = (i + 1) % NProcs /\ Reactors = 0 .. NProcs - 1
  BY MainSubAssumption DEF NextIndex, Reactors, MInv, TypeOK
<1>2. \/ i + 1 < NProcs /\ n = i + 1
      \/ i + 1 = NProcs /\ n = 0
  BY <1>1
<1>3. /\ \A x \in Conns : home'[x] = IF x = k THEN {n} ELSE home[x]
      /\ \A p \in Mains : index'[p] = IF p = m THEN n ELSE index[p]
  BY DEF addToSubReactor, AddReadEvent, MInv, TypeOK
<1> HIDE DEF i
<1>4. \A p \in Mains, s \in Reactors : p # m \/ s # n =>
          DealtTo(p, s)' = DealtTo(p, s)
  BY <1>3 DEF DealtTo
<1>5. DealtTo(m, n)' = DealtTo(m, n) \cup {k} /\ k \notin DealtTo(m, n)
  BY <1>3 DEF DealtTo
<1>6. \A p \in Mains, s \in Reactors : IsFiniteSet(DealtTo(p, s))
  BY DEF MInv, Dealing
<1>7. /\ IsFiniteSet(DealtTo(m, n)')
      /\ Cardinality(DealtTo(m, n)') = Cardinality(DealtTo(m, n)) + 1
  <2> DEFINE S == DealtTo(m, n)
  <2>1. IsFiniteSet(S) /\ k \notin S
    BY <1>5, <1>6
  <2> HIDE DEF S
  <2>2. IsFiniteSet(S \cup {k}) /\ Cardinality(S \cup {k}) = Cardinality(S) + 1
    BY <2>1, FS_AddElement
  <2> QED BY <1>5, <2>2 DEF S
<1>8. ASSUME NEW p \in Mains, NEW s \in Reactors
      PROVE  /\ IsFiniteSet(DealtTo(p, s)')
             /\ Dealt(p, s)' = IF p = m /\ s = n THEN Dealt(p, s) + 1 ELSE Dealt(p, s)
  <2>1. Dealt(p, s) = Cardinality(DealtTo(p, s)) /\ Dealt(p, s)' = Cardinality(DealtTo(p, s)')
    BY DEF Dealt, DealtTo
  <2>2. CASE p = m /\ s = n
    BY <1>7, <2>1, <2>2
  <2>3. CASE p # m \/ s # n
    BY <1>4, <1>6, <2>1, <2>3
  <2> QED BY <2>2, <2>3
<1>9. ASSUME NEW p \in Mains
       PROVE  \E q \in Nat : \A s \in Reactors :
                  Dealt(p, s)' = IF s \in 1 .. index'[p] THEN q + 1 ELSE q
  <2>1. PICK q \in Nat : \A s \in Reactors :
                  Dealt(p, s) = IF s \in 1 .. index[p] THEN q + 1 ELSE q
    BY DEF MInv, Dealing
  <2>2. CASE p # m
    BY <1>3, <1>8, <2>1, <2>2
  <2>3. CASE p = m /\ i + 1 < NProcs /\ n = i + 1
    <3> \A s \in Reactors : Dealt(p, s)' = IF s \in 1 .. index'[p] THEN q + 1 ELSE q
      <4> TAKE s \in Reactors
      <4>1. index'[p] = i + 1 /\ index[p] = i
        BY <1>3, <2>3 DEF i
      <4>2. s \in 1 .. i + 1 <=> s \in 1 .. i \/ s = n
        BY <1>1, <2>3
      <4>3. n \notin 1 .. i
        BY <1>1, <2>3
      <4> QED BY <1>8, <2>1, <2>3, <4>1, <4>2, <4>3
    <3> QED OBVIOUS
  <2>4. CASE p = m /\ i + 1 = NProcs /\ n = 0
    <3> \A s \in Reactors : Dealt(p, s)' = IF s \in 1 .. index'[p] THEN (q + 1) + 1 ELSE q + 1
      <4> TAKE s \in Reactors
      <4>1. index'[p] = 0 /\ index[p] = i
        BY <1>3, <2>4 DEF i
      <4>2. s \in 1 .. i <=> s # 0
        BY <1>1, <2>4
      <4>3. s \notin 1 .. 0
        BY <1>1
      <4> QED BY <1>8, <2>1, <2>4, <4>1, <4>2, <4>3
    <3> QED BY <2>1
  <2> QED BY <1>2, <2>2, <2>3, <2>4
<1> QED BY <1>8, <1>9 DEF Dealing

\* Every step keeps the turns.
LEMMA StepDealing ==
    ASSUME MInv, [Next]_allVars
    PROVE  Dealing'
<1>0. home \in [Conns -> SUBSET Threads]
  BY DEF MInv, TypeOK
<1>1. CASE UNCHANGED <<home, port, index>>
  BY <1>1, KeepDealing
<1>2. ASSUME NEW t \in Reactors, Accept(t), UNCHANGED msVars PROVE Dealing'
  <2>1. PICK k \in Conns : port[k] = t /\ home' = [home EXCEPT ![k] = @ \cup {t}]
    BY <1>2 DEF Accept, Backlog, AddReadEvent
  <2>2. UNCHANGED <<port, index>> /\ t \notin Mains
    BY <1>2, ThreadsAre DEF Accept, msVars
  <2>3. \A x \in Conns : x # k => home'[x] = home[x]
    BY <2>1
  <2> QED BY <2>1, <2>2, <2>3, KeepDealing
<1>3. ASSUME NEW m \in Mains, MainAccept(m) PROVE Dealing'
  <2>1. PICK k \in Conns :
          /\ life[k] = "backlog" /\ port[k] = m
          /\ IF mainMonitorRead THEN AddReadEvent(k, m) /\ UNCHANGED index
             ELSE addToSubReactor(m, k)
    BY <1>3 DEF MainAccept, Backlog
  <2>2. UNCHANGED port /\ home[k] = {}
    BY <1>3, <2>1 DEF MainAccept, MInv, Own, PlaceOK, Placed
  <2>3. CASE mainMonitorRead
    <3> \A x \in Conns : home'[x] = IF x = k THEN home[x] \cup {m} ELSE home[x]
      BY <1>0, <2>1, <2>3 DEF AddReadEvent
    <3> m \notin Reactors /\ UNCHANGED index
      BY <2>1, <2>3, ThreadsAre
    <3> QED BY <2>2, KeepDealing
  <2>4. CASE ~mainMonitorRead
    BY <2>1, <2>2, <2>4, DealOne
  <2> QED BY <2>3, <2>4
<1>4. ASSUME NEW m \in Mains, ClearEvent(m) PROVE Dealing'
  <2> UNCHANGED <<port, index>> /\ m \notin Reactors
    BY <1>4, ThreadsAre DEF ClearEvent, msVars
  <2>1. cur[m] \in Conns
    BY <1>4, ThreadsAre, CurIs DEF ClearEvent, Busy
  <2>2. \A x \in Conns : home'[x] = IF x = cur[m] THEN home[x] \ {m} ELSE home[x]
    BY <1>0, <1>4, <2>1 DEF ClearEvent
  <2> QED BY <2>2, KeepDealing
<1>5. ASSUME NEW m \in Mains, HandOver(m) PROVE Dealing'
  <2>1. pc[m] = "hand" /\ addToSubReactor(m, cur[m]) /\ UNCHANGED port
    BY <1>5 DEF HandOver
  <2>2. cur[m] \in Conns
    BY <2>1, ThreadsAre, CurIs DEF Busy
  <2>3. port[cur[m]] = m /\ home[cur[m]] = {}
    BY <2>1, <2>2, ThreadsAre DEF MInv, Own, UseOK, Uses
  <2> QED BY <2>1, <2>2, <2>3, DealOne
<1>6. ASSUME NEW t \in Threads,
             \/ CreateListenSocket(t) \/ EpollCreate(t, "loop") \/ EpollCreate(t, "count")
             \/ EpollWait(t) \/ NextEvent(t) \/ AcceptAgain(t) \/ HandleEvent(t),
             UNCHANGED msVars
      PROVE  UNCHANGED <<home, port, index>>
  BY <1>6 DEF CreateListenSocket, EpollCreate, EpollWait, NextEvent, AcceptAgain,
     HandleEvent, Read, ReadLost, AfterRead, Write, WriteLost, AfterWrite, msVars
<1>7. ASSUME NEW t \in Threads,
             CountReady(t) \/ notify_all(t) \/ waitSubReactor(t) \/ SpuriousWakeup(t)
      PROVE  UNCHANGED <<home, port, index>>
  BY <1>7 DEF CountReady, notify_all, waitSubReactor, SpuriousWakeup, msVars
<1>8. ASSUME Clients /\ UNCHANGED msVars PROVE UNCHANGED <<home, port, index>>
  BY <1>8 DEF Clients, Continue, Begin, End, msVars
<1>9. UNCHANGED allVars => UNCHANGED <<home, port, index>>
  BY DEF allVars, vars, msVars
<1>10. ASSUME NEW t \in Reactors, Reactor(t) PROVE Dealing'
  BY <1>1, <1>2, <1>6, <1>7, <1>10, ThreadsAre DEF Reactor
<1>11. ASSUME NEW m \in Mains, MainReactor(m) \/ SpuriousWakeup(m) PROVE Dealing'
  BY <1>1, <1>3, <1>4, <1>5, <1>6, <1>7, <1>11, ThreadsAre DEF MainReactor
<1> QED BY <1>1, <1>8, <1>9, <1>10, <1>11 DEF Next

-----------------------------------------------------------------------------
(* The theorems.                                                           *)

\* Every step keeps the invariant.
LEMMA StepInv == MInv /\ [Next]_allVars => MInv'
BY StepBarrier, StepType, StepOwn, StepData, StepDealing, StepEdge DEF MInv

\* The inductive invariant holds in every reachable state.
THEOREM Invariance == Spec => []MInv
<1>1. Init => MInv
  BY InitInv
<1>2. MInv /\ [Next]_allVars => MInv'
  BY StepInv
<1> QED BY <1>1, <1>2, PTL DEF Spec

\* Types: nothing is sent beyond the response, no reactor is counted twice, and
\* index always names a reactor.
THEOREM TypeCorrect == Spec => []TypeOK
<1>1. MInv => TypeOK
  BY DEF MInv
<1> QED BY <1>1, Invariance, PTL

\* What the invariant says of homes and of who holds a connection.
LEMMA OneHomeHolds == MInv => OneHome
<1> SUFFICES ASSUME MInv, NEW k \in Conns
             PROVE  LET holders == {t \in Threads : k \in Held(t)}
                    IN  IF life[k] # "open" THEN holders = {}
                        ELSE \/ /\ \E t \in Threads :
                                      /\ home[k] = {t} /\ holders \subseteq {t}
                                      /\ pc[t] \in {"notify", "loop", "accept", "read",
                                                    "hand", "wasRead", "write", "wrote"}
                                /\ interest[k] \in {"in", "out"}
                             \/ /\ \E m \in Mains : holders = {m} /\ pc[m] = "hand"
                                /\ home[k] = {} /\ interest[k] = "none"
  BY DEF OneHome
<1> DEFINE holders == {t \in Threads : k \in Held(t)}
<1>1. \A t \in Threads : t \in holders <=> cur[t] = k \/ InEvents(t, k)
  BY HeldIs DEF MInv
<1> HIDE DEF holders
<1>2. Placed(k) /\ \A t \in Threads : Uses(t, k)
  BY DEF MInv, Own, PlaceOK, UseOK
<1>3. ASSUME NEW t \in Threads, t \in holders
      PROVE  /\ life[k] = "open"
             /\ home[k] = {t} \/ (home[k] = {} /\ pc[t] = "hand" /\ cur[t] = k)
  <2>1. CASE InEvents(t, k)
    <3> home[k] = {t} /\ interest[k] \in {"in", "out"}
      BY <1>2, <2>1 DEF Uses, InEvents
    <3> life[k] = "open"
      BY <1>2 DEF Placed, MInv, TypeOK, ConnTypeOK
    <3> QED OBVIOUS
  <2>2. CASE cur[t] = k
    <3> pc[t] \in Busy
      BY <2>2 DEF MInv, Own, CurOK
    <3> life[k] = "open"
      BY <2>2, CurIs
    <3> QED BY <1>2, <2>2 DEF Uses, Busy
  <2> QED BY <1>1, <1>3, <2>1, <2>2
<1>4. holders \subseteq Threads
  BY DEF holders
<1>5. CASE life[k] # "open"
  <2> holders = {}
    BY <1>3, <1>4, <1>5
  <2> QED BY <1>5 DEF holders
<1>6. CASE life[k] = "open" /\ home[k] # {}
  <2>1. PICK t \in Threads : home[k] = {t} /\ pc[t] \in Running
    BY <1>2, <1>6 DEF Placed
  <2>2. holders \subseteq {t} /\ interest[k] \in {"in", "out"}
    BY <1>2, <1>3, <1>4, <1>6, <2>1 DEF Placed
  <2> QED BY <1>6, <2>1, <2>2 DEF Running, holders
<1>7. CASE life[k] = "open" /\ home[k] = {}
  <2>1. PICK m \in Mains : pc[m] = "hand" /\ cur[m] = k
    BY <1>2, <1>7 DEF Placed
  <2>2. m \in holders
    BY <1>1, <2>1, ThreadsAre
  <2>3. ASSUME NEW t \in holders PROVE t = m
    <3>1. t \in Threads /\ pc[t] = "hand" /\ cur[t] = k
      BY <1>3, <1>4, <1>7, <2>3
    <3>2. t \in Mains
      BY <3>1, ThreadsAre DEF MInv, Own, CurOK
    <3> QED BY <2>1, <3>1, <3>2 DEF MInv, Own, HandOK
  <2>4. holders = {m} /\ interest[k] = "none"
    BY <1>2, <1>7, <2>2, <2>3 DEF Placed
  <2> QED BY <1>7, <2>1, <2>4 DEF holders
<1> QED BY <1>5, <1>6, <1>7

\* A connection is in the epoll of one running thread, which alone holds it, or
\* on its way between two and held by the main reactor alone.
THEOREM HomesAreUnique == Spec => []OneHome
BY OneHomeHolds, Invariance, PTL

\* With edge-triggered events no connection that is ready is forgotten.
THEOREM EdgesAreKept == Spec => []NoMissedEdge
<1>1. MInv => NoMissedEdge
  BY DEF MInv
<1> QED BY <1>1, Invariance, PTL

\* A connection is closed before its response was sent only when the client has
\* left, or has shut down its side where Read goes on to the end of the stream.
THEOREM RepliesAreWhole == Spec => []ReplyUnlessDropped
<1>1. MInv => ReplyUnlessDropped
  BY DEF MInv, DataOK, Data, ReplyUnlessDropped
<1> QED BY <1>1, Invariance, PTL

\* Main reactors deal their connections out evenly.
LEMMA BalancedHolds == MInv => Balanced
<1> SUFFICES ASSUME MInv, NEW m \in Mains, NEW s \in Reactors, NEW r \in Reactors
             PROVE  Dealt(m, s) <= Dealt(m, r) + 1
  BY DEF Balanced
<1> PICK q \in Nat : \A x \in Reactors :
          Dealt(m, x) = IF x \in 1 .. index[m] THEN q + 1 ELSE q
  BY DEF MInv, Dealing
<1> HIDE DEF MInv
<1>1. Dealt(m, s) \in {q, q + 1} /\ Dealt(m, r) \in {q, q + 1}
  OBVIOUS
<1> QED BY <1>1

\* No reactor is given two connections more than another by one main reactor.
THEOREM TurnsAreFair == Spec => []Balanced
BY BalancedHolds, Invariance, PTL

=============================================================================
