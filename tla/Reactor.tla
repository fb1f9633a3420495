------------------------------ MODULE Reactor ------------------------------
(***************************************************************************)
(* A reactor thread: it waits in epoll, accepts, reads requests and writes *)
(* responses, all in one loop.  This is the main loop of                   *)
(* src/epoll_reactor_singleprocess (with one read or write for an event,   *)
(* or as many as there are), of src/epoll_reactor_singleprocess_et (edge-  *)
(* triggered), of each thread of src/epoll_reactor_threadpoll, and of the  *)
(* sub reactors of src/epoll_reactor_threadpoll_ms, for which another      *)
(* thread accepts (MainSub).                                               *)
(*                                                                         *)
(* A thread takes a step per system call.                                  *)
(***************************************************************************)
EXTENDS EpollConn

CONSTANTS
    Threads,    \* every thread that may have an epoll
    Listen,     \* the Conn of a listening socket
    NoConn,     \* no connection is being handled
    MaxFailures,\* threads whose start fails
    MaxEarly,   \* connections that begin while threads are still starting
    MaxLeaving  \* clients that leave before the whole response

ASSUME ReactorAssumption ==
    /\ Listen \notin Conns /\ NoConn \notin Conns \cup {Listen}
    /\ Threads # {} /\ IsFiniteSet(Threads)
    /\ MaxFailures \in Nat /\ MaxEarly \in Nat /\ MaxLeaving \in Nat

VARIABLES
    program,    \* the program that runs
    port,       \* of each connection, the thread on whose listening socket the
                \* kernel puts it: with SO_REUSEPORT any
    listening,  \* the threads that have a listening socket
    home,       \* of each connection, the threads in whose epoll it was added
    edge,       \* edge-triggered events that epoll has not reported yet
    pc,         \* of each thread: "absent" (the program has no such thread),
                \* "listen", "create", "loop", "accept", "read", "wasRead",
                \* "write", "wrote" or "ended", and those of MainSub
    cur,        \* the connection of the event being handled
    events      \* the events of the round that are still to be handled

loopVars == <<pc, cur, events>>
vars == <<clientVars, connVars, program, port, listening, home, edge, loopVars>>

OneThread == {"singleIo", "multiIo", "et"}

isMultiIo == program # "singleIo"       \* the third argument of main

isET == program = "et"

-----------------------------------------------------------------------------
(* Start of a thread.  A call that fails ends the thread; the socket it     *)
(* listens on stays open.  (A program of one thread does not start then.)  *)

Goto(t, where) == pc' = [pc EXCEPT ![t] = where]

MayFail ==
    /\ program \notin OneThread
    /\ Cardinality({t \in Threads : pc[t] = "ended"}) < MaxFailures

CreateListenSocket(t) ==
    /\ pc[t] = "listen"
    /\ \/ /\ listening' = listening \cup {t}
          /\ Goto(t, "create")
       \/ /\ MayFail
          /\ Goto(t, "ended")
          /\ UNCHANGED listening
    /\ UNCHANGED <<clientVars, connVars, program, port, home, edge, cur, events>>

EpollCreate(t, next) ==
    /\ pc[t] = "create"
    /\ \/ Goto(t, next)
       \/ (MayFail /\ Goto(t, "ended"))
    /\ UNCHANGED <<clientVars, connVars, program, port, listening, home, edge,
                   cur, events>>

-----------------------------------------------------------------------------
(* epoll_wait and accept.                                                  *)

\* The connections that have been accepted by nobody yet.
Backlog(t) == {k \in Conns : port[k] = t /\ life[k] = "backlog"}

InEpoll(t) == {k \in Conns : t \in home[k]}

\* Level-triggered, a condition is reported as long as it holds; edge-triggered
\* when something has happened since, and if it still holds.
Reported(t) == IF isET THEN InEpoll(t) \cap edge ELSE InEpoll(t)

ReadyEvents(t) ==
    {<<k, "read">> : k \in {x \in Reported(t) : ReadyIn(x)}} \cup
    {<<k, "write">> : k \in {x \in Reported(t) : ReadyOut(x)}} \cup
    (IF Backlog(t) = {} THEN {} ELSE {<<Listen, "accept">>})

EpollWait(t) ==
    /\ pc[t] = "loop" /\ events[t] = {}
    /\ ReadyEvents(t) # {}
    /\ events' = [events EXCEPT ![t] = ReadyEvents(t)]
    /\ edge' = edge \ InEpoll(t)
    /\ UNCHANGED <<clientVars, connVars, program, port, listening, home, pc, cur>>

\* The next event of the round.  Write begins by encoding the response when
\* nothing of it has been sent (autoEncode).
NextEvent(t) ==
    /\ pc[t] = "loop"
    /\ \E e \in events[t] :
          /\ events' = [events EXCEPT ![t] = @ \ {e}]
          /\ cur' = [cur EXCEPT ![t] = e[1]]
          /\ Goto(t, e[2])
          /\ IF e[2] = "write" /\ wr[e[1]] = 0 THEN Encode(e[1])
             ELSE UNCHANGED encoded
    /\ UNCHANGED <<clientVars, life, interest, rd, wr, program, port, listening,
                   home, edge>>

\* The thread is done with the event.
NextTurn(t) ==
    /\ Goto(t, "loop")
    /\ cur' = [cur EXCEPT ![t] = NoConn]

\* epoll_ctl puts a connection that is ready already on the list of events.
Armed(k, ready) == IF isET /\ ready THEN edge \cup {k} ELSE edge

\* A client of LoopAccept: AddReadEvent to the epoll of thread s.
AddReadEvent(k, s) ==
    /\ SetInterest(k, "in")
    /\ home' = [home EXCEPT ![k] = @ \cup {s}]
    /\ edge' = Armed(k, Readable(k))

Accepted(k) == life' = [life EXCEPT ![k] = "open"]

Accept(t) ==
    /\ pc[t] = "accept"
    /\ \E k \in Backlog(t) : Accepted(k) /\ AddReadEvent(k, t)
    /\ UNCHANGED <<clientVars, rd, encoded, wr, program, port, listening, loopVars>>

AcceptAgain(t) ==
    /\ pc[t] = "accept"
    /\ Backlog(t) = {}
    /\ NextTurn(t)
    /\ UNCHANGED <<clientVars, connVars, program, port, listening, home, edge,
                   events>>

-----------------------------------------------------------------------------
(* Conn::Read and what follows.                                            *)

ReadOnce(t) == FALSE                    \* mutant: Read never loops

ReadOn(t) == isMultiIo

Read(t) ==
    /\ pc[t] = "read"
    /\ ReadPiece(cur[t])
    /\ Goto(t, IF ReadOn(t) THEN "read" ELSE "wasRead")
    /\ UNCHANGED <<clientVars, life, interest, encoded, wr, program, port,
                   listening, home, edge, cur, events>>

ReadLost(t) ==
    /\ pc[t] = "read"
    /\ ReadFails(cur[t])
    /\ Release(cur[t])
    /\ NextTurn(t)
    /\ UNCHANGED <<clientVars, rd, encoded, wr, program, port, listening, home,
                   edge, events>>

\* Read has returned true: after one read, or after EAGAIN.
AfterRead(t) ==
    LET k == cur[t]
    IN  /\ pc[t] = "wasRead" \/ (pc[t] = "read" /\ ReadAgain(k))
        /\ IF OneMessage(k)
           THEN /\ ModToWriteEvent(k)
                /\ edge' = Armed(k, Writable(k))
           ELSE UNCHANGED <<interest, edge>>
        /\ NextTurn(t)
        /\ UNCHANGED <<clientVars, life, rd, encoded, wr, program, port,
                       listening, home, events>>

-----------------------------------------------------------------------------
(* Conn::Write and what follows.                                           *)

Write(t) ==
    /\ pc[t] = "write"
    /\ WritePiece(cur[t])
    /\ Goto(t, IF isMultiIo THEN "write" ELSE "wrote")
    /\ UNCHANGED <<clientVars, life, interest, rd, encoded, program, port,
                   listening, home, edge, cur, events>>

WriteLost(t) ==
    /\ pc[t] = "write"
    /\ WriteFails(cur[t])
    /\ Release(cur[t])
    /\ NextTurn(t)
    /\ UNCHANGED <<clientVars, rd, encoded, wr, program, port, listening, home,
                   edge, events>>

\* Write has returned true: after one write, after EAGAIN, or because there is
\* nothing left to send.
Wrote(t) ==
    \/ pc[t] = "wrote"
    \/ pc[t] = "write" /\ (WriteAgain(cur[t]) \/ FinishWrite(cur[t]))

AfterWriteAlways(t) ==                  \* mutant: released unfinished
    /\ Wrote(t)
    /\ Release(cur[t])
    /\ NextTurn(t)
    /\ UNCHANGED <<clientVars, rd, encoded, wr, program, port, listening, home,
                   edge, events>>

AfterWrite(t) ==
    /\ Wrote(t)
    /\ IF FinishWrite(cur[t]) THEN Release(cur[t]) ELSE UNCHANGED <<interest, life>>
    /\ NextTurn(t)
    /\ UNCHANGED <<clientVars, rd, encoded, wr, program, port, listening, home,
                   edge, events>>

-----------------------------------------------------------------------------
HandleEvent(t) ==
    \/ Read(t) \/ ReadLost(t) \/ AfterRead(t)
    \/ Write(t) \/ WriteLost(t) \/ AfterWrite(t)

\* What clients do, and the edge-triggered events it makes: data, the end of
\* the stream, an error, or room to write again.
Continue ==
    /\ \E k \in Conns :
          \/ /\ Send(k)
             /\ edge' = Armed(k, interest[k] = "in")
          \/ /\ Take(k)
             /\ edge' = Armed(k, interest[k] = "out" /\ ~Writable(k))
    /\ UNCHANGED <<program, port, listening, home, loopVars>>

Starting ==
    \E t \in Threads :
        pc[t] \in {"barrier", "waiting", "listen", "create", "count", "notify"}

\* connect succeeds while somebody listens.
Begin ==
    /\ Starting => Cardinality({k \in Conns : life[k] # "none"}) < MaxEarly
    /\ \E k \in Conns : port[k] \in listening /\ Connect(k)
    /\ UNCHANGED <<program, port, listening, home, edge, loopVars>>

End ==
    /\ Cardinality({k \in Conns : client[k] \in {"fin", "reset"}}) < MaxLeaving
    /\ \E k \in Conns :
          \/ /\ ShutDown(k)
             /\ edge' = Armed(k, interest[k] = "in")
          \/ /\ Reset(k)
             /\ edge' = Armed(k, interest[k] # "none")
    /\ UNCHANGED <<program, port, listening, home, loopVars>>

Clients == Continue \/ Begin \/ End

-----------------------------------------------------------------------------
\* Connections a thread will use: that of the event it handles, and those of
\* the events it has left.
Held(t) == {k \in Conns : cur[t] = k \/ \E e \in events[t] : e[1] = k}

\* Edge-triggered, a connection that has something to read, or room for what is
\* to be written, is in the hands of the thread or on the list of epoll: the
\* handlers go on until EAGAIN, so no event is used up with work left behind.
NoMissedEdge ==
    \A k \in Conns :
        isET /\ (ReadyIn(k) \/ ReadyOut(k)) =>
            k \in edge \/ \E t \in Threads : k \in Held(t)

\* A client that has sent its whole request and is still there has all of the
\* response when its connection is closed.  One that has shut down its side
\* after the request has it too where Read returns after one read; where Read
\* goes on to EAGAIN it meets the end of the stream, and the request is dropped.
ReplyUnlessDropped ==
    \A k \in Conns :
        /\ life[k] = "deleted" /\ sentReq[k] = ReqLen
        /\ client[k] = "open" \/ (client[k] = "fin" /\ ~isMultiIo)
        => wr[k] = RespLen
=============================================================================
