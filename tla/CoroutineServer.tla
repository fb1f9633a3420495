-------------------------- MODULE CoroutineServer --------------------------
(***************************************************************************)
(* The server of src/epoll_reactor_singleprocess_coroutine (and each       *)
(* process of src/epoll_reactor_processpoll_coroutine): one main loop over *)
(* level-triggered epoll, and one coroutine of the scheduler Coroutine for *)
(* each connection that has had an event.                                  *)
(*                                                                         *)
(* Every call of the scheduler is the action of Coroutine of that name.    *)
(* The request of a connection is ReqLen pieces long and the response      *)
(* RespLen; a piece is what one read or write moves.                       *)
(***************************************************************************)
EXTENDS Coroutine

CONSTANTS
    Conns,          \* the connections clients may open, each of them once
    ReqLen,         \* pieces of a request
    RespLen,        \* pieces of a response
    SendBuf,        \* pieces the socket takes before write answers EAGAIN
    Listen,         \* sockFd among the events of epoll
    DynamicMsec     \* the third argument of main is "1"

ASSUME ServerAssumption ==
    /\ ReqLen \in Nat \ {0} /\ RespLen \in Nat \ {0} /\ SendBuf \in Nat \ {0}
    /\ Listen \notin Conns
    /\ DynamicMsec \in BOOLEAN
    /\ 0 \in Priorities

VARIABLES
    \* clients and the kernel
    client,         \* "new", "open", "fin" (has shut down writing) or "reset"
    sentReq,        \* pieces of the request that have arrived at the server
    got,            \* pieces of the response the client has taken
    \* EventData, one of each per connection, and what epoll knows of it
    conn,           \* "none", "backlog" (not accepted), "open", "closed" (the
                    \* socket is closed and the EventData deleted)
    cid_,           \* the coroutine of the connection, or INVALID
    interest,       \* "none", "in" or "out"
    \* handlerClient, per coroutine and per connection
    serves,         \* of each slot, the connection its arg points to
    phase,          \* "read" or "write": the loop the handler is in
    rd, wr,         \* pieces read and written
    \* main
    pc,             \* "wait", "events" or "resume" (between the two calls for a
                    \* new coroutine)
    events,         \* events of this round that are still to be handled
    current,        \* the connection of the event being handled
    msec            \* timeout of the next epoll_wait, -1 or 0

clientVars  == <<client, sentReq, got>>
connVars    == <<conn, cid_, interest>>
handlerVars == <<serves, phase, rd, wr>>
mainVars    == <<pc, events, current, msec>>
serverVars  == <<vars, clientVars, connVars, handlerVars, mainVars>>

ServerInit ==
    /\ Init
    /\ client = [k \in Conns |-> "new"]
    /\ sentReq = [k \in Conns |-> 0]
    /\ got = [k \in Conns |-> 0]
    /\ conn = [k \in Conns |-> "none"]
    /\ cid_ = [k \in Conns |-> INVALID]
    /\ interest = [k \in Conns |-> "none"]
    /\ serves = [c \in Cids |-> Listen]
    /\ phase = [k \in Conns |-> "read"]
    /\ rd = [k \in Conns |-> 0]
    /\ wr = [k \in Conns |-> 0]
    /\ pc = "wait"
    /\ events = {}
    /\ current = Listen
    /\ msec = -1

-----------------------------------------------------------------------------
(* Clients.                                                                *)

Connect(k) ==
    /\ client[k] = "new"
    /\ client' = [client EXCEPT ![k] = "open"]
    /\ conn' = [conn EXCEPT ![k] = "backlog"]
    /\ UNCHANGED <<vars, sentReq, got, cid_, interest, handlerVars, mainVars>>

Send(k) ==
    /\ client[k] = "open"
    /\ sentReq[k] < ReqLen
    /\ sentReq' = [sentReq EXCEPT ![k] = @ + 1]
    /\ UNCHANGED <<vars, client, got, connVars, handlerVars, mainVars>>

\* The client reads a piece of the response.
Take(k) ==
    /\ client[k] \in {"open", "fin"}
    /\ got[k] < wr[k]
    /\ got' = [got EXCEPT ![k] = @ + 1]
    /\ UNCHANGED <<vars, client, sentReq, connVars, handlerVars, mainVars>>

ShutDown(k) ==
    /\ client[k] = "open"
    /\ client' = [client EXCEPT ![k] = "fin"]
    /\ UNCHANGED <<vars, sentReq, got, connVars, handlerVars, mainVars>>

Reset(k) ==
    /\ client[k] = "open"
    /\ client' = [client EXCEPT ![k] = "reset"]
    /\ UNCHANGED <<vars, sentReq, got, connVars, handlerVars, mainVars>>

-----------------------------------------------------------------------------
(* epoll and accept.                                                       *)

Readable(k) == rd[k] < sentReq[k] \/ client[k] \in {"fin", "reset"}

Writable(k) == wr[k] - got[k] < SendBuf \/ client[k] = "reset"

\* Level-triggered: an event is reported as long as its condition holds, and
\* an error whatever the interest.
ReadyConns ==
    {k \in Conns : /\ conn[k] = "open" /\ interest[k] # "none"
                   /\ \/ interest[k] = "in" /\ Readable(k)
                      \/ interest[k] = "out" /\ Writable(k)
                      \/ client[k] = "reset"}

Backlog == {k \in Conns : conn[k] = "backlog"}

Ready == ReadyConns \cup (IF Backlog = {} THEN {} ELSE {Listen})

EpollWait ==
    /\ pc = "wait"
    /\ \/ /\ Ready # {}
          /\ events' = Ready
          /\ pc' = "events"
          /\ msec' = IF DynamicMsec THEN 0 ELSE msec
       \/ /\ Ready = {} /\ msec = 0
          /\ msec' = -1
          /\ UNCHANGED <<events, pc>>
    /\ UNCHANGED <<vars, current, clientVars, connVars, handlerVars>>

LoopAccept ==
    /\ pc = "events" /\ MasterFree
    /\ Listen \in events
    /\ events' = events \ {Listen}
    /\ conn' = [k \in Conns |-> IF k \in Backlog THEN "open" ELSE conn[k]]
    /\ interest' = [k \in Conns |-> IF k \in Backlog THEN "in" ELSE interest[k]]
    /\ UNCHANGED <<vars, clientVars, cid_, handlerVars, pc, current, msec>>

-----------------------------------------------------------------------------
(* The events of connections.                                              *)

\* The first event: create the coroutine, and resume it in the next step.
\* When the pool is full the event is dropped; epoll reports it again.
CreateHandler(k) ==
    /\ pc = "events" /\ MasterFree
    /\ k \in events
    /\ cid_[k] = INVALID
    /\ events' = events \ {k}
    /\ IF CoroutineCanCreate
       THEN /\ \E c \in Cids :
                  /\ CoroutineCreate(c, 0)
                  /\ cid_' = [cid_ EXCEPT ![k] = c]
                  /\ serves' = [serves EXCEPT ![c] = k]
            /\ current' = k
            /\ pc' = "resume"
       ELSE UNCHANGED <<vars, cid_, serves, current, pc>>
    /\ UNCHANGED <<clientVars, conn, interest, phase, rd, wr, msec>>

EventKept(k) == UNCHANGED events                \* mutant: i is not advanced

EventHandled(k) == events' = events \ {k}

\* CoroutineResumeById(eventData->cid_); NotRunnable is ignored.
ResumeHandler(k) ==
    /\ MasterFree
    /\ \/ pc = "resume" /\ current = k
       \/ pc = "events" /\ k \in events
    /\ cid_[k] # INVALID
    /\ IF Resumable(cid_[k]) THEN CoroutineResumeById(cid_[k]) ELSE UNCHANGED vars
    /\ EventHandled(k)
    /\ pc' = "events"
    /\ UNCHANGED <<clientVars, connVars, handlerVars, current, msec>>

\* All events are handled.  Percentile has no answer in the first rounds.
EndOfRound ==
    /\ pc = "events" /\ MasterFree
    /\ events = {}
    /\ \/ UNCHANGED vars
       \/ \E pct \in PctValues : ScheduleTryReleaseMemory(pct)
    /\ pc' = "wait"
    /\ UNCHANGED <<events, current, msec, clientVars, connVars, handlerVars>>

-----------------------------------------------------------------------------
(* handlerClient.                                                          *)

releaseNothing(k) == UNCHANGED <<interest, conn, cid_>>     \* mutant: a return
                                                           \* without release
releaseConn(k) ==
    /\ interest' = [interest EXCEPT ![k] = "none"]
    /\ conn' = [conn EXCEPT ![k] = "closed"]
    /\ UNCHANGED cid_

HandlerAt(c, where) == Running(c) /\ phase[serves[c]] = where

ModToWriteForgotten(k) == UNCHANGED interest      \* mutant

ModToWriteEvent(k) == interest' = [interest EXCEPT ![k] = "out"]

\* read has returned a piece.  With the last one the request is complete.
HandlerRead(c) ==
    LET k == serves[c]
    IN  /\ HandlerAt(c, "read")
        /\ client[k] # "reset"
        /\ rd[k] < sentReq[k]
        /\ rd' = [rd EXCEPT ![k] = @ + 1]
        /\ IF rd[k] + 1 < ReqLen
           THEN UNCHANGED <<interest, phase>>
           ELSE /\ phase' = [phase EXCEPT ![k] = "write"]
                /\ ModToWriteEvent(k)
        /\ UNCHANGED <<vars, clientVars, conn, cid_, serves, wr, mainVars>>

\* read finds nothing: the coroutine waits for the next event.
HandlerReadAgain(c) ==
    LET k == serves[c]
    IN  /\ HandlerAt(c, "read")
        /\ ~Readable(k)
        /\ CoroutineYield(c)
        /\ UNCHANGED <<clientVars, connVars, handlerVars, mainVars>>

EofFirst(k) == client[k] \in {"fin", "reset"}   \* mutant: data may be left

EofMissed(k) == client[k] = "reset"             \* mutant: only errors end it

\* The client is gone before its request was complete.
ReadEnds(k) ==
    \/ client[k] = "reset"
    \/ client[k] = "fin" /\ rd[k] = sentReq[k]

HandlerReadEnds(c) ==
    LET k == serves[c]
    IN  /\ HandlerAt(c, "read")
        /\ ReadEnds(k)
        /\ releaseConn(k)
        /\ CoroutineRun(c)
        /\ UNCHANGED <<clientVars, handlerVars, mainVars>>

SentTooLate(k) == wr[k] = RespLen               \* mutant: one write too many

\* sendLen == pkt.Len() after the piece that is being written.
AllSent(k) == wr[k] + 1 = RespLen

\* write has taken a piece, the last one included.
HandlerWrite(c) ==
    LET k == serves[c]
    IN  /\ HandlerAt(c, "write")
        /\ client[k] # "reset"
        /\ wr[k] - got[k] < SendBuf
        /\ wr' = [wr EXCEPT ![k] = @ + 1]
        /\ IF AllSent(k)
           THEN releaseConn(k) /\ CoroutineRun(c)
           ELSE UNCHANGED <<vars, connVars>>
        /\ UNCHANGED <<clientVars, serves, phase, rd, mainVars>>

HandlerWriteAgain(c) ==
    LET k == serves[c]
    IN  /\ HandlerAt(c, "write")
        /\ ~Writable(k)
        /\ CoroutineYield(c)
        /\ UNCHANGED <<clientVars, connVars, handlerVars, mainVars>>

HandlerWriteFails(c) ==
    LET k == serves[c]
    IN  /\ HandlerAt(c, "write")
        /\ client[k] = "reset"
        /\ releaseConn(k)
        /\ CoroutineRun(c)
        /\ UNCHANGED <<clientVars, handlerVars, mainVars>>

-----------------------------------------------------------------------------
handlerClient(c) ==
    \/ HandlerRead(c) \/ HandlerReadAgain(c) \/ HandlerReadEnds(c)
    \/ HandlerWrite(c) \/ HandlerWriteAgain(c) \/ HandlerWriteFails(c)

Server ==
    \/ EpollWait
    \/ LoopAccept
    \/ \E k \in Conns : CreateHandler(k)
    \/ \E k \in Conns : ResumeHandler(k)
    \/ EndOfRound
    \/ \E c \in Cids : handlerClient(c)

Clients ==
    \E k \in Conns : Connect(k) \/ Send(k) \/ Take(k) \/ ShutDown(k) \/ Reset(k)

ServerNext == Server \/ Clients

\* The process keeps running, and a client that is still there goes on with
\* its request and takes the response.
Fairness ==
    /\ WF_serverVars(Server)
    /\ \A k \in Conns : WF_serverVars(Send(k)) /\ WF_serverVars(Take(k))

ServerSpec == ServerInit /\ [][ServerNext]_serverVars /\ Fairness

-----------------------------------------------------------------------------
\* The values of the connections and of main; no piece is read or written that
\* was not sent or does not belong to the response.
ServerTypeOK ==
    /\ client \in [Conns -> {"new", "open", "fin", "reset"}]
    /\ conn \in [Conns -> {"none", "backlog", "open", "closed"}]
    /\ cid_ \in [Conns -> Cids \cup {INVALID}]
    /\ interest \in [Conns -> {"none", "in", "out"}]
    /\ serves \in [Cids -> Conns \cup {Listen}]
    /\ phase \in [Conns -> {"read", "write"}]
    /\ sentReq \in [Conns -> 0 .. ReqLen] /\ rd \in [Conns -> 0 .. ReqLen]
    /\ got \in [Conns -> 0 .. RespLen] /\ wr \in [Conns -> 0 .. RespLen]
    /\ pc \in {"wait", "events", "resume"}
    /\ events \subseteq Conns \cup {Listen} /\ current \in Conns \cup {Listen}
    /\ msec \in {-1, 0}

\* The cid_ an open connection remembers and the coroutine that serves it
\* belong together: a slot is not passed on while a connection still names it,
\* so no event wakes the handler of another connection.
CidBinding ==
    /\ \A k \in Conns :
          (conn[k] = "open" /\ cid_[k] # INVALID) =>
              state[cid_[k]] # "Idle" /\ serves[cid_[k]] = k
    /\ \A c \in Cids :
          state[c] # "Idle" => conn[serves[c]] = "open" /\ cid_[serves[c]] = c

\* epoll hands main a pointer to the EventData of each event; all of them are
\* used one after the other, and none has been deleted by then.
EventsLive == \A k \in events \ {Listen} : conn[k] = "open"

\* A coroutine that has yielded waits for the event its handler needs next.
WaitsForItsEvent ==
    \A c \in Cids : state[c] = "Suspend" =>
        interest[serves[c]] = (IF phase[serves[c]] = "read" THEN "in" ELSE "out")

\* A client that has sent its whole request and did not reset the connection
\* has all of the response when the server closes it, even when the client shut
\* down its side while the request was still being read.
ReplyUnlessGone ==
    \A k \in Conns :
        (conn[k] = "closed" /\ sentReq[k] = ReqLen /\ client[k] # "reset")
        => wr[k] = RespLen

\* Every connection is served and closed, however many wait for a free slot of
\* the pool.
Served == \A k \in Conns : (conn[k] = "backlog") ~> (conn[k] = "closed")
=============================================================================
