------------------------------ MODULE Blocking ------------------------------
(***************************************************************************)
(* The servers that read and write with blocking calls.  One kind accepts  *)
(* and serves in the same thread, or gives each connection a process or a  *)
(* thread of its own: src/singleprocess, multiprocess, multithread,        *)
(* processpool (1 and 2), threadpool and leaderandfollower.  The other     *)
(* waits for events first, and serves the connections that have one, each  *)
(* until its response is sent: src/epoll, src/poll and src/select.         *)
(*                                                                         *)
(* A task is a thread or a process: the workers, the first of which is     *)
(* main where there is only one, and one for each connection where it has  *)
(* a task of its own.                                                      *)
(***************************************************************************)
EXTENDS BlockingConn

CONSTANTS
    Workers,    \* as many as get_nprocs answers
    NoOne       \* nobody has Mutex

ASSUME BlockingAssumption ==
    /\ Workers # {} /\ IsFiniteSet(Workers)
    /\ Workers \cap Conns = {} /\ NoOne \notin Workers
    /\ Procs = Workers \cup Conns

VARIABLES
    program,
    port,       \* of each connection, the worker on whose socket the kernel puts
                \* it, where workers have sockets of their own
    pc,         \* of each task: "none" (there is no such task), "lock",
                \* "accept", "fork", "parent", "events", "accepts",
                \* "read", "write", "close", "closeAgain", "exit" or "done"
    clientFd,   \* of each task: the descriptor it serves
    Mutex,      \* the worker that has it
    clientFds,  \* event loops: the descriptors that are watched
    ready       \* event loops: events of the round still to be handled

taskVars == <<program, port, pc, clientFd, Mutex, clientFds, ready>>

Tasks == Workers \cup Conns

Main == CHOOSE w \in Workers : TRUE

OwnSockets == {"processpool2", "threadpool"}
Pools      == OwnSockets \cup {"processpool1", "leaderandfollower"}
EventLoops == {"epoll", "poll", "select"}
Threads    == {"multithread", "threadpool", "leaderandfollower"}
Programs   == Pools \cup EventLoops \cup Threads \cup {"singleprocess", "multiprocess"}

\* The process of a task.
ProcOf(t) ==
    IF program \in {"processpool1", "processpool2"} \/
       (program = "multiprocess" /\ t \in Conns) THEN t ELSE Main

Listen == 0     \* sockFd among the events: smaller than all other descriptors

NextAccept ==
    CASE program = "leaderandfollower" -> "lock"
      [] program \in EventLoops        -> "events"
      [] OTHER                         -> "accept"

\* The workers are alike: any may be the one the kernel chooses first.
AnyConn == CHOOSE k \in Conns : TRUE

BlockingInit ==
    /\ ConnInit
    /\ program \in Programs
    /\ port \in [Conns -> Workers]
    /\ program \notin OwnSockets => port = [k \in Conns |-> Main]
    /\ port[AnyConn] = Main
    /\ pc = [t \in Tasks |->
               IF t = Main \/ (t \in Workers /\ program \in Pools)
               THEN NextAccept ELSE "none"]
    /\ clientFd = [t \in Tasks |-> Listen]
    /\ Mutex = NoOne
    /\ clientFds = {}
    /\ ready = {}

Goto(t, where) == pc' = [pc EXCEPT ![t] = where]

-----------------------------------------------------------------------------
(* accept.                                                                 *)

Backlog(w) ==
    {k \in Conns \ accepted : /\ client[k] \notin {"new", "refused"}
                              /\ program \in OwnSockets => port[k] = w}

\* A follower becomes the leader.
Lock(w) ==
    /\ pc[w] = "lock"
    /\ Mutex = NoOne
    /\ Mutex' = w
    /\ Goto(w, "accept")
    /\ UNCHANGED <<connVars, program, port, clientFd, clientFds, ready>>

Unlock(w) == Mutex' = IF Mutex = w THEN NoOne ELSE Mutex

Accept(w) ==
    LET p == ProcOf(w)
    IN  /\ pc[w] = "accept"
        /\ \E k \in Backlog(w) :
              /\ Accepts(p, k)
              /\ LET t == IF program = "multithread" THEN k ELSE w
                 IN  /\ clientFd' = [clientFd EXCEPT ![t] = LowestFd(p)]
                     /\ Goto(t, IF program = "multiprocess" THEN "fork" ELSE "read")
        /\ Unlock(w)
        /\ UNCHANGED <<buf, client, pieceVars, program, port, clientFds, ready>>

\* No descriptor is free: the worker tries again, the leader as a follower.
AcceptFails(w) ==
    /\ pc[w] = "accept" /\ FreeFds(ProcOf(w)) = {}
    /\ Goto(w, NextAccept)
    /\ Unlock(w)
    /\ UNCHANGED <<connVars, program, port, clientFd, clientFds, ready>>

\* fork copies the descriptors.  When it fails the parent goes on.
Fork ==
    /\ pc[Main] = "fork"
    /\ LET k == table[Main][clientFd[Main]]
       IN  \/ /\ table' = [table EXCEPT ![k] = table[Main]]
              /\ clientFd' = [clientFd EXCEPT ![k] = clientFd[Main]]
              /\ pc' = [pc EXCEPT ![Main] = "parent", ![k] = "read"]
           \/ /\ Goto(Main, "accept")
              /\ UNCHANGED <<table, clientFd>>
    /\ UNCHANGED <<buf, client, pieceVars, accepted, program, port, Mutex,
                   clientFds, ready>>

ParentKeeps ==                              \* mutant: no close in the parent
    /\ pc[Main] = "parent"
    /\ Goto(Main, "accept")
    /\ UNCHANGED <<connVars, program, port, clientFd, Mutex, clientFds, ready>>

ParentCloses ==
    /\ pc[Main] = "parent"
    /\ close(Main, clientFd[Main])
    /\ Goto(Main, "accept")
    /\ UNCHANGED <<buf, client, pieceVars, accepted, program, port, clientFd,
                   Mutex, clientFds, ready>>

-----------------------------------------------------------------------------
(* Event loops.  Their only task is Main.                                  *)

\* A descriptor that is watched and not open has an event too (POLLNVAL).
WithEvent ==
    {f \in clientFds : table[Main][f] = Free \/ Readable(table[Main][f])}
    \cup (IF Backlog(Main) = {} THEN {} ELSE {Listen})

\* poll, select or epoll_wait, when all events of the last round are handled.
Wait ==
    /\ pc[Main] = "events" /\ ready = {}
    /\ WithEvent # {}
    /\ ready' = WithEvent
    /\ UNCHANGED <<connVars, program, port, pc, clientFd, Mutex, clientFds>>

\* The next event: select looks at descriptors in ascending order.
NextEvent ==
    /\ pc[Main] = "events"
    /\ \E e \in ready :
          /\ program = "select" => \A f \in ready : e <= f
          /\ ready' = ready \ {e}
          /\ clientFd' = [clientFd EXCEPT ![Main] = e]
          /\ Goto(Main, IF e = Listen THEN "accepts" ELSE "read")
    /\ UNCHANGED <<connVars, program, port, Mutex, clientFds>>

\* A client of LoopAccept; it goes on until nothing is left or accept fails.
LoopAccept ==
    /\ pc[Main] = "accepts"
    /\ IF Backlog(Main) = {} \/ FreeFds(Main) = {}
       THEN /\ Goto(Main, "events")
            /\ UNCHANGED <<accepted, table, clientFds>>
       ELSE /\ \E k \in Backlog(Main) : Accepts(Main, k)
            /\ clientFds' = clientFds \cup {LowestFd(Main)}
            /\ UNCHANGED pc
    /\ UNCHANGED <<buf, client, pieceVars, program, port, clientFd, Mutex, ready>>

-----------------------------------------------------------------------------
(* Serving a connection: handleClient or handlerClient, and what follows.  *)

ServedTwice(t) ==                           \* mutant: threads close twice
    CASE program = "multiprocess"    -> "exit"
      [] program \in EventLoops      -> "events"
      [] OTHER                       -> "closeAgain"

\* Where a task is when it has closed its connection, or would have.
Served(t) ==
    CASE program = "multiprocess"          -> "exit"
      [] program = "multithread"           -> "done"
      [] program \in EventLoops            -> "events"
      [] program \in Threads \cap Pools    -> NextAccept
      [] OTHER                             -> "closeAgain"

Recv(t) ==
    /\ pc[t] = "read"
    /\ ReadPiece(ProcOf(t), clientFd[t])
    /\ IF rd'[table[ProcOf(t)][clientFd[t]]] = Len THEN Goto(t, "write")
       ELSE UNCHANGED pc
    /\ UNCHANGED <<buf, client, sent, wr, got, accepted, table, program, port,
                   clientFd, Mutex, clientFds, ready>>

NoTimeOut(blocks) == FALSE                  \* mutant: no SetTimeOut

\* The sockets of src/epoll have a timeout of half a second.
TimedOut(blocks) == program = "epoll" /\ blocks

\* RecvMsg returns false: the handler returns at once.  The event loops close
\* the descriptor in main; the threads do not close it at all.
RecvFails(t) ==
    LET p == ProcOf(t)
    IN  /\ pc[t] = "read"
        /\ ReadFails(p, clientFd[t]) \/ TimedOut(ReadBlocks(p, clientFd[t]))
        /\ Goto(t, IF program \in EventLoops THEN "close" ELSE Served(t))
        /\ UNCHANGED <<connVars, program, port, clientFd, Mutex, clientFds, ready>>

ReplyTooLong(t) ==                          \* mutant: one write too many
    /\ pc[t] = "write"
    /\ WritePiece(ProcOf(t), clientFd[t])
    /\ IF wr[table[ProcOf(t)][clientFd[t]]] = Len THEN Goto(t, "close")
       ELSE UNCHANGED pc
    /\ UNCHANGED <<buf, client, sent, rd, got, accepted, table, program, port,
                   clientFd, Mutex, clientFds, ready>>

Reply(t) ==
    /\ pc[t] = "write"
    /\ WritePiece(ProcOf(t), clientFd[t])
    /\ IF wr'[table[ProcOf(t)][clientFd[t]]] = Len THEN Goto(t, "close")
       ELSE UNCHANGED pc
    /\ UNCHANGED <<buf, client, sent, rd, got, accepted, table, program, port,
                   clientFd, Mutex, clientFds, ready>>

\* SendMsg returns false, which nobody looks at.
ReplyFails(t) ==
    LET p == ProcOf(t)
    IN  /\ pc[t] = "write"
        /\ WriteFails(p, clientFd[t]) \/ TimedOut(WriteBlocks(p, clientFd[t]))
        /\ Goto(t, "close")
        /\ UNCHANGED <<connVars, program, port, clientFd, Mutex, clientFds, ready>>

\* Event loops: ClearEvent, or erase and close.
Close(t) ==
    /\ pc[t] = "close"
    /\ close(ProcOf(t), clientFd[t])
    /\ clientFds' = clientFds \ {clientFd[t]}
    /\ Goto(t, Served(t))
    /\ UNCHANGED <<buf, client, pieceVars, accepted, program, port, clientFd,
                   Mutex, ready>>

\* The loop of the one process and of the process pools closes the descriptor
\* that handleClient has closed, or has left open.
CloseAgain(t) ==
    /\ pc[t] = "closeAgain"
    /\ close(ProcOf(t), clientFd[t])
    /\ Goto(t, "accept")
    /\ UNCHANGED <<buf, client, pieceVars, accepted, program, port, clientFd,
                   Mutex, clientFds, ready>>

\* The child exits: all its descriptors are closed.
Exit(t) ==
    /\ pc[t] = "exit"
    /\ table' = [table EXCEPT ![t] = [f \in Fds |-> Free]]
    /\ Goto(t, "done")
    /\ UNCHANGED <<buf, client, pieceVars, accepted, program, port, clientFd,
                   Mutex, clientFds, ready>>

-----------------------------------------------------------------------------
Serve(t) ==
    \/ Recv(t) \/ RecvFails(t) \/ Reply(t) \/ ReplyFails(t)
    \/ Close(t) \/ CloseAgain(t) \/ Exit(t)

Worker(w) ==
    \/ Lock(w) \/ Accept(w) \/ AcceptFails(w)
    \/ /\ w = Main
       /\ Fork \/ ParentCloses \/ Wait \/ NextEvent \/ LoopAccept

Task(t) == Serve(t) \/ (t \in Workers /\ Worker(t))

-----------------------------------------------------------------------------
BlockingTypeOK ==
    /\ ConnTypeOK
    /\ program \in Programs
    /\ port \in [Conns -> Workers]
    /\ pc \in [Tasks -> {"none", "lock", "accept", "fork", "parent",
                         "events", "accepts", "read", "write", "close",
                         "closeAgain", "exit", "done"}]
    /\ clientFd \in [Tasks -> Fds \cup {Listen}]
    /\ Mutex \in Workers \cup {NoOne}
    /\ clientFds \subseteq Fds
    /\ ready \subseteq Fds \cup {Listen}

\* The connection a task serves.
Serves(t) == table[ProcOf(t)][clientFd[t]]

Serving(t) == pc[t] \in {"fork", "parent", "read", "write", "close"}

\* A descriptor that a task reads, writes or closes stands for a connection, and
\* two tasks of a process never use the same; the second close of the servers
\* that close twice finds the number free, or its own connection, which RecvMsg
\* has given up.
OwnDescriptor ==
    \A t \in Tasks :
        /\ Serving(t) => Serves(t) # Free
        /\ Serving(t) \/ pc[t] = "closeAgain" =>
              \A u \in Tasks \ {t} :
                  ProcOf(u) = ProcOf(t) /\ Serving(u) => clientFd[u] # clientFd[t]

\* A descriptor has somebody who will close it: a task that serves it, a child
\* that will exit, or an event loop that watches it.  What is left open for good
\* is what a thread was reading when RecvMsg failed, and what the parent keeps
\* when fork fails.
WillClose(p, f) ==
    \/ \E t \in Tasks : /\ ProcOf(t) = p /\ clientFd[t] = f
                        /\ Serving(t) \/ pc[t] = "closeAgain"
    \/ program = "multiprocess" /\ p \in Conns /\ pc[p] \notin {"none", "done"}
    \/ p = Main /\ f \in clientFds

LeftOpen(p, k) ==
    \/ program \in Threads /\ rd[k] < Len
    \/ program = "multiprocess" /\ p = Main /\ pc[k] = "none"

NoDescriptorLost ==
    \A p \in Procs : \A f \in Fds :
        table[p][f] # Free => WillClose(p, f) \/ LeftOpen(p, table[p][f])
=============================================================================
