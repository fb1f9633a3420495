------------------------------ MODULE MainSub ------------------------------
(***************************************************************************)
(* The reactors: src/epoll_reactor_threadpoll_ms, where main reactors      *)
(* accept and hand connections to sub reactors, in turn, and the programs  *)
(* without main reactors, where every reactor accepts for itself.          *)
(*                                                                         *)
(* main starts the sub reactors; a main reactor waits until all of them    *)
(* have an epoll (Mutex, Cond and EpollInitCnt).  It gives a connection    *)
(* away as soon as it is accepted, or (mainMonitorRead) takes it into its  *)
(* own epoll first and gives it away when there is something to read.      *)
(***************************************************************************)
EXTENDS Reactor

CONSTANTS
    NProcs,         \* what get_nprocs answers
    mainReactorCnt  \* three in the code

ASSUME MainSubAssumption ==
    /\ NProcs \in Nat \ {0} /\ mainReactorCnt \in Nat \ {0}
    /\ Threads = 0 .. NProcs + mainReactorCnt - 1

\* The threads that read and write, by their index in EpollFd, and the main
\* reactors.
Reactors == 0 .. NProcs - 1

Mains == NProcs .. NProcs + mainReactorCnt - 1

VARIABLES
    EpollInitCnt,
    index       \* of main reactors: the sub reactor that had the last one

msVars == <<EpollInitCnt, index>>
allVars == <<vars, msVars>>

HasMains == program \in {"ms", "msRead"}

mainMonitorRead == program = "msRead"

\* The threads that accept.
Acceptors ==
    IF HasMains THEN Mains
    ELSE IF program \in OneThread THEN {0} ELSE Reactors

\* The threads of a kind are alike: what the kernel does with one of the
\* connections makes no difference.
AnyConn     == CHOOSE k \in Conns : TRUE
AnyAcceptor == CHOOSE t \in Acceptors : TRUE

Init ==
    /\ ConnInit
    /\ program \in OneThread \cup {"threadpool", "ms", "msRead"}
    /\ port \in [Conns -> Acceptors]
    /\ port[AnyConn] = AnyAcceptor
    /\ listening = {}
    /\ home = [k \in Conns |-> {}]
    /\ edge = {}
    /\ pc = [t \in Threads |->
               IF t \in Mains THEN (IF HasMains THEN "barrier" ELSE "absent")
               ELSE IF HasMains THEN "create"
               ELSE IF t \in Acceptors THEN "listen" ELSE "absent"]
    /\ cur = [t \in Threads |-> NoConn]
    /\ events = [t \in Threads |-> {}]
    /\ EpollInitCnt = 0
    /\ index = [m \in Mains |-> 0]

-----------------------------------------------------------------------------
(* The barrier.                                                            *)

Waiting == {m \in Mains : pc[m] = "waiting"}

AllButOneReady == EpollInitCnt >= NProcs - 1    \* mutant

AllReady == EpollInitCnt >= NProcs

\* Cond.wait: the predicate is asked under Mutex, on arrival and after every
\* notification.
waitSubReactor(m) ==
    /\ pc[m] = "barrier"
    /\ Goto(m, IF AllReady THEN "listen" ELSE "waiting")
    /\ UNCHANGED <<clientVars, connVars, program, port, listening, home, edge,
                   cur, events, msVars>>

SpuriousWakeup(m) ==
    /\ pc[m] = "waiting"
    /\ Goto(m, "barrier")
    /\ UNCHANGED <<clientVars, connVars, program, port, listening, home, edge,
                   cur, events, msVars>>

\* subReactorNotifyReady: the count under Mutex, then the notification.
CountReady(s) ==
    /\ pc[s] = "count"
    /\ EpollInitCnt' = EpollInitCnt + 1
    /\ Goto(s, "notify")
    /\ UNCHANGED <<clientVars, connVars, program, port, listening, home, edge,
                   cur, events, index>>

notify_one(s) ==                                \* mutant
    /\ pc[s] = "notify"
    /\ \E m \in Waiting \cup {s} :
          /\ Waiting = {} \/ m # s
          /\ pc' = [pc EXCEPT ![s] = "loop", ![m] = IF m = s THEN "loop" ELSE "barrier"]
    /\ UNCHANGED <<clientVars, connVars, program, port, listening, home, edge,
                   cur, events, msVars>>

notify_all(s) ==
    /\ pc[s] = "notify"
    /\ pc' = [t \in Threads |-> IF t = s THEN "loop"
                                ELSE IF t \in Waiting THEN "barrier" ELSE pc[t]]
    /\ UNCHANGED <<clientVars, connVars, program, port, listening, home, edge,
                   cur, events, msVars>>

-----------------------------------------------------------------------------
(* The main reactors.                                                      *)

IndexOfThread(m) == 1 % NProcs                  \* mutant: index is a copy

NextIndex(m) == (index[m] + 1) % NProcs

addToSubReactor(m, k) ==
    /\ index' = [index EXCEPT ![m] = NextIndex(m)]
    /\ AddReadEvent(k, NextIndex(m))

MainAccept(m) ==
    /\ pc[m] = "accept"
    /\ \E k \in Backlog(m) :
          /\ Accepted(k)
          /\ IF mainMonitorRead
             THEN AddReadEvent(k, m) /\ UNCHANGED index
             ELSE addToSubReactor(m, k)
    /\ UNCHANGED <<clientVars, rd, encoded, wr, program, port, listening,
                   loopVars, EpollInitCnt>>

KeepEvent(m) ==                                 \* mutant: no ClearEvent
    /\ pc[m] = "read"
    /\ Goto(m, "hand")
    /\ UNCHANGED <<clientVars, connVars, program, port, listening, home, edge,
                   cur, events, msVars>>

\* ClearEvent(conn, false): out of the main reactor's epoll, and not closed.
ClearEvent(m) ==
    /\ pc[m] = "read"
    /\ SetInterest(cur[m], "none")
    /\ home' = [home EXCEPT ![cur[m]] = @ \ {m}]
    /\ Goto(m, "hand")
    /\ UNCHANGED <<clientVars, life, rd, encoded, wr, program, port, listening,
                   edge, cur, events, msVars>>

\* addToSubReactor makes a Conn of its own for the descriptor, and the main
\* reactor deletes the one it had.
HandOver(m) ==
    /\ pc[m] = "hand"
    /\ addToSubReactor(m, cur[m])
    /\ NextTurn(m)
    /\ UNCHANGED <<clientVars, life, rd, encoded, wr, program, port, listening,
                   events, EpollInitCnt>>

-----------------------------------------------------------------------------
Reactor(t) ==
    \/ /\ \/ CreateListenSocket(t)
          \/ EpollCreate(t, IF HasMains THEN "count" ELSE "loop")
          \/ EpollWait(t) \/ NextEvent(t)
          \/ Accept(t) \/ AcceptAgain(t)
          \/ HandleEvent(t)
       /\ UNCHANGED msVars
    \/ CountReady(t) \/ notify_all(t)

MainReactor(m) ==
    \/ waitSubReactor(m)
    \/ /\ \/ CreateListenSocket(m) \/ EpollCreate(m, "loop")
          \/ EpollWait(m) \/ NextEvent(m)
          \/ AcceptAgain(m)
       /\ UNCHANGED msVars
    \/ MainAccept(m) \/ ClearEvent(m) \/ HandOver(m)

Next ==
    \/ \E t \in Reactors : Reactor(t)
    \/ \E m \in Mains : MainReactor(m) \/ SpuriousWakeup(m)
    \/ Clients /\ UNCHANGED msVars

Spec == Init /\ [][Next]_allVars

\* Every thread keeps running, and a client that is still there sends its
\* request and takes the response.
Fairness ==
    /\ \A t \in Reactors : WF_allVars(Reactor(t))
    /\ \A m \in Mains : WF_allVars(MainReactor(m))
    /\ WF_allVars(Continue /\ UNCHANGED msVars)

FairSpec == Spec /\ Fairness

-----------------------------------------------------------------------------
\* The values of connections and threads; nothing is sent beyond the response.
TypeOK ==
    /\ ConnTypeOK
    /\ program \in OneThread \cup {"threadpool", "ms", "msRead"}
    /\ port \in [Conns -> Threads]
    /\ listening \subseteq Threads
    /\ home \in [Conns -> SUBSET Threads]
    /\ edge \subseteq Conns
    /\ pc \in [Threads -> {"absent", "barrier", "waiting", "listen", "create",
                           "count", "notify", "loop", "accept", "read", "hand",
                           "wasRead", "write", "wrote", "ended"}]
    /\ cur \in [Threads -> Conns \cup {Listen, NoConn}]
    /\ events \in [Threads -> SUBSET (Conns \X {"read", "write"}
                                      \cup {<<Listen, "accept">>})]
    /\ EpollInitCnt \in 0 .. NProcs
    /\ index \in [Mains -> 0 .. NProcs - 1]

\* On its way from the main to a sub reactor, between accept and release, a
\* connection is held by at most one thread; it is in the epoll of one thread
\* that is running and of no other, which is the one that holds it; only while
\* a main reactor hands it over it is in none.
OneHome ==
    \A k \in Conns :
        LET holders == {t \in Threads : k \in Held(t)}
        IN  IF life[k] # "open" THEN holders = {}
            ELSE \/ /\ \E t \in Threads :
                          /\ home[k] = {t} /\ holders \subseteq {t}
                          /\ pc[t] \in {"notify", "loop", "accept", "read",
                                        "hand", "wasRead", "write", "wrote"}
                    /\ interest[k] \in {"in", "out"}
                 \/ /\ \E m \in Mains : holders = {m} /\ pc[m] = "hand"
                    /\ home[k] = {} /\ interest[k] = "none"

\* A main reactor deals its connections out in turn: no sub reactor gets two
\* more of them than another.
Dealt(m, s) == Cardinality({k \in Conns : port[k] = m /\ s \in home[k]})

Balanced ==
    \A m \in Mains : \A s, r \in Reactors : Dealt(m, s) <= Dealt(m, r) + 1

\* Unless a sub reactor gets no epoll, every main reactor passes the barrier.
BarrierOpens ==
    <>(\/ \E s \in Reactors : pc[s] = "ended"
       \/ \A m \in Mains : pc[m] \notin {"barrier", "waiting"})

\* A connection that was opened is served and closed, unless the thread that
\* should accept it has ended for want of an epoll and left its socket open.
Served ==
    \A k \in Conns :
        (life[k] = "backlog") ~> (life[k] = "deleted" \/ pc[port[k]] = "ended")
=============================================================================
