--------------------------- MODULE BlockingProof ---------------------------
(***************************************************************************)
(* Proofs about the blocking servers and the benchmark, for every number   *)
(* of connections, workers and descriptors, every length of a message and  *)
(* every size of the buffers.  The inductive invariant is BInv:            *)
(*                                                                         *)
(*  - PlaceOK: which program takes which task to which place;              *)
(*  - DescOK: what a task knows of the descriptor it serves, Apart: that   *)
(*    no other task of its process serves it;                              *)
(*  - OneName: a process has one descriptor of a connection, and but for   *)
(*    the program that forks one process has it;                           *)
(*  - FreshOK and LoopOK: a connection nobody has served is untouched;     *)
(*  - NoDescriptorLost, the property itself;                               *)
(*  - BenchOK: the benchmark counts a connection when it gives it up.      *)
(***************************************************************************)
EXTENDS Benchmark, TLAPS, FiniteSetTheorems, WellFoundedInduction

\* Where the tasks of a program may be.
Stands(t) ==
    /\ pc[t] = "lock" => program = "leaderandfollower" /\ t \in Workers
    /\ pc[t] = "accept" => program \notin EventLoops /\ t \in Workers
    /\ pc[t] \in {"fork", "parent"} => program = "multiprocess" /\ t = Main
    /\ pc[t] \in {"events", "accepts"} => program \in EventLoops /\ t = Main
    /\ pc[t] \in {"read", "write", "close"} =>
          IF program \in {"multiprocess", "multithread"}
          THEN t \in Conns ELSE t \in Workers
    /\ pc[t] = "closeAgain" =>
          t \in Workers /\ program \in {"singleprocess", "processpool1", "processpool2"}
    /\ pc[t] = "exit" => t \in Conns /\ program = "multiprocess"
    /\ pc[t] = "done" => t \in Conns /\ program \in {"multiprocess", "multithread"}
    /\ t \in Workers /\ t # Main /\ program \notin Pools => pc[t] = "none"

PlaceOK == \A t \in Tasks : Stands(t)

\* What a task that serves a descriptor has of its connection.
Holds(t) ==
    /\ Serving(t) \/ pc[t] = "closeAgain" => clientFd[t] \in Fds
    /\ Serving(t) => Serves(t) # Free
    /\ Serving(t) /\ t \in Conns => Serves(t) = t
    /\ pc[t] = "read" => rd[Serves(t)] < Len /\ wr[Serves(t)] = 0
    /\ pc[t] = "write" => wr[Serves(t)] < Len
    /\ pc[t] = "fork" => /\ rd[Serves(t)] = 0 /\ wr[Serves(t)] = 0
                         /\ pc[Serves(t)] = "none"

DescOK == \A t \in Tasks : Holds(t)

Apart ==
    \A t, u \in Tasks :
        t # u /\ ProcOf(t) = ProcOf(u) /\ Serving(t) /\ Serving(u)
            => clientFd[t] # clientFd[u]

\* The descriptors of a connection.
OneName ==
    \A p, q \in Procs : \A f, g \in Fds :
        table[p][f] # Free /\ table[p][f] = table[q][g]
        /\ (p = q \/ program # "multiprocess")
            => p = q /\ f = g

OnlyAccepted == \A p \in Procs : \A f \in Fds : table[p][f] \in accepted \cup {Free}

\* A connection that was not accepted.
FreshOK ==
    \A k \in Conns : k \notin accepted => rd[k] = 0 /\ wr[k] = 0 /\ pc[k] = "none"

\* A descriptor that is watched and not being served.
Watched(f) ==
    /\ table[Main][f] # Free
    /\ ~(Serving(Main) /\ clientFd[Main] = f)
          => rd[table[Main][f]] = 0 /\ wr[table[Main][f]] = 0

LoopOK ==
    /\ clientFds # {} => program \in EventLoops
    /\ ready \subseteq clientFds \cup {Listen}
    /\ \A f \in clientFds : Watched(f)
    /\ program \in EventLoops /\ Serving(Main) =>
          clientFd[Main] \in clientFds /\ clientFd[Main] \notin ready

\* Connections of the benchmark that it has given up, or has ended.
Ended == {k \in 1 .. concurrency : client[k] \in {"refused", "reset"}}

BenchOK ==
    /\ success \in Nat /\ failure \in Nat
    /\ success + failure = Cardinality(Ended)
    /\ phase = "connect" => \A k \in 1 .. concurrency : k >= i => client[k] = "new"
    /\ \A k \in 1 .. concurrency :
          /\ client[k] # "fin"
          /\ phase # "connect" \/ k < i => client[k] # "new"
          /\ phase = "recv" /\ k < i => client[k] # "open"
          /\ phase = "done" => client[k] # "open"

ServerInv ==
    /\ PlaceOK /\ DescOK /\ Apart /\ OneName /\ OnlyAccepted
    /\ FreshOK /\ LoopOK /\ NoDescriptorLost

BInv == TypeOK /\ ServerInv /\ BenchOK

-----------------------------------------------------------------------------
(* Facts about the constants.                                              *)

\* A task is a process or a thread of Main, and each task has a process.
LEMMA Processes ==
    ASSUME NEW t \in Tasks
    PROVE  /\ Main \in Workers /\ Main \in Procs /\ Main \in Tasks
           /\ Main \notin Conns /\ ProcOf(t) \in Procs
           /\ Procs = Tasks /\ Tasks = Workers \cup Conns
<1>1. \E w \in Workers : TRUE
      BY BlockingAssumption
<1>2. Main \in Workers
      BY <1>1 DEF Main
<1> QED BY <1>2, BlockingAssumption DEF Tasks, ProcOf

\* The number that accept gives is free.
LEMMA Lowest ==
    ASSUME NEW p, FreeFds(p) # {}
    PROVE  LowestFd(p) \in Fds /\ table[p][LowestFd(p)] = Free
<1> DEFINE R == {m \in Nat \X Nat : m[1] < m[2]}
<1>1. R = OpToRel(<, Nat)
      BY Zenon DEF OpToRel
<1>2. IsWellFoundedOn(R, Nat)
      BY <1>1, NatLessThanWellFounded, Zenon
<1>3. FreeFds(p) \subseteq Nat
      BY ConnAssumption DEF FreeFds, Fds
<1>4. PICK f \in FreeFds(p) : \A g \in FreeFds(p) : ~(<<g, f>> \in R)
  <2> HIDE DEF R
  <2> QED BY <1>2, <1>3, WFMin, Zenon
<1>5. \A g \in FreeFds(p) : f <= g
  <2> TAKE g \in FreeFds(p)
  <2>1. f \in Nat /\ g \in Nat
        BY <1>3
  <2>2. g < f => <<g, f>> \in R
        BY <2>1, SMT
  <2> HIDE DEF R
  <2> QED BY <1>4, <2>1, <2>2
<1>6. LowestFd(p) \in FreeFds(p)
      BY <1>4, <1>5 DEF LowestFd
<1> QED BY <1>6 DEF FreeFds

\* The places of a task after it has served.
LEMMA Places ==
    ASSUME program \in Programs, NEW t
    PROVE  /\ NextAccept \in {"lock", "accept", "events"}
           /\ NextAccept = "events" <=> program \in EventLoops
           /\ NextAccept = "lock" <=> program = "leaderandfollower"
           /\ Served(t) \in {"exit", "done", "events", "lock", "accept", "closeAgain"}
           /\ Served(t) = "exit" <=> program = "multiprocess"
           /\ Served(t) = "done" <=> program = "multithread"
           /\ Served(t) = "events" <=> program \in EventLoops
           /\ Served(t) = "lock" <=> program = "leaderandfollower"
           /\ Served(t) = "accept" <=> program = "threadpool"
           /\ Served(t) = "closeAgain" <=>
                 program \in {"singleprocess", "processpool1", "processpool2"}
<1>1. /\ program \in EventLoops =>
            /\ program \notin Threads \cap Pools
            /\ program \notin {"multiprocess", "multithread", "leaderandfollower"}
      /\ Threads = {"multithread", "threadpool", "leaderandfollower"}
      /\ Threads \cap Pools = {"threadpool", "leaderandfollower"}
      /\ program \notin EventLoops /\ program \notin Threads =>
            program \in {"multiprocess", "singleprocess", "processpool1", "processpool2"}
      BY DEF Programs, Pools, OwnSockets, EventLoops, Threads
<1>2. CASE program = "leaderandfollower"
  <2>1. NextAccept = "lock"
        BY <1>1, <1>2, Zenon DEF NextAccept
  <2>2. Served(t) = NextAccept
        BY <1>1, <1>2, Zenon DEF Served
  <2> QED BY <1>1, <1>2, <2>1, <2>2
<1>3. CASE program \in EventLoops
  <2>1. NextAccept = "events"
        BY <1>1, <1>3, Zenon DEF NextAccept
  <2>2. Served(t) = "events"
        BY <1>1, <1>3, Zenon DEF Served
  <2> QED BY <1>1, <1>3, <2>1, <2>2 DEF EventLoops
<1>4. ASSUME program # "leaderandfollower", program \notin EventLoops
      PROVE NextAccept = "accept"
      BY <1>4, Zenon DEF NextAccept
<1>5. CASE program = "threadpool"
  <2>1. Served(t) = NextAccept
        BY <1>1, <1>5, Zenon DEF Served
  <2> QED BY <1>1, <1>4, <1>5, <2>1 DEF EventLoops
<1>6. CASE program = "multithread"
  <2>1. program # "multiprocess" /\ program \notin EventLoops
        BY <1>6 DEF EventLoops
  <2>3. program \notin Threads \cap Pools
        BY <1>1, <1>6
  <2>2. Served(t) = "done"
        BY <1>1, <1>6, <2>1, <2>3, Zenon DEF Served
  <2> QED BY <1>1, <1>4, <1>6, <2>1, <2>2
<1>7. CASE program = "multiprocess"
  <2>1. Served(t) = "exit"
        BY <1>1, <1>7, Zenon DEF Served
  <2> QED BY <1>1, <1>4, <1>7, <2>1 DEF EventLoops
<1>8. CASE program \in {"singleprocess", "processpool1", "processpool2"}
  <2>1. program \notin EventLoops /\ program \notin Threads \cap Pools /\ program # "multiprocess"
        BY <1>1, <1>8 DEF EventLoops, Threads
  <2>2. program # "multithread"
        BY <1>8
  <2>3. Served(t) = "closeAgain"
        BY <2>1, <2>2, Zenon DEF Served
  <2> QED BY <1>4, <1>8, <2>1, <2>3
<1> QED BY <1>1, <1>2, <1>3, <1>5, <1>6, <1>7, <1>8

\* A task that serves has a descriptor of its process, and a connection.
LEMMA HasConnection ==
    ASSUME BlockingTypeOK, DescOK, NEW t \in Tasks, Serving(t)
    PROVE  /\ clientFd[t] \in Fds /\ Serves(t) \in Conns
           /\ Serves(t) = table[ProcOf(t)][clientFd[t]]
<1>1. Holds(t) /\ ProcOf(t) \in Procs
      BY Processes DEF DescOK
<1>2. clientFd[t] \in Fds /\ Serves(t) # Free
      BY <1>1 DEF Holds
<1>3. Serves(t) \in Conns \cup {Free}
      BY <1>1, <1>2 DEF BlockingTypeOK, ConnTypeOK, Serves
<1> QED BY <1>2, <1>3 DEF Serves

-----------------------------------------------------------------------------
(* PlaceOK.                                                                *)

\* No step takes a task to a place its program does not know.
LEMMA PlaceStep ==
    ASSUME TypeOK, ServerInv, NEW t \in Tasks, Task(t)
    PROVE  PlaceOK'
<1> USE DEF TypeOK, BlockingTypeOK
<1> SUFFICES ASSUME NEW x \in Tasks PROVE Stands(x)'
    BY DEF PlaceOK
<1>1. /\ Stands(x) /\ Stands(t) /\ Stands(Main) /\ program \in Programs
      /\ pc \in [Tasks -> {"none", "lock", "accept", "fork", "parent", "events",
                           "accepts", "read", "write", "close", "closeAgain",
                           "exit", "done"}]
      /\ \A u \in Tasks : u \in Workers => u \notin Conns
      BY Processes, BlockingAssumption DEF ServerInv, PlaceOK
<1>2. /\ Main \in Workers /\ Main \in Tasks /\ Main \notin Conns
      /\ Tasks = Workers \cup Conns
      BY Processes
<1>3. program \in EventLoops =>
         program \notin {"multiprocess", "multithread", "leaderandfollower",
                         "threadpool", "singleprocess"} /\ program \notin Pools
      BY DEF EventLoops, Pools, OwnSockets
<1>4. /\ "leaderandfollower" \in Pools
      /\ program \in Pools => program \notin {"multiprocess", "multithread"}
      BY DEF Pools, OwnSockets
<1> HIDE DEF TypeOK, BlockingTypeOK
<1>5. CASE Lock(t) /\ t \in Workers
      BY <1>1, <1>2, <1>3, <1>4, <1>5 DEF Lock, Goto, Stands
<1>6. CASE Accept(t) /\ t \in Workers
  <2>1. PICK k \in Conns : clientFd' = clientFd' /\
                pc' = [pc EXCEPT ![IF program = "multithread" THEN k ELSE t] =
                          IF program = "multiprocess" THEN "fork" ELSE "read"]
        BY <1>6 DEF Accept, Goto, Backlog
  <2>2. pc[t] = "accept" /\ program' = program
        BY <1>6 DEF Accept
  <2>3. program \notin Pools => t = Main
        BY <1>1, <1>6, <2>2 DEF Stands
  <2>4. CASE program = "multithread"
        BY <1>1, <1>2, <1>3, <1>4, <2>1, <2>2, <2>4 DEF Stands
  <2>5. CASE program # "multithread"
        BY <1>1, <1>2, <1>3, <1>4, <1>6, <2>1, <2>2, <2>3, <2>5 DEF Stands
  <2> QED BY <2>4, <2>5
<1>7. CASE AcceptFails(t) /\ t \in Workers
      BY <1>1, <1>2, <1>3, <1>4, <1>7, Places DEF AcceptFails, Goto, Stands
<1>8. CASE Fork
  <2>1. table[Main][clientFd[Main]] \in Conns
    <3>1. Serving(Main) /\ ProcOf(Main) = Main
          BY <1>2, <1>8 DEF Fork, Serving, ProcOf
    <3> QED BY <1>2, <3>1, HasConnection DEF TypeOK, ServerInv
  <2>2. CASE pc' = [pc EXCEPT ![Main] = "parent", ![table[Main][clientFd[Main]]] = "read"]
        BY <1>1, <1>2, <1>3, <1>4, <1>8, <2>1, <2>2 DEF Fork, Stands
  <2>3. CASE pc' = [pc EXCEPT ![Main] = "accept"]
        BY <1>1, <1>2, <1>3, <1>4, <1>8, <2>3 DEF Fork, Stands
  <2> QED BY <1>8, <2>2, <2>3 DEF Fork, Goto
<1>9. CASE ParentCloses
      BY <1>1, <1>2, <1>3, <1>4, <1>9 DEF ParentCloses, Goto, Stands
<1>10. CASE Wait
      BY <1>1, <1>2, <1>3, <1>4, <1>10 DEF Wait, Stands
<1>11. CASE NextEvent
  <2>1. PICK e \in ready : pc' = [pc EXCEPT ![Main] = IF e = Listen THEN "accepts" ELSE "read"]
        BY <1>11 DEF NextEvent, Goto
  <2> QED BY <1>1, <1>2, <1>3, <1>4, <1>11, <2>1 DEF NextEvent, Stands
<1>12. CASE LoopAccept
  <2>1. pc' = pc \/ pc' = [pc EXCEPT ![Main] = "events"]
        BY <1>12 DEF LoopAccept, Goto
  <2> QED BY <1>1, <1>2, <1>3, <1>4, <1>12, <2>1 DEF LoopAccept, Stands
<1>13. CASE Recv(t)
  <2>1. pc' = pc \/ pc' = [pc EXCEPT ![t] = "write"]
        BY <1>13 DEF Recv, Goto
  <2> QED BY <1>1, <1>2, <1>3, <1>4, <1>13, <2>1 DEF Recv, Stands
<1>14. CASE RecvFails(t)
  <2>1. pc' = [pc EXCEPT ![t] = IF program \in EventLoops THEN "close" ELSE Served(t)]
        BY <1>14 DEF RecvFails, Goto
  <2> QED BY <1>1, <1>2, <1>3, <1>4, <1>14, <2>1, Places DEF RecvFails, Stands
<1>15. CASE Reply(t)
  <2>1. pc' = pc \/ pc' = [pc EXCEPT ![t] = "close"]
        BY <1>15 DEF Reply, Goto
  <2> QED BY <1>1, <1>2, <1>3, <1>4, <1>15, <2>1 DEF Reply, Stands
<1>16. CASE ReplyFails(t)
      BY <1>1, <1>2, <1>3, <1>4, <1>16 DEF ReplyFails, Goto, Stands
<1>17. CASE Close(t)
      BY <1>1, <1>2, <1>3, <1>4, <1>17, Places DEF Close, Goto, Stands
<1>18. CASE CloseAgain(t)
      BY <1>1, <1>2, <1>3, <1>4, <1>18 DEF CloseAgain, Goto, Stands, EventLoops
<1>19. CASE Exit(t)
      BY <1>1, <1>2, <1>3, <1>4, <1>19 DEF Exit, Goto, Stands
<1> QED BY <1>5, <1>6, <1>7, <1>8, <1>9, <1>10, <1>11, <1>12, <1>13, <1>14,
           <1>15, <1>16, <1>17, <1>18, <1>19 DEF Task, Serve, Worker

-----------------------------------------------------------------------------
(* OneName, OnlyAccepted, FreshOK.                                         *)

\* What a step of the server does to the descriptors.
LEMMA TableSteps ==
    ASSUME TypeOK, ServerInv, NEW t \in Tasks, Task(t)
    PROVE  \/ UNCHANGED <<accepted, table>>
           \/ \E p \in Procs, k \in Conns \ accepted : Accepts(p, k)
           \/ \E p \in Procs, f \in Fds : close(p, f) /\ UNCHANGED accepted
           \/ /\ program = "multiprocess"
              /\ \E k \in Conns : table' = [table EXCEPT ![k] = table[Main]]
              /\ UNCHANGED accepted
           \/ /\ \E p \in Procs : table' = [table EXCEPT ![p] = [f \in Fds |-> Free]]
              /\ UNCHANGED accepted
<1> DEFINE Goal ==
           \/ UNCHANGED <<accepted, table>>
           \/ \E p \in Procs, k \in Conns \ accepted : Accepts(p, k)
           \/ \E p \in Procs, f \in Fds : close(p, f) /\ UNCHANGED accepted
           \/ /\ program = "multiprocess"
              /\ \E k \in Conns : table' = [table EXCEPT ![k] = table[Main]]
              /\ UNCHANGED accepted
           \/ /\ \E p \in Procs : table' = [table EXCEPT ![p] = [f \in Fds |-> Free]]
              /\ UNCHANGED accepted
<1>1. /\ Main \in Tasks /\ Main \in Procs /\ t \in Procs /\ ProcOf(t) \in Procs
      /\ Main \notin Conns /\ ProcOf(Main) = Main
      BY Processes DEF ProcOf
<1>2. Stands(t) /\ Stands(Main) /\ Holds(t) /\ Holds(Main)
      BY <1>1 DEF ServerInv, PlaceOK, DescOK
<1>3. ASSUME Accept(t), t \in Workers PROVE Goal
  <2>1. PICK k \in Backlog(t) : Accepts(ProcOf(t), k)
        BY <1>3 DEF Accept
  <2>2. k \in Conns \ accepted
        BY DEF Backlog
  <2> QED BY <1>1, <2>1, <2>2
<1>4. ASSUME Fork PROVE Goal
  <2>1. Serving(Main) /\ program = "multiprocess" /\ UNCHANGED accepted
        BY <1>2, <1>4 DEF Fork, Serving, Stands
  <2>2. table[Main][clientFd[Main]] \in Conns
        BY <1>1, <2>1, HasConnection DEF TypeOK, ServerInv
  <2> QED BY <1>4, <2>1, <2>2 DEF Fork
<1>5. ASSUME ParentCloses PROVE Goal
  <2>1. clientFd[Main] \in Fds /\ close(Main, clientFd[Main]) /\ UNCHANGED accepted
        BY <1>2, <1>5 DEF ParentCloses, Holds, Serving
  <2> QED BY <1>1, <2>1
<1>6. ASSUME LoopAccept PROVE Goal
  <2>1. \/ UNCHANGED <<accepted, table>>
        \/ \E k \in Backlog(Main) : Accepts(Main, k)
        BY <1>6 DEF LoopAccept
  <2>2. Backlog(Main) \subseteq Conns \ accepted
        BY DEF Backlog
  <2> QED BY <1>1, <2>1, <2>2
<1>7. ASSUME Close(t) \/ CloseAgain(t) PROVE Goal
  <2>1. /\ clientFd[t] \in Fds /\ close(ProcOf(t), clientFd[t]) /\ UNCHANGED accepted
        BY <1>2, <1>7 DEF Close, CloseAgain, Holds, Serving
  <2> QED BY <1>1, <2>1
<1>8. ASSUME Exit(t) PROVE Goal
      BY <1>1, <1>8 DEF Exit
<1>9. ASSUME \/ Lock(t) \/ AcceptFails(t) \/ Wait \/ NextEvent
             \/ Recv(t) \/ RecvFails(t) \/ Reply(t) \/ ReplyFails(t)
      PROVE  Goal
      BY <1>9 DEF Lock, AcceptFails, Wait, NextEvent, Recv, RecvFails, Reply,
                  ReplyFails, connVars
<1> HIDE DEF Goal
<1>10. Goal
       BY <1>3, <1>4, <1>5, <1>6, <1>7, <1>8, <1>9 DEF Task, Serve, Worker
<1> QED BY <1>10 DEF Goal

\* A descriptor stands for an accepted connection, which has one name only.
LEMMA TableStep ==
    ASSUME TypeOK, ServerInv, NEW t \in Tasks, Task(t)
    PROVE  OneName' /\ OnlyAccepted'
<1>1. /\ table \in [Procs -> [Fds -> Conns \cup {Free}]]
      /\ program' = program
      /\ OneName /\ OnlyAccepted
      BY DEF TypeOK, BlockingTypeOK, ConnTypeOK, ServerInv, Task, Serve, Worker,
             Lock, Accept, AcceptFails, Fork, ParentCloses, Wait, NextEvent,
             LoopAccept, Recv, RecvFails, Reply, ReplyFails, Close, CloseAgain, Exit
<1>2. Main \in Procs /\ Main \notin Conns /\ Conns \subseteq Procs
      BY Processes
<1>3. CASE UNCHANGED <<accepted, table>>
      BY <1>1, <1>3 DEF OneName, OnlyAccepted
<1>4. ASSUME NEW p \in Procs, NEW k \in Conns \ accepted, Accepts(p, k)
      PROVE  OneName' /\ OnlyAccepted'
  <2> DEFINE h == LowestFd(p)
  <2>1. h \in Fds /\ table[p][h] = Free
        BY <1>4, Lowest DEF Accepts
  <2>2. table' = [table EXCEPT ![p][h] = k] /\ accepted' = accepted \cup {k}
        BY <1>4 DEF Accepts
  <2> HIDE DEF h
  <2>3. \A q \in Procs : \A g \in Fds :
           table'[q][g] = IF q = p /\ g = h THEN k ELSE table[q][g]
        BY <1>1, <2>1, <2>2
  <2>4. \A q \in Procs : \A g \in Fds : table[q][g] # k
        BY <1>1, ConnAssumption DEF OnlyAccepted
  <2>5. OnlyAccepted'
        BY <1>1, <2>2, <2>3 DEF OnlyAccepted
  <2>6. OneName'
        BY <1>1, <2>3, <2>4 DEF OneName
  <2> QED BY <2>5, <2>6
<1>5. ASSUME NEW p \in Procs, NEW f \in Fds, close(p, f), UNCHANGED accepted
      PROVE  OneName' /\ OnlyAccepted'
  <2>1. \A q \in Procs : \A g \in Fds :
           table'[q][g] = IF q = p /\ g = f THEN Free ELSE table[q][g]
        BY <1>1, <1>5 DEF close
  <2> QED BY <1>1, <1>5, <2>1 DEF OneName, OnlyAccepted
<1>6. ASSUME program = "multiprocess", UNCHANGED accepted, NEW k \in Conns,
             table' = [table EXCEPT ![k] = table[Main]]
      PROVE  OneName' /\ OnlyAccepted'
  <2>1. \A q \in Procs : \A g \in Fds :
           table'[q][g] = IF q = k THEN table[Main][g] ELSE table[q][g]
        BY <1>1, <1>2, <1>6
  <2>2. OnlyAccepted'
        BY <1>1, <1>2, <1>6, <2>1 DEF OnlyAccepted
  <2>3. OneName'
        BY <1>1, <1>2, <1>6, <2>1 DEF OneName
  <2> QED BY <2>2, <2>3
<1>7. ASSUME NEW p \in Procs, table' = [table EXCEPT ![p] = [f \in Fds |-> Free]],
             UNCHANGED accepted
      PROVE  OneName' /\ OnlyAccepted'
  <2>1. \A q \in Procs : \A g \in Fds :
           table'[q][g] = IF q = p THEN Free ELSE table[q][g]
        BY <1>1, <1>7
  <2> QED BY <1>1, <1>7, <2>1 DEF OneName, OnlyAccepted
<1> QED BY <1>3, <1>4, <1>5, <1>6, <1>7, TableSteps

\* The pieces of a connection are moved by a task that serves it.
LEMMA PieceSteps ==
    ASSUME TypeOK, ServerInv, NEW t \in Tasks, Task(t)
    PROVE  \/ UNCHANGED <<rd, wr>>
           \/ /\ Recv(t) /\ UNCHANGED wr
              /\ rd' = [rd EXCEPT ![Serves(t)] = @ + 1]
           \/ /\ Reply(t) /\ UNCHANGED rd
              /\ wr' = [wr EXCEPT ![Serves(t)] = @ + 1]
<1>1. CASE Recv(t)
      BY <1>1 DEF Recv, ReadPiece, Serves
<1>2. CASE Reply(t)
      BY <1>2 DEF Reply, WritePiece, Serves
<1>3. CASE ~(Recv(t) \/ Reply(t))
      BY <1>3 DEF Task, Serve, Worker, Lock, Accept, AcceptFails, Fork,
            ParentCloses, Wait, NextEvent, LoopAccept, RecvFails, ReplyFails,
            Close, CloseAgain, Exit, connVars, pieceVars
<1> QED BY <1>1, <1>2, <1>3

\* A connection that was not accepted is untouched.
LEMMA FreshStep ==
    ASSUME TypeOK, ServerInv, NEW t \in Tasks, Task(t)
    PROVE  FreshOK'
<1> SUFFICES ASSUME NEW k \in Conns, k \notin accepted'
             PROVE  rd'[k] = 0 /\ wr'[k] = 0 /\ pc'[k] = "none"
    BY DEF FreshOK
<1>1. /\ k \notin accepted /\ rd[k] = 0 /\ wr[k] = 0 /\ pc[k] = "none"
  <2>1. accepted \subseteq accepted'
        BY TableSteps DEF Accepts
  <2> QED BY <2>1 DEF ServerInv, FreshOK
<1>2. /\ rd \in [Conns -> 0 .. Len] /\ wr \in [Conns -> 0 .. Len]
      /\ pc \in [Tasks -> {"none", "lock", "accept", "fork", "parent", "events",
                           "accepts", "read", "write", "close", "closeAgain",
                           "exit", "done"}]
      /\ k \in Tasks /\ Main \in Tasks /\ Main # k /\ k \notin Workers
      BY Processes, BlockingAssumption DEF TypeOK, BlockingTypeOK, ConnTypeOK
<1>3. \A u \in Tasks : Serving(u) => Serves(u) \in Conns \cap accepted
  <2> TAKE u \in Tasks
  <2> HAVE Serving(u)
  <2>1. /\ clientFd[u] \in Fds /\ Serves(u) \in Conns
        /\ Serves(u) = table[ProcOf(u)][clientFd[u]] /\ ProcOf(u) \in Procs
        BY HasConnection, Processes DEF TypeOK, ServerInv
  <2>2. Serves(u) # Free
        BY <2>1, ConnAssumption
  <2> QED BY <2>1, <2>2 DEF ServerInv, OnlyAccepted
<1>4. rd'[k] = 0 /\ wr'[k] = 0
  <2>1. CASE Recv(t)
        BY <1>1, <1>2, <1>3, <2>1, PieceSteps DEF Recv, Reply, Serving
  <2>2. CASE Reply(t)
        BY <1>1, <1>2, <1>3, <2>2, PieceSteps DEF Recv, Reply, Serving
  <2> QED BY <1>1, <2>1, <2>2, PieceSteps
<1>5. pc'[k] = "none"
  <2>1. CASE Accept(t) /\ t \in Workers
    <3>1. PICK j \in Backlog(t) :
             /\ Accepts(ProcOf(t), j)
             /\ pc' = [pc EXCEPT ![IF program = "multithread" THEN j ELSE t] =
                          IF program = "multiprocess" THEN "fork" ELSE "read"]
          BY <2>1 DEF Accept, Goto
    <3>2. j # k
          BY <3>1 DEF Accepts
    <3> QED BY <1>1, <1>2, <2>1, <3>1, <3>2
  <2>2. CASE Fork
    <3>1. Serving(Main) /\ ProcOf(Main) = Main
          BY <2>2 DEF Fork, Serving, ProcOf
    <3>2. table[Main][clientFd[Main]] # k
          BY <1>1, <1>2, <1>3, <3>1 DEF Serves
    <3> QED BY <1>1, <1>2, <2>2, <3>2 DEF Fork, Goto
  <2>3. CASE LoopAccept \/ NextEvent \/ ParentCloses \/ Wait
    <3>1. pc' = pc \/ \E x : pc' = [pc EXCEPT ![Main] = x]
          BY <2>3 DEF LoopAccept, NextEvent, ParentCloses, Wait, Goto
    <3> QED BY <1>1, <1>2, <3>1
  <2>4. CASE (Lock(t) \/ AcceptFails(t)) /\ t \in Workers
        BY <1>1, <1>2, <2>4 DEF Lock, AcceptFails, Goto
  <2>5. CASE Serve(t)
    <3>1. pc[t] # "none"
          BY <2>5 DEF Serve, Recv, RecvFails, Reply, ReplyFails, Close, CloseAgain, Exit
    <3>2. pc' = pc \/ \E x : pc' = [pc EXCEPT ![t] = x]
          BY <2>5 DEF Serve, Recv, RecvFails, Reply, ReplyFails, Close, CloseAgain,
                      Exit, Goto
    <3> QED BY <1>1, <1>2, <3>1, <3>2
  <2> QED BY <2>1, <2>2, <2>3, <2>4, <2>5 DEF Task, Worker
<1> QED BY <1>4, <1>5

-----------------------------------------------------------------------------
(* DescOK, Apart.                                                          *)

\* While a task serves a connection nobody changes its descriptor.
LEMMA Stays ==
    ASSUME TypeOK, ServerInv, NEW t \in Tasks, Task(t),
           NEW x \in Tasks, Serving(x),
           x # t \/ pc[x] \notin {"close", "parent"}
    PROVE  /\ ProcOf(x)' = ProcOf(x) /\ clientFd'[x] = clientFd[x]
           /\ Serves(x)' = Serves(x)
<1>1. /\ table \in [Procs -> [Fds -> Conns \cup {Free}]]
      /\ clientFd \in [Tasks -> Fds \cup {Listen}]
      /\ program \in Programs
      BY DEF TypeOK, BlockingTypeOK, ConnTypeOK
<1>2. /\ Main \in Workers /\ Main \in Tasks /\ Main \notin Conns /\ Main \in Procs
      /\ ProcOf(x) \in Procs /\ Tasks = Workers \cup Conns /\ Tasks = Procs
      /\ ProcOf(t) \in Procs /\ ProcOf(Main) = Main
      /\ \A u \in Tasks : u \in Workers => u \notin Conns
      BY Processes, BlockingAssumption DEF ProcOf
<1>3. /\ clientFd[x] \in Fds /\ Serves(x) \in Conns
      /\ Serves(x) = table[ProcOf(x)][clientFd[x]]
      /\ table[ProcOf(x)][clientFd[x]] # Free
      BY HasConnection, ConnAssumption DEF TypeOK, ServerInv
<1>4. /\ Stands(x) /\ Stands(t) /\ Stands(Main) /\ Holds(t) /\ Holds(Main) /\ Holds(x)
      BY <1>2 DEF ServerInv, PlaceOK, DescOK
<1>5. SUFFICES /\ program' = program /\ clientFd'[x] = clientFd[x]
               /\ table'[ProcOf(x)][clientFd[x]] = table[ProcOf(x)][clientFd[x]]
      BY <1>3 DEF Serves, ProcOf
<1>6. ASSUME NEW p \in Procs, NEW k, Accepts(p, k)
      PROVE  table'[ProcOf(x)][clientFd[x]] = table[ProcOf(x)][clientFd[x]]
  <2>1. LowestFd(p) \in Fds /\ table[p][LowestFd(p)] = Free
        BY <1>6, Lowest DEF Accepts
  <2>2. table' = [table EXCEPT ![p][LowestFd(p)] = k]
        BY <1>6 DEF Accepts
  <2> QED BY <1>1, <1>2, <1>3, <2>1, <2>2
<1>7. CASE Accept(t) /\ t \in Workers
  <2>1. PICK k \in Backlog(t) :
           /\ Accepts(ProcOf(t), k)
           /\ clientFd' = [clientFd EXCEPT
                 ![IF program = "multithread" THEN k ELSE t] = LowestFd(ProcOf(t))]
        BY <1>7 DEF Accept
  <2>2. x # t /\ x # k
        BY <1>7, <2>1 DEF Accept, Serving, Backlog, ServerInv, FreshOK
  <2> QED BY <1>1, <1>2, <1>6, <1>7, <2>1, <2>2 DEF Accept
<1>8. CASE Fork
  <2>1. Serving(Main) /\ pc[Main] = "fork" /\ Serves(Main) = table[Main][clientFd[Main]]
        BY <1>2, <1>8 DEF Fork, Serving, Serves
  <2>2. program = "multiprocess" /\ pc[Serves(Main)] = "none" /\ Serves(Main) \in Conns
        BY <1>2, <1>4, <2>1, HasConnection DEF Stands, Holds, TypeOK, ServerInv
  <2>3. x # Serves(Main)
        BY <2>2 DEF Serving
  <2>4. ProcOf(x) # Serves(Main)
        BY <1>2, <2>2, <2>3 DEF ProcOf
  <2>5. program' = program
        BY <1>8 DEF Fork
  <2>6. CASE UNCHANGED <<table, clientFd>>
        BY <2>5, <2>6
  <2>7. CASE /\ table' = [table EXCEPT ![Serves(Main)] = table[Main]]
             /\ clientFd' = [clientFd EXCEPT ![Serves(Main)] = clientFd[Main]]
        BY <1>1, <1>2, <2>2, <2>3, <2>4, <2>5, <2>7
  <2> QED BY <1>8, <2>1, <2>6, <2>7 DEF Fork
<1>9. CASE ParentCloses /\ t = Main
  <2>1. pc[Main] = "parent" /\ program = "multiprocess" /\ x # Main
        BY <1>4, <1>9 DEF ParentCloses, Stands
  <2>2. ProcOf(x) # Main
        BY <1>2, <1>4, <2>1 DEF ProcOf, Stands, Serving
  <2> QED BY <1>1, <1>2, <1>9, <2>2 DEF ParentCloses, close
<1>10. CASE LoopAccept
       BY <1>2, <1>6, <1>10 DEF LoopAccept
<1>11. CASE NextEvent
  <2>1. x # Main
        BY <1>11 DEF NextEvent, Serving
  <2> QED BY <1>1, <1>2, <1>11, <2>1 DEF NextEvent, connVars
<1>12. CASE Close(t)
  <2>1. x # t /\ Serving(t)
        BY <1>12 DEF Close, Serving
  <2>2. ProcOf(x) = ProcOf(t) => clientFd[x] # clientFd[t]
        BY <2>1 DEF ServerInv, Apart
  <2> QED BY <1>1, <1>2, <1>12, <2>2 DEF Close, close
<1>13. CASE CloseAgain(t)
  <2>1. x # t /\ pc[t] = "closeAgain"
        BY <1>13 DEF CloseAgain, Serving
  <2>2. ProcOf(x) # ProcOf(t)
        BY <1>2, <1>4, <2>1 DEF Stands, ProcOf, Serving, Pools, OwnSockets
  <2> QED BY <1>1, <1>2, <1>13, <2>2 DEF CloseAgain, close
<1>14. CASE Exit(t)
  <2>1. x # t /\ pc[t] = "exit"
        BY <1>14 DEF Exit, Serving
  <2>2. ProcOf(x) # t
        BY <1>2, <1>4, <2>1 DEF Stands, ProcOf
  <2> QED BY <1>1, <1>2, <1>14, <2>2 DEF Exit
<1>15. CASE \/ Lock(t) \/ AcceptFails(t) \/ Wait
            \/ Recv(t) \/ RecvFails(t) \/ Reply(t) \/ ReplyFails(t)
       BY <1>15 DEF Lock, AcceptFails, Wait, Recv, RecvFails, Reply, ReplyFails, connVars
<1> QED BY <1>7, <1>8, <1>9, <1>10, <1>11, <1>12, <1>13, <1>14, <1>15
        DEF Task, Serve, Worker

\* Two tasks that serve have different connections, but for the parent and the
\* child it has just started.
LEMMA Different ==
    ASSUME TypeOK, ServerInv, NEW t \in Tasks, NEW x \in Tasks, t # x,
           pc[t] \in {"read", "write", "close"}, Serving(x),
           Serves(t) = Serves(x)
    PROVE  x = Main /\ Serves(x) = t /\ program = "multiprocess" /\ pc[x] # "fork"
<1>1. /\ Serving(t) /\ Stands(t) /\ Stands(x) /\ Holds(t) /\ Holds(x)
      /\ Tasks = Workers \cup Conns
      /\ ProcOf(t) \in Procs /\ ProcOf(x) \in Procs
      BY Processes DEF Serving, ServerInv, PlaceOK, DescOK
<1>2. /\ clientFd[t] \in Fds /\ clientFd[x] \in Fds
      /\ Serves(t) = table[ProcOf(t)][clientFd[t]]
      /\ Serves(x) = table[ProcOf(x)][clientFd[x]]
      /\ Serves(x) # Free
      BY <1>1, HasConnection DEF TypeOK, ServerInv, Holds
<1>3. program = "multiprocess"
  <2> SUFFICES ASSUME program # "multiprocess" PROVE FALSE
      OBVIOUS
  <2>1. ProcOf(t) = ProcOf(x) /\ clientFd[t] = clientFd[x]
    <3>1. ProcOf(t) \in Procs /\ ProcOf(x) \in Procs
          BY <1>1
    <3>2. \A p, q \in Procs : \A f, g \in Fds :
             table[p][f] # Free /\ table[p][f] = table[q][g] => p = q /\ f = g
          BY DEF ServerInv, OneName
    <3>3. /\ table[ProcOf(t)][clientFd[t]] # Free
          /\ table[ProcOf(t)][clientFd[t]] = table[ProcOf(x)][clientFd[x]]
          BY <1>2
    <3>4. clientFd[t] \in Fds /\ clientFd[x] \in Fds
          BY <1>2
    <3>5. \A q \in Procs : \A f, g \in Fds :
             table[ProcOf(t)][f] # Free /\ table[ProcOf(t)][f] = table[q][g]
                => ProcOf(t) = q /\ f = g
          BY <3>1, <3>2
    <3>6. \A f, g \in Fds :
             table[ProcOf(t)][f] # Free /\ table[ProcOf(t)][f] = table[ProcOf(x)][g]
                => ProcOf(t) = ProcOf(x) /\ f = g
          BY <3>1, <3>5
    <3> QED BY <3>3, <3>4, <3>6
  <2> QED BY <1>1, <2>1 DEF ServerInv, Apart
<1>4. t \in Conns /\ Serves(t) = t
      BY <1>1, <1>3 DEF Stands, Holds
<1>5. x \notin Conns
      BY <1>1, <1>4 DEF Holds
<1>6. pc[x] \in {"fork", "parent"} /\ x = Main
      BY <1>1, <1>3, <1>5 DEF Stands, Serving
<1>7. pc[x] # "fork"
      BY <1>1, <1>4 DEF Holds
<1> QED BY <1>3, <1>4, <1>6, <1>7

\* Where a task goes.
LEMMA Moves ==
    ASSUME TypeOK, ServerInv, NEW t \in Tasks, Task(t),
           NEW x \in Tasks, pc'[x] # pc[x]
    PROVE  \/ x = t
           \/ /\ Accept(t) /\ program = "multithread"
              /\ pc[x] = "none" /\ pc'[x] = "read"
           \/ /\ Fork /\ t = Main /\ x # Main
              /\ pc[x] = "none" /\ pc'[x] = "read" /\ x = Serves(Main)
<1>1. /\ pc \in [Tasks -> {"none", "lock", "accept", "fork", "parent", "events",
                           "accepts", "read", "write", "close", "closeAgain",
                           "exit", "done"}]
      /\ Tasks = Workers \cup Conns /\ Main \in Tasks /\ Main \notin Conns
      BY Processes DEF TypeOK, BlockingTypeOK
<1>2. CASE Accept(t) /\ t \in Workers
  <2>1. PICK k \in Backlog(t) :
           pc' = [pc EXCEPT ![IF program = "multithread" THEN k ELSE t] =
                     IF program = "multiprocess" THEN "fork" ELSE "read"]
        BY <1>2 DEF Accept, Goto
  <2>2. pc[k] = "none" /\ k \in Tasks
        BY <1>1, <2>1 DEF ServerInv, FreshOK, Backlog
  <2> QED BY <1>1, <1>2, <2>1, <2>2
<1>3. CASE Fork /\ t = Main
  <2>1. Serving(Main) /\ pc[Main] = "fork" /\ Serves(Main) = table[Main][clientFd[Main]]
        BY <1>1, <1>3, Processes DEF Fork, Serving, Serves, ProcOf
  <2>2. pc[Serves(Main)] = "none" /\ Serves(Main) \in Conns
        BY <1>1, <2>1, HasConnection DEF Holds, TypeOK, ServerInv, DescOK
  <2>3. CASE pc' = [pc EXCEPT ![Main] = "parent", ![Serves(Main)] = "read"]
        BY <1>1, <1>3, <2>2, <2>3
  <2>4. CASE pc' = [pc EXCEPT ![Main] = "accept"]
        BY <1>1, <1>3, <2>4
  <2> QED BY <1>3, <2>1, <2>3, <2>4 DEF Fork, Goto
<1>4. CASE (ParentCloses \/ Wait \/ NextEvent \/ LoopAccept) /\ t = Main
  <2>1. pc' = pc \/ \E y : pc' = [pc EXCEPT ![Main] = y]
        BY <1>4 DEF LoopAccept, NextEvent, ParentCloses, Wait, Goto
  <2> QED BY <1>1, <1>4, <2>1
<1>5. CASE Serve(t) \/ Lock(t) \/ AcceptFails(t)
  <2>1. pc' = pc \/ \E y : pc' = [pc EXCEPT ![t] = y]
        BY <1>5 DEF Serve, Recv, RecvFails, Reply, ReplyFails, Close, CloseAgain,
                    Exit, Lock, AcceptFails, Goto
  <2> QED BY <1>1, <2>1
<1> QED BY <1>2, <1>3, <1>4, <1>5 DEF Task, Worker

\* A task that will close again keeps its descriptor.
LEMMA ClosesAgain ==
    ASSUME TypeOK, ServerInv, NEW t \in Tasks, Task(t),
           NEW x \in Tasks, pc[x] = "closeAgain"
    PROVE  clientFd'[x] = clientFd[x]
<1>1. /\ clientFd \in [Tasks -> Fds \cup {Listen}] /\ Main \in Tasks
      BY Processes DEF TypeOK, BlockingTypeOK
<1>2. ~NextEvent \/ x # Main
      BY DEF NextEvent
<1>3. ~Fork \/ x # Serves(Main)
  <2>1. ASSUME Fork PROVE Serving(Main) /\ pc[Main] = "fork"
        BY <2>1 DEF Fork, Serving
  <2> QED BY <1>1, <2>1 DEF ServerInv, DescOK, Holds
<1>4. ASSUME Fork, x # Serves(Main) PROVE clientFd'[x] = clientFd[x]
      BY <1>1, <1>4, Processes DEF Fork, Serves, ProcOf
<1>5. ASSUME Accept(t) PROVE clientFd'[x] = clientFd[x]
  <2>1. PICK k \in Backlog(t) :
           clientFd' = [clientFd EXCEPT
              ![IF program = "multithread" THEN k ELSE t] = LowestFd(ProcOf(t))]
        BY <1>5 DEF Accept
  <2>2. x # k /\ x # t
        BY <1>5, <2>1 DEF Accept, ServerInv, FreshOK, Backlog
  <2> QED BY <1>1, <2>1, <2>2
<1>6. ASSUME NextEvent, x # Main PROVE clientFd'[x] = clientFd[x]
      BY <1>1, <1>6 DEF NextEvent
<1> QED BY <1>2, <1>3, <1>4, <1>5, <1>6 DEF Task, Serve, Worker, Lock,
          AcceptFails, ParentCloses, Wait, LoopAccept, Recv, RecvFails,
          Reply, ReplyFails, Close, CloseAgain, Exit

\* A task that goes on serving still has what Holds says of it.
LEMMA HoldsOn ==
    ASSUME TypeOK, ServerInv, NEW t \in Tasks, Task(t),
           NEW x \in Tasks, pc'[x] = pc[x]
    PROVE  Holds(x)'
<1>1. /\ rd \in [Conns -> 0 .. Len] /\ wr \in [Conns -> 0 .. Len] /\ Len \in Nat
      /\ sent \in [Conns -> 0 .. Len]
      /\ clientFd \in [Tasks -> Fds \cup {Listen}]
      /\ pc \in [Tasks -> {"none", "lock", "accept", "fork", "parent", "events",
                           "accepts", "read", "write", "close", "closeAgain",
                           "exit", "done"}]
      /\ program \in Programs
      BY ConnAssumption DEF TypeOK, BlockingTypeOK, ConnTypeOK
<1>2. Holds(x) /\ Main \in Tasks
      BY Processes DEF ServerInv, DescOK
<1>3. Serving(x)' <=> Serving(x)
      BY DEF Serving
<1>4. CASE ~Serving(x)
      BY <1>2, <1>3, <1>4, ClosesAgain DEF Holds, Serving
<1>5. CASE Serving(x)
  <2>1. x # t \/ pc[x] \notin {"close", "parent"}
    <3> SUFFICES ASSUME x = t, pc[x] \in {"close", "parent"} PROVE FALSE
        OBVIOUS
    <3>1. Close(t) \/ (ParentCloses /\ t = Main)
          BY DEF Task, Serve, Worker, Lock, Accept, AcceptFails, Fork, Wait,
                 NextEvent, LoopAccept, Recv, RecvFails, Reply, ReplyFails,
                 CloseAgain, Exit
    <3> QED BY <1>1, <3>1, Places DEF Close, ParentCloses, Goto
  <2>2. /\ ProcOf(x)' = ProcOf(x) /\ clientFd'[x] = clientFd[x]
        /\ Serves(x)' = Serves(x) /\ Serves(x) \in Conns
        BY <1>5, <2>1, Stays, HasConnection DEF TypeOK, ServerInv
  <2> DEFINE k == Serves(x)
  <2>3. ASSUME pc[x] \in {"read", "fork"} PROVE wr'[k] = wr[k]
    <3>1. CASE UNCHANGED wr
          BY <3>1
    <3>2. ASSUME Reply(t), wr' = [wr EXCEPT ![Serves(t)] = @ + 1]
          PROVE  wr'[k] = wr[k]
      <4>1. pc[t] = "write" /\ t # x /\ Serving(t)
            BY <2>3, <3>2 DEF Reply, Serving
      <4>2. Serves(t) # k
        <5>1. CASE pc[x] = "read"
              BY <1>5, <4>1, <5>1, Different DEF Serving
        <5>2. CASE pc[x] = "fork"
              BY <1>5, <4>1, <5>2, Different DEF Serving
        <5> QED BY <2>3, <5>1, <5>2
      <4> QED BY <1>1, <2>2, <3>2, <4>2
    <3> QED BY <3>1, <3>2, PieceSteps
  <2>4. ASSUME pc[x] \in {"read", "fork"}, t # x PROVE rd'[k] = rd[k]
    <3>1. CASE UNCHANGED rd
          BY <3>1
    <3>2. ASSUME Recv(t), rd' = [rd EXCEPT ![Serves(t)] = @ + 1]
          PROVE  rd'[k] = rd[k]
      <4>1. pc[t] = "read" /\ Serving(t)
            BY <3>2 DEF Recv, Serving
      <4>2. Serves(t) # k
        <5>1. CASE pc[x] = "read"
          <6>1. Serves(t) = Serves(x) => x = Main /\ program = "multiprocess"
                BY <1>5, <2>4, <4>1, Different
          <6>2. Stands(x)
                BY DEF ServerInv, PlaceOK
          <6> QED BY <5>1, <6>1, <6>2, Processes DEF Stands
        <5>2. CASE pc[x] = "fork"
              BY <1>5, <2>4, <4>1, <5>2, Different DEF Serving
        <5> QED BY <2>4, <5>1, <5>2
      <4> QED BY <1>1, <2>2, <3>2, <4>2
    <3> QED BY <3>1, <3>2, PieceSteps
  <2>5. ASSUME pc[x] = "read" PROVE rd'[k] < Len
    <3>1. rd[k] < Len /\ rd[k] \in 0 .. Len
          BY <1>1, <1>2, <2>2, <2>5 DEF Holds
    <3>2. CASE t # x
          BY <2>4, <2>5, <3>1, <3>2
    <3>3. ASSUME t = x, Recv(x), rd' = [rd EXCEPT ![k] = @ + 1] PROVE rd'[k] < Len
      <4>1. rd'[k] # Len
            BY <1>1, <2>5, <3>3 DEF Recv, Goto, Serves
      <4> QED BY <1>1, <2>2, <3>1, <3>3, <4>1
    <3> QED BY <3>1, <3>2, <3>3, PieceSteps
  <2>6. ASSUME pc[x] = "write" PROVE wr'[k] < Len
    <3>1. wr[k] < Len /\ wr[k] \in 0 .. Len
          BY <1>1, <1>2, <2>2, <2>6 DEF Holds
    <3>2. ASSUME t = x, Reply(x), wr' = [wr EXCEPT ![k] = @ + 1] PROVE wr'[k] < Len
      <4>1. wr'[k] # Len
            BY <1>1, <2>6, <3>2 DEF Reply, Goto, Serves
      <4> QED BY <1>1, <2>2, <3>1, <3>2, <4>1
    <3>3. ASSUME t # x, Reply(t), wr' = [wr EXCEPT ![Serves(t)] = @ + 1]
          PROVE  wr'[k] = wr[k]
      <4>1. pc[t] = "write"
            BY <3>3 DEF Reply
      <4>2. Serves(t) = Serves(x) => x = Main /\ program = "multiprocess"
            BY <1>5, <3>3, <4>1, Different
      <4>3. Stands(x)
            BY DEF ServerInv, PlaceOK
      <4>4. Serves(t) # k
            BY <2>6, <4>2, <4>3, Processes DEF Stands
      <4> QED BY <1>1, <2>2, <3>3, <4>4
    <3> QED BY <3>1, <3>2, <3>3, PieceSteps
  <2>7. ASSUME pc[x] = "fork"
        PROVE  rd'[k] = 0 /\ wr'[k] = 0 /\ pc'[k] = "none"
    <3>1. rd[k] = 0 /\ wr[k] = 0 /\ pc[k] = "none" /\ k \in Tasks
          BY <1>2, <2>2, <2>7, Processes DEF Holds
    <3>2. Stands(x)
          BY DEF ServerInv, PlaceOK
    <3>3. t # x
      <4> SUFFICES ASSUME t = x PROVE FALSE
          OBVIOUS
      <4>1. Fork /\ x = Main
            BY <2>7 DEF Task, Serve, Worker, Lock, Accept, AcceptFails, ParentCloses,
                 Wait, NextEvent, LoopAccept, Recv, RecvFails, Reply, ReplyFails,
                 Close, CloseAgain, Exit
      <4>2. Main \notin Conns /\ table[Main][clientFd[Main]] = k
            BY <4>1, Processes DEF Serves, ProcOf
      <4> QED BY <1>1, <2>2, <2>7, <4>1, <4>2 DEF Fork, Goto
    <3>4. ASSUME pc'[k] # pc[k] PROVE FALSE
      <4>1. x = Main /\ program = "multiprocess"
            BY <2>7, <3>2 DEF Stands
      <4>2. k = t \/ Fork
            BY <3>1, <3>4, <4>1, Moves
      <4>3. ~Fork
        <5>1. Fork => pc'[Main] # "fork"
          <6>1. Main \notin Conns /\ table[Main][clientFd[Main]] = k
                BY <4>1, Processes DEF Serves, ProcOf
          <6> QED BY <1>1, <1>2, <2>2, <6>1 DEF Fork, Goto
        <5> QED BY <2>7, <4>1, <5>1
      <4>4. pc[t] = "none" /\ t \in Conns /\ t # Main /\ t \notin Workers
            BY <2>2, <3>1, <4>2, <4>3, Processes, BlockingAssumption
      <4> QED BY <4>4 DEF Task, Serve, Recv, RecvFails, Reply, ReplyFails,
                 Close, CloseAgain, Exit
    <3> QED BY <2>3, <2>4, <2>7, <3>1, <3>3, <3>4
  <2>8. /\ clientFd'[x] \in Fds /\ Serves(x)' = k /\ k # Free
        /\ x \in Conns => k = x
        BY <1>2, <1>5, <2>2 DEF Holds
  <2>9. pc[x] = "read" => wr'[k] = 0
        BY <1>2, <2>3 DEF Holds
  <2> HIDE DEF k
  <2> QED BY <1>3, <2>5, <2>6, <2>7, <2>8, <2>9 DEF Holds
<1> QED BY <1>4, <1>5

\* A task that goes somewhere has there what Holds says of it.
LEMMA HoldsThere ==
    ASSUME TypeOK, ServerInv, NEW t \in Tasks, Task(t),
           NEW x \in Tasks, pc'[x] # pc[x]
    PROVE  Holds(x)'
<1>1. /\ rd \in [Conns -> 0 .. Len] /\ wr \in [Conns -> 0 .. Len]
      /\ Len \in Nat /\ Len > 0
      /\ table \in [Procs -> [Fds -> Conns \cup {Free}]]
      /\ clientFd \in [Tasks -> Fds \cup {Listen}]
      /\ pc \in [Tasks -> {"none", "lock", "accept", "fork", "parent", "events",
                           "accepts", "read", "write", "close", "closeAgain",
                           "exit", "done"}]
      /\ program \in Programs
      /\ clientFds \subseteq Fds
      BY ConnAssumption DEF TypeOK, BlockingTypeOK, ConnTypeOK
<1>2. /\ Main \in Workers /\ Main \in Tasks /\ Main \notin Conns /\ Main \in Procs
      /\ ProcOf(x) \in Procs /\ Tasks = Workers \cup Conns /\ Tasks = Procs
      /\ ProcOf(t) \in Procs /\ ProcOf(Main) = Main
      /\ \A u \in Tasks : u \in Workers => u \notin Conns
      BY Processes, BlockingAssumption DEF ProcOf
<1>3. /\ Holds(x) /\ Holds(t) /\ Stands(x) /\ Stands(t)
      BY DEF ServerInv, DescOK, PlaceOK
<1>4. Stands(x)'
      BY PlaceStep DEF PlaceOK, Tasks
<1>5. CASE Accept(t) /\ t \in Workers
  <2> DEFINE p == ProcOf(t)
  <2>1. PICK k \in Backlog(t) :
           /\ Accepts(p, k)
           /\ clientFd' = [clientFd EXCEPT
                 ![IF program = "multithread" THEN k ELSE t] = LowestFd(p)]
           /\ pc' = [pc EXCEPT ![IF program = "multithread" THEN k ELSE t] =
                        IF program = "multiprocess" THEN "fork" ELSE "read"]
        BY <1>5 DEF Accept, Goto
  <2>2. /\ k \in Conns /\ k # Free /\ k \notin accepted
        /\ rd[k] = 0 /\ wr[k] = 0 /\ pc[k] = "none" /\ k # t
        BY <1>2, <1>5, ConnAssumption DEF Backlog, ServerInv, FreshOK
  <2>3. /\ x = IF program = "multithread" THEN k ELSE t
        /\ clientFd'[x] = LowestFd(p)
        /\ pc'[x] = IF program = "multiprocess" THEN "fork" ELSE "read"
        BY <1>1, <1>2, <2>1, <2>2
  <2>4. /\ program' = program /\ rd' = rd /\ wr' = wr /\ pc[t] = "accept"
        BY <1>5 DEF Accept, pieceVars
  <2>5. ProcOf(x)' = p
        BY <2>2, <2>3, <2>4, <1>2, <1>5 DEF ProcOf
  <2>6. LowestFd(p) \in Fds /\ table' = [table EXCEPT ![p][LowestFd(p)] = k]
        BY <2>1, Lowest DEF Accepts
  <2>7. Serves(x)' = k
    <3> HIDE DEF p
    <3>1. table'[p][LowestFd(p)] = k
          BY <1>1, <1>2, <2>6 DEF p
    <3> QED BY <2>3, <2>5, <3>1 DEF Serves
  <2>8. x \in Conns => k = x
        BY <1>2, <1>5, <2>3
  <2>9. program = "multiprocess" => x = t /\ pc'[k] = "none"
        BY <1>1, <2>1, <2>2, <2>3
  <2> HIDE DEF p
  <2> QED BY <1>1, <2>2, <2>3, <2>4, <2>6, <2>7, <2>8, <2>9 DEF Holds, Serving
<1>6. CASE Fork /\ t = Main
  <2> DEFINE k == Serves(Main)
  <2>1. Serving(Main) /\ pc[Main] = "fork" /\ k = table[Main][clientFd[Main]]
        BY <1>2, <1>6 DEF Fork, Serving, Serves
  <2>2. /\ program = "multiprocess" /\ pc[k] = "none" /\ k \in Conns /\ k # Free
        /\ rd[k] = 0 /\ wr[k] = 0 /\ clientFd[Main] \in Fds
        BY <1>2, <1>3, <1>6, <2>1, HasConnection, ConnAssumption
           DEF Stands, Holds, TypeOK, ServerInv
  <2>3. program' = program /\ rd' = rd /\ wr' = wr
        BY <1>6 DEF Fork, pieceVars
  <2> HIDE DEF k
  <2>4. CASE /\ table' = [table EXCEPT ![k] = table[Main]]
             /\ clientFd' = [clientFd EXCEPT ![k] = clientFd[Main]]
             /\ pc' = [pc EXCEPT ![Main] = "parent", ![k] = "read"]
    <3>1. x = k \/ x = Main
          BY <1>1, <1>2, <2>4
    <3>2. CASE x = k
      <4>1. /\ clientFd'[k] = clientFd[Main] /\ table'[k] = table[Main]
            /\ pc'[k] = "read"
            BY <1>1, <1>2, <2>2, <2>4
      <4>2. Serves(x)' = k
            BY <2>1, <2>2, <2>3, <3>2, <4>1 DEF Serves, ProcOf
      <4> QED BY <1>1, <2>2, <2>3, <3>2, <4>1, <4>2 DEF Holds, Serving
    <3>3. CASE x = Main
      <4>1. /\ clientFd'[Main] = clientFd[Main] /\ table'[Main] = table[Main]
            /\ pc'[Main] = "parent"
            BY <1>1, <1>2, <2>2, <2>4
      <4>2. Serves(x)' = k
            BY <1>2, <2>1, <2>2, <2>3, <3>3, <4>1 DEF Serves, ProcOf
      <4> QED BY <1>2, <2>2, <3>3, <4>1, <4>2 DEF Holds, Serving
    <3> QED BY <3>1, <3>2, <3>3
  <2>5. CASE pc' = [pc EXCEPT ![Main] = "accept"]
    <3>1. pc'[x] = "accept"
          BY <1>1, <1>2, <2>5
    <3> QED BY <3>1 DEF Holds, Serving
  <2> QED BY <1>6, <2>1, <2>4, <2>5 DEF Fork, Goto
<1>7. CASE NextEvent /\ t = Main
  <2>1. PICK e \in ready : /\ clientFd' = [clientFd EXCEPT ![Main] = e]
                           /\ pc' = [pc EXCEPT ![Main] = IF e = Listen THEN "accepts" ELSE "read"]
        BY <1>7 DEF NextEvent, Goto
  <2>2. x = Main /\ clientFd'[x] = e /\ pc'[x] = IF e = Listen THEN "accepts" ELSE "read"
        BY <1>1, <1>2, <2>1
  <2>3. /\ program' = program /\ rd' = rd /\ wr' = wr /\ table' = table
        /\ ~Serving(Main)
        BY <1>7 DEF NextEvent, connVars, pieceVars, Serving
  <2>4. CASE e = Listen
        BY <2>2, <2>4 DEF Holds, Serving
  <2>5. CASE e # Listen
    <3>1. e \in clientFds /\ Watched(e) /\ e \in Fds
          BY <1>1, <2>1, <2>5 DEF ServerInv, LoopOK
    <3>2. Serves(x)' = table[Main][e]
          BY <1>2, <2>2, <2>3 DEF Serves, ProcOf
    <3>3. pc'[x] = "read" /\ x \notin Conns
          BY <1>2, <2>2, <2>5
    <3> QED BY <1>1, <2>2, <2>3, <3>1, <3>2, <3>3 DEF Holds, Serving, Watched
  <2> QED BY <2>4, <2>5
<1>8. CASE Recv(t) \/ ReplyFails(t) \/ Reply(t) \/ RecvFails(t)
  <2>1. x = t /\ Serving(t)
        BY <1>8, Moves DEF Accept, Fork, Recv, ReplyFails, Reply, RecvFails, Serving
  <2>2. pc[t] \notin {"close", "parent"}
        BY <1>8 DEF Recv, ReplyFails, Reply, RecvFails
  <2>3. /\ clientFd'[t] = clientFd[t] /\ Serves(t)' = Serves(t)
        /\ Serves(t) \in Conns /\ Serves(t) # Free /\ clientFd[t] \in Fds
        /\ t \in Conns => Serves(t) = t
        BY <1>3, <2>1, <2>2, Stays, HasConnection, ConnAssumption
           DEF Holds, TypeOK, ServerInv
  <2>4. pc'[t] # "read" /\ pc'[t] # "fork"
        BY <1>1, <1>8, <2>1, Places DEF Recv, ReplyFails, Reply, RecvFails, Goto
  <2>5. ASSUME pc'[t] = "write" PROVE wr'[Serves(t)] < Len
    <3>1. Recv(t) /\ wr' = wr
          BY <1>1, <1>8, <2>1, <2>5, Places
             DEF Recv, ReplyFails, Reply, RecvFails, Goto
    <3> QED BY <1>1, <1>3, <3>1 DEF Recv, Holds
  <2> QED BY <2>1, <2>3, <2>4, <2>5 DEF Holds, Serving
<1>9. CASE Close(t)
  <2>1. x = t /\ clientFd'[t] = clientFd[t] /\ clientFd[t] \in Fds
        BY <1>3, <1>9, Moves DEF Accept, Fork, Close, Holds, Serving
  <2>2. ~Serving(t)'
        BY <1>1, <1>9, Places DEF Close, Goto, Serving
  <2> QED BY <2>1, <2>2 DEF Holds, Serving
<1>10. CASE \/ Lock(t) \/ AcceptFails(t) \/ (ParentCloses /\ t = Main)
            \/ (LoopAccept /\ t = Main) \/ (Wait /\ t = Main)
            \/ CloseAgain(t) \/ Exit(t)
  <2>1. pc'[x] \in {"lock", "accept", "events", "done"}
        BY <1>1, <1>10, Places DEF Lock, AcceptFails, ParentCloses, LoopAccept, Wait,
             CloseAgain, Exit, Goto
  <2> QED BY <2>1 DEF Holds, Serving
<1> QED BY <1>5, <1>6, <1>7, <1>8, <1>9, <1>10 DEF Task, Serve, Worker

\* No two tasks of a process serve the same descriptor: of two that do now, one
\* at least has done so before, and kept its descriptor.
LEMMA ApartStep ==
    ASSUME TypeOK, ServerInv, NEW t \in Tasks, Task(t)
    PROVE  Apart'
<1>1. /\ table \in [Procs -> [Fds -> Conns \cup {Free}]]
      /\ clientFd \in [Tasks -> Fds \cup {Listen}]
      /\ program \in Programs /\ program' = program
      BY DEF TypeOK, BlockingTypeOK, ConnTypeOK, Task, Serve, Worker,
             Lock, Accept, AcceptFails, Fork, ParentCloses, Wait, NextEvent,
             LoopAccept, Recv, RecvFails, Reply, ReplyFails, Close, CloseAgain, Exit
<1>2. /\ Main \in Workers /\ Main \in Tasks /\ Main \notin Conns
      /\ Tasks = Workers \cup Conns
      /\ \A u \in Tasks : ProcOf(u)' = ProcOf(u) /\ ProcOf(u) \in Procs
      BY <1>1, Processes DEF ProcOf
<1>4. ASSUME NEW u \in Tasks, Serving(u)'
      PROVE  \/ /\ Serving(u) /\ clientFd'[u] = clientFd[u]
                /\ Serves(u)' = Serves(u)
             \/ ~Serving(u) /\ pc'[u] # pc[u]
  <2>1. CASE Serving(u) /\ (u # t \/ pc[u] \notin {"close", "parent"})
        BY <2>1, Stays
  <2>2. CASE u = t /\ pc[u] \in {"close", "parent"}
    <3>1. Close(t) \/ (ParentCloses /\ t = Main)
          BY <2>2 DEF Task, Serve, Worker, Lock, Accept, AcceptFails, Fork, Wait,
                 NextEvent, LoopAccept, Recv, RecvFails, Reply, ReplyFails,
                 CloseAgain, Exit
    <3>2. pc \in [Tasks -> {"none", "lock", "accept", "fork", "parent", "events",
                           "accepts", "read", "write", "close", "closeAgain",
                           "exit", "done"}]
          BY DEF TypeOK, BlockingTypeOK
    <3>3. pc'[t] \notin {"fork", "parent", "read", "write", "close"}
          BY <1>1, <3>1, <3>2, Places DEF Close, ParentCloses, Goto
    <3> QED BY <1>4, <2>2, <3>3 DEF Serving
  <2>3. CASE ~Serving(u)
        BY <1>4, <2>3 DEF Serving
  <2> QED BY <2>1, <2>2, <2>3 DEF Serving
<1>5. ASSUME NEW u \in Tasks, NEW v \in Tasks, u # v, ProcOf(u) = ProcOf(v),
             Serving(u)', Serving(v)', ~Serving(u)
      PROVE  clientFd'[u] # clientFd'[v]
  <2>1. pc'[u] # pc[u] /\ Stands(u) /\ Stands(u)' /\ Stands(v)'
        BY <1>2, <1>5, PlaceStep DEF Serving, ServerInv, PlaceOK, Tasks
  <2>2. CASE Accept(t) /\ t \in Workers
    <3> DEFINE p == ProcOf(t)
               y(k) == IF program = "multithread" THEN k ELSE t
    <3>1. PICK k \in Backlog(t) :
             /\ Accepts(p, k)
             /\ clientFd' = [clientFd EXCEPT ![y(k)] = LowestFd(p)]
             /\ pc' = [pc EXCEPT ![y(k)] = IF program = "multiprocess" THEN "fork" ELSE "read"]
          BY <2>2 DEF Accept, Goto
    <3>2. LowestFd(p) \in Fds /\ table[p][LowestFd(p)] = Free
          BY <3>1, Lowest DEF Accepts
    <3>3. k \in Conns /\ y(k) \in Tasks
          BY <1>2, <3>1 DEF Backlog
    <3>4. u = y(k)
          BY <1>5, <2>1, <3>1 DEF TypeOK, BlockingTypeOK
    <3>5. Serving(v)
      <4>1. pc'[v] = pc[v]
            BY <1>5, <3>1, <3>3, <3>4 DEF TypeOK, BlockingTypeOK
      <4> QED BY <1>5, <4>1 DEF Serving
    <3>6. ProcOf(v) = p
          BY <1>2, <1>5, <2>2, <3>3, <3>4, BlockingAssumption DEF ProcOf
    <3>7. clientFd'[u] = LowestFd(p)
          BY <1>1, <3>1, <3>3, <3>4
    <3>8. clientFd'[v] = clientFd[v]
          BY <1>1, <1>5, <3>1, <3>3, <3>4
    <3>9. table[p][clientFd[v]] # Free
          BY <3>5, <3>6, HasConnection, ConnAssumption DEF TypeOK, ServerInv
    <3> HIDE DEF p, y
    <3> QED BY <3>2, <3>7, <3>8, <3>9
  <2>3. CASE NextEvent /\ t = Main
    <3>1. u = Main
          BY <2>1, <2>3, Moves DEF Accept, Fork, NextEvent
    <3>2. program \in EventLoops
          BY <2>1, <2>3, <3>1 DEF Stands, NextEvent
    <3>3. program \notin Pools /\ program \notin {"multiprocess", "multithread"}
          BY <3>2 DEF EventLoops, Pools, OwnSockets
    <3>4. v = Main
          BY <1>1, <1>2, <1>5, <2>1, <3>3 DEF Stands, Serving
    <3> QED BY <1>5, <3>1, <3>4
  <2>4. CASE Fork /\ t = Main
    <3>1. pc[Main] = "fork" /\ Serving(Main)
          BY <2>4 DEF Fork, Serving
    <3>2. u \in Conns /\ u # Main
      <4>1. u # Main
            BY <1>5, <3>1
      <4>2. u = Serves(Main)
            BY <2>1, <2>4, <4>1, Moves DEF Accept, Fork
      <4> QED BY <1>2, <3>1, <4>1, <4>2, HasConnection DEF TypeOK, ServerInv
    <3>3. program = "multiprocess"
          BY <1>2, <3>1 DEF ServerInv, PlaceOK, Stands
    <3> QED BY <1>2, <1>5, <3>2, <3>3 DEF ProcOf
  <2>5. CASE \/ Serve(t) \/ Lock(t) \/ AcceptFails(t)
            \/ ((ParentCloses \/ Wait \/ LoopAccept) /\ t = Main)
    <3>1. u = t
      <4>1. pc' = pc \/ \E y : pc' = [pc EXCEPT ![t] = y]
            BY <2>5 DEF Serve, Recv, RecvFails, Reply, ReplyFails, Close, CloseAgain,
               Exit, Lock, AcceptFails, ParentCloses, Wait, LoopAccept, Goto
      <4> QED BY <2>1, <4>1 DEF TypeOK, BlockingTypeOK
    <3>2. pc \in [Tasks -> {"none", "lock", "accept", "fork", "parent", "events",
                           "accepts", "read", "write", "close", "closeAgain",
                           "exit", "done"}]
          BY DEF TypeOK, BlockingTypeOK
    <3>3. pc'[t] \notin {"fork", "parent", "read", "write", "close"}
          BY <1>1, <1>5, <2>5, <3>1, <3>2, Places DEF Serving, Serve,
             Lock, AcceptFails, ParentCloses, Wait, LoopAccept, Recv,
             RecvFails, Reply, ReplyFails, Close, CloseAgain, Exit, Goto
    <3> QED BY <1>5, <3>1, <3>3 DEF Serving
  <2> QED BY <2>2, <2>3, <2>4, <2>5 DEF Task, Worker
<1>6. SUFFICES ASSUME NEW u \in Tasks, NEW v \in Tasks, u # v,
                      ProcOf(u) = ProcOf(v), Serving(u)', Serving(v)'
               PROVE  clientFd'[u] # clientFd'[v]
      BY <1>2 DEF Apart
<1>7. CASE Serving(u) /\ Serving(v)
      BY <1>4, <1>6, <1>7 DEF ServerInv, Apart
<1> QED BY <1>5, <1>6, <1>7

-----------------------------------------------------------------------------
(* LoopOK, NoDescriptorLost.                                               *)

\* An event loop has no task but Main.
LEMMA OnlyMain ==
    ASSUME TypeOK, ServerInv, NEW t \in Tasks, Task(t), program \in EventLoops
    PROVE  t = Main
<1>1. /\ Stands(t) /\ Tasks = Workers \cup Conns
      /\ \A u \in Workers : u \notin Conns
      BY Processes, BlockingAssumption DEF ServerInv, PlaceOK
<1>2. /\ program \notin Pools
      /\ program \notin {"multiprocess", "multithread"}
      BY DEF EventLoops, Pools, OwnSockets
<1>3. pc[t] # "none" \/ t = Main
      BY DEF Task, Serve, Worker, Lock, Accept, AcceptFails, Recv, RecvFails,
             Reply, ReplyFails, Close, CloseAgain, Exit
<1>4. t \in Conns => pc[t] \in {"lock", "accept", "fork", "parent", "events",
              "accepts", "read", "write", "close", "closeAgain", "exit", "done"}
      BY <1>3, Processes DEF TypeOK, BlockingTypeOK
<1> QED BY <1>1, <1>2, <1>3, <1>4, Processes DEF Stands

\* What an event loop watches is open, and untouched until it is served.
LEMMA LoopStep ==
    ASSUME TypeOK, ServerInv, NEW t \in Tasks, Task(t)
    PROVE  LoopOK'
<1>1. program' = program
      BY DEF Task, Serve, Worker,
             Lock, Accept, AcceptFails, Fork, ParentCloses, Wait, NextEvent,
             LoopAccept, Recv, RecvFails, Reply, ReplyFails, Close, CloseAgain, Exit
<1>2. LoopOK /\ Stands(t) /\ Stands(Main) /\ Main \in Tasks /\ ProcOf(Main) = Main
      BY Processes DEF ServerInv, PlaceOK, ProcOf
<1>3. CASE program \notin EventLoops
  <2>1. clientFds = {} /\ ready \subseteq {Listen}
        BY <1>2, <1>3 DEF LoopOK
  <2>2. ~NextEvent /\ ~LoopAccept /\ ~Wait
        BY <1>2, <1>3 DEF NextEvent, LoopAccept, Wait, Stands
  <2>3. clientFds' = {} /\ ready' = ready
        BY <2>1, <2>2 DEF Task, Serve, Worker, Lock, Accept, AcceptFails, Fork,
             ParentCloses, Recv, RecvFails, Reply, ReplyFails, Close, CloseAgain, Exit
  <2> QED BY <1>1, <1>3, <2>1, <2>3 DEF LoopOK
<1>4. CASE program \in EventLoops
  <2>1. t = Main
        BY <1>4, OnlyMain
  <2>2. /\ rd \in [Conns -> 0 .. Len] /\ wr \in [Conns -> 0 .. Len]
        /\ table \in [Procs -> [Fds -> Conns \cup {Free}]]
        /\ clientFd \in [Tasks -> Fds \cup {Listen}] /\ Listen \notin Fds
        /\ pc \in [Tasks -> {"none", "lock", "accept", "fork", "parent", "events",
                             "accepts", "read", "write", "close", "closeAgain",
                             "exit", "done"}]
        /\ clientFds \subseteq Fds
        /\ Main \in Procs
        BY Processes DEF TypeOK, BlockingTypeOK, ConnTypeOK, Fds, Listen
  <2>3. /\ ~(Lock(t) \/ Accept(t) \/ AcceptFails(t) \/ Fork \/ ParentCloses)
        /\ ~(CloseAgain(t) \/ Exit(t))
        BY <1>2, <1>4, <2>1 DEF Stands, Lock, Accept, AcceptFails, Fork, ParentCloses,
             CloseAgain, Exit, EventLoops
  <2>4. CASE Wait
    <3>1. ready' \subseteq clientFds \cup {Listen}
          BY <2>4 DEF Wait, WithEvent
    <3>2. ~Serving(Main) /\ ~Serving(Main)'
          BY <2>4 DEF Wait, Serving
    <3> QED BY <1>1, <1>2, <2>4, <3>1, <3>2 DEF Wait, LoopOK, Watched, connVars, pieceVars
  <2>5. CASE NextEvent
    <3>1. PICK e \in ready :
             /\ ready' = ready \ {e} /\ clientFd' = [clientFd EXCEPT ![Main] = e]
             /\ pc' = [pc EXCEPT ![Main] = IF e = Listen THEN "accepts" ELSE "read"]
          BY <2>5 DEF NextEvent, Goto
    <3>2. /\ clientFd'[Main] = e
          /\ pc'[Main] = IF e = Listen THEN "accepts" ELSE "read"
          BY <1>2, <2>2, <3>1
    <3>3. ~Serving(Main) /\ (Serving(Main)' => e # Listen)
          BY <2>5, <3>2 DEF NextEvent, Serving
    <3>4. clientFds' = clientFds /\ rd' = rd /\ wr' = wr /\ table' = table
          BY <2>5 DEF NextEvent, connVars, pieceVars
    <3> QED BY <1>1, <1>2, <3>1, <3>2, <3>3, <3>4 DEF LoopOK, Watched
  <2>6. CASE LoopAccept
    <3>1. ~Serving(Main) /\ ~Serving(Main)'
          BY <1>2, <2>2, <2>6 DEF LoopAccept, Serving, Goto
    <3>2. CASE UNCHANGED <<accepted, table, clientFds>>
          BY <1>1, <1>2, <2>6, <3>1, <3>2 DEF LoopAccept, LoopOK, Watched, pieceVars
    <3>3. ASSUME NEW k \in Backlog(Main), Accepts(Main, k),
                 clientFds' = clientFds \cup {LowestFd(Main)}
          PROVE  LoopOK'
      <4> DEFINE h == LowestFd(Main)
      <4>1. h \in Fds /\ table[Main][h] = Free /\ table' = [table EXCEPT ![Main][h] = k]
            BY <3>3, Lowest DEF Accepts
      <4>2. k \in Conns /\ k # Free /\ rd[k] = 0 /\ wr[k] = 0
            BY ConnAssumption DEF Backlog, ServerInv, FreshOK
      <4>3. rd' = rd /\ wr' = wr /\ ready' = ready
            BY <2>6 DEF LoopAccept, pieceVars
      <4>4. clientFds' = clientFds \cup {h}
            BY <3>3
      <4> HIDE DEF h
      <4>5. \A f \in Fds : table'[Main][f] = IF f = h THEN k ELSE table[Main][f]
            BY <2>2, <4>1
      <4>6. ASSUME NEW f \in clientFds' PROVE Watched(f)'
        <5>1. f \in Fds
              BY <2>2, <4>1, <4>4
        <5>2. CASE f = h
              BY <4>2, <4>3, <4>5, <5>1, <5>2 DEF Watched
        <5>3. CASE f # h
          <6>1. Watched(f)
                BY <1>2, <4>4, <5>3 DEF LoopOK
          <6> QED BY <3>1, <4>3, <4>5, <5>1, <5>3, <6>1 DEF Watched
        <5> QED BY <5>2, <5>3
      <4> QED BY <1>1, <1>2, <1>4, <3>1, <4>3, <4>4, <4>6 DEF LoopOK
    <3> QED BY <2>6, <3>2, <3>3 DEF LoopAccept
  <2>7. CASE Recv(t) \/ Reply(t) \/ RecvFails(t) \/ ReplyFails(t)
    <3>1. Serving(Main) /\ Serving(Main)'
          BY <1>2, <1>4, <2>1, <2>2, <2>7
             DEF Recv, Reply, RecvFails, ReplyFails, Goto, Serving
    <3>2. /\ clientFds' = clientFds /\ ready' = ready /\ table' = table
          /\ clientFd' = clientFd
          BY <2>7 DEF Recv, Reply, RecvFails, ReplyFails, connVars
    <3>3. /\ clientFd[Main] \in Fds /\ Serves(Main) \in Conns /\ Serves(Main) # Free
          /\ Serves(Main) = table[Main][clientFd[Main]]
          BY <1>2, <3>1, HasConnection, ConnAssumption DEF TypeOK, ServerInv
    <3>4. ASSUME NEW f \in clientFds PROVE Watched(f)'
      <4>1. Watched(f) /\ f \in Fds
            BY <1>2, <2>2 DEF LoopOK
      <4>2. CASE f = clientFd[Main]
            BY <3>1, <3>2, <4>1, <4>2 DEF Watched
      <4>3. CASE f # clientFd[Main]
        <5> DEFINE k == table[Main][f]
        <5>1. k \in Conns /\ k # Serves(Main)
          <6>1. k # Free /\ k \in Conns
                BY <2>2, <4>1 DEF Watched
          <6>2. \A g \in Fds : table[Main][f] = table[Main][g] => f = g
                BY <2>2, <4>1, <6>1 DEF ServerInv, OneName
          <6> QED BY <3>3, <4>3, <6>1, <6>2
        <5>2. rd[k] = 0 /\ wr[k] = 0
              BY <4>1, <4>3 DEF Watched
        <5>3. rd'[k] = 0 /\ wr'[k] = 0
          <6> HIDE DEF k
          <6> QED BY <2>1, <2>2, <5>1, <5>2, PieceSteps
        <5> QED BY <3>2, <4>1, <5>3 DEF Watched
      <4> QED BY <4>2, <4>3
    <3> QED BY <1>1, <1>2, <1>4, <3>1, <3>2, <3>4 DEF LoopOK
  <2>8. CASE Close(t)
    <3>1. Serving(Main) /\ ~Serving(Main)'
          BY <1>2, <2>1, <2>2, <2>8, Places DEF Close, Goto, Serving, TypeOK, BlockingTypeOK
    <3>2. /\ clientFds' = clientFds \ {clientFd[Main]} /\ ready' = ready
          /\ rd' = rd /\ wr' = wr
          /\ table' = [table EXCEPT ![Main][clientFd[Main]] = Free]
          BY <1>2, <2>1, <2>8 DEF Close, close, pieceVars
    <3>3. ASSUME NEW f \in clientFds' PROVE Watched(f)'
      <4>1. f \in clientFds /\ f \in Fds /\ f # clientFd[Main] /\ Watched(f)
            BY <1>2, <2>2, <3>2 DEF LoopOK
      <4>2. table'[Main][f] = table[Main][f]
            BY <2>2, <3>2, <4>1
      <4> QED BY <3>2, <4>1, <4>2 DEF Watched
    <3>4. clientFd[Main] \notin ready
          BY <1>2, <1>4, <3>1 DEF LoopOK
    <3> QED BY <1>1, <1>2, <1>4, <3>1, <3>2, <3>3, <3>4 DEF LoopOK
  <2> QED BY <2>3, <2>4, <2>5, <2>6, <2>7, <2>8 DEF Task, Serve, Worker
<1> QED BY <1>3, <1>4

\* Who will close a descriptor still will, or it is left open for good.
LEMMA StillClosed ==
    ASSUME TypeOK, ServerInv, NEW t \in Tasks, Task(t),
           NEW p \in Procs, NEW f \in Fds, table'[p][f] # Free,
           table'[p][f] = table[p][f]
    PROVE  (WillClose(p, f) \/ LeftOpen(p, table[p][f]))'
<1>1. /\ rd \in [Conns -> 0 .. Len] /\ program \in Programs /\ program' = program
      /\ table \in [Procs -> [Fds -> Conns \cup {Free}]]
      /\ clientFd \in [Tasks -> Fds \cup {Listen}]
      /\ pc \in [Tasks -> {"none", "lock", "accept", "fork", "parent", "events",
                           "accepts", "read", "write", "close", "closeAgain",
                           "exit", "done"}]
      BY DEF TypeOK, BlockingTypeOK, ConnTypeOK, Task, Serve, Worker,
             Lock, Accept, AcceptFails, Fork, ParentCloses, Wait, NextEvent,
             LoopAccept, Recv, RecvFails, Reply, ReplyFails, Close, CloseAgain, Exit
<1>2. /\ Main \in Workers /\ Main \in Tasks /\ Main \in Procs /\ Main \notin Conns
      /\ Tasks = Workers \cup Conns /\ Tasks = Procs /\ ProcOf(Main) = Main
      /\ \A u \in Workers : u \notin Conns
      /\ \A u \in Tasks : ProcOf(u)' = ProcOf(u) /\ ProcOf(u) \in Procs
      BY <1>1, Processes, BlockingAssumption DEF ProcOf
<1> DEFINE k == table[p][f]
           Goal == (WillClose(p, f) \/ LeftOpen(p, table[p][f]))'
<1>3. k \in Conns /\ k # Free
      BY <1>1
<1>4. WillClose(p, f) \/ LeftOpen(p, k)
      BY <1>3 DEF ServerInv, NoDescriptorLost
\* A task that serves the descriptor now.
<1>5. ASSUME NEW u \in Tasks, ProcOf(u) = p, clientFd'[u] = f,
             Serving(u)' \/ pc'[u] = "closeAgain"
      PROVE  Goal
      BY <1>2, <1>5 DEF WillClose
<1>6. ASSUME NEW u \in Tasks, ProcOf(u) = p, clientFd[u] = f, Serving(u)
      PROVE  Goal
  <2>1. u # t \/ pc[u] \notin {"close", "parent"}
    <3> SUFFICES ASSUME u = t, pc[t] \in {"close", "parent"} PROVE FALSE
        OBVIOUS
    <3>1. Close(t) \/ (ParentCloses /\ t = Main)
          BY DEF Task, Serve, Worker, Lock, Accept, AcceptFails, Fork, Wait,
                 NextEvent, LoopAccept, Recv, RecvFails, Reply, ReplyFails,
                 CloseAgain, Exit
    <3>2. table' = [table EXCEPT ![p][f] = Free]
          BY <1>2, <1>6, <3>1 DEF Close, ParentCloses, close
    <3> QED BY <1>1, <3>2
  <2>2. clientFd'[u] = f
        BY <1>6, <2>1, Stays
  <2>3. CASE Serving(u)' \/ pc'[u] = "closeAgain"
        BY <1>5, <1>6, <2>2, <2>3
  <2>4. CASE ~(Serving(u)' \/ pc'[u] = "closeAgain")
    <3>1. u = t /\ pc'[t] # pc[t]
      <4>1. pc'[u] # pc[u]
            BY <1>6, <2>4 DEF Serving
      <4> QED BY <1>6, <2>4, <4>1, Moves DEF Serving
    <3>2. CASE RecvFails(t)
      <4>1. pc[t] = "read" /\ program \notin EventLoops /\ pc'[t] = Served(t) /\ rd' = rd
            BY <1>1, <2>4, <3>1, <3>2 DEF RecvFails, Goto, Serving, connVars, pieceVars
      <4>2. Stands(t) /\ Holds(t)
            BY DEF ServerInv, PlaceOK, DescOK
      <4>3. rd[k] < Len
            BY <1>6, <3>1, <4>1, <4>2 DEF Holds, Serves
      <4>4. CASE program = "multiprocess"
        <5>1. t \in Conns /\ p = t
              BY <1>6, <3>1, <4>1, <4>2, <4>4 DEF Stands, ProcOf
        <5>2. pc'[t] = "exit"
              BY <1>1, <4>1, <4>4, Places
        <5> QED BY <1>1, <4>4, <5>1, <5>2 DEF WillClose
      <4>5. CASE program # "multiprocess"
        <5>1. pc'[t] # "closeAgain"
              BY <2>4, <3>1
        <5>2. program \notin {"singleprocess", "processpool1", "processpool2"}
              BY <1>1, <4>1, <5>1, Places
        <5>3. program \in Threads
              BY <1>1, <4>1, <4>5, <5>2 DEF Programs, Pools, OwnSockets, Threads, EventLoops
        <5> QED BY <1>1, <4>1, <4>3, <5>3 DEF LeftOpen
      <4> QED BY <4>4, <4>5
    <3>3. CASE Fork /\ t = Main
      <4>1. pc[Main] = "fork" /\ table[Main][clientFd[Main]] = k /\ p = Main
            BY <1>2, <1>6, <3>1, <3>3 DEF Fork
      <4>2. pc' = [pc EXCEPT ![Main] = "accept"]
            BY <1>1, <1>2, <1>3, <2>4, <3>1, <3>3, <4>1 DEF Fork, Goto, Serving
      <4>3. Holds(Main) /\ Stands(Main) /\ Serves(Main) = k
            BY <1>2, <4>1 DEF ServerInv, DescOK, PlaceOK, Serves
      <4>4. pc'[k] = "none" /\ program = "multiprocess"
            BY <1>1, <1>2, <1>3, <4>1, <4>2, <4>3 DEF Holds, Stands
      <4> QED BY <1>1, <4>1, <4>4 DEF LeftOpen
    <3>4. CASE Recv(t) \/ Reply(t) \/ ReplyFails(t)
      <4>1. Serving(t)'
            BY <1>1, <1>6, <3>1, <3>4 DEF Recv, Reply, ReplyFails, Goto, Serving
      <4> QED BY <2>4, <3>1, <4>1
    <3>5. pc[t] \in {"fork", "read", "write"}
          BY <1>6, <2>1, <3>1 DEF Serving
    <3> QED BY <3>2, <3>3, <3>4, <3>5 DEF Task, Serve, Worker, Lock, Accept, AcceptFails,
              ParentCloses, Wait, NextEvent, LoopAccept, Close, CloseAgain, Exit
  <2> QED BY <2>3, <2>4
<1>7. ASSUME NEW u \in Tasks, ProcOf(u) = p, clientFd[u] = f, pc[u] = "closeAgain"
      PROVE  Goal
  <2>1. clientFd'[u] = f
        BY <1>7, ClosesAgain
  <2>2. pc'[u] = "closeAgain"
    <3> SUFFICES ASSUME pc'[u] # pc[u] PROVE FALSE
        BY <1>7
    <3>1. u = t
          BY <1>7, Moves
    <3>2. CloseAgain(t)
          BY <1>7, <3>1 DEF Task, Serve, Worker, Lock, Accept, AcceptFails, Fork, Wait,
                 NextEvent, LoopAccept, Recv, RecvFails, Reply, ReplyFails, ParentCloses,
                 Close, Exit
    <3>3. table' = [table EXCEPT ![p][f] = Free]
          BY <1>7, <3>1, <3>2 DEF CloseAgain, close
    <3> QED BY <1>1, <3>3
  <2> QED BY <1>5, <1>7, <2>1, <2>2
<1>8. ASSUME program = "multiprocess", p \in Conns, pc[p] \notin {"none", "done"}
      PROVE  Goal
  <2>1. pc'[p] # "none"
    <3>1. p \in Tasks /\ pc'[p] # pc[p] => p = t
          BY <1>2, <1>8, Moves
    <3>2. CASE p = t
          BY <1>1, <1>2, <1>8, <3>2, Places DEF Task, Serve, Recv, RecvFails, Reply,
             ReplyFails, Close, CloseAgain, Exit, Goto
    <3> QED BY <1>2, <1>8, <3>1, <3>2
  <2>2. pc'[p] # "done"
    <3> SUFFICES ASSUME pc'[p] = "done" PROVE FALSE
        OBVIOUS
    <3>1. p = t
          BY <1>2, <1>8, Moves
    <3>2. Exit(t)
          BY <1>1, <1>2, <1>8, <3>1, Places DEF Task, Serve, Recv, RecvFails, Reply,
             ReplyFails, Close, CloseAgain, Goto, EventLoops
    <3> QED BY <1>1, <3>1, <3>2 DEF Exit
  <2> QED BY <1>1, <1>8, <2>1, <2>2 DEF WillClose
<1>9. ASSUME p = Main, f \in clientFds PROVE Goal
  <2>1. f \in clientFds'
    <3>1. CASE Close(t)
      <4>1. t = Main
            BY <1>9, OnlyMain DEF ServerInv, LoopOK
      <4>2. table' = [table EXCEPT ![Main][clientFd[Main]] = Free]
            BY <1>2, <3>1, <4>1 DEF Close, close
      <4>3. f # clientFd[Main]
            BY <1>1, <1>2, <1>9, <4>2
      <4> QED BY <1>9, <3>1, <4>1, <4>3 DEF Close
    <3>2. CASE ~Close(t)
          BY <1>9, <3>2 DEF Task, Serve, Worker, Lock, Accept, AcceptFails, Fork, Wait,
                 NextEvent, LoopAccept, Recv, RecvFails, Reply, ReplyFails, ParentCloses,
                 CloseAgain, Exit
    <3> QED BY <3>1, <3>2
  <2> QED BY <1>9, <2>1 DEF WillClose
<1>10. ASSUME program \in Threads, rd[k] < Len PROVE Goal
  <2>1. CASE rd'[k] = rd[k]
        BY <1>1, <1>10, <2>1 DEF LeftOpen
  <2>2. CASE rd'[k] # rd[k]
    <3>1. Recv(t) /\ rd' = [rd EXCEPT ![Serves(t)] = @ + 1]
          BY <2>2, PieceSteps
    <3>2. Serving(t) /\ Serves(t) \in Conns /\ clientFd[t] \in Fds
          /\ Serves(t) = table[ProcOf(t)][clientFd[t]]
          BY <3>1, HasConnection DEF Recv, Serving, TypeOK, ServerInv
    <3>3. Serves(t) = k
          BY <1>1, <1>3, <2>2, <3>1, <3>2
    <3>4. program # "multiprocess"
          BY <1>10 DEF Threads
    <3>5. p = ProcOf(t) /\ f = clientFd[t]
      <4>1. \A q \in Procs : \A g \in Fds : table[q][g] = k => p = q /\ f = g
            BY <1>3, <3>4 DEF ServerInv, OneName
      <4> QED BY <1>2, <3>2, <3>3, <4>1
    <3> QED BY <1>6, <3>2, <3>5
  <2> QED BY <2>1, <2>2
<1>11. ASSUME program = "multiprocess", p = Main, pc[k] = "none" PROVE Goal
  <2>1. CASE pc'[k] = "none"
        BY <1>1, <1>11, <2>1 DEF LeftOpen
  <2>2. CASE pc'[k] # "none"
    <3>1. k \in Tasks /\ k # Main
          BY <1>2, <1>3
    <3>2. k # t
      <4> SUFFICES ASSUME k = t PROVE FALSE
          OBVIOUS
      <4>1. t \notin Workers
            BY <1>2, <1>3
      <4> QED BY <1>11, <4>1 DEF Task, Serve, Recv, RecvFails, Reply, ReplyFails, Close,
                 CloseAgain, Exit
    <3>3. Fork /\ t = Main /\ k = Serves(Main)
          BY <1>11, <2>2, <3>1, <3>2, Moves
    <3>4. Serving(Main) /\ clientFd[Main] \in Fds
          BY <1>2, <3>3 DEF Fork, Serving, ServerInv, DescOK, Holds
    <3>5. table[Main][clientFd[Main]] = k
          BY <1>2, <3>3 DEF Serves
    <3>6. f = clientFd[Main]
      <4>1. \A g \in Fds : table[Main][g] = k => f = g
            BY <1>2, <1>3, <1>11 DEF ServerInv, OneName
      <4> QED BY <3>4, <3>5, <4>1
    <3> QED BY <1>2, <1>6, <1>11, <3>4, <3>6
  <2> QED BY <2>1, <2>2
<1> HIDE DEF Goal
<1>12. Goal
       BY <1>4, <1>6, <1>7, <1>8, <1>9, <1>10, <1>11 DEF WillClose, LeftOpen
<1> QED BY <1>12 DEF Goal

\* A descriptor that is new has somebody who will close it.
LEMMA NoLossStep ==
    ASSUME TypeOK, ServerInv, NEW t \in Tasks, Task(t)
    PROVE  NoDescriptorLost'
<1>1. /\ program' = program
      /\ table \in [Procs -> [Fds -> Conns \cup {Free}]]
      /\ clientFd \in [Tasks -> Fds \cup {Listen}]
      /\ pc \in [Tasks -> {"none", "lock", "accept", "fork", "parent", "events",
                           "accepts", "read", "write", "close", "closeAgain",
                           "exit", "done"}]
      BY DEF TypeOK, BlockingTypeOK, ConnTypeOK, Task, Serve, Worker,
             Lock, Accept, AcceptFails, Fork, ParentCloses, Wait, NextEvent,
             LoopAccept, Recv, RecvFails, Reply, ReplyFails, Close, CloseAgain, Exit
<1>2. /\ Main \in Workers /\ Main \in Tasks /\ Main \in Procs /\ Main \notin Conns
      /\ Tasks = Workers \cup Conns /\ Tasks = Procs /\ ProcOf(Main) = Main
      /\ \A u \in Workers : u \notin Conns
      /\ \A u \in Tasks : ProcOf(u)' = ProcOf(u) /\ ProcOf(u) \in Procs
      BY <1>1, Processes, BlockingAssumption DEF ProcOf
<1> SUFFICES ASSUME NEW p \in Procs, NEW f \in Fds, table'[p][f] # Free
             PROVE  (WillClose(p, f) \/ LeftOpen(p, table[p][f]))'
    BY DEF NoDescriptorLost
<1>3. CASE table'[p][f] = table[p][f]
      BY <1>3, StillClosed
<1>4. CASE table'[p][f] # table[p][f]
  <2>1. CASE Accept(t) /\ t \in Workers
    <3> DEFINE q == ProcOf(t)
    <3>1. PICK k \in Backlog(t), y \in Tasks :
             /\ Accepts(q, k)
             /\ y = IF program = "multithread" THEN k ELSE t
             /\ clientFd' = [clientFd EXCEPT ![y] = LowestFd(q)]
             /\ pc' = [pc EXCEPT ![y] = IF program = "multiprocess" THEN "fork" ELSE "read"]
          BY <1>2, <2>1 DEF Accept, Goto, Backlog
    <3>2. k \in Conns /\ y \in Tasks
          BY <1>2, <3>1 DEF Backlog
    <3>3. /\ LowestFd(q) \in Fds /\ table' = [table EXCEPT ![q][LowestFd(q)] = k]
          BY <3>1, Lowest DEF Accepts
    <3>4. p = q /\ f = LowestFd(q)
          BY <1>1, <1>2, <1>4, <3>3
    <3>5. ProcOf(y) = q
          BY <1>2, <2>1, <3>1, <3>2 DEF ProcOf
    <3>6. clientFd'[y] = f /\ Serving(y)'
      <4>1. pc'[y] \in {"fork", "read"} /\ clientFd'[y] = f
            BY <1>1, <3>1, <3>2, <3>4
      <4> QED BY <4>1 DEF Serving
    <3> HIDE DEF q
    <3> QED BY <1>2, <3>2, <3>4, <3>5, <3>6 DEF WillClose
  <2>2. CASE LoopAccept /\ t = Main
    <3>1. PICK k \in Backlog(Main) : Accepts(Main, k) /\ clientFds' = clientFds \cup {LowestFd(Main)}
          BY <1>4, <2>2 DEF LoopAccept
    <3>2. p = Main /\ f = LowestFd(Main)
      <4>1. LowestFd(Main) \in Fds /\ table' = [table EXCEPT ![Main][LowestFd(Main)] = k]
            BY <3>1, Lowest DEF Accepts
      <4> QED BY <1>1, <1>2, <1>4, <4>1
    <3> QED BY <3>1, <3>2 DEF WillClose
  <2>3. CASE Fork /\ t = Main
    <3> DEFINE k == table[Main][clientFd[Main]]
    <3>1. Serving(Main) /\ pc[Main] = "fork"
          BY <2>3 DEF Fork, Serving
    <3>2. k \in Conns /\ program = "multiprocess"
          BY <1>2, <3>1, HasConnection DEF TypeOK, ServerInv, PlaceOK, Stands
    <3>3. /\ table' = [table EXCEPT ![k] = table[Main]]
          /\ pc' = [pc EXCEPT ![Main] = "parent", ![k] = "read"]
          BY <1>4, <2>3 DEF Fork
    <3> HIDE DEF k
    <3>4. p = k /\ pc'[k] = "read"
          BY <1>1, <1>2, <1>4, <3>2, <3>3
    <3> QED BY <1>1, <3>2, <3>4 DEF WillClose
  <2>4. CASE Close(t) \/ CloseAgain(t) \/ (ParentCloses /\ t = Main)
    <3>1. table' = [table EXCEPT ![ProcOf(t)][clientFd[t]] = Free]
          BY <1>2, <2>4 DEF Close, CloseAgain, ParentCloses, close
    <3> QED BY <1>1, <1>4, <3>1
  <2>5. CASE Exit(t)
        BY <1>1, <1>4, <2>5 DEF Exit
  <2>6. CASE ~(\/ (Accept(t) /\ t \in Workers) \/ (LoopAccept /\ t = Main)
               \/ (Fork /\ t = Main) \/ Close(t) \/ CloseAgain(t)
               \/ (ParentCloses /\ t = Main) \/ Exit(t))
        BY <1>4, <2>6 DEF Task, Serve, Worker, Lock, AcceptFails, Wait, NextEvent,
              Recv, RecvFails, Reply, ReplyFails, connVars
  <2> QED BY <2>1, <2>2, <2>3, <2>4, <2>5, <2>6
<1> QED BY <1>3, <1>4

-----------------------------------------------------------------------------
(* TypeOK.                                                                 *)

\* The server keeps its variables in their sets: no piece is read before it was
\* sent, and none after the last.
LEMMA ServerTypes ==
    ASSUME TypeOK, ServerInv, NEW t \in Tasks, Task(t)
    PROVE  BlockingTypeOK'
<1>1. /\ BlockingTypeOK /\ ConnTypeOK
      /\ Main \in Workers /\ Main \in Tasks /\ Main \in Procs
      /\ Tasks = Workers \cup Conns /\ Tasks = Procs /\ ProcOf(t) \in Procs
      BY Processes DEF TypeOK, BlockingTypeOK
<1>2. /\ rd \in [Conns -> 0 .. Len] /\ wr \in [Conns -> 0 .. Len] /\ Len \in Nat
      /\ sent \in [Conns -> 0 .. Len] /\ got \in [Conns -> 0 .. Len]
      BY <1>1, ConnAssumption DEF ConnTypeOK
<1>3. /\ buf' \in Bufs /\ client' \in [Conns -> {"new", "refused", "open", "fin", "reset"}]
      /\ sent' = sent /\ got' = got
      /\ program' \in Programs /\ port' \in [Conns -> Workers]
      BY <1>1 DEF ConnTypeOK, BlockingTypeOK, Task, Serve, Worker, connVars, pieceVars,
             Lock, Accept, AcceptFails, Fork, ParentCloses, Wait, NextEvent,
             LoopAccept, Recv, RecvFails, Reply, ReplyFails, Close, CloseAgain, Exit
<1>4. /\ rd' \in [Conns -> 0 .. Len] /\ wr' \in [Conns -> 0 .. Len]
      /\ \A k \in Conns : rd'[k] <= sent'[k] /\ got'[k] <= wr'[k]
  <2>1. \A k \in Conns : rd[k] <= sent[k] /\ got[k] <= wr[k]
        BY <1>1 DEF ConnTypeOK
  <2>2. CASE UNCHANGED <<rd, wr>>
        BY <1>2, <1>3, <2>1, <2>2
  <2>3. CASE Recv(t) /\ wr' = wr /\ rd' = [rd EXCEPT ![Serves(t)] = @ + 1]
    <3>1. Serves(t) \in Conns /\ rd[Serves(t)] < sent[Serves(t)]
          BY <2>3, HasConnection DEF Recv, ReadPiece, Serves, Serving, TypeOK, ServerInv
    <3> QED BY <1>2, <1>3, <2>1, <2>3, <3>1
  <2>4. CASE Reply(t) /\ rd' = rd /\ wr' = [wr EXCEPT ![Serves(t)] = @ + 1]
    <3>1. Serves(t) \in Conns /\ wr[Serves(t)] < Len
          BY <2>4, HasConnection DEF Reply, Serving, TypeOK, ServerInv, DescOK, Holds
    <3> QED BY <1>2, <1>3, <2>1, <2>4, <3>1
  <2> QED BY <2>2, <2>3, <2>4, PieceSteps
<1>5. accepted' \subseteq Conns /\ table' \in [Procs -> [Fds -> Conns \cup {Free}]]
  <2>1. accepted \subseteq Conns /\ table \in [Procs -> [Fds -> Conns \cup {Free}]]
        BY <1>1 DEF ConnTypeOK
  <2>2. ASSUME NEW p \in Procs, NEW k \in Conns \ accepted, Accepts(p, k)
        PROVE  /\ accepted' \subseteq Conns
               /\ table' \in [Procs -> [Fds -> Conns \cup {Free}]]
        BY <2>1, <2>2, Lowest DEF Accepts
  <2>3. ASSUME NEW p \in Procs, NEW f \in Fds, close(p, f)
        PROVE  table' \in [Procs -> [Fds -> Conns \cup {Free}]]
        BY <2>1, <2>3 DEF close
  <2>4. ASSUME NEW k \in Conns, table' = [table EXCEPT ![k] = table[Main]]
        PROVE  table' \in [Procs -> [Fds -> Conns \cup {Free}]]
        BY <1>1, <2>1, <2>4
  <2>5. ASSUME NEW p \in Procs, table' = [table EXCEPT ![p] = [f \in Fds |-> Free]]
        PROVE  table' \in [Procs -> [Fds -> Conns \cup {Free}]]
        BY <2>1, <2>5
  <2> QED BY <2>1, <2>2, <2>3, <2>4, <2>5, TableSteps
<1>6. pc' \in [Tasks -> {"none", "lock", "accept", "fork", "parent", "events",
                         "accepts", "read", "write", "close", "closeAgain",
                         "exit", "done"}]
  <2> DEFINE PcValues == {"none", "lock", "accept", "fork", "parent", "events",
                         "accepts", "read", "write", "close", "closeAgain",
                         "exit", "done"}
  <2>1. pc \in [Tasks -> PcValues] /\ program \in Programs
        BY <1>1 DEF BlockingTypeOK
  <2>2. \/ pc' = pc
        \/ \E y, x \in PcValues : \E u, v : pc' = [pc EXCEPT ![u] = x, ![v] = y]
        \/ \E x \in PcValues : \E u : pc' = [pc EXCEPT ![u] = x]
    <3>1. CASE Accept(t)
          BY <3>1 DEF Accept, Goto
    <3>2. CASE NextEvent
          BY <3>2 DEF NextEvent, Goto
    <3>3. CASE Fork
      <4>1. \/ pc' = [pc EXCEPT ![Main] = "parent", ![table[Main][clientFd[Main]]] = "read"]
            \/ pc' = [pc EXCEPT ![Main] = "accept"]
            BY <3>3 DEF Fork, Goto
      <4> QED BY <4>1
    <3>4. CASE \/ Lock(t) \/ AcceptFails(t) \/ ParentCloses \/ Wait \/ LoopAccept
               \/ Serve(t)
      <4>1. pc' = pc \/ \E x \in PcValues : \E u : pc' = [pc EXCEPT ![u] = x]
            BY <2>1, <3>4, Places DEF Lock, AcceptFails, ParentCloses, Wait, LoopAccept,
               Serve, Recv, RecvFails, Reply, ReplyFails, Close, CloseAgain, Exit, Goto
      <4> QED BY <4>1
    <3> QED BY <3>1, <3>2, <3>3, <3>4 DEF Task, Worker
  <2> HIDE DEF PcValues
  <2>3. pc' \in [Tasks -> PcValues]
        BY <2>1, <2>2
  <2> QED BY <2>3 DEF PcValues
<1>7. clientFd' \in [Tasks -> Fds \cup {Listen}]
  <2>1. clientFd \in [Tasks -> Fds \cup {Listen}] /\ ready \subseteq Fds \cup {Listen}
        BY <1>1 DEF BlockingTypeOK
  <2>2. CASE Accept(t)
    <3>1. PICK u : clientFd' = [clientFd EXCEPT ![u] = LowestFd(ProcOf(t))]
          BY <2>2 DEF Accept
    <3>2. LowestFd(ProcOf(t)) \in Fds
          BY <2>2, Lowest DEF Accept, Accepts
    <3> QED BY <2>1, <3>1, <3>2
  <2>3. CASE Fork
    <3>1. clientFd' = clientFd \/ \E u : clientFd' = [clientFd EXCEPT ![u] = clientFd[Main]]
          BY <2>3 DEF Fork
    <3> QED BY <1>1, <2>1, <3>1
  <2>4. CASE NextEvent
        BY <2>1, <2>4 DEF NextEvent
  <2>5. CASE \/ Lock(t) \/ AcceptFails(t) \/ ParentCloses \/ Wait \/ LoopAccept
             \/ Serve(t)
        BY <2>1, <2>5 DEF Lock, AcceptFails, ParentCloses, Wait, LoopAccept,
               Serve, Recv, RecvFails, Reply, ReplyFails, Close, CloseAgain, Exit
  <2> QED BY <2>2, <2>3, <2>4, <2>5 DEF Task, Worker
<1>8. Mutex' \in Workers \cup {NoOne}
  <2>1. Mutex \in Workers \cup {NoOne}
        BY <1>1 DEF BlockingTypeOK
  <2>2. Mutex' = Mutex \/ Mutex' = NoOne \/ (Mutex' = t /\ t \in Workers)
        BY DEF Task, Serve, Worker, Unlock,
             Lock, Accept, AcceptFails, Fork, ParentCloses, Wait, NextEvent,
             LoopAccept, Recv, RecvFails, Reply, ReplyFails, Close, CloseAgain, Exit
  <2> QED BY <2>1, <2>2
<1>9. clientFds' \subseteq Fds
  <2>1. clientFds \subseteq Fds
        BY <1>1 DEF BlockingTypeOK
  <2>2. ASSUME LoopAccept PROVE clientFds' \subseteq Fds
    <3>1. \/ clientFds' = clientFds
          \/ FreeFds(Main) # {} /\ clientFds' = clientFds \cup {LowestFd(Main)}
          BY <2>2 DEF LoopAccept
    <3> QED BY <2>1, <3>1, Lowest
  <2>3. ~LoopAccept => clientFds' \subseteq clientFds
        BY DEF Task, Serve, Worker,
             Lock, Accept, AcceptFails, Fork, ParentCloses, Wait, NextEvent,
             Recv, RecvFails, Reply, ReplyFails, Close, CloseAgain, Exit
  <2> QED BY <2>1, <2>2, <2>3
<1>10. ready' \subseteq Fds \cup {Listen}
       BY <1>9, LoopStep DEF LoopOK
<1>11. ConnTypeOK'
       BY <1>2, <1>3, <1>4, <1>5 DEF ConnTypeOK, Fds
<1> QED BY <1>3, <1>6, <1>7, <1>8, <1>9, <1>10, <1>11 DEF BlockingTypeOK, Tasks, Fds

-----------------------------------------------------------------------------
\* All parts together, for a step of the server.
LEMMA ServerStep ==
    ASSUME TypeOK, ServerInv, NEW t \in Tasks, Task(t)
    PROVE  BlockingTypeOK' /\ ServerInv'
<1>1. DescOK'
  <2>1. Tasks' = Tasks
        BY DEF Tasks
  <2> QED BY <2>1, HoldsOn, HoldsThere DEF DescOK
<1> QED BY <1>1, ServerTypes, PlaceStep, ApartStep, TableStep, FreshStep, LoopStep,
           NoLossStep DEF ServerInv

\* What a client does is no concern of the tasks and their descriptors.
LEMMA ServerRests ==
    ASSUME ServerInv, UNCHANGED <<taskVars, rd, wr, accepted, table>>
    PROVE  ServerInv'
<1>1. \A t : Stands(t)' = Stands(t) /\ Serving(t)' = Serving(t)
             /\ Serves(t)' = Serves(t) /\ ProcOf(t)' = ProcOf(t)
      BY DEF Stands, Serving, Serves, ProcOf, taskVars
<1>2. PlaceOK' /\ DescOK'
      BY <1>1 DEF ServerInv, PlaceOK, DescOK, Holds, taskVars, Tasks
<1>3. Apart'
      BY <1>1 DEF ServerInv, Apart, taskVars
<1>4. OneName' /\ OnlyAccepted' /\ FreshOK'
      BY DEF ServerInv, OneName, OnlyAccepted, FreshOK, taskVars
<1>5. LoopOK'
      BY <1>1 DEF ServerInv, LoopOK, Watched, taskVars
<1>6. NoDescriptorLost'
  <2>1. \A p, f : WillClose(p, f)' = WillClose(p, f)
        BY <1>1 DEF WillClose, taskVars
  <2>2. \A p, k : LeftOpen(p, k)' = LeftOpen(p, k)
        BY DEF LeftOpen, taskVars
  <2> QED BY <2>1, <2>2 DEF ServerInv, NoDescriptorLost
<1> QED BY <1>2, <1>3, <1>4, <1>5, <1>6 DEF ServerInv

-----------------------------------------------------------------------------
(* The clients.                                                            *)

\* A client's step changes the type of nothing, and no variable of the server.
LEMMA ClientTypes ==
    ASSUME BlockingTypeOK, UNCHANGED taskVars, NEW k \in Conns,
           \/ Connect(k) \/ Send(k) \/ Take(k)
           \/ \E how \in {"fin", "reset"} : Leave(k, how)
           \/ Becomes(k, "refused") /\ UNCHANGED <<buf, pieceVars, accepted, table>>
    PROVE  BlockingTypeOK' /\ UNCHANGED <<rd, wr, accepted, table>>
<1>1. /\ buf \in Bufs
      /\ client \in [Conns -> {"new", "refused", "open", "fin", "reset"}]
      /\ sent \in [Conns -> 0 .. Len] /\ rd \in [Conns -> 0 .. Len]
      /\ wr \in [Conns -> 0 .. Len] /\ got \in [Conns -> 0 .. Len]
      /\ \A j \in Conns : rd[j] <= sent[j] /\ got[j] <= wr[j]
      /\ accepted \subseteq Conns /\ Len \in Nat
      /\ table \in [Procs -> [Fds -> Conns \cup {Free}]]
      BY ConnAssumption DEF BlockingTypeOK, ConnTypeOK
<1>2. UNCHANGED <<rd, wr, accepted, table, buf>>
      BY DEF Connect, Send, Take, Leave, pieceVars
<1>3. client' \in [Conns -> {"new", "refused", "open", "fin", "reset"}]
      BY <1>1 DEF Connect, Send, Take, Leave, Becomes
<1>4. /\ sent' \in [Conns -> 0 .. Len] /\ got' \in [Conns -> 0 .. Len]
      /\ \A j \in Conns : rd[j] <= sent'[j] /\ got'[j] <= wr[j]
  <2>1. CASE Send(k)
        BY <1>1, <2>1 DEF Send
  <2>2. CASE Take(k)
        BY <1>1, <2>2 DEF Take
  <2>3. CASE UNCHANGED <<sent, got>>
        BY <1>1, <2>3
  <2> QED BY <2>1, <2>2, <2>3 DEF Connect, Leave, pieceVars
<1>5. ConnTypeOK'
      BY <1>1, <1>2, <1>3, <1>4 DEF ConnTypeOK, Fds
<1> QED BY <1>2, <1>5 DEF BlockingTypeOK, taskVars, Tasks, Fds

\* The benchmark's own connections are finitely many.
LEMMA Counted ==
    ASSUME NEW S, S \subseteq 1 .. concurrency
    PROVE  /\ IsFiniteSet(S) /\ Cardinality(S) \in Nat
           /\ Cardinality(S) <= concurrency
           /\ S = 1 .. concurrency => Cardinality(S) = concurrency
<1>1. concurrency \in Nat /\ concurrency > 0
      BY BenchmarkAssumption
<1>2. IsFiniteSet(1 .. concurrency) /\ Cardinality(1 .. concurrency) = concurrency
      BY <1>1, FS_Interval
<1>3. IsFiniteSet(S) /\ Cardinality(S) <= concurrency
      BY <1>2, FS_Subset
<1>4. Cardinality(S) \in Nat
      BY <1>3, FS_CardinalityType
<1> QED BY <1>2, <1>3, <1>4

LEMMA EndedCounted ==
    /\ IsFiniteSet(Ended) /\ Cardinality(Ended) \in Nat
    /\ Cardinality(Ended) <= concurrency
    /\ Ended = 1 .. concurrency => Cardinality(Ended) = concurrency
<1>1. Ended \subseteq 1 .. concurrency
      BY DEF Ended
<1> QED BY <1>1, Counted

\* A connection that the benchmark gives up, or has ended, is one more.
LEMMA OneMore ==
    ASSUME BlockingTypeOK, i \in 1 .. concurrency, NEW how \in {"refused", "reset"},
           client[i] \notin {"refused", "reset"}, Becomes(i, how)
    PROVE  Cardinality(Ended') = Cardinality(Ended) + 1
<1>1. Ended' = Ended \cup {i} /\ i \notin Ended
  <2>1. /\ client \in [Conns -> {"new", "refused", "open", "fin", "reset"}]
        /\ i \in Conns /\ 1 .. concurrency \subseteq Conns
        BY BenchmarkAssumption DEF BlockingTypeOK, ConnTypeOK
  <2>2. \A k \in Conns : client'[k] = IF k = i THEN how ELSE client[k]
        BY <2>1 DEF Becomes
  <2> QED BY <2>1, <2>2 DEF Ended
<1> DEFINE S == Ended
<1>2. IsFiniteSet(S) /\ i \notin S
      BY <1>1, EndedCounted
<1> HIDE DEF S
<1>3. Cardinality(S \cup {i}) = Cardinality(S) + 1
      BY <1>2, FS_AddElement
<1> QED BY <1>1, <1>3 DEF S

\* The index goes on, or the next loop begins.
LEMMA Indices ==
    ASSUME TypeOK, NextIndex, phase # "done"
    PROVE  /\ i' \in 1 .. concurrency
           /\ \/ i < concurrency /\ i' = i + 1 /\ phase' = phase
              \/ /\ i = concurrency /\ i' = 1
                 /\ phase' = IF phase = "connect" THEN "send"
                             ELSE IF phase = "send" THEN "recv" ELSE "done"
BY BenchmarkAssumption DEF TypeOK, NextIndex, Following

\* A step of the benchmark.
LEMMA BenchStep ==
    ASSUME TypeOK, BenchOK, Bench
    PROVE  /\ BlockingTypeOK' /\ UNCHANGED <<taskVars, rd, wr, accepted, table>>
           /\ phase' \in {"connect", "send", "recv", "done"}
           /\ i' \in 1 .. concurrency
           /\ BenchOK'
<1>1. /\ BlockingTypeOK /\ i \in Conns /\ i \in 1 .. concurrency
      /\ concurrency \in Nat /\ i \in Nat
      /\ client \in [Conns -> {"new", "refused", "open", "fin", "reset"}]
      /\ 1 .. concurrency \subseteq Conns
      /\ phase \in {"connect", "send", "recv", "done"}
      BY BenchmarkAssumption DEF TypeOK, BlockingTypeOK, ConnTypeOK
<1>2. /\ success \in Nat /\ failure \in Nat
      /\ success + failure = Cardinality(Ended) /\ Cardinality(Ended) \in Nat
      /\ phase = "connect" => \A k \in 1 .. concurrency : k >= i => client[k] = "new"
      /\ \A k \in 1 .. concurrency :
            /\ client[k] # "fin"
            /\ phase # "connect" \/ k < i => client[k] # "new"
            /\ phase = "recv" /\ k < i => client[k] # "open"
            /\ phase = "done" => client[k] # "open"
      BY EndedCounted DEF BenchOK
<1>3. UNCHANGED taskVars
      BY DEF Bench
<1>4. CASE getConnection
  <2>1. phase = "connect" /\ NextIndex /\ client[i] = "new"
        BY <1>1, <1>2, <1>4 DEF getConnection
  <2>2. BlockingTypeOK' /\ UNCHANGED <<rd, wr, accepted, table>>
        BY <1>1, <1>3, <1>4, ClientTypes DEF getConnection
  <2>3. PICK how \in {"open", "refused"} :
           /\ Becomes(i, how) /\ success' = success
           /\ failure' = IF how = "open" THEN failure ELSE failure + 1
        BY <1>4 DEF getConnection, Connect
  <2>4. \A k \in 1 .. concurrency : client'[k] = IF k = i THEN how ELSE client[k]
        BY <1>1, <2>3 DEF Becomes
  <2>5. success' + failure' = Cardinality(Ended')
    <3>1. CASE how = "open"
      <4>1. Ended' = Ended
            BY <1>1, <2>1, <2>4, <3>1 DEF Ended
      <4> QED BY <1>2, <2>3, <3>1, <4>1
    <3>2. CASE how = "refused"
          BY <1>1, <1>2, <2>1, <2>3, <3>2, OneMore
    <3> QED BY <3>1, <3>2
  <2>6. BenchOK'
        BY <1>1, <1>2, <2>1, <2>3, <2>4, <2>5, Indices DEF BenchOK
  <2> QED BY <1>1, <1>3, <2>1, <2>2, <2>6, Indices
<1>5. CASE Skip
  <2>1. phase \in {"send", "recv"} /\ NextIndex /\ client[i] # "open"
        /\ UNCHANGED <<connVars, success, failure>>
        BY <1>5 DEF Skip
  <2>2. BlockingTypeOK' /\ UNCHANGED <<rd, wr, accepted, table, client>> /\ Ended' = Ended
        BY <1>1, <1>3, <2>1 DEF connVars, pieceVars, taskVars, BlockingTypeOK,
              ConnTypeOK, Ended
  <2>3. BenchOK'
        BY <1>1, <1>2, <2>1, <2>2, Indices DEF BenchOK
  <2> QED BY <1>1, <1>3, <2>1, <2>2, <2>3, Indices
<1>6. CASE SendSome
  <2>1. phase = "send" /\ Send(i) /\ UNCHANGED <<success, failure, client>>
        BY <1>6 DEF SendSome, Send
  <2>2. BlockingTypeOK' /\ UNCHANGED <<rd, wr, accepted, table>> /\ Ended' = Ended
        BY <1>1, <1>3, <2>1, ClientTypes DEF Ended
  <2>3. CASE NextIndex
    <3>1. BenchOK'
          BY <1>1, <1>2, <2>1, <2>2, <2>3, Indices DEF BenchOK
    <3> QED BY <1>1, <1>3, <2>1, <2>2, <2>3, <3>1, Indices
  <2>4. CASE UNCHANGED <<phase, i>>
    <3>1. BenchOK'
          BY <1>1, <1>2, <2>1, <2>2, <2>4 DEF BenchOK
    <3> QED BY <1>1, <1>3, <2>1, <2>2, <2>4, <3>1
  <2> QED BY <1>6, <2>3, <2>4 DEF SendSome
<1>7. CASE RecvSome
  <2>1. Take(i) /\ UNCHANGED <<benchVars, client>>
        BY <1>7 DEF RecvSome, Take
  <2>2. BlockingTypeOK' /\ UNCHANGED <<rd, wr, accepted, table>> /\ Ended' = Ended
        BY <1>1, <1>3, <2>1, ClientTypes DEF Ended
  <2>3. BenchOK'
        BY <1>1, <1>2, <2>1, <2>2 DEF BenchOK, benchVars
  <2> QED BY <1>1, <1>3, <2>1, <2>2, <2>3 DEF benchVars
<1>8. CASE failureDeal \/ Succeed
  <2>1. /\ phase \in {"send", "recv"} /\ NextIndex /\ client[i] = "open"
        /\ Leave(i, "reset") /\ Becomes(i, "reset")
        BY <1>8 DEF failureDeal, Succeed, Leave
  <2>2. \/ failure' = failure + 1 /\ success' = success
        \/ success' = success + 1 /\ failure' = failure
        BY <1>8 DEF failureDeal, Succeed
  <2>3. BlockingTypeOK' /\ UNCHANGED <<rd, wr, accepted, table>>
        BY <1>1, <1>3, <2>1, ClientTypes
  <2>4. \A k \in 1 .. concurrency : client'[k] = IF k = i THEN "reset" ELSE client[k]
        BY <1>1, <2>1 DEF Becomes
  <2>5. Cardinality(Ended') = Cardinality(Ended) + 1
        BY <1>1, <2>1, OneMore
  <2>6. BenchOK'
        BY <1>1, <1>2, <2>1, <2>2, <2>4, <2>5, Indices DEF BenchOK
  <2> QED BY <1>1, <1>3, <2>1, <2>3, <2>6, Indices
<1> QED BY <1>4, <1>5, <1>6, <1>7, <1>8 DEF Bench

\* A step of another client does not reach the benchmark's connections.
LEMMA OtherStep ==
    ASSUME TypeOK, BenchOK, OtherClient
    PROVE  /\ BlockingTypeOK' /\ UNCHANGED <<taskVars, benchVars, rd, wr, accepted, table>>
           /\ BenchOK'
<1>1. PICK k \in Others : \/ Connect(k) \/ Send(k) \/ Take(k)
                          \/ \E how \in {"fin", "reset"} : Leave(k, how)
      BY DEF OtherClient
<1>2. UNCHANGED <<taskVars, benchVars>>
      BY DEF OtherClient
<1>3. k \in Conns /\ k \notin 1 .. concurrency /\ BlockingTypeOK
      BY BenchmarkAssumption DEF TypeOK
<1>4. BlockingTypeOK' /\ UNCHANGED <<rd, wr, accepted, table>>
      BY <1>1, <1>2, <1>3, ClientTypes
<1>5. \A j \in 1 .. concurrency : client'[j] = client[j]
  <2>1. /\ client \in [Conns -> {"new", "refused", "open", "fin", "reset"}]
        /\ 1 .. concurrency \subseteq Conns
        BY <1>3, BenchmarkAssumption DEF BlockingTypeOK, ConnTypeOK
  <2>2. client' = client \/ \E how : client' = [client EXCEPT ![k] = how]
        BY <1>1 DEF Connect, Send, Take, Leave, Becomes
  <2> QED BY <1>3, <2>1, <2>2
<1>6. Ended' = Ended
      BY <1>5 DEF Ended
<1>7. BenchOK'
      BY <1>2, <1>5, <1>6 DEF BenchOK, benchVars
<1> QED BY <1>2, <1>4, <1>7

-----------------------------------------------------------------------------
(* The theorems.                                                           *)

LEMMA Initially == Init => BInv
<1> SUFFICES ASSUME Init PROVE BInv
    OBVIOUS
<1> USE DEF Init, BlockingInit, ConnInit
<1>1. /\ Main \in Workers /\ Main \in Tasks /\ Main \notin Conns
      /\ Tasks = Workers \cup Conns /\ Tasks = Procs /\ program \in Programs
      /\ \A w \in Workers : w \notin Conns
  <2>1. PICK w : w \in Workers
        BY BlockingAssumption
  <2> QED BY <2>1, Processes, BlockingAssumption DEF Tasks
<1>2. \A t \in Tasks :
         /\ pc[t] = IF t = Main \/ (t \in Workers /\ program \in Pools)
                    THEN NextAccept ELSE "none"
         /\ ~Serving(t) /\ pc[t] \in {"none", "lock", "accept", "events"}
      BY <1>1, Places DEF Serving
<1>3. BlockingTypeOK
  <2>1. ConnTypeOK
        BY ConnAssumption DEF ConnTypeOK
  <2>2. pc \in [Tasks -> {"none", "lock", "accept", "fork", "parent", "events",
                          "accepts", "read", "write", "close", "closeAgain",
                          "exit", "done"}]
        BY <1>1, Places
  <2> QED BY <2>1, <2>2 DEF BlockingTypeOK
<1>4. TypeOK
      BY <1>3, BenchmarkAssumption DEF TypeOK
<1>5. PlaceOK
  <2> SUFFICES ASSUME NEW t \in Tasks PROVE Stands(t)
      BY DEF PlaceOK
  <2>1. /\ NextAccept \in {"lock", "accept", "events"}
        /\ NextAccept = "events" <=> program \in EventLoops
        /\ NextAccept = "lock" <=> program = "leaderandfollower"
        BY <1>1, Places
  <2>2. "leaderandfollower" \notin EventLoops
        BY DEF EventLoops
  <2>3. pc[t] = NextAccept \/ pc[t] = "none"
        BY <1>2
  <2>4. pc[t] = NextAccept => t \in Workers /\ (t = Main \/ program \in Pools)
        BY <1>1, <1>2, <2>1
  <2>5. pc[t] = "events" => t = Main
        BY <1>1, <2>1, <2>3, <2>4 DEF EventLoops, Pools, OwnSockets
  <2> HIDE DEF Init, BlockingInit, ConnInit
  <2> QED BY <1>2, <2>1, <2>3, <2>4, <2>5 DEF Stands
<1>6. DescOK /\ Apart
      BY <1>2 DEF DescOK, Holds, Apart, Serving
<1>7. \A p \in Procs : \A f \in Fds : table[p][f] = Free
      OBVIOUS
<1>8. OneName /\ OnlyAccepted /\ NoDescriptorLost
      BY <1>7 DEF OneName, OnlyAccepted, NoDescriptorLost
<1>9. FreshOK
  <2>1. \A k \in Conns : k \in Tasks /\ k # Main /\ k \notin Workers
        BY <1>1
  <2> QED BY <1>2, <2>1 DEF FreshOK
<1>10. LoopOK
       BY <1>1, <1>2 DEF LoopOK
<1>11. BenchOK
  <2>1. 1 .. concurrency \subseteq Conns /\ concurrency \in Nat
        BY BenchmarkAssumption
  <2>2. Ended = {}
        BY <2>1 DEF Ended
  <2>3. Cardinality(Ended) = 0
        BY <2>2, FS_EmptySet
  <2> QED BY <2>1, <2>3 DEF BenchOK
<1> QED BY <1>4, <1>5, <1>6, <1>8, <1>9, <1>10, <1>11 DEF BInv, ServerInv

\* The inductive invariant holds in every reachable state.
THEOREM Invariance == Spec => []BInv
<1>1. BInv /\ [Next]_vars => BInv'
  <2> SUFFICES ASSUME BInv, [Next]_vars PROVE BInv'
      OBVIOUS
  <2> USE DEF BInv
  <2>1. CASE \E t \in Tasks : Task(t) /\ UNCHANGED benchVars
    <3>1. PICK t \in Tasks : Task(t) /\ UNCHANGED benchVars
          BY <2>1
    <3>2. BlockingTypeOK' /\ ServerInv'
          BY <3>1, ServerStep
    <3>3. UNCHANGED <<phase, i, success, failure>>
          BY <3>1 DEF benchVars
    <3>4. client' = client
          BY <3>1 DEF Task, Serve, Worker, connVars,
             Lock, Accept, AcceptFails, Fork, ParentCloses, Wait, NextEvent,
             LoopAccept, Recv, RecvFails, Reply, ReplyFails, Close, CloseAgain, Exit
    <3>5. Ended' = Ended
          BY <3>4 DEF Ended
    <3>6. BenchOK'
          BY <3>3, <3>4, <3>5 DEF BenchOK
    <3> QED BY <3>2, <3>3, <3>6 DEF TypeOK
  <2>2. CASE Bench
    <3>1. BenchOK' /\ BlockingTypeOK' /\ ServerInv'
          BY <2>2, BenchStep, ServerRests
    <3>2. success' \in 0 .. concurrency /\ failure' \in 0 .. concurrency
      <4>1. Cardinality(Ended)' <= concurrency /\ Cardinality(Ended)' \in Nat
        <5>1. Ended' \subseteq 1 .. concurrency
              BY DEF Ended
        <5> QED BY <5>1, Counted
      <4> QED BY <3>1, <4>1, BenchmarkAssumption DEF BenchOK
    <3> QED BY <2>2, <3>1, <3>2, BenchStep DEF TypeOK
  <2>3. CASE OtherClient
    <3>1. BenchOK' /\ BlockingTypeOK' /\ ServerInv' /\ UNCHANGED benchVars
          BY <2>3, OtherStep, ServerRests
    <3> QED BY <3>1 DEF TypeOK, benchVars
  <2>4. CASE UNCHANGED vars
    <3>1. BlockingTypeOK'
          BY <2>4 DEF TypeOK, BlockingTypeOK, ConnTypeOK, vars, connVars, pieceVars, taskVars
    <3>2. ServerInv'
          BY <2>4, ServerRests DEF vars, connVars, pieceVars
    <3>3. BenchOK' /\ UNCHANGED <<phase, i, success, failure>>
          BY <2>4 DEF vars, connVars, benchVars, BenchOK, Ended
    <3> QED BY <3>1, <3>2, <3>3 DEF TypeOK
  <2> QED BY <2>1, <2>2, <2>3, <2>4 DEF Next
<1> QED BY <1>1, Initially, PTL DEF Spec

\* The variables of the blocking servers and of the benchmark keep to their
\* sets: a server never reads more than was sent to it, nor writes past the end
\* of a response, and the benchmark never counts more than its connections.
THEOREM TypeCorrect == Spec => []TypeOK
BY Invariance, PTL DEF BInv

\* A descriptor that a task reads, writes or closes stands for a connection and
\* is no other task's, although numbers are given again as soon as they are free.
THEOREM DescriptorsAreOwn == Spec => []OwnDescriptor
<1>1. BInv => OwnDescriptor
  <2> SUFFICES ASSUME BInv, NEW t \in Tasks,
                      Serving(t) \/ pc[t] = "closeAgain",
                      NEW u \in Tasks \ {t}, ProcOf(u) = ProcOf(t), Serving(u)
               PROVE  clientFd[u] # clientFd[t]
      BY DEF OwnDescriptor, BInv, ServerInv, DescOK, Holds
  <2>1. CASE Serving(t)
        BY <2>1 DEF BInv, ServerInv, Apart
  <2>2. CASE pc[t] = "closeAgain"
    <3>1. Stands(t) /\ Stands(u) /\ Main \notin Conns /\ Tasks = Workers \cup Conns
          BY Processes DEF BInv, ServerInv, PlaceOK
    <3>2. program \in {"singleprocess", "processpool1", "processpool2"} /\ t \in Workers
          BY <2>2, <3>1 DEF Stands
    <3>3. CASE program = "singleprocess"
          BY <2>2, <3>1, <3>3 DEF Stands, Serving, Pools, OwnSockets
    <3>4. CASE program # "singleprocess"
          BY <3>2, <3>4 DEF ProcOf
    <3> QED BY <3>3, <3>4
  <2> QED BY <2>1, <2>2
<1> QED BY <1>1, Invariance, PTL

\* A descriptor that is open has somebody who will close it, but for those the
\* threads and a failed fork leave open.
THEOREM DescriptorsAreClosed == Spec => []NoDescriptorLost
<1>1. BInv => NoDescriptorLost
      BY DEF BInv, ServerInv
<1> QED BY <1>1, Invariance, PTL

\* When the benchmark is done it has counted each of its connections once, as a
\* success or as a failure: what BenchmarkEnds says of its end.
THEOREM CountedOnce == Spec => [](phase = "done" => success + failure = concurrency)
<1>1. BInv => (phase = "done" => success + failure = concurrency)
  <2> SUFFICES ASSUME BInv, phase = "done" PROVE success + failure = concurrency
      OBVIOUS
  <2>1. /\ client \in [Conns -> {"new", "refused", "open", "fin", "reset"}]
        /\ 1 .. concurrency \subseteq Conns
        BY BenchmarkAssumption DEF BInv, TypeOK, BlockingTypeOK, ConnTypeOK
  <2>2. \A k \in 1 .. concurrency : client[k] \notin {"new", "fin", "open"}
        BY DEF BInv, BenchOK
  <2>3. Ended = 1 .. concurrency
        BY <2>1, <2>2 DEF Ended
  <2> QED BY <2>3, EndedCounted DEF BInv, BenchOK
<1> QED BY <1>1, Invariance, PTL

=============================================================================
