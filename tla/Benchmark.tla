----------------------------- MODULE Benchmark -----------------------------
(***************************************************************************)
(* src/test/benchmark.cpp against a blocking server: a thread of the       *)
(* benchmark opens all its connections, sends all its requests, and then   *)
(* reads all responses, each with blocking calls.  Beside it there are     *)
(* other clients, that may stop in the middle, shut down or go away.       *)
(***************************************************************************)
EXTENDS Blocking

CONSTANTS
    concurrency,    \* connections of the thread
    MaxRefused,     \* of them, those for which connect may fail: the first
    Others          \* connections of other clients

ASSUME BenchmarkAssumption ==
    /\ concurrency \in Nat \ {0} /\ MaxRefused \in Nat
    /\ IsFiniteSet(Others) /\ Others \cap 1 .. concurrency = {}
    /\ Conns = 1 .. concurrency \cup Others

VARIABLES
    phase,          \* "connect", "send", "recv" or "done": the loop client is in
    i,              \* its index
    success, failure

benchVars == <<phase, i, success, failure>>
vars == <<connVars, taskVars, benchVars>>

Init ==
    /\ BlockingInit
    /\ phase = "connect"
    /\ i = 1
    /\ success = 0
    /\ failure = 0

-----------------------------------------------------------------------------
(* The thread client of the benchmark.                                     *)

Following == [connect |-> "send", send |-> "recv", recv |-> "done"]

NextIndex ==
    IF i < concurrency THEN i' = i + 1 /\ UNCHANGED phase
    ELSE i' = 1 /\ phase' = Following[phase]

getConnection ==
    /\ phase = "connect"
    /\ \/ Connect(i) /\ UNCHANGED failure
       \/ /\ i <= MaxRefused
          /\ Becomes(i, "refused")
          /\ failure' = failure + 1
          /\ UNCHANGED <<buf, pieceVars, accepted, table>>
    /\ NextIndex
    /\ UNCHANGED success

\* sockFd[i] is 0: the connection was given up.
Skip ==
    /\ phase \in {"send", "recv"}
    /\ client[i] # "open"
    /\ NextIndex
    /\ UNCHANGED <<connVars, success, failure>>

SendSome ==
    /\ phase = "send"
    /\ Send(i)
    /\ IF sent[i] + 1 = Len THEN NextIndex ELSE UNCHANGED <<phase, i>>
    /\ UNCHANGED <<success, failure>>

RecvSome ==
    /\ phase = "recv"
    /\ got[i] < Len
    /\ Take(i)
    /\ UNCHANGED benchVars

\* SendMsg or RecvMsg has failed: the server has closed the connection.
failureDeal ==
    /\ \/ phase = "send"
       \/ phase = "recv" /\ got[i] = wr[i] /\ got[i] < Len
    /\ client[i] = "open" /\ ServerClosed(i)
    /\ Leave(i, "reset")
    /\ failure' = failure + 1
    /\ NextIndex
    /\ UNCHANGED success

\* The response is complete; close resets the connection (SO_LINGER).
Succeed ==
    /\ phase = "recv"
    /\ client[i] = "open" /\ got[i] = Len
    /\ Leave(i, "reset")
    /\ success' = success + 1
    /\ NextIndex
    /\ UNCHANGED failure

Bench ==
    /\ getConnection \/ Skip \/ SendSome \/ RecvSome \/ failureDeal \/ Succeed
    /\ UNCHANGED taskVars

-----------------------------------------------------------------------------
\* To the server a client that shuts down within its request is no other than
\* one that resets.
OtherClient ==
    /\ \E k \in Others : \/ Connect(k) \/ Send(k) \/ Take(k)
                         \/ sent[k] = Len /\ Leave(k, "fin")
                         \/ Leave(k, "reset")
    /\ UNCHANGED <<taskVars, benchVars>>

Next ==
    \/ \E t \in Tasks : Task(t) /\ UNCHANGED benchVars
    \/ Bench
    \/ OtherClient

Spec == Init /\ [][Next]_vars

\* Every task of the server and the benchmark keep running.  Nothing is assumed
\* of the other clients.
Fairness ==
    /\ \A t \in Tasks : WF_vars(Task(t) /\ UNCHANGED benchVars)
    /\ WF_vars(Bench)

FairSpec == Spec /\ Fairness

-----------------------------------------------------------------------------
\* The values of connections, tasks and the benchmark; a piece is read after it
\* was sent.
TypeOK ==
    /\ BlockingTypeOK
    /\ phase \in {"connect", "send", "recv", "done"}
    /\ i \in 1 .. concurrency
    /\ success \in 0 .. concurrency /\ failure \in 0 .. concurrency

\* Another client that stays and keeps its server waiting: for the rest of its
\* request, or for room for the response.
Stalls(k) ==
    \/ client[k] = "open" /\ sent[k] < Len
    \/ client[k] \in {"open", "fin"} /\ sent[k] = Len /\ got[k] + buf < Len

\* Workers a connection can wait for: where each has a socket of its own, the
\* one the kernel has chosen.
Lanes == IF program \in Pools \ OwnSockets THEN Cardinality(Workers) ELSE 1

Spare == Lanes - Cardinality({k \in Others : Stalls(k)})

\* What may keep the benchmark waiting for ever: a fork that fails; descriptors
\* that are used up, by clients that stay or by those that were left open; and,
\* where connections wait for a worker, clients that stall and keep the workers
\* busy, or messages that do not fit the buffers: the server goes on when the
\* first response is read, and the benchmark when the server reads the next
\* request.  No worker of src/epoll waits for ever, its sockets have a timeout.
Stuck ==
    \/ /\ program = "multiprocess"
       /\ \E k \in accepted \ Others : pc[k] = "none" /\ pc[Main] # "fork"
    \/ FreeFds(Main) = {}
    \/ /\ program \notin {"multiprocess", "multithread", "epoll"}
       /\ Spare <= 0 \/ (buf < Len /\ Spare < concurrency)

\* The benchmark ends, and has counted each of its connections once, unless it
\* is stuck for one of these reasons.
BenchmarkEnds ==
    \/ <>(phase = "done" /\ success + failure = concurrency)
    \/ <>[]Stuck
=============================================================================
