----------------------------- MODULE EpollConn -----------------------------
(***************************************************************************)
(* Connections of the reactors: EchoServer::Conn of src/epoll_common with  *)
(* the helpers of epollctl.hpp, the clients at the other end, and what     *)
(* epoll knows of a connection.  The modules of the servers extend this    *)
(* one: they say which thread takes which of these steps.                  *)
(*                                                                         *)
(* A request is ReqLen pieces long and a response RespLen; a piece is what *)
(* one read or write moves.  A step below is one system call on the        *)
(* connection k.                                                           *)
(***************************************************************************)
EXTENDS Integers, Sequences, FiniteSets

CONSTANTS
    Conns,      \* the connections clients may open, each of them once
    ReqLen,     \* pieces of a request
    RespLen,    \* pieces of a response
    SendBuf     \* pieces the socket takes before write answers EAGAIN

ASSUME ConnAssumption ==
    ReqLen \in Nat \ {0} /\ RespLen \in Nat \ {0} /\ SendBuf \in Nat \ {0}

VARIABLES
    client,     \* "new", "open", "fin" (has shut down writing) or "reset"
    sentReq,    \* pieces of the request that have arrived at the server
    got,        \* pieces of the response the client has taken
    life,       \* "none", "backlog" (not accepted), "open", or "deleted": the
                \* descriptor is closed and the Conn deleted
    interest,   \* "none", "in", "in1" (one-shot), "off" (a one-shot interest
                \* that has fired) or "out"
    rd,         \* pieces the decoder has
    encoded,    \* pkt_ holds the response
    wr          \* send_len_

clientVars == <<client, sentReq, got>>
connVars   == <<life, interest, rd, encoded, wr>>

ConnTypeOK ==
    /\ client \in [Conns -> {"new", "open", "fin", "reset"}]
    /\ sentReq \in [Conns -> 0 .. ReqLen] /\ rd \in [Conns -> 0 .. ReqLen]
    /\ got \in [Conns -> 0 .. RespLen] /\ wr \in [Conns -> 0 .. RespLen]
    /\ life \in [Conns -> {"none", "backlog", "open", "deleted"}]
    /\ interest \in [Conns -> {"none", "in", "in1", "off", "out"}]
    /\ encoded \in [Conns -> BOOLEAN]

ConnInit ==
    /\ client = [k \in Conns |-> "new"]
    /\ sentReq = [k \in Conns |-> 0]
    /\ got = [k \in Conns |-> 0]
    /\ life = [k \in Conns |-> "none"]
    /\ interest = [k \in Conns |-> "none"]
    /\ rd = [k \in Conns |-> 0]
    /\ encoded = [k \in Conns |-> FALSE]
    /\ wr = [k \in Conns |-> 0]

-----------------------------------------------------------------------------
(* Clients.                                                                *)

Connect(k) ==
    /\ client[k] = "new"
    /\ client' = [client EXCEPT ![k] = "open"]
    /\ life' = [life EXCEPT ![k] = "backlog"]
    /\ UNCHANGED <<sentReq, got, interest, rd, encoded, wr>>

Send(k) ==
    /\ client[k] = "open" /\ sentReq[k] < ReqLen
    /\ sentReq' = [sentReq EXCEPT ![k] = @ + 1]
    /\ UNCHANGED <<client, got, connVars>>

Take(k) ==
    /\ client[k] \in {"open", "fin"} /\ got[k] < wr[k]
    /\ got' = [got EXCEPT ![k] = @ + 1]
    /\ UNCHANGED <<client, sentReq, connVars>>

ShutDown(k) ==
    /\ client[k] = "open"
    /\ client' = [client EXCEPT ![k] = "fin"]
    /\ UNCHANGED <<sentReq, got, connVars>>

Reset(k) ==
    /\ client[k] = "open"
    /\ client' = [client EXCEPT ![k] = "reset"]
    /\ UNCHANGED <<sentReq, got, connVars>>

-----------------------------------------------------------------------------
(* epoll.                                                                  *)

Readable(k) == rd[k] < sentReq[k] \/ client[k] \in {"fin", "reset"}

Writable(k) == wr[k] - got[k] < SendBuf \/ client[k] = "reset"

ReadyIn(k) == interest[k] \in {"in", "in1"} /\ Readable(k)

ReadyOut(k) == interest[k] = "out" /\ Writable(k)

SetInterest(k, events) == interest' = [interest EXCEPT ![k] = events]

ReStartReadEvent(k) == SetInterest(k, "in1")

ModToWriteEvent(k) == SetInterest(k, "out")

\* ClearEvent(conn); delete conn
Release(k) ==
    /\ SetInterest(k, "none")
    /\ life' = [life EXCEPT ![k] = "deleted"]

-----------------------------------------------------------------------------
(* Conn::Read and Conn::Write, one system call each.                       *)

\* read returns a piece.  After a reset it may still find what has arrived.
ReadPiece(k) ==
    /\ rd[k] < sentReq[k]
    /\ rd' = [rd EXCEPT ![k] = @ + 1]

\* read answers EAGAIN: Read returns true.
ReadAgain(k) == ~Readable(k)

\* read returns 0 or fails: Read returns false.
ReadFails(k) ==
    \/ client[k] = "reset"
    \/ client[k] = "fin" /\ rd[k] = sentReq[k]

OneMessage(k) == rd[k] = ReqLen

EncodeForgotten(k) == UNCHANGED encoded                 \* mutant

Encode(k) == encoded' = [encoded EXCEPT ![k] = TRUE]

PktLen(k) == IF encoded[k] THEN RespLen ELSE 0

FinishWriteLate(k) == wr[k] = PktLen(k) + 1             \* mutant: past the end

FinishWrite(k) == wr[k] = PktLen(k)

\* write takes a piece.
WritePiece(k) ==
    /\ ~FinishWrite(k)
    /\ client[k] # "reset" /\ Writable(k)
    /\ wr' = [wr EXCEPT ![k] = @ + 1]

\* write answers EAGAIN: Write returns true, FinishWrite is false.
WriteAgain(k) == ~FinishWrite(k) /\ ~Writable(k)

WriteFails(k) == ~FinishWrite(k) /\ client[k] = "reset"
=============================================================================
