---------------------------- MODULE BlockingConn ----------------------------
(***************************************************************************)
(* Connections of the blocking servers: the bytes on their way, and the    *)
(* descriptors by which the server's processes know them.  RecvMsg and     *)
(* SendMsg of src/echo/common.hpp are calls of read and write that block;  *)
(* a message is Len pieces long, the response as long as the request, and  *)
(* a piece is what one call moves.                                         *)
(*                                                                         *)
(* A descriptor is a number in the table of a process.  accept gives the   *)
(* smallest that is free, so that a closed number soon names another       *)
(* connection.                                                             *)
(***************************************************************************)
EXTENDS Integers, FiniteSets

CONSTANTS
    Conns,      \* connections clients may open, each of them once
    Procs,      \* processes of the server
    Len,        \* pieces of a message
    Bufs,       \* sizes of a socket buffer, in pieces
    MaxFd,      \* descriptors a process may have for connections
    Free        \* of a descriptor: not open

ASSUME ConnAssumption ==
    /\ Len \in Nat \ {0} /\ Bufs \subseteq Nat \ {0} /\ MaxFd \in Nat \ {0}
    /\ Free \notin Conns

VARIABLES
    buf,        \* the size of the socket buffers
    client,     \* "new", "refused" (connect has failed), "open", "fin" (has
                \* shut down writing) or "reset" (has closed, with a reset)
    sent,       \* pieces of the request the client has written
    rd, wr,     \* pieces the server has read and written
    got,        \* pieces of the response the client has read
    accepted,   \* connections that were accepted
    table       \* of each process, what its descriptors stand for

pieceVars == <<sent, rd, wr, got>>
connVars  == <<buf, client, pieceVars, accepted, table>>

Fds == 1 .. MaxFd

ConnTypeOK ==
    /\ buf \in Bufs
    /\ client \in [Conns -> {"new", "refused", "open", "fin", "reset"}]
    /\ sent \in [Conns -> 0 .. Len] /\ rd \in [Conns -> 0 .. Len]
    /\ wr \in [Conns -> 0 .. Len] /\ got \in [Conns -> 0 .. Len]
    /\ \A k \in Conns : rd[k] <= sent[k] /\ got[k] <= wr[k]
    /\ accepted \subseteq Conns
    /\ table \in [Procs -> [Fds -> Conns \cup {Free}]]

ConnInit ==
    /\ buf \in Bufs
    /\ client = [k \in Conns |-> "new"]
    /\ sent = [k \in Conns |-> 0] /\ rd = [k \in Conns |-> 0]
    /\ wr = [k \in Conns |-> 0] /\ got = [k \in Conns |-> 0]
    /\ accepted = {}
    /\ table = [p \in Procs |-> [f \in Fds |-> Free]]

-----------------------------------------------------------------------------
(* Clients.                                                                *)

Becomes(k, how) == client' = [client EXCEPT ![k] = how]

Connect(k) ==
    /\ client[k] = "new" /\ Becomes(k, "open")
    /\ UNCHANGED <<buf, pieceVars, accepted, table>>

Send(k) ==
    /\ client[k] = "open" /\ sent[k] < Len
    /\ sent[k] - rd[k] < buf
    /\ sent' = [sent EXCEPT ![k] = @ + 1]
    /\ UNCHANGED <<buf, client, rd, wr, got, accepted, table>>

Take(k) ==
    /\ client[k] \in {"open", "fin"} /\ got[k] < wr[k]
    /\ got' = [got EXCEPT ![k] = @ + 1]
    /\ UNCHANGED <<buf, client, sent, rd, wr, accepted, table>>

Leave(k, how) ==
    /\ client[k] = "open" /\ Becomes(k, how)
    /\ UNCHANGED <<buf, pieceVars, accepted, table>>

-----------------------------------------------------------------------------
(* Descriptors.                                                            *)

FreeFds(p) == {f \in Fds : table[p][f] = Free}

LowestFd(p) == CHOOSE f \in FreeFds(p) : \A g \in FreeFds(p) : f <= g

Refs(k) == {r \in Procs \X Fds : table[r[1]][r[2]] = k}

\* The connection is closed when no process has a descriptor of it.
ServerClosed(k) == k \in accepted /\ Refs(k) = {}

\* accept by process p.
Accepts(p, k) ==
    /\ FreeFds(p) # {}
    /\ table' = [table EXCEPT ![p][LowestFd(p)] = k]
    /\ accepted' = accepted \cup {k}

\* close of a number that is not open changes nothing.
close(p, f) == table' = [table EXCEPT ![p][f] = Free]

-----------------------------------------------------------------------------
(* The calls of RecvMsg and SendMsg on descriptor f of process p.          *)

Readable(k) == rd[k] < sent[k] \/ client[k] \in {"fin", "reset"}

ReadPiece(p, f) ==
    LET k == table[p][f]
    IN  /\ k # Free
        /\ rd[k] < sent[k]
        /\ rd' = [rd EXCEPT ![k] = @ + 1]

\* read has failed or has found the end of the stream.
ReadFails(p, f) ==
    LET k == table[p][f]
    IN  \/ k = Free
        \/ client[k] = "reset"
        \/ client[k] = "fin" /\ rd[k] = sent[k]

ReadBlocks(p, f) == ~ReadFails(p, f) /\ ~Readable(table[p][f])

WritePiece(p, f) ==
    LET k == table[p][f]
    IN  /\ k # Free
        /\ client[k] # "reset" /\ wr[k] - got[k] < buf
        /\ wr' = [wr EXCEPT ![k] = @ + 1]

WriteFails(p, f) == table[p][f] = Free \/ client[table[p][f]] = "reset"

WriteBlocks(p, f) ==
    LET k == table[p][f]
    IN  ~WriteFails(p, f) /\ wr[k] - got[k] >= buf
=============================================================================
