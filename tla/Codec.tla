------------------------------- MODULE Codec -------------------------------
(***************************************************************************)
(* One message on one blocking connection: SendMsg of the peer writes a    *)
(* frame, RecvMsg reads it and feeds the incremental decoder Codec         *)
(* (src/echo/codec.hpp, src/echo/common.hpp).                              *)
(*                                                                         *)
(* A frame is a head of HeadLen bytes that holds the length of the body,   *)
(* then the body.  Bytes are known by their position in the stream, from 0 *)
(* on, so that a buffer is an interval of positions: reserved_ holds the   *)
(* positions erased .. received - 1.                                       *)
(***************************************************************************)
EXTENDS Integers

CONSTANTS
    HeadLen,        \* bytes of the head, 4 in the code
    BodyLens,       \* body lengths that peers send
    Trailing,       \* bytes that peers send after the frame without waiting
    ReadSize,       \* bytes one read may return, 4 * 1024 in RecvMsg
    Capacity        \* bytes the connection holds that are not yet read

ASSUME CodecAssumption ==
    /\ HeadLen \in Nat \ {0}
    /\ BodyLens \subseteq Nat
    /\ Trailing \subseteq Nat
    /\ ReadSize \in Nat \ {0}
    /\ Capacity \in Nat \ {0}

VARIABLES
    \* the peer
    body,           \* length of the body it sends
    trailing,       \* bytes it sends after the frame
    sent,           \* sendLen of SendMsg: bytes written so far
    closed,         \* it has closed the connection
    \* RecvMsg
    received,       \* bytes read so far
    errno,          \* "EINTR", or "other": read only sets it when it fails
    result,         \* what RecvMsg has returned: "none", "message", "failed"
    \* Codec
    pc,             \* the statement RecvMsg and Decode are at
    decode_status_, body_len_,
    msg_,           \* the positions appended to *msg_
    erased,         \* bytes taken out of reserved_ by earlier calls of Decode
    curLen, decodeLen

peerVars  == <<body, trailing, sent, closed>>
codecVars == <<decode_status_, body_len_, msg_, erased, curLen, decodeLen>>
vars == <<peerVars, received, errno, result, pc, codecVars>>

FrameLen == HeadLen + body

Total == FrameLen + trailing

Init ==
    /\ body \in BodyLens
    /\ trailing \in Trailing
    /\ sent = 0
    /\ closed = FALSE
    /\ received = 0
    /\ errno = "other"
    /\ result = "none"
    /\ pc = "read"
    /\ decode_status_ = "HEAD"
    /\ body_len_ = 0
    /\ msg_ = {}
    /\ erased = 0
    /\ curLen = 0
    /\ decodeLen = 0

-----------------------------------------------------------------------------
(* The peer.                                                               *)

\* One write of SendMsg: the kernel takes n of the bytes left.  A write that
\* is interrupted is repeated and changes nothing.
Write(n) ==
    /\ ~closed
    /\ n \in 1 .. Total - sent
    /\ sent + n - received <= Capacity
    /\ sent' = sent + n
    /\ UNCHANGED <<body, trailing, closed, received, errno, result, pc, codecVars>>

\* SendMsg has failed, the peer gives up, or it has sent everything.
Close ==
    /\ ~closed
    /\ closed' = TRUE
    /\ UNCHANGED <<body, trailing, sent, received, errno, result, pc, codecVars>>

-----------------------------------------------------------------------------
(* Decode.                                                                 *)

\* What ntohl makes of the bytes at a position: the length of the body at the
\* start of the frame, and any length elsewhere.
HeadAt(pos) == IF pos = 0 THEN {body} ELSE BodyLens

TooShortOffByOne == curLen <= HeadLen       \* mutant

NeverShort == FALSE                         \* mutant: the check is gone

TooShort == curLen < HeadLen

decodeHead ==
    /\ pc = "loop" /\ curLen > 0
    /\ decode_status_ = "HEAD"
    /\ IF TooShort
       THEN /\ pc' = "erase"
            /\ UNCHANGED codecVars
       ELSE /\ body_len_' \in HeadAt(erased + decodeLen)
            /\ curLen' = curLen - HeadLen
            /\ decodeLen' = decodeLen + HeadLen
            /\ decode_status_' = "BODY"
            /\ pc' = "body"
            /\ UNCHANGED <<msg_, erased>>
    /\ UNCHANGED <<peerVars, received, errno, result>>

decodePartialBody ==    \* mutant: appends whatever part of the body is there
    /\ \/ pc = "body"
       \/ pc = "loop" /\ curLen > 0
    /\ decode_status_ = "BODY"
    /\ LET from == erased + decodeLen
           n == IF curLen < body_len_ THEN curLen ELSE body_len_
       IN  /\ msg_' = msg_ \cup (from .. from + n - 1)
           /\ curLen' = curLen - n
           /\ decodeLen' = decodeLen + n
    /\ decode_status_' = "FINISH"
    /\ body_len_' = 0
    /\ pc' = "loop"
    /\ UNCHANGED <<erased, peerVars, received, errno, result>>

\* Reached from decodeHead in the same turn of the loop, or at the start of a
\* turn when an earlier call has decoded the head.
decodeBody ==
    /\ \/ pc = "body"
       \/ pc = "loop" /\ curLen > 0
    /\ decode_status_ = "BODY"
    /\ IF curLen < body_len_
       THEN /\ pc' = "erase"
            /\ UNCHANGED codecVars
       ELSE /\ LET from == erased + decodeLen
               IN  msg_' = msg_ \cup (from .. from + body_len_ - 1)
            /\ curLen' = curLen - body_len_
            /\ decodeLen' = decodeLen + body_len_
            /\ decode_status_' = "FINISH"
            /\ body_len_' = 0
            /\ pc' = "loop"
            /\ UNCHANGED erased
    /\ UNCHANGED <<peerVars, received, errno, result>>

\* The loop ends when no byte is left.  While bytes are left and the status is
\* FINISH, a turn of the loop does nothing and the loop goes on.
LoopEnd ==
    /\ pc = "loop" /\ curLen = 0
    /\ pc' = "erase"
    /\ UNCHANGED <<peerVars, received, errno, result, codecVars>>

EraseNothing ==         \* mutant: keeps what has been decoded
    /\ pc = "erase"
    /\ pc' = "get"
    /\ UNCHANGED <<peerVars, received, errno, result, codecVars>>

EraseAll ==             \* mutant: drops what could not be decoded yet
    /\ pc = "erase"
    /\ erased' = received
    /\ pc' = "get"
    /\ UNCHANGED <<decode_status_, body_len_, msg_, curLen, decodeLen,
                   peerVars, received, errno, result>>

Erase ==
    /\ pc = "erase"
    /\ erased' = erased + decodeLen
    /\ pc' = "get"
    /\ UNCHANGED <<decode_status_, body_len_, msg_, curLen, decodeLen,
                   peerVars, received, errno, result>>

-----------------------------------------------------------------------------
(* RecvMsg.                                                                *)

\* read returns n bytes and Decode starts: all of reserved_ is to be parsed.
Read(n) ==
    /\ pc = "read"
    /\ n \in 1 .. ReadSize
    /\ n <= sent - received
    /\ received' = received + n
    /\ curLen' = received + n - erased
    /\ decodeLen' = 0
    /\ pc' = "loop"
    /\ UNCHANGED <<peerVars, errno, result, decode_status_, body_len_, msg_, erased>>

\* read returns -1: interrupted (read again), or failed or timed out.
ReadFails(error) ==
    /\ pc = "read"
    /\ errno' = error
    /\ IF error = "EINTR"
       THEN UNCHANGED <<pc, result>>
       ELSE pc' = "done" /\ result' = "failed"
    /\ UNCHANGED <<peerVars, received, codecVars>>

ReadEofDecoded ==       \* mutant: only ret < 0 is a failure
    /\ pc = "read"
    /\ closed /\ received = sent
    /\ curLen' = received - erased
    /\ decodeLen' = 0
    /\ pc' = "loop"
    /\ UNCHANGED <<peerVars, received, errno, result, decode_status_, body_len_,
                   msg_, erased>>

\* read returns 0 at the end of the stream and leaves errno as it was: after
\* an interruption RecvMsg reads again, and again.
ReadEof ==
    /\ pc = "read"
    /\ closed /\ received = sent
    /\ errno # "EINTR"
    /\ pc' = "done" /\ result' = "failed"
    /\ UNCHANGED <<peerVars, received, errno, codecVars>>

GetMessage ==
    /\ pc = "get"
    /\ IF decode_status_ = "FINISH"
       THEN pc' = "done" /\ result' = "message"
       ELSE pc' = "read" /\ UNCHANGED result
    /\ UNCHANGED <<peerVars, received, errno, codecVars>>

-----------------------------------------------------------------------------
Decode == decodeHead \/ decodeBody \/ LoopEnd \/ Erase

Next ==
    \/ \E n \in 1 .. Total : Write(n)
    \/ Close
    \/ decodeHead
    \/ decodeBody
    \/ LoopEnd
    \/ Erase
    \/ \E n \in 1 .. ReadSize : Read(n)
    \/ \E error \in {"EINTR", "other"} : ReadFails(error)
    \/ ReadEof
    \/ GetMessage

\* RecvMsg runs on: it computes, and it reads what has arrived or the end of
\* the stream.  Nothing is assumed of the peer.
Fairness ==
    /\ WF_vars(Decode)
    /\ WF_vars(GetMessage)
    /\ WF_vars(\E n \in 1 .. ReadSize : Read(n))
    /\ WF_vars(ReadEof)

Spec == Init /\ [][Next]_vars /\ Fairness

-----------------------------------------------------------------------------
\* The decoder's lengths never go below zero (they are unsigned in the code)
\* and no more is read than was sent.
TypeOK ==
    /\ body \in BodyLens /\ trailing \in Trailing
    /\ sent \in 0 .. Total
    /\ closed \in BOOLEAN
    /\ received \in 0 .. sent
    /\ errno \in {"EINTR", "other"}
    /\ result \in {"none", "message", "failed"}
    /\ pc \in {"read", "loop", "body", "erase", "get", "done"}
    /\ decode_status_ \in {"HEAD", "BODY", "FINISH"}
    /\ body_len_ \in BodyLens \cup {0}
    /\ msg_ \subseteq Nat
    /\ erased \in Nat /\ curLen \in Nat /\ decodeLen \in Nat

\* However the stream is cut into reads, the message RecvMsg hands out is the
\* body of the frame: every byte of it and no other.
MessageExact ==
    result = "message" => msg_ = HeadLen .. FrameLen - 1

\* RecvMsg only waits in read while the frame is incomplete: it never asks a
\* peer for bytes when it already has the whole message.
WaitsForFrameOnly == pc = "read" => received < FrameLen

\* Decode looks at each byte once, at the place it belongs to: the head is read
\* from the start of the frame, the body from the end of the head, over any
\* number of calls, and no byte that was read is lost.
Aligned ==
    pc \in {"loop", "body", "erase"} =>
        /\ erased + decodeLen + curLen = received
        /\ decode_status_ = "HEAD" => erased + decodeLen = 0
        /\ decode_status_ = "BODY" => erased + decodeLen = HeadLen
        /\ decode_status_ = "FINISH" => erased + decodeLen = FrameLen

\* A call of Decode returns (codec.hpp: the loop goes on parsing as long as
\* there are bytes that are not parsed).
DecodeReturns == pc \in {"loop", "body", "erase"} ~> pc = "get"

\* A peer that has sent the whole frame gets RecvMsg to return.
FrameAnswered == (sent >= FrameLen) ~> (result # "none")

\* A peer that closes the connection gets RecvMsg to return, unless a read was
\* interrupted before: RecvMsg takes the end of the stream for another
\* interruption then and never returns.
CloseNoticed == closed ~> (result # "none" \/ errno = "EINTR")
=============================================================================
