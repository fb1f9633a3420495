----------------------------- MODULE CodecProof -----------------------------
(***************************************************************************)
(* The decoder and RecvMsg put any frame together, whatever the length of  *)
(* its body and however it is cut into reads.  The peer may also send      *)
(* bytes after the frame (Trailing): what RecvMsg returns is then the      *)
(* message all the same, if Decode returns.                                *)
(***************************************************************************)
EXTENDS Codec, TLAPS

\* Where the decoder is at every statement: what it has consumed is nothing,
\* the head or the frame, as decode_status_ says.
Decoded ==
    /\ decode_status_ = "HEAD" =>
          /\ body_len_ = 0 /\ msg_ = {}
          /\ IF pc = "get" \/ pc = "read" THEN erased = 0 /\ received < HeadLen
             ELSE pc # "done" => erased + decodeLen = 0
    /\ decode_status_ = "BODY" =>
          /\ body_len_ = body /\ msg_ = {}
          /\ IF pc = "get" \/ pc = "read"
             THEN erased = HeadLen /\ received \in HeadLen .. FrameLen - 1
             ELSE pc # "done" => erased + decodeLen = HeadLen
    /\ decode_status_ = "FINISH" =>
          /\ pc # "read" /\ pc # "body"
          /\ msg_ = HeadLen .. FrameLen - 1
          /\ pc \in {"loop", "erase"} => erased + decodeLen = FrameLen
    /\ pc = "body" => decode_status_ = "BODY"
    /\ pc \in {"loop", "body", "erase"} => erased + decodeLen + curLen = received
    /\ pc = "erase" => /\ decode_status_ = "HEAD" => curLen < HeadLen
                       /\ decode_status_ = "BODY" => curLen < body
    /\ pc = "loop" => /\ decode_status_ = "HEAD" => curLen > 0
                      /\ decode_status_ = "BODY" => curLen > 0
    /\ result = "message" => pc = "done" /\ decode_status_ = "FINISH"

IInv == TypeOK /\ Decoded

\* Before the first read nothing is decoded.
LEMMA InitInv == Init => IInv
<1> SUFFICES ASSUME Init PROVE IInv
  OBVIOUS
<1>1. closed \in BOOLEAN
  BY Zenon DEF Init
<1>2. TypeOK
  BY <1>1, CodecAssumption DEF Init, TypeOK, FrameLen, Total
<1>3. Decoded
  BY CodecAssumption DEF Init, Decoded
<1> QED BY <1>2, <1>3 DEF IInv

\* Every step of the peer, of Decode and of RecvMsg keeps the invariant.
LEMMA StepInv == IInv /\ [Next]_vars => IInv'
<1> SUFFICES ASSUME IInv, [Next]_vars PROVE IInv'
  OBVIOUS
<1> USE CodecAssumption
    DEF IInv, TypeOK, FrameLen, Total, peerVars, codecVars
<1>1. CASE UNCHANGED vars
  BY <1>1 DEF vars, Decoded
<1>2. ASSUME NEW n \in 1 .. Total, Write(n) PROVE IInv'
  BY <1>2 DEF Write, Decoded
<1>3. CASE Close
  <2>1. closed' \in BOOLEAN
    BY <1>3, Zenon DEF Close
  <2> QED BY <1>3, <2>1 DEF Close, Decoded
<1>4. CASE decodeHead
  <2>1. CASE TooShort
    BY <1>4, <2>1 DEF decodeHead, TooShort, Decoded
  <2>2. CASE ~TooShort
    <3>1. erased + decodeLen = 0 /\ body_len_' = body
      BY <1>4, <2>2 DEF decodeHead, HeadAt, Decoded
    <3>2. /\ curLen' = curLen - HeadLen /\ decodeLen' = decodeLen + HeadLen
          /\ decode_status_' = "BODY" /\ pc' = "body"
          /\ UNCHANGED <<msg_, erased, peerVars, received, errno, result>>
      BY <1>4, <2>2 DEF decodeHead
    <3>3. TypeOK'
      BY <2>2, <3>1, <3>2 DEF TooShort
    <3>4. Decoded'
      BY <1>4, <2>2, <3>1, <3>2 DEF TooShort, Decoded, decodeHead
    <3> QED BY <3>3, <3>4
  <2> QED BY <2>1, <2>2
<1>5. CASE decodeBody
  <2>1. CASE curLen < body_len_
    BY <1>5, <2>1 DEF decodeBody, Decoded
  <2>2. CASE ~(curLen < body_len_)
    <3>1. /\ erased + decodeLen = HeadLen /\ body_len_ = body /\ msg_ = {}
          /\ erased + decodeLen + curLen = received /\ result # "message"
      BY <1>5 DEF decodeBody, Decoded
    <3>2. /\ msg_' = HeadLen .. HeadLen + body - 1
          /\ curLen' = curLen - body /\ decodeLen' = decodeLen + body
          /\ decode_status_' = "FINISH" /\ pc' = "loop" /\ body_len_' = 0
          /\ UNCHANGED <<erased, peerVars, received, errno, result>>
      BY <1>5, <2>2, <3>1 DEF decodeBody
    <3>3. TypeOK'
      BY <2>2, <3>1, <3>2
    <3>4. Decoded'
      BY <2>2, <3>1, <3>2 DEF Decoded
    <3> QED BY <3>3, <3>4
  <2> QED BY <2>1, <2>2
<1>6. CASE LoopEnd
  BY <1>6 DEF LoopEnd, Decoded
<1>7. CASE Erase
  BY <1>7 DEF Erase, Decoded
<1>8. ASSUME NEW n \in 1 .. ReadSize, Read(n) PROVE IInv'
  BY <1>8 DEF Read, Decoded
<1>9. ASSUME NEW error \in {"EINTR", "other"}, ReadFails(error) PROVE IInv'
  BY <1>9 DEF ReadFails, Decoded
<1>10. CASE ReadEof
  BY <1>10 DEF ReadEof, Decoded
<1>11. CASE GetMessage
  BY <1>11 DEF GetMessage, Decoded
<1> QED
  BY <1>1, <1>2, <1>3, <1>4, <1>5, <1>6, <1>7, <1>8, <1>9, <1>10, <1>11 DEF Next

\* The invariant holds in every state of every run.
LEMMA InvAlways == Spec => []IInv
  BY InitInv, StepInv, PTL DEF Spec

\* curLen and decodeLen, unsigned in the code, never go below zero, and a read
\* returns no more than was sent, for every length of a body and every way the
\* stream is cut into reads.
THEOREM TypeCorrect == Spec => []TypeOK
<1>1. IInv => TypeOK
  BY DEF IInv
<1> QED BY <1>1, InvAlways, PTL

\* RecvMsg hands out the body of the frame, complete and without a byte that
\* does not belong to it, for every way the stream is cut into reads.
THEOREM MessageIsBody == Spec => []MessageExact
<1>1. IInv => MessageExact
  BY DEF IInv, Decoded, MessageExact
<1> QED BY <1>1, InvAlways, PTL

\* RecvMsg never waits for a byte when the whole frame has been read.
THEOREM NeverWaitsInVain == Spec => []WaitsForFrameOnly
<1>1. IInv => WaitsForFrameOnly
  BY CodecAssumption
     DEF IInv, TypeOK, Decoded, WaitsForFrameOnly, FrameLen, Total
<1> QED BY <1>1, InvAlways, PTL

\* The head is decoded at the start of the frame, the body at the end of the
\* head, and no byte that was read is skipped or seen twice.
THEOREM DecodeAligned == Spec => []Aligned
<1>1. IInv => Aligned
  BY DEF IInv, TypeOK, Decoded, Aligned
<1> QED BY <1>1, InvAlways, PTL
=============================================================================
