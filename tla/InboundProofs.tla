----------------------------- MODULE InboundProofs -----------------------------
(***************************************************************************)
(* What module InboundBytes promises for any streams, any segments and any *)
(* limits: its types, that no body outgrows max_body_size, and that no     *)
(* parser waits with more than it needs.  The inductive invariant adds to  *)
(* the types what a content length and a chunk size have been checked for, *)
(* and how the body told so far and the bytes still to come add up.        *)
(*                                                                         *)
(* The last part shows that segments do not matter: whatever has arrived   *)
(* is the first part of what is ahead; a line, a terminator or a frame     *)
(* that is complete in the part is the same in the whole; and so a step of *)
(* the parsers is one of module WholeStream or a stutter.                  *)
(***************************************************************************)
EXTENDS InboundBytes, SequenceTheorems, TLAPS

\* A content length that was accepted is a number within the limit.
LengthsChecked ==
    \A i \in DOMAIN headers :
        Name(headers[i]) = "content-length" => Value(headers[i]) \in 0..MaxBodySize

InBody == state \in {"body", "size", "data", "data_crlf", "trailers"}

\* The most the body being parsed may come to.
Allowed == IF state = "body" THEN MaxBodySize ELSE total

BodyAddsUp ==
    InBody => /\ delivered # <<>>
              /\ Len(delivered[Len(delivered)].body) + left <= Allowed

HTTPInv == HTTPTypeOK /\ LengthsChecked /\ BodyAddsUp /\ BodyBounded

\* The bytes a payload may hold once it is unmasked.
Bytes == {MaskUnit(u) : u \in Unit}

FramesInv == WSTypeOK /\ frames \in Seq(Unit) /\ fragments \in Seq(Bytes)

IInv ==
    /\ HTTPInv /\ FramesInv
    /\ stream \in Streams /\ fed \in 0..Len(stream.units)
    /\ switched \in BOOLEAN /\ (switched => state = "upgraded")

-----------------------------------------------------------------------------
LEMMA RestIsSeq ==
    ASSUME NEW S, NEW s \in Seq(S), NEW k \in 0..Len(s)
    PROVE  /\ SubSeq(s, k + 1, Len(s)) \in Seq(S)
           /\ SubSeq(s, 1, k) \in Seq(S) /\ Len(SubSeq(s, 1, k)) = k
<1>1. k + 1 \in 1..Len(s) + 1 /\ Len(s) \in k..Len(s) /\ Len(s) \in Nat
  BY LenProperties
<1>2. 1 \in 1..Len(s) + 1 /\ k \in 0..Len(s)
  BY <1>1
<1> QED BY <1>1, <1>2, SubSeqProperties

LEMMA LineFacts ==
    ASSUME HTTPTypeOK, HasLine
    PROVE  /\ Line \in Seq(Unit)
           /\ SubSeq(buffer, LineEnd + 2, Len(buffer)) \in Seq(Unit)
<1>1. LineEnd \in DOMAIN buffer /\ FirstEnd(LineEnd)
  BY DEF HasLine, LineEnd
<1>2. buffer \in Seq(Unit) /\ Len(buffer) \in Nat /\ DOMAIN buffer = 1..Len(buffer)
  BY LenProperties DEF HTTPTypeOK
<1>3. LineEnd \in Nat /\ LineEnd >= 1 /\ LineEnd < Len(buffer)
  BY <1>1, <1>2 DEF FirstEnd, EndsLine
<1>4. LineEnd - 1 \in 0..Len(buffer) /\ LineEnd + 1 \in 0..Len(buffer)
  BY <1>2, <1>3
<1>5. Line \in Seq(Unit)
  BY <1>2, <1>4, RestIsSeq DEF Line
<1>6. SubSeq(buffer, (LineEnd + 1) + 1, Len(buffer)) \in Seq(Unit)
  BY <1>2, <1>4, RestIsSeq
<1>7. (LineEnd + 1) + 1 = LineEnd + 2
  BY <1>3
<1> QED BY <1>5, <1>6, <1>7

\* Telling of the newest request changes its body and its end alone.
LEMMA ToldFacts ==
    ASSUME delivered \in Seq(Request), delivered # <<>>,
           NEW data \in Seq(Unit), NEW done \in BOOLEAN
    PROVE  /\ Told(data, done) \in Seq(Request) /\ Told(data, done) # <<>>
           /\ Len(Told(data, done)) = Len(delivered)
           /\ \A i \in DOMAIN delivered : i # Len(delivered) =>
                Told(data, done)[i] = delivered[i]
           /\ Len(Told(data, done)[Len(delivered)].body)
                = Len(delivered[Len(delivered)].body) + Len(data)
<1> DEFINE last == delivered[Len(delivered)]
           new  == [[last EXCEPT !.body = @ \o data] EXCEPT !.done = done]
<1>1. Len(delivered) \in Nat \ {0} /\ DOMAIN delivered = 1..Len(delivered)
  BY LenProperties, EmptySeq
<1>2. last \in Request
  BY <1>1, ElementOfSeq
<1>3. last.body \o data \in Seq(Unit) /\ Len(last.body \o data) = Len(last.body) + Len(data)
  BY <1>2, ConcatProperties DEF Request
<1>4. new \in Request /\ new.body = last.body \o data
  BY <1>2, <1>3 DEF Request
<1>5. Told(data, done) = [delivered EXCEPT ![Len(delivered)] = new]
  BY <1>1, <1>2 DEF Told, Request
<1> HIDE DEF new
<1>6. /\ Told(data, done) \in Seq(Request) /\ Len(Told(data, done)) = Len(delivered)
      /\ \A i \in DOMAIN delivered : i # Len(delivered) => Told(data, done)[i] = delivered[i]
      /\ Told(data, done)[Len(delivered)] = new
  BY <1>1, <1>4, <1>5, ExceptSeq
<1> QED BY <1>1, <1>3, <1>4, <1>6

-----------------------------------------------------------------------------
\* A parser that has failed, or that only takes bytes in or out, keeps its part.
LEMMA Failing ==
    ASSUME HTTPInv, NEW e \in {"malformed", "too_large"}, Fail(e), buffer' \in Seq(Unit)
    PROVE  HTTPInv'
  BY DEF HTTPInv, HTTPTypeOK, LengthsChecked, BodyAddsUp, InBody, BodyBounded, Fail, request

LEMMA Untouched ==
    ASSUME HTTPInv, buffer' \in Seq(Unit), eof' \in {"none", "clean", "incomplete"},
           UNCHANGED <<state, request, delivered, httpError>>
    PROVE  HTTPInv'
  BY DEF HTTPInv, HTTPTypeOK, LengthsChecked, BodyAddsUp, InBody, Allowed, BodyBounded, request

LEMMA Resetting ==
    ASSUME HTTPInv, buffer' \in Seq(Unit), ResetForNextRequest,
           delivered' \in Seq(Request), BodyBounded', UNCHANGED <<httpError, eof>>
    PROVE  HTTPInv'
  BY LimitsAssumption, EmptySeq
  DEF HTTPInv, HTTPTypeOK, LengthsChecked, BodyAddsUp, InBody, ResetForNextRequest, Request

\* Data that the request still had to come, told of it.
LEMMA Telling ==
    ASSUME HTTPInv, InBody, NEW data \in Seq(Unit), NEW done \in BOOLEAN,
           Len(data) <= left, delivered' = Told(data, done)
    PROVE  /\ delivered' \in Seq(Request) /\ BodyBounded'
           /\ delivered' # <<>>
           /\ Len(delivered'[Len(delivered')].body) = Len(delivered[Len(delivered)].body) + Len(data)
<1>1. /\ delivered \in Seq(Request) /\ delivered # <<>>
      /\ Len(delivered[Len(delivered)].body) + left <= Allowed
      /\ left \in Nat /\ total \in 0..MaxBodySize /\ MaxBodySize \in Nat
  BY LimitsAssumption DEF HTTPInv, HTTPTypeOK, BodyAddsUp, Request
<1>2. /\ delivered' \in Seq(Request) /\ delivered' # <<>>
      /\ Len(delivered') = Len(delivered)
      /\ \A i \in DOMAIN delivered : i # Len(delivered) => delivered'[i] = delivered[i]
      /\ Len(delivered'[Len(delivered)].body) = Len(delivered[Len(delivered)].body) + Len(data)
  BY <1>1, ToldFacts
<1>3. Len(delivered) \in 1..Len(delivered) /\ DOMAIN delivered = 1..Len(delivered)
      /\ DOMAIN delivered' = 1..Len(delivered)
  BY <1>1, <1>2, EmptySeq, LenProperties
<1>4. delivered[Len(delivered)] \in Request
  BY <1>1, <1>3, ElementOfSeq
<1>5. Len(delivered[Len(delivered)].body) \in Nat /\ Len(data) \in Nat
  BY <1>4, LenProperties DEF Request
<1>6. Len(delivered'[Len(delivered)].body) <= MaxBodySize
  BY <1>1, <1>2, <1>5 DEF Allowed
<1>7. BodyBounded'
  BY <1>2, <1>3, <1>6 DEF HTTPInv, BodyBounded
<1> QED BY <1>2, <1>7

LEMMA BodySoFar ==
    ASSUME HTTPInv, InBody
    PROVE  Len(delivered[Len(delivered)].body) \in Nat
<1>1. delivered \in Seq(Request) /\ delivered # <<>>
  BY DEF HTTPInv, HTTPTypeOK, BodyAddsUp, Request
<1>2. Len(delivered) \in 1..Len(delivered)
  BY <1>1, EmptySeq
<1> QED BY <1>1, <1>2, ElementOfSeq, LenProperties DEF Request

LEMMA Completing ==
    ASSUME HTTPInv, InBody, CompleteRequest, buffer' \in Seq(Unit)
    PROVE  HTTPInv'
<1>1. <<>> \in Seq(Unit) /\ Len(<<>>) = 0 /\ left >= 0
  BY LimitsAssumption, EmptySeq DEF HTTPInv, HTTPTypeOK
<1>2. delivered' = Told(<<>>, TRUE) /\ ResetForNextRequest /\ UNCHANGED <<httpError, eof>>
  BY DEF CompleteRequest
<1>3. delivered' \in Seq(Request) /\ BodyBounded'
  BY <1>1, <1>2, Telling
<1> QED BY <1>2, <1>3, Resetting

\* Some bytes have been told of, and the body goes on.
LEMMA Continuing ==
    ASSUME HTTPInv, InBody, NEW n \in 0..left, left' = left - n, buffer' \in Seq(Unit),
           \/ state = "body" /\ state' = "body"
           \/ state = "data" /\ state' \in {"data", "data_crlf"},
           delivered' \in Seq(Request), BodyBounded', delivered' # <<>>,
           Len(delivered'[Len(delivered')].body) = Len(delivered[Len(delivered)].body) + n,
           UNCHANGED <<line, headers, total, httpError, eof>>
    PROVE  HTTPInv'
<1>1. /\ left \in 0..MaxBodySize /\ MaxBodySize \in Nat
      /\ Len(delivered[Len(delivered)].body) + left <= Allowed
      /\ total \in Nat
  BY LimitsAssumption DEF HTTPInv, HTTPTypeOK, BodyAddsUp
<1>2. left' \in 0..MaxBodySize
  BY <1>1
<1>3. Allowed' = Allowed /\ Allowed \in Nat
  BY <1>1 DEF Allowed
<1>4. Len(delivered'[Len(delivered')].body) + left' = Len(delivered[Len(delivered)].body) + left
  BY <1>1, BodySoFar
<1>5. BodyAddsUp'
  BY <1>1, <1>3, <1>4 DEF BodyAddsUp
<1> QED BY <1>2, <1>5 DEF HTTPInv, HTTPTypeOK, LengthsChecked, Request

-----------------------------------------------------------------------------
LEMMA HTTPSteps ==
    ASSUME HTTPInv, ParseHTTP
    PROVE  HTTPInv'
<1> USE LimitsAssumption
<1>0. /\ HTTPTypeOK /\ buffer \in Seq(Unit) /\ headers \in Seq(Seq(Unit))
      /\ line \in Seq(Unit) /\ delivered \in Seq(Request) /\ Len(buffer) \in Nat
      /\ left \in 0..MaxBodySize /\ total \in 0..MaxBodySize
  BY LenProperties DEF HTTPInv, HTTPTypeOK, Request
<1>1. CASE RejectLine
  BY <1>0, <1>1, Failing DEF RejectLine
<1>2. CASE ConsumeStartLine
  <2>1. buffer' \in Seq(Unit) /\ Line \in Seq(Unit)
    BY <1>0, <1>2, LineFacts DEF ConsumeStartLine, TakeLine
  <2>2. CASE ~IsRequestLine(Line) /\ Fail("malformed")
    BY <2>1, <2>2, Failing
  <2>3. CASE /\ IsRequestLine(Line) /\ line' = Line /\ state' = "headers"
             /\ UNCHANGED <<headers, left, total, delivered, httpError, eof>>
    BY <2>1, <2>3
    DEF HTTPInv, HTTPTypeOK, LengthsChecked, BodyAddsUp, InBody, BodyBounded
  <2> QED BY <1>2, <2>2, <2>3 DEF ConsumeStartLine
<1>3. CASE ConsumeHeaderLine
  <2>1. buffer' \in Seq(Unit) /\ Line \in Seq(Unit)
    BY <1>0, <1>3, LineFacts DEF ConsumeHeaderLine, TakeLine
  <2>2. CASE HeaderError(headers, Line) # "none" /\ Fail(HeaderError(headers, Line))
    <3>1. HeaderError(headers, Line) \in {"malformed", "too_large"}
      BY <2>2 DEF HeaderError
    <3> QED BY <2>1, <2>2, <3>1, Failing
  <2>3. CASE /\ HeaderError(headers, Line) = "none" /\ headers' = Append(headers, Line)
             /\ UNCHANGED <<state, line, left, total, delivered, httpError, eof>>
    <3>1. Name(Line) = "content-length" => Value(Line) \in 0..MaxBodySize
      BY <2>3 DEF HeaderError
    <3>2. /\ headers' \in Seq(Seq(Unit)) /\ Len(headers') = Len(headers) + 1
          /\ \A i \in 1..Len(headers) : headers'[i] = headers[i]
          /\ headers'[Len(headers) + 1] = Line
      BY <1>0, <2>1, <2>3, AppendProperties
    <3>3. /\ DOMAIN headers = 1..Len(headers) /\ Len(headers) \in Nat
          /\ DOMAIN headers' = 1..(Len(headers) + 1)
      BY <1>0, <3>2, LenProperties
    <3>4. LengthsChecked'
      BY <3>1, <3>2, <3>3 DEF HTTPInv, LengthsChecked, Name, Value
    <3> QED
      BY <1>3, <2>1, <2>3, <3>2, <3>4
      DEF ConsumeHeaderLine, HTTPInv, HTTPTypeOK, BodyAddsUp, InBody, BodyBounded
  <2> QED BY <1>3, <2>2, <2>3 DEF ConsumeHeaderLine
<1>4. CASE FinishHeaders
  <2>1. buffer' \in Seq(Unit)
    BY <1>0, <1>4, LineFacts DEF FinishHeaders, TakeLine
  <2>2. CASE AmbiguousBody(line, headers) /\ Fail("malformed")
    BY <2>1, <2>2, Failing
  <2>3. CASE /\ ~AmbiguousBody(line, headers) /\ delivered' = Append(delivered, NewRequest)
             /\ state' = Framing(line, headers)
             /\ left' = ContentLength(headers)
             /\ UNCHANGED <<line, headers, total, httpError, eof>>
    <3>1. NewRequest \in Request /\ Len(NewRequest.body) = 0
      BY <1>0, EmptySeq DEF NewRequest, Request
    <3>2. /\ delivered' \in Seq(Request) /\ delivered' # <<>>
          /\ Len(delivered') = Len(delivered) + 1
          /\ \A i \in 1..Len(delivered) : delivered'[i] = delivered[i]
          /\ delivered'[Len(delivered) + 1] = NewRequest
      BY <1>0, <2>3, <3>1, AppendProperties
    <3>3. /\ DOMAIN delivered = 1..Len(delivered) /\ Len(delivered) \in Nat
          /\ DOMAIN delivered' = 1..(Len(delivered) + 1)
      BY <1>0, <3>2, LenProperties
    <3>4. BodyBounded'
      BY <3>1, <3>2, <3>3 DEF HTTPInv, BodyBounded
    <3>5. ContentLength(headers) \in 0..MaxBodySize
      BY DEF ContentLength, Has, ValueOf, HTTPInv, LengthsChecked
    <3>6. Chunked(headers) => ContentLength(headers) = 0
      BY <2>3 DEF AmbiguousBody, ContentLength
    <3>7. state' \in {"upgraded", "size", "body"} /\ (state' = "size" => Chunked(headers))
      BY <2>3 DEF Framing, Upgraded
    <3>8. BodyAddsUp'
      BY <1>0, <2>3, <3>1, <3>2, <3>5, <3>6, <3>7 DEF BodyAddsUp, InBody, Allowed
    <3> QED
      BY <1>0, <2>1, <2>3, <3>2, <3>4, <3>5, <3>7, <3>8
      DEF HTTPInv, HTTPTypeOK, LengthsChecked, Request
  <2> QED BY <1>4, <2>2, <2>3 DEF FinishHeaders
<1>5. CASE ConsumeBody
  <2>1. InBody /\ state = "body"
    BY <1>5 DEF ConsumeBody, NoBody, InBody
  <2>2. CASE left = 0 /\ CompleteRequest /\ UNCHANGED buffer
    BY <1>0, <2>1, <2>2, Completing
  <2>3. CASE /\ left > 0 /\ buffer # <<>> /\ Drop(Taken)
             /\ delivered' = Told(SubSeq(buffer, 1, Taken), Taken = left)
             /\ \/ Taken = left /\ ResetForNextRequest
                \/ Taken < left /\ left' = left - Taken /\ UNCHANGED <<state, line, headers, total>>
             /\ UNCHANGED <<httpError, eof>>
    <3>1. Taken \in 0..Len(buffer) /\ Taken \in 0..left
      BY <1>0, <2>3 DEF Taken
    <3>2. /\ buffer' \in Seq(Unit) /\ SubSeq(buffer, 1, Taken) \in Seq(Unit)
          /\ Len(SubSeq(buffer, 1, Taken)) = Taken
      BY <1>0, <2>3, <3>1, RestIsSeq DEF Drop
    <3>3. /\ delivered' \in Seq(Request) /\ BodyBounded' /\ delivered' # <<>>
          /\ Len(delivered'[Len(delivered')].body) = Len(delivered[Len(delivered)].body) + Taken
      <4>1. Len(SubSeq(buffer, 1, Taken)) <= left /\ (Taken = left) \in BOOLEAN
        BY <1>0, <3>1, <3>2
      <4> QED BY <2>1, <2>3, <3>2, <4>1, Telling
    <3>4. CASE ResetForNextRequest
      BY <2>3, <3>2, <3>3, <3>4, Resetting
    <3>5. CASE left' = left - Taken /\ UNCHANGED <<state, line, headers, total>>
      BY <2>1, <2>3, <3>1, <3>2, <3>3, <3>5, Continuing
    <3> QED BY <2>3, <3>4, <3>5
  <2> QED BY <1>5, <2>2, <2>3 DEF ConsumeBody, NoBody, TakeBody
<1>6. CASE ConsumeChunkSize
  <2>1. buffer' \in Seq(Unit)
    BY <1>0, <1>6, LineFacts DEF ConsumeChunkSize, TakeLine
  <2>2. CASE SizeError(total, Line) # "none" /\ Fail(SizeError(total, Line))
    <3>1. SizeError(total, Line) \in {"malformed", "too_large"}
      BY <2>2 DEF SizeError
    <3> QED BY <2>1, <2>2, <3>1, Failing
  <2>3. CASE /\ SizeError(total, Line) = "none"
             /\ left' = Value(Line) /\ total' = total + Value(Line)
             /\ state' = IF Value(Line) = 0 THEN "trailers" ELSE "data"
             /\ UNCHANGED <<line, headers, delivered, httpError, eof>>
    <3>1. Value(Line) \in Nat /\ total + Value(Line) <= MaxBodySize
      BY <1>0, <2>3 DEF SizeError
    <3>2. state = "size"
      BY <1>6 DEF ConsumeChunkSize
    <3>3. BodyAddsUp'
      BY <1>0, <2>3, <3>1, <3>2, BodySoFar DEF HTTPInv, BodyAddsUp, InBody, Allowed
    <3> QED
      BY <1>0, <2>1, <2>3, <3>1, <3>3
      DEF HTTPInv, HTTPTypeOK, LengthsChecked, BodyBounded
  <2> QED BY <1>6, <2>2, <2>3 DEF ConsumeChunkSize
<1>7. CASE ConsumeChunkData
  <2>1. InBody /\ state = "data"
    BY <1>7 DEF ConsumeChunkData, InBody
  <2>2. Taken \in 0..Len(buffer) /\ Taken \in 0..left
    BY <1>0 DEF Taken
  <2>3. /\ buffer' \in Seq(Unit) /\ SubSeq(buffer, 1, Taken) \in Seq(Unit)
        /\ Len(SubSeq(buffer, 1, Taken)) = Taken
    BY <1>0, <1>7, <2>2, RestIsSeq DEF ConsumeChunkData, TakeChunk, Drop
  <2>4. /\ delivered' \in Seq(Request) /\ BodyBounded' /\ delivered' # <<>>
        /\ Len(delivered'[Len(delivered')].body) = Len(delivered[Len(delivered)].body) + Taken
    <3>1. /\ Len(SubSeq(buffer, 1, Taken)) <= left
          /\ delivered' = Told(SubSeq(buffer, 1, Taken), FALSE)
      BY <1>0, <1>7, <2>2, <2>3 DEF ConsumeChunkData, TakeChunk
    <3> QED BY <2>1, <2>3, <3>1, Telling
  <2>5. /\ left' = left - Taken /\ state' \in {"data", "data_crlf"}
        /\ UNCHANGED <<line, headers, total, httpError, eof>>
    BY <1>7 DEF ConsumeChunkData, TakeChunk
  <2> QED BY <2>1, <2>2, <2>3, <2>4, <2>5, Continuing
<1>8. CASE ConsumeChunkEnd
  <2>1. CASE SubSeq(buffer, 1, 2) # Crlf /\ Fail("malformed") /\ UNCHANGED buffer
    BY <1>0, <2>1, Failing
  <2>2. CASE Drop(2) /\ state' = "size" /\ UNCHANGED <<request, delivered, httpError, eof>>
    <3>1. 2 \in 0..Len(buffer) /\ state = "data_crlf"
      BY <1>0, <1>8 DEF ConsumeChunkEnd
    <3>2. buffer' \in Seq(Unit)
      BY <1>0, <2>2, <3>1, RestIsSeq DEF Drop
    <3> QED
      BY <1>0, <2>2, <3>1, <3>2
      DEF HTTPInv, HTTPTypeOK, LengthsChecked, BodyAddsUp, InBody, Allowed, BodyBounded, request
  <2> QED BY <1>8, <2>1, <2>2 DEF ConsumeChunkEnd
<1>9. CASE ConsumeTrailers
  <2>1. buffer' \in Seq(Unit) /\ InBody
    BY <1>0, <1>9, LineFacts DEF ConsumeTrailers, TakeLine, InBody
  <2>2. CASE CompleteRequest
    BY <1>0, <2>1, <2>2, Completing
  <2>3. CASE UNCHANGED <<state, request, delivered, httpError, eof>>
    BY <2>1, <2>3, Untouched DEF HTTPInv, HTTPTypeOK
  <2> QED BY <1>9, <2>2, <2>3 DEF ConsumeTrailers
<1> QED BY <1>1, <1>2, <1>3, <1>4, <1>5, <1>6, <1>7, <1>8, <1>9 DEF ParseHTTP

-----------------------------------------------------------------------------
LEMMA MaskFacts ==
    ASSUME NEW p \in Seq(Unit)
    PROVE  ApplyMask(p) \in Seq(Bytes) /\ Len(ApplyMask(p)) = Len(p)
<1>1. Len(p) \in Nat /\ DOMAIN p = 1..Len(p) /\ \A i \in 1..Len(p) : p[i] \in Unit
  BY LenProperties, ElementOfSeq
<1>2. ApplyMask(p) = [i \in 1..Len(p) |-> MaskUnit(p[i])]
  BY <1>1 DEF ApplyMask
<1>3. \A i \in 1..Len(p) : MaskUnit(p[i]) \in Bytes
  BY <1>1 DEF Bytes
<1>4. ApplyMask(p) \in [1..Len(p) -> Bytes]
  BY <1>2, <1>3
<1> QED BY <1>1, <1>4, SeqDef

\* A frame is complete: what it declared is there, and may be added.
LEMMA FrameFacts ==
    ASSUME frames \in Seq(Unit), HasFrame
    PROVE  /\ Opcode \in Opcodes /\ Length \in Nat
           /\ Payload \in Seq(Bytes) /\ Len(Payload) = Length
           /\ SubSeq(frames, Offset + Length + 1, Len(frames)) \in Seq(Unit)
           /\ Opcode \notin ControlOpcodes => ~TooBig
<1>1. /\ Opcode \in Opcodes /\ Length \in Nat
      /\ Opcode \notin ControlOpcodes => ~TooBig
  BY DEF HasFrame, FrameError
<1>2. Offset \in Nat /\ Len(frames) \in Nat /\ Offset + Length \in 0..Len(frames)
  BY <1>1, LenProperties DEF HasFrame, Offset
<1>3. /\ Offset + 1 \in Int /\ Offset + Length \in Int
      /\ \A i \in (Offset + 1)..(Offset + Length) : frames[i] \in Unit
  BY <1>1, <1>2, ElementOfSeq
<1>4. /\ SubSeq(frames, Offset + 1, Offset + Length) \in Seq(Unit)
      /\ Len(SubSeq(frames, Offset + 1, Offset + Length)) = Length
  BY <1>1, <1>2, <1>3, SubSeqProperties
<1>5. Payload \in Seq(Bytes) /\ Len(Payload) = Length
  BY <1>4, MaskFacts DEF Payload
<1> QED BY <1>1, <1>2, <1>5, RestIsSeq

LEMMA FrameSteps ==
    ASSUME FramesInv, ParseFrames
    PROVE  FramesInv'
<1> USE DEF FramesInv, WSTypeOK
<1>1. CASE RejectFrame
  <2>1. FrameError \in {1002, 1009}
    BY <1>1 DEF RejectFrame, FrameError
  <2> QED BY <1>1, <2>1 DEF RejectFrame, Raise
<1>2. CASE HandlePing
  <2>1. frames' \in Seq(Unit)
    BY <1>2, FrameFacts DEF HandlePing, Consume
  <2> QED BY <1>2, <2>1 DEF HandlePing, Emit
<1>3. CASE HandleClose
  <2>1. frames' \in Seq(Unit) /\ wsClosed' = TRUE
    BY <1>3, FrameFacts DEF HandleClose, Consume
  <2>2. CASE CloseError(Payload) = 0 /\ Emit("close", Payload) /\ UNCHANGED <<fragments, fragmentOpcode>>
    BY <2>1, <2>2 DEF Emit
  <2>3. CASE CloseError(Payload) # 0 /\ Raise(CloseError(Payload))
    <3>1. CloseError(Payload) \in {1002, 1007}
      BY <2>3 DEF CloseError
    <3> QED BY <2>1, <2>3, <3>1 DEF Raise
  <2> QED BY <1>3, <2>2, <2>3 DEF HandleClose
<1>4. CASE HandleData
  <2>1. /\ frames' \in Seq(Unit) /\ wsClosed' = wsClosed
        /\ Opcode \in Opcodes \ ControlOpcodes
        /\ Payload \in Seq(Bytes) /\ Len(Payload) = Length /\ ~TooBig
    BY <1>4, FrameFacts DEF HandleData, Consume
  <2>2. CASE OutOfTurn /\ Raise(1002)
    BY <2>1, <2>2 DEF Raise
  <2>3. CASE /\ wsError' = 1007 /\ fragments' = <<>> /\ fragmentOpcode' = "none"
    BY <2>1, <2>3, MessageLimitsAssumption, EmptySeq
  <2>4. CASE /\ ~OutOfTurn /\ Emit(MessageOpcode, fragments \o Payload)
             /\ fragments' = <<>> /\ fragmentOpcode' = "none"
    BY <2>1, <2>4, MessageLimitsAssumption, EmptySeq DEF Emit
  <2>5. CASE /\ ~OutOfTurn
             /\ fragments' = fragments \o Payload /\ fragmentOpcode' = MessageOpcode
             /\ UNCHANGED <<messages, wsError>>
    <3>1. fragments' \in Seq(Bytes) /\ Len(fragments') = Len(fragments) + Len(Payload)
      <4>1. fragments \in Seq(Bytes)
        OBVIOUS
      <4>2. /\ fragments \o Payload \in Seq(Bytes)
            /\ Len(fragments \o Payload) = Len(fragments) + Len(Payload)
        BY <2>1, <4>1, ConcatProperties
      <4> QED BY <2>5, <4>2
    <3>2. ~(Len(fragments) + Length > MaxMessageSize)
      BY <2>1 DEF TooBig
    <3>3. Len(fragments') <= MaxMessageSize
      BY <2>1, <3>1, <3>2, MessageLimitsAssumption, FrameFacts, <1>4, LenProperties DEF HandleData
    <3>4. MessageOpcode \in {"text", "binary"}
      BY <2>1, <2>5 DEF OutOfTurn, MessageOpcode, Opcodes, ControlOpcodes
    <3> QED BY <2>1, <2>5, <3>1, <3>3, <3>4
  <2> QED BY <1>4, <2>2, <2>3, <2>4, <2>5 DEF HandleData
<1> QED BY <1>1, <1>2, <1>3, <1>4 DEF ParseFrames

-----------------------------------------------------------------------------
\* What a segment or the hand-over adds to a buffer.
LEMMA Feeding ==
    ASSUME HTTPInv, FramesInv, NEW data \in Seq(Unit)
    PROVE  /\ FeedHTTP(data) => HTTPInv'
           /\ FeedFrames(data) => FramesInv'
<1>1. ASSUME FeedHTTP(data) PROVE HTTPInv'
  <2>1. buffer' \in Seq(Unit) /\ eof \in {"none", "clean", "incomplete"}
    BY <1>1, ConcatProperties DEF FeedHTTP, HTTPInv, HTTPTypeOK
  <2> QED BY <1>1, <2>1, Untouched DEF FeedHTTP
<1>2. ASSUME FeedFrames(data) PROVE FramesInv'
  <2>1. frames' \in Seq(Unit)
    BY <1>2, ConcatProperties DEF FeedFrames, FramesInv
  <2> QED BY <1>2, <2>1 DEF FeedFrames, FramesInv, WSTypeOK
<1> QED BY <1>1, <1>2

\* The two halves read the variables of their own part alone.
LEMMA HalvesApart ==
    /\ HTTPInv /\ UNCHANGED http => HTTPInv'
    /\ FramesInv /\ UNCHANGED websocket => FramesInv'
<1>1. ASSUME HTTPInv, UNCHANGED http PROVE HTTPInv'
  BY <1>1 DEF http, request, HTTPInv, HTTPTypeOK, LengthsChecked, BodyAddsUp, InBody, Allowed, BodyBounded
<1>2. ASSUME FramesInv, UNCHANGED websocket PROVE FramesInv'
  BY <1>2 DEF websocket, FramesInv, WSTypeOK
<1> QED BY <1>1, <1>2

LEMMA Initially == Init => IInv
<1> SUFFICES ASSUME Init PROVE IInv
  OBVIOUS
<1>1. stream.units \in Seq(Unit) /\ Len(stream.units) \in Nat
  BY StreamsAssumption, LenProperties DEF Init
<1>2. HTTPInv
  BY LimitsAssumption, EmptySeq
  DEF Init, HTTPInit, Fresh, HTTPInv, HTTPTypeOK, LengthsChecked, BodyAddsUp, InBody, BodyBounded
<1>3. FramesInv
  <2>1. <<>> \in Seq(Unit) /\ <<>> \in Seq(Bytes) /\ Len(<<>>) = 0
    BY EmptySeq
  <2>2. WSInit
    BY DEF Init
  <2>3. 0 <= MaxMessageSize
    BY MessageLimitsAssumption
  <2> QED BY <2>1, <2>2, <2>3 DEF WSInit, FramesInv, WSTypeOK
<1>4. stream \in Streams /\ fed \in 0..Len(stream.units) /\ switched = FALSE
  BY <1>1 DEF Init
<1> QED BY <1>2, <1>3, <1>4 DEF IInv

LEMMA Inductive == IInv /\ [Next]_vars => IInv'
<1> SUFFICES ASSUME IInv, [Next]_vars PROVE IInv'
  OBVIOUS
<1>0. /\ HTTPInv /\ FramesInv /\ buffer \in Seq(Unit)
      /\ stream \in Streams /\ stream.units \in Seq(Unit) /\ Len(stream.units) \in Nat
      /\ fed \in 0..Len(stream.units) /\ switched \in BOOLEAN
      /\ switched => state = "upgraded"
  BY StreamsAssumption, LenProperties DEF IInv, HTTPInv, HTTPTypeOK
<1>1. ASSUME NEW n \in Cuts, DataReceived(n) PROVE IInv'
  <2> DEFINE last == IF fed + n < Len(stream.units) THEN fed + n ELSE Len(stream.units)
             data == SubSeq(stream.units, fed + 1, last)
  <2>1. n \in Nat /\ last \in 0..Len(stream.units)
    BY <1>0, CutsAssumption
  <2>2. data \in Seq(Unit)
    <3>1. \A i \in (fed + 1)..last : stream.units[i] \in Unit
      BY <1>0, <2>1, ElementOfSeq
    <3> QED BY <1>0, <2>1, <3>1, SubSeqProperties
  <2>3. fed' = last /\ UNCHANGED <<stream, switched>>
    BY <1>1 DEF DataReceived
  <2>4. CASE ~switched /\ FeedHTTP(data) /\ UNCHANGED websocket
    BY <1>0, <2>1, <2>2, <2>3, <2>4, Feeding, HalvesApart DEF IInv
  <2>5. CASE switched /\ FeedFrames(data) /\ UNCHANGED http
    <3>1. UNCHANGED state
      BY <2>5 DEF http
    <3> QED BY <1>0, <2>1, <2>2, <2>3, <2>5, <3>1, Feeding, HalvesApart DEF IInv
  <2> QED BY <1>1, <2>4, <2>5 DEF DataReceived
<1>2. CASE BeginWebSocket
  <2>1. buffer' \in Seq(Unit) /\ eof \in {"none", "clean", "incomplete"}
    BY <1>0, <1>2, EmptySeq DEF BeginWebSocket, TakeBuffer, HTTPInv, HTTPTypeOK
  <2>2. HTTPInv'
    BY <1>0, <1>2, <2>1, Untouched DEF BeginWebSocket
  <2>3. FramesInv'
    BY <1>0, <1>2, Feeding DEF BeginWebSocket
  <2> QED BY <1>0, <1>2, <2>2, <2>3 DEF BeginWebSocket, IInv
<1>3. CASE EofReceived
  <2>1. HTTPInv'
    BY <1>0, <1>3, Untouched DEF EofReceived, FeedEof
  <2> QED BY <1>0, <1>3, <2>1, HalvesApart DEF EofReceived, FeedEof, IInv
<1>4. CASE ParseHTTP /\ UNCHANGED <<websocket, stream, fed, switched>>
  <2>1. ~switched
    BY <1>0, <1>4
    DEF ParseHTTP, RejectLine, ReadsLine, ConsumeStartLine, ConsumeHeaderLine, FinishHeaders,
        ConsumeBody, NoBody, ConsumeChunkSize, ConsumeChunkData, ConsumeChunkEnd, ConsumeTrailers
  <2> QED BY <1>0, <1>4, <2>1, HTTPSteps, HalvesApart DEF IInv
<1>5. CASE ParseFrames /\ UNCHANGED <<http, stream, fed, switched>>
  <2>1. UNCHANGED state
    BY <1>5 DEF http
  <2> QED BY <1>0, <1>5, <2>1, FrameSteps, HalvesApart DEF IInv
<1>6. CASE UNCHANGED vars
  <2>1. UNCHANGED <<http, websocket, stream, fed, switched>> /\ UNCHANGED state
    BY <1>6 DEF vars, http
  <2> QED BY <1>0, <2>1, HalvesApart DEF IInv
<1> QED BY <1>1, <1>2, <1>3, <1>4, <1>5, <1>6 DEF Next, Parse

-----------------------------------------------------------------------------
\* The parsers keep to the types of module InboundBytes, whatever is sent.
THEOREM BytesTyped == Spec => []TypeOK
<1>1. IInv => TypeOK
  BY DEF IInv, HTTPInv, FramesInv, TypeOK
<1> QED BY <1>1, Initially, Inductive, PTL DEF Spec

\* HTTP11Parser tells of no body that is longer than max_body_size, declared or
\* chunked, wherever the segments are cut.
THEOREM BodiesBounded == Spec => []BodyBounded
<1>1. IInv => BodyBounded
  BY DEF IInv, HTTPInv
<1> QED BY <1>1, Initially, Inductive, PTL DEF Spec

\* Between two segments HTTP11Parser holds no more than max_header_size bytes,
\* and FrameParser less than a head and a message of the largest size.
THEOREM BuffersBounded == Spec => []BufferBounded
<1>1. ASSUME IInv PROVE BufferBounded
  <2>1. /\ buffer \in Seq(Unit) /\ Len(buffer) \in Nat
        /\ frames \in Seq(Unit) /\ Len(frames) \in Nat
        /\ fragments \in Seq(Bytes) /\ Len(fragments) \in Nat
    BY <1>1, LenProperties DEF IInv, HTTPInv, HTTPTypeOK, FramesInv
  <2>2. ASSUME HTTPBlocked, state \notin {"upgraded", "failed"}
        PROVE  Len(buffer) <= MaxHeaderSize
    <3>1. CASE ReadsLine
      BY <2>1, <2>2, <3>1, LimitsAssumption DEF HTTPBlocked, TooLong
    <3>2. CASE ~ReadsLine
      <4>1. state \in {"body", "data", "data_crlf"}
        BY <1>1, <2>2, <3>2 DEF IInv, HTTPInv, HTTPTypeOK, ReadsLine
      <4> QED BY <2>1, <2>2, <3>2, <4>1, EmptySeq, LimitsAssumption DEF HTTPBlocked
    <3> QED BY <3>1, <3>2
  <2>3. ASSUME FramesBlocked, Decoding
        PROVE  \/ Len(frames) < 4 + MaxControlPayload
               \/ Len(frames) + Len(fragments) < 4 + MaxMessageSize
    <3>1. FrameError = 0 /\ ~HasFrame
      BY <2>3 DEF FramesBlocked
    <3>2. CASE Len(frames) < 2 \/ ~HasLength
      <4>1. Len(frames) < 3
        BY <2>1, <3>2 DEF HasLength
      <4> QED BY <2>1, <4>1, MessageLimitsAssumption
    <3>3. CASE Len(frames) >= 2 /\ HasLength
      <4>1. Length \in Nat /\ Opcode \in Opcodes
        BY <3>1, <3>3 DEF FrameError
      <4>2. Len(frames) < Offset + Length /\ Offset \in 3..4
        BY <2>1, <3>1, <3>3, <4>1 DEF HasFrame, Offset
      <4>3. CASE Opcode \in ControlOpcodes
        <5>1. ~(Length > MaxControlPayload)
          BY <3>1, <3>3, <4>1, <4>3 DEF FrameError
        <5> QED BY <2>1, <4>1, <4>2, <5>1, MessageLimitsAssumption
      <4>4. CASE Opcode \notin ControlOpcodes
        <5>1. ~(Len(fragments) + Length > MaxMessageSize)
          BY <3>1, <3>3, <4>1, <4>4 DEF FrameError, TooBig
        <5> QED BY <2>1, <4>1, <4>2, <5>1, MessageLimitsAssumption
      <4> QED BY <4>3, <4>4
    <3> QED BY <2>1, <3>2, <3>3
  <2> QED BY <2>2, <2>3 DEF BufferBounded
<1> QED BY <1>1, Initially, Inductive, PTL DEF Spec

-----------------------------------------------------------------------------
\* The operators that look at no buffer mean the same in both.
LEMMA SameHTTP ==
    /\ \A l : Whole!IsRequestLine(l) <=> IsRequestLine(l)
    /\ \A hs, l : Whole!HeaderError(hs, l) = HeaderError(hs, l)
    /\ \A sum, l : Whole!SizeError(sum, l) = SizeError(sum, l)
    /\ \A d, e : Whole!Told(d, e) = Told(d, e)
    /\ Whole!NewRequest = NewRequest
    /\ \A hs : Whole!ContentLength(hs) = ContentLength(hs)
    /\ \A l, hs : Whole!AmbiguousBody(l, hs) <=> AmbiguousBody(l, hs)
    /\ \A l, hs : Whole!Framing(l, hs) = Framing(l, hs)
    /\ Whole!ReadsLine <=> ReadsLine
    /\ Whole!Crlf = Crlf
<1>1. \A l : Whole!Name(l) = Name(l) /\ Whole!Value(l) = Value(l)
  BY DEF Whole!Name, Whole!Value, Name, Value
<1>2. \A hs, n : (Whole!Has(hs, n) <=> Has(hs, n)) /\ Whole!ValueOf(hs, n) = ValueOf(hs, n)
  BY <1>1 DEF Whole!Has, Whole!ValueOf, Has, ValueOf
<1>3. \A h : Whole!HeadersSize(h) = HeadersSize(h)
  BY DEF Whole!HeadersSize, HeadersSize
<1>4. \A l : Whole!IsRequestLine(l) <=> IsRequestLine(l)
  BY <1>1 DEF Whole!IsRequestLine, IsRequestLine
<1>5. \A hs, l : Whole!HeaderError(hs, l) = HeaderError(hs, l)
  BY <1>1, <1>2, <1>3 DEF Whole!HeaderError, HeaderError, Whole!HeaderNames, HeaderNames
<1>6. \A sum, l : Whole!SizeError(sum, l) = SizeError(sum, l)
  BY <1>1 DEF Whole!SizeError, SizeError
<1>7. \A d, e : Whole!Told(d, e) = Told(d, e)
  BY DEF Whole!Told, Told
<1>8. Whole!NewRequest = NewRequest
  BY DEF Whole!NewRequest, NewRequest
<1>9. \A hs : Whole!ContentLength(hs) = ContentLength(hs) /\ (Whole!Chunked(hs) <=> Chunked(hs))
  BY <1>2 DEF Whole!ContentLength, ContentLength, Whole!Chunked, Chunked
<1>10. \A l, hs : Whole!DetectUpgrade(l, hs) <=> DetectUpgrade(l, hs)
  BY <1>1 DEF Whole!DetectUpgrade, DetectUpgrade
<1>11. \A l, hs : Whole!AmbiguousBody(l, hs) <=> AmbiguousBody(l, hs)
  BY <1>2, <1>9, <1>10 DEF Whole!AmbiguousBody, AmbiguousBody
<1>12. \A l, hs : Whole!Framing(l, hs) = Framing(l, hs)
  BY <1>9, <1>10 DEF Whole!Framing, Framing, Whole!Upgraded, Upgraded
<1>13. (Whole!ReadsLine <=> ReadsLine) /\ Whole!Crlf = Crlf
  BY DEF Whole!ReadsLine, ReadsLine, Whole!Crlf, Whole!CR, Whole!LF, Crlf, CR, LF
<1> QED BY <1>4, <1>5, <1>6, <1>7, <1>8, <1>9, <1>11, <1>12, <1>13

\* The part of the stream that a parser holds is the first of what it has ahead.
LEMMA AheadFacts ==
    ASSUME IInv
    PROVE  /\ Unread \in Seq(Unit) /\ buffer \in Seq(Unit) /\ frames \in Seq(Unit)
           /\ HTTPAhead \in Seq(Unit) /\ FramesAhead \in Seq(Unit)
           /\ ~switched => HTTPAhead = buffer \o Unread /\ FramesAhead = frames
           /\ switched => HTTPAhead = buffer /\ FramesAhead = frames \o Unread
<1>1. stream.units \in Seq(Unit) /\ fed \in 0..Len(stream.units)
  BY StreamsAssumption DEF IInv
<1>2. Unread \in Seq(Unit) /\ buffer \in Seq(Unit) /\ frames \in Seq(Unit)
  BY <1>1, RestIsSeq DEF Unread, IInv, HTTPInv, HTTPTypeOK, FramesInv
<1> QED BY <1>2, ConcatProperties DEF HTTPAhead, FramesAhead, IInv

LEMMA Prefixed ==
    ASSUME NEW s \in Seq(Unit), NEW t \in Seq(Unit)
    PROVE  /\ s \o t \in Seq(Unit) /\ Len(s \o t) = Len(s) + Len(t)
           /\ Len(s) \in Nat /\ Len(t) \in Nat /\ Len(s \o t) \in Nat
           /\ DOMAIN s = 1..Len(s) /\ DOMAIN (s \o t) = 1..Len(s \o t)
           /\ \A i \in 1..Len(s) : (s \o t)[i] = s[i]
BY ConcatProperties, LenProperties

\* Units that are strung together, however they come.
LEMMA UnitsAssociate ==
    \A a, b, c \in Seq(Unit) : (a \o b) \o c = a \o (b \o c)
<1>1. \A S : \A s, t, u \in Seq(S) : (s \o t) \o u = s \o (t \o u)
  BY ConcatAssociative
<1> QED BY <1>1

\* What is cut off the front of a part is cut off the front of the whole.
LEMMA CutPrefix ==
    ASSUME NEW s \in Seq(Unit), NEW t \in Seq(Unit), NEW k \in 0..Len(s)
    PROVE  /\ SubSeq(s \o t, 1, k) = SubSeq(s, 1, k)
           /\ SubSeq(s \o t, k + 1, Len(s \o t)) = SubSeq(s, k + 1, Len(s)) \o t
<1>1. /\ s \o t \in Seq(Unit) /\ Len(s \o t) = Len(s) + Len(t)
      /\ Len(s) \in Nat /\ Len(t) \in Nat
  BY Prefixed
<1>2. SubSeq(s \o t, 1, k) = SubSeq(s, 1, k)
  <2>1. CASE k = 0
    BY <2>1, SubSeqEmpty
  <2>2. CASE k # 0
    <3>1. k \in 1..Len(s) /\ 1 \in 1..Len(s)
      BY <1>1, <2>2
    <3> QED BY <3>1, SubSeqOfConcat1
  <2> QED BY <2>1, <2>2
<1>3. SubSeq(s, k + 1, Len(s)) \in Seq(Unit) /\ SubSeq(s, 1, k) \in Seq(Unit)
      /\ SubSeq(s \o t, k + 1, Len(s \o t)) \in Seq(Unit)
  <2>1. k \in 0..Len(s \o t)
    BY <1>1
  <2> QED BY <1>1, <2>1, RestIsSeq
<1>4. SubSeq(s, 1, k) \o SubSeq(s, k + 1, Len(s)) = s
  <2>1. 1 \in 1..Len(s) + 1 /\ k \in 1 - 1..Len(s) /\ Len(s) \in k..Len(s)
    BY <1>1
  <2>2. SubSeq(s, 1, k) \o SubSeq(s, k + 1, Len(s)) = SubSeq(s, 1, Len(s))
    BY <2>1, ConcatAdjacentSubSeq
  <2> QED BY <2>2, SubSeqFull
<1>5. SubSeq(s \o t, 1, k) \o SubSeq(s \o t, k + 1, Len(s \o t)) = s \o t
  <2>1. 1 \in 1..Len(s \o t) + 1 /\ k \in 1 - 1..Len(s \o t) /\ Len(s \o t) \in k..Len(s \o t)
    BY <1>1
  <2>2. SubSeq(s \o t, 1, k) \o SubSeq(s \o t, k + 1, Len(s \o t)) = SubSeq(s \o t, 1, Len(s \o t))
    BY <1>1, <2>1, ConcatAdjacentSubSeq
  <2> QED BY <1>1, <2>2, SubSeqFull
<1> DEFINE front == SubSeq(s, 1, k)
           rest  == SubSeq(s, k + 1, Len(s))
           whole == SubSeq(s \o t, k + 1, Len(s \o t))
<1>6. front \in Seq(Unit) /\ rest \in Seq(Unit) /\ whole \in Seq(Unit) /\ t \in Seq(Unit)
  BY <1>3
<1>7. (front \o rest) \o t = front \o whole
  BY <1>2, <1>4, <1>5
<1> HIDE DEF front, rest, whole
<1>8. (front \o rest) \o t = front \o (rest \o t)
  BY <1>6, UnitsAssociate, SMTT(30)
<1>9. rest \o t \in Seq(Unit)
  BY <1>6, ConcatProperties
<1>10. whole = rest \o t
  BY <1>6, <1>7, <1>8, <1>9, ConcatSimplifications
<1> QED BY <1>2, <1>10 DEF rest, whole

\* The first CRLF that has arrived is the first of the whole; what ends behind
\* the part that has arrived is not shorter than it.
LEMMA LineAgrees ==
    ASSUME IInv, ~switched
    PROVE  /\ LineEnd # 0 => /\ Whole!LineEnd = LineEnd
                             /\ LineEnd \in 1..(Len(buffer) - 1)
           /\ LineEnd = 0 => Whole!LineEnd = 0 \/ Whole!LineEnd >= Len(buffer)
<1>1. /\ buffer \in Seq(Unit) /\ Unread \in Seq(Unit) /\ HTTPAhead = buffer \o Unread
  BY AheadFacts
<1>2. /\ DOMAIN buffer = 1..Len(buffer) /\ Len(buffer) \in Nat
      /\ DOMAIN HTTPAhead = 1..Len(HTTPAhead) /\ Len(HTTPAhead) \in Nat /\ Len(buffer) <= Len(HTTPAhead)
      /\ \A i \in 1..Len(buffer) : HTTPAhead[i] = buffer[i]
  BY <1>1, Prefixed
<1>3. Whole!CR = CR /\ Whole!LF = LF
  BY DEF Whole!CR, Whole!LF, CR, LF
<1>4. ASSUME NEW i \in 1..(Len(buffer) - 1) PROVE Whole!EndsLine(i) <=> EndsLine(i)
  <2>1. i \in 1..Len(buffer) /\ i + 1 \in 1..Len(buffer) /\ i < Len(HTTPAhead) /\ i < Len(buffer)
    BY <1>2
  <2> QED BY <1>2, <1>3, <2>1 DEF Whole!EndsLine, EndsLine
<1>5. \A i, j \in Nat : Whole!FirstEnd(i) /\ Whole!FirstEnd(j) /\ i # 0 /\ j # 0 => i = j
  <2> SUFFICES ASSUME NEW i \in Nat, NEW j \in Nat, Whole!FirstEnd(i), Whole!FirstEnd(j), i < j, i # 0
               PROVE  FALSE
    OBVIOUS
  <2>1. i \in 1..(j - 1)
    OBVIOUS
  <2> QED BY <2>1 DEF Whole!FirstEnd
<1>6. CASE LineEnd # 0
  <2>1. LineEnd \in 1..Len(buffer) /\ FirstEnd(LineEnd)
    BY <1>2, <1>6 DEF LineEnd
  <2>2. LineEnd \in 1..(Len(buffer) - 1)
    BY <1>2, <2>1 DEF FirstEnd, EndsLine
  <2>3. Whole!FirstEnd(LineEnd)
    <3>1. \A j \in 1..(LineEnd - 1) : j \in 1..(Len(buffer) - 1)
      BY <1>2, <2>2
    <3> QED BY <1>4, <2>1, <2>2, <3>1 DEF FirstEnd, Whole!FirstEnd
  <2>4. LineEnd \in DOMAIN HTTPAhead
    BY <1>2, <2>2
  <2>5. \A i \in DOMAIN HTTPAhead : Whole!FirstEnd(i) => i = LineEnd
    BY <1>2, <1>5, <2>2, <2>3
  <2>6. Whole!LineEnd = LineEnd
    BY <2>3, <2>4, <2>5 DEF Whole!LineEnd
  <2> QED BY <1>6, <2>2, <2>6
<1>7. CASE LineEnd = 0
  <2>1. \A i \in 1..Len(buffer) : ~FirstEnd(i)
    BY <1>2, <1>7 DEF LineEnd
  <2>2. ASSUME NEW i \in 1..(Len(buffer) - 1), Whole!FirstEnd(i) PROVE FALSE
    <3>1. \A j \in 1..(i - 1) : j \in 1..(Len(buffer) - 1)
      BY <1>2
    <3>2. FirstEnd(i)
      BY <1>4, <2>2, <3>1 DEF FirstEnd, Whole!FirstEnd
    <3> QED BY <1>2, <2>1, <3>2
  <2>3. CASE \E i \in DOMAIN HTTPAhead : Whole!FirstEnd(i)
    <3>1. Whole!LineEnd \in DOMAIN HTTPAhead /\ Whole!FirstEnd(Whole!LineEnd)
      BY <2>3 DEF Whole!LineEnd
    <3>2. Whole!LineEnd \notin 1..(Len(buffer) - 1)
      BY <2>2, <3>1
    <3> QED BY <1>2, <1>7, <3>1, <3>2
  <2>4. CASE ~\E i \in DOMAIN HTTPAhead : Whole!FirstEnd(i)
    BY <1>7, <2>4 DEF Whole!LineEnd
  <2> QED BY <1>7, <2>3, <2>4
<1> QED BY <1>6, <1>7

\* A line that is complete is the line of the whole, and one that is too long
\* already cannot become any shorter.
LEMMA LineIsWhole ==
    ASSUME IInv, ~switched
    PROVE  /\ HasLine => Whole!HasLine /\ Whole!Line = Line
           /\ TooLong => Whole!TooLong \/ Whole!LineEnd = MaxHeaderSize + 1
<1>1. /\ buffer \in Seq(Unit) /\ Unread \in Seq(Unit) /\ HTTPAhead = buffer \o Unread
  BY AheadFacts
<1>2. Len(buffer) \in Nat /\ Len(HTTPAhead) \in Nat /\ Len(buffer) <= Len(HTTPAhead)
  BY <1>1, Prefixed
<1>3. ASSUME HasLine PROVE Whole!HasLine /\ Whole!Line = Line
  <2>1. LineEnd # 0 /\ Whole!LineEnd = LineEnd /\ LineEnd \in 1..(Len(buffer) - 1)
    BY <1>3, LineAgrees DEF HasLine
  <2>2. Whole!HasLine
    BY <1>3, <2>1 DEF HasLine, TooLong, Whole!HasLine, Whole!TooLong
  <2>3. LineEnd - 1 \in 0..Len(buffer)
    BY <1>2, <2>1
  <2>4. Whole!Line = Line
    BY <1>1, <2>1, <2>3, CutPrefix DEF Whole!Line, Line
  <2> QED BY <2>2, <2>4
<1>4. ASSUME TooLong PROVE Whole!TooLong \/ Whole!LineEnd = MaxHeaderSize + 1
  <2>1. CASE LineEnd # 0
    BY <1>4, <2>1, LineAgrees DEF TooLong, Whole!TooLong
  <2>2. CASE LineEnd = 0
    <3>1. Len(buffer) > MaxHeaderSize
      BY <1>4, <2>2 DEF TooLong
    <3>2. CASE Whole!LineEnd = 0
      BY <1>2, <3>1, <3>2, LimitsAssumption DEF Whole!TooLong
    <3>3. CASE Whole!LineEnd # 0
      <4>1. Whole!LineEnd \in DOMAIN HTTPAhead
        BY <3>3 DEF Whole!LineEnd
      <4>2. Whole!LineEnd \in Nat /\ Whole!LineEnd >= Len(buffer)
        BY <1>1, <2>2, <3>3, <4>1, LineAgrees, Prefixed
      <4> QED BY <1>2, <3>1, <3>3, <4>2, LimitsAssumption DEF Whole!TooLong
    <3> QED BY <3>2, <3>3
  <2> QED BY <2>1, <2>2
<1> QED BY <1>3, <1>4

\* A step of HTTP11Parser moves nothing else.
HTTPStep == IInv /\ ~switched /\ UNCHANGED <<websocket, stream, fed, switched>>

\* What it takes from its buffer, it takes from the whole.
LEMMA AheadMoves ==
    ASSUME HTTPStep
    PROVE  /\ UNCHANGED buffer => UNCHANGED HTTPAhead
           /\ UNCHANGED FramesAhead
           /\ HasLine /\ TakeLine => Whole!TakeLine
           /\ \A n \in 0..Len(buffer) : Drop(n) => Whole!Drop(n)
           /\ \A n \in 0..Len(buffer) : SubSeq(HTTPAhead, 1, n) = SubSeq(buffer, 1, n)
<1>1. /\ IInv /\ ~switched /\ UNCHANGED <<websocket, stream, fed, switched>>
  BY DEF HTTPStep
<1>2. /\ buffer \in Seq(Unit) /\ Unread \in Seq(Unit) /\ HTTPAhead = buffer \o Unread
      /\ FramesAhead = frames /\ Len(buffer) \in Nat
  BY <1>1, AheadFacts, LenProperties
<1>3. Unread' = Unread
  BY <1>1 DEF Unread
<1>4. HTTPAhead' = buffer' \o Unread /\ FramesAhead' = frames
  BY <1>1, <1>3 DEF HTTPAhead, FramesAhead, websocket
<1>5. ASSUME NEW n \in 0..Len(buffer)
      PROVE  (Drop(n) => Whole!Drop(n)) /\ SubSeq(HTTPAhead, 1, n) = SubSeq(buffer, 1, n)
  BY <1>2, <1>4, CutPrefix DEF Drop, Whole!Drop
<1>6. ASSUME HasLine, TakeLine PROVE Whole!TakeLine
  <2>1. LineEnd # 0 /\ Whole!LineEnd = LineEnd /\ LineEnd \in 1..(Len(buffer) - 1)
    BY <1>1, <1>6, LineAgrees DEF HasLine
  <2>2. LineEnd + 1 \in 0..Len(buffer) /\ (LineEnd + 1) + 1 = LineEnd + 2
    BY <1>2, <2>1
  <2>3. Drop(LineEnd + 1)
    BY <1>6, <2>2 DEF TakeLine, Drop
  <2>4. Whole!Drop(LineEnd + 1)
    BY <1>5, <2>2, <2>3
  <2> QED BY <2>1, <2>2, <2>4 DEF Whole!TakeLine, Whole!Drop
<1>7. (UNCHANGED buffer => UNCHANGED HTTPAhead) /\ UNCHANGED FramesAhead
  BY <1>2, <1>4
<1> QED BY <1>5, <1>6, <1>7

\* What a step does besides reading does not depend on the buffer.
LEMMA SameEffects ==
    /\ \A e : Fail(e) => Whole!Fail(e)
    /\ ResetForNextRequest <=> Whole!ResetForNextRequest
    /\ CompleteRequest => Whole!CompleteRequest
    /\ UNCHANGED request <=> UNCHANGED Whole!request
<1>1. \A e : Fail(e) => Whole!Fail(e)
  BY DEF Fail, Whole!Fail, request, Whole!request
<1>2. ResetForNextRequest <=> Whole!ResetForNextRequest
  BY DEF ResetForNextRequest, Whole!ResetForNextRequest
<1>3. CompleteRequest => Whole!CompleteRequest
  BY <1>2, SameHTTP DEF CompleteRequest, Whole!CompleteRequest
<1>4. UNCHANGED request <=> UNCHANGED Whole!request
  BY DEF request, Whole!request
<1> QED BY <1>1, <1>2, <1>3, <1>4

-----------------------------------------------------------------------------
\* A chunk that is being read is not read to its end, and FrameParser has seen
\* nothing before the switch.
Untold ==
    /\ state = "data" => left > 0
    /\ ~switched => frames = <<>> /\ ~wsClosed

LEMMA UntoldHolds ==
    /\ Init => Untold
    /\ IInv /\ Untold /\ [Next]_vars => Untold'
<1>1. Init => Untold
  BY DEF Init, HTTPInit, Fresh, WSInit, Untold
<1>2. ASSUME IInv, Untold, [Next]_vars PROVE Untold'
  <2>1. /\ left \in Nat /\ total \in Nat /\ buffer \in Seq(Unit) /\ Len(buffer) \in Nat
        /\ switched \in BOOLEAN
    BY <1>2, LimitsAssumption, LenProperties DEF IInv, HTTPInv, HTTPTypeOK
  <2>3. ASSUME NEW n \in Cuts, DataReceived(n) PROVE Untold'
    BY <1>2, <2>3 DEF DataReceived, FeedHTTP, http, websocket, request, Untold
  <2>4. CASE BeginWebSocket
    BY <1>2, <2>4 DEF BeginWebSocket, Untold, request
  <2>5. CASE EofReceived
    BY <1>2, <2>5 DEF EofReceived, FeedEof, Untold, websocket, request
  <2>6. CASE ParseHTTP /\ UNCHANGED <<websocket, stream, fed, switched>>
    <3>1. UNCHANGED <<frames, wsClosed, switched>>
      BY <2>6 DEF websocket
    <3>2. ASSUME state' = "data" PROVE left' > 0
      <4>1. CASE UNCHANGED <<state, left>>
        BY <1>2, <3>2, <4>1 DEF Untold
      <4>2. CASE FinishHeaders
        BY <3>2, <4>2 DEF FinishHeaders, Fail, Framing, Upgraded
      <4>3. CASE ConsumeChunkSize
        BY <2>1, <3>2, <4>3 DEF ConsumeChunkSize, Fail, SizeError
      <4>4. CASE ConsumeChunkData
        <5>1. state = "data" /\ left > 0
          BY <1>2, <4>4 DEF Untold, ConsumeChunkData
        <5>2. Taken \in 0..left /\ left' = left - Taken /\ Taken # left
          BY <2>1, <3>2, <4>4 DEF ConsumeChunkData, TakeChunk, Taken
        <5> QED BY <2>1, <5>2
      <4>5. CASE ConsumeBody
        BY <3>2, <4>5 DEF ConsumeBody, NoBody, TakeBody, CompleteRequest, ResetForNextRequest
      <4> QED
        BY <2>6, <3>2, <4>1, <4>2, <4>3, <4>4, <4>5
        DEF ParseHTTP, RejectLine, ConsumeStartLine, ConsumeHeaderLine, ConsumeChunkEnd,
            ConsumeTrailers, CompleteRequest, ResetForNextRequest, Fail, request
    <3> QED BY <1>2, <3>1, <3>2 DEF Untold
  <2>7. CASE ParseFrames /\ UNCHANGED <<http, stream, fed, switched>>
    <3>1. switched
      <4> SUFFICES ASSUME ~switched PROVE FALSE
        BY <2>1
      <4>1. frames = <<>> /\ Len(frames) = 0
        BY <1>2, EmptySeq DEF Untold
      <4>2. FrameError = 0 /\ ~HasFrame
        BY <4>1 DEF FrameError, HasFrame
      <4> QED BY <2>7, <4>2 DEF ParseFrames, RejectFrame, HandlePing, HandleClose, HandleData
    <3> QED BY <1>2, <2>7, <3>1 DEF Untold, http, request
  <2>8. CASE UNCHANGED vars
    BY <1>2, <2>8 DEF vars, http, request, websocket, Untold
  <2> QED BY <1>2, <2>3, <2>4, <2>5, <2>6, <2>7, <2>8 DEF Next, Parse
<1> QED BY <1>1, <1>2

-----------------------------------------------------------------------------
\* Every step of HTTP11Parser is a step that the whole stream allows.
LEMMA HTTPReads ==
    ASSUME HTTPStep, Untold, ParseHTTP
    PROVE  Whole!ReadHTTP
<1> USE SameHTTP, SameEffects
<1>1. IInv /\ ~switched /\ UNCHANGED <<websocket, switched>>
  BY DEF HTTPStep
<1>2. /\ buffer \in Seq(Unit) /\ Len(buffer) \in Nat /\ Len(HTTPAhead) \in Nat
      /\ Len(buffer) <= Len(HTTPAhead) /\ left \in Nat
  <2>1. buffer \in Seq(Unit) /\ Unread \in Seq(Unit) /\ HTTPAhead = buffer \o Unread
    BY <1>1, AheadFacts
  <2>2. left \in Nat
    BY <1>1, LimitsAssumption DEF IInv, HTTPInv, HTTPTypeOK
  <2> QED BY <2>1, <2>2, Prefixed
<1>3. UNCHANGED <<Whole!websocket, switched>>
  BY <1>1, AheadMoves DEF Whole!websocket, websocket
<1>4. UNCHANGED buffer => UNCHANGED HTTPAhead
  BY AheadMoves
<1>5. HasLine => Whole!HasLine /\ Whole!Line = Line /\ (TakeLine => Whole!TakeLine)
  BY <1>1, LineIsWhole, AheadMoves
<1>6. \A n \in 0..Len(buffer) : /\ Drop(n) => Whole!Drop(n)
                                /\ SubSeq(HTTPAhead, 1, n) = SubSeq(buffer, 1, n)
  BY AheadMoves
<1>7. CASE RejectLine
  <2>1. ReadsLine /\ TooLong /\ Fail("too_large") /\ UNCHANGED HTTPAhead
    BY <1>4, <1>7 DEF RejectLine
  <2>2. Whole!TooLong \/ Whole!LineEnd = MaxHeaderSize + 1
    BY <1>1, <2>1, LineIsWhole
  <2>3. Whole!RejectLine \/ Whole!RejectAtLimit
    BY <2>1, <2>2 DEF Whole!RejectLine, Whole!RejectAtLimit
  <2> QED BY <1>3, <2>3 DEF Whole!ReadHTTP
<1>8. CASE ConsumeStartLine
  <2>1. Whole!ConsumeStartLine
    BY <1>5, <1>8 DEF ConsumeStartLine, Whole!ConsumeStartLine
  <2> QED BY <1>3, <2>1 DEF Whole!ReadHTTP
<1>9. CASE ConsumeHeaderLine
  <2>1. Whole!ConsumeHeaderLine
    BY <1>5, <1>9 DEF ConsumeHeaderLine, Whole!ConsumeHeaderLine
  <2> QED BY <1>3, <2>1 DEF Whole!ReadHTTP
<1>10. CASE FinishHeaders
  <2>1. Whole!FinishHeaders
    BY <1>5, <1>10 DEF FinishHeaders, Whole!FinishHeaders
  <2> QED BY <1>3, <2>1 DEF Whole!ReadHTTP
<1>11. CASE ConsumeBody
  <2>1. CASE NoBody
    <3>1. Whole!NoBody
      BY <1>4, <2>1 DEF NoBody, Whole!NoBody
    <3> QED BY <1>3, <3>1 DEF Whole!ReadHTTP
  <2>2. CASE state = "body" /\ left > 0 /\ buffer # <<>> /\ TakeBody(Taken)
    <3>1. Taken \in 1..Len(buffer) /\ Taken \in 1..Whole!Taken
      BY <1>2, <2>2, EmptySeq DEF Taken, Whole!Taken
    <3>2. Whole!TakeBody(Taken)
      <4>1. /\ Drop(Taken) => Whole!Drop(Taken)
            /\ SubSeq(HTTPAhead, 1, Taken) = SubSeq(buffer, 1, Taken)
        BY <1>2, <1>6, <3>1
      <4> HIDE SameHTTP
      <4>2. Whole!Told(SubSeq(HTTPAhead, 1, Taken), Taken = left)
              = Told(SubSeq(buffer, 1, Taken), Taken = left)
        BY <4>1 DEF Told, Whole!Told
      <4> QED BY <2>2, <4>1, <4>2 DEF TakeBody, Whole!TakeBody
    <3>3. Whole!BodyPiece
      BY <2>2, <3>1, <3>2 DEF Whole!BodyPiece
    <3> QED BY <1>3, <3>3 DEF Whole!ReadHTTP
  <2> QED BY <1>11, <2>1, <2>2 DEF ConsumeBody
<1>12. CASE ConsumeChunkSize
  <2>1. Whole!ConsumeChunkSize
    <3>1. Whole!Value(Line) = Value(Line)
      BY DEF Whole!Value, Value
    <3> QED BY <1>5, <1>12, <3>1 DEF ConsumeChunkSize, Whole!ConsumeChunkSize
  <2> QED BY <1>3, <2>1 DEF Whole!ReadHTTP
<1>13. CASE ConsumeChunkData
  <2>1. state = "data" /\ buffer # <<>> /\ left > 0 /\ TakeChunk(Taken)
    BY <1>13 DEF ConsumeChunkData, Untold
  <2>2. Taken \in 1..Len(buffer) /\ Taken \in 1..Whole!Taken
    BY <1>2, <2>1, EmptySeq DEF Taken, Whole!Taken
  <2>3. Whole!TakeChunk(Taken)
    <3>1. /\ Drop(Taken) => Whole!Drop(Taken)
          /\ SubSeq(HTTPAhead, 1, Taken) = SubSeq(buffer, 1, Taken)
      BY <1>2, <1>6, <2>2
    <3> HIDE SameHTTP
    <3>2. Whole!Told(SubSeq(HTTPAhead, 1, Taken), FALSE) = Told(SubSeq(buffer, 1, Taken), FALSE)
      BY <3>1 DEF Told, Whole!Told
    <3> QED BY <2>1, <3>1, <3>2 DEF TakeChunk, Whole!TakeChunk
  <2>4. Whole!ChunkPiece
    BY <2>1, <2>2, <2>3 DEF Whole!ChunkPiece
  <2> QED BY <1>3, <2>4 DEF Whole!ReadHTTP
<1>14. CASE ConsumeChunkEnd
  <2>1. 2 \in 0..Len(buffer) /\ Len(HTTPAhead) >= 2
    BY <1>2, <1>14 DEF ConsumeChunkEnd
  <2>2. Whole!ConsumeChunkEnd
    BY <1>4, <1>6, <1>14, <2>1 DEF ConsumeChunkEnd, Whole!ConsumeChunkEnd
  <2> QED BY <1>3, <2>2 DEF Whole!ReadHTTP
<1>15. CASE ConsumeTrailers
  <2>1. Whole!ConsumeTrailers
    BY <1>5, <1>15 DEF ConsumeTrailers, Whole!ConsumeTrailers
  <2> QED BY <1>3, <2>1 DEF Whole!ReadHTTP
<1> QED BY <1>7, <1>8, <1>9, <1>10, <1>11, <1>12, <1>13, <1>14, <1>15 DEF ParseHTTP

-----------------------------------------------------------------------------
\* The operators of FrameParser that look at no buffer mean the same in both.
LEMMA SameFrames ==
    /\ Whole!Opcodes = Opcodes /\ Whole!ControlOpcodes = ControlOpcodes
    /\ \A p : Whole!ApplyMask(p) = ApplyMask(p)
    /\ \A p : Whole!IsUtf8(p) <=> IsUtf8(p)
    /\ \A c : Raise(c) => Whole!Raise(c)
    /\ \A k, d : Emit(k, d) => Whole!Emit(k, d)
    /\ Whole!Decoding <=> Decoding
<1>1. Whole!Opcodes = Opcodes /\ Whole!ControlOpcodes = ControlOpcodes
  BY DEF Whole!Opcodes, Opcodes, Whole!ControlOpcodes, ControlOpcodes
<1>2. \A p : Whole!ApplyMask(p) = ApplyMask(p)
  <2>1. \A u : Whole!MaskUnit(u) = MaskUnit(u)
    BY DEF Whole!MaskUnit, MaskUnit, Whole!MaskPairs, MaskPairs
  <2> QED BY <2>1 DEF Whole!ApplyMask, ApplyMask
<1>3. \A p : Whole!IsUtf8(p) <=> IsUtf8(p)
  BY DEF Whole!IsUtf8, IsUtf8
<1>4. /\ \A c : Raise(c) => Whole!Raise(c)
      /\ \A k, d : Emit(k, d) => Whole!Emit(k, d)
  BY DEF Raise, Whole!Raise, Emit, Whole!Emit
<1>5. Whole!Decoding <=> Decoding
  BY DEF Whole!Decoding, Decoding
<1> QED BY <1>1, <1>2, <1>3, <1>4, <1>5

\* The head of a frame, as far as it has arrived, is the head of the whole.
LEMMA HeadAgrees ==
    ASSUME IInv, switched, Len(frames) >= 2
    PROVE  /\ Len(FramesAhead) >= 2
           /\ Whole!Fin = Fin /\ Whole!Opcode = Opcode /\ (Whole!Masked <=> Masked)
           /\ Whole!Offset = Offset
           /\ HasLength => /\ Whole!HasLength /\ Whole!Length = Length
                           /\ Whole!TooBig <=> TooBig
<1>1. /\ frames \in Seq(Unit) /\ Unread \in Seq(Unit) /\ FramesAhead = frames \o Unread
  BY AheadFacts
<1>2. /\ Len(frames) \in Nat /\ Len(FramesAhead) \in Nat /\ Len(frames) <= Len(FramesAhead)
      /\ \A i \in 1..Len(frames) : FramesAhead[i] = frames[i]
  BY <1>1, Prefixed
<1>3. FramesAhead[1] = frames[1] /\ FramesAhead[2] = frames[2]
  BY <1>2
<1>4. Whole!Fin = Fin /\ Whole!Opcode = Opcode /\ (Whole!Masked <=> Masked)
  BY <1>3 DEF Whole!Fin, Fin, Whole!Opcode, Opcode, Whole!Masked, Masked
<1>5. (Whole!LongForm <=> LongForm) /\ Whole!Offset = Offset
  BY <1>3 DEF Whole!LongForm, LongForm, Whole!Offset, Offset
<1>6. ASSUME HasLength PROVE Whole!HasLength /\ Whole!Length = Length /\ (Whole!TooBig <=> TooBig)
  <2>1. LongForm => FramesAhead[3] = frames[3]
    BY <1>2, <1>6 DEF HasLength
  <2>2. Whole!HasLength
    BY <1>2, <1>5, <1>6 DEF HasLength, Whole!HasLength
  <2>3. Whole!Length = Length
    BY <1>3, <1>5, <2>1 DEF Whole!Length, Length
  <2> QED BY <2>2, <2>3 DEF Whole!TooBig, TooBig
<1> QED BY <1>2, <1>4, <1>5, <1>6

\* A frame that is refused is refused for what the whole stream says, and a
\* frame that is complete is the next of the whole.
LEMMA FrameIsWhole ==
    ASSUME IInv, switched
    PROVE  /\ FrameError # 0 => Whole!FrameError = FrameError
           /\ HasFrame => /\ Whole!HasFrame /\ Whole!Payload = Payload
                          /\ Len(frames) >= 2 /\ Offset + Length \in 0..Len(frames)
                          /\ Whole!Offset = Offset /\ Whole!Length = Length
<1>1. /\ frames \in Seq(Unit) /\ Unread \in Seq(Unit) /\ FramesAhead = frames \o Unread
  BY AheadFacts
<1>2. /\ Len(frames) \in Nat /\ Len(FramesAhead) \in Nat /\ Len(frames) <= Len(FramesAhead)
  BY <1>1, Prefixed
<1>3. ASSUME Len(frames) >= 2, FrameError # 0 \/ HasLength
      PROVE  Whole!FrameError = FrameError
  <2>1. HasLength \/ Opcode \notin Opcodes \/ ~Masked
    BY <1>2, <1>3 DEF FrameError
  <2>2. CASE HasLength
    BY <1>2, <1>3, <2>2, HeadAgrees, SameFrames DEF FrameError, Whole!FrameError
  <2>3. CASE Opcode \notin Opcodes \/ ~Masked
    BY <1>2, <1>3, <2>3, HeadAgrees, SameFrames DEF FrameError, Whole!FrameError
  <2> QED BY <2>1, <2>2, <2>3
<1>4. FrameError # 0 => Len(frames) >= 2
  BY <1>2 DEF FrameError
<1>5. ASSUME HasFrame
      PROVE  /\ Whole!HasFrame /\ Whole!Payload = Payload
             /\ Len(frames) >= 2 /\ Offset + Length \in 0..Len(frames)
             /\ Whole!Offset = Offset /\ Whole!Length = Length
  <2>1. Len(frames) >= 2 /\ HasLength /\ FrameError = 0 /\ Len(frames) >= Offset + Length
    BY <1>5 DEF HasFrame
  <2>2. Length \in Nat /\ Offset \in 3..4
    BY <1>1, <1>5, FrameFacts DEF Offset
  <2>3. Whole!HasLength /\ Whole!Length = Length /\ Whole!Offset = Offset /\ Whole!FrameError = 0
    BY <1>3, <2>1, HeadAgrees
  <2>4. Whole!HasFrame
    BY <1>2, <2>1, <2>2, <2>3 DEF Whole!HasFrame
  <2>5. SubSeq(FramesAhead, Offset + 1, Offset + Length) = SubSeq(frames, Offset + 1, Offset + Length)
    <3>1. CASE Length = 0
      BY <2>2, <3>1, SubSeqEmpty
    <3>2. CASE Length # 0
      <4>1. Offset + 1 \in 1..Len(frames) /\ Offset + Length \in 1..Len(frames)
        BY <1>2, <2>1, <2>2, <3>2
      <4> QED BY <1>1, <4>1, SubSeqOfConcat1
    <3> QED BY <3>1, <3>2
  <2>6. Whole!Payload = Payload
    BY <2>3, <2>5, SameFrames DEF Whole!Payload, Payload
  <2> QED BY <1>2, <2>1, <2>2, <2>3, <2>4, <2>6
<1> QED BY <1>3, <1>4, <1>5

\* A step of FrameParser moves nothing else.
FrameStep == IInv /\ switched /\ UNCHANGED <<http, stream, fed, switched>>

LEMMA FramesRead ==
    ASSUME FrameStep, ParseFrames
    PROVE  Whole!ReadFrames
<1>1. IInv /\ switched /\ UNCHANGED <<http, stream, fed, switched>> /\ Decoding
  BY DEF FrameStep, ParseFrames
<1>2. /\ frames \in Seq(Unit) /\ Unread \in Seq(Unit) /\ FramesAhead = frames \o Unread
  BY <1>1, AheadFacts
<1>3. FramesAhead' = frames' \o Unread /\ HTTPAhead' = HTTPAhead
  BY <1>1 DEF FramesAhead, HTTPAhead, Unread, http
<1>4. UNCHANGED <<Whole!http, switched>>
  BY <1>1, <1>3 DEF Whole!http, http, Whole!request, request
<1>5. Whole!Decoding
  BY <1>1, SameFrames
<1>6. ASSUME HasFrame
      PROVE  /\ Whole!HasFrame /\ Whole!Payload = Payload
             /\ Whole!Opcode = Opcode /\ Whole!Fin = Fin
             /\ Consume => Whole!Consume
  <2>1. /\ Whole!HasFrame /\ Whole!Payload = Payload
        /\ Len(frames) >= 2 /\ Offset + Length \in 0..Len(frames)
        /\ Whole!Offset = Offset /\ Whole!Length = Length
    BY <1>1, <1>6, FrameIsWhole
  <2>2. SubSeq(FramesAhead, Offset + Length + 1, Len(FramesAhead))
          = SubSeq(frames, Offset + Length + 1, Len(frames)) \o Unread
    BY <1>2, <2>1, CutPrefix
  <2>3. Consume => Whole!Consume
    BY <1>3, <2>1, <2>2 DEF Consume, Whole!Consume
  <2>4. Whole!Opcode = Opcode /\ Whole!Fin = Fin
    BY <1>1, <2>1, HeadAgrees
  <2> QED BY <2>1, <2>3, <2>4
<1>7. CASE RejectFrame
  <2>1. FrameError # 0 /\ Whole!FrameError = FrameError
    BY <1>1, <1>7, FrameIsWhole DEF RejectFrame
  <2>2. UNCHANGED <<FramesAhead, wsClosed>>
    BY <1>2, <1>3, <1>7 DEF RejectFrame
  <2>3. Whole!Raise(Whole!FrameError)
    BY <1>7, <2>1, SameFrames DEF RejectFrame
  <2>4. Whole!RejectFrame
    BY <2>1, <2>2, <2>3 DEF Whole!RejectFrame
  <2> QED BY <1>4, <1>5, <2>4 DEF Whole!ReadFrames, Whole!ParseFrames
<1>8. CASE HandlePing
  <2>1. Whole!HandlePing
    BY <1>6, <1>8, SameFrames DEF HandlePing, Whole!HandlePing
  <2> QED BY <1>4, <1>5, <2>1 DEF Whole!ReadFrames, Whole!ParseFrames
<1>9. CASE HandleClose
  <2>1. HasFrame /\ Whole!Payload = Payload
    BY <1>6, <1>9 DEF HandleClose
  <2>2. Whole!CloseError(Payload) = CloseError(Payload)
    BY SameFrames DEF CloseError, Whole!CloseError
  <2>3. Whole!HandleClose
    BY <1>6, <1>9, <2>2, SameFrames DEF HandleClose, Whole!HandleClose
  <2> QED BY <1>4, <1>5, <2>3 DEF Whole!ReadFrames, Whole!ParseFrames
<1>10. CASE HandleData
  <2>1. HasFrame /\ Whole!Payload = Payload /\ Whole!Opcode = Opcode /\ Whole!Fin = Fin
    BY <1>6, <1>10 DEF HandleData
  <2>2. /\ Whole!MessageOpcode = MessageOpcode
        /\ Whole!OutOfTurn <=> OutOfTurn
        /\ Whole!BadText <=> BadText
    BY <2>1, SameFrames
    DEF MessageOpcode, Whole!MessageOpcode, OutOfTurn, Whole!OutOfTurn, BadText, Whole!BadText
  <2>3. Whole!HandleData
    BY <1>6, <1>10, <2>1, <2>2, SameFrames DEF HandleData, Whole!HandleData
  <2> QED BY <1>4, <1>5, <2>3 DEF Whole!ReadFrames, Whole!ParseFrames
<1> QED BY <1>7, <1>8, <1>9, <1>10 DEF ParseFrames

-----------------------------------------------------------------------------
\* All of the stream is ahead when the connection begins.
LEMMA WholeInit == Init => Whole!Init
<1> SUFFICES ASSUME Init PROVE Whole!Init
  OBVIOUS
<1>1. stream \in Streams /\ stream.units \in Seq(Unit) /\ fed = 0 /\ switched = FALSE
  BY StreamsAssumption DEF Init
<1>2. HTTPAhead = stream.units
  <2>1. Unread = stream.units
    BY <1>1, SubSeqFull DEF Unread
  <2>2. buffer = <<>>
    BY DEF Init, HTTPInit
  <2>3. <<>> \o Unread = Unread
    BY <1>1, <2>1, EmptySeq, ConcatProperties
  <2> QED BY <1>1, <2>1, <2>2, <2>3 DEF HTTPAhead
<1>3. Whole!Fresh
  BY DEF Init, HTTPInit, Fresh, Whole!Fresh
<1>4. Whole!WSInit
  BY <1>1 DEF Init, WSInit, Whole!WSInit, FramesAhead
<1> QED BY <1>1, <1>2, <1>3, <1>4 DEF Whole!Init

\* A segment only moves bytes from what was sent to what has arrived.
LEMMA Arriving ==
    ASSUME IInv, Untold, NEW n \in Cuts, DataReceived(n)
    PROVE  UNCHANGED Whole!wvars \/ Whole!Forget
<1> DEFINE last == IF fed + n < Len(stream.units) THEN fed + n ELSE Len(stream.units)
           data == SubSeq(stream.units, fed + 1, last)
<1>1. /\ stream.units \in Seq(Unit) /\ fed \in 0..Len(stream.units)
      /\ Len(stream.units) \in Nat /\ n \in Nat \ {0}
  BY StreamsAssumption, CutsAssumption, LenProperties DEF IInv
<1>2. /\ fed' = last /\ UNCHANGED <<stream, switched>>
      /\ \/ ~switched /\ FeedHTTP(data) /\ UNCHANGED websocket
         \/ switched /\ FeedFrames(data) /\ UNCHANGED http
  BY DEF DataReceived
<1>3. last \in fed..Len(stream.units)
  BY <1>1
<1>4. data \in Seq(Unit)
  <2>1. \A i \in (fed + 1)..last : stream.units[i] \in Unit
    BY <1>1, <1>3, ElementOfSeq
  <2> QED BY <1>1, <1>3, <2>1, SubSeqProperties
<1>5. Unread \in Seq(Unit) /\ Unread' \in Seq(Unit) /\ Unread = data \o Unread'
  <2>1. fed + 1 \in 1..Len(stream.units) + 1 /\ last \in (fed + 1) - 1..Len(stream.units)
        /\ Len(stream.units) \in last..Len(stream.units)
    BY <1>1, <1>3
  <2>2. data \o SubSeq(stream.units, last + 1, Len(stream.units)) = Unread
    BY <1>1, <2>1, ConcatAdjacentSubSeq DEF Unread
  <2>3. Unread' = SubSeq(stream.units, last + 1, Len(stream.units))
    BY <1>2 DEF Unread
  <2>4. Unread' \in Seq(Unit)
    BY <1>1, <1>3, <2>3, RestIsSeq
  <2> QED BY <2>2, <2>3, <2>4, AheadFacts
<1> HIDE DEF last, data
<1>6. buffer \in Seq(Unit) /\ frames \in Seq(Unit)
  BY AheadFacts
<1>7. CASE ~switched /\ FeedHTTP(data) /\ UNCHANGED websocket
  <2>1. buffer' = buffer \o data
    BY <1>7 DEF FeedHTTP
  <2>2. HTTPAhead' = (buffer \o data) \o Unread'
    BY <1>2, <1>7, <2>1 DEF HTTPAhead
  <2>3. (buffer \o data) \o Unread' = buffer \o (data \o Unread')
    BY <1>4, <1>5, <1>6, UnitsAssociate
  <2>4. UNCHANGED HTTPAhead
    BY <1>5, <1>7, <2>2, <2>3 DEF HTTPAhead
  <2>5. UNCHANGED FramesAhead
    BY <1>2, <1>7 DEF FramesAhead, websocket
  <2> QED
    BY <1>2, <1>7, <2>4, <2>5
    DEF FeedHTTP, websocket, request, Whole!wvars, Whole!http, Whole!websocket, Whole!request
<1>8. CASE switched /\ FeedFrames(data) /\ UNCHANGED http
  <2>1. UNCHANGED HTTPAhead
    BY <1>2, <1>8 DEF HTTPAhead, http
  <2>2. UNCHANGED <<Whole!http, switched>>
    BY <1>2, <1>8, <2>1 DEF http, request, Whole!http, Whole!request
  <2>3. UNCHANGED <<fragments, fragmentOpcode, wsClosed, messages, wsError>>
    BY <1>8 DEF FeedFrames
  <2>4. CASE wsClosed
    BY <2>2, <2>3, <2>4 DEF Whole!Forget
  <2>5. CASE ~wsClosed
    <3>1. frames' = frames \o data
      BY <1>8, <2>5 DEF FeedFrames
    <3>2. FramesAhead' = (frames \o data) \o Unread'
      BY <1>2, <1>8, <3>1 DEF FramesAhead
    <3>3. (frames \o data) \o Unread' = frames \o (data \o Unread')
      BY <1>4, <1>5, <1>6, UnitsAssociate
    <3>4. UNCHANGED FramesAhead
      BY <1>5, <1>8, <3>2, <3>3 DEF FramesAhead
    <3> QED BY <2>2, <2>3, <3>4 DEF Whole!wvars, Whole!websocket
  <2> QED BY <2>4, <2>5
<1> QED BY <1>2, <1>7, <1>8

\* The hand-over gives FrameParser everything behind the head of the upgrade.
LEMMA Switching ==
    ASSUME IInv, Untold, BeginWebSocket
    PROVE  Whole!Switch
<1>1. /\ state = "upgraded" /\ ~switched /\ switched' = TRUE /\ buffer' = <<>>
      /\ FeedFrames(buffer)
      /\ UNCHANGED <<state, request, delivered, httpError, eof, stream, fed>>
  BY DEF BeginWebSocket, TakeBuffer
<1>2. buffer \in Seq(Unit) /\ Unread \in Seq(Unit) /\ HTTPAhead = buffer \o Unread
  BY <1>1, AheadFacts
<1>3. frames' = buffer
  <2>1. frames = <<>> /\ ~wsClosed
    BY <1>1 DEF Untold
  <2>2. <<>> \o buffer = buffer
    BY <1>2, EmptySeq, ConcatProperties
  <2> QED BY <1>1, <2>1, <2>2 DEF FeedFrames
<1>4. Unread' = Unread
  BY <1>1 DEF Unread
<1>5. FramesAhead' = HTTPAhead /\ HTTPAhead' = <<>>
  BY <1>1, <1>2, <1>3, <1>4 DEF FramesAhead, HTTPAhead
<1> QED BY <1>1, <1>5 DEF Whole!Switch, FeedFrames, request, Whole!request

\* Every step of the parsers is one that the whole stream allows, or moves
\* nothing of what it is ahead of.
LEMMA WholeStep == IInv /\ Untold /\ [Next]_vars => [Whole!Next]_(Whole!wvars)
<1> SUFFICES ASSUME IInv, Untold, [Next]_vars PROVE Whole!Next \/ UNCHANGED Whole!wvars
  OBVIOUS
<1>1. ASSUME NEW n \in Cuts, DataReceived(n) PROVE Whole!Next \/ UNCHANGED Whole!wvars
  BY <1>1, Arriving DEF Whole!Next
<1>2. CASE BeginWebSocket
  BY <1>2, Switching DEF Whole!Next
<1>3. CASE EofReceived
  <2>1. UNCHANGED <<HTTPAhead, FramesAhead>>
    BY <1>3 DEF EofReceived, FeedEof, websocket, HTTPAhead, FramesAhead, Unread
  <2> QED
    BY <1>3, <2>1
    DEF EofReceived, FeedEof, websocket, request, Whole!wvars, Whole!http, Whole!websocket,
        Whole!request
<1>4. CASE ParseHTTP /\ UNCHANGED <<websocket, stream, fed, switched>>
  <2>1. ~switched
    BY <1>4
    DEF IInv, ParseHTTP, RejectLine, ReadsLine, ConsumeStartLine, ConsumeHeaderLine, FinishHeaders,
        ConsumeBody, NoBody, ConsumeChunkSize, ConsumeChunkData, ConsumeChunkEnd, ConsumeTrailers
  <2> QED BY <1>4, <2>1, HTTPReads DEF HTTPStep, Whole!Next
<1>5. CASE ParseFrames /\ UNCHANGED <<http, stream, fed, switched>>
  <2>1. switched
    <3> SUFFICES ASSUME ~switched PROVE FALSE
      OBVIOUS
    <3>1. FrameError = 0 /\ ~HasFrame
      BY EmptySeq DEF Untold, FrameError, HasFrame
    <3> QED BY <1>5, <3>1 DEF ParseFrames, RejectFrame, HandlePing, HandleClose, HandleData
  <2> QED BY <1>5, <2>1, FramesRead DEF FrameStep, Whole!Next
<1>6. CASE UNCHANGED vars
  BY <1>6
  DEF vars, http, websocket, request, HTTPAhead, FramesAhead, Unread, Whole!wvars, Whole!http,
      Whole!websocket, Whole!request
<1> QED BY <1>1, <1>2, <1>3, <1>4, <1>5, <1>6 DEF Next, Parse

\* Wherever TCP cuts the stream and however far apart the segments are, the two
\* parsers of protocol.py, with the hand-over between them, do what they would
\* do if the stream came at once.
THEOREM SegmentsDoNotMatter == Spec => ReadsWholeStream
<1>1. Spec => [](IInv /\ Untold)
  BY Initially, Inductive, UntoldHolds, PTL DEF Spec
<1>2. Spec => Whole!Init /\ [][Whole!Next]_(Whole!wvars)
  BY <1>1, WholeInit, WholeStep, PTL DEF Spec
<1> QED BY <1>2 DEF ReadsWholeStream, Whole!Spec

=============================================================================
