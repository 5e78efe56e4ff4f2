----------------------------- MODULE HTTP11Parser -----------------------------
(***************************************************************************)
(* HTTP11Parser of src/src/sonix/server/parser.py: bytes in, whatever way  *)
(* TCP cuts them, and requests out.                                        *)
(*                                                                         *)
(* A UNIT stands for one byte: CR, LF, any other byte of a body or a line, *)
(* or the byte that carries what its line means, as <<"GET", "1.1">> and   *)
(* <<"content-length", 2>> do.  A line means what its first unit says, and *)
(* the units behind it only make it longer.  A number that is no Nat stands *)
(* for digits that do not parse.                                           *)
(*                                                                         *)
(* feed_data is FeedHTTP and then one step for every iteration of its      *)
(* loop, until HTTPBlocked.  The events are kept as the requests they tell *)
(* the caller: a head opens one, body chunks extend it, and its completion *)
(* marks it done.                                                          *)
(***************************************************************************)
EXTENDS Integers, Sequences, SequencesExt

CONSTANTS
    Unit,              \* the units a client may send
    MaxHeaderSize,     \* max_header_size
    MaxHeaders,        \* max_headers
    MaxBodySize,       \* max_body_size
    UpgradeProtocols   \* upgrade_protocols

ASSUME LimitsAssumption ==
    MaxHeaderSize \in Nat \ {0} /\ MaxHeaders \in Nat /\ MaxBodySize \in Nat

VARIABLES
    buffer,     \* _buffer
    state,      \* _state, with _chunk_state for a chunked body
    line,       \* the request line of the request being parsed
    headers,    \* its header lines
    left,       \* _body_remaining, or _chunk_remaining of a chunked body
    total,      \* _body_bytes_total
    delivered,  \* the requests the events have told
    httpError,  \* the exception that ended the parsing
    eof         \* what feed_eof answered

request == <<line, headers, left, total>>
http    == <<buffer, state, request, delivered, httpError, eof>>

CR == <<"cr">>
LF == <<"lf">>
Crlf == <<CR, LF>>

Name(l)  == l[1][1]
Value(l) == l[1][2]

\* __init__, but for the buffer.
Fresh ==
    /\ state = "start_line"
    /\ line = <<>> /\ headers = <<>> /\ left = 0 /\ total = 0
    /\ delivered = <<>> /\ httpError = "none" /\ eof = "none"

HTTPInit == buffer = <<>> /\ Fresh

-----------------------------------------------------------------------------
\* The first line of the buffer, as _find_bounded_line sees it.
EndsLine(i) == i < Len(buffer) /\ buffer[i] = CR /\ buffer[i + 1] = LF

FirstEnd(i) == EndsLine(i) /\ \A j \in 1..(i - 1) : ~EndsLine(j)

\* Where the first CRLF begins, 0 if there is none.
LineEnd == IF \E i \in DOMAIN buffer : FirstEnd(i)
           THEN CHOOSE i \in DOMAIN buffer : FirstEnd(i) ELSE 0

\* Mutation: the limit is only looked at once the line is complete.
TooLongWhenComplete == LineEnd > MaxHeaderSize + 1

\* A complete line is measured without its CRLF, an incomplete one with
\* whatever of the CRLF has arrived.
TooLong == IF LineEnd = 0 THEN Len(buffer) > MaxHeaderSize
           ELSE LineEnd - 1 > MaxHeaderSize

HasLine == LineEnd # 0 /\ ~TooLong
Line    == SubSeq(buffer, 1, LineEnd - 1)

TakeLine == buffer' = SubSeq(buffer, LineEnd + 2, Len(buffer))

ReadsLine == state \in {"start_line", "headers", "size", "trailers"}

Fail(error) ==
    /\ state' = "failed" /\ httpError' = error
    /\ UNCHANGED <<request, delivered, eof>>

RejectLine ==
    /\ ReadsLine /\ TooLong
    /\ Fail("too_large") /\ UNCHANGED buffer

-----------------------------------------------------------------------------
IsRequestLine(l) == l # <<>> /\ Name(l) \in {"GET", "POST"}

ConsumeStartLine ==
    /\ state = "start_line" /\ HasLine /\ TakeLine
    /\ \/ /\ IsRequestLine(Line)
          /\ line' = Line /\ state' = "headers"
          /\ UNCHANGED <<headers, left, total, delivered, httpError, eof>>
       \/ ~IsRequestLine(Line) /\ Fail("malformed")

HeaderNames == {"host", "content-length", "transfer-encoding", "connection", "upgrade"}

Has(hs, name) == \E i \in DOMAIN hs : Name(hs[i]) = name

\* The value of a header that is there once.
ValueOf(hs, name) == Value(hs[CHOOSE i \in DOMAIN hs : Name(hs[i]) = name])

HeadersSize(lines) ==
    LET size[n \in 0..Len(lines)] == IF n = 0 THEN 0 ELSE size[n - 1] + Len(lines[n]) + 2
    IN size[Len(lines)]

\* Why a header line is refused behind others, in the order of
\* _consume_header_line.
HeaderError(hs, l) ==
    CASE Name(l) \notin HeaderNames -> "malformed"
      [] HeadersSize(Append(hs, l)) > MaxHeaderSize -> "too_large"
      [] Len(hs) >= MaxHeaders -> "too_large"
      [] /\ Name(l) \in {"content-length", "transfer-encoding"}
         /\ Has(hs, Name(l)) -> "malformed"
      [] Name(l) = "content-length" /\ Value(l) \notin Nat -> "malformed"
      [] Name(l) = "content-length" /\ Value(l) > MaxBodySize -> "too_large"
      [] Name(l) = "transfer-encoding" /\ Value(l) # "chunked" -> "malformed"
      [] OTHER -> "none"

ConsumeHeaderLine ==
    /\ state = "headers" /\ HasLine /\ Line # <<>> /\ TakeLine
    /\ \/ /\ HeaderError(headers, Line) = "none"
          /\ headers' = Append(headers, Line)
          /\ UNCHANGED <<state, line, left, total, delivered, httpError, eof>>
       \/ HeaderError(headers, Line) # "none" /\ Fail(HeaderError(headers, Line))

ContentLength(hs) == IF Has(hs, "content-length") THEN ValueOf(hs, "content-length") ELSE 0

Chunked(hs) == Has(hs, "transfer-encoding")

\* _detect_upgrade: one offer, of a protocol that is served, on an HTTP/1.1
\* GET that says Connection: upgrade.
DetectUpgrade(l, hs) ==
    /\ \E i \in DOMAIN hs : hs[i][1] = <<"connection", "upgrade">>
    /\ \E i \in DOMAIN hs :
          /\ Name(hs[i]) = "upgrade" /\ Value(hs[i]) \in UpgradeProtocols
          /\ \A j \in DOMAIN hs : Name(hs[j]) = "upgrade" => j = i
    /\ l[1] = <<"GET", "1.1">>

AmbiguousBody(l, hs) ==
    \/ Has(hs, "content-length") /\ Chunked(hs)
    \/ DetectUpgrade(l, hs) /\ (Chunked(hs) \/ ContentLength(hs) > 0)

\* Mutation: an upgraded request is finished like any other.
AfterUpgrade == "body"

\* Framing has ended: what follows is for take_buffer.
Upgraded == "upgraded"

\* How what follows the head is framed.
Framing(l, hs) ==
    CASE DetectUpgrade(l, hs) -> Upgraded
      [] ~DetectUpgrade(l, hs) /\ Chunked(hs) -> "size"
      [] OTHER -> "body"

NewRequest == [line |-> line, headers |-> headers, body |-> <<>>, done |-> FALSE]

FinishHeaders ==
    /\ state = "headers" /\ HasLine /\ Line = <<>> /\ TakeLine
    /\ \/ AmbiguousBody(line, headers) /\ Fail("malformed")
       \/ /\ ~AmbiguousBody(line, headers)
          /\ delivered' = Append(delivered, NewRequest)
          /\ state' = Framing(line, headers)
          /\ left' = ContentLength(headers)
          /\ UNCHANGED <<line, headers, total, httpError, eof>>

-----------------------------------------------------------------------------
\* BodyChunk and RequestComplete, told of the newest request.
Told(data, done) ==
    [delivered EXCEPT ![Len(delivered)].body = @ \o data,
                      ![Len(delivered)].done = done]

ResetForNextRequest ==
    state' = "start_line" /\ line' = <<>> /\ headers' = <<>> /\ left' = 0 /\ total' = 0

CompleteRequest ==
    /\ delivered' = Told(<<>>, TRUE)
    /\ ResetForNextRequest /\ UNCHANGED <<httpError, eof>>

Taken == IF Len(buffer) < left THEN Len(buffer) ELSE left

Drop(n) == buffer' = SubSeq(buffer, n + 1, Len(buffer))

\* The next n bytes of a body of known length.
TakeBody(n) ==
    /\ Drop(n) /\ delivered' = Told(SubSeq(buffer, 1, n), n = left)
    /\ \/ n = left /\ ResetForNextRequest
       \/ n < left /\ left' = left - n /\ UNCHANGED <<state, line, headers, total>>
    /\ UNCHANGED <<httpError, eof>>

NoBody == state = "body" /\ left = 0 /\ CompleteRequest /\ UNCHANGED buffer

\* _consume_body: as much as there is.
ConsumeBody ==
    \/ NoBody
    \/ state = "body" /\ left > 0 /\ buffer # <<>> /\ TakeBody(Taken)

\* Why a chunk is refused when the body has that much already.
SizeError(sum, l) ==
    CASE l = <<>> \/ Name(l) # "size" \/ Value(l) \notin Nat -> "malformed"
      [] sum + Value(l) > MaxBodySize -> "too_large"
      [] OTHER -> "none"

ConsumeChunkSize ==
    /\ state = "size" /\ HasLine /\ TakeLine
    /\ \/ SizeError(total, Line) # "none" /\ Fail(SizeError(total, Line))
       \/ /\ SizeError(total, Line) = "none"
          /\ left' = Value(Line) /\ total' = total + Value(Line)
          /\ state' = IF Value(Line) = 0 THEN "trailers" ELSE "data"
          /\ UNCHANGED <<line, headers, delivered, httpError, eof>>

\* The next n bytes of a chunk.
TakeChunk(n) ==
    /\ Drop(n) /\ delivered' = Told(SubSeq(buffer, 1, n), FALSE)
    /\ left' = left - n
    /\ state' = IF n = left THEN "data_crlf" ELSE "data"
    /\ UNCHANGED <<line, headers, total, httpError, eof>>

ConsumeChunkData == state = "data" /\ buffer # <<>> /\ TakeChunk(Taken)

\* Mutation: the terminator is looked at when its first byte is there.
ChunkEndAtOnce ==
    /\ state = "data_crlf" /\ buffer # <<>>
    /\ \/ /\ IsPrefix(Crlf, buffer)
          /\ Drop(2) /\ state' = "size"
          /\ UNCHANGED <<request, delivered, httpError, eof>>
       \/ ~IsPrefix(Crlf, buffer) /\ Fail("malformed") /\ UNCHANGED buffer

ConsumeChunkEnd ==
    /\ state = "data_crlf" /\ Len(buffer) >= 2
    /\ \/ /\ SubSeq(buffer, 1, 2) = Crlf
          /\ Drop(2) /\ state' = "size"
          /\ UNCHANGED <<request, delivered, httpError, eof>>
       \/ SubSeq(buffer, 1, 2) # Crlf /\ Fail("malformed") /\ UNCHANGED buffer

ConsumeTrailers ==
    /\ state = "trailers" /\ HasLine /\ TakeLine
    /\ \/ Line = <<>> /\ CompleteRequest
       \/ Line # <<>> /\ UNCHANGED <<state, request, delivered, httpError, eof>>

-----------------------------------------------------------------------------
\* An iteration of the loop of feed_data.
ParseHTTP ==
    \/ RejectLine \/ ConsumeStartLine \/ ConsumeHeaderLine \/ FinishHeaders
    \/ ConsumeBody \/ ConsumeChunkSize \/ ConsumeChunkData \/ ConsumeChunkEnd
    \/ ConsumeTrailers

\* The loop has ended: nothing progressed, or it raised.
HTTPBlocked ==
    CASE ReadsLine -> LineEnd = 0 /\ ~TooLong
      [] state = "body" -> left > 0 /\ buffer = <<>>
      [] state = "data" -> buffer = <<>>
      [] state = "data_crlf" -> Len(buffer) < 2
      [] OTHER -> TRUE

FeedHTTP(data) ==
    /\ HTTPBlocked /\ state # "failed" /\ eof = "none"
    /\ buffer' = buffer \o data
    /\ UNCHANGED <<state, request, delivered, httpError, eof>>

\* Mutation: a line that has begun is forgotten.
CleanBetweenLines == state = "start_line"

CleanEof == state = "upgraded" \/ (state = "start_line" /\ buffer = <<>>)

FeedEof ==
    /\ HTTPBlocked /\ state # "failed" /\ eof = "none"
    /\ eof' = IF CleanEof THEN "clean" ELSE "incomplete"
    /\ UNCHANGED <<buffer, state, request, delivered, httpError>>

\* take_buffer: the bytes behind the upgrade head leave the parser.
TakeBuffer == state = "upgraded" /\ buffer' = <<>>

-----------------------------------------------------------------------------
Request == [line : Seq(Unit), headers : Seq(Seq(Unit)), body : Seq(Unit), done : BOOLEAN]

HTTPTypeOK ==
    /\ buffer \in Seq(Unit)
    /\ state \in {"start_line", "headers", "body", "size", "data", "data_crlf",
                  "trailers", "upgraded", "failed"}
    /\ line \in Seq(Unit) /\ headers \in Seq(Seq(Unit))
    /\ left \in 0..MaxBodySize /\ total \in 0..MaxBodySize
    /\ delivered \in Seq(Request)
    /\ httpError \in {"none", "malformed", "too_large"}
    /\ eof \in {"none", "clean", "incomplete"}

=============================================================================
