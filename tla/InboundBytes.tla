----------------------------- MODULE InboundBytes -----------------------------
(***************************************************************************)
(* The way of a connection's bytes through HTTP11Parser and, once a        *)
(* request has switched the connection to websocket, through FrameParser,  *)
(* as protocol.py wires the two.                                           *)
(*                                                                         *)
(* A client sends one of Streams.  TCP cuts it into segments of any of the *)
(* lengths of Cuts, and the client may close at any moment.  A stream says *)
(* what it means, in the terms of who wrote it: the requests and messages  *)
(* it holds, the fault that ends it, if any, and the positions at which it *)
(* may be closed without cutting a request short.                          *)
(***************************************************************************)
EXTENDS HTTP11Parser, FrameParser

CONSTANTS
    Streams,  \* what a client may send
    Cuts      \* bound: the lengths of the segments

ASSUME StreamsAssumption == \A s \in Streams : s.units \in Seq(Unit)

ASSUME CutsAssumption == Cuts \subseteq Nat \ {0}

VARIABLES
    stream,   \* what the client of this behavior sends
    fed,      \* how much of it has arrived
    switched  \* FrameParser has taken over

vars == <<http, websocket, stream, fed, switched>>

Init ==
    /\ stream \in Streams /\ fed = 0 /\ switched = FALSE
    /\ HTTPInit /\ WSInit

\* From the head of an upgrade to the answer to its handshake reading is paused.
Reading == eof = "none" /\ (state = "upgraded" => switched)

\* A segment arrives: HTTP11Parser.feed_data or FrameParser.feed_data.
DataReceived(n) ==
    LET last == IF fed + n < Len(stream.units) THEN fed + n ELSE Len(stream.units)
        data == SubSeq(stream.units, fed + 1, last)
    IN  /\ data # <<>> /\ Reading
        /\ \/ ~switched /\ FeedHTTP(data) /\ UNCHANGED websocket
           \/ switched /\ FeedFrames(data) /\ UNCHANGED http
        /\ fed' = last
        /\ UNCHANGED <<stream, switched>>

\* What came behind the head of the upgrade is taken from HTTP11Parser, and is
\* the first segment of the new protocol when the handshake is accepted.
BeginWebSocket ==
    /\ state = "upgraded" /\ ~switched
    /\ TakeBuffer /\ FeedFrames(buffer)
    /\ switched' = TRUE
    /\ UNCHANGED <<state, request, delivered, httpError, eof, stream, fed>>

EofReceived ==
    /\ Reading /\ FeedEof /\ FramesBlocked
    /\ UNCHANGED <<websocket, stream, fed, switched>>

Parse ==
    \/ ParseHTTP /\ UNCHANGED <<websocket, stream, fed, switched>>
    \/ ParseFrames /\ UNCHANGED <<http, stream, fed, switched>>

\* Everything has been read, or nothing more will be.
Over ==
    /\ HTTPBlocked /\ FramesBlocked
    /\ \/ state = "failed" \/ wsError # 0 \/ eof # "none"
       \/ fed = Len(stream.units) /\ (state = "upgraded" => switched)

Next ==
    \/ \E n \in Cuts : DataReceived(n)
    \/ BeginWebSocket \/ EofReceived \/ Parse
    \/ Over /\ UNCHANGED vars

Spec == Init /\ [][Next]_vars

-----------------------------------------------------------------------------
TypeOK ==
    /\ HTTPTypeOK /\ WSTypeOK
    /\ fed \in 0..Len(stream.units) /\ switched \in BOOLEAN
    /\ switched => state = "upgraded"

\* What a half-read request is of the whole one.
PartOf(part, whole) ==
    /\ part.line = whole.line /\ part.headers = whole.headers
    /\ IsPrefix(part.body, whole.body)
    /\ part.done => part = whole

\* Wherever TCP cuts the stream, the requests and messages told so far are the
\* first of those that were sent: in order, with every byte of their bodies,
\* none made of the bytes of a body or of those behind an upgrade.
DeliveredIsSent ==
    /\ Len(delivered) <= Len(stream.requests)
    /\ \A i \in DOMAIN delivered :
          /\ PartOf(delivered[i], stream.requests[i])
          /\ i < Len(delivered) => delivered[i] = stream.requests[i]
    /\ IsPrefix(messages, stream.messages)

\* When a stream has been read to its end, all of it has been told, and a
\* fault is found where it is, whatever the segments: not earlier, which would
\* drop good requests or messages before it, and not later.
AllIsDelivered ==
    Over /\ eof = "none" =>
        /\ delivered = stream.requests /\ httpError = stream.fault
        /\ messages = stream.messages /\ wsError = stream.code

\* No body is longer than max_body_size, whether its length was declared or it
\* came in chunks.
BodyBounded == \A i \in DOMAIN delivered : Len(delivered[i].body) <= MaxBodySize

\* A close between two requests is told from one that cuts a request short,
\* and an upgraded connection is not taken for an incomplete request.
EofToldTruly ==
    /\ eof = "clean" => fed \in stream.whole
    /\ eof = "incomplete" => fed \notin stream.whole

\* Between two segments no parser holds more than it needs for one line, for
\* one chunk terminator, or for one frame: a head that is refused for what it
\* declares is refused before its payload is waited for.
BufferBounded ==
    /\ HTTPBlocked /\ state \notin {"upgraded", "failed"} => Len(buffer) <= MaxHeaderSize
    /\ FramesBlocked /\ Decoding =>
          \/ Len(frames) < 4 + MaxControlPayload
          \/ Len(frames) + Len(fragments) < 4 + MaxMessageSize

-----------------------------------------------------------------------------
\* What has not yet arrived.
Unread == SubSeq(stream.units, fed + 1, Len(stream.units))

\* What either parser has still to read, if the rest goes to it.
HTTPAhead   == IF switched THEN buffer ELSE buffer \o Unread
FramesAhead == IF switched THEN frames \o Unread ELSE frames

Whole == INSTANCE WholeStream
            WITH buffer <- HTTPAhead, frames <- FramesAhead, eof <- "none"

\* Wherever TCP cuts the stream, the parsers do what they would do if it came
\* at once: no decision is taken on a part of a line, of a terminator or of a
\* frame that its rest would have changed, and no byte is lost, kept twice or
\* left to the wrong parser when the connection switches.
ReadsWholeStream == Whole!Spec

=============================================================================
