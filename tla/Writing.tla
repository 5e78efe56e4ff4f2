------------------------------- MODULE Writing -------------------------------
(***************************************************************************)
(* How the client of a stream of InboundBytes writes it, as HTTP/1.1 and   *)
(* websocket frame it, and without a thought of how it is read.            *)
(*                                                                         *)
(* s.writing[p] says what the client of s is about when it has written p   *)
(* units: the part of a request that comes next, with what the request has *)
(* so far, or the next frame, with what its message has so far.  Inside a  *)
(* line or a frame, and behind a fault, it says no more than that.         *)
(***************************************************************************)
EXTENDS InboundBytes

At(s, p) == s.writing[p]

Parts == {"start_line", "headers", "body", "size", "data", "data_crlf", "trailers"}

\* nth requests are written, and of the next one this much.
Draft == [part : Parts, nth : Nat, line : Seq(Unit), headers : Seq(Seq(Unit)),
          body : Seq(Unit), left : Nat]

Between(n) == [part |-> "start_line", nth |-> n, line |-> <<>>, headers |-> <<>>,
               body |-> <<>>, left |-> 0]

Begun(d) == [line |-> d.line, headers |-> d.headers, body |-> d.body, done |-> FALSE]
Sent(d)  == [line |-> d.line, headers |-> d.headers, body |-> d.body, done |-> TRUE]

HeadSent(d) == d.part \notin {"start_line", "headers"}

\* What the server can know of the requests.
ToldBy(s, d) ==
    IF HeadSent(d) THEN Append(SubSeq(s.requests, 1, d.nth), Begun(d))
    ELSE SubSeq(s.requests, 1, d.nth)

Inside(s, p, q) == \A k \in (p + 1)..(q - 1) : At(s, k).part = "inside"

\* The requests end at p, with a fault or without.
Stops(s, p, fault) ==
    /\ s.fault = fault /\ s.requests = ToldBy(s, At(s, p))
    /\ s.messages = <<>> /\ s.code = 0
    /\ Inside(s, p, Len(s.units) + 1)

-----------------------------------------------------------------------------
CrlfAt(s, i) == i < Len(s.units) /\ s.units[i] = CR /\ s.units[i + 1] = LF

\* A line and its CRLF, of less than the size at which segments matter.
WritesLine(s, p, q) ==
    /\ p + 2 <= q /\ q - p - 2 < MaxHeaderSize
    /\ CrlfAt(s, q - 1) /\ \A i \in (p + 1)..(q - 2) : ~CrlfAt(s, i)
    /\ Inside(s, p, q)

Text(s, p, q) == SubSeq(s.units, p + 1, q - 2)

WritesTooLong(s, p) ==
    /\ p + MaxHeaderSize < Len(s.units)
    /\ \A i \in (p + 1)..(p + MaxHeaderSize + 1) : ~CrlfAt(s, i)
    /\ Stops(s, p, "too_large")

\* The n units behind p.
Data(s, p, n) == SubSeq(s.units, p + 1, p + n)

Finishes(s, d, q) ==
    /\ d.nth < Len(s.requests) /\ s.requests[d.nth + 1] = Sent(d)
    /\ At(s, q) = Between(d.nth + 1)

StartLine(s, p) ==
    LET d == At(s, p) IN
    /\ d = Between(d.nth)
    /\ \/ p = Len(s.units) /\ Stops(s, p, "none")
       \/ WritesTooLong(s, p)
       \/ \E q \in 0..Len(s.units) :
             /\ WritesLine(s, p, q)
             /\ \/ /\ IsRequestLine(Text(s, p, q))
                   /\ At(s, q) = [d EXCEPT !.part = "headers", !.line = Text(s, p, q)]
                \/ ~IsRequestLine(Text(s, p, q)) /\ Stops(s, p, "malformed")

\* The last request over HTTP: only frames follow it.
Leaves(s, d, q) ==
    /\ s.requests = Append(SubSeq(s.requests, 1, d.nth), Begun(d)) /\ s.fault = "none"
    /\ At(s, q).part = "frame" /\ At(s, q).nth = 0
    /\ At(s, q).kind = "none" /\ At(s, q).pieces = <<>>
    /\ \A k \in q..Len(s.units) : At(s, k).part \in {"frame", "beyond"}

\* What follows the head, as the head announces it.
EndsHead(s, d, q) ==
    LET announced == Framing(d.line, d.headers)
        length    == ContentLength(d.headers)
    IN  \/ announced = Upgraded /\ Leaves(s, d, q)
        \/ announced = "size" /\ At(s, q) = [d EXCEPT !.part = "size"]
        \/ /\ announced = "body" /\ length > 0
           /\ At(s, q) = [d EXCEPT !.part = "body", !.left = length]
        \/ announced = "body" /\ length = 0 /\ Finishes(s, d, q)

Headers(s, p) ==
    LET d == At(s, p) IN
    /\ d.body = <<>> /\ d.left = 0
    /\ \/ WritesTooLong(s, p)
       \/ \E q \in 0..Len(s.units) :
             LET l == Text(s, p, q) IN
             /\ WritesLine(s, p, q)
             /\ \/ /\ l # <<>> /\ HeaderError(d.headers, l) = "none"
                   /\ At(s, q) = [d EXCEPT !.headers = Append(@, l)]
                \/ /\ l # <<>> /\ HeaderError(d.headers, l) # "none"
                   /\ Stops(s, p, HeaderError(d.headers, l))
                \/ l = <<>> /\ AmbiguousBody(d.line, d.headers) /\ Stops(s, p, "malformed")
                \/ l = <<>> /\ ~AmbiguousBody(d.line, d.headers) /\ EndsHead(s, d, q)

Body(s, p) ==
    LET d == At(s, p) IN
    /\ d.left > 0 /\ p + d.left <= Len(s.units)
    /\ \A n \in 1..(d.left - 1) :
          At(s, p + n) = [d EXCEPT !.body = @ \o Data(s, p, n), !.left = @ - n]
    /\ Finishes(s, [d EXCEPT !.body = @ \o Data(s, p, d.left)], p + d.left)

ChunkSize(s, p) ==
    LET d == At(s, p) IN
    /\ d.left = 0
    /\ \/ WritesTooLong(s, p)
       \/ \E q \in 0..Len(s.units) :
             LET l     == Text(s, p, q)
                 error == SizeError(Len(d.body), l)
             IN
             /\ WritesLine(s, p, q)
             /\ \/ error # "none" /\ Stops(s, p, error)
                \/ /\ error = "none" /\ Value(l) = 0
                   /\ At(s, q) = [d EXCEPT !.part = "trailers"]
                \/ /\ error = "none" /\ Value(l) > 0
                   /\ At(s, q) = [d EXCEPT !.part = "data", !.left = Value(l)]

ChunkData(s, p) ==
    LET d == At(s, p) IN
    /\ d.left > 0 /\ p + d.left <= Len(s.units)
    /\ \A n \in 1..d.left :
          At(s, p + n) = [d EXCEPT !.body = @ \o Data(s, p, n), !.left = @ - n,
                                   !.part = IF n = d.left THEN "data_crlf" ELSE "data"]

ChunkEnd(s, p) ==
    LET d == At(s, p) IN
    /\ d.left = 0
    /\ p + 2 <= Len(s.units) /\ Inside(s, p, p + 2)
    /\ \/ Data(s, p, 2) = Crlf /\ At(s, p + 2) = [d EXCEPT !.part = "size"]
       \/ Data(s, p, 2) # Crlf /\ Stops(s, p, "malformed")

Trailers(s, p) ==
    LET d == At(s, p) IN
    /\ d.left = 0
    /\ \/ WritesTooLong(s, p)
       \/ \E q \in 0..Len(s.units) :
             /\ WritesLine(s, p, q)
             /\ \/ Text(s, p, q) # <<>> /\ At(s, q) = d
                \/ Text(s, p, q) = <<>> /\ Finishes(s, d, q)

WritesRequests(s, p) ==
    LET d == At(s, p) IN
    d.part \in Parts =>
        /\ d \in Draft /\ d.nth <= Len(s.requests)
        /\ HeadSent(d) => /\ d.nth < Len(s.requests)
                          /\ PartOf(Begun(d), s.requests[d.nth + 1])
        /\ d.part = "start_line" => StartLine(s, p)
        /\ d.part = "headers"    => Headers(s, p)
        /\ d.part = "body"       => Body(s, p)
        /\ d.part = "size"       => ChunkSize(s, p)
        /\ d.part = "data"       => ChunkData(s, p)
        /\ d.part = "data_crlf"  => ChunkEnd(s, p)
        /\ d.part = "trailers"   => Trailers(s, p)

-----------------------------------------------------------------------------
\* The bytes that a mask may be applied to.
Plain == {<<b>> : b \in UNION {{m[1], m[2]} : m \in MaskPairs}}

\* nth messages are written, and of the next one, of some kind, these pieces.
\* The next frame is of opcode and payload, the last of its message if fin.
FrameDraft == [part : {"frame"}, nth : Nat, kind : {"none", "text", "binary"},
               pieces : Seq(Plain), fin : BOOLEAN, opcode : Opcodes, payload : Seq(Plain)]

Wire(d) == EncodeFrame(d.fin, d.opcode, d.payload, TRUE)

\* A head that no frame may have, and the close code it is answered with: a
\* reserved opcode, no mask, a negative length, a control frame that is long or
\* fragmented, or more than is left of the size of its message.
RefusedHead(s, p, size, code) ==
    LET op     == s.units[p + 1]
        len    == s.units[p + 2]
        masked == len[2] = TRUE
        long   == len[3] > MaxControlPayload
        length == IF long THEN s.units[p + 3][2] ELSE len[3]
    IN
    /\ p + 2 <= Len(s.units)
    /\ \/ (op[1] # "op" \/ op[3] \notin Opcodes \/ ~masked) /\ code = 1002
       \/ /\ op[1] = "op" /\ op[3] \in Opcodes /\ masked
          /\ long => p + 3 <= Len(s.units)
          /\ \/ length \notin Nat /\ code = 1002
             \/ /\ length \in Nat /\ op[3] \in ControlOpcodes
                /\ (length > MaxControlPayload \/ ~op[2]) /\ code = 1002
             \/ /\ length \in Nat /\ op[3] \notin ControlOpcodes
                /\ size + length > MaxMessageSize /\ code = 1009

\* The messages end where n of them are told, with the close code of a fault or 0.
Closes(s, n, code) == Len(s.messages) = n /\ s.code = code

Tells(s, n, kind, data) ==
    n < Len(s.messages) /\ s.messages[n + 1] = [kind |-> kind, data |-> data]

Continues(s, q, n, kind, pieces) ==
    At(s, q).part = "frame" /\ At(s, q).nth = n /\ At(s, q).kind = kind /\ At(s, q).pieces = pieces

ControlFrame(s, d, q) ==
    /\ d.fin /\ Len(d.payload) <= MaxControlPayload
    /\ \/ /\ d.opcode \in {"ping", "pong"}
          /\ Tells(s, d.nth, d.opcode, d.payload)
          /\ Continues(s, q, d.nth + 1, d.kind, d.pieces)
       \/ /\ d.opcode = "close" /\ CloseError(d.payload) = 0
          /\ Tells(s, d.nth, "close", d.payload) /\ Closes(s, d.nth + 1, 0)
       \/ /\ d.opcode = "close" /\ CloseError(d.payload) # 0
          /\ Closes(s, d.nth, CloseError(d.payload))

DataFrame(s, d, q) ==
    LET data == d.pieces \o d.payload
        kind == IF d.kind = "none" THEN d.opcode ELSE d.kind
    IN
    /\ Len(data) <= MaxMessageSize
    /\ \/ (d.opcode = "continuation" <=> d.kind = "none") /\ Closes(s, d.nth, 1002)
       \/ /\ ~(d.opcode = "continuation" <=> d.kind = "none")
          /\ \/ ~d.fin /\ Continues(s, q, d.nth, kind, data)
             \/ d.fin /\ kind = "text" /\ ~IsUtf8(data) /\ Closes(s, d.nth, 1007)
             \/ /\ d.fin /\ (kind = "text" => IsUtf8(data))
                /\ Tells(s, d.nth, kind, data) /\ Continues(s, q, d.nth + 1, "none", <<>>)

WritesFrames(s, p) ==
    LET d == At(s, p)
        q == p + Len(Wire(d))
    IN
    d.part = "frame" =>
        /\ d \in FrameDraft /\ d.nth <= Len(s.messages)
        /\ \/ p = Len(s.units) /\ Closes(s, d.nth, 0)
           \/ \E code \in {1002, 1009} :
                 RefusedHead(s, p, Len(d.pieces), code) /\ Closes(s, d.nth, code)
           \/ /\ q <= Len(s.units) /\ Data(s, p, Len(Wire(d))) = Wire(d)
              /\ IF d.opcode \in ControlOpcodes THEN ControlFrame(s, d, q)
                 ELSE DataFrame(s, d, q)

-----------------------------------------------------------------------------
\* What the client writes, and what it means by it, agree everywhere.
WellWritten(s) ==
    /\ s.requests \in Seq(Request)
    /\ s.messages \in Seq([kind : Opcodes, data : Seq(Plain)])
    /\ At(s, 0) = Between(0)
    /\ \A p \in 0..Len(s.units) : WritesRequests(s, p) /\ WritesFrames(s, p)
    /\ s.whole = {p \in 0..Len(s.units) : At(s, p).part \in {"start_line", "frame", "beyond"}}

ASSUME WritingAssumption == \A s \in Streams : WellWritten(s)

=============================================================================
