------------------------------ MODULE MCInbound ------------------------------
(***************************************************************************)
(* The streams of the instance of InboundBytes: every pair of requests,    *)
(* and behind an upgrade every pair of frames or messages, of the kinds    *)
(* below.  Each item says what it is on the wire, what it means, and what  *)
(* its client is about at every unit of it, in the terms of Writing.       *)
(***************************************************************************)
EXTENDS Writing

A == <<"a">>
B == <<"b">>
Get == <<"GET", "1.1">>
Post == <<"POST", "1.1">>
Junk == <<"junk">>
Host == <<<<"host">>>>
OfLength(n) == <<<<"content-length", n>>>>
TransferEncoding(coding) == <<<<"transfer-encoding", coding>>>>
Connection == <<<<"connection", "upgrade">>>>
Offer(token) == <<<<"upgrade", token>>>>
Size(n) == <<"size", n>>

MCUnit ==
    {CR, LF, A, B, Get, Post, Junk, <<"GET", "1.0">>, <<"host">>, <<"folded">>, <<"x">>,
     <<"c3">>, <<"a9">>, <<"1000">>, <<"1005">>, <<"mask">>, <<"reserved">>}
    \cup {<<"content-length", n>> : n \in -1..9}
    \cup {<<"transfer-encoding", c>> : c \in {"chunked", "gzip"}}
    \cup {<<"connection", "upgrade">>}
    \cup {<<"upgrade", t>> : t \in {"websocket", "h2c"}}
    \cup {<<"size", n>> : n \in 0..9}
    \cup {<<"op", fin, o>> : fin \in BOOLEAN, o \in Opcodes \cup {"reserved"}}
    \cup {<<"len", masked, n>> : masked \in BOOLEAN, n \in 0..9}
    \cup {<<"ext", n>> : n \in -1..9}

Long(u) == [i \in 1..(MaxHeaderSize + 2) |-> IF i = 1 THEN u ELSE <<"x">>]

-----------------------------------------------------------------------------
\* What is written in one go: its units, with what is said of each.
Opaque(units, d, rest) ==
    [units |-> units, at |-> [i \in DOMAIN units |-> IF i = 1 THEN d ELSE rest]]

NoMore == [part |-> "inside"]
Beyond == [part |-> "beyond"]

LineOf(d, l) == Opaque(l \o Crlf, d, NoMore)

BytesOf(d, data) ==
    [units |-> data,
     at |-> [i \in DOMAIN data |-> [d EXCEPT !.body = @ \o SubSeq(data, 1, i - 1),
                                             !.left = Len(data) - i + 1]]]

\* The writings one behind the other, and behind the nth of them nothing is said.
Join(parts, n, silence) ==
    [units |-> FlattenSeq([i \in DOMAIN parts |-> parts[i].units]),
     at |-> FlattenSeq([i \in DOMAIN parts |->
                IF i <= n THEN parts[i].at ELSE [k \in DOMAIN parts[i].units |-> silence]])]

Drafted(part, l, hs, data) ==
    [Between(0) EXCEPT !.part = part, !.line = l, !.headers = hs, !.body = data]

HeadParts(l, hs) ==
    <<LineOf(Between(0), l)>>
    \o [i \in DOMAIN hs |-> LineOf(Drafted("headers", l, SubSeq(hs, 1, i - 1), <<>>), hs[i])]
    \o <<LineOf(Drafted("headers", l, hs, <<>>), <<>>)>>

\* A request as it is sent, its body as it is meant, and how it ends.
Item(l, hs, parts, data, fault) ==
    LET wire == Join(HeadParts(l, hs) \o parts, Len(hs) + 2 + Len(parts), NoMore) IN
    [units |-> wire.units, at |-> wire.at, fault |-> fault,
     told  |-> <<[line |-> l, headers |-> hs, body |-> data, done |-> fault = "none"]>>]

Good(l, hs, data) == Item(l, hs, <<BytesOf(Drafted("body", l, hs, <<>>), data)>>, data, "none")

\* The head is refused at its nth line: nothing is told of it.
RefusedAt(n, l, hs, fault) ==
    LET wire == Join(HeadParts(l, hs), n, NoMore)
    IN [units |-> wire.units, at |-> wire.at, fault |-> fault, told |-> <<>>]

Refused(l, hs, fault) == RefusedAt(Len(hs) + 1, l, hs, fault)
Ambiguous(l, hs)      == RefusedAt(Len(hs) + 2, l, hs, "malformed")

\* A chunk behind data, its terminator as given.
ChunkHead == <<TransferEncoding("chunked")>>

Chunk(data, chunk, terminator) ==
    <<LineOf(Drafted("size", <<Post>>, ChunkHead, data), <<Size(Len(chunk))>>),
      BytesOf(Drafted("data", <<Post>>, ChunkHead, data), chunk),
      Opaque(terminator, Drafted("data_crlf", <<Post>>, ChunkHead, data \o chunk), NoMore)>>

ChunksEnd(data, trailers) ==
    <<LineOf(Drafted("size", <<Post>>, ChunkHead, data), <<Size(0)>>)>>
    \o [i \in DOMAIN trailers |->
            LineOf(Drafted("trailers", <<Post>>, ChunkHead, data), trailers[i])]
    \o <<LineOf(Drafted("trailers", <<Post>>, ChunkHead, data), <<>>)>>

ChunkedBy(parts, data, fault) == Item(<<Post>>, ChunkHead, parts, data, fault)

\* A line that is no chunk size.
BadSize(data, l) == LineOf(Drafted("size", <<Post>>, ChunkHead, data), l)

GoodRequests ==
    {Good(<<Get>>, <<>>, <<>>),
     Good(<<Get, <<"x">>>>, <<Host>>, <<>>),
     Good(<<Post>>, <<OfLength(0)>>, <<>>),
     Good(<<Post>>, <<OfLength(3), Host>>, <<Get, CR, LF>>),
     \* an upgrade that is not one: not offered, not served, offered twice
     Good(<<Get>>, <<Offer("websocket")>>, <<>>),
     Good(<<Get>>, <<Connection, Offer("h2c")>>, <<>>),
     Good(<<Get>>, <<Connection, Offer("websocket"), Offer("h2c")>>, <<>>),
     Good(<<Post>>, <<Connection, Offer("websocket")>>, <<>>),
     Good(<<<<"GET", "1.0">>>>, <<Connection, Offer("websocket")>>, <<>>)}
    \cup {ChunkedBy(ChunksEnd(<<>>, trailers), <<>>, "none") : trailers \in {<<>>, <<Host>>}}
    \cup {ChunkedBy(Chunk(<<>>, <<A>>, Crlf) \o Chunk(<<A>>, <<CR, LF>>, Crlf)
                       \o ChunksEnd(<<A, CR, LF>>, trailers), <<A, CR, LF>>, "none") :
            trailers \in {<<>>, <<Host>>}}

BadRequests ==
    {Refused(<<>>, <<>>, "malformed"),
     Refused(<<Junk>>, <<>>, "malformed"),
     Refused(Long(Get), <<>>, "too_large"),
     Refused(<<Get>>, <<<<<<"folded">>>>>>, "malformed"),
     Refused(<<Get>>, <<Long(<<"host">>)>>, "too_large"),
     Refused(<<Get>>, <<Host, Host, Host, Host>>, "too_large"),
     Refused(<<Get>>, <<Host \o <<A, A, A>>, Host \o <<A, A, A>>, Host>>, "too_large"),
     Refused(<<Post>>, <<OfLength(1), OfLength(1)>>, "malformed"),
     Refused(<<Post>>, <<OfLength(-1)>>, "malformed"),
     Refused(<<Post>>, <<OfLength(MaxBodySize + 1)>>, "too_large"),
     Refused(<<Post>>, <<TransferEncoding("gzip")>>, "malformed"),
     Refused(<<Post>>, <<TransferEncoding("chunked"), TransferEncoding("chunked")>>,
             "malformed"),
     Ambiguous(<<Post>>, <<OfLength(1), TransferEncoding("chunked")>>),
     Ambiguous(<<Get>>, <<Connection, Offer("websocket"), OfLength(1)>>),
     ChunkedBy(Chunk(<<>>, <<A, A>>, Crlf) \o <<BadSize(<<A, A>>, <<Size(2)>>)>>,
               <<A, A>>, "too_large"),
     ChunkedBy(Chunk(<<>>, <<A>>, Crlf) \o <<BadSize(<<A>>, <<Junk>>)>>, <<A>>, "malformed"),
     ChunkedBy(Chunk(<<>>, <<A>>, Crlf) \o <<BadSize(<<A>>, Long(Size(1)))>>, <<A>>, "too_large"),
     ChunkedBy(Chunk(<<>>, <<A>>, <<A, B>>), <<A>>, "malformed")}

Upgrade == Good(<<Get>>, <<Connection, Offer("websocket"), OfLength(0)>>, <<>>)

-----------------------------------------------------------------------------
\* A frame behind nth messages and the pieces of one of kind, on the wire as
\* units.
FrameOf(nth, kind, pieces, fin, opcode, payload, units) ==
    Opaque(units, [part |-> "frame", nth |-> nth, kind |-> kind, pieces |-> pieces,
                   fin |-> fin, opcode |-> opcode, payload |-> payload], Beyond)

Frame(fin, opcode, payload) == EncodeFrame(fin, opcode, payload, TRUE)

Inner(nth, kind, pieces, fin, opcode, payload) ==
    FrameOf(nth, kind, pieces, fin, opcode, payload, Frame(fin, opcode, payload))

First(fin, opcode, payload) == Inner(0, "none", <<>>, fin, opcode, payload)

\* What cannot be a frame.
Odd(kind, pieces, units) == FrameOf(0, kind, pieces, TRUE, "ping", <<>>, units)

\* A message or a frame, what it tells, and the close code of its fault.
Frames(parts, events, code) ==
    LET wire == Join(parts, Len(parts), Beyond)
    IN [units |-> wire.units, at |-> wire.at, told |-> events, code |-> code]

Told1(kind, data) == <<[kind |-> kind, data |-> data]>>

Pieces(kind, p, q) == <<First(FALSE, kind, p), Inner(0, kind, p, TRUE, "continuation", q)>>

GoodFrames ==
    {Frames(<<First(TRUE, "text", <<<<"c3">>, <<"a9">>, A, A>>)>>,
            Told1("text", <<<<"c3">>, <<"a9">>, A, A>>), 0),
     Frames(Pieces("text", <<<<"c3">>>>, <<<<"a9">>>>), Told1("text", <<<<"c3">>, <<"a9">>>>), 0),
     Frames(Pieces("binary", <<A, A>>, <<CR, LF>>), Told1("binary", <<A, A, CR, LF>>), 0),
     Frames(<<First(FALSE, "binary", <<A>>), Inner(0, "binary", <<A>>, TRUE, "ping", <<B>>),
              Inner(1, "binary", <<A>>, TRUE, "continuation", <<>>)>>,
            Told1("ping", <<B>>) \o Told1("binary", <<A>>), 0),
     Frames(<<First(TRUE, "pong", <<>>)>>, Told1("pong", <<>>), 0)}

\* A close that is understood ends the stream as a fault does.
LastFrames ==
    {Frames(<<First(TRUE, "close", <<>>)>>, Told1("close", <<>>), 0),
     \* the reason is a character too long for a control frame
     Frames(<<FrameOf(0, "none", <<>>, TRUE, "close", <<<<"1000">>, A>>,
                      EncodeClose("1000", <<<<"c3">>, <<"a9">>>>, TRUE))>>,
            Told1("close", <<<<"1000">>, A>>), 0),
     Frames(<<First(TRUE, "close", <<A>>)>>, <<>>, 1002),
     Frames(<<First(TRUE, "close", <<<<"1005">>, A>>)>>, <<>>, 1002),
     Frames(<<First(TRUE, "close", <<<<"1000">>, A, <<"c3">>>>)>>, <<>>, 1007),
     Frames(<<First(TRUE, "continuation", <<A>>)>>, <<>>, 1002),
     Frames(<<First(FALSE, "text", <<A>>), Inner(0, "text", <<A>>, TRUE, "text", <<A>>)>>,
            <<>>, 1002),
     Frames(<<Odd("none", <<>>, Frame(TRUE, "reserved", <<A>>))>>, <<>>, 1002),
     Frames(<<Odd("none", <<>>, EncodeFrame(TRUE, "text", <<A>>, FALSE))>>, <<>>, 1002),
     Frames(<<Odd("none", <<>>, Frame(FALSE, "ping", <<A>>))>>, <<>>, 1002),
     Frames(<<Odd("none", <<>>, SubSeq(Frame(TRUE, "ping", <<A, A, A, A>>), 1, 3))>>, <<>>, 1002),
     Frames(<<Odd("none", <<>>, <<<<"op", TRUE, "binary">>, <<"len", TRUE, 4>>, <<"ext", -1>>>>)>>,
            <<>>, 1002),
     Frames(<<Odd("none", <<>>, <<<<"op", TRUE, "binary">>, <<"len", TRUE, 4>>, <<"ext", 5>>>>)>>,
            <<>>, 1009),
     Frames(<<First(FALSE, "binary", <<A, A>>),
              Odd("binary", <<A, A>>, SubSeq(Frame(TRUE, "continuation", <<A, A, A>>), 1, 2))>>,
            <<>>, 1009),
     Frames(Pieces("text", <<<<"c3">>>>, <<A>>), <<>>, 1007)}

-----------------------------------------------------------------------------
\* Behind n requests or messages.
Shift(at, n) ==
    [i \in DOMAIN at |-> IF "nth" \in DOMAIN at[i] THEN [at[i] EXCEPT !.nth = @ + n] ELSE at[i]]

\* What is said of a stream at each of its positions, the last being its end.
Said(at, end) == [p \in 0..Len(at) |-> IF p < Len(at) THEN at[p + 1] ELSE end]

\* Two requests: the second is never told if the first is refused.
HTTPStream(r, q) ==
    LET good == r.fault = "none" IN
    [units |-> r.units \o q.units,
     requests |-> IF good THEN r.told \o q.told ELSE r.told,
     fault |-> IF good THEN q.fault ELSE r.fault,
     messages |-> <<>>, code |-> 0,
     whole |-> {0}
         \cup (IF good THEN {Len(r.units)} ELSE {})
         \cup (IF good /\ q.fault = "none" THEN {Len(r.units) + Len(q.units)} ELSE {}),
     writing |->
        IF good THEN Said(r.at \o Shift(q.at, 1), IF q.fault = "none" THEN Between(2) ELSE NoMore)
        ELSE Said(r.at \o [i \in DOMAIN q.at |-> NoMore], NoMore)]

\* Frames behind an upgrade, behind a request or not.
TunnelStream(r, f, g) ==
    LET good == f \in GoodFrames
        told == IF good THEN f.told \o g.told ELSE f.told
        end  == FrameOf(Len(told), "none", <<>>, TRUE, "ping", <<>>, <<A>>).at[1]
    IN
    [units |-> r.units \o Upgrade.units \o f.units \o g.units,
     requests |-> r.told \o <<[Upgrade.told[1] EXCEPT !.done = FALSE]>>, fault |-> "none",
     messages |-> told, code |-> IF good THEN g.code ELSE f.code,
     whole |-> {0, Len(r.units)}
         \cup Len(r.units \o Upgrade.units)..Len(r.units \o Upgrade.units \o f.units \o g.units),
     writing |->
        Said(r.at \o Shift(Upgrade.at, Len(r.told)) \o f.at
                \o (IF good THEN Shift(g.at, Len(f.told)) ELSE [i \in DOMAIN g.at |-> Beyond]),
             IF good /\ g \in GoodFrames THEN end ELSE Beyond)]

Nothing == [units |-> <<>>, at |-> <<>>, told |-> <<>>, fault |-> "none"]

MCStreams ==
    {HTTPStream(r, q) : r \in GoodRequests, q \in GoodRequests \cup BadRequests}
    \cup {HTTPStream(r, Good(<<Get>>, <<>>, <<>>)) : r \in BadRequests}
    \cup {TunnelStream(Nothing, f, g) : f \in GoodFrames, g \in GoodFrames \cup LastFrames}
    \cup {TunnelStream(Nothing, f, Frames(<<First(TRUE, "text", <<A>>)>>, Told1("text", <<A>>), 0)) :
            f \in LastFrames}
    \* a request in clear in place of the first frame
    \cup {TunnelStream(r, Frames(<<Odd("none", <<>>, Good(<<Get>>, <<>>, <<>>).units)>>, <<>>, 1002),
                       CHOOSE g \in LastFrames : g.code = 0) : r \in GoodRequests}

=============================================================================
