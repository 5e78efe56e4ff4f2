---------------------------- MODULE WritingProofs ----------------------------
(***************************************************************************)
(* What a client writes as module Writing says is what the server tells,   *)
(* for every stream, however it is cut and whenever it is closed.          *)
(*                                                                         *)
(* The invariant says where in the stream the parsers are: what they have  *)
(* ahead is the rest of it behind some position, and what they have made   *)
(* of what is behind them is what the client had written there.  By        *)
(* SegmentsDoNotMatter only the steps of WholeStream need be looked at.    *)
(***************************************************************************)
EXTENDS Writing, InboundProofs

\* What is written behind p.
Rest(s, p) == SubSeq(s.units, p + 1, Len(s.units))

LEMMA RestFacts ==
    ASSUME NEW S, NEW u \in Seq(S), NEW p \in 0..Len(u)
    PROVE  /\ SubSeq(u, p + 1, Len(u)) \in Seq(S)
           /\ Len(SubSeq(u, p + 1, Len(u))) = Len(u) - p
           /\ \A i \in 1..(Len(u) - p) : SubSeq(u, p + 1, Len(u))[i] = u[p + i]
<1>1. Len(u) \in Nat /\ p + 1 \in Int /\ p \in Nat
  BY LenProperties
<1>2. \A i \in (p + 1)..Len(u) : u[i] \in S
  BY <1>1, ElementOfSeq
<1> DEFINE r == SubSeq(u, p + 1, Len(u))
<1>3. /\ r \in Seq(S) /\ Len(r) = IF p + 1 <= Len(u) THEN Len(u) - (p + 1) + 1 ELSE 0
      /\ \A i \in 1..(Len(u) - (p + 1) + 1) : r[i] = u[(p + 1) + i - 1]
  BY <1>1, <1>2, SubSeqProperties
<1> HIDE DEF r
<1>4. Len(u) - (p + 1) + 1 = Len(u) - p /\ (p + 1 <= Len(u) <=> Len(u) - p # 0)
  BY <1>1
<1>5. \A i \in 1..(Len(u) - p) : (p + 1) + i - 1 = p + i
  BY <1>1
<1>6. r \in Seq(S) /\ Len(r) = Len(u) - p /\ \A i \in 1..(Len(u) - p) : r[i] = u[p + i]
  BY <1>1, <1>3, <1>4, <1>5
<1> QED BY <1>6 DEF r

LEMMA SliceFacts ==
    ASSUME NEW S, NEW u \in Seq(S), NEW p \in 0..Len(u), NEW n \in 0..(Len(u) - p)
    PROVE  /\ SubSeq(u, p + 1, p + n) \in Seq(S) /\ Len(SubSeq(u, p + 1, p + n)) = n
           /\ \A i \in 1..n : SubSeq(u, p + 1, p + n)[i] = u[p + i]
<1>1. Len(u) \in Nat /\ p + 1 \in Int /\ p \in Nat /\ n \in Nat /\ p + n \in Int
  BY LenProperties
<1>2. \A i \in (p + 1)..(p + n) : u[i] \in S
  BY <1>1, ElementOfSeq
<1>3. (p + n) - (p + 1) + 1 = n /\ (p + 1 <= p + n <=> n # 0)
  BY <1>1
<1>4. \A i \in 1..n : (p + 1) + i - 1 = p + i
  BY <1>1
<1> QED BY <1>1, <1>2, <1>3, <1>4, SubSeqProperties

\* What is taken off the front of a rest, and what is left of it.
LEMMA Cutting ==
    ASSUME NEW S, NEW u \in Seq(S), NEW p \in 0..Len(u), NEW n \in 0..(Len(u) - p)
    PROVE  LET r == SubSeq(u, p + 1, Len(u)) IN
           /\ SubSeq(r, n + 1, Len(r)) = SubSeq(u, (p + n) + 1, Len(u))
           /\ SubSeq(r, 1, n) = SubSeq(u, p + 1, p + n)
<1> DEFINE r == SubSeq(u, p + 1, Len(u))
<1>1. Len(u) \in Nat /\ p \in Nat /\ n \in Nat /\ p + n \in 0..Len(u)
  BY LenProperties
<1>2. r \in Seq(S) /\ Len(r) = Len(u) - p /\ \A i \in 1..(Len(u) - p) : r[i] = u[p + i]
  BY RestFacts
<1>3. n \in 0..Len(r) /\ 0 \in 0..Len(r) /\ n \in 0..(Len(r) - 0)
  BY <1>1, <1>2
<1> HIDE DEF r
<1>4. /\ SubSeq(r, n + 1, Len(r)) \in Seq(S) /\ Len(SubSeq(r, n + 1, Len(r))) = Len(r) - n
      /\ \A i \in 1..(Len(r) - n) : SubSeq(r, n + 1, Len(r))[i] = r[n + i]
  BY <1>2, <1>3, RestFacts
<1>5. /\ SubSeq(u, (p + n) + 1, Len(u)) \in Seq(S)
      /\ Len(SubSeq(u, (p + n) + 1, Len(u))) = Len(u) - (p + n)
      /\ \A i \in 1..(Len(u) - (p + n)) : SubSeq(u, (p + n) + 1, Len(u))[i] = u[(p + n) + i]
  BY <1>1, RestFacts
<1>6. SubSeq(r, n + 1, Len(r)) = SubSeq(u, (p + n) + 1, Len(u))
  <2>1. Len(r) - n = Len(u) - (p + n)
    BY <1>1, <1>2
  <2>2. \A i \in 1..(Len(r) - n) :
            n + i \in 1..(Len(u) - p) /\ p + (n + i) = (p + n) + i
    BY <1>1, <1>2
  <2>3. \A i \in 1..(Len(r) - n) :
            SubSeq(r, n + 1, Len(r))[i] = SubSeq(u, (p + n) + 1, Len(u))[i]
    BY <1>2, <1>4, <1>5, <2>1, <2>2
  <2> QED BY <1>4, <1>5, <2>1, <2>3, SeqEqual
<1>7. /\ SubSeq(r, 0 + 1, 0 + n) \in Seq(S) /\ Len(SubSeq(r, 0 + 1, 0 + n)) = n
      /\ \A i \in 1..n : SubSeq(r, 0 + 1, 0 + n)[i] = r[0 + i]
  BY <1>2, <1>3, SliceFacts
<1>8. /\ SubSeq(u, p + 1, p + n) \in Seq(S) /\ Len(SubSeq(u, p + 1, p + n)) = n
      /\ \A i \in 1..n : SubSeq(u, p + 1, p + n)[i] = u[p + i]
  BY SliceFacts
<1>9. SubSeq(r, 1, n) = SubSeq(u, p + 1, p + n)
  <2>1. 0 + 1 = 1 /\ 0 + n = n /\ \A i \in 1..n : 0 + i = i /\ i \in 1..(Len(u) - p)
    BY <1>1, <1>2, <1>3
  <2> QED BY <1>2, <1>7, <1>8, <2>1, SeqEqual
<1> QED BY <1>6, <1>9 DEF r

-----------------------------------------------------------------------------
\* The parsers are ahead of the stream from p.
Position(p) == p \in 0..Len(stream.units) /\ HTTPAhead = Rest(stream, p)

LEMMA AheadOf ==
    ASSUME IInv, NEW p, Position(p)
    PROVE  /\ stream.units \in Seq(Unit) /\ Len(stream.units) \in Nat
           /\ p \in 0..Len(stream.units)
           /\ HTTPAhead \in Seq(Unit) /\ Len(HTTPAhead) = Len(stream.units) - p
           /\ \A i \in 1..(Len(stream.units) - p) : HTTPAhead[i] = stream.units[p + i]
           /\ \A n \in 0..(Len(stream.units) - p) :
                 /\ SubSeq(HTTPAhead, n + 1, Len(HTTPAhead)) = Rest(stream, p + n)
                 /\ SubSeq(HTTPAhead, 1, n) = Data(stream, p, n)
                 /\ Data(stream, p, n) \in Seq(Unit) /\ Len(Data(stream, p, n)) = n
<1>1. stream.units \in Seq(Unit) /\ Len(stream.units) \in Nat
  BY StreamsAssumption, LenProperties DEF IInv
<1>2. p \in 0..Len(stream.units) /\ HTTPAhead = SubSeq(stream.units, p + 1, Len(stream.units))
  BY DEF Position, Rest
<1>3. /\ HTTPAhead \in Seq(Unit) /\ Len(HTTPAhead) = Len(stream.units) - p
      /\ \A i \in 1..(Len(stream.units) - p) : HTTPAhead[i] = stream.units[p + i]
  BY <1>1, <1>2, RestFacts
<1>4. ASSUME NEW n \in 0..(Len(stream.units) - p)
      PROVE  /\ SubSeq(HTTPAhead, n + 1, Len(HTTPAhead)) = Rest(stream, p + n)
             /\ SubSeq(HTTPAhead, 1, n) = Data(stream, p, n)
             /\ Data(stream, p, n) \in Seq(Unit) /\ Len(Data(stream, p, n)) = n
  BY <1>1, <1>2, Cutting, SliceFacts DEF Rest, Data
<1> QED BY <1>1, <1>2, <1>3, <1>4

LEMMA Ends ==
    ASSUME IInv, NEW p, Position(p), NEW i \in 1..(Len(stream.units) - p)
    PROVE  Whole!EndsLine(i) <=> CrlfAt(stream, p + i)
<1>1. Whole!CR = CR /\ Whole!LF = LF
  BY DEF Whole!CR, Whole!LF, CR, LF
<1>2. /\ Len(stream.units) \in Nat /\ p \in 0..Len(stream.units)
      /\ Len(HTTPAhead) = Len(stream.units) - p
      /\ \A k \in 1..(Len(stream.units) - p) : HTTPAhead[k] = stream.units[p + k]
  BY AheadOf
<1>3. (i < Len(HTTPAhead) <=> p + i < Len(stream.units)) /\ HTTPAhead[i] = stream.units[p + i]
  BY <1>2
<1>4. i < Len(HTTPAhead) => HTTPAhead[i + 1] = stream.units[(p + i) + 1]
  <2>1. i < Len(HTTPAhead) => i + 1 \in 1..(Len(stream.units) - p) /\ p + (i + 1) = (p + i) + 1
    BY <1>2
  <2> QED BY <1>2, <2>1
<1> QED BY <1>1, <1>3, <1>4 DEF Whole!EndsLine, CrlfAt

\* A line is found as it was written, and none but it.
LEMMA LineFound ==
    ASSUME IInv, NEW p, Position(p), NEW q \in 0..Len(stream.units), WritesLine(stream, p, q)
    PROVE  /\ Whole!HasLine /\ ~Whole!TooLong /\ Whole!LineEnd = q - p - 1
           /\ Whole!LineEnd # MaxHeaderSize + 1
           /\ Whole!Line = Text(stream, p, q) /\ Text(stream, p, q) \in Seq(Unit)
           /\ Whole!TakeLine /\ UNCHANGED stream => Position(q)'
<1>1. /\ Len(stream.units) \in Nat /\ p \in 0..Len(stream.units) /\ p + 2 <= q
      /\ DOMAIN HTTPAhead = 1..Len(HTTPAhead) /\ Len(HTTPAhead) = Len(stream.units) - p
  BY AheadOf, LenProperties DEF WritesLine
<1> DEFINE e == q - p - 1
<1>2. /\ e \in 1..(Len(stream.units) - p) /\ e \in DOMAIN HTTPAhead /\ p + e = q - 1
      /\ e - 1 \in 0..(Len(stream.units) - p) /\ e + 1 \in 0..(Len(stream.units) - p)
      /\ p + (e - 1) = q - 2 /\ p + (e + 1) = q /\ (e + 1) + 1 = e + 2
  BY <1>1
<1>3. Whole!FirstEnd(e)
  <2>1. Whole!EndsLine(e)
    BY <1>2, Ends DEF WritesLine
  <2>2. ASSUME NEW j \in 1..(e - 1) PROVE ~Whole!EndsLine(j)
    <3>1. j \in 1..(Len(stream.units) - p) /\ p + j \in (p + 1)..(q - 2)
      BY <1>1, <1>2
    <3> QED BY <3>1, Ends DEF WritesLine
  <2> QED BY <2>1, <2>2 DEF Whole!FirstEnd
<1>4. ASSUME NEW i \in DOMAIN HTTPAhead, Whole!FirstEnd(i) PROVE i = e
  <2>1. i \in 1..(e - 1) \/ e \in 1..(i - 1) \/ i = e
    BY <1>1, <1>2
  <2> QED BY <1>3, <1>4, <2>1 DEF Whole!FirstEnd
<1>5. Whole!LineEnd = e
  BY <1>2, <1>3, <1>4 DEF Whole!LineEnd
<1>6. Whole!HasLine /\ ~Whole!TooLong /\ Whole!LineEnd # MaxHeaderSize + 1
  BY <1>1, <1>2, <1>5, LimitsAssumption DEF Whole!HasLine, Whole!TooLong, WritesLine
<1> HIDE DEF e
<1>7. Whole!Line = Text(stream, p, q) /\ Text(stream, p, q) \in Seq(Unit)
  <2>1. /\ SubSeq(HTTPAhead, 1, e - 1) = Data(stream, p, e - 1)
        /\ Data(stream, p, e - 1) \in Seq(Unit)
    BY <1>2, AheadOf
  <2> QED BY <1>2, <1>5, <2>1 DEF Whole!Line, Text, Data
<1>8. ASSUME Whole!TakeLine, UNCHANGED stream PROVE Position(q)'
  <2>1. SubSeq(HTTPAhead, (e + 1) + 1, Len(HTTPAhead)) = Rest(stream, p + (e + 1))
    BY <1>2, AheadOf
  <2>2. HTTPAhead' = Rest(stream, q)
    BY <1>2, <1>5, <1>8, <2>1 DEF Whole!TakeLine
  <2> QED BY <1>8, <2>2 DEF Position, Rest
<1>9. e = q - p - 1
  BY DEF e
<1> QED BY <1>5, <1>6, <1>7, <1>8, <1>9

LEMMA NoLineFound ==
    ASSUME IInv, NEW p, Position(p), WritesTooLong(stream, p)
    PROVE  ~Whole!HasLine
<1> SUFFICES ASSUME Whole!HasLine PROVE FALSE
  OBVIOUS
<1>1. /\ Len(stream.units) \in Nat /\ p \in 0..Len(stream.units)
      /\ DOMAIN HTTPAhead = 1..Len(HTTPAhead) /\ Len(HTTPAhead) = Len(stream.units) - p
  BY AheadOf, LenProperties
<1>2. Whole!LineEnd \in 1..(Len(stream.units) - p) /\ Whole!EndsLine(Whole!LineEnd)
  BY <1>1 DEF Whole!HasLine, Whole!LineEnd, Whole!FirstEnd
<1>3. Whole!LineEnd - 1 <= MaxHeaderSize
  BY <1>1, <1>2, LimitsAssumption DEF Whole!HasLine, Whole!TooLong
<1>4. p + Whole!LineEnd \in (p + 1)..(p + MaxHeaderSize + 1)
  BY <1>1, <1>2, <1>3, LimitsAssumption
<1> QED BY <1>2, <1>4, Ends DEF WritesTooLong

-----------------------------------------------------------------------------
\* What the parser has counted of a chunked body.
Counted(d) == IF d.part \in {"size", "data", "data_crlf", "trailers"} THEN Len(d.body) + d.left
              ELSE 0

\* It has made of the stream what the client had written.
AtDraft(d) ==
    /\ d.part \in Parts
    /\ state = d.part /\ line = d.line /\ headers = d.headers /\ left = d.left
    /\ total = Counted(d) /\ delivered = ToldBy(stream, d) /\ httpError = "none"

\* A request without a body is complete and not yet told to be.
AtNoBody(d) ==
    /\ d.part = "start_line" /\ d = Between(d.nth) /\ d.nth \in 1..Len(stream.requests)
    /\ stream.requests[d.nth].done = TRUE
    /\ state = "body" /\ left = 0 /\ httpError = "none"
    /\ delivered = Append(SubSeq(stream.requests, 1, d.nth - 1),
                          [stream.requests[d.nth] EXCEPT !.done = FALSE])

\* All requests are told, the one that upgrades the connection the last.
Upgrades ==
    /\ state = "upgraded" /\ httpError = "none" /\ stream.fault = "none"
    /\ delivered = stream.requests

\* What is left of the stream is of no request.
Behind(p) == \A k \in p..Len(stream.units) : At(stream, k).part \in {"frame", "beyond"}

AtUpgrade(p) ==
    /\ Upgrades /\ Behind(p)
    /\ At(stream, p).part = "frame" /\ At(stream, p).nth = 0
    /\ At(stream, p).kind = "none" /\ At(stream, p).pieces = <<>>

GaveUp ==
    /\ state = "failed" /\ httpError = stream.fault /\ delivered = stream.requests
    /\ stream.messages = <<>> /\ stream.code = 0

HTTPAt(p) ==
    /\ Position(p)
    /\ AtDraft(At(stream, p)) \/ AtNoBody(At(stream, p)) \/ AtUpgrade(p)

HTTPThere == GaveUp \/ \E p \in 0..Len(stream.units) : HTTPAt(p)

\* The parsers are where the client wrote d.
Here(p, d) ==
    IInv /\ Position(p) /\ d = At(stream, p) /\ AtDraft(d) /\ UNCHANGED stream

LEMMA Agreed ==
    ASSUME IInv, NEW p \in 0..Len(stream.units)
    PROVE  /\ stream.requests \in Seq(Request) /\ Len(stream.requests) \in Nat
           /\ WellWritten(stream) /\ WritesRequests(stream, p) /\ WritesFrames(stream, p)
  BY WritingAssumption, LenProperties DEF IInv, WellWritten

LEMMA FirstOnes ==
    ASSUME NEW S, NEW s \in Seq(S), NEW n \in 0..Len(s)
    PROVE  /\ SubSeq(s, 1, n) \in Seq(S) /\ Len(SubSeq(s, 1, n)) = n
           /\ \A i \in 1..n : SubSeq(s, 1, n)[i] = s[i]
           /\ n < Len(s) => SubSeq(s, 1, n + 1) = Append(SubSeq(s, 1, n), s[n + 1])
<1>1. Len(s) \in Nat /\ n \in Nat /\ 0 \in 0..Len(s) /\ n \in 0..(Len(s) - 0)
  BY LenProperties
<1>2. /\ SubSeq(s, 0 + 1, 0 + n) \in Seq(S) /\ Len(SubSeq(s, 0 + 1, 0 + n)) = n
      /\ \A i \in 1..n : SubSeq(s, 0 + 1, 0 + n)[i] = s[0 + i]
  BY <1>1, SliceFacts
<1>3. 0 + 1 = 1 /\ 0 + n = n /\ \A i \in 1..n : 0 + i = i
  BY <1>1
<1>4. /\ SubSeq(s, 1, n) \in Seq(S) /\ Len(SubSeq(s, 1, n)) = n
      /\ \A i \in 1..n : SubSeq(s, 1, n)[i] = s[i]
  BY <1>2, <1>3
<1>5. ASSUME n < Len(s) PROVE SubSeq(s, 1, n + 1) = Append(SubSeq(s, 1, n), s[n + 1])
  <2>1. 1 \in 1..Len(s) /\ n + 1 \in 1..Len(s) /\ (n + 1) - 1 = n
    BY <1>1, <1>5
  <2>2. SubSeq(s, 1, n + 1) = SubSeq(s, 1, (n + 1) - 1) \o <<s[n + 1]>>
    BY <2>1, SubSeqRecursiveSecond
  <2>3. s[n + 1] \in S
    BY <2>1, ElementOfSeq
  <2> QED BY <1>4, <2>1, <2>2, <2>3, AppendIsConcat
<1> QED BY <1>4, <1>5

LEMMA SameRequest ==
    ASSUME NEW x \in Request, NEW y \in Request,
           x.line = y.line, x.headers = y.headers, x.body = y.body, x.done = y.done
    PROVE  x = y
BY DEF Request

LEMMA ReplacedLast ==
    ASSUME NEW front \in Seq(Request), NEW s \in Seq(Request), Len(s) = Len(front) + 1,
           \A i \in 1..Len(front) : s[i] = front[i], NEW new \in Request
    PROVE  [s EXCEPT ![Len(s)] = new] = Append(front, new)
<1>1. Len(front) \in Nat /\ Len(s) \in Nat /\ Len(s) \in 1..Len(s)
  BY LenProperties
<1>2. /\ [s EXCEPT ![Len(s)] = new] \in Seq(Request)
      /\ Len([s EXCEPT ![Len(s)] = new]) = Len(s)
      /\ \A j \in 1..Len(s) :
            [s EXCEPT ![Len(s)] = new][j] = IF j = Len(s) THEN new ELSE s[j]
  BY <1>1, ExceptSeq
<1>3. /\ Append(front, new) \in Seq(Request) /\ Len(Append(front, new)) = Len(front) + 1
      /\ \A i \in 1..Len(front) : Append(front, new)[i] = front[i]
      /\ Append(front, new)[Len(front) + 1] = new
  BY AppendProperties
<1>4. \A j \in 1..Len(s) : [s EXCEPT ![Len(s)] = new][j] = Append(front, new)[j]
  BY <1>1, <1>2, <1>3
<1> QED BY <1>1, <1>2, <1>3, <1>4, SeqEqual

\* What is told of the newest request extends it.
LEMMA ToldNewest ==
    ASSUME NEW front \in Seq(Request), NEW r \in Request, delivered = Append(front, r),
           NEW data \in Seq(Unit), NEW done \in BOOLEAN
    PROVE  Told(data, done) = Append(front, [line |-> r.line, headers |-> r.headers,
                                             body |-> r.body \o data, done |-> done])
<1> DEFINE new     == [line |-> r.line, headers |-> r.headers, body |-> r.body \o data, done |-> done]
           changed == [[r EXCEPT !.body = @ \o data] EXCEPT !.done = done]
<1>1. Len(front) \in Nat
  BY LenProperties
<1>2. /\ delivered \in Seq(Request) /\ Len(delivered) = Len(front) + 1
      /\ delivered[Len(front) + 1] = r /\ \A i \in 1..Len(front) : delivered[i] = front[i]
      /\ DOMAIN delivered = 1..Len(delivered)
  BY AppendProperties, LenProperties
<1>3. r.body \o data \in Seq(Unit)
  BY ConcatProperties DEF Request
<1>4. new \in Request
  BY <1>3 DEF Request
<1>5. changed = new
  <2>1. /\ changed \in Request /\ changed.line = r.line /\ changed.headers = r.headers
        /\ changed.body = r.body \o data /\ changed.done = done
    BY <1>3 DEF Request
  <2>2. new.line = r.line /\ new.headers = r.headers /\ new.body = r.body \o data /\ new.done = done
    OBVIOUS
  <2> HIDE DEF changed, new
  <2> QED BY <1>4, <2>1, <2>2, SameRequest
<1>6. Told(data, done) = [delivered EXCEPT ![Len(delivered)] = new]
  <2>1. Told(data, done)
          = [delivered EXCEPT ![Len(delivered)]
                = [[delivered[Len(delivered)] EXCEPT !.body = @ \o data] EXCEPT !.done = done]]
    BY <1>1, <1>2 DEF Told, Request
  <2>2. delivered[Len(delivered)] = r
    BY <1>2
  <2> HIDE DEF new
  <2> QED BY <1>5, <2>1, <2>2
<1> HIDE DEF new
<1>7. Told(data, done) = Append(front, new)
  BY <1>2, <1>4, <1>6, ReplacedLast
<1> QED BY <1>7 DEF new

-----------------------------------------------------------------------------
LEMMA DraftFacts ==
    ASSUME NEW p, NEW d, Here(p, d)
    PROVE  /\ IInv /\ Position(p) /\ UNCHANGED stream
           /\ p \in 0..Len(stream.units) /\ Len(stream.units) \in Nat
           /\ stream.requests \in Seq(Request) /\ Len(stream.requests) \in Nat
           /\ d = At(stream, p) /\ AtDraft(d)
           /\ d \in Draft /\ d.nth \in 0..Len(stream.requests)
           /\ HeadSent(d) => d.nth < Len(stream.requests)
           /\ SubSeq(stream.requests, 1, d.nth) \in Seq(Request)
           /\ Begun(d) \in Request
           /\ d.part = "start_line" => StartLine(stream, p)
           /\ d.part = "headers"    => Headers(stream, p)
           /\ d.part = "body"       => Body(stream, p)
           /\ d.part = "size"       => ChunkSize(stream, p)
           /\ d.part = "data"       => ChunkData(stream, p)
           /\ d.part = "data_crlf"  => ChunkEnd(stream, p)
           /\ d.part = "trailers"   => Trailers(stream, p)
<1>1. IInv /\ Position(p) /\ UNCHANGED stream /\ d = At(stream, p) /\ AtDraft(d)
  BY DEF Here
<1>2. p \in 0..Len(stream.units) /\ Len(stream.units) \in Nat
  BY <1>1, AheadOf
<1>3. /\ stream.requests \in Seq(Request) /\ Len(stream.requests) \in Nat
      /\ WritesRequests(stream, p) /\ d.part \in Parts
  BY <1>1, <1>2, Agreed DEF AtDraft
<1>4. /\ d \in Draft /\ d.nth <= Len(stream.requests)
      /\ HeadSent(d) => d.nth < Len(stream.requests)
      /\ d.part = "start_line" => StartLine(stream, p)
      /\ d.part = "headers"    => Headers(stream, p)
      /\ d.part = "body"       => Body(stream, p)
      /\ d.part = "size"       => ChunkSize(stream, p)
      /\ d.part = "data"       => ChunkData(stream, p)
      /\ d.part = "data_crlf"  => ChunkEnd(stream, p)
      /\ d.part = "trailers"   => Trailers(stream, p)
  BY <1>1, <1>3 DEF WritesRequests
<1>5. d.nth \in 0..Len(stream.requests) /\ Begun(d) \in Request
  BY <1>3, <1>4 DEF Draft, Begun, Request
<1>6. SubSeq(stream.requests, 1, d.nth) \in Seq(Request)
  BY <1>3, <1>5, FirstOnes
<1> QED BY <1>1, <1>2, <1>3, <1>4, <1>5, <1>6

LEMMA Failed ==
    ASSUME NEW p, NEW d, Here(p, d), NEW e, Stops(stream, p, e), Whole!Fail(e)
    PROVE  HTTPThere'
  BY DEF Here, AtDraft, Stops, Whole!Fail, HTTPThere, GaveUp

LEMMA Moved ==
    ASSUME UNCHANGED stream, NEW q \in 0..Len(stream.units), Position(q)',
           NEW d, d = At(stream, q), d.part \in Parts,
           state' = d.part, line' = d.line, headers' = d.headers, left' = d.left,
           total' = Counted(d), delivered' = ToldBy(stream, d), httpError' = "none"
    PROVE  HTTPThere'
<1>1. AtDraft(At(stream, q))'
  BY DEF AtDraft, At
<1>2. HTTPAt(q)'
  BY <1>1 DEF HTTPAt
<1> QED BY <1>2 DEF HTTPThere

LEMMA NothingAhead ==
    ASSUME IInv, Position(Len(stream.units))
    PROVE  /\ Len(HTTPAhead) = 0 /\ Whole!LineEnd = 0 /\ ~Whole!HasLine /\ ~Whole!TooLong
           /\ Whole!LineEnd # MaxHeaderSize + 1
<1>1. Len(HTTPAhead) = 0 /\ DOMAIN HTTPAhead = 1..Len(HTTPAhead)
  BY AheadOf, LenProperties
<1>2. Whole!LineEnd = 0
  BY <1>1 DEF Whole!LineEnd
<1> QED BY <1>1, <1>2, LimitsAssumption DEF Whole!HasLine, Whole!TooLong

\* A line is refused for its length only where the client wrote one too long.
LEMMA Rejecting ==
    ASSUME NEW p, NEW d, Here(p, d), Whole!RejectLine \/ Whole!RejectAtLimit
    PROVE  HTTPThere'
<1>1. IInv /\ Position(p) /\ AtDraft(d)
  BY DraftFacts
<1>2. /\ Whole!ReadsLine /\ Whole!Fail("too_large")
      /\ Whole!TooLong \/ Whole!LineEnd = MaxHeaderSize + 1
  BY DEF Whole!RejectLine, Whole!RejectAtLimit
<1>3. d.part \in {"start_line", "headers", "size", "trailers"}
  BY <1>1, <1>2 DEF Whole!ReadsLine, AtDraft
<1>4. \A q \in 0..Len(stream.units) : ~WritesLine(stream, p, q)
  BY <1>1, <1>2, LineFound
<1>5. p # Len(stream.units)
  BY <1>1, <1>2, NothingAhead
<1>6. WritesTooLong(stream, p)
  BY <1>3, <1>4, <1>5, DraftFacts DEF StartLine, Headers, ChunkSize, Trailers
<1> QED BY <1>2, <1>6, Failed DEF WritesTooLong

LEMMA StartingLine ==
    ASSUME NEW p, NEW d, Here(p, d), Whole!ConsumeStartLine
    PROVE  HTTPThere'
<1>1. /\ IInv /\ Position(p) /\ AtDraft(d) /\ d \in Draft /\ UNCHANGED stream
      /\ d = At(stream, p)
  BY DraftFacts
<1>2. state = "start_line" /\ d.part = "start_line" /\ Whole!HasLine /\ Whole!TakeLine
  BY <1>1 DEF Whole!ConsumeStartLine, AtDraft
<1>3. StartLine(stream, p) /\ p # Len(stream.units) /\ ~WritesTooLong(stream, p)
  BY <1>1, <1>2, DraftFacts, NothingAhead, NoLineFound
<1>4. PICK q \in 0..Len(stream.units) :
         /\ WritesLine(stream, p, q)
         /\ \/ /\ IsRequestLine(Text(stream, p, q))
               /\ At(stream, q) = [d EXCEPT !.part = "headers", !.line = Text(stream, p, q)]
            \/ ~IsRequestLine(Text(stream, p, q)) /\ Stops(stream, p, "malformed")
  BY <1>1, <1>3 DEF StartLine
<1>5. Whole!Line = Text(stream, p, q) /\ Position(q)'
  BY <1>1, <1>2, <1>4, LineFound
<1>6. CASE Whole!IsRequestLine(Whole!Line)
  <2> DEFINE new == At(stream, q)
  <2>1. new = [d EXCEPT !.part = "headers", !.line = Text(stream, p, q)]
    BY <1>4, <1>5, <1>6, SameHTTP
  <2>2. /\ new.part = "headers" /\ new.line = Whole!Line /\ new.headers = d.headers
        /\ new.left = d.left /\ new.nth = d.nth
    BY <1>1, <1>5, <2>1 DEF Draft
  <2>3. /\ state' = "headers" /\ line' = Whole!Line
        /\ UNCHANGED <<headers, left, total, delivered, httpError>>
    BY <1>6 DEF Whole!ConsumeStartLine
  <2>4. total' = Counted(new) /\ delivered' = ToldBy(stream, new)
    BY <1>1, <1>2, <2>2, <2>3 DEF AtDraft, Counted, ToldBy, HeadSent
  <2> HIDE DEF new
  <2>5. new = At(stream, q) /\ new.part \in Parts
    BY <2>2 DEF new, Parts
  <2> QED BY <1>1, <1>5, <2>2, <2>3, <2>4, <2>5, Moved DEF AtDraft
<1>7. CASE ~Whole!IsRequestLine(Whole!Line)
  <2>1. Stops(stream, p, "malformed")
    BY <1>4, <1>5, <1>7, SameHTTP
  <2>2. Whole!Fail("malformed")
    BY <1>7 DEF Whole!ConsumeStartLine
  <2> QED BY <2>1, <2>2, Failed
<1> QED BY <1>6, <1>7

LEMMA AddingHeader ==
    ASSUME NEW p, NEW d, Here(p, d), Whole!ConsumeHeaderLine
    PROVE  HTTPThere'
<1>1. /\ IInv /\ Position(p) /\ AtDraft(d) /\ d \in Draft /\ UNCHANGED stream
      /\ d = At(stream, p)
  BY DraftFacts
<1>2. /\ state = "headers" /\ d.part = "headers" /\ Whole!HasLine /\ Whole!TakeLine
      /\ Whole!Line # <<>>
  BY <1>1 DEF Whole!ConsumeHeaderLine, AtDraft
<1>3. Headers(stream, p) /\ ~WritesTooLong(stream, p)
  BY <1>1, <1>2, DraftFacts, NoLineFound
<1>4. PICK q \in 0..Len(stream.units) :
         /\ WritesLine(stream, p, q)
         /\ \/ /\ Text(stream, p, q) # <<>>
               /\ HeaderError(d.headers, Text(stream, p, q)) = "none"
               /\ At(stream, q) = [d EXCEPT !.headers = Append(@, Text(stream, p, q))]
            \/ /\ Text(stream, p, q) # <<>>
               /\ HeaderError(d.headers, Text(stream, p, q)) # "none"
               /\ Stops(stream, p, HeaderError(d.headers, Text(stream, p, q)))
            \/ Text(stream, p, q) = <<>>
  BY <1>1, <1>3 DEF Headers
<1>5. /\ Whole!Line = Text(stream, p, q) /\ Position(q)' /\ headers = d.headers
      /\ Whole!HeaderError(headers, Whole!Line) = HeaderError(d.headers, Text(stream, p, q))
  BY <1>1, <1>2, <1>4, LineFound, SameHTTP DEF AtDraft
<1>6. CASE Whole!HeaderError(headers, Whole!Line) = "none"
  <2> DEFINE new == At(stream, q)
  <2>1. new = [d EXCEPT !.headers = Append(@, Text(stream, p, q))]
    BY <1>2, <1>4, <1>5, <1>6
  <2>2. /\ new.part = "headers" /\ new.line = d.line /\ new.headers = Append(headers, Whole!Line)
        /\ new.left = d.left /\ new.nth = d.nth
    BY <1>1, <1>2, <1>5, <2>1 DEF Draft
  <2>3. /\ headers' = Append(headers, Whole!Line)
        /\ UNCHANGED <<state, line, left, total, delivered, httpError>>
    BY <1>6 DEF Whole!ConsumeHeaderLine, Whole!Fail
  <2>4. total' = Counted(new) /\ delivered' = ToldBy(stream, new)
    BY <1>1, <1>2, <2>2, <2>3 DEF AtDraft, Counted, ToldBy, HeadSent
  <2> HIDE DEF new
  <2>5. new = At(stream, q) /\ new.part \in Parts
    BY <2>2 DEF new, Parts
  <2> QED BY <1>1, <1>2, <1>5, <2>2, <2>3, <2>4, <2>5, Moved DEF AtDraft
<1>7. CASE Whole!HeaderError(headers, Whole!Line) # "none"
  <2>1. Stops(stream, p, Whole!HeaderError(headers, Whole!Line))
    BY <1>2, <1>4, <1>5, <1>7
  <2>2. Whole!Fail(Whole!HeaderError(headers, Whole!Line))
    BY <1>7 DEF Whole!ConsumeHeaderLine
  <2> QED BY <2>1, <2>2, Failed
<1> QED BY <1>6, <1>7

\* The request is told when its head is complete, and what follows is read as
\* the head says.
LEMMA EndingHead ==
    ASSUME NEW p, NEW d, Here(p, d), Whole!FinishHeaders
    PROVE  HTTPThere'
<1>1. /\ IInv /\ Position(p) /\ AtDraft(d) /\ d \in Draft /\ UNCHANGED stream
      /\ d = At(stream, p)
  BY DraftFacts
<1>2. /\ state = "headers" /\ d.part = "headers" /\ Whole!HasLine /\ Whole!TakeLine
      /\ Whole!Line = <<>>
  BY <1>1 DEF Whole!FinishHeaders, AtDraft
<1>3. /\ Headers(stream, p) /\ ~WritesTooLong(stream, p) /\ d.body = <<>> /\ d.left = 0
  BY <1>1, <1>2, DraftFacts, NoLineFound DEF Headers
<1>4. PICK q \in 0..Len(stream.units) :
         /\ WritesLine(stream, p, q)
         /\ \/ Text(stream, p, q) # <<>>
            \/ /\ AmbiguousBody(d.line, d.headers) /\ Stops(stream, p, "malformed")
            \/ /\ ~AmbiguousBody(d.line, d.headers) /\ EndsHead(stream, d, q)
  BY <1>1, <1>3 DEF Headers
<1>5. /\ Whole!Line = Text(stream, p, q) /\ Position(q)' /\ line = d.line /\ headers = d.headers
      /\ delivered = SubSeq(stream.requests, 1, d.nth) /\ total = 0
      /\ httpError = "none"
  BY <1>1, <1>2, <1>4, LineFound DEF AtDraft, ToldBy, HeadSent, Counted
<1>6. CASE Whole!AmbiguousBody(line, headers)
  <2>1. Stops(stream, p, "malformed")
    BY <1>2, <1>4, <1>5, <1>6, SameHTTP
  <2>2. Whole!Fail("malformed")
    BY <1>6 DEF Whole!FinishHeaders
  <2> QED BY <2>1, <2>2, Failed
<1>7. CASE ~Whole!AmbiguousBody(line, headers)
  <2>1. ~AmbiguousBody(d.line, d.headers) /\ EndsHead(stream, d, q)
    BY <1>2, <1>4, <1>5, <1>7, SameHTTP
  <2>2. /\ delivered' = Append(SubSeq(stream.requests, 1, d.nth), Begun(d))
        /\ state' = Framing(d.line, d.headers) /\ left' = ContentLength(d.headers)
        /\ UNCHANGED <<line, headers, total, httpError>>
    BY <1>3, <1>5, <1>7, SameHTTP DEF Whole!FinishHeaders, Whole!Fail, NewRequest, Begun
  <2>3. CASE Framing(d.line, d.headers) = Upgraded /\ Leaves(stream, d, q)
    <3>1. AtUpgrade(q)'
      BY <1>1, <1>5, <2>2, <2>3 DEF AtUpgrade, Upgrades, Behind, Leaves, Upgraded, At
    <3> QED BY <1>1, <1>5, <3>1 DEF HTTPThere, HTTPAt
  <2>4. CASE /\ Framing(d.line, d.headers) = "size"
             /\ At(stream, q) = [d EXCEPT !.part = "size"]
    <3> DEFINE new == At(stream, q)
    <3>1. /\ new.part = "size" /\ new.line = d.line /\ new.headers = d.headers /\ new.nth = d.nth
          /\ new.body = <<>> /\ new.left = 0
      BY <1>1, <1>3, <2>4 DEF Draft
    <3>2. ContentLength(d.headers) = 0
      <4>1. Chunked(d.headers)
        BY <2>4 DEF Framing, Upgraded
      <4> QED BY <2>1, <4>1 DEF AmbiguousBody, ContentLength
    <3>3. total' = Counted(new) /\ delivered' = ToldBy(stream, new)
      <4>1. Len(<<>>) = 0 /\ Counted(new) = Len(new.body) + new.left
        BY <3>1, EmptySeq DEF Counted
      <4>2. total' = Counted(new)
        BY <1>5, <2>2, <3>1, <4>1
      <4>3. delivered' = ToldBy(stream, new)
        BY <1>3, <2>2, <3>1 DEF ToldBy, HeadSent, Begun
      <4> QED BY <4>2, <4>3
    <3> HIDE DEF new
    <3>4. new = At(stream, q) /\ new.part \in Parts
      BY <3>1 DEF new, Parts
    <3> QED BY <1>1, <1>5, <2>2, <2>4, <3>1, <3>2, <3>3, <3>4, Moved
  <2>5. CASE /\ Framing(d.line, d.headers) = "body" /\ ContentLength(d.headers) > 0
             /\ At(stream, q) = [d EXCEPT !.part = "body", !.left = ContentLength(d.headers)]
    <3> DEFINE new == At(stream, q)
    <3>1. /\ new.part = "body" /\ new.line = d.line /\ new.headers = d.headers /\ new.nth = d.nth
          /\ new.body = <<>> /\ new.left = ContentLength(d.headers)
      BY <1>1, <1>3, <2>5 DEF Draft
    <3>3. total' = Counted(new) /\ delivered' = ToldBy(stream, new)
      BY <1>3, <1>5, <2>2, <3>1 DEF Counted, ToldBy, HeadSent, Begun
    <3> HIDE DEF new
    <3>4. new = At(stream, q) /\ new.part \in Parts
      BY <3>1 DEF new, Parts
    <3> QED BY <1>1, <1>5, <2>2, <2>5, <3>1, <3>3, <3>4, Moved
  <2>6. CASE /\ Framing(d.line, d.headers) = "body" /\ ContentLength(d.headers) = 0
             /\ Finishes(stream, d, q)
    <3>1. /\ d.nth \in Nat /\ d.nth + 1 \in 1..Len(stream.requests) /\ (d.nth + 1) - 1 = d.nth
          /\ stream.requests[d.nth + 1] = Sent(d) /\ At(stream, q) = Between(d.nth + 1)
      <4>1. d.nth \in 0..Len(stream.requests) /\ Len(stream.requests) \in Nat
        BY <1>1, DraftFacts
      <4>2. /\ d.nth < Len(stream.requests) /\ stream.requests[d.nth + 1] = Sent(d)
            /\ At(stream, q) = Between(d.nth + 1)
        BY <2>6 DEF Finishes
      <4> QED BY <4>1, <4>2
    <3>2. [Sent(d) EXCEPT !.done = FALSE] = Begun(d) /\ Sent(d).done = TRUE
      <4>1. Sent(d) \in Request /\ Begun(d) \in Request
        BY <1>1 DEF Draft, Sent, Begun, Request
      <4>2. /\ [Sent(d) EXCEPT !.done = FALSE] \in Request
            /\ [Sent(d) EXCEPT !.done = FALSE].line = d.line
            /\ [Sent(d) EXCEPT !.done = FALSE].headers = d.headers
            /\ [Sent(d) EXCEPT !.done = FALSE].body = d.body
            /\ [Sent(d) EXCEPT !.done = FALSE].done = FALSE
        BY <4>1 DEF Sent, Request
      <4>3. Begun(d).line = d.line /\ Begun(d).headers = d.headers /\ Begun(d).body = d.body
            /\ Begun(d).done = FALSE /\ Sent(d).done = TRUE
        BY DEF Begun, Sent
      <4> QED BY <4>1, <4>2, <4>3, SameRequest
    <3> DEFINE new == Between(d.nth + 1)
    <3>3. /\ new.part = "start_line" /\ new.nth = d.nth + 1 /\ new = Between(new.nth)
      BY DEF Between
    <3> HIDE DEF new
    <3>4. AtNoBody(new)'
      BY <1>1, <1>5, <2>2, <2>6, <3>1, <3>2, <3>3 DEF AtNoBody
    <3>5. new = At(stream, q)
      BY <3>1 DEF new
    <3> QED BY <1>1, <1>5, <3>4, <3>5 DEF HTTPThere, HTTPAt, At
  <2> QED BY <2>1, <2>3, <2>4, <2>5, <2>6 DEF EndsHead
<1> QED BY <1>6, <1>7

\* A request that is written to its end is told to its end.
LEMMA Completed ==
    ASSUME IInv, UNCHANGED stream, NEW q \in 0..Len(stream.units), Position(q)',
           NEW d, d.nth \in Nat, Finishes(stream, d, q),
           delivered' = Append(SubSeq(stream.requests, 1, d.nth), Sent(d)),
           Whole!ResetForNextRequest, httpError' = "none"
    PROVE  HTTPThere'
<1> DEFINE new == Between(d.nth + 1)
<1>1. /\ new.part = "start_line" /\ new.line = <<>> /\ new.headers = <<>>
      /\ new.left = 0 /\ new.nth = d.nth + 1
  BY DEF Between
<1>2. new = At(stream, q) /\ d.nth < Len(stream.requests) /\ stream.requests[d.nth + 1] = Sent(d)
  BY DEF Finishes
<1> HIDE DEF new
<1>3. stream.requests \in Seq(Request) /\ Len(stream.requests) \in Nat
  BY Agreed
<1>4. delivered' = SubSeq(stream.requests, 1, d.nth + 1)
  <2>1. d.nth \in 0..Len(stream.requests)
    BY <1>2, <1>3
  <2> QED BY <1>2, <1>3, <2>1, FirstOnes
<1>5. total' = Counted(new) /\ delivered' = ToldBy(stream, new)
  BY <1>1, <1>4 DEF Counted, ToldBy, HeadSent, Whole!ResetForNextRequest
<1> QED BY <1>1, <1>2, <1>5, Moved DEF Whole!ResetForNextRequest, Parts

LEMMA WithoutBody ==
    ASSUME IInv, UNCHANGED stream, NEW p, Position(p), AtNoBody(At(stream, p)), Whole!NoBody
    PROVE  HTTPThere'
<1> DEFINE d == At(stream, p)
           r == stream.requests[d.nth]
           n == d.nth - 1
<1>1. /\ d.nth \in 1..Len(stream.requests) /\ d = Between(d.nth)
      /\ r.done = TRUE /\ httpError = "none"
      /\ delivered = Append(SubSeq(stream.requests, 1, n), [r EXCEPT !.done = FALSE])
  BY DEF AtNoBody
<1>2. stream.requests \in Seq(Request) /\ Len(stream.requests) \in Nat
      /\ p \in 0..Len(stream.units)
  BY Agreed, AheadOf
<1> HIDE DEF d
<1>3. n \in 0..Len(stream.requests) /\ n < Len(stream.requests) /\ n + 1 = d.nth /\ r \in Request
  BY <1>1, <1>2, ElementOfSeq
<1> HIDE DEF n, r
<1>4. SubSeq(stream.requests, 1, n) \in Seq(Request)
      /\ SubSeq(stream.requests, 1, d.nth) = Append(SubSeq(stream.requests, 1, n), r)
  BY <1>2, <1>3, FirstOnes DEF r
<1>5. Told(<<>>, TRUE) = SubSeq(stream.requests, 1, d.nth)
  <2> DEFINE open == [r EXCEPT !.done = FALSE]
             end  == [line |-> open.line, headers |-> open.headers, body |-> open.body \o <<>>,
                      done |-> TRUE]
  <2>1. /\ open \in Request /\ open.line = r.line /\ open.headers = r.headers
        /\ open.body = r.body
    BY <1>3 DEF Request
  <2>2. <<>> \in Seq(Unit) /\ open.body \in Seq(Unit)
    BY <2>1, EmptySeq DEF Request
  <2>3. open.body \o <<>> = open.body
    BY <2>2, ConcatEmptySeq
  <2> HIDE DEF open
  <2>4. Told(<<>>, TRUE) = Append(SubSeq(stream.requests, 1, n), end)
    BY <1>1, <1>4, <2>1, <2>2, ToldNewest DEF open
  <2>5. end = r
    <3>1. end \in Request
      BY <2>1, <2>2, <2>3 DEF Request
    <3>2. end.line = r.line /\ end.headers = r.headers /\ end.body = r.body /\ end.done = r.done
      BY <1>1, <2>1, <2>3
    <3> HIDE DEF end
    <3> QED BY <1>3, <3>1, <3>2, SameRequest
  <2> QED BY <1>4, <2>4, <2>5
<1>6. /\ delivered' = SubSeq(stream.requests, 1, d.nth)
      /\ Whole!ResetForNextRequest /\ UNCHANGED <<HTTPAhead, httpError>>
  BY <1>5, SameHTTP DEF Whole!NoBody, Whole!CompleteRequest
<1>7. Position(p)'
  BY <1>2, <1>6 DEF Position, Rest
<1>8. /\ d.part = "start_line" /\ d.line = <<>> /\ d.headers = <<>> /\ d.left = 0
  BY <1>1 DEF Between
<1>9. total' = Counted(d) /\ delivered' = ToldBy(stream, d)
  BY <1>6, <1>8 DEF Counted, ToldBy, HeadSent, Whole!ResetForNextRequest
<1>10. d = At(stream, p) /\ d.part \in Parts
  BY <1>8 DEF d, Parts
<1> QED BY <1>1, <1>2, <1>6, <1>7, <1>8, <1>9, <1>10, Moved DEF Whole!ResetForNextRequest

\* A piece of a body is told in its place, and with the last the request ends.
LEMMA BodyReads ==
    ASSUME NEW p, NEW d, Here(p, d), Whole!BodyPiece
    PROVE  HTTPThere'
<1>1. /\ IInv /\ Position(p) /\ AtDraft(d) /\ d \in Draft /\ UNCHANGED stream
      /\ d = At(stream, p) /\ p \in 0..Len(stream.units) /\ Len(stream.units) \in Nat
      /\ stream.requests \in Seq(Request)
      /\ SubSeq(stream.requests, 1, d.nth) \in Seq(Request) /\ Begun(d) \in Request
  BY DraftFacts
<1>2. state = "body" /\ d.part = "body" /\ left = d.left /\ httpError = "none"
  BY <1>1 DEF Whole!BodyPiece, AtDraft
<1>3. /\ d.left > 0 /\ p + d.left <= Len(stream.units)
      /\ \A n \in 1..(d.left - 1) :
            At(stream, p + n) = [d EXCEPT !.body = @ \o Data(stream, p, n), !.left = @ - n]
      /\ Finishes(stream, [d EXCEPT !.body = @ \o Data(stream, p, d.left)], p + d.left)
  <2>1. Body(stream, p)
    BY <1>1, <1>2, DraftFacts
  <2> QED BY <1>1, <2>1 DEF Body
<1>4. PICK n \in 1..Whole!Taken : Whole!TakeBody(n)
  BY DEF Whole!BodyPiece
<1>5. /\ n \in 1..d.left /\ n \in 0..(Len(stream.units) - p) /\ p + n \in 0..Len(stream.units)
  <2>1. Len(HTTPAhead) = Len(stream.units) - p
    BY <1>1, AheadOf
  <2>2. d.left \in Nat
    BY <1>1 DEF Draft
  <2>3. Whole!Taken <= d.left /\ Whole!Taken \in Nat /\ Whole!Taken <= Len(stream.units) - p
    BY <1>1, <1>2, <2>1, <2>2 DEF Whole!Taken
  <2>4. n \in Nat /\ 1 <= n /\ n <= Whole!Taken
    BY <2>3
  <2>5. n <= d.left /\ n <= Len(stream.units) - p
    BY <1>1, <2>1, <2>2, <2>3, <2>4, AheadOf
  <2> QED BY <1>1, <2>2, <2>4, <2>5
<1>6. /\ SubSeq(HTTPAhead, n + 1, Len(HTTPAhead)) = Rest(stream, p + n)
      /\ SubSeq(HTTPAhead, 1, n) = Data(stream, p, n) /\ Data(stream, p, n) \in Seq(Unit)
  BY <1>1, <1>5, AheadOf
<1>7. Position(p + n)'
  BY <1>1, <1>4, <1>5, <1>6 DEF Whole!TakeBody, Whole!Drop, Position, Rest
<1> DEFINE body == d.body \o Data(stream, p, n)
           front == SubSeq(stream.requests, 1, d.nth)
<1>8. delivered' = Append(front, [line |-> d.line, headers |-> d.headers, body |-> body,
                                  done |-> n = left])
  <2>1. delivered = Append(front, Begun(d))
    BY <1>1, <1>2 DEF AtDraft, ToldBy, HeadSent
  <2>2. Told(Data(stream, p, n), n = left)
          = Append(front, [line |-> Begun(d).line, headers |-> Begun(d).headers,
                           body |-> Begun(d).body \o Data(stream, p, n), done |-> n = left])
    BY <1>1, <1>6, <2>1, ToldNewest
  <2>3. Begun(d).line = d.line /\ Begun(d).headers = d.headers /\ Begun(d).body = d.body
    BY DEF Begun
  <2> QED BY <1>4, <1>6, <2>2, <2>3, SameHTTP DEF Whole!TakeBody
<1>9. CASE n = left
  <2> DEFINE end == [d EXCEPT !.body = @ \o Data(stream, p, d.left)]
  <2>1. /\ end.nth = d.nth /\ end.line = d.line /\ end.headers = d.headers /\ end.body = body
    BY <1>1, <1>2, <1>9 DEF Draft
  <2>2. d.nth \in Nat
    BY <1>1 DEF Draft
  <2>3. Finishes(stream, end, p + n)
    BY <1>2, <1>3, <1>9
  <2> HIDE DEF end
  <2>4. delivered' = Append(SubSeq(stream.requests, 1, end.nth), Sent(end))
    BY <1>8, <1>9, <2>1 DEF Sent
  <2>5. Whole!ResetForNextRequest /\ httpError' = "none"
    BY <1>2, <1>4, <1>5, <1>9 DEF Whole!TakeBody
  <2> QED BY <1>1, <1>5, <1>7, <2>1, <2>2, <2>3, <2>4, <2>5, Completed
<1>10. CASE n # left
  <2> DEFINE new == At(stream, p + n)
  <2>1. n \in 1..(d.left - 1)
    <3>1. d.left \in Nat
      BY <1>1 DEF Draft
    <3> QED BY <1>2, <1>5, <1>10, <3>1
  <2>2. new = [d EXCEPT !.body = @ \o Data(stream, p, n), !.left = @ - n]
    BY <1>3, <2>1
  <2>3. /\ new.part = "body" /\ new.nth = d.nth /\ new.line = d.line /\ new.headers = d.headers
        /\ new.body = body /\ new.left = d.left - n
    BY <1>1, <1>2, <2>2 DEF Draft
  <2>4. /\ left' = left - n /\ UNCHANGED <<state, line, headers, total, httpError>>
    BY <1>4, <1>10 DEF Whole!TakeBody
  <2> HIDE DEF new, body
  <2>5. total' = Counted(new)
    BY <1>1, <1>2, <2>3, <2>4 DEF AtDraft, Counted
  <2>6. delivered' = ToldBy(stream, new)
    BY <1>8, <1>10, <2>3 DEF ToldBy, HeadSent, Begun
  <2>7. new = At(stream, p + n) /\ new.part \in Parts
    BY <2>3 DEF new, Parts
  <2> QED BY <1>1, <1>2, <1>5, <1>7, <2>3, <2>4, <2>5, <2>6, <2>7, Moved DEF AtDraft
<1> QED BY <1>9, <1>10

LEMMA SizingChunk ==
    ASSUME NEW p, NEW d, Here(p, d), Whole!ConsumeChunkSize
    PROVE  HTTPThere'
<1>1. /\ IInv /\ Position(p) /\ AtDraft(d) /\ d \in Draft /\ UNCHANGED stream
      /\ d = At(stream, p)
  BY DraftFacts
<1>2. state = "size" /\ d.part = "size" /\ Whole!HasLine /\ Whole!TakeLine
  BY <1>1 DEF Whole!ConsumeChunkSize, AtDraft
<1>3. ChunkSize(stream, p) /\ ~WritesTooLong(stream, p)
  BY <1>1, <1>2, DraftFacts, NoLineFound
<1>4. d.left = 0
  BY <1>1, <1>3 DEF ChunkSize
<1>5. Len(d.body) \in Nat /\ total = Len(d.body) /\ left = 0
  <2>1. Len(d.body) \in Nat
    BY <1>1, LenProperties DEF Draft
  <2> QED BY <1>1, <1>2, <1>4, <2>1 DEF AtDraft, Counted
<1>6. PICK q \in 0..Len(stream.units) :
         LET l == Text(stream, p, q)
             error == SizeError(Len(d.body), l)
         IN  /\ WritesLine(stream, p, q)
             /\ \/ error # "none" /\ Stops(stream, p, error)
                \/ /\ error = "none" /\ Value(l) = 0
                   /\ At(stream, q) = [d EXCEPT !.part = "trailers"]
                \/ /\ error = "none" /\ Value(l) > 0
                   /\ At(stream, q) = [d EXCEPT !.part = "data", !.left = Value(l)]
  BY <1>1, <1>3 DEF ChunkSize
<1> DEFINE l == Text(stream, p, q)
<1>7. /\ Whole!Line = l /\ Position(q)'
      /\ Whole!SizeError(total, Whole!Line) = SizeError(Len(d.body), l)
      /\ Whole!Value(Whole!Line) = Value(l)
  BY <1>1, <1>2, <1>5, <1>6, LineFound, SameHTTP DEF Whole!Value, Value
<1> HIDE DEF l
<1>8. CASE SizeError(Len(d.body), l) = "none"
  <2> DEFINE new == At(stream, q)
  <2>1. /\ left' = Value(l) /\ total' = Len(d.body) + Value(l)
        /\ state' = IF Value(l) = 0 THEN "trailers" ELSE "data"
        /\ UNCHANGED <<line, headers, delivered, httpError>>
    BY <1>5, <1>7, <1>8 DEF Whole!ConsumeChunkSize, Whole!Fail
  <2>2. Value(l) \in Nat
    BY <1>8 DEF SizeError
  <2>3. \/ Value(l) = 0 /\ new = [d EXCEPT !.part = "trailers"]
        \/ Value(l) > 0 /\ new = [d EXCEPT !.part = "data", !.left = Value(l)]
    BY <1>6, <1>8 DEF l
  <2>4. /\ new.part = (IF Value(l) = 0 THEN "trailers" ELSE "data") /\ new.nth = d.nth
        /\ new.line = d.line /\ new.headers = d.headers /\ new.body = d.body
        /\ new.left = Value(l)
    <3>1. CASE Value(l) = 0
      <4>1. new = [d EXCEPT !.part = "trailers"]
        BY <2>3, <3>1
      <4> QED BY <1>1, <1>4, <3>1, <4>1 DEF Draft
    <3>2. CASE Value(l) # 0
      <4>1. new = [d EXCEPT !.part = "data", !.left = Value(l)]
        BY <2>3, <3>2
      <4> QED BY <1>1, <3>2, <4>1 DEF Draft
    <3> QED BY <3>1, <3>2
  <2> HIDE DEF new
  <2>5. total' = Counted(new)
    BY <2>1, <2>4 DEF Counted
  <2>6. delivered' = ToldBy(stream, new)
    BY <1>1, <1>2, <2>1, <2>4 DEF AtDraft, ToldBy, HeadSent, Begun
  <2>7. new = At(stream, q) /\ new.part \in Parts
    BY <2>4 DEF new, Parts
  <2> QED BY <1>1, <1>7, <2>1, <2>4, <2>5, <2>6, <2>7, Moved DEF AtDraft
<1>9. CASE SizeError(Len(d.body), l) # "none"
  <2>1. Stops(stream, p, SizeError(Len(d.body), l))
    BY <1>6, <1>9 DEF l
  <2>2. Whole!Fail(SizeError(Len(d.body), l))
    BY <1>7, <1>9 DEF Whole!ConsumeChunkSize
  <2> QED BY <2>1, <2>2, Failed
<1> QED BY <1>8, <1>9

LEMMA ChunkReads ==
    ASSUME NEW p, NEW d, Here(p, d), Whole!ChunkPiece
    PROVE  HTTPThere'
<1>1. /\ IInv /\ Position(p) /\ AtDraft(d) /\ d \in Draft /\ UNCHANGED stream
      /\ d = At(stream, p) /\ p \in 0..Len(stream.units) /\ Len(stream.units) \in Nat
      /\ SubSeq(stream.requests, 1, d.nth) \in Seq(Request) /\ Begun(d) \in Request
  BY DraftFacts
<1>2. state = "data" /\ d.part = "data" /\ left = d.left /\ httpError = "none"
  BY <1>1 DEF Whole!ChunkPiece, AtDraft
<1>3. /\ d.left > 0 /\ p + d.left <= Len(stream.units)
      /\ \A n \in 1..d.left :
            At(stream, p + n) = [d EXCEPT !.body = @ \o Data(stream, p, n), !.left = @ - n,
                                          !.part = IF n = d.left THEN "data_crlf" ELSE "data"]
  <2>1. ChunkData(stream, p)
    BY <1>1, <1>2, DraftFacts
  <2> QED BY <1>1, <2>1 DEF ChunkData
<1>4. PICK n \in 1..Whole!Taken : Whole!TakeChunk(n)
  BY DEF Whole!ChunkPiece
<1>5. /\ n \in 1..d.left /\ n \in 0..(Len(stream.units) - p) /\ p + n \in 0..Len(stream.units)
      /\ d.left \in Nat
  <2>1. Len(HTTPAhead) = Len(stream.units) - p
    BY <1>1, AheadOf
  <2>2. d.left \in Nat
    BY <1>1 DEF Draft
  <2>3. Whole!Taken <= d.left /\ Whole!Taken \in Nat /\ Whole!Taken <= Len(stream.units) - p
    BY <1>1, <1>2, <2>1, <2>2 DEF Whole!Taken
  <2>4. n \in Nat /\ 1 <= n /\ n <= Whole!Taken
    BY <2>3
  <2>5. n <= d.left /\ n <= Len(stream.units) - p
    BY <1>1, <2>1, <2>2, <2>3, <2>4, AheadOf
  <2> QED BY <1>1, <2>2, <2>4, <2>5
<1>6. /\ SubSeq(HTTPAhead, n + 1, Len(HTTPAhead)) = Rest(stream, p + n)
      /\ SubSeq(HTTPAhead, 1, n) = Data(stream, p, n)
      /\ Data(stream, p, n) \in Seq(Unit) /\ Len(Data(stream, p, n)) = n
  BY <1>1, <1>5, AheadOf
<1>7. Position(p + n)'
  BY <1>1, <1>4, <1>5, <1>6 DEF Whole!TakeChunk, Whole!Drop, Position, Rest
<1> DEFINE body == d.body \o Data(stream, p, n)
           front == SubSeq(stream.requests, 1, d.nth)
           new == At(stream, p + n)
<1>8. delivered' = Append(front, [line |-> d.line, headers |-> d.headers, body |-> body,
                                  done |-> FALSE])
  <2>1. delivered = Append(front, Begun(d))
    BY <1>1, <1>2 DEF AtDraft, ToldBy, HeadSent
  <2>2. Told(Data(stream, p, n), FALSE)
          = Append(front, [line |-> Begun(d).line, headers |-> Begun(d).headers,
                           body |-> Begun(d).body \o Data(stream, p, n), done |-> FALSE])
    BY <1>1, <1>6, <2>1, ToldNewest
  <2>3. Begun(d).line = d.line /\ Begun(d).headers = d.headers /\ Begun(d).body = d.body
    BY DEF Begun
  <2> QED BY <1>4, <1>6, <2>2, <2>3, SameHTTP DEF Whole!TakeChunk
<1>9. /\ new.part = (IF n = left THEN "data_crlf" ELSE "data") /\ new.nth = d.nth
      /\ new.line = d.line /\ new.headers = d.headers
      /\ new.body = body /\ new.left = d.left - n
  <2>1. new = [d EXCEPT !.body = @ \o Data(stream, p, n), !.left = @ - n,
                        !.part = IF n = d.left THEN "data_crlf" ELSE "data"]
    BY <1>3, <1>5
  <2> QED BY <1>1, <1>2, <2>1 DEF Draft
<1>10. Len(body) = Len(d.body) + n /\ Len(d.body) \in Nat
  BY <1>1, <1>6, ConcatProperties, LenProperties DEF Draft
<1>11. /\ left' = left - n /\ state' = (IF n = left THEN "data_crlf" ELSE "data")
       /\ UNCHANGED <<line, headers, total, httpError>>
  BY <1>4 DEF Whole!TakeChunk
<1> HIDE DEF new, body
<1>12. total' = Counted(new)
  <2>1. Len(d.body) + n + (d.left - n) = Len(d.body) + d.left
    BY <1>5, <1>10
  <2> QED BY <1>1, <1>2, <1>9, <1>10, <1>11, <2>1 DEF AtDraft, Counted
<1>13. delivered' = ToldBy(stream, new)
  BY <1>8, <1>9 DEF ToldBy, HeadSent, Begun
<1>14. new = At(stream, p + n) /\ new.part \in Parts
  BY <1>9 DEF new, Parts
<1> QED BY <1>1, <1>2, <1>5, <1>7, <1>9, <1>11, <1>12, <1>13, <1>14, Moved DEF AtDraft

LEMMA EndingChunk ==
    ASSUME NEW p, NEW d, Here(p, d), Whole!ConsumeChunkEnd
    PROVE  HTTPThere'
<1>1. /\ IInv /\ Position(p) /\ AtDraft(d) /\ d \in Draft /\ UNCHANGED stream
      /\ d = At(stream, p) /\ p \in 0..Len(stream.units) /\ Len(stream.units) \in Nat
  BY DraftFacts
<1>2. /\ state = "data_crlf" /\ d.part = "data_crlf"
      /\ \/ /\ SubSeq(HTTPAhead, 1, 2) = Whole!Crlf /\ Whole!Drop(2) /\ state' = "size"
            /\ UNCHANGED <<line, headers, left, total, delivered, httpError>>
         \/ SubSeq(HTTPAhead, 1, 2) # Whole!Crlf /\ Whole!Fail("malformed")
  BY <1>1 DEF Whole!ConsumeChunkEnd, Whole!request, AtDraft
<1>3. /\ d.left = 0 /\ p + 2 <= Len(stream.units)
      /\ \/ Data(stream, p, 2) = Crlf /\ At(stream, p + 2) = [d EXCEPT !.part = "size"]
         \/ Data(stream, p, 2) # Crlf /\ Stops(stream, p, "malformed")
  <2>1. ChunkEnd(stream, p)
    BY <1>1, <1>2, DraftFacts
  <2> QED BY <1>1, <2>1 DEF ChunkEnd
<1>4. /\ 2 \in 0..(Len(stream.units) - p) /\ p + 2 \in 0..Len(stream.units)
      /\ SubSeq(HTTPAhead, 2 + 1, Len(HTTPAhead)) = Rest(stream, p + 2)
      /\ SubSeq(HTTPAhead, 1, 2) = Data(stream, p, 2)
  <2>1. 2 \in 0..(Len(stream.units) - p) /\ p + 2 \in 0..Len(stream.units)
    BY <1>1, <1>3
  <2> QED BY <1>1, <2>1, AheadOf
<1>5. CASE Data(stream, p, 2) = Crlf
  <2> DEFINE new == At(stream, p + 2)
  <2>1. /\ Whole!Drop(2) /\ state' = "size"
        /\ UNCHANGED <<line, headers, left, total, delivered, httpError>>
    BY <1>2, <1>4, <1>5, SameHTTP
  <2>2. Position(p + 2)'
    BY <1>1, <1>4, <2>1 DEF Whole!Drop, Position, Rest
  <2>3. new = [d EXCEPT !.part = "size"]
    BY <1>3, <1>5
  <2>4. /\ new.part = "size" /\ new.nth = d.nth /\ new.line = d.line
        /\ new.headers = d.headers /\ new.body = d.body /\ new.left = d.left
    BY <1>1, <2>3 DEF Draft
  <2> HIDE DEF new
  <2>5. total' = Counted(new) /\ delivered' = ToldBy(stream, new)
    BY <1>1, <1>2, <2>1, <2>4 DEF AtDraft, Counted, ToldBy, HeadSent, Begun
  <2>6. new = At(stream, p + 2) /\ new.part \in Parts
    BY <2>4 DEF new, Parts
  <2> QED BY <1>1, <1>4, <2>1, <2>2, <2>4, <2>5, <2>6, Moved DEF AtDraft
<1>6. CASE Data(stream, p, 2) # Crlf
  <2>1. Stops(stream, p, "malformed") /\ Whole!Fail("malformed")
    BY <1>2, <1>3, <1>4, <1>6, SameHTTP
  <2> QED BY <2>1, Failed
<1> QED BY <1>5, <1>6

LEMMA TrailersRead ==
    ASSUME NEW p, NEW d, Here(p, d), Whole!ConsumeTrailers
    PROVE  HTTPThere'
<1>1. /\ IInv /\ Position(p) /\ AtDraft(d) /\ d \in Draft /\ UNCHANGED stream
      /\ d = At(stream, p)
      /\ SubSeq(stream.requests, 1, d.nth) \in Seq(Request) /\ Begun(d) \in Request
  BY DraftFacts
<1>2. state = "trailers" /\ d.part = "trailers" /\ Whole!HasLine /\ Whole!TakeLine
      /\ httpError = "none"
  BY <1>1 DEF Whole!ConsumeTrailers, AtDraft
<1>3. Trailers(stream, p) /\ ~WritesTooLong(stream, p)
  BY <1>1, <1>2, DraftFacts, NoLineFound
<1>4. PICK q \in 0..Len(stream.units) :
         /\ WritesLine(stream, p, q)
         /\ \/ Text(stream, p, q) # <<>> /\ At(stream, q) = d
            \/ Text(stream, p, q) = <<>> /\ Finishes(stream, d, q)
  BY <1>1, <1>3 DEF Trailers
<1>5. Whole!Line = Text(stream, p, q) /\ Position(q)'
  BY <1>1, <1>2, <1>4, LineFound
<1>6. CASE Text(stream, p, q) # <<>>
  <2>1. UNCHANGED <<state, line, headers, left, total, delivered, httpError>>
    BY <1>5, <1>6 DEF Whole!ConsumeTrailers, Whole!request
  <2>2. total' = Counted(d) /\ delivered' = ToldBy(stream, d)
    BY <1>1, <2>1 DEF AtDraft
  <2>3. d = At(stream, q)
    BY <1>4, <1>6
  <2> QED BY <1>1, <1>2, <1>5, <2>1, <2>2, <2>3, Moved DEF AtDraft
<1>7. CASE Text(stream, p, q) = <<>>
  <2>1. /\ delivered' = Told(<<>>, TRUE) /\ Whole!ResetForNextRequest /\ httpError' = "none"
    BY <1>2, <1>5, <1>7, SameHTTP DEF Whole!ConsumeTrailers, Whole!CompleteRequest
  <2> DEFINE front == SubSeq(stream.requests, 1, d.nth)
             end == [line |-> Begun(d).line, headers |-> Begun(d).headers,
                     body |-> Begun(d).body \o <<>>, done |-> TRUE]
  <2>2. delivered = Append(front, Begun(d))
    BY <1>1, <1>2 DEF AtDraft, ToldBy, HeadSent
  <2>3. Told(<<>>, TRUE) = Append(front, end)
    BY <1>1, <2>2, EmptySeq, ToldNewest
  <2>4. end = Sent(d)
    <3>1. Begun(d).body \in Seq(Unit)
      BY <1>1 DEF Request
    <3>2. Begun(d).body \o <<>> = d.body
      BY <3>1, ConcatEmptySeq DEF Begun
    <3> QED BY <3>2 DEF Begun, Sent
  <2>5. Finishes(stream, d, q) /\ d.nth \in Nat
    BY <1>1, <1>4, <1>7 DEF Draft
  <2> HIDE DEF end
  <2>6. delivered' = Append(SubSeq(stream.requests, 1, d.nth), Sent(d))
    BY <2>1, <2>3, <2>4
  <2> QED BY <1>1, <1>5, <2>1, <2>5, <2>6, Completed
<1> QED BY <1>6, <1>7

\* A step over HTTP goes from what the client had written at one position to
\* what it had at another.
LEMMA HTTPProgress ==
    ASSUME IInv, HTTPThere, Whole!ReadHTTP, UNCHANGED stream
    PROVE  HTTPThere'
<1>1. state # "failed" /\ state # "upgraded"
  BY DEF Whole!ReadHTTP, Whole!RejectLine, Whole!RejectAtLimit, Whole!ReadsLine,
         Whole!ConsumeStartLine, Whole!ConsumeHeaderLine, Whole!FinishHeaders, Whole!NoBody,
         Whole!BodyPiece, Whole!ConsumeChunkSize, Whole!ChunkPiece, Whole!ConsumeChunkEnd,
         Whole!ConsumeTrailers
<1>2. PICK p \in 0..Len(stream.units) : HTTPAt(p)
  BY <1>1 DEF HTTPThere, GaveUp
<1> DEFINE d == At(stream, p)
<1>3. CASE AtNoBody(d)
  <2>1. state = "body" /\ left = 0
    BY <1>3 DEF AtNoBody
  <2>2. ~Whole!BodyPiece
    <3>1. Len(HTTPAhead) \in Nat
      BY AheadFacts, LenProperties
    <3> QED BY <2>1, <3>1 DEF Whole!BodyPiece, Whole!Taken
  <2>3. Whole!NoBody
    BY <2>1, <2>2
    DEF Whole!ReadHTTP, Whole!RejectLine, Whole!RejectAtLimit, Whole!ReadsLine,
        Whole!ConsumeStartLine, Whole!ConsumeHeaderLine, Whole!FinishHeaders,
        Whole!ConsumeChunkSize, Whole!ChunkPiece, Whole!ConsumeChunkEnd, Whole!ConsumeTrailers
  <2> QED BY <1>2, <1>3, <2>3, WithoutBody DEF HTTPAt
<1>4. CASE AtDraft(d)
  <2>1. Here(p, d)
    BY <1>2, <1>4 DEF Here, HTTPAt
  <2>2. ~Whole!NoBody
    <3>1. state = "body" => Body(stream, p)
      BY <1>4, <2>1, DraftFacts DEF AtDraft
    <3>2. state = "body" => left > 0
      BY <1>4, <3>1 DEF Body, AtDraft
    <3> QED BY <3>2 DEF Whole!NoBody
  <2> HIDE DEF d
  <2> QED BY <2>1, <2>2, Rejecting, StartingLine, AddingHeader, EndingHead, BodyReads,
             SizingChunk, ChunkReads, EndingChunk, TrailersRead DEF Whole!ReadHTTP
<1> QED BY <1>1, <1>2, <1>3, <1>4 DEF HTTPAt, AtUpgrade, Upgrades

-----------------------------------------------------------------------------
\* Of the messages, it has made what the client had written.
AtFrame(d) ==
    /\ d.part = "frame" /\ fragments = d.pieces /\ fragmentOpcode = d.kind
    /\ messages = SubSeq(stream.messages, 1, d.nth) /\ wsError = 0 /\ wsClosed = FALSE

FramesAt(p) ==
    p \in 0..Len(stream.units) /\ FramesAhead = Rest(stream, p) /\ AtFrame(At(stream, p))

FramesOver == ~Decoding /\ messages = stream.messages /\ wsError = stream.code

FramesThere == FramesOver \/ \E p \in 0..Len(stream.units) : FramesAt(p)

LEMMA FramesAheadOf ==
    ASSUME IInv, NEW p \in 0..Len(stream.units), FramesAhead = Rest(stream, p)
    PROVE  /\ stream.units \in Seq(Unit) /\ Len(stream.units) \in Nat
           /\ Len(FramesAhead) = Len(stream.units) - p
           /\ \A i \in 1..(Len(stream.units) - p) : FramesAhead[i] = stream.units[p + i]
           /\ \A n \in 0..(Len(stream.units) - p) :
                 /\ SubSeq(FramesAhead, n + 1, Len(FramesAhead)) = Rest(stream, p + n)
                 /\ Len(Data(stream, p, n)) = n
                 /\ \A i \in 1..n : Data(stream, p, n)[i] = FramesAhead[i]
<1>1. stream.units \in Seq(Unit) /\ Len(stream.units) \in Nat
  BY StreamsAssumption, LenProperties DEF IInv
<1>2. FramesAhead = SubSeq(stream.units, p + 1, Len(stream.units))
  BY DEF Rest
<1>3. /\ Len(FramesAhead) = Len(stream.units) - p
      /\ \A i \in 1..(Len(stream.units) - p) : FramesAhead[i] = stream.units[p + i]
  BY <1>1, <1>2, RestFacts
<1>4. ASSUME NEW n \in 0..(Len(stream.units) - p)
      PROVE  /\ SubSeq(FramesAhead, n + 1, Len(FramesAhead)) = Rest(stream, p + n)
             /\ Len(Data(stream, p, n)) = n
             /\ \A i \in 1..n : Data(stream, p, n)[i] = FramesAhead[i]
  <2>1. SubSeq(FramesAhead, n + 1, Len(FramesAhead)) = Rest(stream, p + n)
    BY <1>1, <1>2, Cutting DEF Rest
  <2>2. /\ Len(Data(stream, p, n)) = n
        /\ \A i \in 1..n : Data(stream, p, n)[i] = stream.units[p + i]
    BY <1>1, SliceFacts DEF Data
  <2>3. \A i \in 1..n : i \in 1..(Len(stream.units) - p)
    BY <1>1
  <2> QED BY <1>3, <2>1, <2>2, <2>3
<1> QED BY <1>1, <1>3, <1>4

\* A byte that is masked twice is itself.
LEMMA MaskTwice ==
    ASSUME NEW u \in Plain
    PROVE  MaskUnit(MaskUnit(u)) = u
<1>1. PICK m \in MaskPairs : u = <<m[1]>> \/ u = <<m[2]>>
  BY DEF Plain
<1>2. /\ m[1] # m[2]
      /\ \A p \in MaskPairs : m[1] \in {p[1], p[2]} \/ m[2] \in {p[1], p[2]} => p = m
  BY DEF MaskPairs
<1>3. ASSUME NEW v, v[1] \in {m[1], m[2]}
      PROVE  (CHOOSE p \in MaskPairs : v[1] \in {p[1], p[2]}) = m
  BY <1>2, <1>3
<1>4. ASSUME NEW v, v[1] \in {m[1], m[2]}
      PROVE  MaskUnit(v) = <<IF v[1] = m[1] THEN m[2] ELSE m[1]>>
  <2> DEFINE Pair == CHOOSE p \in MaskPairs : v[1] \in {p[1], p[2]}
  <2>1. Pair = m
    BY <1>3, <1>4
  <2>2. MaskUnit(v) = <<IF v[1] = Pair[1] THEN Pair[2] ELSE Pair[1]>>
    BY DEF MaskUnit
  <2> HIDE DEF Pair
  <2> QED BY <2>1, <2>2
<1>5. MaskUnit(<<m[1]>>) = <<m[2]>> /\ MaskUnit(<<m[2]>>) = <<m[1]>>
  BY <1>2, <1>4
<1> QED BY <1>1, <1>5

\* How a frame is laid out.
LEMMA WireFacts ==
    ASSUME NEW d \in FrameDraft
    PROVE  LET long == Len(d.payload) > MaxControlPayload
               head == IF long THEN 4 ELSE 3
           IN  /\ Len(Wire(d)) = head + Len(d.payload) /\ Len(d.payload) \in Nat
               /\ Wire(d)[1] = <<"op", d.fin, d.opcode>>
               /\ Wire(d)[2] = <<"len", TRUE, IF long THEN MaxControlPayload + 1
                                              ELSE Len(d.payload)>>
               /\ long => Wire(d)[3] = <<"ext", Len(d.payload)>>
               /\ \A i \in 1..Len(d.payload) : Wire(d)[head + i] = MaskUnit(d.payload[i])
<1> DEFINE L     == Len(d.payload)
           op    == <<"op", d.fin, d.opcode>>
           short == <<"len", TRUE, L>>
           more  == <<"len", TRUE, MaxControlPayload + 1>>
           ext   == <<"ext", L>>
           S     == {op, short, more, ext, <<"mask">>} \cup {MaskUnit(d.payload[i]) : i \in 1..L}
           B     == IF L <= MaxControlPayload THEN <<short>> ELSE <<more, ext>>
           M     == ApplyMask(d.payload)
<1>1. d.payload \in Seq(Plain) /\ L \in Nat /\ DOMAIN d.payload = 1..L
  BY LenProperties DEF FrameDraft
<1>2. MaxControlPayload \in Nat
  BY MessageLimitsAssumption
<1>3. Wire(d) = (<<op>> \o B) \o (<< <<"mask">> >> \o M)
  BY DEF Wire, EncodeFrame
<1>4. M \in Seq(S) /\ Len(M) = L /\ \A i \in 1..L : M[i] = MaskUnit(d.payload[i])
  <2>1. M = [i \in 1..L |-> MaskUnit(d.payload[i])]
    BY <1>1 DEF ApplyMask
  <2>2. \A i \in 1..L : MaskUnit(d.payload[i]) \in S
    OBVIOUS
  <2> HIDE DEF M, S
  <2>3. M \in [1..L -> S]
    BY <2>1, <2>2
  <2> QED BY <1>1, <2>1, <2>3, SeqDef
<1>5. op \in S /\ short \in S /\ more \in S /\ ext \in S /\ <<"mask">> \in S
  OBVIOUS
<1>0. L = Len(d.payload)
  OBVIOUS
<1> HIDE DEF M, S, op, short, more, ext, L
<1>6. /\ <<op>> \in Seq(S) /\ Len(<<op>>) = 1 /\ <<op>>[1] = op
      /\ << <<"mask">> >> \in Seq(S) /\ Len(<< <<"mask">> >>) = 1
  BY <1>5
<1>7. /\ B \in Seq(S) /\ Len(B) = (IF L > MaxControlPayload THEN 2 ELSE 1)
      /\ B[1] = (IF L > MaxControlPayload THEN more ELSE short)
      /\ L > MaxControlPayload => B[2] = ext
  BY <1>1, <1>2, <1>5
<1> HIDE DEF B
<1> DEFINE b == Len(B)
           H == <<op>> \o B
           T == << <<"mask">> >> \o M
<1>8. /\ H \in Seq(S) /\ Len(H) = 1 + b
      /\ \A i \in 1..(1 + b) : H[i] = IF i <= 1 THEN <<op>>[i] ELSE B[i - 1]
  <2>1. /\ H \in Seq(S) /\ Len(H) = Len(<<op>>) + b
        /\ \A i \in 1..(Len(<<op>>) + b) :
              H[i] = IF i <= Len(<<op>>) THEN <<op>>[i] ELSE B[i - Len(<<op>>)]
    BY <1>6, <1>7, ConcatProperties
  <2> QED BY <1>6, <2>1
<1>9. /\ T \in Seq(S) /\ Len(T) = 1 + L
      /\ \A i \in 1..(1 + L) : T[i] = IF i <= 1 THEN << <<"mask">> >>[i] ELSE M[i - 1]
  BY <1>4, <1>6, ConcatProperties
<1> HIDE DEF H, T, b
<1>10. /\ Len(Wire(d)) = (1 + b) + (1 + L)
       /\ \A i \in 1..((1 + b) + (1 + L)) :
             Wire(d)[i] = IF i <= 1 + b THEN H[i] ELSE T[i - (1 + b)]
  <2>1. Wire(d) = H \o T
    BY <1>3 DEF H, T
  <2>2. /\ Len(H \o T) = Len(H) + Len(T)
        /\ \A i \in 1..(Len(H) + Len(T)) :
              (H \o T)[i] = IF i <= Len(H) THEN H[i] ELSE T[i - Len(H)]
    <3>1. H \in Seq(S) /\ T \in Seq(S)
      BY <1>8, <1>9
    <3> QED BY <3>1, ConcatProperties
  <2> QED BY <1>8, <1>9, <2>1, <2>2
<1> DEFINE head == IF L > MaxControlPayload THEN 4 ELSE 3
<1>11. b \in 1..2 /\ head = 2 + b /\ (L > MaxControlPayload => b = 2)
  BY <1>7 DEF b
<1> HIDE DEF head
<1>12. Wire(d)[1] = op
  <2>1. 1 \in 1..((1 + b) + (1 + L)) /\ 1 \in 1..(1 + b) /\ 1 <= 1 + b
    BY <1>1, <1>11
  <2>2. Wire(d)[1] = H[1] /\ H[1] = <<op>>[1]
    BY <1>8, <1>10, <2>1
  <2> QED BY <1>6, <2>2
<1>13. Wire(d)[2] = IF L > MaxControlPayload THEN more ELSE short
  <2>1. /\ 2 \in 1..((1 + b) + (1 + L)) /\ 2 \in 1..(1 + b) /\ 2 <= 1 + b
        /\ 2 - 1 = 1 /\ ~(2 <= 1)
    BY <1>1, <1>11
  <2>2. Wire(d)[2] = H[2] /\ H[2] = B[1]
    BY <1>8, <1>10, <2>1
  <2> QED BY <1>7, <2>2
<1>14. ASSUME L > MaxControlPayload PROVE Wire(d)[3] = ext
  <2>1. /\ 3 \in 1..((1 + b) + (1 + L)) /\ 3 \in 1..(1 + b) /\ 3 <= 1 + b
        /\ 3 - 1 = 2 /\ ~(3 <= 1)
    BY <1>1, <1>11, <1>14
  <2>2. Wire(d)[3] = H[3] /\ H[3] = B[2]
    BY <1>8, <1>10, <2>1
  <2> QED BY <1>7, <1>14, <2>2
<1>15. ASSUME NEW i \in 1..L PROVE Wire(d)[head + i] = MaskUnit(d.payload[i])
  <2> DEFINE k == head + i
  <2>1. /\ k \in 1..((1 + b) + (1 + L)) /\ ~(k <= 1 + b) /\ k - (1 + b) = 1 + i
        /\ 1 + i \in 1..(1 + L) /\ ~(1 + i <= 1) /\ 1 + i - 1 = i
    BY <1>1, <1>11
  <2> HIDE DEF k
  <2>2. Wire(d)[k] = T[1 + i]
    BY <1>10, <2>1
  <2>3. T[1 + i] = M[i]
    BY <1>9, <2>1
  <2>4. Wire(d)[k] = MaskUnit(d.payload[i])
    BY <1>4, <2>2, <2>3
  <2> QED BY <2>4 DEF k
<1>16. Len(Wire(d)) = head + L
  BY <1>1, <1>10, <1>11
<1> QED BY <1>0, <1>1, <1>12, <1>13, <1>14, <1>15, <1>16 DEF op, short, more, ext, head

\* A frame as the client wrote it is the frame the server decodes.
LEMMA FrameFound ==
    ASSUME IInv, NEW p \in 0..Len(stream.units), FramesAhead = Rest(stream, p),
           NEW d \in FrameDraft, fragments = d.pieces,
           p + Len(Wire(d)) <= Len(stream.units), Data(stream, p, Len(Wire(d))) = Wire(d),
           IF d.opcode \in ControlOpcodes THEN d.fin /\ Len(d.payload) <= MaxControlPayload
           ELSE Len(d.pieces \o d.payload) <= MaxMessageSize
    PROVE  /\ Whole!FrameError = 0 /\ Whole!HasFrame
           /\ Whole!Opcode = d.opcode /\ Whole!Fin = d.fin /\ Whole!Payload = d.payload
           /\ p + Len(Wire(d)) \in 0..Len(stream.units)
           /\ Whole!Consume /\ UNCHANGED stream => FramesAhead' = Rest(stream, p + Len(Wire(d)))'
<1> DEFINE W    == Wire(d)
           L    == Len(d.payload)
           long == L > MaxControlPayload
           head == IF long THEN 4 ELSE 3
<1>1. /\ Len(W) = head + L /\ L \in Nat
      /\ W[1] = <<"op", d.fin, d.opcode>>
      /\ W[2] = <<"len", TRUE, IF long THEN MaxControlPayload + 1 ELSE L>>
      /\ long => W[3] = <<"ext", L>>
      /\ \A i \in 1..L : W[head + i] = MaskUnit(d.payload[i])
  BY WireFacts
<1>2. d.payload \in Seq(Plain) /\ d.pieces \in Seq(Plain) /\ d.opcode \in Opcodes
      /\ d.fin \in BOOLEAN /\ DOMAIN d.payload = 1..L /\ d.payload = [i \in 1..L |-> d.payload[i]]
  BY LenProperties, IsASeq DEF FrameDraft
<1>3. MaxControlPayload \in Nat /\ MaxMessageSize \in Nat
  BY MessageLimitsAssumption
<1>4. stream.units \in Seq(Unit) /\ Len(stream.units) \in Nat
      /\ Len(FramesAhead) = Len(stream.units) - p /\ p \in Nat
  BY FramesAheadOf
<1> HIDE DEF W, L
<1>5. head \in 3..4 /\ head + L \in 0..(Len(stream.units) - p) /\ Len(W) \in Nat
      /\ head + L <= Len(FramesAhead) /\ p + Len(W) \in 0..Len(stream.units)
  <2>1. head \in 3..4
    OBVIOUS
  <2>2. p + Len(W) <= Len(stream.units)
    BY DEF W
  <2> HIDE DEF head
  <2> QED BY <1>1, <1>4, <2>1, <2>2
<1>6. \A i \in 1..(head + L) : FramesAhead[i] = W[i]
  <2>1. \A i \in 1..(head + L) : Data(stream, p, head + L)[i] = FramesAhead[i]
    BY <1>5, FramesAheadOf
  <2>2. Data(stream, p, head + L) = W
    BY <1>1 DEF W
  <2> QED BY <2>1, <2>2
<1>7. /\ FramesAhead[1] = W[1] /\ FramesAhead[2] = W[2] /\ FramesAhead[3] = W[3]
  <2>1. 1 \in 1..(head + L) /\ 2 \in 1..(head + L) /\ 3 \in 1..(head + L)
    BY <1>1, <1>5
  <2> QED BY <1>6, <2>1
<1>8. /\ Whole!Opcode = d.opcode /\ Whole!Fin = d.fin /\ Whole!Masked
      /\ (Whole!LongForm <=> long) /\ Whole!Length = L /\ Whole!Offset = head
  <2>1. /\ FramesAhead[1][1] = "op" /\ FramesAhead[1][2] = d.fin /\ FramesAhead[1][3] = d.opcode
        /\ FramesAhead[2][2] = TRUE
        /\ FramesAhead[2][3] = (IF long THEN MaxControlPayload + 1 ELSE L)
        /\ long => FramesAhead[3][2] = L
    BY <1>1, <1>7
  <2>2. Whole!LongForm <=> long
    BY <1>1, <1>3, <2>1 DEF Whole!LongForm
  <2> HIDE DEF long
  <2>3. Whole!Length = L
    BY <2>1, <2>2 DEF Whole!Length
  <2> QED BY <2>1, <2>2, <2>3 DEF Whole!Opcode, Whole!Fin, Whole!Masked, Whole!Offset
<1>9. Whole!HasLength /\ Len(FramesAhead) >= 2
  BY <1>1, <1>4, <1>5, <1>8 DEF Whole!HasLength
<1>10. Whole!FrameError = 0
  <2>1. CASE d.opcode \in ControlOpcodes
    BY <1>1, <1>2, <1>3, <1>8, <1>9, <2>1, SameFrames DEF Whole!FrameError, L
  <2>2. CASE d.opcode \notin ControlOpcodes
    <3>1. Len(d.pieces \o d.payload) = Len(fragments) + L
      BY <1>2, ConcatProperties DEF L
    <3>2. Len(fragments) \in Nat
      BY <1>2, LenProperties
    <3>3. ~Whole!TooBig
      BY <1>1, <1>3, <1>8, <2>2, <3>1, <3>2 DEF Whole!TooBig
    <3> QED BY <1>1, <1>2, <1>8, <1>9, <2>2, <3>3, SameFrames DEF Whole!FrameError
  <2> QED BY <2>1, <2>2
<1>11. Whole!HasFrame
  BY <1>5, <1>8, <1>9, <1>10 DEF Whole!HasFrame
<1>12. Whole!Payload = d.payload
  <2> DEFINE cut == SubSeq(FramesAhead, head + 1, head + L)
  <2>1. FramesAhead \in Seq(Unit) /\ head \in 0..Len(FramesAhead)
        /\ L \in 0..(Len(FramesAhead) - head)
    <3>1. FramesAhead \in Seq(Unit)
      BY AheadFacts
    <3> HIDE DEF head
    <3> QED BY <1>1, <1>4, <1>5, <3>1
  <2>2. cut \in Seq(Unit) /\ Len(cut) = L /\ \A i \in 1..L : cut[i] = FramesAhead[head + i]
    <3> HIDE DEF head
    <3> QED BY <2>1, SliceFacts
  <2> HIDE DEF cut
  <2>3. DOMAIN cut = 1..L
    BY <2>2, LenProperties
  <2>4. ASSUME NEW i \in 1..L PROVE MaskUnit(cut[i]) = d.payload[i]
    <3>1. head + i \in 1..(head + L)
      BY <1>1, <1>5
    <3>2. cut[i] = MaskUnit(d.payload[i])
      BY <1>1, <1>6, <2>2, <3>1
    <3>3. d.payload[i] \in Plain
      BY <1>2, ElementOfSeq DEF L
    <3> QED BY <3>2, <3>3, MaskTwice
  <2>5. ApplyMask(cut) = [i \in 1..L |-> MaskUnit(cut[i])]
    BY <2>3 DEF ApplyMask
  <2>6. ApplyMask(cut) = d.payload
    BY <1>2, <2>4, <2>5
  <2>7. Whole!Payload = ApplyMask(cut)
    BY <1>8, SameFrames DEF Whole!Payload, cut
  <2> QED BY <2>6, <2>7
<1>13. ASSUME Whole!Consume, UNCHANGED stream
       PROVE  FramesAhead' = Rest(stream, p + Len(W))'
  <2>1. SubSeq(FramesAhead, (head + L) + 1, Len(FramesAhead)) = Rest(stream, p + (head + L))
    BY <1>5, FramesAheadOf
  <2>2. FramesAhead' = Rest(stream, p + Len(W))
    BY <1>1, <1>8, <1>13, <2>1 DEF Whole!Consume
  <2> QED BY <1>13, <2>2 DEF Rest
<1> QED BY <1>5, <1>8, <1>10, <1>11, <1>12, <1>13 DEF W

\* A head that no frame may have is refused as the client knows.
LEMMA HeadRefused ==
    ASSUME IInv, NEW p \in 0..Len(stream.units), FramesAhead = Rest(stream, p),
           NEW code \in {1002, 1009}, RefusedHead(stream, p, Len(fragments), code)
    PROVE  Whole!FrameError = code
<1> DEFINE op  == stream.units[p + 1]
           len == stream.units[p + 2]
           ext == stream.units[p + 3]
<1>1. /\ Len(stream.units) \in Nat /\ p \in Nat /\ Len(FramesAhead) = Len(stream.units) - p
      /\ \A i \in 1..(Len(stream.units) - p) : FramesAhead[i] = stream.units[p + i]
  BY FramesAheadOf
<1>2. p + 2 <= Len(stream.units)
  BY DEF RefusedHead
<1>3. /\ Len(FramesAhead) >= 2 /\ FramesAhead[1] = op /\ FramesAhead[2] = len
      /\ p + 3 <= Len(stream.units) => Len(FramesAhead) >= 3 /\ FramesAhead[3] = ext
  <2>1. 1 \in 1..(Len(stream.units) - p) /\ 2 \in 1..(Len(stream.units) - p)
        /\ p + 3 <= Len(stream.units) => 3 \in 1..(Len(stream.units) - p)
    BY <1>1, <1>2
  <2> QED BY <1>1, <1>2, <2>1
<1> DEFINE long     == len[3] > MaxControlPayload
           length   == IF long THEN ext[2] ELSE len[3]
           bad      == op[1] # "op" \/ op[3] \notin Opcodes \/ ~(len[2] = TRUE)
           negative == length \notin Nat
           control  == /\ length \in Nat /\ op[3] \in ControlOpcodes
                       /\ length > MaxControlPayload \/ ~op[2]
           big      == /\ length \in Nat /\ op[3] \notin ControlOpcodes
                       /\ Len(fragments) + length > MaxMessageSize
<1>4. \/ bad /\ code = 1002
      \/ /\ ~bad /\ (long => p + 3 <= Len(stream.units))
         /\ (negative /\ code = 1002) \/ (control /\ code = 1002) \/ (big /\ code = 1009)
  <2>1. \/ bad /\ code = 1002
        \/ /\ op[1] = "op" /\ op[3] \in Opcodes /\ len[2] = TRUE
           /\ long => p + 3 <= Len(stream.units)
           /\ \/ length \notin Nat /\ code = 1002
              \/ /\ length \in Nat /\ op[3] \in ControlOpcodes
                 /\ (length > MaxControlPayload \/ ~op[2]) /\ code = 1002
              \/ /\ length \in Nat /\ op[3] \notin ControlOpcodes
                 /\ Len(fragments) + length > MaxMessageSize /\ code = 1009
    BY DEF RefusedHead
  <2> HIDE DEF op, len, ext, length
  <2> QED BY <2>1
<1>5. /\ Whole!Opcode = (IF op[1] = "op" THEN op[3] ELSE "reserved")
      /\ (Whole!Masked <=> len[2] = TRUE) /\ (Whole!LongForm <=> long)
      /\ Whole!Fin = op[2]
  BY <1>3 DEF Whole!Opcode, Whole!Masked, Whole!LongForm, Whole!Fin
<1> HIDE DEF op, len, ext
<1>6. ASSUME bad PROVE Whole!FrameError = 1002
  <2>1. Whole!Opcode \notin Opcodes \/ ~Whole!Masked
    BY <1>5, <1>6 DEF Opcodes, ControlOpcodes
  <2> QED BY <1>1, <1>3, <2>1, SameFrames DEF Whole!FrameError
<1>7. ASSUME ~bad, long => p + 3 <= Len(stream.units)
      PROVE  /\ negative => Whole!FrameError = 1002
             /\ control => Whole!FrameError = 1002
             /\ big => Whole!FrameError = 1009
  <2>1. Whole!Opcode = op[3] /\ Whole!Masked /\ op[3] \in Opcodes
    BY <1>5, <1>7
  <2>2. Whole!Length = length /\ Whole!HasLength
    BY <1>1, <1>3, <1>5, <1>7 DEF Whole!Length, Whole!HasLength
  <2> HIDE DEF length
  <2>3. ASSUME negative PROVE Whole!FrameError = 1002
    BY <1>1, <1>3, <2>1, <2>2, <2>3, SameFrames DEF Whole!FrameError
  <2>4. ASSUME control PROVE Whole!FrameError = 1002
    BY <1>1, <1>3, <1>5, <2>1, <2>2, <2>4, SameFrames DEF Whole!FrameError
  <2>5. ASSUME big PROVE Whole!FrameError = 1009
    BY <1>1, <1>3, <2>1, <2>2, <2>5, SameFrames DEF Whole!FrameError, Whole!TooBig
  <2> QED BY <2>3, <2>4, <2>5
<1> HIDE DEF bad, negative, control, big, long
<1> QED BY <1>4, <1>6, <1>7

Message == [kind : Opcodes, data : Seq(Plain)]

\* The parsers are where the client wrote the frame d, and it ends at q.
FrameHere(p, d, q) ==
    /\ IInv /\ UNCHANGED stream /\ FramesAt(p) /\ d = At(stream, p) /\ d \in FrameDraft
    /\ stream.messages \in Seq(Message) /\ d.nth \in 0..Len(stream.messages)
    /\ Whole!Opcode = d.opcode /\ Whole!Fin = d.fin /\ Whole!Payload = d.payload
    /\ q \in 0..Len(stream.units) /\ FramesAhead' = Rest(stream, q)'

LEMMA MessagesEnd ==
    ASSUME stream.messages \in Seq(Message), NEW n \in Nat, NEW code, Closes(stream, n, code)
    PROVE  SubSeq(stream.messages, 1, n) = stream.messages /\ stream.code = code
  BY SubSeqFull DEF Closes

LEMMA MessageTold ==
    ASSUME NEW p, NEW d, NEW q, FrameHere(p, d, q), NEW kind, NEW data,
           Tells(stream, d.nth, kind, data), Whole!Emit(kind, data)
    PROVE  messages' = SubSeq(stream.messages, 1, d.nth + 1) /\ wsError' = 0
<1>1. /\ stream.messages \in Seq(Message) /\ d.nth \in 0..Len(stream.messages)
      /\ messages = SubSeq(stream.messages, 1, d.nth) /\ wsError = 0
  BY DEF FrameHere, FramesAt, AtFrame
<1>2. /\ d.nth < Len(stream.messages)
      /\ stream.messages[d.nth + 1] = [kind |-> kind, data |-> data]
  BY DEF Tells
<1>3. SubSeq(stream.messages, 1, d.nth + 1)
        = Append(SubSeq(stream.messages, 1, d.nth), stream.messages[d.nth + 1])
  BY <1>1, <1>2, FirstOnes
<1> QED BY <1>1, <1>2, <1>3 DEF Whole!Emit

LEMMA NextFrame ==
    ASSUME NEW p, NEW d, NEW q, FrameHere(p, d, q), NEW n, NEW kind, NEW pieces,
           Continues(stream, q, n, kind, pieces),
           messages' = SubSeq(stream.messages, 1, n), wsError' = 0, wsClosed' = FALSE,
           fragments' = pieces, fragmentOpcode' = kind
    PROVE  FramesThere'
<1>1. UNCHANGED stream /\ q \in 0..Len(stream.units) /\ FramesAhead' = Rest(stream, q)'
  BY DEF FrameHere
<1>2. AtFrame(At(stream, q))'
  BY <1>1 DEF AtFrame, Continues, At
<1> QED BY <1>1, <1>2 DEF FramesThere, FramesAt

LEMMA LastFrame ==
    ASSUME NEW p, NEW d, NEW q, FrameHere(p, d, q), NEW n \in Nat, NEW code,
           Closes(stream, n, code), messages' = SubSeq(stream.messages, 1, n),
           wsError' = code, wsClosed' = TRUE \/ wsError' # 0
    PROVE  FramesThere'
<1>1. UNCHANGED stream /\ stream.messages \in Seq(Message)
  BY DEF FrameHere
<1> QED BY <1>1, MessagesEnd DEF FramesThere, FramesOver, Decoding

LEMMA ControlReads ==
    ASSUME NEW p, NEW d, NEW q, FrameHere(p, d, q), ControlFrame(stream, d, q),
           Whole!HandlePing \/ Whole!HandleClose
    PROVE  FramesThere'
<1>1. /\ messages = SubSeq(stream.messages, 1, d.nth) /\ wsError = 0 /\ wsClosed = FALSE
      /\ fragments = d.pieces /\ fragmentOpcode = d.kind
      /\ Whole!Opcode = d.opcode /\ Whole!Payload = d.payload
      /\ d.nth \in Nat /\ d.nth + 1 \in Nat
  BY DEF FrameHere, FramesAt, AtFrame
<1>2. CASE /\ d.opcode \in {"ping", "pong"}
           /\ Tells(stream, d.nth, d.opcode, d.payload)
           /\ Continues(stream, q, d.nth + 1, d.kind, d.pieces)
  <2>1. /\ Whole!Emit(d.opcode, d.payload)
        /\ UNCHANGED <<fragments, fragmentOpcode, wsClosed>>
    BY <1>1, <1>2 DEF Whole!HandlePing, Whole!HandleClose
  <2> QED BY <1>1, <1>2, <2>1, MessageTold, NextFrame
<1>3. ASSUME d.opcode = "close"
      PROVE  /\ wsClosed' = TRUE
             /\ \/ CloseError(d.payload) = 0 /\ Whole!Emit("close", d.payload)
                \/ CloseError(d.payload) # 0 /\ Whole!Raise(CloseError(d.payload))
  <2>1. Whole!HandleClose
    BY <1>1, <1>3 DEF Whole!HandlePing
  <2>2. Whole!CloseError(d.payload) = CloseError(d.payload)
    BY SameFrames DEF CloseError, Whole!CloseError
  <2> QED BY <1>1, <2>1, <2>2 DEF Whole!HandleClose
<1>4. CASE /\ d.opcode = "close" /\ CloseError(d.payload) = 0
           /\ Tells(stream, d.nth, "close", d.payload) /\ Closes(stream, d.nth + 1, 0)
  BY <1>1, <1>3, <1>4, MessageTold, LastFrame
<1>5. CASE /\ d.opcode = "close" /\ CloseError(d.payload) # 0
           /\ Closes(stream, d.nth, CloseError(d.payload))
  <2>1. Whole!Raise(CloseError(d.payload)) /\ wsClosed' = TRUE
    BY <1>3, <1>5
  <2> QED BY <1>1, <1>5, <2>1, LastFrame DEF Whole!Raise
<1> QED BY <1>2, <1>4, <1>5 DEF ControlFrame

LEMMA DataReads ==
    ASSUME NEW p, NEW d, NEW q, FrameHere(p, d, q), DataFrame(stream, d, q), Whole!HandleData
    PROVE  FramesThere'
<1> DEFINE data == d.pieces \o d.payload
           kind == IF d.kind = "none" THEN d.opcode ELSE d.kind
           turn == ~(d.opcode = "continuation" <=> d.kind = "none")
           bad  == d.fin /\ kind = "text" /\ ~IsUtf8(data)
<1>1. /\ messages = SubSeq(stream.messages, 1, d.nth) /\ wsError = 0 /\ wsClosed = FALSE
      /\ fragments = d.pieces /\ fragmentOpcode = d.kind
      /\ Whole!Opcode = d.opcode /\ Whole!Fin = d.fin /\ Whole!Payload = d.payload
      /\ d.nth \in Nat /\ d.nth + 1 \in Nat /\ d.fin \in BOOLEAN
  BY DEF FrameHere, FramesAt, AtFrame, FrameDraft
<1>2. /\ Whole!OutOfTurn <=> ~turn
      /\ Whole!MessageOpcode = kind
      /\ Whole!BadText <=> bad
      /\ fragments \o Whole!Payload = data
  BY <1>1, SameFrames DEF Whole!OutOfTurn, Whole!MessageOpcode, Whole!BadText
<1>3. UNCHANGED wsClosed
  BY DEF Whole!HandleData
<1>4. /\ \/ ~turn /\ Closes(stream, d.nth, 1002)
         \/ /\ turn
            /\ \/ ~d.fin /\ Continues(stream, q, d.nth, kind, data)
               \/ bad /\ Closes(stream, d.nth, 1007)
               \/ /\ d.fin /\ ~bad
                  /\ Tells(stream, d.nth, kind, data)
                  /\ Continues(stream, q, d.nth + 1, "none", <<>>)
  BY DEF DataFrame
<1>5. /\ \/ ~turn /\ Whole!Raise(1002)
         \/ /\ turn /\ bad
            /\ wsError' = 1007 /\ UNCHANGED messages
         \/ /\ turn /\ ~bad /\ d.fin /\ Whole!Emit(kind, data)
            /\ fragments' = <<>> /\ fragmentOpcode' = "none"
         \/ /\ turn /\ ~bad /\ ~d.fin
            /\ fragments' = data /\ fragmentOpcode' = kind
            /\ UNCHANGED <<messages, wsError>>
  <2> HIDE DEF turn, bad, data, kind
  <2> QED BY <1>1, <1>2 DEF Whole!HandleData
<1>6. bad => d.fin
  OBVIOUS
<1> HIDE DEF turn, bad, data, kind
<1>7. CASE ~turn
  <2>1. Closes(stream, d.nth, 1002) /\ Whole!Raise(1002)
    BY <1>4, <1>5, <1>7
  <2> QED BY <1>1, <2>1, LastFrame DEF Whole!Raise
<1>8. CASE turn /\ bad
  <2>1. Closes(stream, d.nth, 1007) /\ wsError' = 1007 /\ UNCHANGED messages
    BY <1>4, <1>5, <1>6, <1>8
  <2> QED BY <1>1, <2>1, LastFrame
<1>9. CASE turn /\ ~bad /\ d.fin
  <2>1. /\ Tells(stream, d.nth, kind, data) /\ Whole!Emit(kind, data)
        /\ Continues(stream, q, d.nth + 1, "none", <<>>)
        /\ fragments' = <<>> /\ fragmentOpcode' = "none"
    BY <1>4, <1>5, <1>9
  <2> QED BY <1>1, <1>3, <2>1, MessageTold, NextFrame
<1>10. CASE turn /\ ~d.fin
  <2>1. /\ Continues(stream, q, d.nth, kind, data)
        /\ fragments' = data /\ fragmentOpcode' = kind /\ UNCHANGED <<messages, wsError>>
    BY <1>4, <1>5, <1>6, <1>10
  <2> QED BY <1>1, <1>3, <2>1, NextFrame
<1> QED BY <1>7, <1>8, <1>9, <1>10

LEMMA FrameProgress ==
    ASSUME IInv, FramesThere, Whole!ReadFrames, UNCHANGED stream
    PROVE  FramesThere'
<1>1. /\ Decoding
      /\ Whole!RejectFrame \/ Whole!HandlePing \/ Whole!HandleClose \/ Whole!HandleData
  BY SameFrames DEF Whole!ReadFrames, Whole!ParseFrames
<1>2. PICK p \in 0..Len(stream.units) : FramesAt(p)
  BY <1>1 DEF FramesThere, FramesOver
<1>0. PICK d : d = At(stream, p)
  OBVIOUS
<1> DEFINE q == p + Len(Wire(d))
<1>3. /\ FramesAhead = Rest(stream, p) /\ d.part = "frame" /\ fragments = d.pieces
      /\ messages = SubSeq(stream.messages, 1, d.nth) /\ wsError = 0 /\ wsClosed = FALSE
  BY <1>0, <1>2 DEF FramesAt, AtFrame
<1>4. /\ stream.messages \in Seq(Message) /\ WritesFrames(stream, p)
      /\ Len(stream.units) \in Nat
  BY FramesAheadOf, <1>3, Agreed DEF WellWritten, Message
<1>5. /\ d \in FrameDraft /\ d.nth <= Len(stream.messages)
      /\ \/ p = Len(stream.units) /\ Closes(stream, d.nth, 0)
         \/ \E code \in {1002, 1009} :
               RefusedHead(stream, p, Len(d.pieces), code) /\ Closes(stream, d.nth, code)
         \/ /\ q <= Len(stream.units) /\ Data(stream, p, Len(Wire(d))) = Wire(d)
            /\ IF d.opcode \in ControlOpcodes THEN ControlFrame(stream, d, q)
               ELSE DataFrame(stream, d, q)
  BY <1>0, <1>3, <1>4 DEF WritesFrames
<1>6. d.nth \in 0..Len(stream.messages) /\ d.opcode \in Opcodes
  <2>1. Len(stream.messages) \in Nat /\ d.nth \in Nat /\ d.opcode \in Opcodes
    BY <1>4, <1>5, LenProperties DEF FrameDraft
  <2> QED BY <1>5, <2>1
<1>7. CASE p = Len(stream.units)
  <2>1. Len(FramesAhead) = 0
    BY <1>3, <1>4, <1>7, FramesAheadOf
  <2>2. Whole!FrameError = 0 /\ ~Whole!HasFrame
    BY <2>1 DEF Whole!FrameError, Whole!HasFrame
  <2> QED BY <1>1, <2>2
          DEF Whole!RejectFrame, Whole!HandlePing, Whole!HandleClose, Whole!HandleData
<1>8. ASSUME NEW code \in {1002, 1009}, RefusedHead(stream, p, Len(d.pieces), code),
             Closes(stream, d.nth, code)
      PROVE  FramesThere'
  <2>1. Whole!FrameError = code /\ code # 0
    BY <1>3, <1>8, HeadRefused
  <2>2. Whole!Raise(code)
    BY <1>1, <2>1
    DEF Whole!RejectFrame, Whole!HandlePing, Whole!HandleClose, Whole!HandleData, Whole!HasFrame
  <2>3. messages' = stream.messages /\ stream.code = code
    BY <1>3, <1>4, <1>6, <1>8, <2>2, MessagesEnd DEF Whole!Raise
  <2> QED BY <2>1, <2>2, <2>3 DEF Whole!Raise, FramesThere, FramesOver, Decoding
<1>9. ASSUME q <= Len(stream.units), Data(stream, p, Len(Wire(d))) = Wire(d),
             IF d.opcode \in ControlOpcodes THEN ControlFrame(stream, d, q)
             ELSE DataFrame(stream, d, q)
      PROVE  FramesThere'
  <2>1. IF d.opcode \in ControlOpcodes THEN d.fin /\ Len(d.payload) <= MaxControlPayload
        ELSE Len(d.pieces \o d.payload) <= MaxMessageSize
    BY <1>9 DEF ControlFrame, DataFrame
  <2>2. /\ Whole!FrameError = 0 /\ Whole!HasFrame
        /\ Whole!Opcode = d.opcode /\ Whole!Fin = d.fin /\ Whole!Payload = d.payload
        /\ q \in 0..Len(stream.units)
        /\ Whole!Consume => FramesAhead' = Rest(stream, q)'
    BY <1>3, <1>5, <1>9, <2>1, FrameFound
  <2>3. Whole!Consume
    BY <1>1, <2>2
    DEF Whole!RejectFrame, Whole!HandlePing, Whole!HandleClose, Whole!HandleData
  <2>4. FrameHere(p, d, q)
    BY <1>0, <1>2, <1>4, <1>5, <1>6, <2>2, <2>3 DEF FrameHere
  <2> HIDE DEF q
  <2>5. CASE d.opcode \in ControlOpcodes
    <3>1. Whole!HandlePing \/ Whole!HandleClose
      BY <1>1, <2>2, <2>5, SameFrames DEF Whole!RejectFrame, Whole!HandleData
    <3> QED BY <1>9, <2>4, <2>5, <3>1, ControlReads
  <2>6. CASE d.opcode \notin ControlOpcodes
    <3>1. Whole!HandleData
      BY <1>1, <2>2, <2>6 DEF Whole!RejectFrame, Whole!HandlePing, Whole!HandleClose,
                              ControlOpcodes
    <3> QED BY <1>9, <2>4, <2>6, <3>1, DataReads
  <2> QED BY <2>5, <2>6
<1> QED BY <1>5, <1>7, <1>8, <1>9

-----------------------------------------------------------------------------
\* No frame has been read.
NoFrames ==
    /\ fragments = <<>> /\ fragmentOpcode = "none" /\ messages = <<>>
    /\ wsError = 0 /\ wsClosed = FALSE

\* The parsers are somewhere in the stream.
There ==
    /\ ~switched => HTTPThere /\ NoFrames
    /\ switched => Upgrades /\ FramesThere /\ Behind(fed)
    /\ EofToldTruly

LEMMA Arrived ==
    ASSUME IInv, ~switched, NEW p, Position(p)
    PROVE  /\ Len(buffer) \in Nat /\ fed \in 0..Len(stream.units) /\ Len(stream.units) \in Nat
           /\ p \in 0..Len(stream.units) /\ fed = p + Len(buffer)
           /\ fed = Len(stream.units) => HTTPAhead = buffer
<1>1. /\ stream.units \in Seq(Unit) /\ Len(stream.units) \in Nat /\ fed \in 0..Len(stream.units)
      /\ p \in 0..Len(stream.units) /\ Len(HTTPAhead) = Len(stream.units) - p
  BY AheadOf DEF IInv
<1>2. /\ buffer \in Seq(Unit) /\ Unread \in Seq(Unit) /\ HTTPAhead = buffer \o Unread
  BY AheadFacts
<1>3. Len(Unread) = Len(stream.units) - fed
  BY <1>1, RestFacts DEF Unread
<1>4. Len(HTTPAhead) = Len(buffer) + Len(Unread) /\ Len(buffer) \in Nat
  BY <1>2, Prefixed
<1>5. fed = Len(stream.units) => HTTPAhead = buffer
  <2>1. fed = Len(stream.units) => Unread = <<>>
    BY <1>1, <1>2, <1>3, EmptySeq
  <2> QED BY <1>2, <2>1, ConcatEmptySeq
<1> QED BY <1>1, <1>3, <1>4, <1>5

\* Between two segments HTTP11Parser waits at the beginning of a part of a
\* request, or somewhere inside one that the client has not finished.
LEMMA Waiting ==
    ASSUME IInv, ~switched, HTTPThere, HTTPBlocked, state \notin {"failed", "upgraded"}
    PROVE  \E p \in 0..Len(stream.units) :
              /\ Position(p) /\ AtDraft(At(stream, p)) /\ fed = p + Len(buffer)
              /\ buffer # <<>> => At(stream, fed).part = "inside"
              /\ fed = Len(stream.units) => Stops(stream, p, "none")
<1>1. PICK p \in 0..Len(stream.units) : HTTPAt(p)
  BY DEF HTTPThere, GaveUp
<1>2. PICK d : d = At(stream, p)
  OBVIOUS
<1>3. Position(p) /\ AtDraft(d)
  <2>1. ~AtUpgrade(p)
    BY DEF AtUpgrade, Upgrades
  <2>2. ~AtNoBody(d)
    BY DEF AtNoBody, HTTPBlocked, ReadsLine
  <2> QED BY <1>1, <1>2, <2>1, <2>2 DEF HTTPAt
<1>4. /\ Len(buffer) \in Nat /\ fed \in 0..Len(stream.units) /\ Len(stream.units) \in Nat
      /\ fed = p + Len(buffer) /\ p \in Nat
      /\ buffer = <<>> <=> Len(buffer) = 0
  BY <1>3, Arrived, EmptySeq DEF IInv, HTTPInv, HTTPTypeOK
<1>5. state = d.part /\ left = d.left /\ d.part \in Parts
  BY <1>3 DEF AtDraft
<1>6. WritesRequests(stream, p)
  BY Agreed
<1>7. /\ d \in Draft
      /\ d.part = "start_line" => StartLine(stream, p)
      /\ d.part = "headers"    => Headers(stream, p)
      /\ d.part = "body"       => Body(stream, p)
      /\ d.part = "size"       => ChunkSize(stream, p)
      /\ d.part = "data"       => ChunkData(stream, p)
      /\ d.part = "data_crlf"  => ChunkEnd(stream, p)
      /\ d.part = "trailers"   => Trailers(stream, p)
  BY <1>2, <1>5, <1>6 DEF WritesRequests
<1>8. d.left \in Nat
  BY <1>7 DEF Draft
<1>9. SUFFICES /\ buffer # <<>> => At(stream, fed).part = "inside"
               /\ fed = Len(stream.units) => Stops(stream, p, "none")
  BY <1>2, <1>3, <1>4
<1>10. CASE d.part \in {"start_line", "headers", "size", "trailers"}
  <2>1. LineEnd = 0 /\ Len(buffer) <= MaxHeaderSize
    BY <1>4, <1>5, <1>10, LimitsAssumption DEF HTTPBlocked, ReadsLine, TooLong
  <2>2. CASE WritesTooLong(stream, p)
    <3>1. p + MaxHeaderSize < Len(stream.units) /\ Inside(stream, p, Len(stream.units) + 1)
      BY <2>2 DEF WritesTooLong, Stops
    <3>2. fed < Len(stream.units)
      BY <1>4, <2>1, <3>1, LimitsAssumption
    <3>3. buffer # <<>> => fed \in (p + 1)..((Len(stream.units) + 1) - 1)
      BY <1>4
    <3> QED BY <1>4, <3>1, <3>2, <3>3 DEF Inside
  <2>3. ASSUME NEW q \in 0..Len(stream.units), WritesLine(stream, p, q)
        PROVE  /\ buffer # <<>> => At(stream, fed).part = "inside"
               /\ fed = Len(stream.units) => Stops(stream, p, "none")
    <3>1. Whole!LineEnd = q - p - 1 /\ p + 2 <= q /\ Inside(stream, p, q)
      BY <1>3, <2>3, LineFound DEF WritesLine
    <3>2. Whole!LineEnd = 0 \/ Whole!LineEnd >= Len(buffer)
      BY <2>1, LineAgrees
    <3>3. fed <= q - 1
      BY <1>4, <3>1, <3>2
    <3>4. buffer # <<>> => fed \in (p + 1)..(q - 1)
      BY <1>4, <3>3
    <3> QED BY <1>4, <3>1, <3>3, <3>4 DEF Inside
  <2>4. CASE p = Len(stream.units) /\ Stops(stream, p, "none")
    BY <1>4, <2>4
  <2>5. \/ WritesTooLong(stream, p) \/ \E q \in 0..Len(stream.units) : WritesLine(stream, p, q)
        \/ p = Len(stream.units) /\ Stops(stream, p, "none")
    BY <1>7, <1>10 DEF StartLine, Headers, ChunkSize, Trailers
  <2> QED BY <2>2, <2>3, <2>4, <2>5
<1>11. CASE d.part \in {"body", "data"}
  <2>1. buffer = <<>>
    BY <1>5, <1>11 DEF HTTPBlocked, ReadsLine
  <2>2. d.left > 0 /\ p + d.left <= Len(stream.units)
    BY <1>2, <1>7, <1>11 DEF Body, ChunkData
  <2> QED BY <1>4, <1>8, <2>1, <2>2
<1>12. CASE d.part = "data_crlf"
  <2>1. Len(buffer) < 2
    BY <1>5, <1>12 DEF HTTPBlocked, ReadsLine
  <2>2. p + 2 <= Len(stream.units) /\ Inside(stream, p, p + 2)
    BY <1>7, <1>12 DEF ChunkEnd
  <2>3. buffer # <<>> => fed \in (p + 1)..((p + 2) - 1)
    BY <1>4, <2>1
  <2> QED BY <1>4, <2>1, <2>2, <2>3 DEF Inside
<1> QED BY <1>5, <1>10, <1>11, <1>12 DEF Parts

\* The client closes, and what is told of it is true.
LEMMA EofTells ==
    ASSUME IInv, There, EofReceived
    PROVE  EofToldTruly'
<1>1. /\ UNCHANGED <<stream, fed>> /\ HTTPBlocked /\ state # "failed"
      /\ state = "upgraded" => switched
      /\ eof' = IF CleanEof THEN "clean" ELSE "incomplete"
  BY DEF EofReceived, FeedEof, Reading
<1>2. /\ fed \in 0..Len(stream.units)
      /\ stream.whole = {p \in 0..Len(stream.units) :
                            At(stream, p).part \in {"start_line", "frame", "beyond"}}
  BY Agreed DEF IInv, WellWritten
<1>3. SUFFICES CleanEof <=> At(stream, fed).part \in {"start_line", "frame", "beyond"}
  BY <1>1, <1>2 DEF EofToldTruly
<1>4. CASE state = "upgraded"
  <2>1. Behind(fed) /\ Len(stream.units) \in Nat
    BY <1>1, <1>4, Agreed, StreamsAssumption, LenProperties DEF There, IInv
  <2> QED BY <1>2, <1>4, <2>1 DEF Behind, CleanEof
<1>5. CASE state # "upgraded"
  <2>1. ~switched /\ HTTPThere
    BY <1>5 DEF IInv, There
  <2>2. PICK p \in 0..Len(stream.units) :
              /\ Position(p) /\ AtDraft(At(stream, p)) /\ fed = p + Len(buffer)
              /\ buffer # <<>> => At(stream, fed).part = "inside"
    BY <1>1, <1>5, <2>1, Waiting
  <2>3. CASE buffer = <<>>
    <3>1. fed = p
      BY <2>2, <2>3, EmptySeq
    <3> QED BY <1>5, <2>2, <2>3, <3>1 DEF CleanEof, AtDraft, Parts
  <2>4. CASE buffer # <<>>
    BY <1>5, <2>2, <2>4 DEF CleanEof
  <2> QED BY <2>3, <2>4
<1> QED BY <1>4, <1>5

\* What is told of a close does not change.
LEMMA EofStays ==
    ASSUME IInv, EofToldTruly, [Next]_vars, ~EofReceived
    PROVE  EofToldTruly'
<1>1. UNCHANGED <<eof, stream>> /\ (eof # "none" => UNCHANGED fed)
  <2>1. ASSUME NEW n \in Cuts, DataReceived(n)
        PROVE  UNCHANGED <<eof, stream>> /\ (eof # "none" => UNCHANGED fed)
    BY <2>1 DEF DataReceived, Reading, FeedHTTP, http
  <2>2. CASE BeginWebSocket
    BY <2>2 DEF BeginWebSocket
  <2>3. CASE ParseHTTP /\ UNCHANGED <<websocket, stream, fed, switched>>
    BY <2>3
    DEF ParseHTTP, RejectLine, Fail, ConsumeStartLine, ConsumeHeaderLine, FinishHeaders,
        ConsumeBody, NoBody, CompleteRequest, TakeBody, ConsumeChunkSize, ConsumeChunkData,
        TakeChunk, ConsumeChunkEnd, ConsumeTrailers
  <2>4. CASE ParseFrames /\ UNCHANGED <<http, stream, fed, switched>>
    BY <2>4 DEF http
  <2>5. CASE UNCHANGED vars
    BY <2>5 DEF vars, http
  <2> QED BY <2>1, <2>2, <2>3, <2>4, <2>5 DEF Next, Parse
<1> QED BY <1>1 DEF EofToldTruly

-----------------------------------------------------------------------------
LEMMA BeginsThere == Init => There
<1> SUFFICES ASSUME Init PROVE There
  OBVIOUS
<1>0. IInv
  BY Initially
<1>1. /\ ~switched /\ fed = 0 /\ buffer = <<>> /\ eof = "none" /\ Fresh /\ WSInit
      /\ stream.units \in Seq(Unit) /\ Len(stream.units) \in Nat
  BY StreamsAssumption, LenProperties DEF Init, HTTPInit, Fresh
<1>2. At(stream, 0) = Between(0) /\ stream.requests \in Seq(Request) /\ 0 \in 0..Len(stream.units)
  BY <1>0, <1>1, Agreed DEF WellWritten
<1>3. Position(0)
  <2>1. Unread = Rest(stream, 0) /\ Unread \in Seq(Unit)
    BY <1>0, <1>1, AheadFacts DEF Unread, Rest
  <2>2. HTTPAhead = <<>> \o Unread
    BY <1>1 DEF HTTPAhead
  <2>3. <<>> \o Unread = Unread
    BY <2>1, ConcatEmptySeq
  <2> QED BY <1>2, <2>1, <2>2, <2>3 DEF Position
<1>4. AtDraft(At(stream, 0))
  <2> DEFINE d == At(stream, 0)
  <2>1. /\ d.part = "start_line" /\ d.nth = 0 /\ d.line = <<>> /\ d.headers = <<>> /\ d.left = 0
    BY <1>2 DEF Between
  <2>2. SubSeq(stream.requests, 1, 0) = <<>>
    BY SubSeqEmpty
  <2> HIDE DEF d
  <2>3. delivered = ToldBy(stream, d)
    BY <1>1, <2>1, <2>2 DEF ToldBy, HeadSent, Fresh
  <2>4. AtDraft(d)
    BY <1>1, <2>1, <2>3 DEF AtDraft, Counted, Fresh, Parts
  <2> QED BY <2>4 DEF d
<1> QED BY <1>1, <1>2, <1>3, <1>4 DEF There, HTTPThere, HTTPAt, NoFrames, WSInit, EofToldTruly

\* What arrives is arrived, and the stream stays what it is.
LEMMA Onwards ==
    ASSUME IInv, [Next]_vars
    PROVE  UNCHANGED stream /\ fed' \in fed..Len(stream.units)
<1>1. IInv'
  BY Inductive
<1>2. UNCHANGED stream
  BY DEF Next, DataReceived, BeginWebSocket, EofReceived, Parse, vars
<1>3. fed' \in 0..Len(stream.units) /\ fed \in 0..Len(stream.units) /\ Len(stream.units) \in Nat
  BY <1>1, <1>2, StreamsAssumption, LenProperties DEF IInv
<1>4. fed' >= fed
  <2>1. ASSUME NEW n \in Cuts, DataReceived(n) PROVE fed' >= fed
    BY <1>3, <2>1, CutsAssumption DEF DataReceived
  <2> QED BY <1>3, <2>1 DEF Next, BeginWebSocket, EofReceived, Parse, vars
<1> QED BY <1>2, <1>3, <1>4

LEMMA StaysHTTP ==
    ASSUME HTTPThere, UNCHANGED stream, UNCHANGED Whole!http
    PROVE  HTTPThere'
<1>1. UNCHANGED <<HTTPAhead, state, line, headers, left, total, delivered, httpError>>
  BY DEF Whole!http, Whole!request
<1>2. CASE GaveUp
  BY <1>1, <1>2 DEF HTTPThere, GaveUp
<1>3. ASSUME NEW p \in 0..Len(stream.units), HTTPAt(p) PROVE HTTPThere'
  <2>1. Position(p)' /\ p \in 0..Len(stream'.units)
    BY <1>1, <1>3 DEF HTTPAt, Position, Rest
  <2>2. AtDraft(At(stream, p)) => AtDraft(At(stream, p))'
    BY <1>1 DEF AtDraft, At, ToldBy, HeadSent, Begun, Counted
  <2>3. AtNoBody(At(stream, p)) => AtNoBody(At(stream, p))'
    BY <1>1 DEF AtNoBody, At
  <2>4. AtUpgrade(p) => AtUpgrade(p)'
    BY <1>1 DEF AtUpgrade, Upgrades, Behind, At
  <2> QED BY <1>3, <2>1, <2>2, <2>3, <2>4 DEF HTTPThere, HTTPAt
<1> QED BY <1>2, <1>3 DEF HTTPThere

\* What is behind the head of the upgrade is where the frames begin.
LEMMA FramesBegin ==
    ASSUME IInv, ~switched, HTTPThere, NoFrames, Whole!Switch, UNCHANGED stream
    PROVE  Upgrades' /\ FramesThere' /\ Behind(fed)
<1>1. /\ state = "upgraded" /\ switched' = TRUE /\ FramesAhead' = HTTPAhead
      /\ UNCHANGED <<state, delivered, httpError, fragments, fragmentOpcode, wsClosed,
                     messages, wsError>>
  BY DEF Whole!Switch, Whole!request
<1>2. PICK p \in 0..Len(stream.units) : HTTPAt(p)
  BY <1>1 DEF HTTPThere, GaveUp
<1>3. Position(p) /\ AtUpgrade(p)
  <2>1. ~AtDraft(At(stream, p))
    BY <1>1 DEF AtDraft, Parts
  <2>2. ~AtNoBody(At(stream, p))
    BY <1>1 DEF AtNoBody
  <2> QED BY <1>2, <2>1, <2>2 DEF HTTPAt
<1>4. Behind(fed)
  <2>1. Len(buffer) \in Nat /\ fed = p + Len(buffer) /\ p \in Nat /\ Len(stream.units) \in Nat
    BY <1>3, Arrived
  <2>2. \A k \in fed..Len(stream.units) : k \in p..Len(stream.units)
    BY <2>1
  <2> QED BY <1>3, <2>2 DEF AtUpgrade, Behind
<1>5. Upgrades'
  BY <1>1, <1>3 DEF AtUpgrade, Upgrades
<1>6. FramesAt(p)'
  <2>1. FramesAhead' = Rest(stream, p)'
    BY <1>1, <1>3 DEF Position, Rest
  <2>2. SubSeq(stream.messages, 1, 0) = <<>>
    BY SubSeqEmpty
  <2>3. AtFrame(At(stream, p))'
    BY <1>1, <1>3, <2>2 DEF AtUpgrade, AtFrame, NoFrames, At
  <2> QED BY <1>2, <2>1, <2>3 DEF FramesAt
<1> QED BY <1>4, <1>5, <1>6 DEF FramesThere

LEMMA StaysFrames ==
    ASSUME FramesThere, UNCHANGED stream,
           UNCHANGED <<fragments, fragmentOpcode, wsClosed, messages, wsError>>,
           wsClosed \/ UNCHANGED FramesAhead
    PROVE  FramesThere'
<1>1. CASE FramesOver
  BY <1>1 DEF FramesThere, FramesOver, Decoding
<1>2. ASSUME NEW p \in 0..Len(stream.units), FramesAt(p) PROVE FramesThere'
  <2>1. AtFrame(At(stream, p))' /\ UNCHANGED FramesAhead
    BY <1>2 DEF FramesAt, AtFrame, At
  <2> QED BY <1>2, <2>1 DEF FramesThere, FramesAt, Rest
<1> QED BY <1>1, <1>2 DEF FramesThere

LEMMA StaysThere == IInv /\ Untold /\ There /\ [Next]_vars => There'
<1> SUFFICES ASSUME IInv, Untold, There, [Next]_vars PROVE There'
  OBVIOUS
<1>1. UNCHANGED stream /\ fed' \in fed..Len(stream.units) /\ switched \in BOOLEAN
      /\ fed \in 0..Len(stream.units)
  BY Onwards DEF IInv
<1>2. EofToldTruly'
  BY EofTells, EofStays DEF There
<1>3. Behind(fed) => Behind(fed)'
  <2>1. Len(stream.units) \in Nat
    BY StreamsAssumption, LenProperties DEF IInv
  <2>2. \A k \in fed'..Len(stream.units) : k \in fed..Len(stream.units)
    BY <1>1, <2>1
  <2> QED BY <1>1, <2>2 DEF Behind, At
<1>4. [Whole!Next]_(Whole!wvars)
  BY WholeStep
<1>5. switched => state = "upgraded"
  BY DEF IInv
<1>6. CASE Whole!ReadHTTP
  <2>1. state # "upgraded" /\ UNCHANGED switched /\ UNCHANGED Whole!websocket
    BY <1>6
    DEF Whole!ReadHTTP, Whole!RejectLine, Whole!RejectAtLimit, Whole!ReadsLine,
        Whole!ConsumeStartLine, Whole!ConsumeHeaderLine, Whole!FinishHeaders, Whole!NoBody,
        Whole!BodyPiece, Whole!ConsumeChunkSize, Whole!ChunkPiece, Whole!ConsumeChunkEnd,
        Whole!ConsumeTrailers
  <2>2. HTTPThere' /\ NoFrames'
    BY <1>1, <1>5, <1>6, <2>1, HTTPProgress DEF There, NoFrames, Whole!websocket
  <2> QED BY <1>2, <1>5, <2>1, <2>2 DEF There
<1>7. CASE Whole!Switch
  <2>1. ~switched /\ switched' = TRUE
    BY <1>7 DEF Whole!Switch
  <2>2. Upgrades' /\ FramesThere' /\ Behind(fed)
    BY <1>1, <1>7, <2>1, FramesBegin DEF There
  <2> QED BY <1>2, <1>3, <2>1, <2>2 DEF There
<1>8. ASSUME switched, FramesThere', UNCHANGED <<Whole!http, switched>> PROVE There'
  <2>1. Upgrades'
    BY <1>1, <1>8 DEF There, Upgrades, Whole!http
  <2> QED BY <1>2, <1>3, <1>8, <2>1 DEF There
<1>9. CASE Whole!ReadFrames
  <2>1. switched
    <3> SUFFICES ASSUME ~switched PROVE FALSE
      OBVIOUS
    <3>1. Len(FramesAhead) = 0
      BY EmptySeq DEF Untold, FramesAhead
    <3>2. Whole!FrameError = 0 /\ ~Whole!HasFrame
      BY <3>1 DEF Whole!FrameError, Whole!HasFrame
    <3> QED BY <1>9, <3>2
            DEF Whole!ReadFrames, Whole!ParseFrames, Whole!RejectFrame, Whole!HandlePing,
                Whole!HandleClose, Whole!HandleData
  <2>2. FramesThere'
    BY <1>1, <1>9, <2>1, FrameProgress DEF There
  <2> QED BY <1>8, <1>9, <2>1, <2>2 DEF Whole!ReadFrames
<1>10. CASE Whole!Forget
  <2>1. switched
    BY <1>1, <1>10 DEF Whole!Forget, Untold
  <2>2. FramesThere'
    BY <1>1, <1>10, <2>1, StaysFrames DEF There, Whole!Forget
  <2> QED BY <1>8, <1>10, <2>1, <2>2 DEF Whole!Forget
<1>11. CASE UNCHANGED Whole!wvars
  <2>1. UNCHANGED <<Whole!http, Whole!websocket, switched>>
    BY <1>11 DEF Whole!wvars
  <2>2. CASE switched
    <3>1. FramesThere'
      BY <1>1, <2>1, <2>2, StaysFrames DEF There, Whole!websocket
    <3> QED BY <1>8, <2>1, <2>2, <3>1
  <2>3. CASE ~switched
    <3>1. HTTPThere'
      BY <1>1, <2>1, <2>3, StaysHTTP DEF There
    <3>2. NoFrames'
      BY <2>1, <2>3 DEF There, NoFrames, Whole!websocket
    <3> QED BY <1>2, <2>1, <2>3, <3>1, <3>2 DEF There
  <2> QED BY <2>2, <2>3
<1> QED BY <1>4, <1>6, <1>7, <1>9, <1>10, <1>11 DEF Whole!Next

-----------------------------------------------------------------------------
LEMMA StartsItself ==
    ASSUME NEW S, NEW s \in Seq(S)
    PROVE  /\ IsPrefix(s, s)
           /\ \A n \in 0..Len(s) : IsPrefix(SubSeq(s, 1, n), s)
<1>1. IsPrefix(s, s)
  BY LenProperties DEF IsPrefix
<1>2. ASSUME NEW n \in 0..Len(s) PROVE IsPrefix(SubSeq(s, 1, n), s)
  <2>1. SubSeq(s, 1, n) \in Seq(S) /\ Len(SubSeq(s, 1, n)) = n
    BY FirstOnes
  <2>2. SubSeq(SubSeq(s, 1, n), 1, n) = SubSeq(s, 1, n)
    BY <2>1, SubSeqFull
  <2> QED BY <2>1, <2>2, LenProperties DEF IsPrefix
<1> QED BY <1>1, <1>2

\* What is told of the messages, in either half.
LEMMA MessagesSent ==
    ASSUME IInv, There
    PROVE  IsPrefix(messages, stream.messages)
<1>1. stream.messages \in Seq(Message) /\ 0 \in 0..Len(stream.messages)
  <2>1. stream.messages \in Seq(Message)
    BY WritingAssumption DEF IInv, WellWritten, Message
  <2> QED BY <2>1, LenProperties
<1>2. CASE messages = <<>>
  <2>1. SubSeq(stream.messages, 1, 0) = <<>>
    BY SubSeqEmpty
  <2> QED BY <1>1, <1>2, <2>1, StartsItself
<1>3. CASE messages = stream.messages
  BY <1>1, <1>3, StartsItself
<1>4. ASSUME NEW p \in 0..Len(stream.units), FramesAt(p)
      PROVE  IsPrefix(messages, stream.messages)
  <2>1. WritesFrames(stream, p) /\ At(stream, p).part = "frame"
        /\ messages = SubSeq(stream.messages, 1, At(stream, p).nth)
    BY <1>4, Agreed DEF FramesAt, AtFrame
  <2>2. At(stream, p).nth \in 0..Len(stream.messages)
    BY <1>1, <2>1, LenProperties DEF WritesFrames, FrameDraft
  <2> QED BY <1>1, <2>1, <2>2, StartsItself
<1> QED BY <1>2, <1>3, <1>4 DEF There, NoFrames, FramesThere, FramesOver, IInv

\* Requests that are told in full but for the last, of which a part is told.
LEMMA RequestsSent ==
    ASSUME stream.requests \in Seq(Request), IsPrefix(messages, stream.messages),
           NEW n \in 0..Len(stream.requests), NEW last,
           \/ delivered = SubSeq(stream.requests, 1, n)
           \/ /\ n < Len(stream.requests) /\ PartOf(last, stream.requests[n + 1])
              /\ delivered = Append(SubSeq(stream.requests, 1, n), last)
    PROVE  DeliveredIsSent
<1> DEFINE front == SubSeq(stream.requests, 1, n)
<1>1. Len(stream.requests) \in Nat /\ n \in Nat
  BY LenProperties
<1>2. /\ front \in Seq(Request) /\ Len(front) = n
      /\ \A i \in 1..n : front[i] = stream.requests[i]
  BY FirstOnes
<1>3. \A i \in 1..n : PartOf(stream.requests[i], stream.requests[i])
  <2>1. \A i \in 1..n : stream.requests[i] \in Request
    BY <1>1, ElementOfSeq
  <2> QED BY <2>1, StartsItself DEF PartOf, Request
<1> HIDE DEF front
<1>4. CASE delivered = front
  <2>1. DOMAIN delivered = 1..n /\ Len(delivered) = n
    BY <1>2, <1>4, LenProperties
  <2> QED BY <1>1, <1>2, <1>3, <1>4, <2>1 DEF DeliveredIsSent
<1>5. CASE /\ n < Len(stream.requests) /\ PartOf(last, stream.requests[n + 1])
           /\ delivered = Append(front, last)
  <2>1. /\ DOMAIN delivered = 1..(n + 1) /\ Len(delivered) = n + 1
        /\ \A i \in 1..n : delivered[i] = stream.requests[i]
        /\ delivered[n + 1] = last
    BY <1>1, <1>2, <1>5
  <2>2. ASSUME NEW i \in DOMAIN delivered
        PROVE  /\ PartOf(delivered[i], stream.requests[i])
               /\ i < Len(delivered) => delivered[i] = stream.requests[i]
    <3>1. i \in 1..n \/ i = n + 1
      BY <1>1, <2>1
    <3> QED BY <1>1, <1>3, <1>5, <2>1, <3>1
  <2> QED BY <1>1, <1>5, <2>1, <2>2 DEF DeliveredIsSent
<1> QED BY <1>4, <1>5 DEF front

LEMMA SentThere ==
    ASSUME IInv, There
    PROVE  DeliveredIsSent
<1>1. IsPrefix(messages, stream.messages)
  BY MessagesSent
<1>2. stream.requests \in Seq(Request) /\ Len(stream.requests) \in Nat
      /\ Len(stream.requests) \in 0..Len(stream.requests)
  BY WritingAssumption, LenProperties DEF IInv, WellWritten
<1>3. CASE delivered = stream.requests
  <2>1. SubSeq(stream.requests, 1, Len(stream.requests)) = stream.requests
    BY <1>2, SubSeqFull
  <2> QED BY <1>1, <1>2, <1>3, <2>1, RequestsSent
<1>4. ASSUME NEW p \in 0..Len(stream.units), HTTPAt(p) PROVE DeliveredIsSent
  <2>1. PICK d : d = At(stream, p)
    OBVIOUS
  <2>2. CASE AtDraft(d)
    <3>1. WritesRequests(stream, p) /\ d.part \in Parts /\ delivered = ToldBy(stream, d)
      BY <2>2, Agreed DEF AtDraft
    <3>2. /\ d.nth \in 0..Len(stream.requests)
          /\ HeadSent(d) => /\ d.nth < Len(stream.requests)
                            /\ PartOf(Begun(d), stream.requests[d.nth + 1])
      BY <1>2, <2>1, <3>1 DEF WritesRequests, Draft
    <3>3. \/ delivered = SubSeq(stream.requests, 1, d.nth)
          \/ HeadSent(d) /\ delivered = Append(SubSeq(stream.requests, 1, d.nth), Begun(d))
      BY <3>1 DEF ToldBy
    <3> QED BY <1>1, <1>2, <3>2, <3>3, RequestsSent
  <2>3. CASE AtNoBody(d)
    <3>1. PICK r : r = stream.requests[d.nth]
      OBVIOUS
    <3>2. /\ d.nth \in 1..Len(stream.requests) /\ r \in Request
          /\ delivered = Append(SubSeq(stream.requests, 1, d.nth - 1), [r EXCEPT !.done = FALSE])
      BY <1>2, <2>3, <3>1, ElementOfSeq DEF AtNoBody
    <3>3. d.nth - 1 \in 0..Len(stream.requests) /\ d.nth - 1 < Len(stream.requests)
          /\ (d.nth - 1) + 1 = d.nth
      BY <1>2, <3>2
    <3>4. PartOf([r EXCEPT !.done = FALSE], r)
      BY <3>2, StartsItself DEF PartOf, Request
    <3> QED BY <1>1, <1>2, <3>1, <3>2, <3>3, <3>4, RequestsSent
  <2>4. CASE AtUpgrade(p)
    BY <1>3, <2>4 DEF AtUpgrade, Upgrades
  <2> QED BY <1>4, <2>1, <2>2, <2>3, <2>4 DEF HTTPAt
<1> QED BY <1>3, <1>4 DEF There, HTTPThere, GaveUp, Upgrades, IInv

LEMMA AllThere ==
    ASSUME IInv, There
    PROVE  AllIsDelivered
<1> SUFFICES ASSUME Over, eof = "none"
             PROVE  /\ delivered = stream.requests /\ httpError = stream.fault
                    /\ messages = stream.messages /\ wsError = stream.code
  BY DEF AllIsDelivered
<1>1. /\ HTTPBlocked /\ FramesBlocked
      /\ \/ state = "failed" \/ wsError # 0
         \/ fed = Len(stream.units) /\ (state = "upgraded" => switched)
      /\ switched => state = "upgraded"
  BY DEF Over, IInv
<1>2. CASE ~switched
  <2>1. HTTPThere /\ messages = <<>> /\ wsError = 0
    BY <1>2 DEF There, NoFrames
  <2>2. CASE state = "failed"
    <3>1. GaveUp
      BY <2>1, <2>2
      DEF HTTPThere, HTTPAt, AtDraft, Parts, AtNoBody, AtUpgrade, Upgrades
    <3> QED BY <2>1, <3>1 DEF GaveUp
  <2>3. CASE state # "failed"
    <3>1. fed = Len(stream.units) /\ state # "upgraded"
      BY <1>1, <1>2, <2>1, <2>3
    <3>2. PICK p \in 0..Len(stream.units) : AtDraft(At(stream, p)) /\ Stops(stream, p, "none")
      BY <1>1, <1>2, <2>1, <2>3, <3>1, Waiting
    <3> QED BY <2>1, <3>2 DEF Stops, AtDraft
  <2> QED BY <2>2, <2>3
<1>3. CASE switched
  <2>1. Upgrades /\ FramesThere
    BY <1>3 DEF There
  <2>2. delivered = stream.requests /\ httpError = stream.fault
    BY <2>1 DEF Upgrades
  <2>3. CASE FramesOver
    BY <2>2, <2>3 DEF FramesOver
  <2>4. ASSUME NEW p \in 0..Len(stream.units), FramesAt(p)
        PROVE  messages = stream.messages /\ wsError = stream.code
    <3>1. PICK d : d = At(stream, p)
      OBVIOUS
    <3>2. /\ FramesAhead = Rest(stream, p) /\ d.part = "frame" /\ fragments = d.pieces
          /\ messages = SubSeq(stream.messages, 1, d.nth) /\ wsError = 0 /\ wsClosed = FALSE
      BY <2>4, <3>1 DEF FramesAt, AtFrame
    <3>3. fed = Len(stream.units) /\ FrameError = 0 /\ ~HasFrame
      BY <1>1, <2>1, <3>2 DEF Upgrades, FramesBlocked, Decoding
    <3>4. FramesAhead = frames
      <4>1. stream.units \in Seq(Unit) /\ Len(Unread) = 0
        BY <3>3, StreamsAssumption, LenProperties, RestFacts DEF IInv, Unread
      <4>2. Unread = <<>>
        BY <4>1, AheadFacts, EmptySeq
      <4> QED BY <1>3, <4>2, AheadFacts, ConcatEmptySeq
    <3>5. Whole!FrameError = 0 /\ ~Whole!HasFrame
      <4>1. /\ Whole!Opcode = Opcode /\ (Whole!Masked <=> Masked) /\ Whole!Length = Length
            /\ (Whole!HasLength <=> HasLength) /\ Whole!Fin = Fin /\ (Whole!TooBig <=> TooBig)
            /\ Whole!Offset = Offset
        BY <3>4
        DEF Whole!Opcode, Opcode, Whole!Masked, Masked, Whole!LongForm, LongForm, Whole!Length,
            Length, Whole!HasLength, HasLength, Whole!Fin, Fin, Whole!TooBig, TooBig,
            Whole!Offset, Offset
      <4>2. Whole!FrameError = FrameError
        BY <3>4, <4>1, SameFrames DEF Whole!FrameError, FrameError
      <4> QED BY <3>3, <3>4, <4>1, <4>2 DEF Whole!HasFrame, HasFrame
    <3>6. /\ stream.messages \in Seq(Message) /\ WritesFrames(stream, p)
      BY Agreed DEF WellWritten, Message
    <3>7. /\ d \in FrameDraft /\ d.nth \in Nat
          /\ \/ p = Len(stream.units) /\ Closes(stream, d.nth, 0)
             \/ \E code \in {1002, 1009} : RefusedHead(stream, p, Len(d.pieces), code)
             \/ /\ p + Len(Wire(d)) <= Len(stream.units)
                /\ Data(stream, p, Len(Wire(d))) = Wire(d)
                /\ IF d.opcode \in ControlOpcodes THEN ControlFrame(stream, d, p + Len(Wire(d)))
                   ELSE DataFrame(stream, d, p + Len(Wire(d)))
      BY <3>1, <3>2, <3>6 DEF WritesFrames, FrameDraft
    <3>8. ~\E code \in {1002, 1009} : RefusedHead(stream, p, Len(d.pieces), code)
      BY <3>2, <3>5, HeadRefused
    <3>9. ASSUME p + Len(Wire(d)) <= Len(stream.units),
                 Data(stream, p, Len(Wire(d))) = Wire(d),
                 IF d.opcode \in ControlOpcodes THEN ControlFrame(stream, d, p + Len(Wire(d)))
                 ELSE DataFrame(stream, d, p + Len(Wire(d)))
          PROVE  FALSE
      <4>1. IF d.opcode \in ControlOpcodes THEN d.fin /\ Len(d.payload) <= MaxControlPayload
            ELSE Len(d.pieces \o d.payload) <= MaxMessageSize
        BY <3>9 DEF ControlFrame, DataFrame
      <4> QED BY <3>2, <3>5, <3>7, <3>9, <4>1, FrameFound
    <3>10. Closes(stream, d.nth, 0)
      BY <3>7, <3>8, <3>9
    <3> QED BY <3>2, <3>6, <3>7, <3>10, MessagesEnd
  <2> QED BY <2>1, <2>2, <2>3, <2>4 DEF FramesThere
<1> QED BY <1>2, <1>3 DEF IInv

-----------------------------------------------------------------------------
LEMMA AlwaysThere == Spec => [](IInv /\ There)
<1>1. IInv /\ Untold /\ There /\ [Next]_vars => There'
  BY StaysThere
<1> QED BY <1>1, Initially, Inductive, UntoldHolds, BeginsThere, PTL DEF Spec

\* Whatever the client sends, and however it is cut, the requests and messages
\* that HTTP11Parser and FrameParser tell are the first of those that were
\* sent: in order, complete but for a last one that is still arriving, and none
\* made of the bytes of a body or of those behind an upgrade.
THEOREM SentIsTold == Spec => []DeliveredIsSent
<1>1. IInv /\ There => DeliveredIsSent
  BY SentThere
<1> QED BY <1>1, AlwaysThere, PTL

\* When a stream has been read to its end, all that it holds has been told, and
\* it ended with the fault that is in it, in neither parser earlier or later.
THEOREM EverythingIsTold == Spec => []AllIsDelivered
<1>1. IInv /\ There => AllIsDelivered
  BY AllThere
<1> QED BY <1>1, AlwaysThere, PTL

\* HTTP11Parser.feed_eof tells a close between two requests, or behind an
\* upgrade, from a close that cuts a request short.
THEOREM EofIsTold == Spec => []EofToldTruly
<1>1. There => EofToldTruly
  BY DEF There
<1> QED BY <1>1, AlwaysThere, PTL

=============================================================================
