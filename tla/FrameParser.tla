------------------------------ MODULE FrameParser ------------------------------
(***************************************************************************)
(* The WebSocket codec of src/src/sonix/server/websockets.py: frames in,   *)
(* whole messages out, and the encoders of the other direction.            *)
(*                                                                         *)
(* A frame is laid out as on the wire, with a unit for each part of its    *)
(* head: <<"op", fin, opcode>>, <<"len", masked, length>>, the extended    *)
(* length <<"ext", length>> if the length does not fit the second byte, a  *)
(* unit <<"mask">> for the key, and a unit for every byte of the payload.  *)
(* A negative extended length has its sign bit set.                        *)
(*                                                                         *)
(* feed_data is FeedFrames and then one step for every iteration of its    *)
(* loop, until FramesBlocked.                                              *)
(***************************************************************************)
EXTENDS Integers, Sequences

CONSTANTS
    MaxMessageSize,    \* max_message_size
    MaxControlPayload  \* MAX_CONTROL_PAYLOAD, the longest length of a second byte

ASSUME MessageLimitsAssumption ==
    MaxMessageSize \in Nat /\ MaxControlPayload \in Nat /\ MaxControlPayload >= 2

VARIABLES
    frames,         \* _buffer
    fragments,      \* _fragments, joined: _fragment_size is its length
    fragmentOpcode, \* _fragment_opcode, "none" for None
    wsClosed,       \* _closed
    messages,       \* the events returned so far
    wsError         \* the close code of the exception raised, 0 for none

websocket == <<frames, fragments, fragmentOpcode, wsClosed, messages, wsError>>

WSInit ==
    /\ frames = <<>> /\ fragments = <<>> /\ fragmentOpcode = "none"
    /\ wsClosed = FALSE /\ messages = <<>> /\ wsError = 0

ControlOpcodes == {"close", "ping", "pong"}
Opcodes        == {"continuation", "text", "binary"} \cup ControlOpcodes

\* Masking exchanges bytes in pairs, as XOR with a key does.
MaskPairs == {<<"a", "b">>, <<"c3", "a9">>, <<"cr", "lf">>, <<"1000", "1005">>}

MaskUnit(u) ==
    LET Pair == CHOOSE p \in MaskPairs : u[1] \in {p[1], p[2]}
    IN <<IF u[1] = Pair[1] THEN Pair[2] ELSE Pair[1]>>

\* apply_mask
ApplyMask(payload) == [i \in DOMAIN payload |-> MaskUnit(payload[i])]

\* A sequence of bytes is UTF-8 if its one two-byte character is never cut.
IsUtf8(payload) ==
    /\ \A i \in DOMAIN payload : payload[i] = <<"c3">> =>
          i < Len(payload) /\ payload[i + 1] = <<"a9">>
    /\ \A i \in DOMAIN payload : payload[i] = <<"a9">> =>
          i > 1 /\ payload[i - 1] = <<"c3">>

-----------------------------------------------------------------------------
\* encode_frame, for the lengths it accepts.
EncodeFrame(fin, opcode, payload, masked) ==
    <<<<"op", fin, opcode>>>>
    \o (IF Len(payload) <= MaxControlPayload THEN <<<<"len", masked, Len(payload)>>>>
        ELSE <<<<"len", masked, MaxControlPayload + 1>>, <<"ext", Len(payload)>>>>)
    \o (IF masked THEN <<<<"mask">>>> \o ApplyMask(payload) ELSE payload)

\* _truncate_utf8: the longest cut of at most limit bytes that is UTF-8.
TruncateUtf8(data, limit) ==
    LET n == CHOOSE n \in 0..limit :
                /\ n <= Len(data) /\ IsUtf8(SubSeq(data, 1, n))
                /\ \A m \in (n + 1)..limit : m <= Len(data) => ~IsUtf8(SubSeq(data, 1, m))
    IN SubSeq(data, 1, n)

\* encode_close_frame: a code takes two bytes.
EncodeClose(code, reason, masked) ==
    EncodeFrame(TRUE, "close",
                <<<<code>>, <<"a">>>> \o TruncateUtf8(reason, MaxControlPayload - 2), masked)

-----------------------------------------------------------------------------
Fin == frames[1][2]

\* A letter, read as the first byte of a frame, has a reserved bit set.
Opcode == IF frames[1][1] = "op" THEN frames[1][3] ELSE "reserved"
Masked == frames[2][2] = TRUE

LongForm == frames[2][3] > MaxControlPayload

\* The declared length, once the part of the head that holds it is there.
HasLength == Len(frames) >= IF LongForm THEN 3 ELSE 2
Length    == IF LongForm THEN frames[3][2] ELSE frames[2][3]

\* Where the payload begins: the mask is a unit of its own.
Offset == IF LongForm THEN 4 ELSE 3

TooBig == Len(fragments) + Length > MaxMessageSize

\* Why _take_frame refuses the head of a frame, by the close code it answers;
\* 0 while there is nothing to object to.
FrameError ==
    CASE Len(frames) < 2 -> 0
      [] Len(frames) >= 2 /\ (Opcode \notin Opcodes \/ ~Masked) -> 1002
      [] Len(frames) >= 2 /\ Opcode \in Opcodes /\ Masked ->
            CASE ~HasLength -> 0
              [] HasLength /\ Length \notin Nat -> 1002
              [] HasLength /\ Length \in Nat /\ Opcode \in ControlOpcodes ->
                    IF Length > MaxControlPayload \/ ~Fin THEN 1002 ELSE 0
              [] OTHER -> IF TooBig THEN 1009 ELSE 0

HasFrame ==
    /\ Len(frames) >= 2 /\ FrameError = 0 /\ HasLength
    /\ Len(frames) >= Offset + Length

Payload == ApplyMask(SubSeq(frames, Offset + 1, Offset + Length))

Consume == frames' = SubSeq(frames, Offset + Length + 1, Len(frames))

Raise(code) ==
    wsError' = code /\ UNCHANGED <<fragments, fragmentOpcode, messages>>

Emit(kind, data) ==
    messages' = Append(messages, [kind |-> kind, data |-> data]) /\ UNCHANGED wsError

RejectFrame ==
    /\ FrameError # 0 /\ Raise(FrameError)
    /\ UNCHANGED <<frames, wsClosed>>

\* Control frames are answered between the fragments of a message.
HandlePing ==
    /\ HasFrame /\ Opcode \in {"ping", "pong"} /\ Consume
    /\ Emit(Opcode, Payload)
    /\ UNCHANGED <<fragments, fragmentOpcode, wsClosed>>

\* _decode_close: a code of two bytes, that may be sent, and a UTF-8 reason.
CloseError(payload) ==
    CASE Len(payload) = 0 -> 0
      [] Len(payload) = 1 \/ payload[1] # <<"1000">> -> 1002
      [] OTHER -> IF IsUtf8(SubSeq(payload, 3, Len(payload))) THEN 0 ELSE 1007

HandleClose ==
    /\ HasFrame /\ Opcode = "close" /\ Consume
    /\ wsClosed' = TRUE
    /\ \/ /\ CloseError(Payload) = 0 /\ Emit("close", Payload)
          /\ UNCHANGED <<fragments, fragmentOpcode>>
       \/ CloseError(Payload) # 0 /\ Raise(CloseError(Payload))

\* A continuation of nothing, or a message inside another.
OutOfTurn == (Opcode = "continuation") = (fragmentOpcode = "none")

MessageOpcode == IF fragmentOpcode = "none" THEN Opcode ELSE fragmentOpcode

\* Mutation: text is validated frame by frame.
BadPieceOfText == MessageOpcode = "text" /\ ~IsUtf8(Payload)

\* Text is validated when its message is complete.
BadText == Fin /\ MessageOpcode = "text" /\ ~IsUtf8(fragments \o Payload)

HandleData ==
    /\ HasFrame /\ Opcode \notin ControlOpcodes /\ Consume
    /\ \/ OutOfTurn /\ Raise(1002)
       \/ /\ ~OutOfTurn /\ BadText
          /\ wsError' = 1007 /\ fragments' = <<>> /\ fragmentOpcode' = "none"
          /\ UNCHANGED messages
       \/ /\ ~OutOfTurn /\ ~BadText /\ Fin
          /\ Emit(MessageOpcode, fragments \o Payload)
          /\ fragments' = <<>> /\ fragmentOpcode' = "none"
       \/ /\ ~OutOfTurn /\ ~BadText /\ ~Fin
          /\ fragments' = fragments \o Payload /\ fragmentOpcode' = MessageOpcode
          /\ UNCHANGED <<messages, wsError>>
    /\ UNCHANGED wsClosed

-----------------------------------------------------------------------------
Decoding == ~wsClosed /\ wsError = 0

\* An iteration of the loop of feed_data.
ParseFrames ==
    /\ Decoding
    /\ RejectFrame \/ HandlePing \/ HandleClose \/ HandleData

FramesBlocked == ~Decoding \/ (FrameError = 0 /\ ~HasFrame)

\* Bytes that follow a close frame are dropped.
FeedFrames(data) ==
    /\ FramesBlocked /\ wsError = 0
    /\ frames' = IF wsClosed THEN frames ELSE frames \o data
    /\ UNCHANGED <<fragments, fragmentOpcode, wsClosed, messages, wsError>>

-----------------------------------------------------------------------------
\* A fragmented message never outgrows the limit, frames between its
\* fragments included.
WSTypeOK ==
    /\ fragmentOpcode \in {"none", "text", "binary"}
    /\ fragmentOpcode = "none" => fragments = <<>>
    /\ Len(fragments) <= MaxMessageSize
    /\ wsClosed \in BOOLEAN
    /\ wsError \in {0, 1002, 1007, 1009}

=============================================================================
