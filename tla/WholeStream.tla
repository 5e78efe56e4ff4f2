------------------------------ MODULE WholeStream ------------------------------
(***************************************************************************)
(* HTTP11Parser and FrameParser as a client thinks of them: the whole      *)
(* stream is there from the start, and TCP cuts nothing.  What it tells is *)
(* a matter of the stream alone, but for the pieces in which a body is     *)
(* told.  InboundBytes, with its segments, implements it.                  *)
(*                                                                         *)
(* The buffers hold everything that was not yet parsed, received or not.   *)
(***************************************************************************)
EXTENDS HTTP11Parser, FrameParser

CONSTANT Streams

VARIABLE switched

wvars == <<http, websocket, switched>>

Init ==
    /\ \E s \in Streams : buffer = s.units
    /\ Fresh /\ WSInit /\ switched = FALSE

\* The one thing segments do decide: a line of exactly the largest size is
\* refused if its CR arrives before its LF.
RejectAtLimit ==
    /\ ReadsLine /\ LineEnd = MaxHeaderSize + 1
    /\ Fail("too_large") /\ UNCHANGED buffer

\* Bodies are told in pieces of any size.
BodyPiece  == state = "body" /\ \E n \in 1..Taken : TakeBody(n)
ChunkPiece == state = "data" /\ \E n \in 1..Taken : TakeChunk(n)

ReadHTTP ==
    /\ \/ RejectLine \/ RejectAtLimit
       \/ ConsumeStartLine \/ ConsumeHeaderLine \/ FinishHeaders
       \/ NoBody \/ BodyPiece
       \/ ConsumeChunkSize \/ ChunkPiece \/ ConsumeChunkEnd \/ ConsumeTrailers
    /\ UNCHANGED <<websocket, switched>>

\* Everything behind the head of the upgrade is of the new protocol.
Switch ==
    /\ state = "upgraded" /\ ~switched /\ switched' = TRUE
    /\ frames' = buffer /\ buffer' = <<>>
    /\ UNCHANGED <<state, request, delivered, httpError, eof>>
    /\ UNCHANGED <<fragments, fragmentOpcode, wsClosed, messages, wsError>>

ReadFrames == ParseFrames /\ UNCHANGED <<http, switched>>

\* What follows a close frame is nobody's.
Forget ==
    /\ wsClosed
    /\ UNCHANGED <<http, switched>>
    /\ UNCHANGED <<fragments, fragmentOpcode, wsClosed, messages, wsError>>

Next == ReadHTTP \/ Switch \/ ReadFrames \/ Forget

Spec == Init /\ [][Next]_wvars

=============================================================================
