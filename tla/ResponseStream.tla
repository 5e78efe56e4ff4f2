--------------------------- MODULE ResponseStream ---------------------------
(***************************************************************************)
(* What a client that pipelines requests on one connection is promised:    *)
(* one response after the other, in the order of the requests, each begun  *)
(* only when the one before it is complete, none after a response that     *)
(* announced Connection: close, and at most one refusal, at the very end.  *)
(* HTTPProtocol implements it with its tasks, turnstile and callbacks.     *)
(***************************************************************************)
EXTENDS Naturals, Sequences, TLAPS

VARIABLES
    stream,    \* what was sent, in order
    complete,  \* the newest response on the stream is complete
    open       \* more may be sent

svars == <<stream, complete, open>>

\* The request that the newest response answers.
Current == IF stream = <<>> THEN 0 ELSE stream[Len(stream)].slot

\* A response on the stream has announced Connection: close.
Announced == \E i \in DOMAIN stream : stream[i].close

Put(slot, part, close) ==
    stream' = Append(stream, [slot |-> slot, part |-> part, close |-> close])

Init == stream = <<>> /\ complete = TRUE /\ open = TRUE

\* The head of the next response, with its Connection header.
Respond(close) ==
    /\ open /\ complete /\ ~Announced
    /\ Put(Current + 1, "head", close)
    /\ complete' = FALSE
    /\ UNCHANGED open

\* A body that ends the response may close the stream if that was announced.
CloseIfAnnounced(last) ==
    UNCHANGED open \/ (last /\ Announced /\ open' = FALSE)

Continue(last) ==
    /\ open /\ ~complete
    /\ Put(Current, "body", FALSE)
    /\ complete' = last
    /\ CloseIfAnnounced(last)

\* The end of a response without another byte, or on a closed stream.
End ==
    /\ ~complete
    /\ complete' = TRUE
    /\ CloseIfAnnounced(TRUE)
    /\ UNCHANGED stream

\* The error response to input that is no request, after every response due.
Refuse ==
    /\ open /\ complete /\ ~Announced
    /\ Put(Current + 1, "error", TRUE)
    /\ complete' = FALSE /\ open' = FALSE

\* The 408 of a client that never sent a request.
TimeOut ==
    /\ open /\ stream = <<>>
    /\ Put(0, "timeout", TRUE)
    /\ open' = FALSE
    /\ UNCHANGED complete

Close == open /\ open' = FALSE /\ UNCHANGED <<stream, complete>>

Next ==
    \/ \E close \in BOOLEAN : Respond(close)
    \/ \E last \in BOOLEAN : Continue(last)
    \/ End
    \/ Refuse
    \/ TimeOut
    \/ Close

Spec == Init /\ [][Next]_svars

-----------------------------------------------------------------------------
Entry == [slot : Nat, part : {"head", "body", "error", "timeout"},
          close : BOOLEAN]

StreamType == stream \in Seq(Entry) /\ complete \in BOOLEAN /\ open \in BOOLEAN

\* Behind an entry that announced the close comes only its own body.
NothingAfterClose ==
    \A i \in DOMAIN stream : stream[i].close =>
        \A j \in (i + 1)..Len(stream) :
            stream[j].slot = stream[i].slot /\ stream[j].part = "body"

\* The close was announced by the newest response.
NewestAnnounced == \A i \in DOMAIN stream : stream[i].close => stream[i].slot = Current

StreamInv == StreamType /\ NothingAfterClose /\ NewestAnnounced

\* What an entry has to satisfy to come next.
LEMMA PutKeepsInv ==
    ASSUME StreamInv, NEW slot \in Nat, NEW close \in BOOLEAN,
           NEW part \in {"head", "body", "error", "timeout"},
           Put(slot, part, close),
           complete' \in BOOLEAN, open' \in BOOLEAN,
           Announced => slot = Current /\ part = "body"
    PROVE  StreamInv'
  <1> DEFINE e == [slot |-> slot, part |-> part, close |-> close]
             n == Len(stream)
  <1>1. e \in Entry
    BY DEF Entry
  <1>2. /\ stream' \in Seq(Entry) /\ n \in Nat /\ Len(stream') = n + 1
        /\ DOMAIN stream = 1..n /\ DOMAIN stream' = 1..(n + 1)
        /\ \A i \in 1..n : stream'[i] = stream[i]
        /\ stream'[n + 1] = e
    BY <1>1 DEF Put, StreamInv, StreamType
  <1>3. Current' = slot
    BY <1>2 DEF Current
  <1>4. ASSUME NEW i \in DOMAIN stream', stream'[i].close
        PROVE  /\ stream'[i].slot = Current'
               /\ \A j \in (i + 1)..Len(stream') :
                      stream'[j].slot = stream'[i].slot /\ stream'[j].part = "body"
    <2>1. CASE i = n + 1
      BY <1>2, <1>3, <2>1
    <2>2. CASE i \in 1..n
      <3>1. stream[i].close /\ slot = Current /\ part = "body" /\ stream[i].slot = slot
        BY <1>2, <1>4, <2>2 DEF Announced, StreamInv, NewestAnnounced
      <3> HIDE DEF n
      <3> QED BY <1>2, <1>3, <2>2, <3>1 DEF StreamInv, NothingAfterClose
    <2> QED BY <1>2, <2>1, <2>2
  <1> QED
    BY <1>2, <1>4 DEF StreamInv, StreamType, NothingAfterClose, NewestAnnounced

\* The stream ends with the response that announced its end.
THEOREM CloseEndsStream == Spec => []NothingAfterClose
  <1>1. Init => StreamInv
    BY DEF Init, StreamInv, StreamType, NothingAfterClose, NewestAnnounced
  <1>2. StreamInv /\ [Next]_svars => StreamInv'
    <2> SUFFICES ASSUME StreamInv, [Next]_svars PROVE StreamInv'
      OBVIOUS
    <2>1. Current \in Nat /\ Current + 1 \in Nat
      <3>1. CASE stream = <<>>
        BY <3>1 DEF Current
      <3>2. CASE stream # <<>>
        <4>1. stream[Len(stream)] \in Entry
          BY <3>2 DEF StreamInv, StreamType
        <4> QED BY <3>2, <4>1 DEF Current, Entry
      <3> QED BY <3>1, <3>2
    <2> USE DEF StreamInv, StreamType
    <2>2. ASSUME NEW close \in BOOLEAN, Respond(close) PROVE StreamInv'
      <3>1. /\ ~Announced /\ Put(Current + 1, "head", close)
            /\ complete' \in BOOLEAN /\ open' \in BOOLEAN
        BY <2>2 DEF Respond
      <3> QED BY <2>1, <3>1, PutKeepsInv
    <2>3. ASSUME NEW last \in BOOLEAN, Continue(last) PROVE StreamInv'
      BY <2>1, <2>3, PutKeepsInv DEF Continue, CloseIfAnnounced
    <2>4. CASE Refuse
      <3>1. /\ ~Announced /\ Put(Current + 1, "error", TRUE)
            /\ complete' \in BOOLEAN /\ open' \in BOOLEAN
        BY <2>4 DEF Refuse
      <3> QED BY <2>1, <3>1, PutKeepsInv
    <2>5. CASE TimeOut
      <3>1. ~Announced
        BY <2>5 DEF TimeOut, Announced
      <3> QED BY <2>1, <2>5, <3>1, PutKeepsInv DEF TimeOut
    <2>6. CASE End \/ Close \/ UNCHANGED svars
      <3>1. stream' = stream /\ complete' \in BOOLEAN /\ open' \in BOOLEAN
        BY <2>6 DEF End, Close, svars, CloseIfAnnounced
      <3> QED BY <3>1 DEF NothingAfterClose, NewestAnnounced, Current
    <2> QED BY <2>2, <2>3, <2>4, <2>5, <2>6 DEF Next
  <1>3. StreamInv => NothingAfterClose
    BY DEF StreamInv
  <1> QED BY <1>1, <1>2, <1>3, PTL DEF Spec

=============================================================================
