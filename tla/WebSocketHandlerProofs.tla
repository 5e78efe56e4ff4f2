------------------------- MODULE WebSocketHandlerProofs -------------------------
(***************************************************************************)
(* What a websocket session of the application keeps to, for any number of *)
(* calls and messages.  Agree ties the two states of the WebSocket object  *)
(* to the bridge below it, Once counts what can happen once, and Verdict   *)
(* follows the exception of the handler to the close the peer is sent.     *)
(***************************************************************************)
EXTENDS WebSocketHandler, SequenceTheorems, TLAPS

\* The states of the application against the bridge and its queue.
Agree ==
    /\ StatesAgree
    /\ wire = "CLOSED" => known
    /\ \A i \in DOMAIN queue : queue[i] = "disconnect" => known

\* What happens once: the handler waits for one thing, is told once, and one
\* close is sent, which leaves the bridge closed.
Once ==
    /\ phase # "handler" => call \in {"none", "deny"}
    /\ phase \in {"leaving", "done"} => call = "none"
    /\ Receiving => client # "DISCONNECTED"
    /\ told = 0 \/ (told = 1 /\ client = "DISCONNECTED")
    /\ ClosedOnce
    /\ wire # "CLOSED" \/ call = "turn" => closes = <<>>
    /\ closed => wire = "CLOSED" /\ call # "turn"

Quiet == {"none", "disconnect", "cancelled"}

\* From the exception in flight to the code of the close.
Verdict ==
    /\ call \notin {"none", "deny"} => raised = "none"
    /\ raised = "late" /\ phase \in {"handler", "leaving"} => wire = "CLOSED"
    /\ phase = "leaving" => failed = raised
    /\ phase \in {"handler", "leaving"} /\ closes # <<>> => closed
    /\ closed /\ closes # <<>> => closes[1] \in {403, 1000}
    /\ phase = "returned" /\ failed \notin Quiet => wire = "CLOSED"
    /\ phase \in {"returned", "done"} /\ closes # <<>> /\ ~closed =>
          \/ closes[1] = 1000 /\ phase = "done" /\ failed \in Quiet
          \/ closes[1] \in {403, CloseFor(failed)} /\ failed \notin Quiet \cup {"late"}
    /\ NeverDangles

IInv == TypeOK /\ Agree /\ Once /\ Verdict

-----------------------------------------------------------------------------
Messages == {"connect", "text", "bytes", "disconnect"}
Codes    == {403, 1000, 1008, 1011, 4000}

\* What a queue is after a message was put at its end.
LEMMA Appended ==
    ASSUME NEW q \in Seq(Messages), NEW m \in Messages
    PROVE  /\ Append(q, m) \in Seq(Messages)
           /\ Append(q, m) # <<>>
           /\ q # <<>> => Head(Append(q, m)) = Head(q)
           /\ \A i \in DOMAIN Append(q, m) :
                 \/ Append(q, m)[i] = m
                 \/ i \in DOMAIN q /\ Append(q, m)[i] = q[i]
  <1>1. Append(q, m) \in Seq(Messages) /\ Len(Append(q, m)) = Len(q) + 1
        /\ (\A i \in 1..Len(q) : Append(q, m)[i] = q[i]) /\ Append(q, m)[Len(q) + 1] = m
    BY AppendProperties
  <1>2. Append(q, m) # <<>> /\ DOMAIN Append(q, m) = 1..(Len(q) + 1) /\ DOMAIN q = 1..Len(q)
    BY <1>1
  <1>3. \A i \in DOMAIN Append(q, m) : i = Len(q) + 1 \/ i \in DOMAIN q
    BY <1>2
  <1>4. q # <<>> => 1 \in 1..Len(q)
    OBVIOUS
  <1>5. q # <<>> => Head(Append(q, m)) = Head(q)
    BY <1>1, <1>2, <1>4
  <1> QED  BY <1>1, <1>2, <1>3, <1>5

\* What it is after its head was taken.
LEMMA Taken ==
    ASSUME NEW q \in Seq(Messages), q # <<>>
    PROVE  /\ Tail(q) \in Seq(Messages) /\ Head(q) \in Messages
           /\ Head(q) = q[1] /\ 1 \in DOMAIN q
           /\ \A i \in DOMAIN Tail(q) : i + 1 \in DOMAIN q /\ Tail(q)[i] = q[i + 1]
  OBVIOUS

\* The first close.
LEMMA FirstClose ==
    ASSUME NEW c \in Codes
    PROVE  /\ Append(<<>>, c) \in Seq(Codes) /\ Len(Append(<<>>, c)) = 1
           /\ Append(<<>>, c)[1] = c /\ Append(<<>>, c) # <<>>
  OBVIOUS

\* The disconnect message leaves the queue a queue, with its head.
LEMMA Enqueued ==
    ASSUME TypeOK, Agree, EnqueueDisconnect
    PROVE  /\ known' = TRUE /\ queue' \in Seq(Messages)
           /\ queue # <<>> => queue' # <<>> /\ Head(queue') = Head(queue)
           /\ client = "CONNECTING" => queue' # <<>> /\ Head(queue') = "connect"
  BY Appended DEF TypeOK, Agree, StatesAgree, EnqueueDisconnect, Messages

\* A close either does nothing, on a closed bridge, or is the first one, and
\* closes it.
LEMMA ClosesOnce ==
    ASSUME TypeOK, Agree, Once, NEW c \in Codes, SendClose(c)
    PROVE  /\ wire' = "CLOSED" /\ known' = TRUE /\ queue' \in Seq(Messages)
           /\ client = "CONNECTING" => queue' # <<>> /\ Head(queue') = "connect"
           /\ call' \in {"none", "deny", call}
           /\ \/ closes' = closes /\ wire = "CLOSED"
              \/ /\ closes = <<>> /\ closes' \in Seq(Codes) /\ Len(closes') = 1
                 /\ closes'[1] \in {403, c} /\ closes' # <<>> /\ wire # "CLOSED"
  <1>1. CASE wire = "CLOSED"
    BY <1>1 DEF SendClose, TypeOK, Agree, StatesAgree, Messages
  <1>2. CASE wire # "CLOSED"
    <2>1. /\ Finish /\ closes = <<>> /\ call' \in {"none", "deny", call}
          /\ \E d \in {403, c} : closes' = Append(closes, d)
      BY <1>2 DEF SendClose, TypeOK, Once
    <2>2. wire' = "CLOSED" /\ EnqueueDisconnect
      BY <2>1 DEF Finish
    <2>3. PICK d \in {403, c} : closes' = Append(<<>>, d)
      BY <2>1
    <2>4. d \in Codes
      BY DEF Codes
    <2>5. closes' \in Seq(Codes) /\ Len(closes') = 1 /\ closes'[1] = d /\ closes' # <<>>
      BY <2>3, <2>4, FirstClose
    <2> QED  BY <1>2, <2>1, <2>2, <2>5, Enqueued
  <1> QED  BY <1>1, <1>2

LEMMA CodesOfClose == \A e : CloseFor(e) \in Codes
  BY DEF CloseFor, Codes

-----------------------------------------------------------------------------
THEOREM Initially == Init => IInv
  <1> SUFFICES ASSUME Init PROVE IInv
    OBVIOUS
  <1>1. <<"connect">> \in Seq(Messages) /\ <<>> \in Seq(Codes) /\ Len(<<>>) = 0
    BY DEF Messages
  <1>2. TypeOK
    <2>1. queue \in Seq(Messages) /\ closes \in Seq(Codes)
      BY <1>1 DEF Init
    <2>2. messages \in 0..MaxMessages /\ calls \in 0..MaxCalls /\ told \in Nat
      BY BoundsAssumption DEF Init
    <2>3. client \in SocketStates /\ app \in SocketStates
          /\ raised \in Exceptions /\ failed \in Exceptions
      BY DEF Init, SocketStates, Exceptions
    <2>4. known \in BOOLEAN /\ lost \in BOOLEAN /\ closed \in BOOLEAN
      BY DEF Init
    <2>5. /\ wire \in {"CONNECTING", "CONNECTED", "CLOSED"}
          /\ call \in {"none", "turn", "receive", "text", "bytes", "drain", "deny"}
          /\ phase \in {"handler", "leaving", "returned", "done"}
      BY DEF Init
    <2> QED  BY <2>1, <2>2, <2>3, <2>4, <2>5 DEF TypeOK, Messages, Codes
  <1>3. Agree
    BY DEF Init, Agree, StatesAgree
  <1>4. Once
    BY DEF Init, Once, Receiving, Kinds, ClosedOnce
  <1>5. Verdict
    BY DEF Init, Verdict, Quiet, NeverDangles
  <1> QED  BY <1>2, <1>3, <1>4, <1>5 DEF IInv

LEMMA PeerStep == IInv /\ PeerSends => IInv'
  <1> SUFFICES ASSUME IInv, PeerSends PROVE IInv'
    OBVIOUS
  <1>1. TypeOK /\ Agree /\ Once /\ Verdict
    BY DEF IInv
  <1>2. PICK m \in Messages : queue' = Append(queue, m) /\ m # "disconnect"
    BY DEF PeerSends, Messages
  <1>3. queue \in Seq(Messages)
    BY <1>1 DEF TypeOK, Messages
  <1>4. TypeOK'
    BY <1>1, <1>2, <1>3, Appended, BoundsAssumption
    DEF PeerSends, TypeOK, Messages, states, history
  <1>5. Agree'
    BY <1>1, <1>2, <1>3, Appended DEF PeerSends, Agree, StatesAgree, states, history
  <1>6. Once'
    BY <1>1 DEF PeerSends, Once, Receiving, Kinds, ClosedOnce, states, history
  <1>7. Verdict'
    BY <1>1 DEF PeerSends, Verdict, NeverDangles, CloseFor, states, history
  <1> QED  BY <1>4, <1>5, <1>6, <1>7 DEF IInv

LEMMA WireStep == IInv /\ WireCloses => IInv'
  <1> SUFFICES ASSUME IInv, WireCloses PROVE IInv'
    OBVIOUS
  <1>1. TypeOK /\ Agree /\ Once /\ Verdict
    BY DEF IInv
  <1>2. EnqueueDisconnect /\ wire' = "CLOSED"
    BY DEF WireCloses, Finish
  <1>3. known' = TRUE /\ queue' \in Seq(Messages)
        /\ (client = "CONNECTING" => queue' # <<>> /\ Head(queue') = "connect")
    BY <1>1, <1>2, Enqueued
  <1>4. TypeOK'
    BY <1>1, <1>2, <1>3 DEF WireCloses, TypeOK, Messages, states, history
  <1>5. Agree'
    BY <1>1, <1>2, <1>3 DEF WireCloses, Agree, StatesAgree, states, history
  <1>6. Once'
    BY <1>1, <1>2 DEF WireCloses, Once, Receiving, Kinds, ClosedOnce, states, history
  <1>7. Verdict'
    BY <1>1, <1>2 DEF WireCloses, Verdict, NeverDangles, CloseFor, states, history
  <1> QED  BY <1>4, <1>5, <1>6, <1>7 DEF IInv

LEMMA LostStep == IInv /\ ConnectionLost => IInv'
  <1> SUFFICES ASSUME IInv, ConnectionLost PROVE IInv'
    OBVIOUS
  <1>1. TypeOK /\ Agree /\ Once /\ Verdict
    BY DEF IInv
  <1>2. EnqueueDisconnect
    BY DEF ConnectionLost
  <1>3. known' = TRUE /\ queue' \in Seq(Messages)
        /\ (client = "CONNECTING" => queue' # <<>> /\ Head(queue') = "connect")
    BY <1>1, <1>2, Enqueued
  <1>4. TypeOK'
    BY <1>1, <1>3 DEF ConnectionLost, TypeOK, Messages, states, history
  <1>5. Agree'
    BY <1>1, <1>3 DEF ConnectionLost, Agree, StatesAgree, states, history
  <1>6. Once'
    BY <1>1 DEF ConnectionLost, Once, Receiving, Kinds, ClosedOnce, states, history
  <1>7. Verdict'
    BY <1>1 DEF ConnectionLost, Verdict, NeverDangles, CloseFor, states, history
  <1> QED  BY <1>4, <1>5, <1>6, <1>7 DEF IInv

\* A message the application took is of no harm to the types and the states.
LEMMA TookFacts ==
    ASSUME IInv, NEW m \in Messages, Took(m), client # "DISCONNECTED",
           m = "disconnect" => known
    PROVE  /\ client' \in SocketStates /\ app' \in SocketStates /\ told' \in Nat
           /\ app' = "CONNECTED" => app = "CONNECTED"
           /\ app' = "DISCONNECTED" => known
           /\ told' = 0 \/ (told' = 1 /\ client' = "DISCONNECTED")
           /\ m = "connect" => client' = "CONNECTED"
           /\ m # "connect" /\ client # "CONNECTING" => client' # "CONNECTING"
  BY DEF IInv, TypeOK, Agree, StatesAgree, Once, Took, SocketStates, Messages

LEMMA AcceptStep == IInv /\ Accept => IInv'
  <1> SUFFICES ASSUME IInv, Accept PROVE IInv'
    OBVIOUS
  <1>1. TypeOK /\ Agree /\ Once /\ Verdict
    BY DEF IInv
  <1>2. queue \in Seq(Messages)
    BY <1>1 DEF TypeOK, Messages
  <1>3. /\ phase = "handler" /\ call = "none" /\ raised = "none" /\ calls < MaxCalls
        /\ calls' = calls + 1 /\ UNCHANGED <<phase, lost, messages, wire, known, closed, closes, failed>>
        /\ call' \in {"none", "turn"}
        /\ call' = "turn" => wire = "CONNECTING" /\ raised' = "none"
        /\ call' = "none" => raised' \in {"runtime", "late"}
        /\ raised' = "late" => wire = "CLOSED"
    BY DEF Accept, Ready, Free, Called, Raises, Waits
  <1>4. /\ queue' \in Seq(Messages)
        /\ client' \in SocketStates /\ app' \in SocketStates /\ told' \in Nat
        /\ app' = "CONNECTED" => app = "CONNECTED"
        /\ app' = "DISCONNECTED" => known
        /\ told' = 0 \/ (told' = 1 /\ client' = "DISCONNECTED")
        /\ client' # "CONNECTING"
        /\ \A i \in DOMAIN queue' : queue'[i] = "disconnect" => known
    <2>1. CASE client = "CONNECTING"
      <3>1. queue # <<>> /\ Head(queue) = "connect" /\ Took(Head(queue)) /\ queue' = Tail(queue)
        BY <1>1, <2>1 DEF Accept, Agree, StatesAgree
      <3>2. Head(queue) \in Messages /\ queue' \in Seq(Messages)
            /\ \A i \in DOMAIN queue' : i + 1 \in DOMAIN queue /\ queue'[i] = queue[i + 1]
        BY <1>2, <3>1, Taken
      <3>3. \A i \in DOMAIN queue' : queue'[i] = "disconnect" => known
        BY <1>1, <3>2 DEF Agree
      <3> QED  BY <2>1, <3>1, <3>2, <3>3, TookFacts
    <2>2. CASE client # "CONNECTING"
      BY <1>1, <1>2, <2>2 DEF Accept, TypeOK, Agree, StatesAgree, Once, states
    <2> QED  BY <2>1, <2>2
  <1>5. TypeOK'
    BY <1>1, <1>3, <1>4, BoundsAssumption DEF TypeOK, Messages, Exceptions
  <1>6. Agree'
    BY <1>1, <1>3, <1>4 DEF Agree, StatesAgree
  <1>7. Once'
    BY <1>1, <1>3, <1>4 DEF Once, Receiving, Kinds, ClosedOnce
  <1>8. Verdict'
    BY <1>1, <1>3 DEF Verdict, NeverDangles, CloseFor
  <1> QED  BY <1>5, <1>6, <1>7, <1>8 DEF IInv

LEMMA AcceptedStep == IInv /\ Accepted => IInv'
  <1> SUFFICES ASSUME IInv, Accepted PROVE IInv'
    OBVIOUS
  <1>1. TypeOK /\ Agree /\ Once /\ Verdict
    BY DEF IInv
  <1>5. TypeOK'
    BY <1>1 DEF Accepted, TypeOK, Exceptions, SocketStates, Messages, bridge, states, history
  <1>6. Agree'
    BY <1>1 DEF Accepted, Agree, StatesAgree, bridge, states, history
  <1>7. Once'
    BY <1>1 DEF Accepted, Once, Receiving, Kinds, ClosedOnce, bridge, states, history
  <1>8. Verdict'
    BY <1>1 DEF Accepted, Verdict, NeverDangles, CloseFor, bridge, states, history
  <1> QED  BY <1>5, <1>6, <1>7, <1>8 DEF IInv

\* What a message does to the session, taken at once or waited for.
LEMMA TakesStep ==
    ASSUME IInv, NEW kind \in Kinds, Takes(kind), client # "DISCONNECTED",
           queue # <<>> \/ known, raised = "none", phase = "handler", call' = "none",
           call # "turn", calls' \in 0..MaxCalls,
           UNCHANGED <<wire, known, lost, messages, phase, closed, closes, failed>>
    PROVE  IInv'
  <1>1. TypeOK /\ Agree /\ Once /\ Verdict
    BY DEF IInv
  <1>2. queue \in Seq(Messages) /\ Took(Coming) /\ raised' \in {"none", "runtime", "disconnect"}
    BY <1>1 DEF TypeOK, Messages, Takes
  <1>3. /\ Coming \in Messages /\ (Coming = "disconnect" => known)
        /\ client = "CONNECTING" => Coming = "connect"
        /\ queue' \in Seq(Messages) /\ \A i \in DOMAIN queue' : queue'[i] = "disconnect" => known
    <2>1. CASE queue # <<>>
      <3>1. /\ queue' \in Seq(Messages) /\ Coming \in Messages /\ Coming = queue[1]
            /\ 1 \in DOMAIN queue /\ Coming = Head(queue)
            /\ \A i \in DOMAIN queue' : i + 1 \in DOMAIN queue /\ queue'[i] = queue[i + 1]
        BY <1>2, <2>1, Taken DEF Takes, Coming
      <3> QED  BY <1>1, <2>1, <3>1 DEF Agree, StatesAgree
    <2>2. CASE queue = <<>>
      BY <1>1, <1>2, <2>2 DEF Takes, Coming, Agree, StatesAgree, Messages
    <2> QED  BY <2>1, <2>2
  <1>4. PICK m \in Messages : /\ Took(m) /\ (m = "disconnect" => known)
                              /\ client = "CONNECTING" => m = "connect"
    BY <1>2, <1>3
  <1>5. /\ client' \in SocketStates /\ app' \in SocketStates /\ told' \in Nat
        /\ app' = "CONNECTED" => app = "CONNECTED"
        /\ app' = "DISCONNECTED" => known
        /\ told' = 0 \/ (told' = 1 /\ client' = "DISCONNECTED")
        /\ client' # "CONNECTING"
    BY <1>4, TookFacts
  <1>6. TypeOK'
    BY <1>1, <1>2, <1>3, <1>5 DEF TypeOK, Messages, Exceptions
  <1>7. Agree'
    BY <1>1, <1>3, <1>5 DEF Agree, StatesAgree
  <1>8. Once'
    BY <1>1, <1>5 DEF Once, Receiving, Kinds, ClosedOnce
  <1>9. Verdict'
    BY <1>1, <1>2 DEF Verdict, NeverDangles, CloseFor
  <1> QED  BY <1>6, <1>7, <1>8, <1>9 DEF IInv

LEMMA ReceiveStep ==
    ASSUME IInv, NEW kind \in Kinds, Receive(kind) PROVE IInv'
  <1>1. TypeOK /\ Agree /\ Once /\ Verdict
    BY DEF IInv
  <1>2. /\ phase = "handler" /\ call = "none" /\ raised = "none" /\ calls' \in 0..MaxCalls
        /\ UNCHANGED <<phase, lost, messages, wire, known, closed, closes, failed>>
    BY <1>1, BoundsAssumption DEF Receive, Ready, Free, Called, TypeOK
  <1>3. CASE ~Refused(kind) /\ (queue # <<>> \/ known) /\ Takes(kind) /\ UNCHANGED call
    BY <1>2, <1>3, TakesStep DEF Refused
  <1>4. CASE /\ UNCHANGED <<states, told, queue>>
             /\ \/ Raises("runtime")
                \/ ~Refused(kind) /\ Waits(kind)
    <2>1. \/ raised' = "runtime" /\ call' = "none"
          \/ raised' = "none" /\ call' = kind /\ client # "DISCONNECTED"
      BY <1>2, <1>4 DEF Raises, Waits, Refused
    <2>5. TypeOK'
      BY <1>1, <1>2, <1>4, <2>1 DEF TypeOK, Exceptions, Messages, states, Kinds
    <2>6. Agree'
      BY <1>1, <1>2, <1>4 DEF Agree, StatesAgree, states
    <2>7. Once'
      BY <1>1, <1>2, <1>4, <2>1 DEF Once, Receiving, Kinds, ClosedOnce, states
    <2>8. Verdict'
      BY <1>1, <1>2, <2>1 DEF Verdict, NeverDangles, CloseFor
    <2> QED  BY <2>5, <2>6, <2>7, <2>8 DEF IInv
  <1> QED  BY <1>3, <1>4 DEF Receive

LEMMA DeliveredStep == IInv /\ Delivered => IInv'
  <1> SUFFICES ASSUME IInv, Delivered PROVE IInv'
    OBVIOUS
  <1>1. Once /\ Verdict /\ TypeOK
    BY DEF IInv
  <1>2. /\ call \in Kinds /\ Takes(call) /\ queue # <<>> /\ phase = "handler" /\ call' = "none"
        /\ client # "DISCONNECTED" /\ raised = "none" /\ call # "turn" /\ calls' \in 0..MaxCalls
        /\ UNCHANGED <<wire, known, lost, messages, phase, closed, closes, failed>>
    BY <1>1 DEF Delivered, Receiving, Kinds, Once, Verdict, TypeOK
  <1> QED  BY <1>2, TakesStep

LEMMA SendStep == IInv /\ SendData => IInv'
  <1> SUFFICES ASSUME IInv, SendData PROVE IInv'
    OBVIOUS
  <1>1. TypeOK /\ Agree /\ Once /\ Verdict
    BY DEF IInv
  <1>2. calls' \in 0..MaxCalls
    BY <1>1, BoundsAssumption DEF SendData, Ready, Free, Called, TypeOK
  <1>5. TypeOK'
    BY <1>1, <1>2 DEF SendData, TypeOK, Exceptions, SocketStates, Messages, Ready, Free, Called, Raises, Waits, states, history
  <1>6. Agree'
    BY <1>1, <1>2 DEF SendData, Agree, StatesAgree, Ready, Free, Called, Raises, Waits, states, history
  <1>7. Once'
    BY <1>1, <1>2 DEF SendData, Once, Receiving, Kinds, ClosedOnce, Ready, Free, Called, Raises, Waits, states, history
  <1>3. app = "CONNECTED" /\ wire # "CONNECTED" => wire = "CLOSED"
    BY <1>1 DEF TypeOK, Agree, StatesAgree
  <1>8. Verdict'
    BY <1>1, <1>2, <1>3 DEF SendData, Verdict, NeverDangles, CloseFor, Ready, Free, Called, Raises, Waits, states, history
  <1> QED  BY <1>5, <1>6, <1>7, <1>8 DEF IInv

LEMMA RaisesStep == IInv /\ HandlerRaises => IInv'
  <1> SUFFICES ASSUME IInv, HandlerRaises PROVE IInv'
    OBVIOUS
  <1>1. TypeOK /\ Agree /\ Once /\ Verdict
    BY DEF IInv
  <1>2. calls' \in 0..MaxCalls
    BY <1>1, BoundsAssumption DEF HandlerRaises, Ready, Free, Called, TypeOK
  <1>5. TypeOK'
    BY <1>1, <1>2 DEF HandlerRaises, TypeOK, Exceptions, SocketStates, Messages, Ready, Free, Called, Raises, Waits, states, history
  <1>6. Agree'
    BY <1>1, <1>2 DEF HandlerRaises, Agree, StatesAgree, Ready, Free, Called, Raises, Waits, states, history
  <1>7. Once'
    BY <1>1, <1>2 DEF HandlerRaises, Once, Receiving, Kinds, ClosedOnce, Ready, Free, Called, Raises, Waits, states, history
  <1>8. Verdict'
    BY <1>1, <1>2 DEF HandlerRaises, Verdict, NeverDangles, CloseFor, Ready, Free, Called, Raises, Waits, states, history
  <1> QED  BY <1>5, <1>6, <1>7, <1>8 DEF IInv

LEMMA CatchStep == IInv /\ Catch => IInv'
  <1> SUFFICES ASSUME IInv, Catch PROVE IInv'
    OBVIOUS
  <1>1. TypeOK /\ Agree /\ Once /\ Verdict
    BY DEF IInv
  <1>2. calls' \in 0..MaxCalls
    BY <1>1, BoundsAssumption DEF Catch, Ready, Free, Called, TypeOK
  <1>5. TypeOK'
    BY <1>1, <1>2 DEF Catch, TypeOK, Exceptions, SocketStates, Messages, Ready, Free, Called, Raises, Waits, states, history
  <1>6. Agree'
    BY <1>1, <1>2 DEF Catch, Agree, StatesAgree, Ready, Free, Called, Raises, Waits, states, history
  <1>7. Once'
    BY <1>1, <1>2 DEF Catch, Once, Receiving, Kinds, ClosedOnce, Ready, Free, Called, Raises, Waits, states, history
  <1>8. Verdict'
    BY <1>1, <1>2 DEF Catch, Verdict, NeverDangles, CloseFor, Ready, Free, Called, Raises, Waits, states, history
  <1> QED  BY <1>5, <1>6, <1>7, <1>8 DEF IInv

LEMMA DrainedStep == IInv /\ Drained => IInv'
  <1> SUFFICES ASSUME IInv, Drained PROVE IInv'
    OBVIOUS
  <1>1. TypeOK /\ Agree /\ Once /\ Verdict
    BY DEF IInv
  <1>5. TypeOK'
    BY <1>1 DEF Drained, TypeOK, Exceptions, SocketStates, Messages, bridge, states, history
  <1>6. Agree'
    BY <1>1 DEF Drained, Agree, StatesAgree, bridge, states, history
  <1>7. Once'
    BY <1>1 DEF Drained, Once, Receiving, Kinds, ClosedOnce, bridge, states, history
  <1>8. Verdict'
    BY <1>1 DEF Drained, Verdict, NeverDangles, CloseFor, bridge, states, history
  <1> QED  BY <1>5, <1>6, <1>7, <1>8 DEF IInv

LEMMA CancelledStep == IInv /\ Cancelled => IInv'
  <1> SUFFICES ASSUME IInv, Cancelled PROVE IInv'
    OBVIOUS
  <1>1. TypeOK /\ Agree /\ Once /\ Verdict
    BY DEF IInv
  <1>5. TypeOK'
    BY <1>1 DEF Cancelled, TypeOK, Exceptions, SocketStates, Messages, bridge, states, history, Quiet
  <1>6. Agree'
    BY <1>1 DEF Cancelled, Agree, StatesAgree, bridge, states, history, Quiet
  <1>7. Once'
    BY <1>1 DEF Cancelled, Once, Receiving, Kinds, ClosedOnce, bridge, states, history, Quiet
  <1>8. Verdict'
    BY <1>1 DEF Cancelled, Once, Verdict, NeverDangles, CloseFor, bridge, states, history, Quiet
  <1> QED  BY <1>5, <1>6, <1>7, <1>8 DEF IInv

LEMMA LeaveStep == IInv /\ Leave => IInv'
  <1> SUFFICES ASSUME IInv, Leave PROVE IInv'
    OBVIOUS
  <1>1. TypeOK /\ Agree /\ Once /\ Verdict
    BY DEF IInv
  <1>5. TypeOK'
    BY <1>1 DEF Leave, TypeOK, Exceptions, SocketStates, Messages, bridge, states, history
  <1>6. Agree'
    BY <1>1 DEF Leave, Agree, StatesAgree, bridge, states, history
  <1>7. Once'
    BY <1>1 DEF Leave, Once, Receiving, Kinds, ClosedOnce, bridge, states, history
  <1>8. Verdict'
    BY <1>1 DEF Leave, Verdict, NeverDangles, CloseFor, bridge, states, history
  <1> QED  BY <1>5, <1>6, <1>7, <1>8 DEF IInv

LEMMA CloseStep == IInv /\ Close => IInv'
  <1> SUFFICES ASSUME IInv, Close PROVE IInv'
    OBVIOUS
  <1>1. TypeOK /\ Agree /\ Once /\ Verdict
    BY DEF IInv
  <1>2. /\ phase = "handler" /\ call = "none" /\ calls' \in 0..MaxCalls
        /\ UNCHANGED <<phase, lost, messages, client, raised, told, failed>>
    BY <1>1, BoundsAssumption DEF Close, Free, Called, TypeOK
  <1>3. CASE app = "DISCONNECTED" /\ UNCHANGED <<wire, queue, known, app, call, closed, closes>>
    <2>1. TypeOK'
      BY <1>1, <1>2, <1>3 DEF TypeOK, Messages
    <2>2. Agree'
      BY <1>1, <1>2, <1>3 DEF Agree, StatesAgree
    <2>3. Once'
      BY <1>1, <1>2, <1>3 DEF Once, Receiving, Kinds, ClosedOnce
    <2>4. Verdict'
      BY <1>1, <1>2, <1>3 DEF Verdict, NeverDangles, CloseFor
    <2> QED  BY <2>1, <2>2, <2>3, <2>4 DEF IInv
  <1>4. CASE app' = "DISCONNECTED" /\ closed' = TRUE /\ SendClose(1000)
    <2>1. /\ wire' = "CLOSED" /\ known' = TRUE /\ queue' \in Seq(Messages)
          /\ client = "CONNECTING" => queue' # <<>> /\ Head(queue') = "connect"
          /\ call' \in {"none", "deny"}
          /\ \/ closes' = closes
             \/ /\ closes' \in Seq(Codes) /\ Len(closes') = 1
                /\ closes'[1] \in {403, 1000} /\ closes' # <<>>
      BY <1>1, <1>2, <1>4, ClosesOnce DEF Codes
    <2>2. closes # <<>> => closes[1] \in {403, 1000}
      BY <1>1, <1>2 DEF Verdict
    <2>3. TypeOK'
      BY <1>1, <1>2, <1>4, <2>1 DEF TypeOK, Messages, Codes, SocketStates
    <2>4. Agree'
      BY <1>1, <1>2, <1>4, <2>1 DEF Agree, StatesAgree
    <2>7. Len(closes') <= 1
      <3>1. Len(closes) <= 1
        BY <1>1 DEF Once, ClosedOnce
      <3>2. CASE closes' = closes
        BY <3>1, <3>2
      <3>3. CASE Len(closes') = 1
        BY <3>3
      <3> QED  BY <2>1, <3>2, <3>3
    <2>5. Once'
      BY <1>1, <1>2, <1>4, <2>1, <2>7 DEF Once, Receiving, Kinds, ClosedOnce
    <2>6. Verdict'
      BY <1>1, <1>2, <1>4, <2>1, <2>2 DEF Verdict, NeverDangles
    <2> QED  BY <2>3, <2>4, <2>5, <2>6 DEF IInv
  <1> QED  BY <1>3, <1>4 DEF Close

LEMMA LeaveExceptionsStep == IInv /\ LeaveExceptions => IInv'
  <1> SUFFICES ASSUME IInv, LeaveExceptions PROVE IInv'
    OBVIOUS
  <1>1. TypeOK /\ Agree /\ Once /\ Verdict
    BY DEF IInv
  <1>2. /\ phase = "leaving" /\ phase' = "returned" /\ call = "none" /\ failed = raised
        /\ UNCHANGED <<lost, messages, states, calls, closed, told, failed>>
        /\ raised' \in Exceptions
    BY <1>1 DEF LeaveExceptions, TypeOK, Once, Verdict, Exceptions
  <1>3. Converted <=> failed \notin Quiet
    BY <1>2 DEF Converted, Quiet
  <1>4. CASE Converted /\ ~closed /\ SendClose(CloseFor(raised))
    <2>1. /\ wire' = "CLOSED" /\ known' = TRUE /\ queue' \in Seq(Messages)
          /\ client = "CONNECTING" => queue' # <<>> /\ Head(queue') = "connect"
          /\ call' \in {"none", "deny"}
          /\ \/ closes' = closes /\ wire = "CLOSED"
             \/ /\ closes = <<>> /\ closes' \in Seq(Codes) /\ Len(closes') = 1
                /\ closes'[1] \in {403, CloseFor(failed)} /\ closes' # <<>> /\ wire # "CLOSED"
      <3>1. PICK c \in Codes : c = CloseFor(failed)
        BY CodesOfClose
      <3>2. SendClose(c)
        BY <1>2, <1>4, <3>1
      <3>3. call = "none"
        BY <1>1, <1>2 DEF Once
      <3> QED  BY <1>1, <3>1, <3>2, <3>3, ClosesOnce
    <2>2. closes = <<>>
      BY <1>1, <1>2, <1>4 DEF Verdict
    <2>3. failed = "late" => wire = "CLOSED"
      BY <1>1, <1>2 DEF Verdict
    <2>4. TypeOK'
      BY <1>1, <1>2, <2>1 DEF TypeOK, Messages, Codes, states
    <2>5. Agree'
      BY <1>1, <1>2, <2>1 DEF Agree, StatesAgree, states
    <2>8. Len(closes') <= 1
      <3>1. Len(closes) <= 1
        BY <1>1 DEF Once, ClosedOnce
      <3>2. CASE closes' = closes
        BY <3>1, <3>2
      <3>3. CASE Len(closes') = 1
        BY <3>3
      <3> QED  BY <2>1, <3>2, <3>3
    <2>6. Once'
      BY <1>1, <1>2, <2>1, <2>8 DEF Once, Receiving, Kinds, ClosedOnce, states
    <2>7. Verdict'
      BY <1>2, <1>3, <1>4, <2>1, <2>2, <2>3 DEF Verdict, NeverDangles, CloseFor
    <2> QED  BY <2>4, <2>5, <2>6, <2>7 DEF IInv
  <1>5. CASE ~(Converted /\ ~closed) /\ UNCHANGED <<wire, queue, known, closes, call>>
    <2>1. TypeOK'
      BY <1>1, <1>2, <1>5 DEF TypeOK, Messages, states
    <2>2. Agree'
      BY <1>1, <1>2, <1>5 DEF Agree, StatesAgree, states
    <2>3. Once'
      BY <1>1, <1>2, <1>5 DEF Once, Receiving, Kinds, ClosedOnce, states
    <2>4. Verdict'
      BY <1>1, <1>2, <1>3, <1>5 DEF Verdict, Once, NeverDangles, CloseFor
    <2> QED  BY <2>1, <2>2, <2>3, <2>4 DEF IInv
  <1> QED  BY <1>4, <1>5 DEF LeaveExceptions

LEMMA TaskDoneStep == IInv /\ TaskDone => IInv'
  <1> SUFFICES ASSUME IInv, TaskDone PROVE IInv'
    OBVIOUS
  <1>1. TypeOK /\ Agree /\ Once /\ Verdict
    BY DEF IInv
  <1>2. /\ phase = "returned" /\ phase' = "done" /\ call = "none"
        /\ UNCHANGED <<lost, messages, states, call, calls, raised, closed, told, failed>>
    BY DEF TaskDone
  <1>3. CASE wire = "CONNECTED" /\ Finish /\ closes' = Append(closes, 1000)
    <2>1. /\ wire' = "CLOSED" /\ known' = TRUE /\ queue' \in Seq(Messages)
          /\ client = "CONNECTING" => queue' # <<>> /\ Head(queue') = "connect"
      BY <1>1, <1>3, Enqueued DEF Finish
    <2>2. closes = <<>> /\ ~closed /\ failed \in Quiet
      BY <1>1, <1>2, <1>3 DEF Once, Verdict
    <2>3. closes' \in Seq(Codes) /\ Len(closes') = 1 /\ closes'[1] = 1000 /\ closes' # <<>>
      BY <1>3, <2>2, FirstClose DEF Codes
    <2>4. TypeOK'
      BY <1>1, <1>2, <2>1, <2>3 DEF TypeOK, Messages, Codes, states
    <2>5. Agree'
      BY <1>1, <1>2, <2>1 DEF Agree, StatesAgree, states
    <2>6. Once'
      BY <1>1, <1>2, <2>1, <2>2, <2>3 DEF Once, Receiving, Kinds, ClosedOnce, states
    <2>7. Verdict'
      BY <1>1, <1>2, <2>1, <2>2, <2>3 DEF Verdict, NeverDangles, Quiet
    <2> QED  BY <2>4, <2>5, <2>6, <2>7 DEF IInv
  <1>4. CASE wire # "CONNECTED" /\ UNCHANGED <<wire, queue, known, closes>>
    <2>1. TypeOK'
      BY <1>1, <1>2, <1>4 DEF TypeOK, Messages, states
    <2>2. Agree'
      BY <1>1, <1>2, <1>4 DEF Agree, StatesAgree, states
    <2>3. Once'
      BY <1>1, <1>2, <1>4 DEF Once, Receiving, Kinds, ClosedOnce, states
    <2>4. Verdict'
      BY <1>1, <1>2, <1>4 DEF Verdict, NeverDangles, CloseFor, Quiet
    <2> QED  BY <2>1, <2>2, <2>3, <2>4 DEF IInv
  <1> QED  BY <1>3, <1>4 DEF TaskDone

-----------------------------------------------------------------------------
\* Every step keeps the invariant.
THEOREM Inductive == IInv /\ [Next]_vars => IInv'
  <1> SUFFICES ASSUME IInv, [Next]_vars PROVE IInv'
    OBVIOUS
  <1>1. CASE HandlerRuns
    <2>1. CASE \E kind \in Kinds : Receive(kind)
      BY <2>1, ReceiveStep
    <2>2. CASE Accept \/ Accepted \/ Delivered \/ SendData
      BY <2>2, AcceptStep, AcceptedStep, DeliveredStep, SendStep
    <2>3. CASE Drained \/ Close \/ HandlerRaises \/ Catch \/ Leave
      BY <2>3, DrainedStep, CloseStep, RaisesStep, CatchStep, LeaveStep
    <2> QED  BY <1>1, <2>1, <2>2, <2>3 DEF HandlerRuns
  <1>2. CASE Cancelled \/ LeaveExceptions \/ TaskDone
    BY <1>2, CancelledStep, LeaveExceptionsStep, TaskDoneStep
  <1>3. CASE PeerSends \/ WireCloses \/ ConnectionLost
    BY <1>3, PeerStep, WireStep, LostStep
  <1>4. CASE UNCHANGED vars
    <2>1. TypeOK'
      BY <1>4 DEF vars, bridge, states, history, IInv, TypeOK
    <2>2. Agree'
      BY <1>4 DEF vars, bridge, states, history, IInv, Agree, StatesAgree
    <2>3. Once'
      BY <1>4 DEF vars, bridge, states, history, IInv, Once, Receiving, Kinds, ClosedOnce
    <2>4. Verdict'
      BY <1>4 DEF vars, bridge, states, history, IInv, Verdict, NeverDangles, CloseFor
    <2> QED  BY <2>1, <2>2, <2>3, <2>4 DEF IInv
  <1> QED  BY <1>1, <1>2, <1>3, <1>4 DEF Next, Steps

\* The invariant gives the properties of the session.
LEMMA Sufficient == IInv => StatesAgree /\ ClosedOnce /\ ToldOnce /\ ToldTruly /\ NeverDangles
  <1> SUFFICES ASSUME IInv PROVE StatesAgree /\ ClosedOnce /\ ToldOnce /\ ToldTruly /\ NeverDangles
    OBVIOUS
  <1>1. StatesAgree /\ ClosedOnce /\ NeverDangles
    BY DEF IInv, Agree, Once, Verdict
  <1>2. ToldOnce
    BY DEF IInv, Once, ToldOnce
  <1>3. ToldTruly
    <2> SUFFICES ASSUME phase = "done", closes # <<>> PROVE ToldTruly
      BY DEF ToldTruly
    <2>1. CASE closed
      BY <2>1 DEF IInv, Verdict, ToldTruly
    <2>2. CASE ~closed
      <3>1. failed \in Exceptions
        BY DEF IInv, TypeOK
      <3>2. \/ closes[1] = 1000 /\ failed \in Quiet
            \/ closes[1] \in {403, CloseFor(failed)} /\ failed \notin Quiet \cup {"late"}
        BY <2>2 DEF IInv, Verdict
      <3> QED  BY <3>1, <3>2 DEF ToldTruly, CloseFor, Quiet, Exceptions
    <2> QED  BY <2>1, <2>2
  <1> QED  BY <1>1, <1>2, <1>3

\* The types of a session.
THEOREM SessionTyped == Spec => []TypeOK
  <1>1. IInv => TypeOK
    BY DEF IInv
  <1> QED  BY <1>1, Initially, Inductive, PTL DEF Spec

\* Neither state of the WebSocket object runs ahead of the bridge.
THEOREM SessionAgrees == Spec => []StatesAgree
  BY Initially, Inductive, Sufficient, PTL DEF Spec

\* One close at most is sent, and the application is told of the end once.
THEOREM SessionEndsOnce == Spec => [](ClosedOnce /\ ToldOnce)
  BY Initially, Inductive, Sufficient, PTL DEF Spec

\* The peer is told why the session ended.
THEOREM SessionToldTruly == Spec => []ToldTruly
  BY Initially, Inductive, Sufficient, PTL DEF Spec

\* No session outlives its handler.
THEOREM SessionNeverDangles == Spec => []NeverDangles
  BY Initially, Inductive, Sufficient, PTL DEF Spec

-----------------------------------------------------------------------------
(* The contract of the bridge: every step of the session is one of its     *)
(* steps, or leaves what the contract is about alone.                      *)

LEMMA ContractInit == Init => Bridge!Init
  BY DEF Init, Bridge!Init, Receiving, Kinds

LEMMA ContractReceive ==
    ASSUME IInv, NEW kind \in Kinds, Receive(kind) PROVE [Bridge!Next]_(Bridge!bvars)
  <1>1. /\ call = "none" /\ UNCHANGED <<wire, known, lost>>
    BY DEF Receive, Ready, Free, Called
  <1>2. CASE Takes(kind) /\ queue # <<>> /\ UNCHANGED call
    <2>1. Bridge!Receives
      BY <1>1, <1>2 DEF Takes, Bridge!Receives, Receiving, Kinds
    <2> QED  BY <2>1 DEF Bridge!Next, Bridge!CallStep
  <1>3. CASE Takes(kind) /\ queue = <<>> /\ UNCHANGED call
    BY <1>1, <1>3 DEF Takes, Bridge!bvars, Receiving
  <1>4. CASE Raises("runtime") /\ UNCHANGED queue
    BY <1>1, <1>4 DEF Raises, Bridge!bvars, Receiving
  <1>5. CASE queue = <<>> /\ ~known /\ Waits(kind) /\ UNCHANGED queue
    <2>1. Bridge!ReceiveWaits
      BY <1>1, <1>5 DEF Waits, Bridge!ReceiveWaits, Receiving, Kinds
    <2> QED  BY <2>1 DEF Bridge!Next, Bridge!CallStep
  <1> QED  BY <1>2, <1>3, <1>4, <1>5 DEF Receive

LEMMA ContractAccept == IInv /\ Accept => [Bridge!Next]_(Bridge!bvars)
  <1> SUFFICES ASSUME IInv, Accept PROVE [Bridge!Next]_(Bridge!bvars)
    OBVIOUS
  <1>1. /\ call = "none" /\ UNCHANGED <<wire, known, lost>>
        /\ UNCHANGED queue \/ (queue # <<>> /\ queue' = Tail(queue))
    BY DEF Accept, Ready, Free, Called, IInv, Agree, StatesAgree
  <1>2. CASE wire = "CONNECTING" /\ call' = "turn"
    <2>1. Bridge!AcceptWaits
      BY <1>1, <1>2 DEF Bridge!AcceptWaits, Receiving, Kinds
    <2> QED  BY <2>1 DEF Bridge!Next, Bridge!CallStep
  <1>3. CASE UNCHANGED call /\ UNCHANGED queue
    BY <1>1, <1>3 DEF Bridge!bvars, Receiving
  <1>4. CASE UNCHANGED call /\ queue # <<>> /\ queue' = Tail(queue)
    <2>1. Bridge!Receives
      BY <1>1, <1>4 DEF Bridge!Receives, Receiving, Kinds
    <2> QED  BY <2>1 DEF Bridge!Next, Bridge!CallStep
  <1> QED  BY <1>1, <1>2, <1>3, <1>4 DEF Accept, Waits, Raises

\* A close of whoever runs: a denial, a close frame, or nothing.
LEMMA ContractClose ==
    ASSUME IInv, NEW code, SendClose(code), call = "none", UNCHANGED lost
    PROVE  [Bridge!Next]_(Bridge!bvars)
  <1>1. CASE wire = "CONNECTING" /\ Finish /\ call' \in {"none", "deny"}
    <2>1. Bridge!Denies
      BY <1>1 DEF Bridge!Denies, Bridge!Ends, Bridge!EndKnown, Finish, EnqueueDisconnect,
                  Receiving, Kinds
    <2> QED  BY <2>1 DEF Bridge!Next, Bridge!CallStep
  <1>2. CASE wire = "CONNECTED" /\ Finish /\ UNCHANGED call
    <2>1. Bridge!Closes
      BY <1>2 DEF Bridge!Closes, Bridge!Ends, Bridge!EndKnown, Finish, EnqueueDisconnect,
                  Receiving, Kinds
    <2> QED  BY <2>1 DEF Bridge!Next, Bridge!CallStep
  <1>3. CASE UNCHANGED <<wire, queue, known, call>>
    BY <1>3 DEF Bridge!bvars, Receiving
  <1> QED  BY <1>1, <1>2, <1>3 DEF SendClose

LEMMA ContractRuns == IInv /\ HandlerRuns => [Bridge!Next]_(Bridge!bvars)
  <1> SUFFICES ASSUME IInv, HandlerRuns PROVE [Bridge!Next]_(Bridge!bvars)
    OBVIOUS
  <1>1. CASE Accept \/ \E kind \in Kinds : Receive(kind)
    BY <1>1, ContractAccept, ContractReceive
  <1>2. CASE Accepted
    <2>1. Bridge!Accepted
      BY <1>2 DEF Accepted, Bridge!Accepted, Receiving, Kinds
    <2> QED  BY <2>1 DEF Bridge!Next, Bridge!CallStep
  <1>3. CASE Delivered
    <2>1. Bridge!Receives
      BY <1>3 DEF Delivered, Takes, Bridge!Receives, Receiving, Kinds
    <2> QED  BY <2>1 DEF Bridge!Next, Bridge!CallStep
  <1>4. CASE SendData
    <2>1. CASE wire = "CONNECTED" /\ call' = "drain"
      <3>1. Bridge!SendWaits
        BY <1>4, <2>1 DEF SendData, Ready, Free, Called, Bridge!SendWaits, Receiving, Kinds
      <3> QED  BY <3>1 DEF Bridge!Next, Bridge!CallStep
    <2>2. CASE UNCHANGED call
      BY <1>4, <2>2 DEF SendData, Called, Bridge!bvars, Receiving
    <2> QED  BY <1>4, <2>1, <2>2 DEF SendData, Waits, Raises
  <1>5. CASE Drained
    <2>1. Bridge!SendReturns
      BY <1>5 DEF Drained, bridge, Bridge!SendReturns, Receiving, Kinds
    <2> QED  BY <2>1 DEF Bridge!Next, Bridge!CallStep
  <1>6. CASE Close
    <2>1. CASE UNCHANGED <<wire, queue, known, call>>
      BY <1>6, <2>1 DEF Close, Called, Bridge!bvars, Receiving
    <2>2. CASE SendClose(1000)
      BY <1>6, <2>2, ContractClose DEF Close, Free, Called
    <2> QED  BY <1>6, <2>1, <2>2 DEF Close
  <1>7. CASE HandlerRaises \/ Catch \/ Leave
    BY <1>7 DEF HandlerRaises, Catch, Leave, Raises, Called, bridge, Bridge!bvars, Receiving
  <1> QED  BY <1>1, <1>2, <1>3, <1>4, <1>5, <1>6, <1>7 DEF HandlerRuns

LEMMA ContractEnds ==
    IInv /\ (Cancelled \/ LeaveExceptions \/ TaskDone) => [Bridge!Next]_(Bridge!bvars)
  <1> SUFFICES ASSUME IInv, Cancelled \/ LeaveExceptions \/ TaskDone
               PROVE [Bridge!Next]_(Bridge!bvars)
    OBVIOUS
  <1>1. CASE Cancelled /\ call # "none"
    <2>1. Bridge!Cancelled
      BY <1>1 DEF Cancelled, bridge, Bridge!Cancelled, Receiving, Kinds
    <2> QED  BY <2>1 DEF Bridge!Next, Bridge!CallStep
  <1>2. CASE Cancelled /\ call = "none"
    BY <1>2 DEF Cancelled, bridge, Bridge!bvars, Receiving
  <1>3. CASE LeaveExceptions
    <2>1. call = "none" /\ UNCHANGED lost
      BY <1>3 DEF LeaveExceptions, IInv, Once
    <2>2. CASE UNCHANGED <<wire, queue, known, call>>
      BY <2>1, <2>2 DEF Bridge!bvars, Receiving
    <2>3. CASE SendClose(CloseFor(raised))
      BY <2>1, <2>3, ContractClose
    <2> QED  BY <1>3, <2>2, <2>3 DEF LeaveExceptions
  <1>4. CASE TaskDone
    <2>1. CASE wire = "CONNECTED" /\ Finish
      <3>1. Bridge!Closes
        BY <1>4, <2>1 DEF TaskDone, Bridge!Closes, Bridge!Ends, Bridge!EndKnown, Finish,
                          EnqueueDisconnect, Receiving, Kinds
      <3> QED  BY <3>1 DEF Bridge!Next, Bridge!CallStep
    <2>2. CASE UNCHANGED <<wire, queue, known>>
      BY <1>4, <2>2 DEF TaskDone, Bridge!bvars, Receiving
    <2> QED  BY <1>4, <2>1, <2>2 DEF TaskDone
  <1> QED  BY <1>1, <1>2, <1>3, <1>4

LEMMA ContractServer ==
    PeerSends \/ WireCloses \/ ConnectionLost => Bridge!ServerStep
  <1>1. PeerSends => Bridge!PeerSends
    BY DEF PeerSends, Bridge!PeerSends, Receiving
  <1>2. WireCloses => Bridge!SessionEnds
    BY DEF WireCloses, Finish, EnqueueDisconnect, Bridge!SessionEnds, Bridge!Ends,
           Bridge!EndKnown, Receiving
  <1>3. ConnectionLost => Bridge!ConnectionLost
    BY DEF ConnectionLost, EnqueueDisconnect, Bridge!ConnectionLost, Bridge!EndKnown, Receiving
  <1> QED  BY <1>1, <1>2, <1>3 DEF Bridge!ServerStep

\* The handler and the exception layer keep to the contract of the bridge,
\* whatever the handler calls, in whatever order, and whenever the session ends:
\* they wait for one thing at a time, accept or deny once and only a session
\* that is being opened, send only on one that is open, and wait for a message
\* only while one may come (websockets.py:82, :100, :157, middleware.py:186).
THEOREM HandlerKeepsContract == Spec => KeepsContract
  <1>1. IInv /\ [Next]_vars => [Bridge!Next]_(Bridge!bvars)
    <2> SUFFICES ASSUME IInv, [Next]_vars PROVE [Bridge!Next]_(Bridge!bvars)
      OBVIOUS
    <2>1. CASE HandlerRuns \/ Cancelled \/ LeaveExceptions \/ TaskDone
      BY <2>1, ContractRuns, ContractEnds
    <2>2. CASE PeerSends \/ WireCloses \/ ConnectionLost
      BY <2>2, ContractServer DEF Bridge!Next
    <2>3. CASE UNCHANGED vars
      BY <2>3 DEF vars, bridge, Bridge!bvars, Receiving
    <2> QED  BY <2>1, <2>2, <2>3 DEF Next, Steps
  <1> QED  BY <1>1, ContractInit, Initially, Inductive, PTL DEF Spec, KeepsContract, Bridge!Spec

\* The handler was checked and proved over every server of the contract: a step
\* that the contract allows the server, and that leaves the application alone, is
\* a step of this environment as long as the peer keeps to its bound.
THEOREM AnyServer ==
    ASSUME Bridge!ServerStep,
           UNCHANGED <<states, call, calls, phase, raised, closed, history>>,
           IF Bridge!PeerSends THEN messages < MaxMessages /\ messages' = messages + 1
                               ELSE UNCHANGED messages
    PROVE  PeerSends \/ WireCloses \/ ConnectionLost
  <1>1. CASE Bridge!PeerSends
    BY <1>1 DEF Bridge!PeerSends, PeerSends
  <1>2. CASE Bridge!SessionEnds /\ ~Bridge!PeerSends
    BY <1>2 DEF Bridge!SessionEnds, Bridge!Ends, Bridge!EndKnown, WireCloses, Finish,
                EnqueueDisconnect
  <1>3. CASE Bridge!ConnectionLost /\ ~Bridge!PeerSends
    BY <1>3 DEF Bridge!ConnectionLost, Bridge!EndKnown, ConnectionLost, EnqueueDisconnect
  <1> QED  BY <1>1, <1>2, <1>3 DEF Bridge!ServerStep

=============================================================================
