--------------------------- MODULE WebSocketProofs ---------------------------
(***************************************************************************)
(* Proofs about WebSocketProtocol for every bound, watermark, set of       *)
(* habits and set of disturbances.                                         *)
(***************************************************************************)
EXTENDS WebSocketProtocol, TLAPS

-----------------------------------------------------------------------------
(* What the operators of the model return.                                  *)

\* Append adds one entry at the end.
LEMMA AppendFacts ==
    ASSUME NEW S, NEW s \in Seq(S), NEW e \in S
    PROVE  /\ Append(s, e) \in Seq(S)
           /\ Len(Append(s, e)) = Len(s) + 1 /\ Len(s) \in Nat
           /\ Append(s, e) # <<>>
           /\ \A i \in 1..Len(s) : Append(s, e)[i] = s[i]
           /\ Append(s, e)[Len(s) + 1] = e
  OBVIOUS

\* Head and Tail of a nonempty sequence.
LEMMA TailFacts ==
    ASSUME NEW S, NEW s \in Seq(S), s # <<>>
    PROVE  /\ Tail(s) \in Seq(S) /\ Head(s) \in S
           /\ Len(Tail(s)) = Len(s) - 1 /\ Len(s) \in Nat \ {0}
  OBVIOUS

\* A write on an open transport appends its entry; else nothing is written.
LEMMA WriteFacts ==
    ASSUME TransportType, NEW e \in Entry, Write(e)
    PROVE  /\ wire' \in Seq(Entry) /\ writePaused' \in BOOLEAN
           /\ closing => wire' = wire
           /\ ~closing => wire' = Append(wire, e)
  <1>1. CASE closing
    BY <1>1 DEF Write, TransportType
  <1>2. CASE ~closing
    <2>1. wire' = Append(wire, e) /\ writePaused' \in BOOLEAN
      BY <1>2 DEF Write, TransportType
    <2> QED BY <1>2, <2>1, AppendFacts DEF TransportType
  <1> QED BY <1>1, <1>2

\* What goes on the wire.
LEMMA EntryFacts ==
    /\ "response" \in Entry /\ "101" \in Entry /\ "403" \in Entry
    /\ "data" \in Entry /\ "ping" \in Entry /\ "pong" \in Entry
    /\ CloseFrames \subseteq Entry
  BY DEF Entry, Frame

\* What goes into the queue.
LEMMA MessageFacts ==
    "connect" \in Message /\ "receive" \in Message /\ "disconnect" \in Message
  BY DEF Message

\* Where the task may be.
LEMMA StatusFacts ==
    /\ "none" \in Status /\ "new" \in Status /\ "run" \in Status
    /\ "recv" \in Status /\ "accept" \in Status /\ "deny" \in Status
    /\ "drain" \in Status /\ "drained" \in Status /\ "gone" \in Status
    /\ "returned" \in Status /\ "raised" \in Status
    /\ "cancelled" \in Status
  BY DEF Status, Ended

\* Why a session may end.
LEMMA CodeFacts ==
    /\ "normal" \in Code /\ "app" \in Code /\ "peer" \in Code
    /\ "violation" \in Code /\ "ping timeout" \in Code
    /\ "going away" \in Code /\ "abnormal" \in Code
    /\ "no status" \in Code /\ "none" \notin Code
  BY DEF Code

\* A reason has a close frame, except for a broken connection.
LEMMA CloseFrameFacts ==
    /\ \A code \in Code \ {"abnormal"} : CloseFrame(code) \in CloseFrames
    /\ "none" \notin CloseFrames /\ "abnormal" \notin CloseFrames
    /\ "response" \notin CloseFrames /\ "101" \notin CloseFrames
    /\ "403" \notin CloseFrames /\ "data" \notin CloseFrames
    /\ "ping" \notin CloseFrames /\ "pong" \notin CloseFrames
    /\ CloseFrame("none") = "none" /\ CloseFrame("abnormal") = "abnormal"
    /\ CloseFrame("going away") = "going away"
  BY DEF CloseFrames, CloseFrame, Code

\* A farewell ends the session for one reason, and writes its frame at most.
LEMMA AbortFacts ==
    ASSUME NEW code \in Code \ {"abnormal"}, Abort(code)
    PROVE  /\ Finish(code) /\ Tell(code)
           /\ \/ UNCHANGED <<closeSent, wire, writePaused>>
              \/ closeSent' = TRUE /\ Write(CloseFrame(code))
           /\ CloseFrame(code) \in Entry
  BY CloseFrameFacts, EntryFacts DEF Abort, SendClose, Finish

\* A farewell keeps the type of the transport.
LEMMA AbortTyped ==
    ASSUME TransportType, NEW code \in Code \ {"abnormal"}, Abort(code),
           UNCHANGED <<unread, answered>>
    PROVE  TransportType'
  <1>1. closing' = TRUE
    BY AbortFacts DEF Finish
  <1>2. wire' \in Seq(Entry) /\ writePaused' \in BOOLEAN
    BY AbortFacts, WriteFacts DEF TransportType
  <1> QED BY <1>1, <1>2 DEF TransportType

\* Telling the application queues at most one message.
LEMMA TellKeepsType ==
    ASSUME QueueType, inbound \in Nat, inbound' = inbound,
           NEW code \in Code, Tell(code)
    PROVE  QueueType'
  <1>1. told' # "none" /\ told' \in Code
    BY CodeFacts DEF Tell, QueueType
  <1>2. CASE told = "none"
    <2>1. queue' = Append(queue, "disconnect") /\ queue \in Seq(Message)
      BY <1>2 DEF Tell, QueueType
    <2>2. queue' \in Seq(Message) /\ Len(queue') = Len(queue) + 1
          /\ Len(queue) \in Nat
      BY <2>1, AppendFacts, MessageFacts
    <2> QED BY <1>1, <1>2, <2>2 DEF QueueType
  <1>3. CASE told # "none"
    BY <1>1, <1>3 DEF Tell, QueueType
  <1> QED BY <1>2, <1>3

\* Taking a message keeps the types.
LEMMA TakeType ==
    ASSUME QueueType, queue # <<>>, TakeMessage
    PROVE  /\ queue' \in Seq(Message) /\ seen' \in Message
           /\ Len(queue') <= Len(queue) /\ Len(queue') \in Nat
           /\ Len(queue) \in Nat
  <1>1. queue \in Seq(Message)
    BY DEF QueueType
  <1> QED BY <1>1, TailFacts DEF TakeMessage

-----------------------------------------------------------------------------
(* Type correctness.                                                        *)

\* The initial state is typed.
LEMMA InitTypeOK == Init => TypeOK
  <1> SUFFICES ASSUME Init PROVE TypeOK
    OBVIOUS
  <1>1. <<>> \in Seq(Entry) /\ <<>> \in Seq(Message) /\ Len(<<>>) = 0
    OBVIOUS
  <1>2. TransportType /\ SessionType
    BY <1>1 DEF Init, TransportType, SessionType
  <1>3. ReadingType
    <2>1. backlog \in 0..AheadBacklog /\ inbound \in 0..MaxInbound
      BY BoundsAssumption DEF Init
    <2>2. disconnected \in BOOLEAN /\ ahead \in {"busy", "answered", "gone"}
      BY DEF Init
    <2>3. readingPaused \in BOOLEAN
      <3>1. readingPaused = (backlog >= PauseAt)
        BY Zenon DEF Init
      <3>2. (backlog >= PauseAt) \in BOOLEAN
        BY <2>1, WatermarkAssumption
      <3> QED BY <3>1, <3>2, Zenon
    <2>4. feeding \in {"head", "idle"} \cup BatchMode
      BY DEF Init
    <2> QED BY <2>1, <2>2, <2>3, <2>4 DEF ReadingType
  <1>4. QueueType
    <2>1. told = "none" /\ queue = <<>> /\ inbound = 0
      BY DEF Init
    <2> QED BY <1>1, <2>1 DEF QueueType
  <1>5. TaskType
    BY StatusFacts DEF Init, TaskType
  <1> QED BY <1>2, <1>3, <1>4, <1>5 DEF TypeOK

\* Every step keeps the types.
LEMMA NextTypeOK ==
    TypeOK /\ [Next]_vars => TypeOK'
  <1> SUFFICES ASSUME TypeOK, [Next]_vars PROVE TypeOK'
    OBVIOUS
  <1> USE DEF TypeOK, transport, reading, request, handshake, farewell, keepalive, app, loop
  <1>1. ASSUME NEW p \in BOOLEAN, BeginWebsocket(p)
        PROVE  TypeOK'
    <2>1. TransportType'
      BY <1>1 DEF BeginWebsocket, TransportType
    <2>2. ReadingType'
      BY <1>1 DEF BeginWebsocket, ReadingType, BatchMode
    <2>3. SessionType'
      BY <1>1 DEF BeginWebsocket, SessionType
    <2>4. QueueType'
      BY <1>1, MessageFacts DEF BeginWebsocket, QueueType, ReadingType
    <2>5. TaskType'
      BY <1>1, StatusFacts DEF BeginWebsocket, TaskType
    <2> QED BY <2>1, <2>2, <2>3, <2>4, <2>5
  <1>2. ASSUME NEW mode \in BatchMode, StartBatch(mode)
        PROVE  TypeOK'
    <2>1. TransportType'
      BY <1>2 DEF StartBatch, TransportType
    <2>2. ReadingType'
      BY <1>2 DEF StartBatch, Alive, Arm, MayRead, BatchMode, ReadingType
    <2>3. SessionType'
      BY <1>2 DEF StartBatch, Alive, Arm, MayRead, BatchMode, SessionType
    <2>4. QueueType'
      BY <1>2 DEF StartBatch, QueueType, ReadingType
    <2>5. TaskType'
      BY <1>2 DEF StartBatch, TaskType
    <2> QED BY <2>1, <2>2, <2>3, <2>4, <2>5
  <1>3. CASE ReceiveMessage
    <2>1. TransportType'
      BY <1>3 DEF ReceiveMessage, TransportType
    <2>2. ReadingType'
      BY <1>3, BoundsAssumption DEF ReceiveMessage, PauseTaken, BatchMode,
         ReadingType
    <2>3. SessionType'
      BY <1>3 DEF ReceiveMessage, BatchMode, SessionType
    <2>4. QueueType'
      BY <1>3, AppendFacts, MessageFacts DEF ReceiveMessage, QueueType,
         ReadingType
    <2>5. TaskType'
      BY <1>3, StatusFacts DEF ReceiveMessage, TaskType
    <2> QED BY <2>1, <2>2, <2>3, <2>4, <2>5
  <1>4. CASE ReceivePing
    <2>1. TransportType'
      BY <1>4, WriteFacts, EntryFacts DEF ReceivePing, TransportType
    <2>2. ReadingType'
      BY <1>4, BoundsAssumption DEF ReceivePing, BatchMode, ReadingType
    <2>3. SessionType'
      BY <1>4 DEF ReceivePing, BatchMode, SessionType
    <2>4. QueueType'
      BY <1>4 DEF ReceivePing, QueueType, ReadingType
    <2>5. TaskType'
      BY <1>4, StatusFacts DEF ReceivePing, TaskType
    <2> QED BY <2>1, <2>2, <2>3, <2>4, <2>5
  <1>5. CASE ReceiveClose
    <2>1. TransportType'
      <3>1. PICK code \in {"peer", "no status"} : Abort(code)
        BY <1>5 DEF ReceiveClose
      <3>2. UNCHANGED <<unread, answered>> /\ TransportType
        BY <1>5 DEF ReceiveClose, TransportType
      <3> QED BY <3>1, <3>2, AbortTyped, CodeFacts
    <2>2. ReadingType'
      BY <1>5 DEF ReceiveClose, Abort, SendClose, Finish, ReadingType,
         BatchMode
    <2>3. SessionType'
      BY <1>5 DEF ReceiveClose, Abort, SendClose, Finish, SessionType
    <2>4. QueueType'
      <3>1. (\E code \in Code : Tell(code)) \/ UNCHANGED <<told, queue>>
        BY <1>5, CodeFacts DEF ReceiveClose, Abort, SendClose, Finish
      <3>2. inbound \in Nat
        BY BoundsAssumption DEF ReadingType
      <3>3. inbound' = inbound
        BY <1>5 DEF ReceiveClose
      <3> QED BY <3>1, <3>2, <3>3, TellKeepsType DEF QueueType
    <2>5. TaskType'
      BY <1>5, StatusFacts DEF ReceiveClose, Abort, SendClose, Finish,
         TaskType
    <2> QED BY <2>1, <2>2, <2>3, <2>4, <2>5
  <1>6. CASE EndOfBatch
    <2>1. TransportType'
      BY <1>6 DEF EndOfBatch, TransportType
    <2>2. ReadingType'
      BY <1>6 DEF EndOfBatch, ReadingType, BatchMode
    <2>3. SessionType'
      BY <1>6 DEF EndOfBatch, SessionType
    <2>4. QueueType'
      BY <1>6 DEF EndOfBatch, QueueType, ReadingType
    <2>5. TaskType'
      BY <1>6, StatusFacts DEF EndOfBatch, TaskType
    <2> QED BY <2>1, <2>2, <2>3, <2>4, <2>5
  <1>7. CASE ViolationFound
    <2>1. TransportType'
      BY <1>7, AbortTyped, CodeFacts DEF ViolationFound
    <2>2. ReadingType'
      BY <1>7 DEF ViolationFound, Abort, SendClose, Finish, ReadingType,
         BatchMode
    <2>3. SessionType'
      BY <1>7 DEF ViolationFound, Abort, SendClose, Finish, SessionType
    <2>4. QueueType'
      <3>1. (\E code \in Code : Tell(code)) \/ UNCHANGED <<told, queue>>
        BY <1>7, CodeFacts DEF ViolationFound, Abort, SendClose, Finish
      <3>2. inbound \in Nat
        BY BoundsAssumption DEF ReadingType
      <3>3. inbound' = inbound
        BY <1>7 DEF ViolationFound
      <3> QED BY <3>1, <3>2, <3>3, TellKeepsType DEF QueueType
    <2>5. TaskType'
      BY <1>7, StatusFacts DEF ViolationFound, Abort, SendClose, Finish,
         TaskType
    <2> QED BY <2>1, <2>2, <2>3, <2>4, <2>5
  <1>8. ASSUME NEW pong \in BOOLEAN, PeerSends(pong)
        PROVE  TypeOK'
    <2>1. TransportType'
      BY <1>8 DEF PeerSends, TransportType
    <2>2. ReadingType'
      BY <1>8 DEF PeerSends, LoopFree, ReadingType, BatchMode
    <2>3. SessionType'
      BY <1>8 DEF PeerSends, LoopFree, SessionType
    <2>4. QueueType'
      BY <1>8 DEF PeerSends, QueueType, ReadingType
    <2>5. TaskType'
      BY <1>8, StatusFacts DEF PeerSends, TaskType
    <2> QED BY <2>1, <2>2, <2>3, <2>4, <2>5
  <1>9. CASE OnPingDue
    <2>1. TransportType'
      <3>1. CASE Abort("ping timeout") /\ UNCHANGED <<unread, answered>>
        BY <3>1, AbortTyped, CodeFacts
      <3>2. CASE Write("ping") /\ answered' = FALSE /\ UNCHANGED <<closing, unread>>
        BY <3>2, WriteFacts, EntryFacts DEF TransportType
      <3> QED BY <1>9, <3>1, <3>2 DEF OnPingDue
    <2>2. ReadingType'
      BY <1>9 DEF OnPingDue, Abort, SendClose, Finish, ReadingType,
         BatchMode
    <2>3. SessionType'
      BY <1>9 DEF OnPingDue, Abort, SendClose, Finish, SessionType
    <2>4. QueueType'
      <3>1. (\E code \in Code : Tell(code)) \/ UNCHANGED <<told, queue>>
        BY <1>9, CodeFacts DEF OnPingDue, Abort, SendClose, Finish
      <3>2. inbound \in Nat
        BY BoundsAssumption DEF ReadingType
      <3>3. inbound' = inbound
        BY <1>9 DEF OnPingDue, Abort
      <3> QED BY <3>1, <3>2, <3>3, TellKeepsType DEF QueueType
    <2>5. TaskType'
      BY <1>9, StatusFacts DEF OnPingDue, Abort, SendClose, Finish, TaskType
    <2> QED BY <2>1, <2>2, <2>3, <2>4, <2>5
  <1>10. CASE EofReceived
    <2>1. TransportType'
      BY <1>10 DEF EofReceived, TransportType
    <2>2. ReadingType'
      BY <1>10 DEF EofReceived, LoopFree, ReadingType, BatchMode
    <2>3. SessionType'
      BY <1>10 DEF EofReceived, LoopFree, SessionType
    <2>4. QueueType'
      BY <1>10 DEF EofReceived, QueueType, ReadingType
    <2>5. TaskType'
      BY <1>10, StatusFacts DEF EofReceived, TaskType
    <2> QED BY <2>1, <2>2, <2>3, <2>4, <2>5
  <1>11. CASE ConnectionLost
    <2>1. TransportType'
      BY <1>11 DEF ConnectionLost, TransportType
    <2>2. ReadingType'
      BY <1>11 DEF ConnectionLost, Woken, Inflight, ReadingType, BatchMode
    <2>3. SessionType'
      BY <1>11 DEF ConnectionLost, Inflight, SessionType
    <2>4. QueueType'
      <3>1. (\E code \in Code : Tell(code)) \/ UNCHANGED <<told, queue>>
        BY <1>11, CodeFacts DEF ConnectionLost
      <3>2. inbound \in Nat
        BY BoundsAssumption DEF ReadingType
      <3>3. inbound' = inbound
        BY <1>11 DEF ConnectionLost
      <3> QED BY <3>1, <3>2, <3>3, TellKeepsType DEF QueueType
    <2>5. TaskType'
      BY <1>11, StatusFacts DEF ConnectionLost, TaskType, Woken, Inflight
    <2> QED BY <2>1, <2>2, <2>3, <2>4, <2>5
  <1>12. CASE ResumeWriting
    <2>1. TransportType'
      BY <1>12 DEF ResumeWriting, TransportType
    <2>2. ReadingType'
      BY <1>12 DEF ResumeWriting, LoopFree, ReadingType, BatchMode
    <2>3. SessionType'
      BY <1>12 DEF ResumeWriting, LoopFree, SessionType
    <2>4. QueueType'
      BY <1>12 DEF ResumeWriting, QueueType, ReadingType
    <2>5. TaskType'
      BY <1>12, StatusFacts DEF ResumeWriting, TaskType
    <2> QED BY <2>1, <2>2, <2>3, <2>4, <2>5
  <1>13. CASE BeginShutdown
    <2>1. TransportType'
      <3>1. CASE Abort("going away") /\ UNCHANGED <<unread, answered>>
        BY <3>1, AbortTyped, CodeFacts
      <3>2. CASE /\ closing' \in BOOLEAN
                 /\ UNCHANGED <<wire, writePaused, unread, answered>>
        BY <3>2 DEF TransportType
      <3> QED
        BY <1>13, <3>1, <3>2
           DEF BeginShutdown, ShutdownConnection, Finish, TransportType
    <2>2. ReadingType'
      BY <1>13 DEF BeginShutdown, ShutdownConnection, Abort, SendClose,
         Finish, ReadingType, BatchMode
    <2>3. SessionType'
      BY <1>13 DEF BeginShutdown, ShutdownConnection, Abort, SendClose,
         Finish, SessionType
    <2>4. QueueType'
      <3>1. (\E code \in Code : Tell(code)) \/ UNCHANGED <<told, queue>>
        BY <1>13, CodeFacts DEF BeginShutdown, ShutdownConnection, Abort,
           SendClose, Finish
      <3>2. inbound \in Nat
        BY BoundsAssumption DEF ReadingType
      <3>3. inbound' = inbound
        BY <1>13 DEF BeginShutdown
      <3> QED BY <3>1, <3>2, <3>3, TellKeepsType DEF QueueType
    <2>5. TaskType'
      BY <1>13, StatusFacts DEF BeginShutdown, ShutdownConnection, Abort,
         SendClose, Finish, TaskType
    <2> QED BY <2>1, <2>2, <2>3, <2>4, <2>5
  <1>14. CASE ForceClose
    <2>1. TransportType'
      BY <1>14 DEF ForceClose, TransportType
    <2>2. ReadingType'
      BY <1>14 DEF ForceClose, LoopFree, ReadingType, BatchMode
    <2>3. SessionType'
      BY <1>14 DEF ForceClose, LoopFree, SessionType
    <2>4. QueueType'
      BY <1>14 DEF ForceClose, QueueType, ReadingType
    <2>5. TaskType'
      BY <1>14, StatusFacts DEF ForceClose, TaskType
    <2> QED BY <2>1, <2>2, <2>3, <2>4, <2>5
  <1>15. CASE AheadReceives
    <2>1. TransportType'
      BY <1>15 DEF AheadReceives, TransportType
    <2>2. ReadingType'
      BY <1>15, BoundsAssumption DEF AheadReceives, LoopFree, ReadingType,
         BatchMode
    <2>3. SessionType'
      BY <1>15 DEF AheadReceives, LoopFree, SessionType
    <2>4. QueueType'
      BY <1>15 DEF AheadReceives, QueueType, ReadingType
    <2>5. TaskType'
      BY <1>15, StatusFacts DEF AheadReceives, TaskType
    <2> QED BY <2>1, <2>2, <2>3, <2>4, <2>5
  <1>16. ASSUME NEW last \in BOOLEAN, AheadAnswers(last)
        PROVE  TypeOK'
    <2>1. TransportType'
      BY <1>16, WriteFacts, EntryFacts DEF AheadAnswers, TransportType
    <2>2. ReadingType'
      BY <1>16 DEF AheadAnswers, LoopFree, ReadingType, BatchMode
    <2>3. SessionType'
      BY <1>16 DEF AheadAnswers, LoopFree, SessionType
    <2>4. QueueType'
      BY <1>16 DEF AheadAnswers, QueueType, ReadingType
    <2>5. TaskType'
      BY <1>16, StatusFacts DEF AheadAnswers, TaskType
    <2> QED BY <2>1, <2>2, <2>3, <2>4, <2>5
  <1>17. ASSUME NEW raised \in BOOLEAN, AheadDone(raised)
        PROVE  TypeOK'
    <2>1. TransportType'
      BY <1>17 DEF AheadDone, TransportType
    <2>2. ReadingType'
      BY <1>17 DEF AheadDone, LoopFree, ReadingType, BatchMode
    <2>3. SessionType'
      BY <1>17 DEF AheadDone, LoopFree, SessionType
    <2>4. QueueType'
      BY <1>17 DEF AheadDone, QueueType, ReadingType
    <2>5. TaskType'
      BY <1>17, StatusFacts DEF AheadDone, TaskType
    <2> QED BY <2>1, <2>2, <2>3, <2>4, <2>5
  <1>18. CASE Start
    <2>1. TransportType'
      BY <1>18 DEF Start, Resumable, TransportType
    <2>2. ReadingType'
      BY <1>18 DEF Start, Resumable, WakeUp, LoopFree, ReadingType,
         BatchMode
    <2>3. SessionType'
      BY <1>18 DEF Start, Resumable, LoopFree, SessionType
    <2>4. QueueType'
      BY <1>18 DEF Start, Resumable, QueueType, ReadingType
    <2>5. TaskType'
      BY <1>18, StatusFacts DEF Start, Resumable, TaskType, WakeUp
    <2> QED BY <2>1, <2>2, <2>3, <2>4, <2>5
  <1>19. CASE TurnGranted
    <2>1. TransportType'
      BY <1>19, WriteFacts, EntryFacts DEF TurnGranted, Accepted, Denied,
         Resumable, TransportType
    <2>2. ReadingType'
      BY <1>19 DEF TurnGranted, Accepted, Denied, Arm, Resumable, WakeUp,
         LoopFree, ReadingType, BatchMode
    <2>3. SessionType'
      BY <1>19 DEF TurnGranted, Accepted, Denied, Arm, Resumable, LoopFree,
         SessionType
    <2>4. QueueType'
      BY <1>19 DEF TurnGranted, Accepted, Denied, Resumable, QueueType,
         ReadingType
    <2>5. TaskType'
      BY <1>19, StatusFacts DEF TurnGranted, Accepted, Denied, Resumable,
         TaskType, WakeUp
    <2> QED BY <2>1, <2>2, <2>3, <2>4, <2>5
  <1>20. CASE MessageArrived
    <2>1. TransportType'
      BY <1>20 DEF MessageArrived, Resumable, TransportType
    <2>2. ReadingType'
      BY <1>20 DEF MessageArrived, TakeMessage, StillPaused, Resumable,
         WakeUp, LoopFree, ReadingType, BatchMode
    <2>3. SessionType'
      BY <1>20 DEF MessageArrived, Resumable, LoopFree, SessionType
    <2>4. QueueType'
      BY <1>20, TakeType DEF MessageArrived, Resumable, QueueType,
         ReadingType
    <2>5. TaskType'
      <3>1. seen' \in Message \cup {"none"}
        BY <1>20, TakeType, MessageFacts DEF MessageArrived, Resumable,
           TaskType
      <3> QED
        BY <1>20, <3>1, StatusFacts DEF MessageArrived, Resumable, TaskType,
           WakeUp
    <2> QED BY <2>1, <2>2, <2>3, <2>4, <2>5
  <1>21. CASE Drained
    <2>1. TransportType'
      BY <1>21 DEF Drained, Resumable, TransportType
    <2>2. ReadingType'
      BY <1>21 DEF Drained, Resumable, WakeUp, LoopFree, ReadingType,
         BatchMode
    <2>3. SessionType'
      BY <1>21 DEF Drained, Resumable, LoopFree, SessionType
    <2>4. QueueType'
      BY <1>21 DEF Drained, Resumable, QueueType, ReadingType
    <2>5. TaskType'
      BY <1>21, StatusFacts DEF Drained, Resumable, TaskType, WakeUp
    <2> QED BY <2>1, <2>2, <2>3, <2>4, <2>5
  <1>22. CASE CancelTask
    <2>1. TransportType'
      BY <1>22 DEF CancelTask, TransportType
    <2>2. ReadingType'
      BY <1>22 DEF CancelTask, Ended, LoopFree, ReadingType, BatchMode
    <2>3. SessionType'
      BY <1>22 DEF CancelTask, LoopFree, SessionType
    <2>4. QueueType'
      BY <1>22 DEF CancelTask, QueueType, ReadingType
    <2>5. TaskType'
      BY <1>22, StatusFacts DEF CancelTask, TaskType
    <2> QED BY <2>1, <2>2, <2>3, <2>4, <2>5
  <1>23. CASE Interrupted
    <2>1. TransportType'
      BY <1>23 DEF Interrupted, TransportType
    <2>2. ReadingType'
      BY <1>23 DEF Interrupted, LoopFree, ReadingType, BatchMode
    <2>3. SessionType'
      BY <1>23 DEF Interrupted, LoopFree, SessionType
    <2>4. QueueType'
      BY <1>23 DEF Interrupted, QueueType, ReadingType
    <2>5. TaskType'
      BY <1>23, StatusFacts DEF Interrupted, TaskType
    <2> QED BY <2>1, <2>2, <2>3, <2>4, <2>5
  <1>24. CASE OnTaskDone
    <2>1. TransportType'
      <3>1. CASE Abort("normal") /\ UNCHANGED <<unread, answered>>
        BY <3>1, AbortTyped, CodeFacts
      <3>2. CASE /\ closing' \in BOOLEAN
                 /\ UNCHANGED <<wire, writePaused, unread, answered>>
        BY <3>2 DEF TransportType
      <3> QED BY <1>24, <3>1, <3>2 DEF OnTaskDone, TransportType
    <2>2. ReadingType'
      BY <1>24 DEF OnTaskDone, Abort, SendClose, Finish, Ended, LoopFree,
         ReadingType, BatchMode
    <2>3. SessionType'
      BY <1>24 DEF OnTaskDone, Abort, SendClose, Finish, LoopFree,
         SessionType
    <2>4. QueueType'
      <3>1. (\E code \in Code : Tell(code)) \/ UNCHANGED <<told, queue>>
        BY <1>24, CodeFacts DEF OnTaskDone, Abort, SendClose, Finish
      <3>2. inbound \in Nat
        BY BoundsAssumption DEF ReadingType
      <3>3. inbound' = inbound
        BY <1>24 DEF OnTaskDone
      <3> QED BY <3>1, <3>2, <3>3, TellKeepsType DEF QueueType
    <2>5. TaskType'
      BY <1>24, StatusFacts DEF OnTaskDone, Abort, SendClose, Finish,
         TaskType
    <2> QED BY <2>1, <2>2, <2>3, <2>4, <2>5
  <1>25. CASE Receive
    <2>1. TransportType'
      BY <1>25 DEF Receive, Running, Resumable, TransportType
    <2>2. ReadingType'
      BY <1>25 DEF Receive, Running, Resumable, TakeMessage, StillPaused,
         LoopFree, ReadingType, BatchMode
    <2>3. SessionType'
      BY <1>25 DEF Receive, Running, Resumable, LoopFree, SessionType
    <2>4. QueueType'
      BY <1>25, TakeType DEF Receive, Running, Resumable, QueueType,
         ReadingType
    <2>5. TaskType'
      <3>1. seen' \in Message \cup {"none"}
        BY <1>25, TakeType, MessageFacts DEF Receive, Running, Resumable,
           TaskType
      <3> QED
        BY <1>25, <3>1, StatusFacts DEF Receive, Running, Resumable,
           TaskType
    <2> QED BY <2>1, <2>2, <2>3, <2>4, <2>5
  <1>26. CASE SendAccept
    <2>1. TransportType'
      BY <1>26, WriteFacts, EntryFacts DEF SendAccept, Running, Resumable,
         Accepted, TransportType
    <2>2. ReadingType'
      BY <1>26 DEF SendAccept, Running, Resumable, Accepted, Arm, LoopFree,
         ReadingType, BatchMode
    <2>3. SessionType'
      BY <1>26 DEF SendAccept, Running, Resumable, Accepted, Arm, LoopFree,
         SessionType
    <2>4. QueueType'
      BY <1>26 DEF SendAccept, Running, Resumable, Accepted, QueueType,
         ReadingType
    <2>5. TaskType'
      BY <1>26, StatusFacts DEF SendAccept, Running, Resumable, Accepted,
         TaskType
    <2> QED BY <2>1, <2>2, <2>3, <2>4, <2>5
  <1>27. CASE SendDeny
    <2>1. TransportType'
      BY <1>27, WriteFacts, EntryFacts DEF SendDeny, Running, Resumable,
         Denied, TransportType
    <2>2. ReadingType'
      BY <1>27 DEF SendDeny, Running, Resumable, Denied, LoopFree,
         ReadingType, BatchMode
    <2>3. SessionType'
      BY <1>27 DEF SendDeny, Running, Resumable, Denied, LoopFree,
         SessionType
    <2>4. QueueType'
      <3>1. (\E code \in Code : Tell(code)) \/ UNCHANGED <<told, queue>>
        BY <1>27, CodeFacts DEF SendDeny, Running, Resumable, Denied
      <3>2. inbound \in Nat
        BY BoundsAssumption DEF ReadingType
      <3>3. inbound' = inbound
        BY <1>27 DEF SendDeny
      <3> QED BY <3>1, <3>2, <3>3, TellKeepsType DEF QueueType
    <2>5. TaskType'
      BY <1>27, StatusFacts DEF SendDeny, Running, Resumable, Denied,
         TaskType
    <2> QED BY <2>1, <2>2, <2>3, <2>4, <2>5
  <1>28. CASE SendMessage
    <2>1. TransportType'
      BY <1>28, WriteFacts, EntryFacts DEF SendMessage, Running, Resumable,
         AwaitDrain, TransportType
    <2>2. ReadingType'
      BY <1>28 DEF SendMessage, Running, Resumable, AwaitDrain, LoopFree,
         ReadingType, BatchMode
    <2>3. SessionType'
      BY <1>28 DEF SendMessage, Running, Resumable, AwaitDrain, LoopFree,
         SessionType
    <2>4. QueueType'
      BY <1>28 DEF SendMessage, Running, Resumable, AwaitDrain, QueueType,
         ReadingType
    <2>5. TaskType'
      BY <1>28, StatusFacts DEF SendMessage, Running, Resumable, AwaitDrain,
         TaskType
    <2> QED BY <2>1, <2>2, <2>3, <2>4, <2>5
  <1>29. CASE SendCloseMessage
    <2>1. TransportType'
      BY <1>29, AbortTyped, CodeFacts DEF SendCloseMessage
    <2>2. ReadingType'
      BY <1>29 DEF SendCloseMessage, Running, Resumable, Abort, SendClose,
         Finish, LoopFree, ReadingType, BatchMode
    <2>3. SessionType'
      BY <1>29 DEF SendCloseMessage, Running, Resumable, Abort, SendClose,
         Finish, LoopFree, SessionType
    <2>4. QueueType'
      <3>1. (\E code \in Code : Tell(code)) \/ UNCHANGED <<told, queue>>
        BY <1>29, CodeFacts DEF SendCloseMessage, Running, Resumable, Abort,
           SendClose, Finish
      <3>2. inbound \in Nat
        BY BoundsAssumption DEF ReadingType
      <3>3. inbound' = inbound
        BY <1>29 DEF SendCloseMessage
      <3> QED BY <3>1, <3>2, <3>3, TellKeepsType DEF QueueType
    <2>5. TaskType'
      BY <1>29, StatusFacts DEF SendCloseMessage, Running, Resumable, Abort,
         SendClose, Finish, TaskType
    <2> QED BY <2>1, <2>2, <2>3, <2>4, <2>5
  <1>30. CASE SendRefused
    <2>1. TransportType'
      BY <1>30 DEF SendRefused, Running, Resumable, TransportType
    <2>2. ReadingType'
      BY <1>30 DEF SendRefused, Running, Resumable, LoopFree, ReadingType,
         BatchMode
    <2>3. SessionType'
      BY <1>30 DEF SendRefused, Running, Resumable, LoopFree, SessionType
    <2>4. QueueType'
      BY <1>30 DEF SendRefused, Running, Resumable, QueueType, ReadingType
    <2>5. TaskType'
      BY <1>30, StatusFacts DEF SendRefused, Running, Resumable, TaskType
    <2> QED BY <2>1, <2>2, <2>3, <2>4, <2>5
  <1>31. ASSUME NEW how \in {"returned", "raised"}, AppEnd(how)
        PROVE  TypeOK'
    <2>1. TransportType'
      BY <1>31 DEF AppEnd, Running, Resumable, TransportType
    <2>2. ReadingType'
      BY <1>31 DEF AppEnd, Running, Resumable, LoopFree, ReadingType,
         BatchMode
    <2>3. SessionType'
      BY <1>31 DEF AppEnd, Running, Resumable, LoopFree, SessionType
    <2>4. QueueType'
      BY <1>31 DEF AppEnd, Running, Resumable, QueueType, ReadingType
    <2>5. TaskType'
      BY <1>31, StatusFacts DEF AppEnd, Running, Resumable, TaskType
    <2> QED BY <2>1, <2>2, <2>3, <2>4, <2>5
  <1>32. CASE UNCHANGED vars
    <2>1. TransportType'
      BY <1>32 DEF vars, TransportType
    <2>2. ReadingType'
      BY <1>32 DEF vars, ReadingType
    <2>3. SessionType'
      BY <1>32 DEF vars, SessionType
    <2>4. QueueType'
      BY <1>32 DEF vars, QueueType, ReadingType
    <2>5. TaskType'
      BY <1>32 DEF vars, TaskType
    <2> QED BY <2>1, <2>2, <2>3, <2>4, <2>5
  <1> QED
    BY <1>1, <1>2, <1>3, <1>4, <1>5, <1>6, <1>7, <1>8, <1>9, <1>10, <1>11,
       <1>12, <1>13, <1>14, <1>15, <1>16, <1>17, <1>18, <1>19, <1>20, <1>21,
       <1>22, <1>23, <1>24, <1>25, <1>26, <1>27, <1>28, <1>29, <1>30, <1>31,
       <1>32 DEF Next, DataReceived, Ahead, TaskStep, AppStep

\* Every variable of an upgraded connection keeps its type, and its queue stays
\* within what the peer sent, the connect and one disconnect.
THEOREM SessionTyped == Spec => []TypeOK
  <1> QED BY InitTypeOK, NextTypeOK, PTL DEF Spec

-----------------------------------------------------------------------------
(* A pause of the reading has an owner. *)

\* Whatever takes a message off the queue resumes the reading with it.
LEMMA TakeKeepsPause ==
    ASSUME TakeMessage, wsState' = wsState, QueueType, queue # <<>>
    PROVE  PauseOwned'
  <1>1. Len(queue') \in Nat /\ ResumeAt \in Nat
    BY TakeType, WatermarkAssumption
  <1>2. wsState = "connected" /\ readingPaused' => ~(Len(queue') <= ResumeAt)
    BY Zenon DEF TakeMessage, StillPaused
  <1> QED BY <1>1, <1>2 DEF PauseOwned

\* Every step keeps PauseOwned.
LEMMA NextPauseOwned ==
    TypeOK /\ PauseOwned /\ [Next]_vars => PauseOwned'
  <1> SUFFICES ASSUME TypeOK, PauseOwned, [Next]_vars PROVE PauseOwned'
    OBVIOUS
  <1> USE DEF transport, reading, request, handshake, farewell, keepalive, app, loop
  <1>1. ASSUME NEW p \in BOOLEAN, BeginWebsocket(p)
        PROVE  PauseOwned'
    BY <1>1 DEF BeginWebsocket, PauseOwned
  <1>2. ASSUME NEW mode \in BatchMode, StartBatch(mode)
        PROVE  PauseOwned'
    BY <1>2 DEF StartBatch, PauseOwned
  <1>3. CASE ReceiveMessage
    <2>1. queue \in Seq(Message)
      BY DEF TypeOK, QueueType
    <2>2. Len(queue') = Len(queue) + 1 /\ Len(queue) \in Nat
      BY <1>3, <2>1, AppendFacts, MessageFacts DEF ReceiveMessage
    <2> QED
      <3>1. readingPaused' => readingPaused \/ Len(queue') >= PauseAt
        BY <1>3, Zenon DEF ReceiveMessage, PauseTaken
      <3>2. wsState' = wsState /\ closing' = closing
        BY <1>3 DEF ReceiveMessage
      <3> QED BY <2>2, <3>1, <3>2, WatermarkAssumption DEF PauseOwned
  <1>4. CASE ReceivePing
    BY <1>4 DEF ReceivePing, PauseOwned
  <1>5. CASE ReceiveClose
    BY <1>5 DEF ReceiveClose, Abort, Finish, PauseOwned
  <1>6. CASE EndOfBatch
    BY <1>6 DEF EndOfBatch, PauseOwned
  <1>7. CASE ViolationFound
    BY <1>7 DEF ViolationFound, Abort, Finish, PauseOwned
  <1>8. ASSUME NEW pong \in BOOLEAN, PeerSends(pong)
        PROVE  PauseOwned'
    BY <1>8 DEF PeerSends, PauseOwned
  <1>9. CASE OnPingDue
    BY <1>9 DEF OnPingDue, Abort, Finish, PauseOwned
  <1>10. CASE EofReceived
    BY <1>10 DEF EofReceived, PauseOwned
  <1>11. CASE ConnectionLost
    BY <1>11 DEF ConnectionLost, PauseOwned
  <1>12. CASE ResumeWriting
    BY <1>12 DEF ResumeWriting, PauseOwned
  <1>13. CASE BeginShutdown
    BY <1>13 DEF BeginShutdown, ShutdownConnection, Abort, Finish,
       PauseOwned
  <1>14. CASE ForceClose
    BY <1>14 DEF ForceClose, PauseOwned
  <1>15. CASE AheadReceives
    BY <1>15 DEF AheadReceives, PauseOwned
  <1>16. ASSUME NEW last \in BOOLEAN, AheadAnswers(last)
        PROVE  PauseOwned'
    BY <1>16 DEF AheadAnswers, PauseOwned
  <1>17. ASSUME NEW raised \in BOOLEAN, AheadDone(raised)
        PROVE  PauseOwned'
    BY <1>17 DEF AheadDone, PauseOwned
  <1>18. CASE Start
    BY <1>18 DEF Start, PauseOwned
  <1>19. CASE TurnGranted
    BY <1>19 DEF TurnGranted, Accepted, Denied, PauseOwned
  <1>20. CASE MessageArrived
    BY <1>20, TakeKeepsPause DEF MessageArrived, TypeOK
  <1>21. CASE Drained
    BY <1>21 DEF Drained, PauseOwned
  <1>22. CASE CancelTask
    BY <1>22 DEF CancelTask, PauseOwned
  <1>23. CASE Interrupted
    BY <1>23 DEF Interrupted, PauseOwned
  <1>24. CASE OnTaskDone
    BY <1>24 DEF OnTaskDone, Abort, Finish, PauseOwned
  <1>25. CASE Receive
    <2>1. CASE queue # <<>> /\ TakeMessage
      BY <1>25, <2>1, TakeKeepsPause DEF Receive, TypeOK
    <2>2. CASE UNCHANGED <<queue, readingPaused>>
      BY <1>25, <2>2 DEF Receive, PauseOwned
    <2> QED BY <1>25, <2>1, <2>2 DEF Receive
  <1>26. CASE SendAccept
    BY <1>26 DEF SendAccept, Accepted, PauseOwned
  <1>27. CASE SendDeny
    BY <1>27 DEF SendDeny, Denied, PauseOwned
  <1>28. CASE SendMessage
    BY <1>28 DEF SendMessage, PauseOwned
  <1>29. CASE SendCloseMessage
    BY <1>29 DEF SendCloseMessage, Abort, Finish, PauseOwned
  <1>30. CASE SendRefused
    BY <1>30 DEF SendRefused, PauseOwned
  <1>31. ASSUME NEW how \in {"returned", "raised"}, AppEnd(how)
        PROVE  PauseOwned'
    BY <1>31 DEF AppEnd, PauseOwned
  <1>32. CASE UNCHANGED vars
    BY <1>32 DEF vars, PauseOwned
  <1> QED
    BY <1>1, <1>2, <1>3, <1>4, <1>5, <1>6, <1>7, <1>8, <1>9, <1>10, <1>11,
       <1>12, <1>13, <1>14, <1>15, <1>16, <1>17, <1>18, <1>19, <1>20, <1>21,
       <1>22, <1>23, <1>24, <1>25, <1>26, <1>27, <1>28, <1>29, <1>30, <1>31,
       <1>32 DEF Next, DataReceived, Ahead, TaskStep, AppStep

\* Once the application has accepted, whoever stopped the reading (a full queue,
\* the request ahead, the hold before the accept), it is stopped for a queue
\* that the next receive() calls take below the low watermark.
THEOREM PauseIsOwned == Spec => []PauseOwned
  <1>1. Init => PauseOwned
    BY DEF Init, PauseOwned
  <1> QED BY <1>1, NextPauseOwned, SessionTyped, PTL DEF Spec

-----------------------------------------------------------------------------
(* No wake-up is lost. *)

\* The disconnect that ends a session is put into the queue.
LEMMA TellWakes ==
    ASSUME QueueType, BlockedIsWoken, NEW code \in Code, Tell(code),
           task' = "recv" => task = "recv"
    PROVE  BlockedIsWoken'
  <1>1. CASE told = "none"
    BY <1>1, AppendFacts, MessageFacts DEF Tell, QueueType, BlockedIsWoken
  <1>2. CASE told # "none"
    BY <1>2 DEF Tell, BlockedIsWoken
  <1> QED BY <1>1, <1>2

\* Every step keeps BlockedIsWoken.
LEMMA NextBlockedIsWoken ==
    TypeOK /\ BlockedIsWoken /\ [Next]_vars => BlockedIsWoken'
  <1> SUFFICES ASSUME TypeOK, BlockedIsWoken, [Next]_vars PROVE BlockedIsWoken'
    OBVIOUS
  <1> USE DEF transport, reading, request, handshake, farewell, keepalive, app, loop
  <1>1. ASSUME NEW p \in BOOLEAN, BeginWebsocket(p)
        PROVE  BlockedIsWoken'
    BY <1>1 DEF BeginWebsocket, BlockedIsWoken
  <1>2. ASSUME NEW mode \in BatchMode, StartBatch(mode)
        PROVE  BlockedIsWoken'
    BY <1>2 DEF StartBatch, BlockedIsWoken
  <1>3. CASE ReceiveMessage
    BY <1>3, AppendFacts, MessageFacts DEF ReceiveMessage, TypeOK,
       QueueType, BlockedIsWoken
  <1>4. CASE ReceivePing
    BY <1>4 DEF ReceivePing, BlockedIsWoken
  <1>5. CASE ReceiveClose
    <2>1. (\E code \in Code : Tell(code)) \/ UNCHANGED <<told, queue>>
      BY <1>5, CodeFacts DEF ReceiveClose, Abort, SendClose, Finish
    <2>2. task' = "recv" => task = "recv"
      BY <1>5 DEF ReceiveClose, Abort, SendClose, Finish
    <2> QED BY <2>1, <2>2, TellWakes DEF TypeOK, QueueType, BlockedIsWoken
  <1>6. CASE EndOfBatch
    BY <1>6 DEF EndOfBatch, BlockedIsWoken
  <1>7. CASE ViolationFound
    <2>1. (\E code \in Code : Tell(code)) \/ UNCHANGED <<told, queue>>
      BY <1>7, CodeFacts DEF ViolationFound, Abort, SendClose, Finish
    <2>2. task' = "recv" => task = "recv"
      BY <1>7 DEF ViolationFound, Abort, SendClose, Finish
    <2> QED BY <2>1, <2>2, TellWakes DEF TypeOK, QueueType, BlockedIsWoken
  <1>8. ASSUME NEW pong \in BOOLEAN, PeerSends(pong)
        PROVE  BlockedIsWoken'
    BY <1>8 DEF PeerSends, BlockedIsWoken
  <1>9. CASE OnPingDue
    <2>1. (\E code \in Code : Tell(code)) \/ UNCHANGED <<told, queue>>
      BY <1>9, CodeFacts DEF OnPingDue, Abort, SendClose, Finish
    <2>2. task' = "recv" => task = "recv"
      BY <1>9 DEF OnPingDue, Abort, SendClose, Finish
    <2> QED BY <2>1, <2>2, TellWakes DEF TypeOK, QueueType, BlockedIsWoken
  <1>10. CASE EofReceived
    BY <1>10 DEF EofReceived, BlockedIsWoken
  <1>11. CASE ConnectionLost
    <2>1. (\E code \in Code : Tell(code)) \/ UNCHANGED <<told, queue>>
      BY <1>11, CodeFacts DEF ConnectionLost
    <2>2. task' = "recv" => task = "recv"
      BY <1>11 DEF ConnectionLost
    <2> QED BY <2>1, <2>2, TellWakes DEF TypeOK, QueueType, BlockedIsWoken
  <1>12. CASE ResumeWriting
    BY <1>12 DEF ResumeWriting, BlockedIsWoken
  <1>13. CASE BeginShutdown
    <2>1. (\E code \in Code : Tell(code)) \/ UNCHANGED <<told, queue>>
      BY <1>13, CodeFacts DEF BeginShutdown, ShutdownConnection, Abort,
         SendClose, Finish
    <2>2. task' = "recv" => task = "recv"
      BY <1>13 DEF BeginShutdown, ShutdownConnection, Abort, SendClose,
         Finish
    <2> QED BY <2>1, <2>2, TellWakes DEF TypeOK, QueueType, BlockedIsWoken
  <1>14. CASE ForceClose
    BY <1>14 DEF ForceClose, BlockedIsWoken
  <1>15. CASE AheadReceives
    BY <1>15 DEF AheadReceives, BlockedIsWoken
  <1>16. ASSUME NEW last \in BOOLEAN, AheadAnswers(last)
        PROVE  BlockedIsWoken'
    BY <1>16 DEF AheadAnswers, BlockedIsWoken
  <1>17. ASSUME NEW raised \in BOOLEAN, AheadDone(raised)
        PROVE  BlockedIsWoken'
    BY <1>17 DEF AheadDone, BlockedIsWoken
  <1>18. CASE Start
    BY <1>18 DEF Start, Resumable, BlockedIsWoken
  <1>19. CASE TurnGranted
    BY <1>19 DEF TurnGranted, Resumable, BlockedIsWoken
  <1>20. CASE MessageArrived
    BY <1>20 DEF MessageArrived, TakeMessage, Resumable, BlockedIsWoken
  <1>21. CASE Drained
    BY <1>21 DEF Drained, Resumable, BlockedIsWoken
  <1>22. CASE CancelTask
    BY <1>22 DEF CancelTask, Ended, BlockedIsWoken
  <1>23. CASE Interrupted
    BY <1>23 DEF Interrupted, BlockedIsWoken
  <1>24. CASE OnTaskDone
    <2>1. (\E code \in Code : Tell(code)) \/ UNCHANGED <<told, queue>>
      BY <1>24, CodeFacts DEF OnTaskDone, Abort, SendClose, Finish, Ended
    <2>2. task' = "recv" => task = "recv"
      BY <1>24 DEF OnTaskDone, Abort, SendClose, Finish, Ended
    <2> QED BY <2>1, <2>2, TellWakes DEF TypeOK, QueueType, BlockedIsWoken
  <1>25. CASE Receive
    BY <1>25 DEF Receive, Running, Resumable, TakeMessage, BlockedIsWoken
  <1>26. CASE SendAccept
    BY <1>26 DEF SendAccept, Running, Resumable, BlockedIsWoken
  <1>27. CASE SendDeny
    <2>1. (\E code \in Code : Tell(code)) \/ UNCHANGED <<told, queue>>
      BY <1>27, CodeFacts DEF SendDeny, Running, Resumable
    <2>2. task' = "recv" => task = "recv"
      BY <1>27 DEF SendDeny, Running, Resumable
    <2> QED BY <2>1, <2>2, TellWakes DEF TypeOK, QueueType, BlockedIsWoken
  <1>28. CASE SendMessage
    BY <1>28 DEF SendMessage, Running, Resumable, AwaitDrain, BlockedIsWoken
  <1>29. CASE SendCloseMessage
    <2>1. (\E code \in Code : Tell(code)) \/ UNCHANGED <<told, queue>>
      BY <1>29, CodeFacts DEF SendCloseMessage, Running, Resumable, Abort,
         SendClose, Finish
    <2>2. task' = "recv" => task = "recv"
      BY <1>29 DEF SendCloseMessage, Running, Resumable, Abort, SendClose,
         Finish
    <2> QED BY <2>1, <2>2, TellWakes DEF TypeOK, QueueType, BlockedIsWoken
  <1>30. CASE SendRefused
    BY <1>30 DEF SendRefused, Running, Resumable, BlockedIsWoken
  <1>31. ASSUME NEW how \in {"returned", "raised"}, AppEnd(how)
        PROVE  BlockedIsWoken'
    BY <1>31 DEF AppEnd, Running, Resumable, BlockedIsWoken
  <1>32. CASE UNCHANGED vars
    BY <1>32 DEF vars, BlockedIsWoken
  <1> QED
    BY <1>1, <1>2, <1>3, <1>4, <1>5, <1>6, <1>7, <1>8, <1>9, <1>10, <1>11,
       <1>12, <1>13, <1>14, <1>15, <1>16, <1>17, <1>18, <1>19, <1>20, <1>21,
       <1>22, <1>23, <1>24, <1>25, <1>26, <1>27, <1>28, <1>29, <1>30, <1>31,
       <1>32 DEF Next, DataReceived, Ahead, TaskStep, AppStep

\* An application that waits in receive() when its session ends, for whatever
\* reason, has a message to wake it.
THEOREM NobodyLeftWaiting == Spec => []BlockedIsWoken
  <1>1. Init => BlockedIsWoken
    BY DEF Init, BlockedIsWoken
  <1> QED BY <1>1, NextBlockedIsWoken, SessionTyped, PTL DEF Spec

-----------------------------------------------------------------------------
(* The cancel of connection_lost. *)

\* Where a cancelled task may be: only connection_lost cancels, which has put
\* the disconnect, and the wake-up by that comes first.
CancelInv ==
    /\ mustCancel \/ cancelling => disconnected
    /\ disconnected => told # "none" /\ closing
    /\ mustCancel => task # "recv"
    /\ cancelling /\ ~owed => task # "recv"
    /\ disconnected /\ feeding \in BatchMode => task = "run"

\* Every step keeps CancelInv.
LEMMA NextCancelInv ==
    TypeOK /\ CancelInv /\ [Next]_vars => CancelInv'
  <1> SUFFICES ASSUME TypeOK, CancelInv, [Next]_vars PROVE CancelInv'
    OBVIOUS
  <1> USE DEF transport, reading, request, handshake, farewell, keepalive, app, loop
  <1>1. ASSUME NEW p \in BOOLEAN, BeginWebsocket(p)
        PROVE  CancelInv'
    BY <1>1 DEF BeginWebsocket, LoopFree, BatchMode, CancelInv
  <1>2. ASSUME NEW mode \in BatchMode, StartBatch(mode)
        PROVE  CancelInv'
    BY <1>2 DEF StartBatch, Alive, MayRead, BatchMode, LoopFree, CancelInv
  <1>3. CASE ReceiveMessage
    BY <1>3 DEF ReceiveMessage, BatchMode, LoopFree, CancelInv
  <1>4. CASE ReceivePing
    BY <1>4 DEF ReceivePing, BatchMode, LoopFree, CancelInv
  <1>5. CASE ReceiveClose
    BY <1>5, CodeFacts DEF ReceiveClose, Abort, Finish, Tell, LoopFree,
       BatchMode, CancelInv
  <1>6. CASE EndOfBatch
    BY <1>6 DEF EndOfBatch, LoopFree, BatchMode, CancelInv
  <1>7. CASE ViolationFound
    BY <1>7, CodeFacts DEF ViolationFound, Abort, Finish, Tell, LoopFree,
       BatchMode, CancelInv
  <1>8. ASSUME NEW pong \in BOOLEAN, PeerSends(pong)
        PROVE  CancelInv'
    BY <1>8 DEF PeerSends, LoopFree, BatchMode, CancelInv
  <1>9. CASE OnPingDue
    BY <1>9, CodeFacts DEF OnPingDue, Abort, Finish, Tell, LoopFree,
       BatchMode, CancelInv
  <1>10. CASE EofReceived
    BY <1>10 DEF EofReceived, LoopFree, BatchMode, CancelInv
  <1>11. CASE ConnectionLost
    BY <1>11, CodeFacts DEF ConnectionLost, Tell, Woken, Inflight, LoopFree,
       BatchMode, CancelInv
  <1>12. CASE ResumeWriting
    BY <1>12 DEF ResumeWriting, LoopFree, BatchMode, CancelInv
  <1>13. CASE BeginShutdown
    BY <1>13, CodeFacts DEF BeginShutdown, ShutdownConnection, Abort,
       Finish, Tell, LoopFree, BatchMode, CancelInv
  <1>14. CASE ForceClose
    BY <1>14 DEF ForceClose, LoopFree, BatchMode, CancelInv
  <1>15. CASE AheadReceives
    BY <1>15 DEF AheadReceives, LoopFree, BatchMode, CancelInv
  <1>16. ASSUME NEW last \in BOOLEAN, AheadAnswers(last)
        PROVE  CancelInv'
    BY <1>16 DEF AheadAnswers, LoopFree, BatchMode, CancelInv
  <1>17. ASSUME NEW raised \in BOOLEAN, AheadDone(raised)
        PROVE  CancelInv'
    BY <1>17 DEF AheadDone, LoopFree, BatchMode, CancelInv
  <1>18. CASE Start
    BY <1>18 DEF Start, Resumable, WakeUp, LoopFree, BatchMode, CancelInv
  <1>19. CASE TurnGranted
    BY <1>19 DEF TurnGranted, Accepted, Denied, Resumable, WakeUp, LoopFree,
       BatchMode, CancelInv
  <1>20. CASE MessageArrived
    BY <1>20 DEF MessageArrived, Resumable, WakeUp, LoopFree, BatchMode,
       CancelInv
  <1>21. CASE Drained
    BY <1>21 DEF Drained, Resumable, WakeUp, LoopFree, BatchMode, CancelInv
  <1>22. CASE CancelTask
    BY <1>22 DEF CancelTask, Ended, LoopFree, BatchMode, TypeOK, TaskType,
       CancelInv
  <1>23. CASE Interrupted
    BY <1>23 DEF Interrupted, LoopFree, BatchMode, CancelInv
  <1>24. CASE OnTaskDone
    BY <1>24, CodeFacts DEF OnTaskDone, Abort, Finish, Tell, Ended,
       LoopFree, BatchMode, CancelInv
  <1>25. CASE Receive
    BY <1>25 DEF Receive, Running, Resumable, LoopFree, BatchMode, CancelInv
  <1>26. CASE SendAccept
    BY <1>26 DEF SendAccept, Running, Resumable, Accepted, LoopFree,
       BatchMode, CancelInv
  <1>27. CASE SendDeny
    BY <1>27, CodeFacts DEF SendDeny, Running, Resumable, Tell, Denied,
       LoopFree, BatchMode, CancelInv
  <1>28. CASE SendMessage
    BY <1>28 DEF SendMessage, Running, Resumable, AwaitDrain, LoopFree,
       BatchMode, CancelInv
  <1>29. CASE SendCloseMessage
    BY <1>29, CodeFacts DEF SendCloseMessage, Running, Resumable, Abort,
       Finish, Tell, LoopFree, BatchMode, CancelInv
  <1>30. CASE SendRefused
    BY <1>30 DEF SendRefused, Running, Resumable, LoopFree, BatchMode,
       CancelInv
  <1>31. ASSUME NEW how \in {"returned", "raised"}, AppEnd(how)
        PROVE  CancelInv'
    BY <1>31 DEF AppEnd, Running, Resumable, LoopFree, BatchMode, CancelInv
  <1>32. CASE UNCHANGED vars
    BY <1>32 DEF vars, CancelInv
  <1> QED
    BY <1>1, <1>2, <1>3, <1>4, <1>5, <1>6, <1>7, <1>8, <1>9, <1>10, <1>11,
       <1>12, <1>13, <1>14, <1>15, <1>16, <1>17, <1>18, <1>19, <1>20, <1>21,
       <1>22, <1>23, <1>24, <1>25, <1>26, <1>27, <1>28, <1>29, <1>30, <1>31,
       <1>32 DEF Next, DataReceived, Ahead, TaskStep, AppStep

\* The task.cancel that connection_lost defers by one turn of the loop does not
\* overtake a message: an application waiting in receive() gets it first.
THEOREM MessageBeforeCancel == Spec => []CancelOvertakesNothing
  <1>1. Init => CancelInv
    BY DEF Init, CancelInv, BatchMode
  <1>2. CancelInv => CancelOvertakesNothing
    BY DEF CancelInv, CancelOvertakesNothing
  <1> QED BY <1>1, <1>2, NextCancelInv, SessionTyped, PTL DEF Spec

-----------------------------------------------------------------------------
(* No connection without a task. *)

\* What the end of the task can rely on.
OwnerInv ==
    /\ told # "none" => closing \/ task = "deny"
    /\ wsState = "closed" => told # "none"
    /\ mustCancel \/ cancelling => disconnected /\ task # "none"
    /\ feeding = "head" => task = "none"
    /\ disconnected => closing
    /\ task = "cancelled" => disconnected
    /\ task # "none" => wsState # "http"
    /\ task = "returned" /\ wsState = "connecting" => told # "none"
    /\ SessionEndsWithTask

\* Every step keeps OwnerInv.
LEMMA NextOwnerInv ==
    ASSUME "returns_early" \notin Habits, TypeOK, OwnerInv, [Next]_vars
    PROVE  OwnerInv'
  <1> USE DEF transport, reading, request, handshake, farewell, keepalive, app, loop
  <1>1. ASSUME NEW p \in BOOLEAN, BeginWebsocket(p)
        PROVE  OwnerInv'
    BY <1>1 DEF BeginWebsocket, LoopFree, BatchMode, OwnerInv,
       SessionEndsWithTask
  <1>2. ASSUME NEW mode \in BatchMode, StartBatch(mode)
        PROVE  OwnerInv'
    BY <1>2 DEF StartBatch, MayRead, BatchMode, LoopFree, OwnerInv,
       SessionEndsWithTask
  <1>3. CASE ReceiveMessage
    BY <1>3 DEF ReceiveMessage, BatchMode, LoopFree, OwnerInv,
       SessionEndsWithTask
  <1>4. CASE ReceivePing
    BY <1>4 DEF ReceivePing, BatchMode, LoopFree, OwnerInv,
       SessionEndsWithTask
  <1>5. CASE ReceiveClose
    BY <1>5, CodeFacts DEF ReceiveClose, Abort, Finish, Tell, LoopFree,
       BatchMode, OwnerInv, SessionEndsWithTask
  <1>6. CASE EndOfBatch
    BY <1>6 DEF EndOfBatch, LoopFree, BatchMode, OwnerInv,
       SessionEndsWithTask
  <1>7. CASE ViolationFound
    BY <1>7, CodeFacts DEF ViolationFound, Abort, Finish, Tell, LoopFree,
       BatchMode, OwnerInv, SessionEndsWithTask
  <1>8. ASSUME NEW pong \in BOOLEAN, PeerSends(pong)
        PROVE  OwnerInv'
    BY <1>8 DEF PeerSends, LoopFree, BatchMode, OwnerInv,
       SessionEndsWithTask
  <1>9. CASE OnPingDue
    BY <1>9, CodeFacts DEF OnPingDue, Abort, Finish, Tell, LoopFree,
       BatchMode, OwnerInv, SessionEndsWithTask
  <1>10. CASE EofReceived
    BY <1>10 DEF EofReceived, LoopFree, BatchMode, OwnerInv,
       SessionEndsWithTask
  <1>11. CASE ConnectionLost
    BY <1>11, CodeFacts DEF ConnectionLost, Tell, Inflight, LoopFree,
       BatchMode, OwnerInv, SessionEndsWithTask
  <1>12. CASE ResumeWriting
    BY <1>12 DEF ResumeWriting, LoopFree, BatchMode, OwnerInv,
       SessionEndsWithTask
  <1>13. CASE BeginShutdown
    BY <1>13, CodeFacts DEF BeginShutdown, ShutdownConnection, Abort,
       Finish, Tell, LoopFree, BatchMode, OwnerInv, SessionEndsWithTask
  <1>14. CASE ForceClose
    BY <1>14 DEF ForceClose, LoopFree, BatchMode, OwnerInv,
       SessionEndsWithTask
  <1>15. CASE AheadReceives
    BY <1>15 DEF AheadReceives, LoopFree, BatchMode, OwnerInv,
       SessionEndsWithTask
  <1>16. ASSUME NEW last \in BOOLEAN, AheadAnswers(last)
        PROVE  OwnerInv'
    BY <1>16 DEF AheadAnswers, LoopFree, BatchMode, OwnerInv,
       SessionEndsWithTask
  <1>17. ASSUME NEW raised \in BOOLEAN, AheadDone(raised)
        PROVE  OwnerInv'
    BY <1>17 DEF AheadDone, LoopFree, BatchMode, OwnerInv,
       SessionEndsWithTask
  <1>18. CASE Start
    BY <1>18 DEF Start, Resumable, WakeUp, LoopFree, BatchMode, OwnerInv,
       SessionEndsWithTask
  <1>19. CASE TurnGranted
    BY <1>19 DEF TurnGranted, Accepted, Denied, Resumable, WakeUp, LoopFree,
       BatchMode, OwnerInv, SessionEndsWithTask
  <1>20. CASE MessageArrived
    BY <1>20 DEF MessageArrived, Resumable, WakeUp, LoopFree, BatchMode,
       OwnerInv, SessionEndsWithTask
  <1>21. CASE Drained
    BY <1>21 DEF Drained, Resumable, WakeUp, LoopFree, BatchMode, OwnerInv,
       SessionEndsWithTask
  <1>22. CASE CancelTask
    BY <1>22 DEF CancelTask, Ended, LoopFree, BatchMode, OwnerInv,
       SessionEndsWithTask
  <1>23. CASE Interrupted
    BY <1>23 DEF Interrupted, LoopFree, BatchMode, OwnerInv,
       SessionEndsWithTask
  <1>24. CASE OnTaskDone
    BY <1>24, CodeFacts DEF OnTaskDone, Abort, Finish, Tell, Ended,
       LoopFree, BatchMode, TypeOK, SessionType, OwnerInv, SessionEndsWithTask
  <1>25. CASE Receive
    BY <1>25 DEF Receive, Running, Resumable, LoopFree, BatchMode, OwnerInv,
       SessionEndsWithTask
  <1>26. CASE SendAccept
    BY <1>26 DEF SendAccept, Running, Resumable, Accepted, LoopFree,
       BatchMode, OwnerInv, SessionEndsWithTask
  <1>27. CASE SendDeny
    BY <1>27, CodeFacts DEF SendDeny, Running, Resumable, Tell, Denied,
       LoopFree, BatchMode, OwnerInv, SessionEndsWithTask
  <1>28. CASE SendMessage
    BY <1>28 DEF SendMessage, Running, Resumable, AwaitDrain, LoopFree,
       BatchMode, OwnerInv, SessionEndsWithTask
  <1>29. CASE SendCloseMessage
    BY <1>29, CodeFacts DEF SendCloseMessage, Running, Resumable, Abort,
       Finish, Tell, LoopFree, BatchMode, OwnerInv, SessionEndsWithTask
  <1>30. CASE SendRefused
    BY <1>30 DEF SendRefused, Running, Resumable, LoopFree, BatchMode,
       OwnerInv, SessionEndsWithTask
  <1>31. ASSUME NEW how \in {"returned", "raised"}, AppEnd(how)
        PROVE  OwnerInv'
    BY <1>31 DEF AppEnd, Running, Resumable, LoopFree, BatchMode, OwnerInv,
       SessionEndsWithTask
  <1>32. CASE UNCHANGED vars
    BY <1>32 DEF vars, OwnerInv, SessionEndsWithTask
  <1> QED
    BY <1>1, <1>2, <1>3, <1>4, <1>5, <1>6, <1>7, <1>8, <1>9, <1>10, <1>11,
       <1>12, <1>13, <1>14, <1>15, <1>16, <1>17, <1>18, <1>19, <1>20, <1>21,
       <1>22, <1>23, <1>24, <1>25, <1>26, <1>27, <1>28, <1>29, <1>30, <1>31,
       <1>32 DEF Next, DataReceived, Ahead, TaskStep, AppStep

\* A handler that answers its handshake never leaves a socket without a task
\* behind, whether it returns, raises or is cancelled.
THEOREM NoSocketDangles ==
    ASSUME "returns_early" \notin Habits
    PROVE  Spec => []SessionEndsWithTask
  <1>1. Init => OwnerInv
    BY DEF Init, OwnerInv, SessionEndsWithTask
  <1>2. TypeOK /\ OwnerInv /\ [Next]_vars => OwnerInv'
    BY NextOwnerInv
  <1>3. OwnerInv => SessionEndsWithTask
    BY DEF OwnerInv
  <1> QED BY <1>1, <1>2, <1>3, SessionTyped, PTL DEF Spec

-----------------------------------------------------------------------------
(* What is written last, and in which order. *)

\* Where the application has been told why the session ended, nothing ends it
\* a second time on an open transport.
ToldInv ==
    /\ told # "none" => closing \/ (wsState = "closed" /\ task # "accept")
    /\ feeding # "idle" => closing \/ told = "none"
    /\ feeding = "head" => ~pingArmed
    /\ pingArmed => closing \/ wsState = "connected"

\* Every step keeps ToldInv.
LEMMA NextToldInv ==
    ASSUME ToldInv, [Next]_vars
    PROVE  ToldInv'
  <1> USE DEF transport, reading, request, handshake, farewell, keepalive, app, loop
  <1>1. ASSUME NEW p \in BOOLEAN, BeginWebsocket(p)
        PROVE  ToldInv'
    BY <1>1 DEF BeginWebsocket, LoopFree, BatchMode, ToldInv
  <1>2. ASSUME NEW mode \in BatchMode, StartBatch(mode)
        PROVE  ToldInv'
    BY <1>2 DEF StartBatch, MayRead, Alive, Arm, BatchMode, LoopFree, ToldInv
  <1>3. CASE ReceiveMessage
    BY <1>3 DEF ReceiveMessage, BatchMode, LoopFree, ToldInv
  <1>4. CASE ReceivePing
    BY <1>4 DEF ReceivePing, BatchMode, LoopFree, ToldInv
  <1>5. CASE ReceiveClose
    BY <1>5, CodeFacts DEF ReceiveClose, Abort, Finish, Tell, LoopFree,
       BatchMode, ToldInv
  <1>6. CASE EndOfBatch
    BY <1>6 DEF EndOfBatch, LoopFree, BatchMode, ToldInv
  <1>7. CASE ViolationFound
    BY <1>7, CodeFacts DEF ViolationFound, Abort, Finish, Tell, LoopFree,
       BatchMode, ToldInv
  <1>8. ASSUME NEW pong \in BOOLEAN, PeerSends(pong)
        PROVE  ToldInv'
    BY <1>8 DEF PeerSends, LoopFree, BatchMode, ToldInv
  <1>9. CASE OnPingDue
    BY <1>9, CodeFacts DEF OnPingDue, Abort, Finish, Tell, LoopFree,
       BatchMode, ToldInv
  <1>10. CASE EofReceived
    BY <1>10 DEF EofReceived, LoopFree, BatchMode, ToldInv
  <1>11. CASE ConnectionLost
    BY <1>11, CodeFacts DEF ConnectionLost, Tell, Inflight, LoopFree,
       BatchMode, ToldInv
  <1>12. CASE ResumeWriting
    BY <1>12 DEF ResumeWriting, LoopFree, BatchMode, ToldInv
  <1>13. CASE BeginShutdown
    BY <1>13, CodeFacts DEF BeginShutdown, ShutdownConnection, Abort,
       Finish, Tell, LoopFree, BatchMode, ToldInv
  <1>14. CASE ForceClose
    BY <1>14 DEF ForceClose, LoopFree, BatchMode, ToldInv
  <1>15. CASE AheadReceives
    BY <1>15 DEF AheadReceives, LoopFree, BatchMode, ToldInv
  <1>16. ASSUME NEW last \in BOOLEAN, AheadAnswers(last)
        PROVE  ToldInv'
    BY <1>16 DEF AheadAnswers, LoopFree, BatchMode, ToldInv
  <1>17. ASSUME NEW raised \in BOOLEAN, AheadDone(raised)
        PROVE  ToldInv'
    BY <1>17 DEF AheadDone, LoopFree, BatchMode, ToldInv
  <1>18. CASE Start
    BY <1>18 DEF Start, Resumable, WakeUp, LoopFree, BatchMode, ToldInv
  <1>19. CASE TurnGranted
    BY <1>19 DEF TurnGranted, Accepted, Denied, Resumable, WakeUp, LoopFree,
       BatchMode, ToldInv
  <1>20. CASE MessageArrived
    BY <1>20 DEF MessageArrived, Resumable, WakeUp, LoopFree, BatchMode,
       ToldInv
  <1>21. CASE Drained
    BY <1>21 DEF Drained, Resumable, WakeUp, LoopFree, BatchMode, ToldInv
  <1>22. CASE CancelTask
    BY <1>22 DEF CancelTask, Ended, LoopFree, BatchMode, ToldInv
  <1>23. CASE Interrupted
    BY <1>23 DEF Interrupted, LoopFree, BatchMode, ToldInv
  <1>24. CASE OnTaskDone
    BY <1>24, CodeFacts DEF OnTaskDone, Abort, Finish, Tell, Ended,
       LoopFree, BatchMode, ToldInv
  <1>25. CASE Receive
    BY <1>25 DEF Receive, Running, Resumable, LoopFree, BatchMode,
       ToldInv
  <1>26. CASE SendAccept
    BY <1>26 DEF SendAccept, Running, Resumable, Accepted, LoopFree,
       BatchMode, ToldInv
  <1>27. CASE SendDeny
    BY <1>27, CodeFacts DEF SendDeny, Running, Resumable, Tell, Denied,
       LoopFree, BatchMode, ToldInv
  <1>28. CASE SendMessage
    BY <1>28 DEF SendMessage, Running, Resumable, AwaitDrain, LoopFree,
       BatchMode, ToldInv
  <1>29. CASE SendCloseMessage
    BY <1>29, CodeFacts DEF SendCloseMessage, Running, Resumable, Abort,
       Finish, Tell, LoopFree, BatchMode, ToldInv
  <1>30. CASE SendRefused
    BY <1>30 DEF SendRefused, Running, Resumable, LoopFree, BatchMode,
       ToldInv
  <1>31. ASSUME NEW how \in {"returned", "raised"}, AppEnd(how)
        PROVE  ToldInv'
    BY <1>31 DEF AppEnd, Running, Resumable, LoopFree, BatchMode, ToldInv
  <1>32. CASE UNCHANGED vars
    BY <1>32 DEF vars, ToldInv
  <1> QED
    BY <1>1, <1>2, <1>3, <1>4, <1>5, <1>6, <1>7, <1>8, <1>9, <1>10, <1>11,
       <1>12, <1>13, <1>14, <1>15, <1>16, <1>17, <1>18, <1>19, <1>20, <1>21,
       <1>22, <1>23, <1>24, <1>25, <1>26, <1>27, <1>28, <1>29, <1>30, <1>31,
       <1>32 DEF Next, DataReceived, Ahead, TaskStep, AppStep

\* A connection that said its farewell is closing, and said it last and for
\* the reason its application knows.
FarewellInv ==
    /\ CloseIsLast
    /\ CloseToldTruly
    /\ \A i \in DOMAIN wire : wire[i] \in CloseFrames \cup {"403"} => closing

\* A write behind a farewell writes nothing, and a farewell becomes the last
\* entry.
LEMMA WriteKeepsLast ==
    ASSUME TransportType, FarewellInv, NEW e \in Entry, Write(e)
    PROVE  /\ CloseIsLast'
           /\ closing => wire' = wire
           /\ ~closing =>
                  /\ \A i \in DOMAIN wire' :
                         wire'[i] \in CloseFrames \cup {"403"} => wire'[i] = e
  <1>1. CASE closing
    BY <1>1 DEF Write, CloseIsLast, FarewellInv
  <1>2. CASE ~closing
    <2>1. wire \in Seq(Entry) /\ wire' = Append(wire, e)
      BY <1>2 DEF Write, TransportType
    <2>2. /\ Len(wire') = Len(wire) + 1 /\ Len(wire) \in Nat
          /\ DOMAIN wire = 1..Len(wire) /\ DOMAIN wire' = 1..Len(wire')
          /\ \A i \in 1..Len(wire) : wire'[i] = wire[i]
          /\ wire'[Len(wire) + 1] = e
      BY <2>1, AppendFacts
    <2>3. \A i \in 1..Len(wire) : wire[i] \notin CloseFrames \cup {"403"}
      BY <1>2, <2>2 DEF FarewellInv
    <2>4. \A i \in 1..Len(wire') : i = Len(wire') \/ i \in 1..Len(wire)
      BY <2>2
    <2>5. \A i \in DOMAIN wire' :
              wire'[i] \in CloseFrames \cup {"403"} => i = Len(wire')
      BY <2>2, <2>3, <2>4
    <2>6. CloseIsLast'
      BY <2>5 DEF CloseIsLast
    <2>7. \A i \in DOMAIN wire' :
              wire'[i] \in CloseFrames \cup {"403"} => wire'[i] = e
      BY <2>2, <2>5
    <2> QED BY <1>2, <2>6, <2>7
  <1> QED BY <1>1, <1>2

\* Where nothing is written, a close frame keeps its reason.
LEMMA QuietStep ==
    ASSUME FarewellInv, wire' = wire, closing => closing',
           \/ told' = told
           \/ \E code \in Code : Tell(code)
    PROVE  FarewellInv'
  <1>1. CASE told' = told
    BY <1>1 DEF FarewellInv, CloseIsLast, CloseToldTruly
  <1>2. CASE told' # told
    <2>1. told = "none"
      BY <1>2 DEF Tell
    <2>2. \A i \in DOMAIN wire : wire[i] \notin CloseFrames
      BY <2>1, CloseFrameFacts DEF FarewellInv, CloseToldTruly
    <2> QED BY <2>2 DEF FarewellInv, CloseIsLast, CloseToldTruly
  <1> QED BY <1>1, <1>2

\* An ordinary write keeps the invariant.
LEMMA PlainWrite ==
    ASSUME TransportType, FarewellInv, NEW e \in Entry,
           e \notin CloseFrames \cup {"403"},
           Write(e), closing => closing', told' = told
    PROVE  FarewellInv'
  <1>1. CASE closing
    <2>1. wire' = wire
      BY <1>1, WriteKeepsLast
    <2> QED BY <2>1, QuietStep
  <1>2. CASE ~closing
    <2>1. /\ CloseIsLast'
          /\ \A i \in DOMAIN wire' : wire'[i] \notin CloseFrames \cup {"403"}
      BY <1>2, WriteKeepsLast
    <2> QED BY <2>1 DEF FarewellInv, CloseToldTruly
  <1> QED BY <1>1, <1>2

\* The close frame goes out with the reason the application is told.
LEMMA AbortKeepsFarewell ==
    ASSUME TransportType, FarewellInv, closing \/ told = "none",
           NEW code \in Code \ {"abnormal"}, Abort(code)
    PROVE  FarewellInv'
  <1>1. closing' /\ Tell(code) /\ CloseFrame(code) \in Entry
    BY AbortFacts DEF Finish
  <1>2. CASE wire' = wire
    BY <1>1, <1>2, QuietStep
  <1>3. CASE wire' # wire
    <2>1. Write(CloseFrame(code)) /\ ~closing
      BY <1>3, AbortFacts DEF Write
    <2>2. told' = code
      BY <1>1, <2>1 DEF Tell
    <2>3. /\ CloseIsLast'
          /\ \A i \in DOMAIN wire' : wire'[i] \in CloseFrames \cup {"403"}
                 => wire'[i] = CloseFrame(code)
      BY <1>1, <2>1, WriteKeepsLast
    <2> QED BY <1>1, <2>2, <2>3 DEF FarewellInv, CloseToldTruly
  <1> QED BY <1>2, <1>3

\* The 403 of a denied handshake is no close frame.
LEMMA DenialKeepsFarewell ==
    ASSUME TransportType, FarewellInv, Denied,
           told' = told \/ \E code \in Code : Tell(code)
    PROVE  FarewellInv'
  <1>1. closing' /\ Write("403")
    BY DEF Denied
  <1>2. CASE closing
    <2>1. wire' = wire
      BY <1>1, <1>2, WriteKeepsLast, EntryFacts
    <2> QED BY <1>1, <2>1, QuietStep
  <1>3. CASE ~closing
    <2>1. /\ CloseIsLast'
          /\ \A i \in DOMAIN wire' : wire'[i] \in CloseFrames \cup {"403"}
                 => wire'[i] = "403"
      BY <1>1, <1>3, WriteKeepsLast, EntryFacts
    <2> QED BY <1>1, <2>1, CloseFrameFacts DEF FarewellInv, CloseToldTruly
  <1> QED BY <1>2, <1>3

\* Every step keeps FarewellInv.
LEMMA NextFarewellInv ==
    ASSUME TypeOK, ToldInv, FarewellInv, [Next]_vars
    PROVE  FarewellInv'
  <1>a. TransportType
    BY DEF TypeOK
  <1> USE DEF transport, reading, request, handshake, farewell, keepalive, app, loop
  <1>1. ASSUME NEW p \in BOOLEAN, BeginWebsocket(p)
        PROVE  FarewellInv'
    BY <1>1, QuietStep DEF BeginWebsocket
  <1>2. ASSUME NEW mode \in BatchMode, StartBatch(mode)
        PROVE  FarewellInv'
    BY <1>2, QuietStep DEF StartBatch
  <1>3. CASE ReceiveMessage
    BY <1>3, QuietStep DEF ReceiveMessage
  <1>4. CASE ReceivePing
    BY <1>4, <1>a, PlainWrite, EntryFacts, CloseFrameFacts DEF ReceivePing
  <1>5. CASE ReceiveClose
    <2>1. closing \/ told = "none"
      BY <1>5 DEF ReceiveClose, ToldInv
    <2>2. PICK code \in {"peer", "no status"} : Abort(code)
      BY <1>5 DEF ReceiveClose
    <2> QED BY <1>a, <2>1, <2>2, AbortKeepsFarewell, CodeFacts
  <1>6. CASE EndOfBatch
    BY <1>6, QuietStep DEF EndOfBatch
  <1>7. CASE ViolationFound
    <2>1. (closing \/ told = "none") /\ Abort("violation")
      BY <1>7 DEF ViolationFound, ToldInv
    <2> QED BY <1>a, <2>1, AbortKeepsFarewell, CodeFacts
  <1>8. ASSUME NEW pong \in BOOLEAN, PeerSends(pong)
        PROVE  FarewellInv'
    BY <1>8, QuietStep DEF PeerSends
  <1>9. CASE OnPingDue
    <2>1. CASE Abort("ping timeout")
      <3>1. closing \/ told = "none"
        BY <1>9 DEF OnPingDue, ToldInv
      <3> QED BY <1>a, <2>1, <3>1, AbortKeepsFarewell, CodeFacts
    <2>2. CASE Write("ping") /\ UNCHANGED <<closing, told>>
      BY <1>a, <2>2, PlainWrite, EntryFacts, CloseFrameFacts
    <2> QED BY <1>9, <2>1, <2>2 DEF OnPingDue
  <1>10. CASE EofReceived
    BY <1>10, QuietStep DEF EofReceived
  <1>11. CASE ConnectionLost
    BY <1>11, QuietStep, CodeFacts DEF ConnectionLost
  <1>12. CASE ResumeWriting
    BY <1>12, QuietStep DEF ResumeWriting
  <1>13. CASE BeginShutdown
    <2>1. CASE wsState = "connected" /\ Abort("going away")
      <3>1. closing \/ told = "none"
        BY <2>1 DEF ToldInv
      <3> QED BY <1>a, <2>1, <3>1, AbortKeepsFarewell, CodeFacts
    <2>2. CASE wire' = wire /\ told' = told /\ (closing => closing')
      BY <2>2, QuietStep
    <2>3. CASE wire' = wire /\ Finish("going away")
      BY <2>3, QuietStep, CodeFacts DEF Finish
    <2> QED BY <1>13, <2>1, <2>2, <2>3 DEF BeginShutdown, ShutdownConnection
  <1>14. CASE ForceClose
    BY <1>14, QuietStep DEF ForceClose
  <1>15. CASE AheadReceives
    BY <1>15, QuietStep DEF AheadReceives
  <1>16. ASSUME NEW last \in BOOLEAN, AheadAnswers(last)
        PROVE  FarewellInv'
    BY <1>16, <1>a, PlainWrite, EntryFacts, CloseFrameFacts DEF AheadAnswers
  <1>17. ASSUME NEW raised \in BOOLEAN, AheadDone(raised)
        PROVE  FarewellInv'
    BY <1>17, QuietStep DEF AheadDone
  <1>18. CASE Start
    BY <1>18, QuietStep DEF Start
  <1>19. CASE TurnGranted
    <2>1. CASE Write("101") /\ UNCHANGED <<closing, told>>
      BY <1>a, <2>1, PlainWrite, EntryFacts, CloseFrameFacts
    <2>2. CASE Denied /\ told' = told
      BY <1>a, <2>2, DenialKeepsFarewell
    <2> QED BY <1>19, <2>1, <2>2 DEF TurnGranted, Accepted
  <1>20. CASE MessageArrived
    BY <1>20, QuietStep DEF MessageArrived
  <1>21. CASE Drained
    BY <1>21, QuietStep DEF Drained
  <1>22. CASE CancelTask
    BY <1>22, QuietStep DEF CancelTask
  <1>23. CASE Interrupted
    BY <1>23, QuietStep DEF Interrupted
  <1>24. CASE OnTaskDone
    <2>1. CASE wsState = "connected" /\ Abort("normal")
      <3>1. closing \/ told = "none"
        BY <2>1 DEF ToldInv
      <3> QED BY <1>a, <2>1, <3>1, AbortKeepsFarewell, CodeFacts
    <2>2. CASE wire' = wire /\ told' = told /\ (closing => closing')
      BY <2>2, QuietStep
    <2> QED BY <1>24, <2>1, <2>2 DEF OnTaskDone
  <1>25. CASE Receive
    BY <1>25, QuietStep DEF Receive
  <1>26. CASE SendAccept
    <2>1. CASE Write("101") /\ UNCHANGED <<closing, told>>
      BY <1>a, <2>1, PlainWrite, EntryFacts, CloseFrameFacts
    <2>2. CASE UNCHANGED <<wire, closing, told>>
      BY <2>2, QuietStep
    <2> QED BY <1>26, <2>1, <2>2 DEF SendAccept, Accepted
  <1>27. CASE SendDeny
    <2>1. Tell("normal")
      BY <1>27 DEF SendDeny
    <2>2. CASE Denied
      BY <1>a, <2>1, <2>2, DenialKeepsFarewell, CodeFacts
    <2>3. CASE UNCHANGED transport
      BY <2>1, <2>3, QuietStep, CodeFacts
    <2> QED BY <1>27, <2>2, <2>3 DEF SendDeny
  <1>28. CASE SendMessage
    BY <1>28, <1>a, PlainWrite, EntryFacts, CloseFrameFacts DEF SendMessage
  <1>29. CASE SendCloseMessage
    <2>1. (closing \/ told = "none") /\ Abort("app")
      BY <1>29 DEF SendCloseMessage, ToldInv
    <2> QED BY <1>a, <2>1, AbortKeepsFarewell, CodeFacts
  <1>30. CASE SendRefused
    BY <1>30, QuietStep DEF SendRefused
  <1>31. ASSUME NEW how \in {"returned", "raised"}, AppEnd(how)
        PROVE  FarewellInv'
    BY <1>31, QuietStep DEF AppEnd
  <1>32. CASE UNCHANGED vars
    BY <1>32, QuietStep DEF vars
  <1> QED
    BY <1>1, <1>2, <1>3, <1>4, <1>5, <1>6, <1>7, <1>8, <1>9, <1>10, <1>11,
       <1>12, <1>13, <1>14, <1>15, <1>16, <1>17, <1>18, <1>19, <1>20, <1>21,
       <1>22, <1>23, <1>24, <1>25, <1>26, <1>27, <1>28, <1>29, <1>30, <1>31,
       <1>32 DEF Next, DataReceived, Ahead, TaskStep, AppStep

\* The invariant about farewells.
LEMMA FarewellHolds == Spec => []FarewellInv
  <1>1. Init => ToldInv /\ FarewellInv
    BY DEF Init, ToldInv, FarewellInv, CloseIsLast, CloseToldTruly
  <1>2. TypeOK /\ ToldInv /\ FarewellInv /\ [Next]_vars
            => ToldInv' /\ FarewellInv'
    BY NextToldInv, NextFarewellInv
  <1> QED BY <1>1, <1>2, SessionTyped, PTL DEF Spec

\* None of the seven paths that end a session writes behind another's close
\* frame or 403.
THEOREM NothingBehindClose == Spec => []CloseIsLast
  <1>1. FarewellInv => CloseIsLast
    BY DEF FarewellInv
  <1> QED BY <1>1, FarewellHolds, PTL

\* The application is told the code of the close frame that went out, whatever
\* else would have ended the session behind it.
THEOREM GoodbyeIsTold == Spec => []CloseToldTruly
  <1>1. FarewellInv => CloseToldTruly
    BY DEF FarewellInv, CloseToldTruly
  <1> QED BY <1>1, FarewellHolds, PTL

\* A write that respects the turnstile keeps the order.
LEMMA WriteKeepsOrder ==
    ASSUME TransportType, ResponseBeforeHandshake, NEW e \in Entry,
           wire' = wire \/ wire' = Append(wire, e),
           e \in {"101", "403"} => ahead # "busy",
           e = "response" => ahead = "busy",
           ahead # "busy" => ahead' # "busy"
    PROVE  ResponseBeforeHandshake'
  <1>1. CASE wire' = wire
    BY <1>1 DEF ResponseBeforeHandshake
  <1>2. CASE wire' = Append(wire, e)
    <2>1. wire \in Seq(Entry)
      BY DEF TransportType
    <2>2. /\ Len(wire') = Len(wire) + 1 /\ Len(wire) \in Nat
          /\ DOMAIN wire = 1..Len(wire) /\ DOMAIN wire' = 1..Len(wire')
          /\ \A i \in 1..Len(wire) : wire'[i] = wire[i]
          /\ wire'[Len(wire) + 1] = e
      BY <1>2, <2>1, AppendFacts
    <2>3. SUFFICES ASSUME NEW i \in 1..(Len(wire) + 1)
          PROVE  /\ wire'[i] = "response" =>
                        \A j \in 1..(i - 1) : wire'[j] \notin {"101", "403"}
                 /\ wire'[i] \in {"101", "403"} => ahead' # "busy"
      BY <2>2 DEF ResponseBeforeHandshake
    <2>4. CASE i \in 1..Len(wire)
      BY <2>2, <2>4 DEF ResponseBeforeHandshake
    <2>5. CASE i = Len(wire) + 1
      BY <2>2, <2>5 DEF ResponseBeforeHandshake
    <2> QED BY <2>2, <2>4, <2>5
  <1> QED BY <1>1, <1>2

\* A farewell is neither a response nor the answer to the handshake.
LEMMA AbortKeepsOrder ==
    ASSUME TransportType, ResponseBeforeHandshake,
           NEW code \in Code \ {"abnormal"}, Abort(code), UNCHANGED ahead
    PROVE  ResponseBeforeHandshake'
  <1>1. /\ CloseFrame(code) \in Entry
        /\ CloseFrame(code) \notin {"101", "403", "response"}
    BY AbortFacts, CloseFrameFacts
  <1>2. wire' = wire \/ wire' = Append(wire, CloseFrame(code))
    BY AbortFacts DEF Write
  <1> QED BY <1>1, <1>2, WriteKeepsOrder

\* Every step keeps ResponseBeforeHandshake.
LEMMA NextInOrder ==
    TypeOK /\ ResponseBeforeHandshake /\ [Next]_vars => ResponseBeforeHandshake'
  <1> SUFFICES ASSUME TypeOK, ResponseBeforeHandshake, [Next]_vars
               PROVE  ResponseBeforeHandshake'
    OBVIOUS
  <1>a. TransportType
    BY DEF TypeOK
  <1> USE DEF transport, reading, request, handshake, farewell, keepalive, app, loop
  <1>1. ASSUME NEW p \in BOOLEAN, BeginWebsocket(p)
        PROVE  ResponseBeforeHandshake'
    BY <1>1, <1>a, WriteKeepsOrder, EntryFacts DEF BeginWebsocket
  <1>2. ASSUME NEW mode \in BatchMode, StartBatch(mode)
        PROVE  ResponseBeforeHandshake'
    BY <1>2, <1>a, WriteKeepsOrder, EntryFacts DEF StartBatch
  <1>3. CASE ReceiveMessage
    BY <1>3, <1>a, WriteKeepsOrder, EntryFacts DEF ReceiveMessage
  <1>4. CASE ReceivePing
    BY <1>4, <1>a, WriteKeepsOrder, EntryFacts DEF ReceivePing, Write
  <1>5. CASE ReceiveClose
    <2>1. PICK code \in {"peer", "no status"} : Abort(code)
      BY <1>5 DEF ReceiveClose
    <2>2. UNCHANGED ahead
      BY <1>5 DEF ReceiveClose
    <2> QED BY <1>a, <2>1, <2>2, AbortKeepsOrder, CodeFacts
  <1>6. CASE EndOfBatch
    BY <1>6, <1>a, WriteKeepsOrder, EntryFacts DEF EndOfBatch
  <1>7. CASE ViolationFound
    BY <1>7, <1>a, AbortKeepsOrder, CodeFacts DEF ViolationFound
  <1>8. ASSUME NEW pong \in BOOLEAN, PeerSends(pong)
        PROVE  ResponseBeforeHandshake'
    BY <1>8, <1>a, WriteKeepsOrder, EntryFacts DEF PeerSends
  <1>9. CASE OnPingDue
    <2>1. CASE Abort("ping timeout") /\ UNCHANGED ahead
      BY <1>a, <2>1, AbortKeepsOrder, CodeFacts
    <2>2. CASE Write("ping") /\ UNCHANGED ahead
      BY <1>a, <2>2, WriteKeepsOrder, EntryFacts DEF Write
    <2> QED BY <1>9, <2>1, <2>2 DEF OnPingDue
  <1>10. CASE EofReceived
    BY <1>10, <1>a, WriteKeepsOrder, EntryFacts DEF EofReceived
  <1>11. CASE ConnectionLost
    BY <1>11, <1>a, WriteKeepsOrder, EntryFacts DEF ConnectionLost
  <1>12. CASE ResumeWriting
    BY <1>12, <1>a, WriteKeepsOrder, EntryFacts DEF ResumeWriting
  <1>13. CASE BeginShutdown
    <2>1. CASE Abort("going away") /\ UNCHANGED ahead
      BY <1>a, <2>1, AbortKeepsOrder, CodeFacts
    <2>2. CASE UNCHANGED <<wire, ahead>>
      BY <2>2 DEF ResponseBeforeHandshake
    <2> QED BY <1>13, <2>1, <2>2 DEF BeginShutdown, ShutdownConnection
  <1>14. CASE ForceClose
    BY <1>14, <1>a, WriteKeepsOrder, EntryFacts DEF ForceClose
  <1>15. CASE AheadReceives
    BY <1>15, <1>a, WriteKeepsOrder, EntryFacts DEF AheadReceives
  <1>16. ASSUME NEW last \in BOOLEAN, AheadAnswers(last)
        PROVE  ResponseBeforeHandshake'
    BY <1>16, <1>a, WriteKeepsOrder, EntryFacts DEF AheadAnswers, Write
  <1>17. ASSUME NEW raised \in BOOLEAN, AheadDone(raised)
        PROVE  ResponseBeforeHandshake'
    BY <1>17, <1>a, WriteKeepsOrder, EntryFacts DEF AheadDone
  <1>18. CASE Start
    BY <1>18, <1>a, WriteKeepsOrder, EntryFacts DEF Start
  <1>19. CASE TurnGranted
    BY <1>19, <1>a, WriteKeepsOrder, EntryFacts DEF TurnGranted, Accepted,
       Turn, Denied, Write
  <1>20. CASE MessageArrived
    BY <1>20, <1>a, WriteKeepsOrder, EntryFacts DEF MessageArrived
  <1>21. CASE Drained
    BY <1>21, <1>a, WriteKeepsOrder, EntryFacts DEF Drained
  <1>22. CASE CancelTask
    BY <1>22, <1>a, WriteKeepsOrder, EntryFacts DEF CancelTask
  <1>23. CASE Interrupted
    BY <1>23, <1>a, WriteKeepsOrder, EntryFacts DEF Interrupted
  <1>24. CASE OnTaskDone
    <2>1. CASE Abort("normal") /\ UNCHANGED ahead
      BY <1>a, <2>1, AbortKeepsOrder, CodeFacts
    <2>2. CASE UNCHANGED <<wire, ahead>>
      BY <2>2 DEF ResponseBeforeHandshake
    <2> QED BY <1>24, <2>1, <2>2 DEF OnTaskDone
  <1>25. CASE Receive
    BY <1>25, <1>a, WriteKeepsOrder, EntryFacts DEF Receive
  <1>26. CASE SendAccept
    BY <1>26, <1>a, WriteKeepsOrder, EntryFacts DEF SendAccept, Accepted,
       Turn, Write
  <1>27. CASE SendDeny
    BY <1>27, <1>a, WriteKeepsOrder, EntryFacts DEF SendDeny, Denied, Turn,
       Write
  <1>28. CASE SendMessage
    BY <1>28, <1>a, WriteKeepsOrder, EntryFacts DEF SendMessage, Write
  <1>29. CASE SendCloseMessage
    BY <1>29, <1>a, AbortKeepsOrder, CodeFacts DEF SendCloseMessage
  <1>30. CASE SendRefused
    BY <1>30, <1>a, WriteKeepsOrder, EntryFacts DEF SendRefused
  <1>31. ASSUME NEW how \in {"returned", "raised"}, AppEnd(how)
        PROVE  ResponseBeforeHandshake'
    BY <1>31, <1>a, WriteKeepsOrder, EntryFacts DEF AppEnd
  <1>32. CASE UNCHANGED vars
    BY <1>32, <1>a, WriteKeepsOrder, EntryFacts DEF vars
  <1> QED
    BY <1>1, <1>2, <1>3, <1>4, <1>5, <1>6, <1>7, <1>8, <1>9, <1>10, <1>11,
       <1>12, <1>13, <1>14, <1>15, <1>16, <1>17, <1>18, <1>19, <1>20, <1>21,
       <1>22, <1>23, <1>24, <1>25, <1>26, <1>27, <1>28, <1>29, <1>30, <1>31,
       <1>32 DEF Next, DataReceived, Ahead, TaskStep, AppStep

\* The write turnstile holds the answer to the handshake back until the request
\* pipelined ahead of it has been answered.
THEOREM HandshakeAwaitsTurn == Spec => []ResponseBeforeHandshake
  <1>1. Init => ResponseBeforeHandshake
    BY DEF Init, ResponseBeforeHandshake
  <1> QED BY <1>1, NextInOrder, SessionTyped, PTL DEF Spec
-----------------------------------------------------------------------------
(* No peer is dropped that answered. *)

\* A pong that has come and not been handled is among the unread bytes while the
\* countdown runs, and only an accepted session is probed.
PingInv ==
    /\ pingArmed /\ pendingPing /\ answered => unread
    /\ pingArmed => wsState = "connected"
    /\ wsState \in {"http", "connecting"} => ~pendingPing
    /\ task = "accept" => ~pendingPing /\ wsState \in {"connecting", "closed"}
    /\ feeding = "head" => wsState = "http"
    /\ wsState = "http" => task = "none" /\ ~mustCancel /\ ~cancelling

\* Every step keeps PingInv.
LEMMA NextPingInv ==
    TypeOK /\ PingInv /\ [Next]_vars => PingInv'
  <1> SUFFICES ASSUME TypeOK, PingInv, [Next]_vars PROVE PingInv'
    OBVIOUS
  <1> USE DEF transport, reading, request, handshake, farewell, keepalive, app, loop
  <1>1. ASSUME NEW p \in BOOLEAN, BeginWebsocket(p)
        PROVE  PingInv'
    BY <1>1 DEF BeginWebsocket, LoopFree, BatchMode, TypeOK, TransportType,
       SessionType, PingInv
  <1>2. ASSUME NEW mode \in BatchMode, StartBatch(mode)
        PROVE  PingInv'
    BY <1>2 DEF StartBatch, Alive, Arm, MayRead, BatchMode, LoopFree,
       TypeOK, TransportType, SessionType, PingInv
  <1>3. CASE ReceiveMessage
    BY <1>3 DEF ReceiveMessage, BatchMode, LoopFree, TypeOK, TransportType,
       SessionType, PingInv
  <1>4. CASE ReceivePing
    BY <1>4 DEF ReceivePing, BatchMode, LoopFree, TypeOK, TransportType,
       SessionType, PingInv
  <1>5. CASE ReceiveClose
    BY <1>5 DEF ReceiveClose, Abort, Finish, LoopFree, BatchMode, TypeOK,
       TransportType, SessionType, PingInv
  <1>6. CASE EndOfBatch
    BY <1>6 DEF EndOfBatch, LoopFree, BatchMode, TypeOK, TransportType,
       SessionType, PingInv
  <1>7. CASE ViolationFound
    BY <1>7 DEF ViolationFound, Abort, Finish, LoopFree, BatchMode, TypeOK,
       TransportType, SessionType, PingInv
  <1>8. ASSUME NEW pong \in BOOLEAN, PeerSends(pong)
        PROVE  PingInv'
    BY <1>8 DEF PeerSends, LoopFree, BatchMode, TypeOK, TransportType,
       SessionType, PingInv
  <1>9. CASE OnPingDue
    BY <1>9 DEF OnPingDue, Abort, Finish, LoopFree, BatchMode, TypeOK,
       TransportType, SessionType, PingInv
  <1>10. CASE EofReceived
    BY <1>10 DEF EofReceived, LoopFree, BatchMode, TypeOK, TransportType,
       SessionType, PingInv
  <1>11. CASE ConnectionLost
    BY <1>11 DEF ConnectionLost, Inflight, LoopFree, BatchMode, TypeOK,
       TransportType, SessionType, PingInv
  <1>12. CASE ResumeWriting
    BY <1>12 DEF ResumeWriting, LoopFree, BatchMode, TypeOK, TransportType,
       SessionType, PingInv
  <1>13. CASE BeginShutdown
    BY <1>13 DEF BeginShutdown, ShutdownConnection, Abort, Finish, LoopFree,
       BatchMode, TypeOK, TransportType, SessionType, PingInv
  <1>14. CASE ForceClose
    BY <1>14 DEF ForceClose, LoopFree, BatchMode, TypeOK, TransportType,
       SessionType, PingInv
  <1>15. CASE AheadReceives
    BY <1>15 DEF AheadReceives, LoopFree, BatchMode, TypeOK, TransportType,
       SessionType, PingInv
  <1>16. ASSUME NEW last \in BOOLEAN, AheadAnswers(last)
        PROVE  PingInv'
    BY <1>16 DEF AheadAnswers, LoopFree, BatchMode, TypeOK, TransportType,
       SessionType, PingInv
  <1>17. ASSUME NEW raised \in BOOLEAN, AheadDone(raised)
        PROVE  PingInv'
    BY <1>17 DEF AheadDone, LoopFree, BatchMode, TypeOK, TransportType,
       SessionType, PingInv
  <1>18. CASE Start
    BY <1>18 DEF Start, Resumable, WakeUp, LoopFree, BatchMode, TypeOK,
       TransportType, SessionType, PingInv
  <1>19. CASE TurnGranted
    BY <1>19 DEF TurnGranted, Accepted, Denied, Arm, Resumable, WakeUp,
       LoopFree, BatchMode, TypeOK, TransportType, SessionType, PingInv
  <1>20. CASE MessageArrived
    BY <1>20 DEF MessageArrived, Resumable, WakeUp, LoopFree, BatchMode,
       TypeOK, TransportType, SessionType, PingInv
  <1>21. CASE Drained
    BY <1>21 DEF Drained, Resumable, WakeUp, LoopFree, BatchMode, TypeOK,
       TransportType, SessionType, PingInv
  <1>22. CASE CancelTask
    BY <1>22 DEF CancelTask, Ended, LoopFree, BatchMode, TypeOK,
       TransportType, SessionType, PingInv
  <1>23. CASE Interrupted
    BY <1>23 DEF Interrupted, LoopFree, BatchMode, TypeOK, TransportType,
       SessionType, PingInv
  <1>24. CASE OnTaskDone
    BY <1>24 DEF OnTaskDone, Abort, Finish, Ended, LoopFree, BatchMode,
       TypeOK, TransportType, SessionType, PingInv
  <1>25. CASE Receive
    BY <1>25 DEF Receive, Running, Resumable, LoopFree, BatchMode, TypeOK,
       TransportType, SessionType, PingInv
  <1>26. CASE SendAccept
    BY <1>26 DEF SendAccept, Running, Resumable, Accepted, Arm, LoopFree,
       BatchMode, TypeOK, TransportType, SessionType, PingInv
  <1>27. CASE SendDeny
    BY <1>27 DEF SendDeny, Running, Resumable, Denied, LoopFree, BatchMode,
       TypeOK, TransportType, SessionType, PingInv
  <1>28. CASE SendMessage
    BY <1>28 DEF SendMessage, Running, Resumable, AwaitDrain, LoopFree,
       BatchMode, TypeOK, TransportType, SessionType, PingInv
  <1>29. CASE SendCloseMessage
    BY <1>29 DEF SendCloseMessage, Running, Resumable, Abort, Finish,
       LoopFree, BatchMode, TypeOK, TransportType, SessionType, PingInv
  <1>30. CASE SendRefused
    BY <1>30 DEF SendRefused, Running, Resumable, LoopFree, BatchMode,
       TypeOK, TransportType, SessionType, PingInv
  <1>31. ASSUME NEW how \in {"returned", "raised"}, AppEnd(how)
        PROVE  PingInv'
    BY <1>31 DEF AppEnd, Running, Resumable, LoopFree, BatchMode, TypeOK,
       TransportType, SessionType, PingInv
  <1>32. CASE UNCHANGED vars
    BY <1>32 DEF vars, PingInv
  <1> QED
    BY <1>1, <1>2, <1>3, <1>4, <1>5, <1>6, <1>7, <1>8, <1>9, <1>10, <1>11,
       <1>12, <1>13, <1>14, <1>15, <1>16, <1>17, <1>18, <1>19, <1>20, <1>21,
       <1>22, <1>23, <1>24, <1>25, <1>26, <1>27, <1>28, <1>29, <1>30, <1>31,
       <1>32 DEF Next, DataReceived, Ahead, TaskStep, AppStep

\* Only the ping timer gives the ping timeout as a reason.
LEMMA TimeoutIsFair ==
    ASSUME PingInv, [Next]_vars, told' = "ping timeout", told # told', ~closing
    PROVE  ~answered \/ readingPaused
  <1> USE DEF transport, reading, request, handshake, farewell, keepalive, app, loop
  <1>1. ASSUME NEW p \in BOOLEAN, BeginWebsocket(p)
        PROVE  ~answered \/ readingPaused
    BY <1>1 DEF BeginWebsocket
  <1>2. ASSUME NEW mode \in BatchMode, StartBatch(mode)
        PROVE  ~answered \/ readingPaused
    BY <1>2 DEF StartBatch
  <1>3. CASE ReceiveMessage
    BY <1>3 DEF ReceiveMessage
  <1>4. CASE ReceivePing
    BY <1>4 DEF ReceivePing
  <1>5. CASE ReceiveClose
    BY <1>5 DEF ReceiveClose, Abort, Finish, Tell
  <1>6. CASE EndOfBatch
    BY <1>6 DEF EndOfBatch
  <1>7. CASE ViolationFound
    BY <1>7 DEF ViolationFound, Abort, Finish, Tell
  <1>8. ASSUME NEW pong \in BOOLEAN, PeerSends(pong)
        PROVE  ~answered \/ readingPaused
    BY <1>8 DEF PeerSends
  <1>9. CASE OnPingDue
    BY <1>9 DEF OnPingDue, PingInv
  <1>10. CASE EofReceived
    BY <1>10 DEF EofReceived
  <1>11. CASE ConnectionLost
    BY <1>11 DEF ConnectionLost, Tell
  <1>12. CASE ResumeWriting
    BY <1>12 DEF ResumeWriting
  <1>13. CASE BeginShutdown
    BY <1>13 DEF BeginShutdown, ShutdownConnection, Abort, Finish, Tell
  <1>14. CASE ForceClose
    BY <1>14 DEF ForceClose
  <1>15. CASE AheadReceives
    BY <1>15 DEF AheadReceives
  <1>16. ASSUME NEW last \in BOOLEAN, AheadAnswers(last)
        PROVE  ~answered \/ readingPaused
    BY <1>16 DEF AheadAnswers
  <1>17. ASSUME NEW raised \in BOOLEAN, AheadDone(raised)
        PROVE  ~answered \/ readingPaused
    BY <1>17 DEF AheadDone
  <1>18. CASE Start
    BY <1>18 DEF Start
  <1>19. CASE TurnGranted
    BY <1>19 DEF TurnGranted
  <1>20. CASE MessageArrived
    BY <1>20 DEF MessageArrived
  <1>21. CASE Drained
    BY <1>21 DEF Drained
  <1>22. CASE CancelTask
    BY <1>22 DEF CancelTask
  <1>23. CASE Interrupted
    BY <1>23 DEF Interrupted
  <1>24. CASE OnTaskDone
    BY <1>24 DEF OnTaskDone, Abort, Finish, Tell
  <1>25. CASE Receive
    BY <1>25 DEF Receive
  <1>26. CASE SendAccept
    BY <1>26 DEF SendAccept
  <1>27. CASE SendDeny
    BY <1>27 DEF SendDeny, Tell
  <1>28. CASE SendMessage
    BY <1>28 DEF SendMessage
  <1>29. CASE SendCloseMessage
    BY <1>29 DEF SendCloseMessage, Abort, Finish, Tell
  <1>30. CASE SendRefused
    BY <1>30 DEF SendRefused
  <1>31. ASSUME NEW how \in {"returned", "raised"}, AppEnd(how)
        PROVE  ~answered \/ readingPaused
    BY <1>31 DEF AppEnd
  <1>32. CASE UNCHANGED vars
    BY <1>32 DEF vars
  <1> QED
    BY <1>1, <1>2, <1>3, <1>4, <1>5, <1>6, <1>7, <1>8, <1>9, <1>10, <1>11,
       <1>12, <1>13, <1>14, <1>15, <1>16, <1>17, <1>18, <1>19, <1>20, <1>21,
       <1>22, <1>23, <1>24, <1>25, <1>26, <1>27, <1>28, <1>29, <1>30, <1>31,
       <1>32 DEF Next, DataReceived, Ahead, TaskStep, AppStep

\* A ping timeout only drops a peer whose pong has not come, unless the session
\* is not being read.
THEOREM AnsweredIsKept == Spec => AnsweredNotDropped
  <1>1. Init => PingInv
    BY DEF Init, PingInv
  <1>2. TypeOK /\ PingInv /\ [Next]_vars =>
            [told' = "ping timeout" /\ told # told' /\ ~closing
                 => ~answered \/ readingPaused]_vars
    BY TimeoutIsFair DEF vars, farewell
  <1> QED BY <1>1, <1>2, NextPingInv, SessionTyped, PTL DEF Spec, AnsweredNotDropped

-----------------------------------------------------------------------------
(* The hold before the accept. *)

\* With nobody ahead, only the accept lifts the hold: receive() resumes a
\* connected session only.
HoldInv == ahead = "gone" /\ HeldUntilDecided

\* Taking the connect leaves the hold.
LEMMA TakeKeepsHold ==
    ASSUME HoldInv, TakeMessage,
           ahead' = ahead, wsState' = wsState, closing' = closing
    PROVE  HoldInv'
  <1>1. wsState # "connected" /\ readingPaused => readingPaused'
    BY Zenon DEF TakeMessage, StillPaused
  <1> QED BY <1>1 DEF HoldInv, HeldUntilDecided

\* Every step keeps HoldInv.
LEMMA NextHoldInv ==
    ASSUME HoldInv, [Next]_vars
    PROVE  HoldInv'
  <1> USE DEF transport, reading, request, handshake, farewell, keepalive, app, loop
  <1>1. ASSUME NEW p \in BOOLEAN, BeginWebsocket(p)
        PROVE  HoldInv'
    BY <1>1 DEF BeginWebsocket, LoopFree, HoldInv, HeldUntilDecided
  <1>2. ASSUME NEW mode \in BatchMode, StartBatch(mode)
        PROVE  HoldInv'
    BY <1>2 DEF StartBatch, MayRead, LoopFree, HoldInv, HeldUntilDecided
  <1>3. CASE ReceiveMessage
    <2>1. readingPaused => readingPaused'
      BY <1>3, Zenon DEF ReceiveMessage, PauseTaken
    <2>2. ahead' = ahead /\ wsState' = wsState /\ closing' = closing
      BY <1>3 DEF ReceiveMessage
    <2> QED BY <2>1, <2>2 DEF HoldInv, HeldUntilDecided
  <1>4. CASE ReceivePing
    BY <1>4 DEF ReceivePing, LoopFree, HoldInv, HeldUntilDecided
  <1>5. CASE ReceiveClose
    BY <1>5 DEF ReceiveClose, Abort, Finish, Tell, LoopFree, HoldInv,
       HeldUntilDecided
  <1>6. CASE EndOfBatch
    BY <1>6 DEF EndOfBatch, LoopFree, HoldInv, HeldUntilDecided
  <1>7. CASE ViolationFound
    BY <1>7 DEF ViolationFound, Abort, Finish, Tell, LoopFree, HoldInv,
       HeldUntilDecided
  <1>8. ASSUME NEW pong \in BOOLEAN, PeerSends(pong)
        PROVE  HoldInv'
    BY <1>8 DEF PeerSends, LoopFree, HoldInv, HeldUntilDecided
  <1>9. CASE OnPingDue
    BY <1>9 DEF OnPingDue, Abort, Finish, Tell, LoopFree, HoldInv,
       HeldUntilDecided
  <1>10. CASE EofReceived
    BY <1>10 DEF EofReceived, LoopFree, HoldInv, HeldUntilDecided
  <1>11. CASE ConnectionLost
    BY <1>11 DEF ConnectionLost, Tell, Inflight, LoopFree, HoldInv,
       HeldUntilDecided
  <1>12. CASE ResumeWriting
    BY <1>12 DEF ResumeWriting, LoopFree, HoldInv, HeldUntilDecided
  <1>13. CASE BeginShutdown
    BY <1>13 DEF BeginShutdown, ShutdownConnection, Abort, Finish, Tell,
       LoopFree, HoldInv, HeldUntilDecided
  <1>14. CASE ForceClose
    BY <1>14 DEF ForceClose, LoopFree, HoldInv, HeldUntilDecided
  <1>15. CASE AheadReceives
    BY <1>15 DEF AheadReceives, LoopFree, HoldInv, HeldUntilDecided
  <1>16. ASSUME NEW last \in BOOLEAN, AheadAnswers(last)
        PROVE  HoldInv'
    BY <1>16 DEF AheadAnswers, LoopFree, HoldInv, HeldUntilDecided
  <1>17. ASSUME NEW raised \in BOOLEAN, AheadDone(raised)
        PROVE  HoldInv'
    BY <1>17 DEF AheadDone, LoopFree, HoldInv, HeldUntilDecided
  <1>18. CASE Start
    BY <1>18 DEF Start, Resumable, WakeUp, LoopFree, HoldInv,
       HeldUntilDecided
  <1>19. CASE TurnGranted
    BY <1>19 DEF TurnGranted, Accepted, Denied, Resumable, WakeUp, LoopFree,
       HoldInv, HeldUntilDecided
  <1>20. CASE MessageArrived
    <2>1. ahead' = ahead /\ wsState' = wsState /\ closing' = closing
      BY <1>20 DEF MessageArrived
    <2>2. TakeMessage
      BY <1>20 DEF MessageArrived
    <2> QED BY <2>1, <2>2, TakeKeepsHold
  <1>21. CASE Drained
    BY <1>21 DEF Drained, Resumable, WakeUp, LoopFree, HoldInv,
       HeldUntilDecided
  <1>22. CASE CancelTask
    BY <1>22 DEF CancelTask, Ended, LoopFree, HoldInv, HeldUntilDecided
  <1>23. CASE Interrupted
    BY <1>23 DEF Interrupted, LoopFree, HoldInv, HeldUntilDecided
  <1>24. CASE OnTaskDone
    BY <1>24 DEF OnTaskDone, Abort, Finish, Tell, Ended, LoopFree, HoldInv,
       HeldUntilDecided
  <1>25. CASE Receive
    <2>1. ahead' = ahead /\ wsState' = wsState /\ closing' = closing
      BY <1>25 DEF Receive
    <2>2. TakeMessage \/ readingPaused' = readingPaused
      BY <1>25 DEF Receive
    <2> QED BY <2>1, <2>2, TakeKeepsHold DEF HoldInv, HeldUntilDecided
  <1>26. CASE SendAccept
    BY <1>26 DEF SendAccept, Running, Resumable, Accepted, LoopFree,
       HoldInv, HeldUntilDecided
  <1>27. CASE SendDeny
    BY <1>27 DEF SendDeny, Running, Resumable, Tell, Denied, LoopFree,
       HoldInv, HeldUntilDecided
  <1>28. CASE SendMessage
    BY <1>28 DEF SendMessage, Running, Resumable, AwaitDrain, LoopFree,
       HoldInv, HeldUntilDecided
  <1>29. CASE SendCloseMessage
    BY <1>29 DEF SendCloseMessage, Running, Resumable, Abort, Finish, Tell,
       LoopFree, HoldInv, HeldUntilDecided
  <1>30. CASE SendRefused
    BY <1>30 DEF SendRefused, Running, Resumable, LoopFree, HoldInv,
       HeldUntilDecided
  <1>31. ASSUME NEW how \in {"returned", "raised"}, AppEnd(how)
        PROVE  HoldInv'
    BY <1>31 DEF AppEnd, Running, Resumable, LoopFree, HoldInv,
       HeldUntilDecided
  <1>32. CASE UNCHANGED vars
    BY <1>32 DEF vars, HoldInv, HeldUntilDecided
  <1> QED
    BY <1>1, <1>2, <1>3, <1>4, <1>5, <1>6, <1>7, <1>8, <1>9, <1>10, <1>11,
       <1>12, <1>13, <1>14, <1>15, <1>16, <1>17, <1>18, <1>19, <1>20, <1>21,
       <1>22, <1>23, <1>24, <1>25, <1>26, <1>27, <1>28, <1>29, <1>30, <1>31,
       <1>32 DEF Next, DataReceived, Ahead, TaskStep, AppStep

\* Unless a request is in flight ahead of it, nothing is read from a client
\* whose handshake the application has not answered.
THEOREM HeldBeforeAccept ==
    ASSUME "ahead" \notin Disturbances
    PROVE  Spec => []HeldUntilDecided
  <1>1. Init => HoldInv
    BY DEF Init, HoldInv, HeldUntilDecided
  <1>2. HoldInv /\ [Next]_vars => HoldInv'
    BY NextHoldInv
  <1>3. HoldInv => HeldUntilDecided
    BY DEF HoldInv
  <1> QED BY <1>1, <1>2, <1>3, PTL DEF Spec

-----------------------------------------------------------------------------
(* The goodbye of a shutdown. *)

\* What a shutdown leaves open is a session that was closed before it, and
\* waits for its turn to send a 403.
ShutdownInv ==
    /\ shouldExit => closing \/ wsState = "closed"
    /\ closeSent => closing
    /\ wsState = "http" => feeding = "head"
    /\ feeding = "head" => ~shouldExit
    /\ wsState = "closed" /\ task = "accept" => closing

\* Every step keeps ShutdownInv.
LEMMA NextShutdownInv ==
    ASSUME TypeOK, ShutdownInv, [Next]_vars
    PROVE  ShutdownInv'
  <1> USE DEF transport, reading, request, handshake, farewell, keepalive, app, loop
  <1>1. ASSUME NEW p \in BOOLEAN, BeginWebsocket(p)
        PROVE  ShutdownInv'
    BY <1>1 DEF BeginWebsocket, LoopFree, ShutdownInv, SendClose, TypeOK,
       SessionType
  <1>2. ASSUME NEW mode \in BatchMode, StartBatch(mode)
        PROVE  ShutdownInv'
    BY <1>2 DEF StartBatch, MayRead, LoopFree, ShutdownInv, SendClose,
       TypeOK, SessionType
  <1>3. CASE ReceiveMessage
    BY <1>3 DEF ReceiveMessage, LoopFree, ShutdownInv, SendClose, TypeOK,
       SessionType
  <1>4. CASE ReceivePing
    BY <1>4 DEF ReceivePing, LoopFree, ShutdownInv, SendClose, TypeOK,
       SessionType
  <1>5. CASE ReceiveClose
    BY <1>5 DEF ReceiveClose, Abort, Finish, Tell, LoopFree, ShutdownInv,
       SendClose, TypeOK, SessionType
  <1>6. CASE EndOfBatch
    BY <1>6 DEF EndOfBatch, LoopFree, ShutdownInv, SendClose, TypeOK,
       SessionType
  <1>7. CASE ViolationFound
    BY <1>7 DEF ViolationFound, Abort, Finish, Tell, LoopFree, ShutdownInv,
       SendClose, TypeOK, SessionType
  <1>8. ASSUME NEW pong \in BOOLEAN, PeerSends(pong)
        PROVE  ShutdownInv'
    BY <1>8 DEF PeerSends, LoopFree, ShutdownInv, SendClose, TypeOK,
       SessionType
  <1>9. CASE OnPingDue
    BY <1>9 DEF OnPingDue, Abort, Finish, Tell, LoopFree, ShutdownInv,
       SendClose, TypeOK, SessionType
  <1>10. CASE EofReceived
    BY <1>10 DEF EofReceived, LoopFree, ShutdownInv, SendClose, TypeOK,
       SessionType
  <1>11. CASE ConnectionLost
    BY <1>11 DEF ConnectionLost, Tell, Inflight, LoopFree, ShutdownInv,
       SendClose, TypeOK, SessionType
  <1>12. CASE ResumeWriting
    BY <1>12 DEF ResumeWriting, LoopFree, ShutdownInv, SendClose, TypeOK,
       SessionType
  <1>13. CASE BeginShutdown
    BY <1>13 DEF BeginShutdown, ShutdownConnection, Abort, Finish, Tell,
       LoopFree, ShutdownInv, SendClose, TypeOK, SessionType
  <1>14. CASE ForceClose
    BY <1>14 DEF ForceClose, LoopFree, ShutdownInv, SendClose, TypeOK,
       SessionType
  <1>15. CASE AheadReceives
    BY <1>15 DEF AheadReceives, LoopFree, ShutdownInv, SendClose, TypeOK,
       SessionType
  <1>16. ASSUME NEW last \in BOOLEAN, AheadAnswers(last)
        PROVE  ShutdownInv'
    BY <1>16 DEF AheadAnswers, LoopFree, ShutdownInv, SendClose, TypeOK,
       SessionType
  <1>17. ASSUME NEW raised \in BOOLEAN, AheadDone(raised)
        PROVE  ShutdownInv'
    BY <1>17 DEF AheadDone, LoopFree, ShutdownInv, SendClose, TypeOK,
       SessionType
  <1>18. CASE Start
    BY <1>18 DEF Start, Resumable, WakeUp, LoopFree, ShutdownInv, SendClose,
       TypeOK, SessionType
  <1>19. CASE TurnGranted
    BY <1>19 DEF TurnGranted, Accepted, Denied, Resumable, WakeUp, LoopFree,
       ShutdownInv, SendClose, TypeOK, SessionType
  <1>20. CASE MessageArrived
    BY <1>20 DEF MessageArrived, Resumable, WakeUp, LoopFree, ShutdownInv,
       SendClose, TypeOK, SessionType
  <1>21. CASE Drained
    BY <1>21 DEF Drained, Resumable, WakeUp, LoopFree, ShutdownInv,
       SendClose, TypeOK, SessionType
  <1>22. CASE CancelTask
    BY <1>22 DEF CancelTask, Ended, LoopFree, ShutdownInv, SendClose,
       TypeOK, SessionType
  <1>23. CASE Interrupted
    BY <1>23 DEF Interrupted, LoopFree, ShutdownInv, SendClose, TypeOK,
       SessionType
  <1>24. CASE OnTaskDone
    BY <1>24 DEF OnTaskDone, Abort, Finish, Tell, Ended, LoopFree,
       ShutdownInv, SendClose, TypeOK, SessionType
  <1>25. CASE Receive
    BY <1>25 DEF Receive, Running, Resumable, LoopFree, ShutdownInv,
       SendClose, TypeOK, SessionType
  <1>26. CASE SendAccept
    BY <1>26 DEF SendAccept, Running, Resumable, Accepted, LoopFree,
       ShutdownInv, SendClose, TypeOK, SessionType
  <1>27. CASE SendDeny
    BY <1>27 DEF SendDeny, Running, Resumable, Tell, Denied, LoopFree,
       ShutdownInv, SendClose, TypeOK, SessionType
  <1>28. CASE SendMessage
    BY <1>28 DEF SendMessage, Running, Resumable, AwaitDrain, LoopFree,
       ShutdownInv, SendClose, TypeOK, SessionType
  <1>29. CASE SendCloseMessage
    BY <1>29 DEF SendCloseMessage, Running, Resumable, Abort, Finish, Tell,
       LoopFree, ShutdownInv, SendClose, TypeOK, SessionType
  <1>30. CASE SendRefused
    BY <1>30 DEF SendRefused, Running, Resumable, LoopFree, ShutdownInv,
       SendClose, TypeOK, SessionType
  <1>31. ASSUME NEW how \in {"returned", "raised"}, AppEnd(how)
        PROVE  ShutdownInv'
    BY <1>31 DEF AppEnd, Running, Resumable, LoopFree, ShutdownInv,
       SendClose, TypeOK, SessionType
  <1>32. CASE UNCHANGED vars
    BY <1>32 DEF vars, ShutdownInv, SendClose, TypeOK, SessionType
  <1> QED
    BY <1>1, <1>2, <1>3, <1>4, <1>5, <1>6, <1>7, <1>8, <1>9, <1>10, <1>11,
       <1>12, <1>13, <1>14, <1>15, <1>16, <1>17, <1>18, <1>19, <1>20, <1>21,
       <1>22, <1>23, <1>24, <1>25, <1>26, <1>27, <1>28, <1>29, <1>30, <1>31,
       <1>32 DEF Next, DataReceived, Ahead, TaskStep, AppStep

\* The flag of the shutdown is set by its first step.
LEMMA OnlyShutdownExits ==
    ASSUME [Next]_vars, shouldExit' # shouldExit
    PROVE  BeginShutdown
  BY DEF Next, vars, DataReceived, Ahead, TaskStep, AppStep,
     BeginWebsocket, StartBatch, ReceiveMessage, ReceivePing,
     ReceiveClose, EndOfBatch, ViolationFound, PeerSends, OnPingDue,
     EofReceived, ConnectionLost, ResumeWriting, ForceClose,
     AheadReceives, AheadAnswers, AheadDone, Start, TurnGranted,
     MessageArrived, Drained, CancelTask, Interrupted, OnTaskDone,
     Receive, SendAccept, SendDeny, SendMessage, SendCloseMessage,
     SendRefused, AppEnd

\* What a write appends is on the wire.
LEMMA AppendedIsWritten ==
    ASSUME TransportType, NEW e \in Entry, wire' = Append(wire, e)
    PROVE  OnWire(e)'
  <1>1. wire \in Seq(Entry)
    BY DEF TransportType
  <1>2. /\ Len(wire') = Len(wire) + 1 /\ Len(wire) \in Nat
        /\ DOMAIN wire' = 1..Len(wire') /\ wire'[Len(wire) + 1] = e
    BY <1>1, AppendFacts
  <1> QED BY <1>2 DEF OnWire

\* Connected sessions are closed by the first step of the shutdown only, which
\* sends the close frame.
LEMMA ShutdownSaysGoodbye ==
    ASSUME TypeOK, ShutdownInv, [Next]_vars,
           wsState = "connected", shouldExit', closing', ~closing
    PROVE  OnWire("going away")'
  <1>1. ~shouldExit /\ ~closeSent
    BY DEF ShutdownInv
  <1>2. BeginShutdown
    BY <1>1, OnlyShutdownExits
  <1>3. Write("going away") /\ "going away" \in Entry
    BY <1>1, <1>2, CloseFrameFacts, CodeFacts, EntryFacts
       DEF BeginShutdown, ShutdownConnection, Abort, SendClose
  <1>4. wire' = Append(wire, "going away") /\ TransportType
    BY <1>3 DEF Write, TypeOK
  <1> QED BY <1>3, <1>4, AppendedIsWritten

\* Unless its peer or the network closes it, a session that was accepted before
\* the shutdown is closed in it with a close frame that says 1001.
THEOREM GoodbyeIsSaid ==
    ASSUME "late_upgrade" \notin Disturbances
    PROVE  Spec => GoodbyeAtShutdown
  <1>1. Init => ShutdownInv
    BY DEF Init, ShutdownInv
  <1>2. TypeOK /\ ShutdownInv /\ [Next]_vars => ShutdownInv'
    BY NextShutdownInv
  <1>3. TypeOK /\ ShutdownInv /\ [Next]_vars =>
            [wsState = "connected" /\ shouldExit' /\ closing' /\ ~closing
                 => OnWire("going away")']_vars
    BY ShutdownSaysGoodbye
  <1> QED
    BY <1>1, <1>2, <1>3, SessionTyped, PTL DEF Spec, GoodbyeAtShutdown

-----------------------------------------------------------------------------
(* The disconnect comes last. *)

\* What the application has been told, and what it will be.
QueueEnd ==
    /\ told = "none" =>
           seen # "disconnect" /\ \A i \in DOMAIN queue : queue[i] # "disconnect"
    /\ DisconnectLast

\* Where a session is once its application has been told: no frame is handled
\* any more.
ControlEnd ==
    /\ ~prologue
    /\ told # "none" => closing \/ (wsState = "closed" /\ task # "accept")
    /\ feeding \in BatchMode \cup {"head"} => told = "none"
    /\ disconnected => told # "none"

\* Telling the application puts the disconnect behind all messages, once.
LEMMA TellEnds ==
    ASSUME QueueType, QueueEnd, NEW code \in Code, Tell(code), seen' = seen
    PROVE  QueueEnd'
  <1>1. CASE told # "none"
    BY <1>1 DEF Tell, QueueEnd, DisconnectLast
  <1>2. CASE told = "none"
    <2>1. /\ told' # "none" /\ seen' # "disconnect"
          /\ queue' = Append(queue, "disconnect") /\ queue \in Seq(Message)
          /\ \A i \in 1..Len(queue) : queue[i] # "disconnect"
      <3>1. queue \in Seq(Message)
        BY DEF QueueType
      <3>2. told' # "none" /\ queue' = Append(queue, "disconnect")
        BY <1>2, CodeFacts DEF Tell
      <3>3. DOMAIN queue = 1..Len(queue)
        BY <3>1
      <3>4. /\ seen # "disconnect"
            /\ \A i \in 1..Len(queue) : queue[i] # "disconnect"
        BY <1>2, <3>3 DEF QueueEnd
      <3> QED BY <3>1, <3>2, <3>4
    <2>2. /\ Len(queue') = Len(queue) + 1 /\ Len(queue) \in Nat
          /\ \A i \in 1..Len(queue) : queue'[i] = queue[i]
          /\ queue' \in Seq(Message)
      BY <2>1, AppendFacts, MessageFacts
    <2>3. \A i \in 1..Len(queue') : queue'[i] = "disconnect" => i = Len(queue')
      BY <2>1, <2>2
    <2>4. DOMAIN queue' = 1..Len(queue')
      BY <2>2
    <2> QED BY <2>1, <2>3, <2>4 DEF QueueEnd, DisconnectLast
  <1> QED BY <1>1, <1>2

\* A disconnect is taken from an otherwise empty queue.
LEMMA TakeEnds ==
    ASSUME QueueType, QueueEnd, queue # <<>>, TakeMessage, told' = told
    PROVE  QueueEnd'
  <1>1. queue \in Seq(Message) /\ Len(queue) \in Nat \ {0}
    BY TailFacts DEF QueueType
  <1>2. /\ seen' = queue[1] /\ queue' \in Seq(Message)
        /\ Len(queue') = Len(queue) - 1
        /\ \A i \in 1..Len(queue') : queue'[i] = queue[i + 1]
    BY <1>1 DEF TakeMessage
  <1>3. /\ DOMAIN queue = 1..Len(queue) /\ DOMAIN queue' = 1..Len(queue')
        /\ Len(queue') \in Nat
    BY <1>1, <1>2
  <1>4. told' = "none" => seen' # "disconnect"
                /\ \A i \in DOMAIN queue' : queue'[i] # "disconnect"
    BY <1>1, <1>2, <1>3 DEF QueueEnd
  <1>5. \A i \in DOMAIN queue' : queue'[i] = "disconnect" => i = Len(queue')
    BY <1>1, <1>2, <1>3 DEF QueueEnd, DisconnectLast
  <1>6. seen' = "disconnect" => queue' = <<>>
    <2>1. 1 \in DOMAIN queue
      BY <1>1, <1>3
    <2>2. seen' = "disconnect" => 1 = Len(queue)
      BY <1>2, <2>1 DEF QueueEnd, DisconnectLast
    <2>3. Len(queue') = 0 => queue' = <<>>
      BY <1>2
    <2> QED BY <1>2, <2>2, <2>3
  <1> QED BY <1>4, <1>5, <1>6 DEF QueueEnd, DisconnectLast

\* Every step keeps ControlEnd.
LEMMA NextControlEnd ==
    ASSUME "prologue" \notin Disturbances, TypeOK, ControlEnd, [Next]_vars
    PROVE  ControlEnd'
  <1> USE DEF transport, reading, request, handshake, farewell, keepalive, app, loop
  <1>1. ASSUME NEW p \in BOOLEAN, BeginWebsocket(p)
        PROVE  ControlEnd'
    BY <1>1 DEF BeginWebsocket, LoopFree, BatchMode, ControlEnd
  <1>2. ASSUME NEW mode \in BatchMode, StartBatch(mode)
        PROVE  ControlEnd'
    BY <1>2 DEF StartBatch, MayRead, BatchMode, LoopFree, ControlEnd
  <1>3. CASE ReceiveMessage
    BY <1>3 DEF ReceiveMessage, BatchMode, LoopFree, ControlEnd
  <1>4. CASE ReceivePing
    BY <1>4 DEF ReceivePing, BatchMode, LoopFree, ControlEnd
  <1>5. CASE ReceiveClose
    BY <1>5, CodeFacts DEF ReceiveClose, Abort, Finish, Tell, LoopFree,
       BatchMode, ControlEnd
  <1>6. CASE EndOfBatch
    BY <1>6 DEF EndOfBatch, LoopFree, BatchMode, ControlEnd
  <1>7. CASE ViolationFound
    BY <1>7, CodeFacts DEF ViolationFound, Abort, Finish, Tell, LoopFree,
       BatchMode, ControlEnd
  <1>8. ASSUME NEW pong \in BOOLEAN, PeerSends(pong)
        PROVE  ControlEnd'
    BY <1>8 DEF PeerSends, LoopFree, BatchMode, ControlEnd
  <1>9. CASE OnPingDue
    BY <1>9, CodeFacts DEF OnPingDue, Abort, Finish, Tell, LoopFree,
       BatchMode, ControlEnd
  <1>10. CASE EofReceived
    BY <1>10 DEF EofReceived, LoopFree, BatchMode, ControlEnd
  <1>11. CASE ConnectionLost
    BY <1>11, CodeFacts DEF ConnectionLost, Tell, Inflight, LoopFree,
       BatchMode, ControlEnd
  <1>12. CASE ResumeWriting
    BY <1>12 DEF ResumeWriting, LoopFree, BatchMode, ControlEnd
  <1>13. CASE BeginShutdown
    BY <1>13, CodeFacts DEF BeginShutdown, ShutdownConnection, Abort,
       Finish, Tell, LoopFree, BatchMode, ControlEnd
  <1>14. CASE ForceClose
    BY <1>14 DEF ForceClose, LoopFree, BatchMode, ControlEnd
  <1>15. CASE AheadReceives
    BY <1>15 DEF AheadReceives, LoopFree, BatchMode, ControlEnd
  <1>16. ASSUME NEW last \in BOOLEAN, AheadAnswers(last)
        PROVE  ControlEnd'
    BY <1>16 DEF AheadAnswers, LoopFree, BatchMode, ControlEnd
  <1>17. ASSUME NEW raised \in BOOLEAN, AheadDone(raised)
        PROVE  ControlEnd'
    BY <1>17 DEF AheadDone, LoopFree, BatchMode, ControlEnd
  <1>18. CASE Start
    BY <1>18 DEF Start, Resumable, WakeUp, LoopFree, BatchMode, ControlEnd
  <1>19. CASE TurnGranted
    BY <1>19 DEF TurnGranted, Accepted, Denied, Resumable, WakeUp, LoopFree,
       BatchMode, ControlEnd
  <1>20. CASE MessageArrived
    BY <1>20 DEF MessageArrived, Resumable, WakeUp, LoopFree, BatchMode,
       ControlEnd
  <1>21. CASE Drained
    BY <1>21 DEF Drained, Resumable, WakeUp, LoopFree, BatchMode, ControlEnd
  <1>22. CASE CancelTask
    BY <1>22 DEF CancelTask, Ended, LoopFree, BatchMode, ControlEnd
  <1>23. CASE Interrupted
    BY <1>23 DEF Interrupted, LoopFree, BatchMode, ControlEnd
  <1>24. CASE OnTaskDone
    BY <1>24, CodeFacts DEF OnTaskDone, Abort, Finish, Tell, Ended,
       LoopFree, BatchMode, ControlEnd
  <1>25. CASE Receive
    BY <1>25 DEF Receive, Running, Resumable, LoopFree, BatchMode,
       ControlEnd
  <1>26. CASE SendAccept
    BY <1>26 DEF SendAccept, Running, Resumable, Accepted, LoopFree,
       BatchMode, ControlEnd
  <1>27. CASE SendDeny
    BY <1>27, CodeFacts DEF SendDeny, Running, Resumable, Tell, Denied,
       LoopFree, BatchMode, ControlEnd
  <1>28. CASE SendMessage
    BY <1>28 DEF SendMessage, Running, Resumable, AwaitDrain, LoopFree,
       BatchMode, ControlEnd
  <1>29. CASE SendCloseMessage
    BY <1>29, CodeFacts DEF SendCloseMessage, Running, Resumable, Abort,
       Finish, Tell, LoopFree, BatchMode, ControlEnd
  <1>30. CASE SendRefused
    BY <1>30 DEF SendRefused, Running, Resumable, LoopFree, BatchMode,
       ControlEnd
  <1>31. ASSUME NEW how \in {"returned", "raised"}, AppEnd(how)
        PROVE  ControlEnd'
    BY <1>31 DEF AppEnd, Running, Resumable, LoopFree, BatchMode, ControlEnd
  <1>32. CASE UNCHANGED vars
    BY <1>32 DEF vars, ControlEnd
  <1> QED
    BY <1>1, <1>2, <1>3, <1>4, <1>5, <1>6, <1>7, <1>8, <1>9, <1>10, <1>11,
       <1>12, <1>13, <1>14, <1>15, <1>16, <1>17, <1>18, <1>19, <1>20, <1>21,
       <1>22, <1>23, <1>24, <1>25, <1>26, <1>27, <1>28, <1>29, <1>30, <1>31,
       <1>32 DEF Next, DataReceived, Ahead, TaskStep, AppStep
\* Every step keeps QueueEnd.
LEMMA NextQueueEnd ==
    ASSUME TypeOK, ControlEnd, QueueEnd, [Next]_vars
    PROVE  QueueEnd'
  <1> USE DEF transport, reading, request, handshake, farewell, keepalive, app, loop
  <1>1. ASSUME NEW p \in BOOLEAN, BeginWebsocket(p)
        PROVE  QueueEnd'
    <2>1. told = "none" /\ UNCHANGED <<told, seen>>
      BY <1>1 DEF BeginWebsocket, ControlEnd
    <2>2. queue' = <<"connect">> /\ seen # "disconnect"
      BY <1>1, <2>1 DEF BeginWebsocket, QueueEnd
    <2> QED BY <2>1, <2>2 DEF QueueEnd, DisconnectLast
  <1>2. ASSUME NEW mode \in BatchMode, StartBatch(mode)
        PROVE  QueueEnd'
    BY <1>2 DEF StartBatch, QueueEnd, DisconnectLast
  <1>3. CASE ReceiveMessage
    <2>1. told = "none" /\ UNCHANGED <<told, seen>>
      BY <1>3 DEF ReceiveMessage, ControlEnd
    <2>2. queue' = Append(queue, "receive") /\ queue \in Seq(Message)
      BY <1>3 DEF ReceiveMessage, TypeOK, QueueType
    <2>3. /\ Len(queue') = Len(queue) + 1 /\ Len(queue) \in Nat
          /\ \A i \in 1..Len(queue) : queue'[i] = queue[i]
          /\ queue'[Len(queue) + 1] = "receive" /\ queue' \in Seq(Message)
      BY <2>2, AppendFacts, MessageFacts
    <2>4. DOMAIN queue = 1..Len(queue) /\ DOMAIN queue' = 1..Len(queue')
      BY <2>2, <2>3
    <2>5. /\ seen # "disconnect"
          /\ \A i \in 1..Len(queue) : queue[i] # "disconnect"
      BY <2>1, <2>4 DEF QueueEnd
    <2>6. \A i \in DOMAIN queue' : queue'[i] # "disconnect"
      BY <2>3, <2>4, <2>5
    <2> QED BY <2>1, <2>5, <2>6 DEF QueueEnd, DisconnectLast
  <1>4. CASE ReceivePing
    BY <1>4 DEF ReceivePing, QueueEnd, DisconnectLast
  <1>5. CASE ReceiveClose
    <2>1. (\E code \in Code : Tell(code)) \/ UNCHANGED <<told, queue>>
      BY <1>5, CodeFacts DEF ReceiveClose, Abort, SendClose, Finish
    <2>2. seen' = seen
      BY <1>5 DEF ReceiveClose
    <2> QED BY <2>1, <2>2, TellEnds DEF TypeOK, QueueEnd, DisconnectLast
  <1>6. CASE EndOfBatch
    BY <1>6 DEF EndOfBatch, QueueEnd, DisconnectLast
  <1>7. CASE ViolationFound
    <2>1. (\E code \in Code : Tell(code)) \/ UNCHANGED <<told, queue>>
      BY <1>7, CodeFacts DEF ViolationFound, Abort, SendClose, Finish
    <2>2. seen' = seen
      BY <1>7 DEF ViolationFound
    <2> QED BY <2>1, <2>2, TellEnds DEF TypeOK, QueueEnd, DisconnectLast
  <1>8. ASSUME NEW pong \in BOOLEAN, PeerSends(pong)
        PROVE  QueueEnd'
    BY <1>8 DEF PeerSends, QueueEnd, DisconnectLast
  <1>9. CASE OnPingDue
    <2>1. (\E code \in Code : Tell(code)) \/ UNCHANGED <<told, queue>>
      BY <1>9, CodeFacts DEF OnPingDue, Abort, SendClose, Finish
    <2>2. seen' = seen
      BY <1>9 DEF OnPingDue
    <2> QED BY <2>1, <2>2, TellEnds DEF TypeOK, QueueEnd, DisconnectLast
  <1>10. CASE EofReceived
    BY <1>10 DEF EofReceived, QueueEnd, DisconnectLast
  <1>11. CASE ConnectionLost
    <2>1. (\E code \in Code : Tell(code)) \/ UNCHANGED <<told, queue>>
      BY <1>11, CodeFacts DEF ConnectionLost
    <2>2. seen' = seen
      BY <1>11 DEF ConnectionLost
    <2> QED BY <2>1, <2>2, TellEnds DEF TypeOK, QueueEnd, DisconnectLast
  <1>12. CASE ResumeWriting
    BY <1>12 DEF ResumeWriting, QueueEnd, DisconnectLast
  <1>13. CASE BeginShutdown
    <2>1. (\E code \in Code : Tell(code)) \/ UNCHANGED <<told, queue>>
      BY <1>13, CodeFacts DEF BeginShutdown, ShutdownConnection, Abort, SendClose, Finish
    <2>2. seen' = seen
      BY <1>13 DEF BeginShutdown
    <2> QED BY <2>1, <2>2, TellEnds DEF TypeOK, QueueEnd, DisconnectLast
  <1>14. CASE ForceClose
    BY <1>14 DEF ForceClose, QueueEnd, DisconnectLast
  <1>15. CASE AheadReceives
    BY <1>15 DEF AheadReceives, QueueEnd, DisconnectLast
  <1>16. ASSUME NEW last \in BOOLEAN, AheadAnswers(last)
        PROVE  QueueEnd'
    BY <1>16 DEF AheadAnswers, QueueEnd, DisconnectLast
  <1>17. ASSUME NEW raised \in BOOLEAN, AheadDone(raised)
        PROVE  QueueEnd'
    BY <1>17 DEF AheadDone, QueueEnd, DisconnectLast
  <1>18. CASE Start
    BY <1>18 DEF Start, QueueEnd, DisconnectLast
  <1>19. CASE TurnGranted
    BY <1>19 DEF TurnGranted, QueueEnd, DisconnectLast
  <1>20. CASE MessageArrived
    <2>1. QueueType /\ queue # <<>> /\ TakeMessage /\ told' = told
      BY <1>20 DEF MessageArrived, TypeOK
    <2> QED BY <2>1, TakeEnds
  <1>21. CASE Drained
    BY <1>21 DEF Drained, QueueEnd, DisconnectLast
  <1>22. CASE CancelTask
    BY <1>22 DEF CancelTask, QueueEnd, DisconnectLast
  <1>23. CASE Interrupted
    BY <1>23 DEF Interrupted, QueueEnd, DisconnectLast
  <1>24. CASE OnTaskDone
    <2>1. (\E code \in Code : Tell(code)) \/ UNCHANGED <<told, queue>>
      BY <1>24, CodeFacts DEF OnTaskDone, Abort, SendClose, Finish
    <2>2. seen' = seen
      BY <1>24 DEF OnTaskDone
    <2> QED BY <2>1, <2>2, TellEnds DEF TypeOK, QueueEnd, DisconnectLast
  <1>25. CASE Receive
    <2>1. told' = told /\ QueueType
      BY <1>25 DEF Receive, TypeOK
    <2>2. CASE queue # <<>>
      <3>1. TakeMessage
        BY <1>25, <2>2 DEF Receive
      <3> QED BY <2>1, <2>2, <3>1, TakeEnds
    <2>3. CASE queue = <<>> /\ (told # "none" \/ disconnected)
      BY <1>25, <2>1, <2>3 DEF Receive, ControlEnd, QueueEnd, DisconnectLast
    <2>4. CASE queue = <<>> /\ told = "none" /\ ~disconnected
      BY <1>25, <2>1, <2>4 DEF Receive, QueueEnd, DisconnectLast
    <2> QED BY <2>2, <2>3, <2>4
  <1>26. CASE SendAccept
    BY <1>26 DEF SendAccept, QueueEnd, DisconnectLast
  <1>27. CASE SendDeny
    <2>1. (\E code \in Code : Tell(code)) \/ UNCHANGED <<told, queue>>
      BY <1>27, CodeFacts DEF SendDeny
    <2>2. seen' = seen
      BY <1>27 DEF SendDeny
    <2> QED BY <2>1, <2>2, TellEnds DEF TypeOK, QueueEnd, DisconnectLast
  <1>28. CASE SendMessage
    BY <1>28 DEF SendMessage, QueueEnd, DisconnectLast
  <1>29. CASE SendCloseMessage
    <2>1. (\E code \in Code : Tell(code)) \/ UNCHANGED <<told, queue>>
      BY <1>29, CodeFacts DEF SendCloseMessage, Abort, SendClose, Finish
    <2>2. seen' = seen
      BY <1>29 DEF SendCloseMessage
    <2> QED BY <2>1, <2>2, TellEnds DEF TypeOK, QueueEnd, DisconnectLast
  <1>30. CASE SendRefused
    BY <1>30 DEF SendRefused, QueueEnd, DisconnectLast
  <1>31. ASSUME NEW how \in {"returned", "raised"}, AppEnd(how)
        PROVE  QueueEnd'
    BY <1>31 DEF AppEnd, QueueEnd, DisconnectLast
  <1>32. CASE UNCHANGED vars
    BY <1>32 DEF vars, QueueEnd, DisconnectLast
  <1> QED
    BY <1>1, <1>2, <1>3, <1>4, <1>5, <1>6, <1>7, <1>8, <1>9, <1>10, <1>11,
       <1>12, <1>13, <1>14, <1>15, <1>16, <1>17, <1>18, <1>19, <1>20, <1>21,
       <1>22, <1>23, <1>24, <1>25, <1>26, <1>27, <1>28, <1>29, <1>30, <1>31,
       <1>32 DEF Next, DataReceived, Ahead, TaskStep, AppStep

\* The application is told once why its session ended, behind every message,
\* and the disconnect is the last thing that it reads.
THEOREM DisconnectComesLast ==
    ASSUME "prologue" \notin Disturbances
    PROVE  Spec => []DisconnectLast
  <1>1. Init => ControlEnd /\ QueueEnd
    BY DEF Init, ControlEnd, QueueEnd, DisconnectLast
  <1>2. TypeOK /\ ControlEnd /\ QueueEnd /\ [Next]_vars
            => ControlEnd' /\ QueueEnd'
    BY NextControlEnd, NextQueueEnd
  <1>3. QueueEnd => DisconnectLast
    BY DEF QueueEnd
  <1> QED BY <1>1, <1>2, <1>3, SessionTyped, PTL DEF Spec

-----------------------------------------------------------------------------
(* The contract of the application: every step is one of WebSocketBridge,   *)
(* or leaves what the contract is about alone.                              *)

\* The session is opened by the end of its head, and handles no frames once it
\* is closed, of which its application is told at once.
SessionInv ==
    /\ feeding = "head" <=> wsState = "http"
    /\ wsState = "http" => task = "none" /\ told = "none" /\ ~disconnected
    /\ wsState = "closed" => told # "none"
    /\ feeding \in BatchMode => wsState \in {"connecting", "connected"}

\* Every step keeps SessionInv.
LEMMA NextSessionInv ==
    TypeOK /\ SessionInv /\ [Next]_vars => SessionInv'
  <1> SUFFICES ASSUME TypeOK, SessionInv, [Next]_vars PROVE SessionInv'
    OBVIOUS
  <1> USE DEF transport, reading, request, handshake, farewell, keepalive, app, loop
  <1>1. ASSUME NEW p \in BOOLEAN, BeginWebsocket(p)
        PROVE  SessionInv'
    BY <1>1 DEF BeginWebsocket, LoopFree, BatchMode, SessionInv
  <1>2. ASSUME NEW mode \in BatchMode, StartBatch(mode)
        PROVE  SessionInv'
    BY <1>2 DEF StartBatch, Alive, MayRead, BatchMode, LoopFree, SessionInv,
       TypeOK, SessionType
  <1>3. CASE ReceiveMessage
    BY <1>3 DEF ReceiveMessage, BatchMode, LoopFree, SessionInv
  <1>4. CASE ReceivePing
    BY <1>4 DEF ReceivePing, BatchMode, LoopFree, SessionInv
  <1>5. CASE ReceiveClose
    BY <1>5, CodeFacts DEF ReceiveClose, Abort, Finish, Tell, LoopFree,
       BatchMode, SessionInv
  <1>6. CASE EndOfBatch
    BY <1>6 DEF EndOfBatch, LoopFree, BatchMode, SessionInv
  <1>7. CASE ViolationFound
    BY <1>7, CodeFacts DEF ViolationFound, Abort, Finish, Tell, LoopFree,
       BatchMode, SessionInv
  <1>8. ASSUME NEW pong \in BOOLEAN, PeerSends(pong)
        PROVE  SessionInv'
    BY <1>8 DEF PeerSends, LoopFree, BatchMode, SessionInv
  <1>9. CASE OnPingDue
    BY <1>9, CodeFacts DEF OnPingDue, Abort, Finish, Tell, LoopFree,
       BatchMode, SessionInv
  <1>10. CASE EofReceived
    BY <1>10 DEF EofReceived, LoopFree, BatchMode, SessionInv
  <1>11. CASE ConnectionLost
    BY <1>11, CodeFacts DEF ConnectionLost, Tell, Woken, Inflight, LoopFree,
       BatchMode, SessionInv
  <1>12. CASE ResumeWriting
    BY <1>12 DEF ResumeWriting, LoopFree, BatchMode, SessionInv
  <1>13. CASE BeginShutdown
    BY <1>13, CodeFacts DEF BeginShutdown, ShutdownConnection, Abort,
       Finish, Tell, LoopFree, BatchMode, SessionInv
  <1>14. CASE ForceClose
    BY <1>14 DEF ForceClose, LoopFree, BatchMode, SessionInv
  <1>15. CASE AheadReceives
    BY <1>15 DEF AheadReceives, LoopFree, BatchMode, SessionInv
  <1>16. ASSUME NEW last \in BOOLEAN, AheadAnswers(last)
        PROVE  SessionInv'
    BY <1>16 DEF AheadAnswers, LoopFree, BatchMode, SessionInv
  <1>17. ASSUME NEW raised \in BOOLEAN, AheadDone(raised)
        PROVE  SessionInv'
    BY <1>17 DEF AheadDone, LoopFree, BatchMode, SessionInv
  <1>18. CASE Start
    BY <1>18 DEF Start, Resumable, WakeUp, LoopFree, BatchMode, SessionInv
  <1>19. CASE TurnGranted
    BY <1>19 DEF TurnGranted, Accepted, Denied, Resumable, WakeUp, LoopFree,
       BatchMode, SessionInv
  <1>20. CASE MessageArrived
    BY <1>20 DEF MessageArrived, Resumable, WakeUp, LoopFree, BatchMode,
       SessionInv
  <1>21. CASE Drained
    BY <1>21 DEF Drained, Resumable, WakeUp, LoopFree, BatchMode, SessionInv
  <1>22. CASE CancelTask
    BY <1>22 DEF CancelTask, Ended, LoopFree, BatchMode, TypeOK, TaskType,
       SessionInv
  <1>23. CASE Interrupted
    BY <1>23 DEF Interrupted, LoopFree, BatchMode, SessionInv
  <1>24. CASE OnTaskDone
    BY <1>24, CodeFacts DEF OnTaskDone, Abort, Finish, Tell, Ended,
       LoopFree, BatchMode, SessionInv
  <1>25. CASE Receive
    BY <1>25 DEF Receive, Running, Resumable, LoopFree, BatchMode, SessionInv
  <1>26. CASE SendAccept
    BY <1>26 DEF SendAccept, Running, Resumable, Accepted, LoopFree,
       BatchMode, SessionInv
  <1>27. CASE SendDeny
    BY <1>27, CodeFacts DEF SendDeny, Running, Resumable, Tell, Denied,
       LoopFree, BatchMode, SessionInv
  <1>28. CASE SendMessage
    BY <1>28 DEF SendMessage, Running, Resumable, AwaitDrain, LoopFree,
       BatchMode, SessionInv
  <1>29. CASE SendCloseMessage
    BY <1>29, CodeFacts DEF SendCloseMessage, Running, Resumable, Abort,
       Finish, Tell, LoopFree, BatchMode, SessionInv
  <1>30. CASE SendRefused
    BY <1>30 DEF SendRefused, Running, Resumable, LoopFree, BatchMode,
       SessionInv
  <1>31. ASSUME NEW how \in {"returned", "raised"}, AppEnd(how)
        PROVE  SessionInv'
    BY <1>31 DEF AppEnd, Running, Resumable, LoopFree, BatchMode, SessionInv
  <1>32. CASE UNCHANGED vars
    BY <1>32 DEF vars, SessionInv
  <1> QED
    BY <1>1, <1>2, <1>3, <1>4, <1>5, <1>6, <1>7, <1>8, <1>9, <1>10, <1>11,
       <1>12, <1>13, <1>14, <1>15, <1>16, <1>17, <1>18, <1>19, <1>20, <1>21,
       <1>22, <1>23, <1>24, <1>25, <1>26, <1>27, <1>28, <1>29, <1>30, <1>31,
       <1>32 DEF Next, DataReceived, Ahead, TaskStep, AppStep

\* What the contract is about, where no more than the task goes on.
LEMMA ContractQuiet ==
    ASSUME UNCHANGED <<wsState, queue, told, disconnected>>, Awaited' = Awaited
    PROVE  UNCHANGED Bridge!bvars
  BY DEF Bridge!bvars, ASGIState, ASGIQueue

\* However a session that has been opened is finished, the contract has it end,
\* or it has ended.
LEMMA ContractFinish ==
    ASSUME SessionType, SessionInv, wsState # "http", NEW code \in Code, Finish(code),
           UNCHANGED disconnected, Awaited' = Awaited
    PROVE  [Bridge!Next]_(Bridge!bvars)
  <1>1. CASE wsState = "closed"
    <2>1. UNCHANGED <<wsState, queue, told, disconnected>>
      BY <1>1 DEF Finish, Tell, SessionInv
    <2> QED  BY <2>1, ContractQuiet
  <1>2. CASE wsState # "closed"
    <2>1. ASGIState # "CLOSED" /\ ASGIState' = "CLOSED" /\ ASGIQueue = queue /\ ASGIQueue' = queue'
      BY <1>2 DEF ASGIState, ASGIQueue, SessionType, Finish
    <2>2. Bridge!SessionEnds
      BY <2>1, CodeFacts DEF Bridge!SessionEnds, Bridge!Ends, Bridge!EndKnown, Finish, Tell
    <2> QED  BY <2>2 DEF Bridge!Next, Bridge!ServerStep
  <1> QED  BY <1>1, <1>2

\* The callbacks of the connection and of the request ahead.
LEMMA ContractOfServer ==
    ASSUME TypeOK, SessionInv,
           DataReceived \/ (\E pong \in BOOLEAN : PeerSends(pong)) \/ OnPingDue
               \/ EofReceived \/ ConnectionLost \/ ResumeWriting \/ BeginShutdown
               \/ ForceClose \/ Ahead
    PROVE  [Bridge!Next]_(Bridge!bvars)
  <1> USE DEF transport, reading, request, handshake, farewell, keepalive, app, loop
  <1>0. SessionType
    BY DEF TypeOK
  <1>1. ASSUME NEW p \in BOOLEAN, BeginWebsocket(p)
        PROVE  UNCHANGED Bridge!bvars
    <2>1. wsState = "http" /\ told = "none" /\ task = "none"
      BY <1>1 DEF BeginWebsocket, SessionInv
    <2>2. ASGIState' = ASGIState /\ ASGIQueue' = ASGIQueue /\ Awaited' = Awaited
      BY <1>1, <2>1 DEF BeginWebsocket, ASGIState, ASGIQueue, Awaited
    <2> QED  BY <1>1, <2>2 DEF BeginWebsocket, Bridge!bvars
  <1>2. CASE \/ (\E mode \in BatchMode : StartBatch(mode)) \/ ReceivePing \/ EndOfBatch
             \/ (\E pong \in BOOLEAN : PeerSends(pong)) \/ EofReceived \/ ForceClose \/ Ahead
    <2>1. UNCHANGED <<wsState, queue, told, disconnected, task>>
      BY <1>2 DEF StartBatch, ReceivePing, EndOfBatch, PeerSends, EofReceived, ForceClose,
                  Ahead, AheadReceives, AheadAnswers, AheadDone
    <2>2. Awaited' = Awaited
      BY <2>1 DEF Awaited
    <2> QED  BY <2>1, <2>2, ContractQuiet
  <1>3. CASE ReceiveMessage
    <2>1. wsState \in {"connecting", "connected"} /\ UNCHANGED wsState
          /\ UNCHANGED <<told, disconnected, task>> /\ queue' = Append(queue, "receive")
      BY <1>3 DEF ReceiveMessage, SessionInv
    <2>2. ASGIState # "CLOSED" /\ ASGIState' = ASGIState /\ ASGIQueue = queue
          /\ ASGIQueue' = queue' /\ Awaited' = Awaited
      BY <2>1 DEF ASGIState, ASGIQueue, Awaited
    <2>3. Bridge!PeerSends
      BY <2>1, <2>2 DEF Bridge!PeerSends
    <2> QED  BY <2>3 DEF Bridge!Next, Bridge!ServerStep
  <1>4. CASE ReceiveClose \/ ViolationFound
    <2>1. wsState # "http" /\ UNCHANGED <<disconnected, task>>
          /\ \E code \in Code : Finish(code)
      BY <1>4, CodeFacts DEF ReceiveClose, ViolationFound, Abort, SessionInv, BatchMode
    <2>2. Awaited' = Awaited
      BY <2>1 DEF Awaited
    <2> QED  BY <1>0, <2>1, <2>2, ContractFinish
  <1>5. CASE OnPingDue \/ BeginShutdown
    <2>1. /\ wsState # "http" /\ UNCHANGED <<disconnected, task>>
          /\ (\E code \in Code : Finish(code)) \/ UNCHANGED <<wsState, queue, told>>
      BY <1>5, CodeFacts DEF OnPingDue, BeginShutdown, ShutdownConnection, Abort, SessionInv, LoopFree
    <2>2. Awaited' = Awaited
      BY <2>1 DEF Awaited
    <2> QED  BY <1>0, <2>1, <2>2, ContractFinish, ContractQuiet
  <1>6. CASE ConnectionLost
    <2>1. wsState # "http" /\ UNCHANGED <<wsState, task>> /\ ~disconnected /\ disconnected'
          /\ Tell("abnormal")
      BY <1>6 DEF ConnectionLost, SessionInv, LoopFree
    <2>2. ASGIState' = ASGIState /\ ASGIQueue = queue /\ ASGIQueue' = queue' /\ Awaited' = Awaited
      BY <2>1 DEF ASGIState, ASGIQueue, Awaited
    <2>3. Bridge!ConnectionLost
      BY <1>6, <2>1, <2>2 DEF ConnectionLost, Bridge!ConnectionLost, Bridge!EndKnown, Tell
    <2> QED  BY <2>3 DEF Bridge!Next, Bridge!ServerStep
  <1>7. CASE ResumeWriting
    <2>1. UNCHANGED <<wsState, queue, told, disconnected>> /\ Awaited' = Awaited
      BY <1>7 DEF ResumeWriting, Awaited
    <2> QED  BY <2>1, ContractQuiet
  <1> QED  BY <1>1, <1>2, <1>3, <1>4, <1>5, <1>6, <1>7 DEF DataReceived

\* The task between two awaits, and its end.
LEMMA ContractOfTask ==
    ASSUME TypeOK, SessionInv, CancelInv, TaskStep
    PROVE  [Bridge!Next]_(Bridge!bvars)
  <1> USE DEF transport, reading, request, handshake, farewell, keepalive, app, loop
  <1>0. SessionType
    BY DEF TypeOK
  <1>1. CASE Start \/ CancelTask
    <2>1. UNCHANGED <<wsState, queue, told, disconnected>> /\ Awaited' = Awaited
      BY <1>1 DEF Start, CancelTask, Resumable, Awaited
    <2> QED  BY <2>1, ContractQuiet
  <1>2. CASE TurnGranted
    <2>1. CASE Resumable("accept") /\ Accepted
      <3>1. /\ wsState # "http" /\ task = "accept" /\ task' = "run" /\ wsState' = "connected"
            /\ UNCHANGED <<queue, told, disconnected>>
        BY <1>2, <2>1 DEF TurnGranted, Resumable, LoopFree, Accepted, SessionInv
      <3>2. Awaited = "turn" /\ Awaited' = "none" /\ ASGIState' = "CONNECTED" /\ ASGIQueue' = ASGIQueue
        BY <3>1 DEF Awaited, ASGIState, ASGIQueue
      <3>3. Bridge!Accepted
        BY <3>1, <3>2 DEF Bridge!Accepted
      <3> QED  BY <3>3 DEF Bridge!Next, Bridge!CallStep
    <2>2. CASE Resumable("deny") /\ UNCHANGED handshake
      <3>1. /\ task = "deny" /\ task' = "run" /\ UNCHANGED <<wsState, queue, told, disconnected>>
        BY <1>2, <2>2 DEF TurnGranted, Resumable
      <3>2. Awaited = "deny" /\ Awaited' = "none" /\ ASGIState' = ASGIState /\ ASGIQueue' = ASGIQueue
        BY <3>1 DEF Awaited, ASGIState, ASGIQueue
      <3>3. Bridge!SendReturns
        BY <3>1, <3>2 DEF Bridge!SendReturns
      <3> QED  BY <3>3 DEF Bridge!Next, Bridge!CallStep
    <2> QED  BY <1>2, <2>1, <2>2 DEF TurnGranted
  <1>3. CASE MessageArrived
    <2>1. /\ wsState # "http" /\ task = "recv" /\ task' = "run" /\ queue # <<>> /\ queue' = Tail(queue)
          /\ UNCHANGED <<wsState, told, disconnected>>
      BY <1>3 DEF MessageArrived, TakeMessage, Resumable, LoopFree, SessionInv
    <2>2. Awaited = "receive" /\ Awaited' = "none" /\ ASGIState' = ASGIState
          /\ ASGIQueue = queue /\ ASGIQueue' = queue'
      BY <2>1 DEF Awaited, ASGIState, ASGIQueue
    <2>3. Bridge!Receives
      BY <2>1, <2>2 DEF Bridge!Receives
    <2> QED  BY <2>3 DEF Bridge!Next, Bridge!CallStep
  <1>4. CASE Drained
    <2>1. task = "drained" /\ task' = "run" /\ UNCHANGED <<wsState, queue, told, disconnected>>
      BY <1>4 DEF Drained, Resumable
    <2>2. Awaited = "drain" /\ Awaited' = "none" /\ ASGIState' = ASGIState /\ ASGIQueue' = ASGIQueue
      BY <2>1 DEF Awaited, ASGIState, ASGIQueue
    <2>3. Bridge!SendReturns
      BY <2>1, <2>2 DEF Bridge!SendReturns
    <2> QED  BY <2>3 DEF Bridge!Next, Bridge!CallStep
  <1>5. CASE Interrupted
    <2>1. /\ task' \in {"cancelled", "run"} /\ disconnected
          /\ UNCHANGED <<wsState, queue, told, disconnected>>
      BY <1>5 DEF Interrupted, CancelInv
    <2>2. Awaited' = "none" /\ ASGIState' = ASGIState /\ ASGIQueue' = ASGIQueue
      BY <2>1 DEF Awaited, ASGIState, ASGIQueue
    <2>3. CASE Awaited = "none"
      BY <2>1, <2>2, <2>3, ContractQuiet
    <2>4. CASE Awaited # "none"
      <3>1. Bridge!Cancelled
        BY <2>1, <2>2, <2>4 DEF Bridge!Cancelled
      <3> QED  BY <3>1 DEF Bridge!Next, Bridge!CallStep
    <2> QED  BY <2>3, <2>4
  <1>6. CASE OnTaskDone
    <2>1. Awaited' = Awaited /\ wsState # "http" /\ UNCHANGED disconnected
      BY <1>6 DEF OnTaskDone, Ended, Awaited, LoopFree, SessionInv
    <2>2. Finish("normal") \/ UNCHANGED <<wsState, queue, told>>
      BY <1>6 DEF OnTaskDone, Abort
    <2> QED  BY <1>0, <2>1, <2>2, CodeFacts, ContractFinish, ContractQuiet
  <1> QED  BY <1>1, <1>2, <1>3, <1>4, <1>5, <1>6 DEF TaskStep

\* The calls of the application.
LEMMA ContractOfCalls ==
    ASSUME TypeOK, SessionInv, CancelInv, AppStep
    PROVE  [Bridge!Next]_(Bridge!bvars)
  <1> USE DEF transport, reading, request, handshake, farewell, keepalive, app, loop
  <1>0. SessionType
    BY DEF TypeOK
  <1>1. wsState # "http" /\ task = "run" /\ ASGIQueue = queue /\ Awaited = "none"
    BY DEF AppStep, Receive, SendAccept, SendDeny, SendMessage, SendCloseMessage, SendRefused,
           AppEnd, Running, Resumable, LoopFree, SessionInv, ASGIQueue, Awaited
  <1>2. CASE Receive
    <2>0. UNCHANGED <<wsState, told, disconnected>> /\ (disconnected => told # "none")
      BY <1>2 DEF Receive, CancelInv
    <2>1. ASGIState' = ASGIState /\ ASGIQueue' = queue'
      BY <1>1, <2>0 DEF ASGIState, ASGIQueue
    <2>2. CASE queue # <<>> /\ queue' = Tail(queue) /\ UNCHANGED task
      <3>1. Awaited' = "none"
        BY <1>1, <2>2 DEF Awaited
      <3>2. Bridge!Receives
        BY <1>1, <2>0, <2>1, <2>2, <3>1 DEF Bridge!Receives
      <3> QED  BY <3>2 DEF Bridge!Next, Bridge!CallStep
    <2>3. CASE UNCHANGED <<queue, task>>
      <3>1. Awaited' = Awaited
        BY <2>3 DEF Awaited
      <3> QED  BY <2>0, <2>3, <3>1, ContractQuiet
    <2>4. CASE queue = <<>> /\ told = "none" /\ task' = "recv" /\ UNCHANGED queue
      <3>1. Awaited' = "receive"
        BY <2>4 DEF Awaited
      <3>2. Bridge!ReceiveWaits
        BY <1>1, <2>0, <2>1, <2>4, <3>1 DEF Bridge!ReceiveWaits
      <3> QED  BY <3>2 DEF Bridge!Next, Bridge!CallStep
    <2> QED  BY <1>2, <2>2, <2>3, <2>4 DEF Receive, TakeMessage
  <1>3. CASE SendAccept
    <2>1. /\ wsState = "connecting" /\ UNCHANGED <<queue, told, disconnected>>
          /\ \/ wsState' = "connected" /\ UNCHANGED task
             \/ UNCHANGED wsState /\ task' = "accept"
      BY <1>3 DEF SendAccept, Accepted
    <2>2. ASGIState = "CONNECTING" /\ ASGIQueue' = ASGIQueue
      BY <2>1 DEF ASGIState, ASGIQueue
    <2>3. CASE wsState' = "connected" /\ UNCHANGED task
      <3>1. ASGIState' = "CONNECTED" /\ Awaited' = "none"
        BY <1>1, <2>3 DEF ASGIState, Awaited
      <3>2. Bridge!Accepted
        BY <1>1, <2>1, <2>2, <3>1 DEF Bridge!Accepted
      <3> QED  BY <3>2 DEF Bridge!Next, Bridge!CallStep
    <2>4. CASE UNCHANGED wsState /\ task' = "accept"
      <3>1. ASGIState' = ASGIState /\ Awaited' = "turn"
        BY <2>4 DEF ASGIState, Awaited
      <3>2. Bridge!AcceptWaits
        BY <1>1, <2>1, <2>2, <3>1 DEF Bridge!AcceptWaits
      <3> QED  BY <3>2 DEF Bridge!Next, Bridge!CallStep
    <2> QED  BY <2>1, <2>3, <2>4
  <1>4. CASE SendDeny
    <2>1. /\ wsState = "connecting" /\ wsState' = "closed" /\ Tell("normal")
          /\ UNCHANGED disconnected /\ task' \in {"run", "deny"}
      BY <1>1, <1>4 DEF SendDeny
    <2>2. ASGIState = "CONNECTING" /\ ASGIState' = "CLOSED" /\ ASGIQueue' = queue'
          /\ Awaited' \in {"none", "deny"}
      BY <2>1 DEF ASGIState, ASGIQueue, Awaited
    <2>3. Bridge!Denies
      BY <1>1, <2>1, <2>2 DEF Bridge!Denies, Bridge!Ends, Bridge!EndKnown, Tell
    <2> QED  BY <2>3 DEF Bridge!Next, Bridge!CallStep
  <1>5. CASE SendMessage
    <2>1. /\ wsState = "connected" /\ UNCHANGED <<wsState, queue, told, disconnected>>
          /\ task' \in {"run", "drain"}
      BY <1>1, <1>5 DEF SendMessage, AwaitDrain
    <2>2. ASGIState = "CONNECTED" /\ ASGIState' = ASGIState /\ ASGIQueue' = ASGIQueue
      BY <2>1 DEF ASGIState, ASGIQueue
    <2>3. CASE task' = "run"
      <3>1. Awaited' = Awaited
        BY <1>1, <2>3 DEF Awaited
      <3> QED  BY <2>1, <3>1, ContractQuiet
    <2>4. CASE task' = "drain"
      <3>1. Awaited' = "drain"
        BY <2>4 DEF Awaited
      <3>2. Bridge!SendWaits
        BY <1>1, <2>1, <2>2, <3>1 DEF Bridge!SendWaits
      <3> QED  BY <3>2 DEF Bridge!Next, Bridge!CallStep
    <2> QED  BY <2>1, <2>3, <2>4
  <1>6. CASE SendCloseMessage
    <2>1. Finish("app") /\ UNCHANGED <<disconnected, task>>
      BY <1>6 DEF SendCloseMessage, Abort
    <2>2. Awaited' = Awaited
      BY <2>1 DEF Awaited
    <2> QED  BY <1>0, <1>1, <2>1, <2>2, CodeFacts, ContractFinish
  <1>7. CASE SendRefused \/ \E how \in {"returned", "raised"} : AppEnd(how)
    <2>1. UNCHANGED <<wsState, queue, told, disconnected>> /\ task' \in {"returned", "raised"}
      BY <1>7 DEF SendRefused, AppEnd
    <2>2. Awaited' = Awaited
      BY <1>1, <2>1 DEF Awaited
    <2> QED  BY <2>1, <2>2, ContractQuiet
  <1> QED  BY <1>2, <1>3, <1>4, <1>5, <1>6, <1>7 DEF AppStep

\* Whatever the peer, the network, the timers, a shutdown and the request ahead
\* do, and whatever the application calls, it sees a session of the contract: the
\* end is told with the change of the state and once, no receive() waits behind
\* it, an accept that was waiting stands, and only a lost connection cancels
\* (protocol.py:845, :893, :980).
THEOREM ServerKeepsContract == Spec => KeepsContract
  <1>1. Init => SessionInv /\ CancelInv /\ Bridge!Init
    BY DEF Init, SessionInv, CancelInv, BatchMode, Bridge!Init, ASGIState, ASGIQueue, Awaited
  <1>2. TypeOK /\ SessionInv /\ CancelInv /\ [Next]_vars => SessionInv' /\ CancelInv'
    BY NextSessionInv, NextCancelInv
  <1>3. TypeOK /\ SessionInv /\ CancelInv /\ [Next]_vars => [Bridge!Next]_(Bridge!bvars)
    <2> SUFFICES ASSUME TypeOK, SessionInv, CancelInv, [Next]_vars
                 PROVE  [Bridge!Next]_(Bridge!bvars)
      OBVIOUS
    <2>1. CASE TaskStep
      BY <2>1, ContractOfTask
    <2>2. CASE AppStep
      BY <2>2, ContractOfCalls
    <2>3. CASE UNCHANGED vars
      <3>1. UNCHANGED <<wsState, queue, told, disconnected, task>>
        BY <2>3 DEF vars, handshake, farewell, app
      <3>2. Awaited' = Awaited
        BY <3>1 DEF Awaited
      <3> QED  BY <3>1, <3>2, ContractQuiet
    <2> QED  BY <2>1, <2>2, <2>3, ContractOfServer DEF Next
  <1> QED  BY <1>1, <1>2, <1>3, SessionTyped, PTL DEF Spec, KeepsContract, Bridge!Spec

=============================================================================
