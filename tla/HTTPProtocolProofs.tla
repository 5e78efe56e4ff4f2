------------------------- MODULE HTTPProtocolProofs -------------------------
(***************************************************************************)
(* Proofs about HTTPProtocol for every bound, watermark, set of habits and *)
(* set of disturbances, and that it implements ResponseStream.             *)
(***************************************************************************)
EXTENDS HTTPProtocol, TLAPS

-----------------------------------------------------------------------------
(* Type correctness.  TypeOK is not inductive: a slot must be free whenever  *)
(* a failure response is spawned, and a chunk needs a request to belong to.  *)

SlotsBounded ==
    /\ ~closed => slots <= MaxRequests
    /\ feeding # "idle" => ~closed
    /\ bodyOpen => slots \in Slot

TypeInv == TypeOK /\ SlotsBounded

\* What the sequence operators of the model return.
LEMMA AppendType ==
    ASSUME NEW S, NEW s \in Seq(S), NEW e \in S
    PROVE  Append(s, e) \in Seq(S)
  OBVIOUS

LEMMA TailType ==
    ASSUME NEW S, NEW s \in Seq(S), s # <<>>
    PROVE  Tail(s) \in Seq(S) /\ Head(s) \in S
  OBVIOUS

LEMMA SlotFacts ==
    /\ Slot \subseteq Nat
    /\ \A n \in Nat : n \in Slot <=> n >= 1 /\ n <= MaxRequests + 1
  BY BoundsAssumption DEF Slot

LEMMA PreviousSlot ==
    ASSUME NEW r \in Slot, r > 1 PROVE r - 1 \in Slot
  BY BoundsAssumption DEF Slot

LEMMA StatusFacts ==
    /\ "unused" \in Status /\ "new" \in Status /\ "run" \in Status
    /\ "recv" \in Status /\ "turn" \in Status /\ "drain" \in Status
    /\ "drained" \in Status /\ "gone" \in Status
    /\ "returned" \in Status /\ "raised" \in Status /\ "cancelled" \in Status
  BY DEF Status, Ended

\* The initial state satisfies the strengthened type invariant.
LEMMA InitTypeInv == Init => TypeInv
  <1> SUFFICES ASSUME Init PROVE TypeInv
    OBVIOUS
  <1>1. TransportType
    <2>1. <<>> \in Seq(Entry)
      OBVIOUS
    <2> QED BY <2>1 DEF Init, TransportType
  <1>2. ConnectionType
    BY DEF Init, ConnectionType
  <1>3. ParsingType
    <2>1. 0 \in 0..MaxChunks
      BY BoundsAssumption
    <2> QED BY <2>1 DEF Init, ParsingType
  <1>4. SlotType
    BY StatusFacts DEF Init, SlotType
  <1>5. FlagType
    BY DEF Init, FlagType
  <1>6. SlotsBounded
    BY BoundsAssumption DEF Init, SlotsBounded
  <1> QED BY <1>1, <1>2, <1>3, <1>4, <1>5, <1>6 DEF TypeInv, TypeOK

\* A write keeps the transport's variables typed.
LEMMA WriteType ==
    ASSUME TransportType, NEW e \in Entry, Write(e)
    PROVE  wire' \in Seq(Entry) /\ writePaused' \in BOOLEAN
  <1>1. CASE closing
    BY <1>1 DEF Write, TransportType
  <1>2. CASE ~closing
    BY <1>2, AppendType DEF Write, TransportType
  <1> QED BY <1>1, <1>2

LEMMA EntryType ==
    ASSUME NEW r \in Slot \cup {0}, NEW c \in BOOLEAN,
           NEW p \in {"head", "body", "error", "timeout"}
    PROVE  [slot |-> r, part |-> p, close |-> c] \in Entry
  BY DEF Entry

\* Taking a message from a non-empty queue keeps the slot's variables typed.
LEMMA TakeMessageType ==
    ASSUME SlotType, NEW r \in Slot, queue[r] # <<>>, TakeMessage(r)
    PROVE  /\ queue' \in [Slot -> Seq(Message)]
           /\ seen' \in [Slot -> {"none", "end", "disconnect"}]
  <1>1. Tail(queue[r]) \in Seq(Message)
    BY TailType DEF SlotType
  <1> QED BY <1>1 DEF TakeMessage, SlotType

\* Every step preserves it.
LEMMA NextTypeInv == TypeInv /\ [Next]_vars => TypeInv'
  <1> SUFFICES ASSUME TypeInv, [Next]_vars PROVE TypeInv'
    OBVIOUS
  <1> USE BoundsAssumption DEF TypeInv, TypeOK, transport, connection, parsing,
          requests, progress, loop
  <1>1. ASSUME NEW mode \in {"events", "error"}, NEW c \in BOOLEAN,
              BeginRequest(mode, c)
        PROVE  TypeInv'
    <2>1. TransportType'
      BY <1>1 DEF BeginRequest, InBatch, MayRead, FirstHead, Spawn,
         TransportType
    <2>2. ConnectionType'
      BY <1>1 DEF BeginRequest, InBatch, MayRead, FirstHead, Spawn,
         ConnectionType
    <2>3. ParsingType'
      BY <1>1, SlotFacts DEF BeginRequest, InBatch, MayRead, FirstHead,
         Spawn, ParsingType, SlotsBounded
    <2>4. SlotType'
      BY <1>1, StatusFacts DEF BeginRequest, InBatch, MayRead,
         FirstHead, Spawn, SlotType
    <2>5. FlagType'
      BY <1>1 DEF BeginRequest, InBatch, MayRead, FirstHead, Spawn,
         FlagType
    <2>6. SlotsBounded'
      BY <1>1, SlotFacts DEF BeginRequest, InBatch, MayRead, FirstHead,
         Spawn, SlotsBounded, ParsingType
    <2> QED BY <2>1, <2>2, <2>3, <2>4, <2>5, <2>6
  <1>2. ASSUME NEW mode \in {"events", "error"}, NEW m \in {"more", "last"},
              PushBodyChunk(mode, m)
        PROVE  TypeInv'
    <2>1. TransportType'
      BY <1>2 DEF PushBodyChunk, InBatch, MayRead, TransportType
    <2>2. ConnectionType'
      BY <1>2 DEF PushBodyChunk, InBatch, MayRead, ConnectionType
    <2>3. ParsingType'
      BY <1>2 DEF PushBodyChunk, InBatch, MayRead, ParsingType
    <2>4. SlotType'
      BY <1>2, AppendType DEF PushBodyChunk, InBatch, MayRead, SlotType,
         Message, SlotsBounded
    <2>5. FlagType'
      BY <1>2 DEF PushBodyChunk, InBatch, MayRead, FlagType
    <2>6. SlotsBounded'
      BY <1>2 DEF PushBodyChunk, InBatch, MayRead, SlotsBounded,
         ParsingType
    <2> QED BY <2>1, <2>2, <2>3, <2>4, <2>5, <2>6
  <1>3. CASE EndOfEvents
    <2>1. TransportType'
      BY <1>3 DEF EndOfEvents, TransportType
    <2>2. ConnectionType'
      BY <1>3 DEF EndOfEvents, ConnectionType
    <2>3. ParsingType'
      BY <1>3 DEF EndOfEvents, ParsingType
    <2>4. SlotType'
      BY <1>3, StatusFacts DEF EndOfEvents, SlotType
    <2>5. FlagType'
      BY <1>3 DEF EndOfEvents, FlagType
    <2>6. SlotsBounded'
      BY <1>3 DEF EndOfEvents, SlotsBounded, ParsingType
    <2> QED BY <2>1, <2>2, <2>3, <2>4, <2>5, <2>6
  <1>4. CASE RejectUpgrade
    <2>1. TransportType'
      BY <1>4 DEF RejectUpgrade, MayRead, FirstHead, Spawn,
         TransportType
    <2>2. ConnectionType'
      BY <1>4 DEF RejectUpgrade, MayRead, FirstHead, Spawn,
         ConnectionType
    <2>3. ParsingType'
      BY <1>4, SlotFacts DEF RejectUpgrade, MayRead, FirstHead, Spawn,
         ParsingType, SlotsBounded
    <2>4. SlotType'
      BY <1>4, StatusFacts DEF RejectUpgrade, MayRead, FirstHead, Spawn,
         SlotType
    <2>5. FlagType'
      BY <1>4 DEF RejectUpgrade, MayRead, FirstHead, Spawn, FlagType
    <2>6. SlotsBounded'
      BY <1>4, SlotFacts DEF RejectUpgrade, MayRead, FirstHead, Spawn,
         SlotsBounded, ParsingType
    <2> QED BY <2>1, <2>2, <2>3, <2>4, <2>5, <2>6
  <1>5. CASE Fail
    <2>1. TransportType'
      BY <1>5 DEF Fail, MayRead, Spawn, TransportType
    <2>2. ConnectionType'
      BY <1>5 DEF Fail, MayRead, Spawn, ConnectionType
    <2>3. ParsingType'
      BY <1>5, SlotFacts DEF Fail, MayRead, Spawn, ParsingType,
         SlotsBounded
    <2>4. SlotType'
      BY <1>5, StatusFacts DEF Fail, MayRead, Spawn, SlotType
    <2>5. FlagType'
      BY <1>5 DEF Fail, MayRead, Spawn, FlagType
    <2>6. SlotsBounded'
      BY <1>5, SlotFacts DEF Fail, MayRead, Spawn, SlotsBounded,
         ParsingType
    <2> QED BY <2>1, <2>2, <2>3, <2>4, <2>5, <2>6
  <1>6. CASE OnHeadTimeout
    <2>1. TransportType'
      BY <1>6, WriteType, EntryType DEF OnHeadTimeout, LoopFree,
         TransportType, FlagType
    <2>2. ConnectionType'
      BY <1>6 DEF OnHeadTimeout, LoopFree, ConnectionType
    <2>3. ParsingType'
      BY <1>6 DEF OnHeadTimeout, LoopFree, ParsingType
    <2>4. SlotType'
      BY <1>6, StatusFacts DEF OnHeadTimeout, LoopFree, SlotType
    <2>5. FlagType'
      BY <1>6 DEF OnHeadTimeout, LoopFree, FlagType
    <2>6. SlotsBounded'
      BY <1>6 DEF OnHeadTimeout, LoopFree, SlotsBounded, ParsingType
    <2> QED BY <2>1, <2>2, <2>3, <2>4, <2>5, <2>6
  <1>7. CASE EofReceived
    <2>1. TransportType'
      BY <1>7 DEF EofReceived, TransportType
    <2>2. ConnectionType'
      BY <1>7 DEF EofReceived, ConnectionType
    <2>3. ParsingType'
      BY <1>7 DEF EofReceived, ParsingType
    <2>4. SlotType'
      BY <1>7, StatusFacts DEF EofReceived, SlotType
    <2>5. FlagType'
      BY <1>7 DEF EofReceived, FlagType
    <2>6. SlotsBounded'
      BY <1>7 DEF EofReceived, SlotsBounded, ParsingType
    <2> QED BY <2>1, <2>2, <2>3, <2>4, <2>5, <2>6
  <1>8. CASE ConnectionLost
    <2>1. TransportType'
      BY <1>8 DEF ConnectionLost, LoopFree, TransportType
    <2>2. ConnectionType'
      BY <1>8 DEF ConnectionLost, LoopFree, ConnectionType
    <2>3. ParsingType'
      BY <1>8 DEF ConnectionLost, LoopFree, ParsingType
    <2>4. SlotType'
      BY <1>8, AppendType DEF ConnectionLost, LoopFree, SlotType,
         Message
    <2>5. FlagType'
      BY <1>8 DEF ConnectionLost, LoopFree, FlagType, Inflight,
         WokenByDisconnect
    <2>6. SlotsBounded'
      BY <1>8 DEF ConnectionLost, LoopFree, SlotsBounded, ParsingType
    <2> QED BY <2>1, <2>2, <2>3, <2>4, <2>5, <2>6
  <1>9. CASE ResumeWriting
    <2>1. TransportType'
      BY <1>9 DEF ResumeWriting, TransportType
    <2>2. ConnectionType'
      BY <1>9 DEF ResumeWriting, ConnectionType
    <2>3. ParsingType'
      BY <1>9 DEF ResumeWriting, ParsingType
    <2>4. SlotType'
      BY <1>9, StatusFacts DEF ResumeWriting, SlotType
    <2>5. FlagType'
      BY <1>9 DEF ResumeWriting, FlagType
    <2>6. SlotsBounded'
      BY <1>9 DEF ResumeWriting, SlotsBounded, ParsingType
    <2> QED BY <2>1, <2>2, <2>3, <2>4, <2>5, <2>6
  <1>10. CASE BeginShutdown
    <2>1. TransportType'
      BY <1>10 DEF BeginShutdown, TransportType
    <2>2. ConnectionType'
      BY <1>10 DEF BeginShutdown, ConnectionType
    <2>3. ParsingType'
      BY <1>10 DEF BeginShutdown, ParsingType
    <2>4. SlotType'
      BY <1>10, StatusFacts DEF BeginShutdown, SlotType
    <2>5. FlagType'
      BY <1>10 DEF BeginShutdown, FlagType
    <2>6. SlotsBounded'
      BY <1>10 DEF BeginShutdown, SlotsBounded, ParsingType
    <2> QED BY <2>1, <2>2, <2>3, <2>4, <2>5, <2>6
  <1>11. CASE ForceClose
    <2>1. TransportType'
      BY <1>11 DEF ForceClose, TransportType
    <2>2. ConnectionType'
      BY <1>11 DEF ForceClose, ConnectionType
    <2>3. ParsingType'
      BY <1>11 DEF ForceClose, ParsingType
    <2>4. SlotType'
      BY <1>11, StatusFacts DEF ForceClose, SlotType
    <2>5. FlagType'
      BY <1>11 DEF ForceClose, FlagType
    <2>6. SlotsBounded'
      BY <1>11 DEF ForceClose, SlotsBounded, ParsingType
    <2> QED BY <2>1, <2>2, <2>3, <2>4, <2>5, <2>6
  <1>12. ASSUME NEW r \in Slot,
              Start(r)
        PROVE  TypeInv'
    <2>1. TransportType'
      BY <1>12, WriteType, EntryType DEF Start, WakeUp, WriteFailure,
         TransportType, FlagType
    <2>2. ConnectionType'
      BY <1>12 DEF Start, WakeUp, WriteFailure, ConnectionType
    <2>3. ParsingType'
      BY <1>12 DEF Start, WakeUp, WriteFailure, ParsingType
    <2>4. SlotType'
      BY <1>12, StatusFacts DEF Start, WakeUp, WriteFailure, SlotType
    <2>5. FlagType'
      BY <1>12 DEF Start, WakeUp, WriteFailure, FlagType
    <2>6. SlotsBounded'
      BY <1>12 DEF Start, WakeUp, WriteFailure, SlotsBounded,
         ParsingType
    <2> QED BY <2>1, <2>2, <2>3, <2>4, <2>5, <2>6
  <1>13. ASSUME NEW r \in Slot,
              TurnGranted(r)
        PROVE  TypeInv'
    <2>1. TransportType'
      BY <1>13, WriteType, EntryType DEF TurnGranted, WakeUp,
         WriteFailure, WriteHead, TransportType, FlagType
    <2>2. ConnectionType'
      BY <1>13 DEF TurnGranted, WakeUp, WriteFailure, WriteHead,
         ConnectionType
    <2>3. ParsingType'
      BY <1>13 DEF TurnGranted, WakeUp, WriteFailure, WriteHead,
         ParsingType
    <2>4. SlotType'
      BY <1>13, StatusFacts DEF TurnGranted, WakeUp, WriteFailure,
         WriteHead, SlotType
    <2>5. FlagType'
      BY <1>13 DEF TurnGranted, WakeUp, WriteFailure, WriteHead,
         FlagType
    <2>6. SlotsBounded'
      BY <1>13 DEF TurnGranted, WakeUp, WriteFailure, WriteHead,
         SlotsBounded, ParsingType
    <2> QED BY <2>1, <2>2, <2>3, <2>4, <2>5, <2>6
  <1>14. ASSUME NEW r \in Slot,
              MessageArrived(r)
        PROVE  TypeInv'
    <2>1. TransportType'
      BY <1>14 DEF MessageArrived, WakeUp, TakeMessage, StillPaused,
         TransportType
    <2>2. ConnectionType'
      BY <1>14 DEF MessageArrived, WakeUp, TakeMessage, StillPaused,
         ConnectionType
    <2>3. ParsingType'
      BY <1>14 DEF MessageArrived, WakeUp, TakeMessage, StillPaused,
         ParsingType
    <2>4. SlotType'
      BY <1>14, TakeMessageType, StatusFacts DEF MessageArrived, SlotType
    <2>5. FlagType'
      BY <1>14 DEF MessageArrived, WakeUp, TakeMessage, StillPaused,
         FlagType
    <2>6. SlotsBounded'
      BY <1>14 DEF MessageArrived, WakeUp, TakeMessage, StillPaused,
         SlotsBounded, ParsingType
    <2> QED BY <2>1, <2>2, <2>3, <2>4, <2>5, <2>6
  <1>15. ASSUME NEW r \in Slot,
              Drained(r)
        PROVE  TypeInv'
    <2>1. TransportType'
      BY <1>15 DEF Drained, WakeUp, FinishIfLast, Finish, TransportType
    <2>2. ConnectionType'
      BY <1>15 DEF Drained, WakeUp, FinishIfLast, Finish, ConnectionType
    <2>3. ParsingType'
      BY <1>15 DEF Drained, WakeUp, FinishIfLast, Finish, ParsingType
    <2>4. SlotType'
      BY <1>15, StatusFacts DEF Drained, WakeUp, FinishIfLast, Finish,
         SlotType
    <2>5. FlagType'
      BY <1>15 DEF Drained, WakeUp, FinishIfLast, Finish, FlagType
    <2>6. SlotsBounded'
      BY <1>15 DEF Drained, WakeUp, FinishIfLast, Finish, SlotsBounded,
         ParsingType
    <2> QED BY <2>1, <2>2, <2>3, <2>4, <2>5, <2>6
  <1>16. ASSUME NEW r \in Slot,
              CancelTask(r)
        PROVE  TypeInv'
    <2>1. TransportType'
      BY <1>16 DEF CancelTask, TransportType
    <2>2. ConnectionType'
      BY <1>16 DEF CancelTask, ConnectionType
    <2>3. ParsingType'
      BY <1>16 DEF CancelTask, ParsingType
    <2>4. SlotType'
      BY <1>16, StatusFacts DEF CancelTask, SlotType
    <2>5. FlagType'
      BY <1>16 DEF CancelTask, FlagType
    <2>6. SlotsBounded'
      BY <1>16 DEF CancelTask, SlotsBounded, ParsingType
    <2> QED BY <2>1, <2>2, <2>3, <2>4, <2>5, <2>6
  <1>17. ASSUME NEW r \in Slot,
              Interrupted(r)
        PROVE  TypeInv'
    <2>1. TransportType'
      BY <1>17 DEF Interrupted, TransportType
    <2>2. ConnectionType'
      BY <1>17 DEF Interrupted, ConnectionType
    <2>3. ParsingType'
      BY <1>17 DEF Interrupted, ParsingType
    <2>4. SlotType'
      BY <1>17, StatusFacts DEF Interrupted, SlotType
    <2>5. FlagType'
      BY <1>17 DEF Interrupted, FlagType
    <2>6. SlotsBounded'
      BY <1>17 DEF Interrupted, SlotsBounded, ParsingType
    <2> QED BY <2>1, <2>2, <2>3, <2>4, <2>5, <2>6
  <1>18. ASSUME NEW r \in Slot,
              OnTaskDone(r)
        PROVE  TypeInv'
    <2>1. TransportType'
      BY <1>18 DEF OnTaskDone, TransportType
    <2>2. ConnectionType'
      BY <1>18 DEF OnTaskDone, ConnectionType
    <2>3. ParsingType'
      BY <1>18 DEF OnTaskDone, ParsingType
    <2>4. SlotType'
      BY <1>18, StatusFacts DEF OnTaskDone, SlotType
    <2>5. FlagType'
      BY <1>18 DEF OnTaskDone, FlagType
    <2>6. SlotsBounded'
      BY <1>18 DEF OnTaskDone, SlotsBounded, ParsingType
    <2> QED BY <2>1, <2>2, <2>3, <2>4, <2>5, <2>6
  <1>19. ASSUME NEW r \in Slot,
              Receive(r)
        PROVE  TypeInv'
    <2>1. TransportType'
      BY <1>19 DEF Receive, TakeMessage, StillPaused, TransportType
    <2>2. ConnectionType'
      BY <1>19 DEF Receive, TakeMessage, StillPaused, ConnectionType
    <2>3. ParsingType'
      BY <1>19 DEF Receive, TakeMessage, StillPaused, ParsingType
    <2>4. SlotType'
      BY <1>19, TakeMessageType, StatusFacts DEF Receive, SlotType
    <2>5. FlagType'
      BY <1>19 DEF Receive, TakeMessage, StillPaused, FlagType
    <2>6. SlotsBounded'
      BY <1>19 DEF Receive, TakeMessage, StillPaused, SlotsBounded,
         ParsingType
    <2> QED BY <2>1, <2>2, <2>3, <2>4, <2>5, <2>6
  <1>20. ASSUME NEW r \in Slot, NEW d \in BOOLEAN,
              SendStart(r, d)
        PROVE  TypeInv'
    <2>1. TransportType'
      BY <1>20, WriteType, EntryType DEF SendStart, WriteHead,
         TransportType, FlagType
    <2>2. ConnectionType'
      BY <1>20 DEF SendStart, WriteHead, ConnectionType
    <2>3. ParsingType'
      BY <1>20 DEF SendStart, WriteHead, ParsingType
    <2>4. SlotType'
      BY <1>20, StatusFacts DEF SendStart, WriteHead, SlotType
    <2>5. FlagType'
      BY <1>20 DEF SendStart, WriteHead, FlagType
    <2>6. SlotsBounded'
      BY <1>20 DEF SendStart, WriteHead, SlotsBounded, ParsingType
    <2> QED BY <2>1, <2>2, <2>3, <2>4, <2>5, <2>6
  <1>21. ASSUME NEW r \in Slot, NEW l \in BOOLEAN, NEW f \in BOOLEAN,
              SendBody(r, l, f)
        PROVE  TypeInv'
    <2>1. TransportType'
      BY <1>21, WriteType, EntryType DEF SendBody, AwaitDrain,
         FinishIfLast, Finish, TransportType, FlagType
    <2>2. ConnectionType'
      BY <1>21 DEF SendBody, AwaitDrain, FinishIfLast, Finish,
         ConnectionType
    <2>3. ParsingType'
      BY <1>21 DEF SendBody, AwaitDrain, FinishIfLast, Finish,
         ParsingType
    <2>4. SlotType'
      BY <1>21, StatusFacts DEF SendBody, AwaitDrain, FinishIfLast,
         Finish, SlotType
    <2>5. FlagType'
      BY <1>21 DEF SendBody, AwaitDrain, FinishIfLast, Finish, FlagType
    <2>6. SlotsBounded'
      BY <1>21 DEF SendBody, AwaitDrain, FinishIfLast, Finish,
         SlotsBounded, ParsingType
    <2> QED BY <2>1, <2>2, <2>3, <2>4, <2>5, <2>6
  <1>22. ASSUME NEW r \in Slot, NEW how \in {"returned", "raised"},
              AppEnd(r, how)
        PROVE  TypeInv'
    <2>1. TransportType'
      BY <1>22 DEF AppEnd, TransportType
    <2>2. ConnectionType'
      BY <1>22 DEF AppEnd, ConnectionType
    <2>3. ParsingType'
      BY <1>22 DEF AppEnd, ParsingType
    <2>4. SlotType'
      BY <1>22, StatusFacts DEF AppEnd, SlotType
    <2>5. FlagType'
      BY <1>22 DEF AppEnd, FlagType
    <2>6. SlotsBounded'
      BY <1>22 DEF AppEnd, SlotsBounded, ParsingType
    <2> QED BY <2>1, <2>2, <2>3, <2>4, <2>5, <2>6
  <1>23. CASE UNCHANGED vars
    BY <1>23 DEF vars, TransportType, ConnectionType, ParsingType, SlotType,
       FlagType, SlotsBounded
  <1> QED
    BY <1>1, <1>2, <1>3, <1>4, <1>5, <1>6, <1>7, <1>8, <1>9, <1>10,
       <1>11, <1>12, <1>13, <1>14, <1>15, <1>16, <1>17, <1>18, <1>19,
       <1>20, <1>21, <1>22, <1>23 DEF Next, DataReceived, LoopStep,
       AppStep

\* Every variable of a connection keeps its type, whatever the bounds.
THEOREM TypeCorrect == Spec => []TypeOK
  <1>1. Spec => []TypeInv
    BY InitTypeInv, NextTypeInv, PTL DEF Spec
  <1>2. TypeInv => TypeOK
    BY DEF TypeInv
  <1> QED BY <1>1, <1>2, PTL

-----------------------------------------------------------------------------
(* Cancellation.  Once the connection is lost no task enters the wait of     *)
(* receive(), and those that were in it are owed a wake-up that no           *)
(* cancellation overtakes.                                                   *)

CancelInv ==
    /\ disconnected => closing
    /\ cancelling # {} => disconnected
    /\ \A r \in Slot : mustCancel[r] => disconnected /\ owed = {}
    /\ disconnected => \A r \in Slot : task[r] = "recv" => r \in owed

LEMMA InitCancelInv == Init => CancelInv
  BY DEF Init, CancelInv

LEMMA NextCancelInv == TypeInv /\ CancelInv /\ [Next]_vars => CancelInv'
  <1> SUFFICES ASSUME TypeInv, CancelInv, [Next]_vars PROVE CancelInv'
    OBVIOUS
  <1> USE DEF TypeInv, TypeOK, SlotType, FlagType, CancelInv, transport,
          connection, parsing, requests, progress, loop
  <1>1. ASSUME NEW mode \in {"events", "error"}, NEW c \in BOOLEAN,
              BeginRequest(mode, c)
        PROVE  CancelInv'
    BY <1>1 DEF BeginRequest, Spawn
  <1>2. ASSUME NEW mode \in {"events", "error"}, NEW m \in {"more", "last"},
              PushBodyChunk(mode, m)
        PROVE  CancelInv'
    BY <1>2 DEF PushBodyChunk
  <1>3. CASE EndOfEvents
    BY <1>3 DEF EndOfEvents
  <1>4. CASE RejectUpgrade
    BY <1>4 DEF RejectUpgrade, Spawn
  <1>5. CASE Fail
    BY <1>5 DEF Fail, Spawn
  <1>6. CASE OnHeadTimeout
    BY <1>6 DEF OnHeadTimeout
  <1>7. CASE EofReceived
    BY <1>7 DEF EofReceived
  <1>8. CASE ConnectionLost
    BY <1>8 DEF ConnectionLost, WokenByDisconnect, Inflight
  <1>9. CASE ResumeWriting
    BY <1>9 DEF ResumeWriting
  <1>10. CASE BeginShutdown
    BY <1>10 DEF BeginShutdown
  <1>11. CASE ForceClose
    BY <1>11 DEF ForceClose
  <1>12. ASSUME NEW r \in Slot,
              Start(r)
        PROVE  CancelInv'
    BY <1>12 DEF Start, WakeUp, WriteFailure, Resumable
  <1>13. ASSUME NEW r \in Slot,
              TurnGranted(r)
        PROVE  CancelInv'
    BY <1>13 DEF TurnGranted, WakeUp, WriteFailure, WriteHead, Resumable
  <1>14. ASSUME NEW r \in Slot,
              MessageArrived(r)
        PROVE  CancelInv'
    BY <1>14 DEF MessageArrived, WakeUp, Resumable
  <1>15. ASSUME NEW r \in Slot,
              Drained(r)
        PROVE  CancelInv'
    BY <1>15 DEF Drained, WakeUp, FinishIfLast, Finish, Resumable
  <1>16. ASSUME NEW r \in Slot,
              CancelTask(r)
        PROVE  CancelInv'
    BY <1>16 DEF CancelTask
  <1>17. ASSUME NEW r \in Slot,
              Interrupted(r)
        PROVE  CancelInv'
    BY <1>17 DEF Interrupted
  <1>18. ASSUME NEW r \in Slot,
              OnTaskDone(r)
        PROVE  CancelInv'
    BY <1>18 DEF OnTaskDone, Ended
  <1>19. ASSUME NEW r \in Slot,
              Receive(r)
        PROVE  CancelInv'
    BY <1>19 DEF Receive, Running, Resumable
  <1>20. ASSUME NEW r \in Slot, NEW d \in BOOLEAN,
              SendStart(r, d)
        PROVE  CancelInv'
    BY <1>20 DEF SendStart, WriteHead
  <1>21. ASSUME NEW r \in Slot, NEW l \in BOOLEAN, NEW f \in BOOLEAN,
              SendBody(r, l, f)
        PROVE  CancelInv'
    BY <1>21 DEF SendBody, AwaitDrain, FinishIfLast, Finish
  <1>22. ASSUME NEW r \in Slot, NEW how \in {"returned", "raised"},
              AppEnd(r, how)
        PROVE  CancelInv'
    BY <1>22 DEF AppEnd
  <1>23. CASE UNCHANGED vars
    BY <1>23 DEF vars
  <1> QED
    BY <1>1, <1>2, <1>3, <1>4, <1>5, <1>6, <1>7, <1>8, <1>9, <1>10,
       <1>11, <1>12, <1>13, <1>14, <1>15, <1>16, <1>17, <1>18, <1>19,
       <1>20, <1>21, <1>22, <1>23 DEF Next, DataReceived, LoopStep,
       AppStep

\* A task that connection_lost found blocked in receive() gets its message
\* before its cancellation: the deferred call_soon(task.cancel).
THEOREM DisconnectDelivered == Spec => []DisconnectObserved
  <1>1. Spec => [](TypeInv /\ CancelInv)
    BY InitTypeInv, NextTypeInv, InitCancelInv, NextCancelInv, PTL DEF Spec
  <1>2. CancelInv => DisconnectObserved
    BY DEF CancelInv, DisconnectObserved
  <1> QED BY <1>1, <1>2, PTL

-----------------------------------------------------------------------------
(* The life of a slot.  A slot beyond the newest is unused; a failure task   *)
(* has no response of an application; a task waits for its turn with a head  *)
(* it has not written.                                                       *)

SlotInv ==
    \A r \in Slot :
        /\ r > slots => task[r] = "unused"
        /\ task[r] \in {"unused", "new"} => response[r] = "none"
        /\ mustCancel[r] \/ r \in cancelling => task[r] # "unused"
        /\ kind[r] = "failure" =>
               /\ task[r] \in {"unused", "new", "turn", "returned", "cancelled",
                               "gone"}
               /\ response[r] = "none"
        /\ kind[r] = "app" /\ task[r] = "turn" => response[r] = "started"

LEMMA InitSlotInv == Init => SlotInv
  BY DEF Init, SlotInv

LEMMA NextSlotInv == TypeInv /\ SlotInv /\ [Next]_vars => SlotInv'
  <1> SUFFICES ASSUME TypeInv, SlotInv, [Next]_vars PROVE SlotInv'
    OBVIOUS
  <1> USE SlotFacts DEF TypeInv, TypeOK, ParsingType, SlotType, FlagType,
          SlotInv, transport, connection, parsing, requests, progress, loop
  <1>1. ASSUME NEW mode \in {"events", "error"}, NEW c \in BOOLEAN,
              BeginRequest(mode, c)
        PROVE  SlotInv'
    BY <1>1 DEF BeginRequest, Spawn
  <1>2. ASSUME NEW mode \in {"events", "error"}, NEW m \in {"more", "last"},
              PushBodyChunk(mode, m)
        PROVE  SlotInv'
    BY <1>2 DEF PushBodyChunk
  <1>3. CASE EndOfEvents
    BY <1>3 DEF EndOfEvents
  <1>4. CASE RejectUpgrade
    BY <1>4 DEF RejectUpgrade, Spawn
  <1>5. CASE Fail
    BY <1>5 DEF Fail, Spawn
  <1>6. CASE OnHeadTimeout
    BY <1>6 DEF OnHeadTimeout
  <1>7. CASE EofReceived
    BY <1>7 DEF EofReceived
  <1>8. CASE ConnectionLost
    BY <1>8 DEF ConnectionLost, WokenByDisconnect, Inflight
  <1>9. CASE ResumeWriting
    BY <1>9 DEF ResumeWriting
  <1>10. CASE BeginShutdown
    BY <1>10 DEF BeginShutdown
  <1>11. CASE ForceClose
    BY <1>11 DEF ForceClose
  <1>12. ASSUME NEW r \in Slot,
              Start(r)
        PROVE  SlotInv'
    BY <1>12 DEF Start, WakeUp, WriteFailure, Resumable
  <1>13. ASSUME NEW r \in Slot,
              TurnGranted(r)
        PROVE  SlotInv'
    BY <1>13 DEF TurnGranted, WakeUp, WriteFailure, WriteHead, Resumable
  <1>14. ASSUME NEW r \in Slot,
              MessageArrived(r)
        PROVE  SlotInv'
    BY <1>14 DEF MessageArrived, WakeUp, Resumable
  <1>15. ASSUME NEW r \in Slot,
              Drained(r)
        PROVE  SlotInv'
    BY <1>15 DEF Drained, WakeUp, FinishIfLast, Finish, Resumable
  <1>16. ASSUME NEW r \in Slot,
              CancelTask(r)
        PROVE  SlotInv'
    BY <1>16 DEF CancelTask, Ended
  <1>17. ASSUME NEW r \in Slot,
              Interrupted(r)
        PROVE  SlotInv'
    BY <1>17 DEF Interrupted, Ended
  <1>18. ASSUME NEW r \in Slot,
              OnTaskDone(r)
        PROVE  SlotInv'
    BY <1>18 DEF OnTaskDone, Ended
  <1>19. ASSUME NEW r \in Slot,
              Receive(r)
        PROVE  SlotInv'
    BY <1>19 DEF Receive, Running, Resumable
  <1>20. ASSUME NEW r \in Slot, NEW d \in BOOLEAN,
              SendStart(r, d)
        PROVE  SlotInv'
    BY <1>20 DEF SendStart, WriteHead, Running, Resumable
  <1>21. ASSUME NEW r \in Slot, NEW l \in BOOLEAN, NEW f \in BOOLEAN,
              SendBody(r, l, f)
        PROVE  SlotInv'
    BY <1>21 DEF SendBody, AwaitDrain, FinishIfLast, Finish, Running,
       Resumable
  <1>22. ASSUME NEW r \in Slot, NEW how \in {"returned", "raised"},
              AppEnd(r, how)
        PROVE  SlotInv'
    BY <1>22 DEF AppEnd, Running, Resumable
  <1>23. CASE UNCHANGED vars
    BY <1>23 DEF vars
  <1> QED
    BY <1>1, <1>2, <1>3, <1>4, <1>5, <1>6, <1>7, <1>8, <1>9, <1>10,
       <1>11, <1>12, <1>13, <1>14, <1>15, <1>16, <1>17, <1>18, <1>19,
       <1>20, <1>21, <1>22, <1>23 DEF Next, DataReceived, LoopStep,
       AppStep

-----------------------------------------------------------------------------
(* The write turnstile.  While the transport is open, the released links    *)
(* form a prefix of the slots, a released link belongs to a finished         *)
(* response, and only the task whose turn it is has a head on the wire and   *)
(* no released link.                                                         *)

HeadOnWire(q) == \E j \in DOMAIN wire : wire[j].slot = q /\ wire[j].part = "head"

TurnOf(r) ==
    /\ myDone[r] => response[r] = "final"
    /\ response[r] # "none" /\ task[r] # "turn" => Turn(r) /\ HeadOnWire(r)
    /\ response[r] = "final" /\ task[r] \notin {"drain", "drained"} => myDone[r]
    /\ task[r] \in {"drain", "drained"} => response[r] # "none" /\ ~myDone[r]
    /\ kind[r] = "app" /\ task[r] = "returned" => response[r] = "final"
    /\ task[r] # "cancelled"

ReleasedPrefix == \A q, r \in Slot : q < r /\ myDone[r] => myDone[q]

TurnInv == ~closing => ReleasedPrefix /\ \A r \in Slot : TurnOf(r)

\* No application has returned from an open connection without completing its
\* response.  The server never checks it: what follows about the order of the
\* responses holds for as long as the applications of the connection keep to it.
NoneAbandoned ==
    ~closing => \A r \in Slot :
        kind[r] = "app" /\ task[r] = "returned" => response[r] = "final"

\* Applications that never return early: they complete their responses or raise.
NoAbandons == "abandons" \notin Habits

\* What a write to an open transport does.
LEMMA WriteAppends ==
    ASSUME TransportType, NEW e \in Entry, Write(e), ~closing
    PROVE  /\ DOMAIN wire = 1..Len(wire) /\ Len(wire) \in Nat
           /\ DOMAIN wire' = 1..(Len(wire) + 1)
           /\ \A i \in DOMAIN wire : wire'[i] = wire[i]
           /\ wire'[Len(wire) + 1] = e
  BY DEF TransportType, Write

\* Heads stay on the wire.
LEMMA HeadStays ==
    ASSUME TransportType, NEW e \in Entry, Write(e), NEW q, HeadOnWire(q)
    PROVE  HeadOnWire(q)'
  <1>1. CASE closing
    BY <1>1 DEF Write, HeadOnWire
  <1>2. CASE ~closing
    BY <1>2, WriteAppends DEF HeadOnWire
  <1> QED BY <1>1, <1>2

\* A head that is written is there.
LEMMA HeadWritten ==
    ASSUME TransportType, NEW r \in Slot, WriteHead(r), ~closing,
           close'[r] \in BOOLEAN
    PROVE  HeadOnWire(r)'
  <1> DEFINE e == [slot |-> r, part |-> "head", close |-> close'[r]]
  <1>1. e \in Entry /\ e.slot = r /\ e.part = "head"
    BY DEF Entry
  <1>2. Write(e)
    BY DEF WriteHead
  <1> HIDE DEF e
  <1> QED BY <1>1, <1>2, WriteAppends DEF HeadOnWire

LEMMA InitTurnInv == Init => TurnInv
  BY DEF Init, TurnInv, TurnOf, ReleasedPrefix

\* A slot that a step leaves alone, while links are only ever released and
\* heads only ever added.
LEMMA TurnOfFrame ==
    ASSUME NEW q \in Slot, TurnOf(q),
           task'[q] = task[q], kind'[q] = kind[q], response'[q] = response[q],
           myDone'[q] = myDone[q],
           \A p \in Slot : myDone[p] => myDone'[p],
           HeadOnWire(q) => HeadOnWire(q)'
    PROVE  TurnOf(q)'
  <1>1. Turn(q) => Turn(q)'
    BY PreviousSlot DEF Turn
  <1> QED BY <1>1 DEF TurnOf

\* A step that only moves other parts of the connection.
LEMMA TurnStutter ==
    ASSUME TurnInv, closing => closing',
           UNCHANGED <<wire, task, kind, response, myDone>>
    PROVE  TurnInv'
  BY DEF TurnInv, TurnOf, ReleasedPrefix, Turn, HeadOnWire

\* Before its turn, every earlier link has been released.
LEMMA TurnReleases ==
    ASSUME ReleasedPrefix, NEW r \in Slot, Turn(r), NEW q \in Slot, q < r
    PROVE  myDone[q]
  <1>1. r > 1 /\ r - 1 \in Slot /\ myDone[r - 1]
    BY SlotFacts, PreviousSlot DEF Turn
  <1>2. q = r - 1 \/ q < r - 1
    BY SlotFacts
  <1> QED BY <1>1, <1>2 DEF ReleasedPrefix

\* A write keeps the heads.
LEMMA WritesKeepHeads ==
    ASSUME TransportType, wire' = wire \/ \E e \in Entry : Write(e)
    PROVE  \A q \in Slot : HeadOnWire(q) => HeadOnWire(q)'
  <1>1. CASE wire' = wire
    BY <1>1 DEF HeadOnWire
  <1>2. CASE \E e \in Entry : Write(e)
    BY <1>2, HeadStays
  <1> QED BY <1>1, <1>2

LEMMA NextTurnInv ==
    NoneAbandoned' /\ TypeInv /\ CancelInv /\ SlotInv /\ TurnInv /\ [Next]_vars
        => TurnInv'
  <1> SUFFICES ASSUME NoneAbandoned', TypeInv, CancelInv, SlotInv, TurnInv,
                      [Next]_vars
               PROVE  TurnInv'
    OBVIOUS
  <1> USE DEF TypeInv, TypeOK, transport, connection, parsing, requests,
          progress, loop
  <1>1. ASSUME NEW mode \in {"events", "error"}, NEW c \in BOOLEAN,
              BeginRequest(mode, c)
        PROVE  TurnInv'
    <2>1. slots + 1 \in Slot /\ task[slots + 1] = "unused"
      BY <1>1, SlotFacts, BoundsAssumption DEF BeginRequest, InBatch, MayRead,
         ParsingType, SlotsBounded, SlotInv
    <2> QED
      BY <1>1, <2>1 DEF BeginRequest, Spawn, HeadOnWire, SlotInv, TurnInv, TurnOf,
         ReleasedPrefix, Turn, SlotType
  <1>2. ASSUME NEW mode \in {"events", "error"}, NEW m \in {"more", "last"},
              PushBodyChunk(mode, m)
        PROVE  TurnInv'
    BY <1>2, TurnStutter DEF PushBodyChunk
  <1>3. CASE EndOfEvents
    BY <1>3, TurnStutter DEF EndOfEvents
  <1>4. CASE RejectUpgrade
    <2>1. slots + 1 \in Slot /\ task[slots + 1] = "unused"
      BY <1>4, SlotFacts, BoundsAssumption DEF RejectUpgrade, MayRead, ParsingType,
         SlotsBounded, SlotInv
    <2> QED
      BY <1>4, <2>1 DEF RejectUpgrade, Spawn, HeadOnWire, SlotInv, TurnInv, TurnOf,
         ReleasedPrefix, Turn, SlotType
  <1>5. CASE Fail
    <2>1. slots + 1 \in Slot /\ task[slots + 1] = "unused"
      BY <1>5, SlotFacts, BoundsAssumption DEF Fail, MayRead, ParsingType, SlotsBounded,
         SlotInv
    <2> QED
      BY <1>5, <2>1 DEF Fail, Spawn, HeadOnWire, SlotInv, TurnInv, TurnOf,
         ReleasedPrefix, Turn, SlotType
  <1>6. CASE OnHeadTimeout
    BY <1>6, TurnStutter DEF OnHeadTimeout, TurnInv
  <1>7. CASE EofReceived
    BY <1>7, TurnStutter DEF EofReceived
  <1>8. CASE ConnectionLost
    BY <1>8, TurnStutter DEF ConnectionLost
  <1>9. CASE ResumeWriting
    BY <1>9 DEF ResumeWriting, HeadOnWire, TurnInv, TurnOf, ReleasedPrefix,
       Turn, SlotType
  <1>10. CASE BeginShutdown
    BY <1>10, TurnStutter DEF BeginShutdown
  <1>11. CASE ForceClose
    BY <1>11, TurnStutter DEF ForceClose
  <1>12. ASSUME NEW r \in Slot,
              Start(r)
        PROVE  TurnInv'
    <2> SUFFICES ASSUME ~closing'
                 PROVE  ReleasedPrefix' /\ \A q \in Slot : TurnOf(q)'
      BY DEF TurnInv
    <2>1. ~closing /\ ReleasedPrefix /\ \A q \in Slot : TurnOf(q)
      BY <1>12 DEF Start, WriteFailure, Resumable, TurnInv
    <2>2. \A q \in Slot : HeadOnWire(q) => HeadOnWire(q)'
      <3>1. wire' = wire \/ \E e \in Entry : Write(e)
        BY <1>12, EntryType DEF Start, WriteFailure
      <3> QED BY <3>1, WritesKeepHeads
    <2>3. \A q \in Slot : myDone[q] => myDone'[q]
      BY <1>12 DEF Start, WriteFailure, Resumable, FlagType
    <2>4. myDone' = myDone
      BY <1>12 DEF Start, WriteFailure, Resumable, progress
    <2>5. ReleasedPrefix'
      BY <2>1, <2>4 DEF ReleasedPrefix
    <2>6. TurnOf(r)'
      BY <1>12, <2>1, <2>2, <2>4 DEF Start, WriteFailure, Resumable,
         TurnOf, Turn, SlotType, FlagType, SlotInv
    <2>7. ASSUME NEW q \in Slot, q # r PROVE TurnOf(q)'
      <3>1. /\ task'[q] = task[q] /\ kind'[q] = kind[q]
            /\ response'[q] = response[q] /\ myDone'[q] = myDone[q]
        BY <1>12, <2>7 DEF Start, WriteFailure, Resumable, SlotType,
           FlagType
      <3> QED
        BY <2>1, <2>2, <2>3, <3>1, TurnOfFrame
    <2> QED BY <2>5, <2>6, <2>7
  <1>13. ASSUME NEW r \in Slot,
              TurnGranted(r)
        PROVE  TurnInv'
    <2> SUFFICES ASSUME ~closing'
                 PROVE  ReleasedPrefix' /\ \A q \in Slot : TurnOf(q)'
      BY DEF TurnInv
    <2>1. ~closing /\ ReleasedPrefix /\ \A q \in Slot : TurnOf(q)
      BY <1>13 DEF TurnGranted, WriteFailure, WriteHead, Resumable,
         TurnInv
    <2>2. \A q \in Slot : HeadOnWire(q) => HeadOnWire(q)'
      <3>1. wire' = wire \/ \E e \in Entry : Write(e)
        BY <1>13, EntryType DEF TurnGranted, WriteFailure, WriteHead, FlagType
      <3> QED BY <3>1, WritesKeepHeads
    <2>3. \A q \in Slot : myDone[q] => myDone'[q]
      BY <1>13 DEF TurnGranted, WriteFailure, WriteHead, Resumable,
         FlagType
    <2>4. myDone' = myDone
      BY <1>13 DEF TurnGranted, WriteFailure, WriteHead, Resumable,
         progress
    <2>5. ReleasedPrefix'
      BY <2>1, <2>4 DEF ReleasedPrefix
    <2>6. TurnOf(r)'
      <3>1. /\ kind[r] = "app" /\ Turn(r) /\ response[r] = "started"
            /\ task'[r] = "run" /\ kind' = kind /\ response' = response
            /\ WriteHead(r) /\ close' = close
        BY <1>13 DEF TurnGranted, WriteFailure, Resumable, SlotInv, SlotType
      <3>2. close'[r] \in BOOLEAN
        BY <3>1 DEF FlagType
      <3>3. HeadOnWire(r)'
        BY <2>1, <3>1, <3>2, HeadWritten
      <3>4. Turn(r)'
        BY <2>4, <3>1 DEF Turn
      <3> QED BY <2>1, <2>4, <3>1, <3>3, <3>4 DEF TurnOf
    <2>7. ASSUME NEW q \in Slot, q # r PROVE TurnOf(q)'
      <3>1. /\ task'[q] = task[q] /\ kind'[q] = kind[q]
            /\ response'[q] = response[q] /\ myDone'[q] = myDone[q]
        BY <1>13, <2>7 DEF TurnGranted, WriteFailure, WriteHead,
           Resumable, SlotType, FlagType
      <3> QED
        BY <2>1, <2>2, <2>3, <3>1, TurnOfFrame
    <2> QED BY <2>5, <2>6, <2>7
  <1>14. ASSUME NEW r \in Slot,
              MessageArrived(r)
        PROVE  TurnInv'
    <2> SUFFICES ASSUME ~closing'
                 PROVE  ReleasedPrefix' /\ \A q \in Slot : TurnOf(q)'
      BY DEF TurnInv
    <2>1. ~closing /\ ReleasedPrefix /\ \A q \in Slot : TurnOf(q)
      BY <1>14 DEF MessageArrived, Resumable, TurnInv
    <2>2. \A q \in Slot : HeadOnWire(q) => HeadOnWire(q)'
      BY <1>14 DEF MessageArrived, HeadOnWire
    <2>3. \A q \in Slot : myDone[q] => myDone'[q]
      BY <1>14 DEF MessageArrived, Resumable, FlagType
    <2>4. myDone' = myDone
      BY <1>14 DEF MessageArrived, Resumable, progress
    <2>5. ReleasedPrefix'
      BY <2>1, <2>4 DEF ReleasedPrefix
    <2>6. TurnOf(r)'
      BY <1>14, <2>1, <2>2, <2>4 DEF MessageArrived, Resumable,
         TurnOf, Turn, SlotType, FlagType
    <2>7. ASSUME NEW q \in Slot, q # r PROVE TurnOf(q)'
      <3>1. /\ task'[q] = task[q] /\ kind'[q] = kind[q]
            /\ response'[q] = response[q] /\ myDone'[q] = myDone[q]
        BY <1>14, <2>7 DEF MessageArrived, Resumable, SlotType,
           FlagType
      <3> QED
        BY <2>1, <2>2, <2>3, <3>1, TurnOfFrame
    <2> QED BY <2>5, <2>6, <2>7
  <1>15. ASSUME NEW r \in Slot,
              Drained(r)
        PROVE  TurnInv'
    <2> SUFFICES ASSUME ~closing'
                 PROVE  ReleasedPrefix' /\ \A q \in Slot : TurnOf(q)'
      BY DEF TurnInv
    <2>1. ~closing /\ ReleasedPrefix /\ \A q \in Slot : TurnOf(q)
      BY <1>15 DEF Drained, FinishIfLast, Finish, Resumable, TurnInv
    <2>2. \A q \in Slot : HeadOnWire(q) => HeadOnWire(q)'
      BY <1>15 DEF Drained, HeadOnWire
    <2>3. \A q \in Slot : myDone[q] => myDone'[q]
      BY <1>15 DEF Drained, FinishIfLast, Finish, Resumable, FlagType
    <2>4. Turn(r)
      BY <1>15, <2>1 DEF Drained, FinishIfLast, Finish, Resumable,
         TurnOf
    <2>5. ReleasedPrefix'
      <3>1. \A q \in Slot : q # r => myDone'[q] = myDone[q]
        BY <1>15 DEF Drained, FinishIfLast, Finish, Resumable,
           FlagType
      <3>2. \A q \in Slot : q < r => myDone[q]
        BY <2>1, <2>4, TurnReleases
      <3> QED
        BY <2>1, <2>3, <3>1, <3>2, SlotFacts DEF ReleasedPrefix
    <2>6. TurnOf(r)'
      <3>1. /\ task[r] = "drained" /\ task'[r] = "run"
            /\ kind' = kind /\ response' = response
        BY <1>15 DEF Drained, Resumable, SlotType
      <3>2. myDone'[r] = (response[r] = "final")
        BY <1>15, <2>1, <3>1 DEF Drained, FinishIfLast, Finish, TurnOf, FlagType
      <3>3. Turn(r)'
        BY <2>3, <2>4, PreviousSlot DEF Turn
      <3> QED BY <2>1, <2>2, <3>1, <3>2, <3>3 DEF TurnOf
    <2>7. ASSUME NEW q \in Slot, q # r PROVE TurnOf(q)'
      <3>1. /\ task'[q] = task[q] /\ kind'[q] = kind[q]
            /\ response'[q] = response[q] /\ myDone'[q] = myDone[q]
        BY <1>15, <2>7 DEF Drained, FinishIfLast, Finish, Resumable,
           SlotType, FlagType
      <3> QED
        BY <2>1, <2>2, <2>3, <3>1, TurnOfFrame
    <2> QED BY <2>5, <2>6, <2>7
  <1>16. ASSUME NEW r \in Slot,
              CancelTask(r)
        PROVE  TurnInv'
    BY <1>16, TurnStutter DEF CancelTask
  <1>17. ASSUME NEW r \in Slot,
              Interrupted(r)
        PROVE  TurnInv'
    BY <1>17 DEF Interrupted, CancelInv, TurnInv
  <1>18. ASSUME NEW r \in Slot,
              OnTaskDone(r)
        PROVE  TurnInv'
    <2> SUFFICES ASSUME ~closing'
                 PROVE  ReleasedPrefix' /\ \A q \in Slot : TurnOf(q)'
      BY DEF TurnInv
    <2>1. ~closing /\ ReleasedPrefix /\ \A q \in Slot : TurnOf(q)
      BY <1>18 DEF OnTaskDone, Ended, TurnInv
    <2>2. \A q \in Slot : HeadOnWire(q) => HeadOnWire(q)'
      BY <1>18 DEF OnTaskDone, HeadOnWire
    <2>3. \A q \in Slot : myDone[q] => myDone'[q]
      BY <1>18 DEF OnTaskDone, Ended, FlagType
    <2>4. myDone' = myDone
      <3>1. task[r] = "returned"
        BY <1>18, <2>1 DEF OnTaskDone, Ended, TurnOf
      <3>2. (myDone[r] \/ kind[r] = "app") = myDone[r]
        BY <2>1, <3>1 DEF TurnOf, FlagType
      <3> QED BY <1>18, <3>2 DEF OnTaskDone, FlagType
    <2>5. ReleasedPrefix'
      BY <2>1, <2>4 DEF ReleasedPrefix
    <2>6. TurnOf(r)'
      BY <1>18, <2>1, <2>2, <2>4 DEF OnTaskDone, Ended, TurnOf, Turn,
         SlotType, FlagType, SlotInv
    <2>7. ASSUME NEW q \in Slot, q # r PROVE TurnOf(q)'
      <3>1. /\ task'[q] = task[q] /\ kind'[q] = kind[q]
            /\ response'[q] = response[q] /\ myDone'[q] = myDone[q]
        BY <1>18, <2>7 DEF OnTaskDone, Ended, SlotType, FlagType
      <3> QED
        BY <2>1, <2>2, <2>3, <3>1, TurnOfFrame
    <2> QED BY <2>5, <2>6, <2>7
  <1>19. ASSUME NEW r \in Slot,
              Receive(r)
        PROVE  TurnInv'
    <2> SUFFICES ASSUME ~closing'
                 PROVE  ReleasedPrefix' /\ \A q \in Slot : TurnOf(q)'
      BY DEF TurnInv
    <2>1. ~closing /\ ReleasedPrefix /\ \A q \in Slot : TurnOf(q)
      BY <1>19 DEF Receive, Running, Resumable, TurnInv
    <2>2. \A q \in Slot : HeadOnWire(q) => HeadOnWire(q)'
      BY <1>19 DEF Receive, HeadOnWire
    <2>3. \A q \in Slot : myDone[q] => myDone'[q]
      BY <1>19 DEF Receive, Running, Resumable, FlagType
    <2>4. myDone' = myDone
      BY <1>19 DEF Receive, Running, Resumable, progress
    <2>5. ReleasedPrefix'
      BY <2>1, <2>4 DEF ReleasedPrefix
    <2>6. TurnOf(r)'
      BY <1>19, <2>1, <2>2, <2>4 DEF Receive, Running, Resumable,
         TurnOf, Turn, SlotType, FlagType
    <2>7. ASSUME NEW q \in Slot, q # r PROVE TurnOf(q)'
      <3>1. /\ task'[q] = task[q] /\ kind'[q] = kind[q]
            /\ response'[q] = response[q] /\ myDone'[q] = myDone[q]
        BY <1>19, <2>7 DEF Receive, Running, Resumable, SlotType,
           FlagType
      <3> QED
        BY <2>1, <2>2, <2>3, <3>1, TurnOfFrame
    <2> QED BY <2>5, <2>6, <2>7
  <1>20. ASSUME NEW r \in Slot, NEW d \in BOOLEAN,
              SendStart(r, d)
        PROVE  TurnInv'
    <2> SUFFICES ASSUME ~closing'
                 PROVE  ReleasedPrefix' /\ \A q \in Slot : TurnOf(q)'
      BY DEF TurnInv
    <2>1. ~closing /\ ReleasedPrefix /\ \A q \in Slot : TurnOf(q)
      BY <1>20 DEF SendStart, WriteHead, Running, Resumable, TurnInv
    <2>2. \A q \in Slot : HeadOnWire(q) => HeadOnWire(q)'
      <3>1. wire' = wire \/ \E e \in Entry : Write(e)
        BY <1>20, EntryType DEF SendStart, WriteHead, FlagType
      <3> QED BY <3>1, WritesKeepHeads
    <2>3. \A q \in Slot : myDone[q] => myDone'[q]
      BY <1>20 DEF SendStart, WriteHead, Running, Resumable, FlagType
    <2>4. myDone' = myDone
      BY <1>20 DEF SendStart, WriteHead, Running, Resumable, progress
    <2>5. ReleasedPrefix'
      BY <2>1, <2>4 DEF ReleasedPrefix
    <2>6. TurnOf(r)'
      <3>1. /\ task[r] = "run" /\ kind' = kind /\ response'[r] = "started"
            /\ response[r] = "none" /\ ~myDone'[r]
        BY <1>20, <2>1, <2>4 DEF SendStart, Running, Resumable, SlotType, TurnOf
      <3>2. CASE Turn(r)
        <4>1. task'[r] = "run" /\ WriteHead(r) /\ close'[r] \in BOOLEAN
          BY <1>20, <3>1, <3>2 DEF SendStart, FlagType
        <4>2. HeadOnWire(r)'
          BY <2>1, <4>1, HeadWritten
        <4>3. Turn(r)'
          BY <2>4, <3>2 DEF Turn
        <4> QED BY <3>1, <4>1, <4>2, <4>3 DEF TurnOf
      <3>3. CASE ~Turn(r)
        <4>1. task'[r] = "turn"
          BY <1>20, <3>3 DEF SendStart, SlotType
        <4> QED BY <3>1, <4>1 DEF TurnOf
      <3> QED BY <3>2, <3>3
    <2>7. ASSUME NEW q \in Slot, q # r PROVE TurnOf(q)'
      <3>1. /\ task'[q] = task[q] /\ kind'[q] = kind[q]
            /\ response'[q] = response[q] /\ myDone'[q] = myDone[q]
        BY <1>20, <2>7 DEF SendStart, WriteHead, Running, Resumable,
           SlotType, FlagType
      <3> QED
        BY <2>1, <2>2, <2>3, <3>1, TurnOfFrame
    <2> QED BY <2>5, <2>6, <2>7
  <1>21. ASSUME NEW r \in Slot, NEW l \in BOOLEAN, NEW f \in BOOLEAN,
              SendBody(r, l, f)
        PROVE  TurnInv'
    <2> SUFFICES ASSUME ~closing'
                 PROVE  ReleasedPrefix' /\ \A q \in Slot : TurnOf(q)'
      BY DEF TurnInv
    <2>1. ~closing /\ ReleasedPrefix /\ \A q \in Slot : TurnOf(q)
      BY <1>21 DEF SendBody, AwaitDrain, FinishIfLast, Finish,
         Running, Resumable, TurnInv
    <2>2. \A q \in Slot : HeadOnWire(q) => HeadOnWire(q)'
      <3>1. wire' = wire \/ \E e \in Entry : Write(e)
        BY <1>21, EntryType DEF SendBody
      <3> QED BY <3>1, WritesKeepHeads
    <2>3. \A q \in Slot : myDone[q] => myDone'[q]
      BY <1>21 DEF SendBody, AwaitDrain, FinishIfLast, Finish,
         Running, Resumable, FlagType
    <2>4. Turn(r)
      BY <1>21, <2>1 DEF SendBody, AwaitDrain, FinishIfLast, Finish,
         Running, Resumable, TurnOf
    <2>5. ReleasedPrefix'
      <3>1. \A q \in Slot : q # r => myDone'[q] = myDone[q]
        BY <1>21 DEF SendBody, AwaitDrain, FinishIfLast, Finish,
           Running, Resumable, FlagType
      <3>2. \A q \in Slot : q < r => myDone[q]
        BY <2>1, <2>4, TurnReleases
      <3> QED
        BY <2>1, <2>3, <3>1, <3>2, SlotFacts DEF ReleasedPrefix
    <2>6. TurnOf(r)'
      <3>1. /\ task[r] = "run" /\ kind' = kind /\ response[r] = "started"
            /\ response'[r] = IF l THEN "final" ELSE "started"
            /\ kind[r] = "app" /\ ~myDone[r]
        BY <1>21, <2>1
           DEF SendBody, Running, Resumable, SlotType, SlotInv, TurnOf
      <3>2. Turn(r)' /\ HeadOnWire(r)'
        BY <2>1, <2>2, <2>3, <2>4, <3>1, PreviousSlot DEF Turn, TurnOf
      <3>3. \/ task'[r] = "drain" /\ myDone' = myDone
            \/ task'[r] = "run" /\ myDone'[r] = l
        BY <1>21, <3>1
           DEF SendBody, AwaitDrain, FinishIfLast, Finish, SlotType, FlagType
      <3> QED BY <3>1, <3>2, <3>3 DEF TurnOf
    <2>7. ASSUME NEW q \in Slot, q # r PROVE TurnOf(q)'
      <3>1. /\ task'[q] = task[q] /\ kind'[q] = kind[q]
            /\ response'[q] = response[q] /\ myDone'[q] = myDone[q]
        BY <1>21, <2>7 DEF SendBody, AwaitDrain, FinishIfLast,
           Finish, Running, Resumable, SlotType, FlagType
      <3> QED
        BY <2>1, <2>2, <2>3, <3>1, TurnOfFrame
    <2> QED BY <2>5, <2>6, <2>7
  <1>22. ASSUME NEW r \in Slot, NEW how \in {"returned", "raised"},
              AppEnd(r, how)
        PROVE  TurnInv'
    <2> SUFFICES ASSUME ~closing'
                 PROVE  ReleasedPrefix' /\ \A q \in Slot : TurnOf(q)'
      BY DEF TurnInv
    <2>1. ~closing /\ ReleasedPrefix /\ \A q \in Slot : TurnOf(q)
      BY <1>22 DEF AppEnd, Running, Resumable, TurnInv
    <2>2. \A q \in Slot : HeadOnWire(q) => HeadOnWire(q)'
      BY <1>22 DEF AppEnd, HeadOnWire
    <2>3. \A q \in Slot : myDone[q] => myDone'[q]
      BY <1>22 DEF AppEnd, Running, Resumable, FlagType
    <2>4. myDone' = myDone
      BY <1>22 DEF AppEnd, Running, Resumable, progress
    <2>5. ReleasedPrefix'
      BY <2>1, <2>4 DEF ReleasedPrefix
    <2>6. TurnOf(r)'
      <3>1. /\ task[r] = "run" /\ task'[r] = how
            /\ kind' = kind /\ response' = response /\ ~closing'
        BY <1>22 DEF AppEnd, Running, Resumable, SlotType
      <3>2. HeadOnWire(r) => HeadOnWire(r)'
        BY <2>2
      <3>3. (kind[r] = "app" /\ task[r] = "returned" => response[r] = "final")'
        BY <3>1 DEF NoneAbandoned
      <3> QED BY <2>1, <2>4, <3>1, <3>2, <3>3 DEF TurnOf, Turn
    <2>7. ASSUME NEW q \in Slot, q # r PROVE TurnOf(q)'
      <3>1. /\ task'[q] = task[q] /\ kind'[q] = kind[q]
            /\ response'[q] = response[q] /\ myDone'[q] = myDone[q]
        BY <1>22, <2>7 DEF AppEnd, Running, Resumable, SlotType,
           FlagType
      <3> QED
        BY <2>1, <2>2, <2>3, <3>1, TurnOfFrame
    <2> QED BY <2>5, <2>6, <2>7
  <1>23. CASE UNCHANGED vars
    BY <1>23 DEF vars, HeadOnWire, TurnInv, TurnOf, ReleasedPrefix, Turn
  <1> QED
    BY <1>1, <1>2, <1>3, <1>4, <1>5, <1>6, <1>7, <1>8, <1>9, <1>10,
       <1>11, <1>12, <1>13, <1>14, <1>15, <1>16, <1>17, <1>18, <1>19,
       <1>20, <1>21, <1>22, <1>23 DEF Next, DataReceived, LoopStep,
       AppStep

-----------------------------------------------------------------------------
(* Order on the wire.  What is written belongs to the slot whose turn it is, *)
(* and every earlier response is complete by then.                           *)

WireInv ==
    /\ ResponsesInOrder /\ PredecessorsComplete
    /\ \A i \in DOMAIN wire : wire[i].slot <= slots
    /\ timerArmed => slots = 0

\* An entry that may be the next one on the wire.
MayWrite(e) ==
    /\ \A q \in 1..(e.slot - 1) : response[q] = "final" /\ HeadOnWire(q)
    /\ \A i \in DOMAIN wire : wire[i].slot <= e.slot
    /\ e.part = "body" => HeadOnWire(e.slot)
    /\ e.slot <= slots

FinalsStay == \A q \in Slot : response[q] = "final" => response'[q] = "final"

\* The slots that precede an entry on the wire are slots.
LEMMA EntryFacts ==
    ASSUME NEW e \in Entry
    PROVE  /\ e.slot \in Nat /\ e.slot <= MaxRequests + 1
           /\ \A q \in 1..(e.slot - 1) : q \in Slot
  BY BoundsAssumption DEF Entry, Slot

\* Writing such an entry keeps the order.
LEMMA WriteKeepsOrder ==
    ASSUME TransportType, ResponsesInOrder, PredecessorsComplete,
           NEW e \in Entry, Write(e), ~closing => MayWrite(e), FinalsStay
    PROVE  ResponsesInOrder' /\ PredecessorsComplete'
  <1>0. \A i \in DOMAIN wire : wire[i] \in Entry
    BY DEF TransportType
  <1>1. CASE closing
    <2>1. wire' = wire
      BY <1>1 DEF Write
    <2>2. ResponsesInOrder'
      BY <2>1 DEF ResponsesInOrder
    <2>3. PredecessorsComplete'
      BY <1>0, <2>1, EntryFacts DEF PredecessorsComplete, FinalsStay
    <2> QED BY <2>2, <2>3
  <1>2. CASE ~closing
    <2> DEFINE n == Len(wire)
    <2>1. /\ n \in Nat /\ DOMAIN wire = 1..n /\ DOMAIN wire' = 1..(n + 1)
          /\ \A i \in 1..n : wire'[i] = wire[i]
          /\ wire'[n + 1] = e
      BY <1>2, WriteAppends
    <2>2. MayWrite(e)
      BY <1>2
    <2> HIDE DEF n
    <2>3. ASSUME NEW i \in DOMAIN wire'
          PROVE  /\ \A j \in 1..i : wire'[j].slot <= wire'[i].slot
                 /\ wire'[i].part = "body" =>
                        \E j \in 1..(i - 1) : wire'[j].slot = wire'[i].slot
                                                  /\ wire'[j].part = "head"
      <3>1. CASE i \in 1..n
        BY <2>1, <3>1 DEF ResponsesInOrder
      <3>2. CASE i = n + 1
        <4>1. e.slot \in Nat
          BY EntryFacts
        <4> QED BY <2>1, <2>2, <3>2, <4>1 DEF MayWrite, HeadOnWire
      <3> QED BY <2>1, <3>1, <3>2
    <2>4. ASSUME NEW i \in DOMAIN wire', NEW q \in 1..(wire'[i].slot - 1)
          PROVE  /\ response'[q] = "final"
                 /\ \E j \in 1..(i - 1) : wire'[j].slot = q
                                              /\ wire'[j].part = "head"
      <3>1. CASE i \in 1..n
        <4>1. wire[i] \in Entry /\ wire'[i] = wire[i]
          BY <1>0, <2>1, <3>1
        <4>2. q \in Slot
          BY <4>1, EntryFacts
        <4> QED BY <2>1, <3>1, <4>1, <4>2 DEF PredecessorsComplete, FinalsStay
      <3>2. CASE i = n + 1
        <4>1. q \in 1..(e.slot - 1) /\ q \in Slot
          BY <2>1, <3>2, EntryFacts
        <4>2. response[q] = "final" /\ HeadOnWire(q)
          BY <2>2, <4>1 DEF MayWrite
        <4> QED BY <2>1, <3>2, <4>1, <4>2 DEF HeadOnWire, FinalsStay
      <3> QED BY <2>1, <3>1, <3>2
    <2> QED BY <2>3, <2>4 DEF ResponsesInOrder, PredecessorsComplete
  <1> QED BY <1>1, <1>2

\* The task whose turn it is, and whose response is not complete, may write.
LEMMA TurnMayWrite ==
    ASSUME TypeInv, SlotInv, TurnInv, WireInv, ~closing, NEW r \in Slot, Turn(r),
           response[r] # "final", task[r] # "unused"
    PROVE  /\ \A q \in 1..(r - 1) : response[q] = "final" /\ HeadOnWire(q)
           /\ \A i \in DOMAIN wire : wire[i].slot <= r
           /\ r <= slots
  <1>1. ASSUME NEW q \in 1..(r - 1)
        PROVE  response[q] = "final" /\ HeadOnWire(q)
    <2>1. q \in Slot /\ q < r
      BY BoundsAssumption DEF Slot
    <2>2. myDone[q] /\ TurnOf(q)
      BY <2>1, TurnReleases DEF TurnInv
    <2>3. response[q] = "final"
      BY <2>2 DEF TurnOf
    <2>4. task[q] # "turn"
      BY <2>1, <2>3 DEF SlotInv, TypeInv, TypeOK, SlotType
    <2> QED BY <2>2, <2>3, <2>4 DEF TurnOf
  <1>2. ASSUME NEW i \in DOMAIN wire PROVE wire[i].slot <= r
    <2>1. wire[i].slot \in Nat
      BY EntryFacts DEF TypeInv, TypeOK, TransportType
    <2>2. ~ (r \in 1..(wire[i].slot - 1))
      BY DEF WireInv, PredecessorsComplete
    <2> QED BY <2>1, <2>2, SlotFacts
  <1>3. r <= slots
    BY SlotFacts DEF SlotInv, TypeInv, TypeOK, ParsingType
  <1> QED BY <1>1, <1>2, <1>3

\* A step that writes nothing.
LEMMA OrderStutter ==
    ASSUME TransportType, ResponsesInOrder, PredecessorsComplete, wire' = wire,
           FinalsStay
    PROVE  ResponsesInOrder' /\ PredecessorsComplete'
  <1>1. \A i \in DOMAIN wire : wire[i] \in Entry
    BY DEF TransportType
  <1>2. ResponsesInOrder'
    BY DEF ResponsesInOrder
  <1>3. PredecessorsComplete'
    BY <1>1, EntryFacts DEF PredecessorsComplete, FinalsStay
  <1> QED BY <1>2, <1>3

LEMMA InitWireInv == Init => WireInv
  BY DEF Init, WireInv, ResponsesInOrder, PredecessorsComplete

\* What a step has to show.
LEMMA WireStep ==
    ASSUME TypeInv, TypeInv', WireInv, FinalsStay,
           \/ wire' = wire
           \/ \E e \in Entry : Write(e) /\ (~closing => MayWrite(e)),
           slots <= slots', timerArmed' => slots' = 0
    PROVE  WireInv'
  <1> USE DEF TypeInv, TypeOK
  <1>1. slots \in Nat /\ slots' \in Nat
    BY SlotFacts DEF ParsingType
  <1>2. \A i \in DOMAIN wire : wire[i].slot \in Nat
    BY EntryFacts DEF TransportType
  <1>3. CASE wire' = wire
    <2>1. ResponsesInOrder' /\ PredecessorsComplete'
      BY <1>3, OrderStutter DEF WireInv
    <2> QED BY <1>1, <1>2, <1>3, <2>1 DEF WireInv
  <1>4. ASSUME NEW e \in Entry, Write(e), ~closing => MayWrite(e)
        PROVE  WireInv'
    <2>1. ResponsesInOrder' /\ PredecessorsComplete'
      BY <1>4, WriteKeepsOrder DEF WireInv
    <2>2. ASSUME NEW i \in DOMAIN wire' PROVE wire'[i].slot <= slots'
      <3>1. CASE closing
        BY <1>1, <1>2, <1>4, <3>1 DEF Write, WireInv
      <3>2. CASE ~closing
        <4>1. e.slot \in Nat /\ e.slot <= slots
          BY <1>4, <3>2, EntryFacts DEF MayWrite
        <4> QED BY <1>1, <1>2, <1>4, <3>2, <4>1, WriteAppends DEF WireInv
      <3> QED BY <3>1, <3>2
    <2> QED BY <2>1, <2>2 DEF WireInv
  <1> QED BY <1>3, <1>4

LEMMA NextWireInv ==
    /\ TypeInv /\ TypeInv' /\ SlotInv /\ TurnInv /\ WireInv
    /\ [Next]_vars
    => WireInv'
  <1> SUFFICES ASSUME TypeInv, TypeInv', SlotInv, TurnInv, WireInv, [Next]_vars
               PROVE  WireInv'
    OBVIOUS
  <1> USE DEF transport, connection, parsing, requests, progress, loop
  <1>0. TransportType /\ ConnectionType /\ ParsingType /\ SlotType /\ FlagType
    BY DEF TypeInv, TypeOK
  <1>01. FlagType'
    BY DEF TypeInv, TypeOK
  <1>02. slots \in Nat /\ slots <= slots
    BY SlotFacts DEF TypeInv, TypeOK, ParsingType
  <1> USE <1>0, <1>02
  <1>1. ASSUME NEW mode \in {"events", "error"}, NEW c \in BOOLEAN,
              BeginRequest(mode, c)
        PROVE  WireInv'
    <2>1. wire' = wire
      BY <1>1 DEF BeginRequest
    <2>2. FinalsStay
      BY <1>1 DEF BeginRequest, FinalsStay, SlotType
    <2>3. slots <= slots' /\ (timerArmed' => slots' = 0)
      BY <1>1 DEF BeginRequest, Spawn, FirstHead, WireInv
    <2> QED BY <2>1, <2>2, <2>3, WireStep
  <1>2. ASSUME NEW mode \in {"events", "error"}, NEW m \in {"more", "last"},
              PushBodyChunk(mode, m)
        PROVE  WireInv'
    <2>1. wire' = wire
      BY <1>2 DEF PushBodyChunk
    <2>2. FinalsStay
      BY <1>2 DEF PushBodyChunk, FinalsStay, SlotType
    <2>3. slots <= slots' /\ (timerArmed' => slots' = 0)
      BY <1>2 DEF PushBodyChunk, WireInv
    <2> QED BY <2>1, <2>2, <2>3, WireStep
  <1>3. CASE EndOfEvents
    <2>1. wire' = wire
      BY <1>3 DEF EndOfEvents
    <2>2. FinalsStay
      BY <1>3 DEF EndOfEvents, FinalsStay, SlotType
    <2>3. slots <= slots' /\ (timerArmed' => slots' = 0)
      BY <1>3 DEF EndOfEvents, WireInv
    <2> QED BY <2>1, <2>2, <2>3, WireStep
  <1>4. CASE RejectUpgrade
    <2>1. wire' = wire
      BY <1>4 DEF RejectUpgrade
    <2>2. FinalsStay
      BY <1>4 DEF RejectUpgrade, FinalsStay, SlotType
    <2>3. slots <= slots' /\ (timerArmed' => slots' = 0)
      BY <1>4 DEF RejectUpgrade, Spawn, FirstHead, WireInv
    <2> QED BY <2>1, <2>2, <2>3, WireStep
  <1>5. CASE Fail
    <2>1. wire' = wire
      BY <1>5 DEF Fail
    <2>2. FinalsStay
      BY <1>5 DEF Fail, FinalsStay, SlotType
    <2>3. slots <= slots' /\ (timerArmed' => slots' = 0)
      BY <1>5 DEF Fail, Spawn, WireInv
    <2> QED BY <2>1, <2>2, <2>3, WireStep
  <1>6. CASE OnHeadTimeout
    <2>1. wire' = wire \/ \E e \in Entry : Write(e) /\ (~closing => MayWrite(e))
      <3>1. CASE gotFirstHead \/ closing
        BY <1>6, <3>1 DEF OnHeadTimeout
      <3>2. CASE ~gotFirstHead /\ ~closing
        <4> DEFINE e == [slot |-> 0, part |-> "timeout", close |-> TRUE]
        <4>1. Write(e) /\ e \in Entry
          BY <1>6, <3>2, EntryType DEF OnHeadTimeout
        <4>2. slots = 0
          BY <1>6 DEF OnHeadTimeout, WireInv
        <4>3. MayWrite(e)
          BY <4>2 DEF MayWrite, WireInv
        <4> QED BY <4>1, <4>3
      <3> QED BY <3>1, <3>2
    <2>2. FinalsStay
      BY <1>6 DEF OnHeadTimeout, FinalsStay, SlotType
    <2>3. slots <= slots' /\ (timerArmed' => slots' = 0)
      BY <1>6 DEF OnHeadTimeout, WireInv
    <2> QED BY <2>1, <2>2, <2>3, WireStep
  <1>7. CASE EofReceived
    <2>1. wire' = wire
      BY <1>7 DEF EofReceived
    <2>2. FinalsStay
      BY <1>7 DEF EofReceived, FinalsStay, SlotType
    <2>3. slots <= slots' /\ (timerArmed' => slots' = 0)
      BY <1>7 DEF EofReceived, WireInv
    <2> QED BY <2>1, <2>2, <2>3, WireStep
  <1>8. CASE ConnectionLost
    <2>1. wire' = wire
      BY <1>8 DEF ConnectionLost
    <2>2. FinalsStay
      BY <1>8 DEF ConnectionLost, FinalsStay, SlotType
    <2>3. slots <= slots' /\ (timerArmed' => slots' = 0)
      BY <1>8 DEF ConnectionLost, WireInv
    <2> QED BY <2>1, <2>2, <2>3, WireStep
  <1>9. CASE ResumeWriting
    <2>1. wire' = wire
      BY <1>9 DEF ResumeWriting
    <2>2. FinalsStay
      BY <1>9 DEF ResumeWriting, FinalsStay, SlotType
    <2>3. slots <= slots' /\ (timerArmed' => slots' = 0)
      BY <1>9 DEF ResumeWriting, WireInv
    <2> QED BY <2>1, <2>2, <2>3, WireStep
  <1>10. CASE BeginShutdown
    <2>1. wire' = wire
      BY <1>10 DEF BeginShutdown
    <2>2. FinalsStay
      BY <1>10 DEF BeginShutdown, FinalsStay, SlotType
    <2>3. slots <= slots' /\ (timerArmed' => slots' = 0)
      BY <1>10 DEF BeginShutdown, WireInv
    <2> QED BY <2>1, <2>2, <2>3, WireStep
  <1>11. CASE ForceClose
    <2>1. wire' = wire
      BY <1>11 DEF ForceClose
    <2>2. FinalsStay
      BY <1>11 DEF ForceClose, FinalsStay, SlotType
    <2>3. slots <= slots' /\ (timerArmed' => slots' = 0)
      BY <1>11 DEF ForceClose, WireInv
    <2> QED BY <2>1, <2>2, <2>3, WireStep
  <1>12. ASSUME NEW r \in Slot,
              Start(r)
        PROVE  WireInv'
    <2>1. wire' = wire \/ \E e \in Entry : Write(e) /\ (~closing => MayWrite(e))
      <3>1. CASE kind[r] = "failure" /\ Turn(r)
        <4> DEFINE e == [slot |-> r, part |-> "error", close |-> TRUE]
        <4>1. Write(e)
          BY <1>12, <3>1 DEF Start, WriteFailure, Resumable
        <4>2. e \in Entry
          BY EntryType
        <4>3. ASSUME ~closing PROVE MayWrite(e)
          <5>1. Turn(r) /\ response[r] # "final" /\ task[r] # "unused"
            BY <1>12, <3>1, <4>3 DEF Start, Resumable, SlotInv,
               SlotType, TurnInv, TurnOf
          <5> QED
            BY <5>1, <4>3, TurnMayWrite DEF MayWrite
        <4> QED BY <4>1, <4>2, <4>3
      <3>2. CASE ~(kind[r] = "failure" /\ Turn(r))
        BY <1>12, <3>2 DEF Start, Resumable, SlotType
      <3> QED BY <3>1, <3>2
    <2>2. FinalsStay
      BY <1>12 DEF Start, FinalsStay, SlotType
    <2>3. slots <= slots' /\ (timerArmed' => slots' = 0)
      BY <1>12 DEF Start, WireInv
    <2> QED BY <2>1, <2>2, <2>3, WireStep
  <1>13. ASSUME NEW r \in Slot,
              TurnGranted(r)
        PROVE  WireInv'
    <2>1. wire' = wire \/ \E e \in Entry : Write(e) /\ (~closing => MayWrite(e))
      <3>1. CASE kind[r] = "app"
        <4> DEFINE e == [slot |-> r, part |-> "head", close |-> close'[r]]
        <4>1. Write(e)
          BY <1>13, <3>1 DEF TurnGranted, WriteFailure, WriteHead,
             Resumable
        <4>2. e \in Entry
          BY <1>13, <3>1, EntryType DEF TurnGranted, FlagType
        <4>3. ASSUME ~closing PROVE MayWrite(e)
          <5>1. Turn(r) /\ response[r] # "final" /\ task[r] # "unused"
            BY <1>13, <3>1, <4>3 DEF TurnGranted, Resumable,
               SlotInv, SlotType, TurnInv, TurnOf
          <5> QED
            BY <5>1, <4>3, TurnMayWrite DEF MayWrite
        <4> QED BY <4>1, <4>2, <4>3
      <3>2. CASE kind[r] = "failure"
        <4> DEFINE e == [slot |-> r, part |-> "error", close |-> TRUE]
        <4>1. Write(e)
          BY <1>13, <3>2 DEF TurnGranted, WriteFailure, WriteHead,
             Resumable
        <4>2. e \in Entry
          BY EntryType
        <4>3. ASSUME ~closing PROVE MayWrite(e)
          <5>1. Turn(r) /\ response[r] # "final" /\ task[r] # "unused"
            BY <1>13, <3>2, <4>3 DEF TurnGranted, Resumable,
               SlotInv, SlotType, TurnInv, TurnOf
          <5> QED
            BY <5>1, <4>3, TurnMayWrite DEF MayWrite
        <4> QED BY <4>1, <4>2, <4>3
      <3> QED BY <3>1, <3>2 DEF SlotType
    <2>2. FinalsStay
      BY <1>13 DEF TurnGranted, FinalsStay, SlotType
    <2>3. slots <= slots' /\ (timerArmed' => slots' = 0)
      BY <1>13 DEF TurnGranted, WireInv
    <2> QED BY <2>1, <2>2, <2>3, WireStep
  <1>14. ASSUME NEW r \in Slot,
              MessageArrived(r)
        PROVE  WireInv'
    <2>1. wire' = wire
      BY <1>14 DEF MessageArrived
    <2>2. FinalsStay
      BY <1>14 DEF MessageArrived, FinalsStay, SlotType
    <2>3. slots <= slots' /\ (timerArmed' => slots' = 0)
      BY <1>14 DEF MessageArrived, WireInv
    <2> QED BY <2>1, <2>2, <2>3, WireStep
  <1>15. ASSUME NEW r \in Slot,
              Drained(r)
        PROVE  WireInv'
    <2>1. wire' = wire
      BY <1>15 DEF Drained
    <2>2. FinalsStay
      BY <1>15 DEF Drained, FinalsStay, SlotType
    <2>3. slots <= slots' /\ (timerArmed' => slots' = 0)
      BY <1>15 DEF Drained, WireInv
    <2> QED BY <2>1, <2>2, <2>3, WireStep
  <1>16. ASSUME NEW r \in Slot,
              CancelTask(r)
        PROVE  WireInv'
    <2>1. wire' = wire
      BY <1>16 DEF CancelTask
    <2>2. FinalsStay
      BY <1>16 DEF CancelTask, FinalsStay, SlotType
    <2>3. slots <= slots' /\ (timerArmed' => slots' = 0)
      BY <1>16 DEF CancelTask, WireInv
    <2> QED BY <2>1, <2>2, <2>3, WireStep
  <1>17. ASSUME NEW r \in Slot,
              Interrupted(r)
        PROVE  WireInv'
    <2>1. wire' = wire
      BY <1>17 DEF Interrupted
    <2>2. FinalsStay
      BY <1>17 DEF Interrupted, FinalsStay, SlotType
    <2>3. slots <= slots' /\ (timerArmed' => slots' = 0)
      BY <1>17 DEF Interrupted, WireInv
    <2> QED BY <2>1, <2>2, <2>3, WireStep
  <1>18. ASSUME NEW r \in Slot,
              OnTaskDone(r)
        PROVE  WireInv'
    <2>1. wire' = wire
      BY <1>18 DEF OnTaskDone
    <2>2. FinalsStay
      BY <1>18 DEF OnTaskDone, FinalsStay, SlotType
    <2>3. slots <= slots' /\ (timerArmed' => slots' = 0)
      BY <1>18 DEF OnTaskDone, WireInv
    <2> QED BY <2>1, <2>2, <2>3, WireStep
  <1>19. ASSUME NEW r \in Slot,
              Receive(r)
        PROVE  WireInv'
    <2>1. wire' = wire
      BY <1>19 DEF Receive
    <2>2. FinalsStay
      BY <1>19 DEF Receive, FinalsStay, SlotType
    <2>3. slots <= slots' /\ (timerArmed' => slots' = 0)
      BY <1>19 DEF Receive, WireInv
    <2> QED BY <2>1, <2>2, <2>3, WireStep
  <1>20. ASSUME NEW r \in Slot, NEW d \in BOOLEAN,
              SendStart(r, d)
        PROVE  WireInv'
    <2>1. wire' = wire \/ \E e \in Entry : Write(e) /\ (~closing => MayWrite(e))
      <3>1. CASE Turn(r)
        <4> DEFINE e == [slot |-> r, part |-> "head", close |-> close'[r]]
        <4>1. Write(e)
          BY <1>20, <3>1 DEF SendStart, WriteHead, Running,
             Resumable
        <4>2. e \in Entry
          BY <1>20, <3>1, EntryType DEF SendStart, FlagType
        <4>3. ASSUME ~closing PROVE MayWrite(e)
          <5>1. Turn(r) /\ response[r] # "final" /\ task[r] # "unused"
            BY <1>20, <3>1, <4>3 DEF SendStart, Running,
               Resumable, SlotInv, SlotType, TurnInv, TurnOf
          <5> QED
            BY <5>1, <4>3, TurnMayWrite DEF MayWrite
        <4> QED BY <4>1, <4>2, <4>3
      <3>2. CASE ~(Turn(r))
        BY <1>20, <3>2 DEF SendStart, Running, Resumable, SlotType
      <3> QED BY <3>1, <3>2
    <2>2. FinalsStay
      BY <1>20 DEF SendStart, FinalsStay, SlotType
    <2>3. slots <= slots' /\ (timerArmed' => slots' = 0)
      BY <1>20 DEF SendStart, WireInv
    <2> QED BY <2>1, <2>2, <2>3, WireStep
  <1>21. ASSUME NEW r \in Slot, NEW l \in BOOLEAN, NEW f \in BOOLEAN,
              SendBody(r, l, f)
        PROVE  WireInv'
    <2>1. wire' = wire \/ \E e \in Entry : Write(e) /\ (~closing => MayWrite(e))
      <3>1. CASE f /\ ~closing
        <4> DEFINE e == [slot |-> r, part |-> "body", close |-> FALSE]
        <4>1. Write(e)
          BY <1>21, <3>1 DEF SendBody, Running, Resumable
        <4>2. e \in Entry
          BY EntryType
        <4>3. ASSUME ~closing PROVE MayWrite(e)
          <5>1. Turn(r) /\ response[r] # "final" /\ task[r] # "unused"
            BY <1>21, <3>1, <4>3 DEF SendBody, Running,
               Resumable, SlotInv, SlotType, TurnInv, TurnOf
          <5>2. HeadOnWire(r)
            BY <1>21, <4>3 DEF SendBody, Running, Resumable,
               TurnInv, TurnOf
          <5> QED
            BY <5>1, <5>2, <4>3, TurnMayWrite DEF MayWrite
        <4> QED BY <4>1, <4>2, <4>3
      <3>2. CASE ~(f /\ ~closing)
        BY <1>21, <3>2 DEF SendBody, Running, Resumable, SlotType
      <3> QED BY <3>1, <3>2
    <2>2. FinalsStay
      BY <1>21 DEF SendBody, FinalsStay, SlotType
    <2>3. slots <= slots' /\ (timerArmed' => slots' = 0)
      BY <1>21 DEF SendBody, WireInv
    <2> QED BY <2>1, <2>2, <2>3, WireStep
  <1>22. ASSUME NEW r \in Slot, NEW how \in {"returned", "raised"},
              AppEnd(r, how)
        PROVE  WireInv'
    <2>1. wire' = wire
      BY <1>22 DEF AppEnd
    <2>2. FinalsStay
      BY <1>22 DEF AppEnd, FinalsStay, SlotType
    <2>3. slots <= slots' /\ (timerArmed' => slots' = 0)
      BY <1>22 DEF AppEnd, WireInv
    <2> QED BY <2>1, <2>2, <2>3, WireStep
  <1>23. CASE UNCHANGED vars
    BY <1>23, WireStep DEF vars, FinalsStay, WireInv, ParsingType
  <1> QED
    BY <1>1, <1>2, <1>3, <1>4, <1>5, <1>6, <1>7, <1>8, <1>9, <1>10,
       <1>11, <1>12, <1>13, <1>14, <1>15, <1>16, <1>17, <1>18, <1>19,
       <1>20, <1>21, <1>22, <1>23 DEF Next, DataReceived, LoopStep,
       AppStep

InOrderInv == TypeInv /\ CancelInv /\ SlotInv /\ TurnInv /\ WireInv

\* Whatever the bounds, and whatever the clients, the network and a shutdown
\* do, for as long as no application returns with its response unfinished:
\* responses go out in request order, and none before its predecessors are
\* complete.
THEOREM ResponseOrder ==
    Spec /\ []NoneAbandoned => [](ResponsesInOrder /\ PredecessorsComplete)
  <1>1. Init => InOrderInv
    BY InitTypeInv, InitCancelInv, InitSlotInv, InitTurnInv, InitWireInv
       DEF InOrderInv
  <1>2. InOrderInv /\ NoneAbandoned' /\ [Next]_vars => InOrderInv'
    BY NextTypeInv, NextCancelInv, NextSlotInv, NextTurnInv, NextWireInv
       DEF InOrderInv
  <1>3. InOrderInv => ResponsesInOrder /\ PredecessorsComplete
    BY DEF InOrderInv, WireInv
  <1> QED BY <1>1, <1>2, <1>3, PTL DEF Spec

-----------------------------------------------------------------------------
(* The head timeout. *)

\* An armed timer has seen no request and no answer; once it has fired nothing
\* is parsed any more, so no request follows its 408.
TimerInv ==
    /\ timerArmed => slots = 0 /\ wire = <<>>
    /\ \A i \in DOMAIN wire :
           wire[i].part = "timeout" => slots = 0 /\ Len(wire) = 1 /\ closed

\* A task that runs has a slot.
LEMMA UsedSlot ==
    ASSUME TypeInv, SlotInv, NEW r \in Slot, task[r] # "unused"
    PROVE  slots # 0
  BY SlotFacts DEF TypeInv, TypeOK, ParsingType, SlotInv

\* A write for a request is not a 408.
LEMMA WriteNoTimeout ==
    ASSUME TypeInv, TimerInv, slots # 0, UNCHANGED <<slots, timerArmed, closed>>,
           NEW e \in Entry, e.part # "timeout", Write(e) \/ UNCHANGED wire
    PROVE  TimerInv'
  <1>1. CASE closing \/ UNCHANGED wire
    BY <1>1 DEF Write, TimerInv
  <1>2. CASE ~closing /\ Write(e)
    <2>1. \A i \in DOMAIN wire' : wire'[i].part # "timeout"
      BY <1>2, WriteAppends DEF TimerInv, TypeInv, TypeOK
    <2> QED BY <2>1 DEF TimerInv
  <1> QED BY <1>1, <1>2

\* A response head and a failure response are none.
LEMMA HeadNoTimeout ==
    ASSUME TypeInv, TimerInv, slots # 0, UNCHANGED <<slots, timerArmed, closed>>,
           NEW r \in Slot, close'[r] \in BOOLEAN,
           WriteHead(r) \/ UNCHANGED <<wire, closing>>
    PROVE  TimerInv'
  <1> DEFINE e == [slot |-> r, part |-> "head", close |-> close'[r]]
  <1>1. e \in Entry /\ e.part # "timeout"
    BY EntryType
  <1>2. Write(e) \/ UNCHANGED wire
    BY DEF WriteHead
  <1> HIDE DEF e
  <1> QED BY <1>1, <1>2, WriteNoTimeout

LEMMA FailureNoTimeout ==
    ASSUME TypeInv, TimerInv, slots # 0, UNCHANGED <<slots, timerArmed, closed>>,
           NEW r \in Slot, WriteFailure(r) \/ UNCHANGED <<wire, closing>>
    PROVE  TimerInv'
  <1> DEFINE e == [slot |-> r, part |-> "error", close |-> TRUE]
  <1>1. e \in Entry /\ e.part # "timeout"
    BY EntryType
  <1>2. Write(e) \/ UNCHANGED wire
    BY DEF WriteFailure
  <1> HIDE DEF e
  <1> QED BY <1>1, <1>2, WriteNoTimeout

\* Every step keeps TimerInv.
LEMMA NextTimerInv ==
    TypeInv /\ SlotInv /\ TimerInv /\ [Next]_vars => TimerInv'
  <1> SUFFICES ASSUME TypeInv, SlotInv, TimerInv, [Next]_vars PROVE TimerInv'
    OBVIOUS
  <1> USE SlotFacts DEF TypeInv, TypeOK, SlotsBounded, ParsingType, SlotType,
          FlagType, TimerInv, transport, connection, parsing, requests,
          progress, loop
  <1>1. ASSUME NEW mode \in {"events", "error"}, NEW c \in BOOLEAN,
              BeginRequest(mode, c)
        PROVE  TimerInv'
    BY <1>1 DEF BeginRequest, FirstHead, InBatch, Spawn, MayRead
  <1>2. ASSUME NEW mode \in {"events", "error"}, NEW m \in {"more", "last"},
              PushBodyChunk(mode, m)
        PROVE  TimerInv'
    BY <1>2 DEF PushBodyChunk
  <1>3. CASE EndOfEvents
    BY <1>3 DEF EndOfEvents
  <1>4. CASE RejectUpgrade
    BY <1>4 DEF RejectUpgrade, FirstHead, Spawn, MayRead
  <1>5. CASE Fail
    BY <1>5 DEF Fail, Spawn, MayRead
  <1>6. CASE OnHeadTimeout
    <2>1. CASE gotFirstHead \/ closing
      BY <1>6, <2>1 DEF OnHeadTimeout
    <2>2. CASE ~gotFirstHead /\ ~closing
      <3> DEFINE e == [slot |-> 0, part |-> "timeout", close |-> TRUE]
      <3>1. wire = <<>> /\ slots = 0
        BY <1>6 DEF OnHeadTimeout
      <3>2. wire' = Append(wire, e) /\ closing' /\ closed' /\ ~timerArmed'
        BY <1>6, <2>2 DEF OnHeadTimeout, Write
      <3>3. Len(wire') = 1 /\ slots' = 0
        BY <1>6, <3>1, <3>2 DEF OnHeadTimeout
      <3> QED BY <3>2, <3>3
    <2> QED BY <2>1, <2>2
  <1>7. CASE EofReceived
    BY <1>7 DEF EofReceived
  <1>8. CASE ConnectionLost
    BY <1>8 DEF ConnectionLost, WokenByDisconnect, Inflight
  <1>9. CASE ResumeWriting
    BY <1>9 DEF ResumeWriting
  <1>10. CASE BeginShutdown
    BY <1>10 DEF BeginShutdown
  <1>11. CASE ForceClose
    BY <1>11 DEF ForceClose
  <1>12. ASSUME NEW r \in Slot,
              Start(r)
        PROVE  TimerInv'
    <2>1. slots # 0 /\ UNCHANGED <<slots, timerArmed, closed>>
      BY <1>12, UsedSlot DEF Start, Resumable
    <2>2. WriteFailure(r) \/ UNCHANGED <<wire, closing>>
      BY <1>12 DEF Start
    <2> QED BY <2>1, <2>2, FailureNoTimeout
  <1>13. ASSUME NEW r \in Slot,
              TurnGranted(r)
        PROVE  TimerInv'
    <2>1. slots # 0 /\ UNCHANGED <<slots, timerArmed, closed>>
      BY <1>13, UsedSlot DEF TurnGranted, Resumable
    <2>2. (WriteHead(r) /\ close'[r] \in BOOLEAN) \/ WriteFailure(r)
      BY <1>13 DEF TurnGranted
    <2> QED BY <2>1, <2>2, FailureNoTimeout, HeadNoTimeout
  <1>14. ASSUME NEW r \in Slot,
              MessageArrived(r)
        PROVE  TimerInv'
    BY <1>14 DEF MessageArrived, WakeUp, Resumable
  <1>15. ASSUME NEW r \in Slot,
              Drained(r)
        PROVE  TimerInv'
    BY <1>15 DEF Drained, WakeUp, FinishIfLast, Finish, Resumable
  <1>16. ASSUME NEW r \in Slot,
              CancelTask(r)
        PROVE  TimerInv'
    BY <1>16 DEF CancelTask, Ended
  <1>17. ASSUME NEW r \in Slot,
              Interrupted(r)
        PROVE  TimerInv'
    BY <1>17 DEF Interrupted, Ended
  <1>18. ASSUME NEW r \in Slot,
              OnTaskDone(r)
        PROVE  TimerInv'
    BY <1>18 DEF OnTaskDone, Ended
  <1>19. ASSUME NEW r \in Slot,
              Receive(r)
        PROVE  TimerInv'
    BY <1>19 DEF Receive, Running, Resumable
  <1>20. ASSUME NEW r \in Slot, NEW d \in BOOLEAN,
              SendStart(r, d)
        PROVE  TimerInv'
    <2>1. slots # 0 /\ UNCHANGED <<slots, timerArmed, closed>>
      BY <1>20, UsedSlot DEF SendStart, Running, Resumable
    <2>2. close'[r] \in BOOLEAN
      BY <1>20 DEF SendStart
    <2>3. WriteHead(r) \/ UNCHANGED <<wire, closing>>
      BY <1>20 DEF SendStart
    <2> QED BY <2>1, <2>2, <2>3, HeadNoTimeout
  <1>21. ASSUME NEW r \in Slot, NEW l \in BOOLEAN, NEW f \in BOOLEAN,
              SendBody(r, l, f)
        PROVE  TimerInv'
    <2>1. slots # 0 /\ UNCHANGED <<slots, timerArmed, closed>>
      BY <1>21, UsedSlot DEF SendBody, Running, Resumable
    <2> DEFINE e == [slot |-> r, part |-> "body", close |-> FALSE]
    <2>2. Write(e) \/ UNCHANGED wire
      BY <1>21 DEF SendBody
    <2>3. e \in Entry /\ e.part # "timeout"
      BY EntryType
    <2> HIDE DEF e
    <2> QED BY <2>1, <2>2, <2>3, WriteNoTimeout
  <1>22. ASSUME NEW r \in Slot, NEW how \in {"returned", "raised"},
              AppEnd(r, how)
        PROVE  TimerInv'
    BY <1>22 DEF AppEnd, Running, Resumable
  <1>23. CASE UNCHANGED vars
    BY <1>23 DEF vars
  <1> QED
    BY <1>1, <1>2, <1>3, <1>4, <1>5, <1>6, <1>7, <1>8, <1>9, <1>10,
       <1>11, <1>12, <1>13, <1>14, <1>15, <1>16, <1>17, <1>18, <1>19,
       <1>20, <1>21, <1>22, <1>23 DEF Next, DataReceived, LoopStep,
       AppStep

\* A 408 for a head that does not come is sent only to a client that has sent
\* no request and got no answer, and nothing is sent behind it.
THEOREM TimeoutIsAlone == Spec => []LoneTimeout
  <1>1. Init => TimerInv
    BY DEF Init, TimerInv
  <1>2. TimerInv => LoneTimeout
    BY DEF TimerInv, LoneTimeout
  <1>3. Init => TypeInv /\ SlotInv
    BY InitTypeInv, InitSlotInv
  <1> QED
    BY <1>1, <1>2, <1>3, NextTypeInv, NextSlotInv, NextTimerInv, PTL DEF Spec

-----------------------------------------------------------------------------
(* Announcing the close.  While the transport is open, no response that      *)
(* announced the close has released the turnstile, and what is on the wire   *)
(* belongs to responses whose head has been written with the slot's close.   *)

Carries(i) ==
    /\ wire[i].slot \in Slot /\ wire[i].part \in {"head", "body"}
    /\ response[wire[i].slot] # "none" /\ task[wire[i].slot] # "turn"
    /\ wire[i].close <=> wire[i].part = "head" /\ close[wire[i].slot]

CloseInv ==
    ~closing => /\ \A r \in Slot : myDone[r] => ~close[r]
                /\ \A i \in DOMAIN wire : Carries(i)

\* A slot with a written head keeps it, and its decision to close.
ResponsesKept ==
    \A q \in Slot : response[q] # "none" /\ task[q] # "turn" =>
        response'[q] # "none" /\ task'[q] # "turn" /\ close'[q] = close[q]

\* An entry that may come next.
MayAppend(e) ==
    /\ e.slot \in Slot /\ e.part \in {"head", "body"}
    /\ response'[e.slot] # "none" /\ task'[e.slot] # "turn"
    /\ e.close <=> e.part = "head" /\ close'[e.slot]

LEMMA InitCloseInv == Init => CloseInv
  BY DEF Init, CloseInv

\* What a step on an open transport has to show.
LEMMA CloseStep ==
    ASSUME TransportType, CloseInv, ~closing,
           \A q \in Slot : myDone'[q] => ~close'[q],
           ResponsesKept,
           wire' = wire \/ \E e \in Entry : Write(e) /\ MayAppend(e)
    PROVE  CloseInv'
  <1>1. \A i \in DOMAIN wire : Carries(i)
    BY DEF CloseInv
  <1>2. CASE wire' = wire
    BY <1>1, <1>2 DEF CloseInv, Carries, ResponsesKept
  <1>3. ASSUME NEW e \in Entry, Write(e), MayAppend(e) PROVE CloseInv'
    <2> DEFINE n == Len(wire)
    <2>1. /\ n \in Nat /\ DOMAIN wire = 1..n /\ DOMAIN wire' = 1..(n + 1)
          /\ \A i \in 1..n : wire'[i] = wire[i]
          /\ wire'[n + 1] = e
      BY <1>3, WriteAppends
    <2> HIDE DEF n
    <2>2. ASSUME NEW i \in DOMAIN wire' PROVE Carries(i)'
      <3>1. CASE i \in 1..n
        BY <1>1, <2>1, <3>1 DEF Carries, ResponsesKept
      <3>2. CASE i = n + 1
        BY <1>3, <2>1, <3>2 DEF Carries, MayAppend
      <3> QED BY <2>1, <3>1, <3>2
    <2> QED BY <2>2 DEF CloseInv
  <1> QED BY <1>2, <1>3

LEMMA HeadMayAppend ==
    ASSUME NEW r \in Slot, WriteHead(r), close'[r] \in BOOLEAN,
           response'[r] # "none", task'[r] # "turn"
    PROVE  \E e \in Entry : Write(e) /\ MayAppend(e)
  <1> DEFINE e == [slot |-> r, part |-> "head", close |-> close'[r]]
  <1>1. e \in Entry /\ e.slot = r /\ e.part = "head" /\ e.close = close'[r]
    BY DEF Entry
  <1>2. Write(e)
    BY DEF WriteHead
  <1>3. MayAppend(e)
    BY <1>1 DEF MayAppend
  <1> QED BY <1>1, <1>2, <1>3

LEMMA NextCloseInv ==
    TypeInv /\ CancelInv /\ SlotInv /\ TurnInv /\ CloseInv /\ [Next]_vars
        => CloseInv'
  <1> SUFFICES ASSUME TypeInv, CancelInv, SlotInv, TurnInv, CloseInv,
                      [Next]_vars
               PROVE  CloseInv'
    OBVIOUS
  <1> USE DEF TypeInv, TypeOK, transport, connection, parsing, requests,
          progress, loop
  <1>1. ASSUME NEW mode \in {"events", "error"}, NEW c \in BOOLEAN,
              BeginRequest(mode, c)
        PROVE  CloseInv'
    <2> SUFFICES ASSUME ~closing' PROVE CloseInv'
      BY DEF CloseInv
    <2>1. ~closing
      BY <1>1 DEF BeginRequest, Spawn
    <2>2. \A q \in Slot : myDone'[q] => ~close'[q]
      BY <1>1, <2>1 DEF BeginRequest, CloseInv
    <2>3. ResponsesKept
      <3>1. slots + 1 \in Slot /\ task[slots + 1] = "unused" /\ response[slots + 1] = "none"
        BY <1>1, SlotFacts, BoundsAssumption DEF BeginRequest,
           InBatch, MayRead, ParsingType, SlotsBounded, SlotInv
      <3> QED
        BY <1>1, <3>1 DEF BeginRequest, Spawn, ResponsesKept,
           SlotType
    <2>4. wire' = wire
      BY <1>1 DEF BeginRequest
    <2> QED BY <2>1, <2>2, <2>3, <2>4, CloseStep
  <1>2. ASSUME NEW mode \in {"events", "error"}, NEW m \in {"more", "last"},
              PushBodyChunk(mode, m)
        PROVE  CloseInv'
    <2> SUFFICES ASSUME ~closing' PROVE CloseInv'
      BY DEF CloseInv
    <2>1. ~closing
      BY <1>2 DEF PushBodyChunk
    <2>2. \A q \in Slot : myDone'[q] => ~close'[q]
      BY <1>2, <2>1 DEF PushBodyChunk, CloseInv
    <2>3. ResponsesKept
      BY <1>2 DEF PushBodyChunk, ResponsesKept, SlotType
    <2>4. wire' = wire
      BY <1>2 DEF PushBodyChunk
    <2> QED BY <2>1, <2>2, <2>3, <2>4, CloseStep
  <1>3. CASE EndOfEvents
    <2> SUFFICES ASSUME ~closing' PROVE CloseInv'
      BY DEF CloseInv
    <2>1. ~closing
      BY <1>3 DEF EndOfEvents
    <2>2. \A q \in Slot : myDone'[q] => ~close'[q]
      BY <1>3, <2>1 DEF EndOfEvents, CloseInv
    <2>3. ResponsesKept
      BY <1>3 DEF EndOfEvents, ResponsesKept, SlotType
    <2>4. wire' = wire
      BY <1>3 DEF EndOfEvents
    <2> QED BY <2>1, <2>2, <2>3, <2>4, CloseStep
  <1>4. CASE RejectUpgrade
    <2> SUFFICES ASSUME ~closing' PROVE CloseInv'
      BY DEF CloseInv
    <2>1. ~closing
      BY <1>4 DEF RejectUpgrade, Spawn
    <2>2. \A q \in Slot : myDone'[q] => ~close'[q]
      BY <1>4, <2>1 DEF RejectUpgrade, CloseInv
    <2>3. ResponsesKept
      <3>1. slots + 1 \in Slot /\ task[slots + 1] = "unused" /\ response[slots + 1] = "none"
        BY <1>4, SlotFacts, BoundsAssumption DEF RejectUpgrade,
           MayRead, ParsingType, SlotsBounded, SlotInv
      <3> QED
        BY <1>4, <3>1 DEF RejectUpgrade, Spawn, ResponsesKept,
           SlotType
    <2>4. wire' = wire
      BY <1>4 DEF RejectUpgrade
    <2> QED BY <2>1, <2>2, <2>3, <2>4, CloseStep
  <1>5. CASE Fail
    <2> SUFFICES ASSUME ~closing' PROVE CloseInv'
      BY DEF CloseInv
    <2>1. ~closing
      BY <1>5 DEF Fail, Spawn
    <2>2. \A q \in Slot : myDone'[q] => ~close'[q]
      BY <1>5, <2>1 DEF Fail, CloseInv
    <2>3. ResponsesKept
      <3>1. slots + 1 \in Slot /\ task[slots + 1] = "unused" /\ response[slots + 1] = "none"
        BY <1>5, SlotFacts, BoundsAssumption DEF Fail, MayRead,
           ParsingType, SlotsBounded, SlotInv
      <3> QED
        BY <1>5, <3>1 DEF Fail, Spawn, ResponsesKept, SlotType
    <2>4. wire' = wire
      BY <1>5 DEF Fail
    <2> QED BY <2>1, <2>2, <2>3, <2>4, CloseStep
  <1>6. CASE OnHeadTimeout
    <2> SUFFICES ASSUME ~closing' PROVE CloseInv'
      BY DEF CloseInv
    <2>1. ~closing /\ UNCHANGED <<wire, close, myDone, response, task>>
      BY <1>6 DEF OnHeadTimeout
    <2> QED BY <2>1 DEF CloseInv, Carries
  <1>7. CASE EofReceived
    BY <1>7 DEF EofReceived, CloseInv
  <1>8. CASE ConnectionLost
    BY <1>8 DEF ConnectionLost, CloseInv
  <1>9. CASE ResumeWriting
    <2> SUFFICES ASSUME ~closing' PROVE CloseInv'
      BY DEF CloseInv
    <2>1. ~closing
      BY <1>9 DEF ResumeWriting
    <2>2. \A q \in Slot : myDone'[q] => ~close'[q]
      BY <1>9, <2>1 DEF ResumeWriting, CloseInv
    <2>3. ResponsesKept
      BY <1>9 DEF ResumeWriting, ResponsesKept, SlotType
    <2>4. wire' = wire
      BY <1>9 DEF ResumeWriting
    <2> QED BY <2>1, <2>2, <2>3, <2>4, CloseStep
  <1>10. CASE BeginShutdown
    <2> SUFFICES ASSUME ~closing' PROVE CloseInv'
      BY DEF CloseInv
    <2>1. ~closing
      BY <1>10 DEF BeginShutdown
    <2>2. \A q \in Slot : myDone'[q] => ~close'[q]
      BY <1>10, <2>1 DEF BeginShutdown, CloseInv
    <2>3. ResponsesKept
      BY <1>10 DEF BeginShutdown, ResponsesKept, SlotType
    <2>4. wire' = wire
      BY <1>10 DEF BeginShutdown
    <2> QED BY <2>1, <2>2, <2>3, <2>4, CloseStep
  <1>11. CASE ForceClose
    BY <1>11 DEF ForceClose, CloseInv
  <1>12. ASSUME NEW r \in Slot,
              Start(r)
        PROVE  CloseInv'
    <2> SUFFICES ASSUME ~closing' PROVE CloseInv'
      BY DEF CloseInv
    <2>1. ~closing
      BY <1>12 DEF Start, WriteFailure, Resumable
    <2>2. \A q \in Slot : myDone'[q] => ~close'[q]
      BY <1>12, <2>1 DEF Start, CloseInv
    <2>3. ResponsesKept
      BY <1>12 DEF Start, WriteFailure, Resumable, SlotInv,
         ResponsesKept, SlotType
    <2>4. wire' = wire \/ \E e \in Entry : Write(e) /\ MayAppend(e)
      BY <1>12 DEF Start, WriteFailure
    <2> QED BY <2>1, <2>2, <2>3, <2>4, CloseStep
  <1>13. ASSUME NEW r \in Slot,
              TurnGranted(r)
        PROVE  CloseInv'
    <2> SUFFICES ASSUME ~closing' PROVE CloseInv'
      BY DEF CloseInv
    <2>1. ~closing
      BY <1>13 DEF TurnGranted, WriteFailure, WriteHead, Resumable
    <2>2. \A q \in Slot : myDone'[q] => ~close'[q]
      BY <1>13, <2>1 DEF TurnGranted, CloseInv
    <2>3. ResponsesKept
      BY <1>13 DEF TurnGranted, WriteFailure, Resumable,
         ResponsesKept, SlotType
    <2>4. wire' = wire \/ \E e \in Entry : Write(e) /\ MayAppend(e)
      <3>1. kind[r] = "app" /\ WriteHead(r) /\ close' = close /\ response' = response
            /\ response[r] = "started" /\ task'[r] = "run"
        BY <1>13 DEF TurnGranted, WriteFailure, Resumable, SlotInv,
           SlotType
      <3>2. close'[r] \in BOOLEAN
        BY <3>1 DEF FlagType
      <3> QED BY <3>1, <3>2, HeadMayAppend
    <2> QED BY <2>1, <2>2, <2>3, <2>4, CloseStep
  <1>14. ASSUME NEW r \in Slot,
              MessageArrived(r)
        PROVE  CloseInv'
    <2> SUFFICES ASSUME ~closing' PROVE CloseInv'
      BY DEF CloseInv
    <2>1. ~closing
      BY <1>14 DEF MessageArrived, Resumable
    <2>2. \A q \in Slot : myDone'[q] => ~close'[q]
      BY <1>14, <2>1 DEF MessageArrived, CloseInv
    <2>3. ResponsesKept
      BY <1>14 DEF MessageArrived, Resumable, ResponsesKept, SlotType
    <2>4. wire' = wire
      BY <1>14 DEF MessageArrived
    <2> QED BY <2>1, <2>2, <2>3, <2>4, CloseStep
  <1>15. ASSUME NEW r \in Slot,
              Drained(r)
        PROVE  CloseInv'
    <2> SUFFICES ASSUME ~closing' PROVE CloseInv'
      BY DEF CloseInv
    <2>1. ~closing
      BY <1>15 DEF Drained, FinishIfLast, Finish, Resumable
    <2>2. \A q \in Slot : myDone'[q] => ~close'[q]
      BY <1>15, <2>1 DEF Drained, FinishIfLast, Finish, Resumable,
         CloseInv, FlagType
    <2>3. ResponsesKept
      BY <1>15 DEF Drained, Resumable, ResponsesKept, SlotType
    <2>4. wire' = wire
      BY <1>15 DEF Drained
    <2> QED BY <2>1, <2>2, <2>3, <2>4, CloseStep
  <1>16. ASSUME NEW r \in Slot,
              CancelTask(r)
        PROVE  CloseInv'
    <2> SUFFICES ASSUME ~closing' PROVE CloseInv'
      BY DEF CloseInv
    <2>1. ~closing
      BY <1>16 DEF CancelTask
    <2>2. \A q \in Slot : myDone'[q] => ~close'[q]
      BY <1>16, <2>1 DEF CancelTask, CloseInv
    <2>3. ResponsesKept
      BY <1>16 DEF CancelTask, ResponsesKept, SlotType
    <2>4. wire' = wire
      BY <1>16 DEF CancelTask
    <2> QED BY <2>1, <2>2, <2>3, <2>4, CloseStep
  <1>17. ASSUME NEW r \in Slot,
              Interrupted(r)
        PROVE  CloseInv'
    BY <1>17 DEF Interrupted, CancelInv, CloseInv
  <1>18. ASSUME NEW r \in Slot,
              OnTaskDone(r)
        PROVE  CloseInv'
    <2> SUFFICES ASSUME ~closing' PROVE CloseInv'
      BY DEF CloseInv
    <2>1. ~closing
      BY <1>18 DEF OnTaskDone, Ended
    <2>2. \A q \in Slot : myDone'[q] => ~close'[q]
      <3>1. task[r] = "returned"
        BY <1>18, <2>1 DEF OnTaskDone, Ended, TurnInv, TurnOf
      <3>2. (myDone[r] \/ kind[r] = "app") = myDone[r]
        BY <2>1, <3>1 DEF TurnInv, TurnOf, FlagType
      <3> QED
        BY <1>18, <2>1, <3>2 DEF OnTaskDone, CloseInv, FlagType
    <2>3. ResponsesKept
      BY <1>18 DEF OnTaskDone, ResponsesKept, SlotType
    <2>4. wire' = wire
      BY <1>18 DEF OnTaskDone
    <2> QED BY <2>1, <2>2, <2>3, <2>4, CloseStep
  <1>19. ASSUME NEW r \in Slot,
              Receive(r)
        PROVE  CloseInv'
    <2> SUFFICES ASSUME ~closing' PROVE CloseInv'
      BY DEF CloseInv
    <2>1. ~closing
      BY <1>19 DEF Receive, Running, Resumable
    <2>2. \A q \in Slot : myDone'[q] => ~close'[q]
      BY <1>19, <2>1 DEF Receive, CloseInv
    <2>3. ResponsesKept
      BY <1>19 DEF Receive, Running, Resumable, ResponsesKept,
         SlotType
    <2>4. wire' = wire
      BY <1>19 DEF Receive
    <2> QED BY <2>1, <2>2, <2>3, <2>4, CloseStep
  <1>20. ASSUME NEW r \in Slot, NEW d \in BOOLEAN,
              SendStart(r, d)
        PROVE  CloseInv'
    <2> SUFFICES ASSUME ~closing' PROVE CloseInv'
      BY DEF CloseInv
    <2>1. ~closing
      BY <1>20 DEF SendStart, WriteHead, Running, Resumable
    <2>2. \A q \in Slot : myDone'[q] => ~close'[q]
      <3>1. ~myDone[r]
        BY <1>20, <2>1 DEF SendStart, TurnInv, TurnOf
      <3> QED
        BY <1>20, <2>1, <3>1 DEF SendStart, CloseInv, FlagType
    <2>3. ResponsesKept
      BY <1>20 DEF SendStart, Running, Resumable, ResponsesKept,
         SlotType
    <2>4. wire' = wire \/ \E e \in Entry : Write(e) /\ MayAppend(e)
      <3>1. CASE Turn(r)
        <4>1. WriteHead(r) /\ response'[r] = "started" /\ task'[r] = "run"
              /\ close'[r] \in BOOLEAN
          BY <1>20, <3>1 DEF SendStart, Running, Resumable,
             SlotType, FlagType
        <4> QED BY <4>1, HeadMayAppend
      <3>2. CASE ~Turn(r)
        BY <1>20, <3>2 DEF SendStart
      <3> QED BY <3>1, <3>2
    <2> QED BY <2>1, <2>2, <2>3, <2>4, CloseStep
  <1>21. ASSUME NEW r \in Slot, NEW l \in BOOLEAN, NEW f \in BOOLEAN,
              SendBody(r, l, f)
        PROVE  CloseInv'
    <2> SUFFICES ASSUME ~closing' PROVE CloseInv'
      BY DEF CloseInv
    <2>1. ~closing
      BY <1>21 DEF SendBody, AwaitDrain, FinishIfLast, Finish,
         Running, Resumable
    <2>2. \A q \in Slot : myDone'[q] => ~close'[q]
      BY <1>21, <2>1 DEF SendBody, AwaitDrain, FinishIfLast, Finish,
         Running, Resumable, CloseInv, FlagType
    <2>3. ResponsesKept
      BY <1>21 DEF SendBody, AwaitDrain, Running, Resumable,
         ResponsesKept, SlotType
    <2>4. wire' = wire \/ \E e \in Entry : Write(e) /\ MayAppend(e)
      <3>1. CASE f
        <4> DEFINE e == [slot |-> r, part |-> "body", close |-> FALSE]
        <4>1. e \in Entry /\ e.slot = r /\ e.part = "body" /\ ~e.close
          BY EntryType
        <4>2. Write(e)
          BY <1>21, <2>1, <3>1 DEF SendBody
        <4>3. response'[r] # "none" /\ task'[r] # "turn"
          BY <1>21 DEF SendBody, AwaitDrain, Running, Resumable,
             SlotType
        <4> QED BY <4>1, <4>2, <4>3 DEF MayAppend
      <3>2. CASE ~f
        BY <1>21, <3>2 DEF SendBody
      <3> QED BY <3>1, <3>2
    <2> QED BY <2>1, <2>2, <2>3, <2>4, CloseStep
  <1>22. ASSUME NEW r \in Slot, NEW how \in {"returned", "raised"},
              AppEnd(r, how)
        PROVE  CloseInv'
    <2> SUFFICES ASSUME ~closing' PROVE CloseInv'
      BY DEF CloseInv
    <2>1. ~closing
      BY <1>22 DEF AppEnd, Running, Resumable
    <2>2. \A q \in Slot : myDone'[q] => ~close'[q]
      BY <1>22, <2>1 DEF AppEnd, CloseInv
    <2>3. ResponsesKept
      BY <1>22 DEF AppEnd, Running, Resumable, ResponsesKept, SlotType
    <2>4. wire' = wire
      BY <1>22 DEF AppEnd
    <2> QED BY <2>1, <2>2, <2>3, <2>4, CloseStep
  <1>23. CASE UNCHANGED vars
    BY <1>23 DEF vars, CloseInv, Carries
  <1> QED
    BY <1>1, <1>2, <1>3, <1>4, <1>5, <1>6, <1>7, <1>8, <1>9, <1>10,
       <1>11, <1>12, <1>13, <1>14, <1>15, <1>16, <1>17, <1>18, <1>19,
       <1>20, <1>21, <1>22, <1>23 DEF Next, DataReceived, LoopStep,
       AppStep

-----------------------------------------------------------------------------
(* The refinement. *)

AllInv == InOrderInv /\ CloseInv

LEMMA NewestType ==
    ASSUME TransportType PROVE Newest = 0 \/ Newest \in Slot
  <1>1. CASE wire = <<>>
    BY <1>1 DEF Newest
  <1>2. CASE wire # <<>>
    <2>1. wire[Len(wire)] \in Entry
      BY <1>2 DEF TransportType
    <2> QED BY <1>2, <2>1 DEF Newest, Entry
  <1> QED BY <1>1, <1>2

\* The newest entry is the one just written.
LEMMA NewestWritten ==
    ASSUME TransportType, NEW e \in Entry, wire' = Append(wire, e)
    PROVE  Newest' = e.slot
  <1>1. wire' # <<>> /\ Len(wire') = Len(wire) + 1 /\ wire'[Len(wire) + 1] = e
    BY DEF TransportType
  <1> QED BY <1>1 DEF Newest

\* A task whose turn it is and that has written nothing follows the newest
\* response, which is complete and keeps the connection open.
LEMMA HeadDue ==
    ASSUME AllInv, ~closing, NEW r \in Slot, Turn(r),
           response[r] # "final", task[r] # "unused",
           response[r] = "none" \/ task[r] = "turn"
    PROVE  /\ Newest + 1 = r
           /\ Newest = 0 \/ response[Newest] = "final"
           /\ ~Stream!Announced
  <1> USE DEF AllInv, InOrderInv, TypeInv, TypeOK
  <1>1. ASSUME NEW i \in DOMAIN wire
        PROVE  wire[i].slot \in Slot /\ wire[i].slot < r /\ ~wire[i].close
    <2>1. Carries(i) /\ wire[i].slot \in Slot /\ wire[i].slot # r
      BY DEF CloseInv, Carries
    <2>2. wire[i].slot <= r
      BY TurnMayWrite
    <2>3. wire[i].slot < r
      BY <2>1, <2>2, BoundsAssumption DEF Slot
    <2>4. myDone[wire[i].slot]
      BY <2>1, <2>3, TurnReleases DEF TurnInv
    <2> QED BY <2>1, <2>3, <2>4 DEF CloseInv, Carries
  <1>2. ~Stream!Announced
    BY <1>1 DEF Stream!Announced
  <1>3. CASE r = 1
    <2>1. DOMAIN wire = {}
      BY <1>1, <1>3, BoundsAssumption DEF Slot
    <2>2. wire = <<>>
      BY <2>1 DEF TransportType
    <2> QED BY <1>2, <1>3, <2>2 DEF Newest
  <1>4. CASE r # 1
    <2>1. r - 1 \in 1..(r - 1) /\ r - 1 \in Slot /\ r \in Nat
      BY <1>4, BoundsAssumption DEF Slot
    <2>2. response[r - 1] = "final" /\ HeadOnWire(r - 1)
      BY <2>1, TurnMayWrite
    <2>3. PICK j \in DOMAIN wire : wire[j].slot = r - 1
      BY <2>2 DEF HeadOnWire
    <2>4. Len(wire) \in DOMAIN wire /\ j \in 1..Len(wire) /\ wire # <<>>
      BY <2>3 DEF TransportType
    <2>5. wire[j].slot <= wire[Len(wire)].slot
      BY <2>4 DEF WireInv, ResponsesInOrder
    <2>6. wire[Len(wire)].slot < r /\ wire[Len(wire)].slot \in Nat
      BY <1>1, <2>4, SlotFacts
    <2>7. Newest = r - 1
      BY <2>1, <2>3, <2>4, <2>5, <2>6 DEF Newest
    <2> QED BY <1>2, <2>1, <2>2, <2>7
  <1> QED BY <1>3, <1>4

\* A running task with a response begun is the newest on the wire.
LEMMA BodyDue ==
    ASSUME AllInv, ~closing, NEW r \in Slot, response[r] = "started",
           task[r] = "run"
    PROVE  Newest = r /\ (close[r] => Stream!Announced)
  <1> USE DEF AllInv, InOrderInv, TypeInv, TypeOK
  <1>1. Turn(r) /\ HeadOnWire(r)
    BY DEF TurnInv, TurnOf
  <1>2. PICK j \in DOMAIN wire : wire[j].slot = r /\ wire[j].part = "head"
    BY <1>1 DEF HeadOnWire
  <1>3. Len(wire) \in DOMAIN wire /\ j \in 1..Len(wire) /\ wire # <<>>
    BY <1>2 DEF TransportType
  <1>4. wire[j].slot <= wire[Len(wire)].slot
    BY <1>3 DEF WireInv, ResponsesInOrder
  <1>5. wire[Len(wire)].slot <= r
    BY <1>1, <1>3, TurnMayWrite
  <1>6. wire[Len(wire)].slot \in Slot
    BY <1>3 DEF CloseInv, Carries
  <1>7. Newest = r
    BY <1>2, <1>3, <1>4, <1>5, <1>6, SlotFacts DEF Newest
  <1>8. close[r] => wire[j].close
    BY <1>2 DEF CloseInv, Carries
  <1> QED BY <1>2, <1>7, <1>8 DEF Stream!Announced

\* A step that writes nothing and completes no response.
LEMMA StreamStutter ==
    ASSUME AllInv, wire' = wire, closing => closing', closing' \in BOOLEAN,
           \A q \in Slot : response'[q] = "final" <=> response[q] = "final"
    PROVE  [Stream!Next]_Stream!svars
  <1>1. Newest' = Newest /\ (Newest = 0 \/ Newest \in Slot)
    BY NewestType DEF Newest, AllInv, InOrderInv, TypeInv, TypeOK
  <1>2. (Newest = 0 \/ response[Newest] = "final")
            = (Newest = 0 \/ response[Newest] = "final")'
    BY <1>1
  <1>3. CASE closing' = closing
    BY <1>2, <1>3 DEF Stream!svars
  <1>4. CASE ~closing /\ closing'
    <2>1. Stream!Close
      BY <1>2, <1>4 DEF Stream!Close
    <2> QED BY <2>1 DEF Stream!Next
  <1> QED
    BY <1>3, <1>4 DEF AllInv, InOrderInv, TypeInv, TypeOK, TransportType

\* The head of a response.
LEMMA HeadResponds ==
    ASSUME AllInv, NEW r \in Slot, Turn(r), WriteHead(r), close'[r] \in BOOLEAN,
           task[r] \in {"run", "turn"}, response[r] = "none" \/ task[r] = "turn",
           response[r] # "final", response'[r] = "started",
           \A q \in Slot : response'[q] = "final" <=> response[q] = "final"
    PROVE  [Stream!Next]_Stream!svars
  <1>0. TransportType /\ closing' = closing /\ closing' \in BOOLEAN
    BY DEF AllInv, InOrderInv, TypeInv, TypeOK, WriteHead, TransportType
  <1>1. CASE closing
    <2>1. wire' = wire
      BY <1>1 DEF WriteHead, Write
    <2> QED BY <1>0, <2>1, StreamStutter
  <1>2. CASE ~closing
    <2> DEFINE e == [slot |-> r, part |-> "head", close |-> close'[r]]
    <2>1. /\ Newest + 1 = r /\ ~Stream!Announced
          /\ Newest = 0 \/ response[Newest] = "final"
      BY <1>2, HeadDue
    <2>2. wire' = Append(wire, e)
      BY <1>2 DEF WriteHead, Write
    <2>3. e \in Entry /\ e.slot = r
      BY DEF Entry
    <2> HIDE DEF e
    <2>4. Newest' = r /\ r # 0
      BY <1>0, <2>2, <2>3, NewestWritten, SlotFacts
    <2>5. Stream!Current + 1 = r
      BY <2>1 DEF Stream!Current, Newest
    <2>6. Stream!Respond(close'[r])
      BY <1>0, <1>2, <2>1, <2>2, <2>4, <2>5 DEF Stream!Respond, Stream!Put, e
    <2> QED BY <2>6 DEF Stream!Next
  <1> QED BY <1>1, <1>2

\* A failure response.
LEMMA FailureRefuses ==
    ASSUME AllInv, NEW r \in Slot, Turn(r), WriteFailure(r), response' = response,
           response[r] = "none", task[r] \in {"new", "turn"}
    PROVE  [Stream!Next]_Stream!svars
  <1>0. TransportType /\ closing'
    BY DEF AllInv, InOrderInv, TypeInv, TypeOK, WriteFailure
  <1>1. CASE closing
    <2>1. wire' = wire
      BY <1>1 DEF WriteFailure, Write
    <2> QED BY <2>1, StreamStutter DEF WriteFailure
  <1>2. CASE ~closing
    <2> DEFINE e == [slot |-> r, part |-> "error", close |-> TRUE]
    <2>1. /\ Newest + 1 = r /\ ~Stream!Announced
          /\ Newest = 0 \/ response[Newest] = "final"
      BY <1>2, HeadDue
    <2>2. wire' = Append(wire, e)
      BY <1>2 DEF WriteFailure, Write
    <2>3. e \in Entry /\ e.slot = r
      BY DEF Entry
    <2> HIDE DEF e
    <2>4. Newest' = r /\ r # 0
      BY <1>0, <2>2, <2>3, NewestWritten, SlotFacts
    <2>5. Stream!Current + 1 = r
      BY <2>1 DEF Stream!Current, Newest
    <2>6. Stream!Refuse
      BY <1>0, <1>2, <2>1, <2>2, <2>4, <2>5 DEF Stream!Refuse, Stream!Put, e
    <2> QED BY <2>6 DEF Stream!Next
  <1> QED BY <1>1, <1>2

\* Every step is a step of the stream, or leaves it alone.
LEMMA NextStream ==
    AllInv /\ [Next]_vars /\ TransportType' => [Stream!Next]_Stream!svars
  <1> SUFFICES ASSUME AllInv, [Next]_vars, TransportType'
               PROVE  [Stream!Next]_Stream!svars
    OBVIOUS
  <1> USE DEF transport, connection, parsing, requests, progress, loop
  <1>0. /\ TransportType /\ SlotType /\ FlagType /\ SlotInv /\ WireInv /\ CloseInv
        /\ closing' \in BOOLEAN /\ wire' \in Seq(Entry)
    BY DEF AllInv, InOrderInv, TypeInv, TypeOK, TransportType
  <1> USE <1>0
  <1>1. ASSUME NEW mode \in {"events", "error"}, NEW c \in BOOLEAN,
              BeginRequest(mode, c)
        PROVE  [Stream!Next]_Stream!svars
    <2>1. wire' = wire /\ response' = response /\ (closing => closing')
      BY <1>1 DEF BeginRequest
    <2> QED BY <2>1, StreamStutter
  <1>2. ASSUME NEW mode \in {"events", "error"}, NEW m \in {"more", "last"},
              PushBodyChunk(mode, m)
        PROVE  [Stream!Next]_Stream!svars
    <2>1. wire' = wire /\ response' = response /\ (closing => closing')
      BY <1>2 DEF PushBodyChunk
    <2> QED BY <2>1, StreamStutter
  <1>3. CASE EndOfEvents
    <2>1. wire' = wire /\ response' = response /\ (closing => closing')
      BY <1>3 DEF EndOfEvents
    <2> QED BY <2>1, StreamStutter
  <1>4. CASE RejectUpgrade
    <2>1. wire' = wire /\ response' = response /\ (closing => closing')
      BY <1>4 DEF RejectUpgrade
    <2> QED BY <2>1, StreamStutter
  <1>5. CASE Fail
    <2>1. wire' = wire /\ response' = response /\ (closing => closing')
      BY <1>5 DEF Fail
    <2> QED BY <2>1, StreamStutter
  <1>6. CASE OnHeadTimeout
    <2>1. CASE gotFirstHead \/ closing
      BY <1>6, <2>1, StreamStutter DEF OnHeadTimeout
    <2>2. CASE ~gotFirstHead /\ ~closing
      <3>1. wire = <<>>
        <4>1. slots = 0
          BY <1>6 DEF OnHeadTimeout, WireInv
        <4>2. ASSUME NEW i \in DOMAIN wire PROVE FALSE
          <5>1. wire[i].slot \in Slot /\ wire[i].slot <= 0
            BY <2>2, <4>1 DEF WireInv, CloseInv, Carries
          <5> QED BY <5>1, BoundsAssumption DEF Slot
        <4>3. DOMAIN wire = 1..Len(wire) /\ Len(wire) \in Nat
          BY DEF TransportType
        <4>4. Len(wire) = 0
          <5>1. Len(wire) # 0 => 1 \in DOMAIN wire
            BY <4>3
          <5> QED BY <4>2, <5>1
        <4> QED BY <4>4 DEF TransportType
      <3>2. /\ wire' = Append(wire, [slot |-> 0, part |-> "timeout", close |-> TRUE])
            /\ closing' /\ response' = response
        BY <1>6, <2>2 DEF OnHeadTimeout, Write
      <3>3. Newest = 0 /\ Newest' = 0
        BY <3>1, <3>2 DEF Newest
      <3>4. Stream!TimeOut
        BY <2>2, <3>1, <3>2, <3>3 DEF Stream!TimeOut, Stream!Put
      <3> QED BY <3>4 DEF Stream!Next
    <2> QED BY <2>1, <2>2
  <1>7. CASE EofReceived
    <2>1. wire' = wire /\ response' = response /\ (closing => closing')
      BY <1>7 DEF EofReceived
    <2> QED BY <2>1, StreamStutter
  <1>8. CASE ConnectionLost
    <2>1. wire' = wire /\ response' = response /\ (closing => closing')
      BY <1>8 DEF ConnectionLost
    <2> QED BY <2>1, StreamStutter
  <1>9. CASE ResumeWriting
    <2>1. wire' = wire /\ response' = response /\ (closing => closing')
      BY <1>9 DEF ResumeWriting
    <2> QED BY <2>1, StreamStutter
  <1>10. CASE BeginShutdown
    <2>1. wire' = wire /\ response' = response /\ (closing => closing')
      BY <1>10 DEF BeginShutdown
    <2> QED BY <2>1, StreamStutter
  <1>11. CASE ForceClose
    <2>1. wire' = wire /\ response' = response /\ (closing => closing')
      BY <1>11 DEF ForceClose
    <2> QED BY <2>1, StreamStutter
  <1>12. ASSUME NEW r \in Slot,
              Start(r)
        PROVE  [Stream!Next]_Stream!svars
    <2>1. CASE kind[r] = "failure" /\ Turn(r)
      <3>1. WriteFailure(r) /\ response' = response /\ response[r] = "none"
            /\ task[r] = "new"
        BY <1>12, <2>1 DEF Start, Resumable, SlotInv
      <3> QED BY <2>1, <3>1, FailureRefuses
    <2>2. CASE ~(kind[r] = "failure" /\ Turn(r))
      BY <1>12, <2>2, StreamStutter DEF Start, SlotType
    <2> QED BY <2>1, <2>2
  <1>13. ASSUME NEW r \in Slot,
              TurnGranted(r)
        PROVE  [Stream!Next]_Stream!svars
    <2>1. /\ Turn(r) /\ task[r] = "turn" /\ response' = response /\ close' = close
          /\ kind[r] \in {"app", "failure"}
      BY <1>13 DEF TurnGranted, Resumable, SlotType
    <2>2. CASE kind[r] = "app"
      <3>1. WriteHead(r) /\ response[r] = "started" /\ close'[r] \in BOOLEAN
        BY <1>13, <2>1, <2>2 DEF TurnGranted, SlotInv, FlagType
      <3> QED BY <2>1, <3>1, HeadResponds
    <2>3. CASE kind[r] = "failure"
      <3>1. WriteFailure(r) /\ response[r] = "none"
        BY <1>13, <2>3 DEF TurnGranted, SlotInv
      <3> QED BY <2>1, <3>1, FailureRefuses
    <2> QED BY <2>1, <2>2, <2>3
  <1>14. ASSUME NEW r \in Slot,
              MessageArrived(r)
        PROVE  [Stream!Next]_Stream!svars
    <2>1. wire' = wire /\ response' = response /\ (closing => closing')
      BY <1>14 DEF MessageArrived
    <2> QED BY <2>1, StreamStutter
  <1>15. ASSUME NEW r \in Slot,
              Drained(r)
        PROVE  [Stream!Next]_Stream!svars
    <2>1. wire' = wire /\ response' = response /\ (closing => closing')
      BY <1>15 DEF Drained, FinishIfLast, Finish
    <2> QED BY <2>1, StreamStutter
  <1>16. ASSUME NEW r \in Slot,
              CancelTask(r)
        PROVE  [Stream!Next]_Stream!svars
    <2>1. wire' = wire /\ response' = response /\ (closing => closing')
      BY <1>16 DEF CancelTask
    <2> QED BY <2>1, StreamStutter
  <1>17. ASSUME NEW r \in Slot,
              Interrupted(r)
        PROVE  [Stream!Next]_Stream!svars
    <2>1. wire' = wire /\ response' = response /\ (closing => closing')
      BY <1>17 DEF Interrupted
    <2> QED BY <2>1, StreamStutter
  <1>18. ASSUME NEW r \in Slot,
              OnTaskDone(r)
        PROVE  [Stream!Next]_Stream!svars
    <2>1. wire' = wire /\ response' = response /\ (closing => closing')
      BY <1>18 DEF OnTaskDone
    <2> QED BY <2>1, StreamStutter
  <1>19. ASSUME NEW r \in Slot,
              Receive(r)
        PROVE  [Stream!Next]_Stream!svars
    <2>1. wire' = wire /\ response' = response /\ (closing => closing')
      BY <1>19 DEF Receive
    <2> QED BY <2>1, StreamStutter
  <1>20. ASSUME NEW r \in Slot, NEW d \in BOOLEAN,
              SendStart(r, d)
        PROVE  [Stream!Next]_Stream!svars
    <2>1. /\ response' = [response EXCEPT ![r] = "started"] /\ response[r] = "none"
          /\ task[r] = "run" /\ close'[r] \in BOOLEAN
      BY <1>20 DEF SendStart, Running, Resumable, FlagType
    <2>2. \A q \in Slot : response'[q] = "final" <=> response[q] = "final"
      BY <2>1 DEF SlotType
    <2>3. CASE Turn(r)
      <3>1. WriteHead(r) /\ response'[r] = "started"
        BY <1>20, <2>3 DEF SendStart, SlotType
      <3> QED BY <2>1, <2>2, <2>3, <3>1, HeadResponds
    <2>4. CASE ~Turn(r)
      BY <1>20, <2>2, <2>4, StreamStutter DEF SendStart
    <2> QED BY <2>3, <2>4
  <1>21. ASSUME NEW r \in Slot, NEW l \in BOOLEAN, NEW f \in BOOLEAN,
              SendBody(r, l, f)
        PROVE  [Stream!Next]_Stream!svars
    <2>1. /\ response[r] = "started" /\ task[r] = "run"
          /\ response' = IF l THEN [response EXCEPT ![r] = "final"] ELSE response
          /\ \A q \in Slot : q # r => response'[q] = response[q]
          /\ response'[r] = IF l THEN "final" ELSE "started"
      BY <1>21 DEF SendBody, Running, Resumable, SlotType
    <2>2. CASE closing
      <3>1. wire' = wire /\ closing' /\ Newest' = Newest
        BY <1>21, <2>2 DEF SendBody, FinishIfLast, Finish, Newest
      <3>2. CASE Newest = r /\ l
        <4>1. r # 0
          BY SlotFacts
        <4>2. Stream!End
          BY <2>1, <2>2, <3>1, <3>2, <4>1 DEF Stream!End, Stream!CloseIfAnnounced
        <4> QED BY <4>2 DEF Stream!Next
      <3>3. CASE ~(Newest = r /\ l)
        <4>1. Newest = 0 \/ Newest \in Slot
          BY NewestType
        <4> QED BY <2>1, <2>2, <3>1, <3>3, <4>1 DEF Stream!svars
      <3> QED BY <3>2, <3>3
    <2>3. CASE ~closing
      <3>1. Newest = r /\ (close[r] => Stream!Announced)
        BY <2>1, <2>3, BodyDue
      <3>2. r # 0
        BY SlotFacts
      <3>3. closing' => l /\ close[r]
        BY <1>21, <2>3 DEF SendBody, AwaitDrain, FinishIfLast, Finish, FlagType
      <3>4. CASE f
        <4>1. wire' = Append(wire, [slot |-> r, part |-> "body", close |-> FALSE])
          BY <1>21, <2>3, <3>4 DEF SendBody, Write
        <4>2. Newest' = r
          BY <4>1, NewestWritten
        <4>3. Stream!Continue(l)
          BY <2>1, <2>3, <3>1, <3>2, <3>3, <4>1, <4>2
             DEF Stream!Continue, Stream!Put, Stream!CloseIfAnnounced,
                 Stream!Current, Newest, TransportType
        <4> QED BY <4>3 DEF Stream!Next
      <3>5. CASE ~f
        <4>1. l /\ wire' = wire /\ Newest' = r
          BY <1>21, <3>1, <3>5 DEF SendBody, Newest
        <4>2. Stream!End
          BY <2>1, <2>3, <3>1, <3>2, <3>3, <4>1
             DEF Stream!End, Stream!CloseIfAnnounced, TransportType
        <4> QED BY <4>2 DEF Stream!Next
      <3> QED BY <3>4, <3>5
    <2> QED BY <2>2, <2>3
  <1>22. ASSUME NEW r \in Slot, NEW how \in {"returned", "raised"},
              AppEnd(r, how)
        PROVE  [Stream!Next]_Stream!svars
    <2>1. wire' = wire /\ response' = response /\ (closing => closing')
      BY <1>22 DEF AppEnd
    <2> QED BY <2>1, StreamStutter
  <1>23. CASE UNCHANGED vars
    BY <1>23 DEF vars, Stream!svars, Newest
  <1> QED
    BY <1>1, <1>2, <1>3, <1>4, <1>5, <1>6, <1>7, <1>8, <1>9, <1>10,
       <1>11, <1>12, <1>13, <1>14, <1>15, <1>16, <1>17, <1>18, <1>19,
       <1>20, <1>21, <1>22, <1>23 DEF Next, DataReceived, LoopStep,
       AppStep

\* Every step of a connection whose applications finish what they start keeps
\* the invariants together.
LEMMA NextAllInv == AllInv /\ NoneAbandoned' /\ [Next]_vars => AllInv'
  BY NextTypeInv, NextCancelInv, NextSlotInv, NextTurnInv, NextWireInv, NextCloseInv
     DEF AllInv, InOrderInv

LEMMA InitAllInv == Init => AllInv
  BY InitTypeInv, InitCancelInv, InitSlotInv, InitTurnInv, InitWireInv, InitCloseInv
     DEF AllInv, InOrderInv

\* The connection implements the response stream for as long as no application
\* returns with its response unfinished.
THEOREM ImplementsStream == Spec /\ []NoneAbandoned => KeepsPromises
  <1>1. Init => AllInv /\ Stream!Init
    BY InitAllInv DEF Init, Stream!Init, Newest
  <1>2. AllInv /\ NoneAbandoned' /\ [Next]_vars => AllInv'
    BY NextAllInv
  <1>3. AllInv /\ AllInv' /\ [Next]_vars => [Stream!Next]_Stream!svars
    BY NextStream DEF AllInv, InOrderInv, TypeInv, TypeOK
  <1> QED BY <1>1, <1>2, <1>3, PTL DEF Spec, KeepsPromises, Stream!Spec

\* Nothing but its own body follows a response that announced the close.
THEOREM CloseEnds == Spec /\ []NoneAbandoned => []CloseIsFinal
  <1>1. Spec /\ []NoneAbandoned => Stream!Spec
    BY ImplementsStream DEF KeepsPromises
  <1>2. Stream!Spec => []Stream!NothingAfterClose
    BY Stream!CloseEndsStream
  <1>3. Stream!NothingAfterClose => CloseIsFinal
    BY DEF Stream!NothingAfterClose, CloseIsFinal
  <1> QED BY <1>1, <1>2, <1>3, PTL

\* A response that announced the close and released the turnstile has closed
\* the transport.
THEOREM CloseKept == Spec /\ []NoneAbandoned => []CloseHonoured
  <1>1. Init => AllInv
    BY InitAllInv
  <1>2. AllInv /\ NoneAbandoned' /\ [Next]_vars => AllInv'
    BY NextAllInv
  <1>3. AllInv => CloseHonoured
    BY DEF AllInv, CloseInv, CloseHonoured
  <1> QED BY <1>1, <1>2, <1>3, PTL DEF Spec

-----------------------------------------------------------------------------
(* Applications that complete their responses or raise. *)

\* Only a coroutine that ends by itself can leave its response unfinished: no
\* other step makes an application's task a returned one, or takes back what a
\* returned one has sent.
LEMMA NextNoneAbandoned ==
    NoAbandons /\ TypeInv /\ SlotInv /\ NoneAbandoned /\ [Next]_vars
        => NoneAbandoned'
  <1> SUFFICES ASSUME NoAbandons, TypeInv, SlotInv, NoneAbandoned, [Next]_vars,
                      ~closing',
                      NEW q \in Slot, kind'[q] = "app", task'[q] = "returned"
               PROVE  response'[q] = "final"
    BY DEF NoneAbandoned
  <1> USE DEF TypeInv, TypeOK, SlotType, parsing, requests, progress
  <1> DEFINE Unmoved == /\ ~closing /\ task[q] = "returned" /\ kind[q] = "app"
                        /\ response'[q] = response[q]
  <1>1. SUFFICES Unmoved \/ response'[q] = "final"
    BY DEF NoneAbandoned
  <1>2. CASE DataReceived
    <2>1. ASSUME NEW what \in {"app", "failure"}, Spawn(what)
          PROVE  task[q] = "returned" /\ kind[q] = "app"
      BY <2>1 DEF Spawn
    <2> QED
      BY <1>2, <2>1 DEF DataReceived, BeginRequest, PushBodyChunk, EndOfEvents,
         RejectUpgrade, Fail, transport
  <1>3. CASE \/ OnHeadTimeout \/ EofReceived \/ ConnectionLost \/ BeginShutdown
             \/ ForceClose \/ UNCHANGED vars
    BY <1>3 DEF OnHeadTimeout, EofReceived, ConnectionLost, BeginShutdown,
       ForceClose, vars, transport
  <1>4. CASE ResumeWriting
    BY <1>4 DEF ResumeWriting
  <1>5. ASSUME NEW r \in Slot, LoopStep(r)
        PROVE  Unmoved
    <2>1. CASE Start(r) \/ TurnGranted(r)
      BY <1>5, <2>1 DEF Start, TurnGranted, WriteFailure, WriteHead, Resumable,
         transport
    <2>2. CASE MessageArrived(r) \/ CancelTask(r) \/ Interrupted(r)
      BY <2>2 DEF MessageArrived, CancelTask, Interrupted, transport
    <2>3. CASE Drained(r)
      BY <2>3 DEF Drained, FinishIfLast, Finish
    <2>4. CASE OnTaskDone(r)
      BY <2>4 DEF OnTaskDone
    <2> QED BY <1>5, <2>1, <2>2, <2>3, <2>4 DEF LoopStep
  <1>6. ASSUME NEW r \in Slot, AppStep(r)
        PROVE  Unmoved \/ response'[q] = "final"
    <2>1. CASE Receive(r)
      BY <2>1 DEF Receive, transport
    <2>2. CASE \E declaresLength \in BOOLEAN : SendStart(r, declaresLength)
      BY <2>2 DEF SendStart, WriteHead, Running, Resumable, transport
    <2>3. CASE \E last, full \in BOOLEAN : SendBody(r, last, full)
      BY <2>3 DEF SendBody, AwaitDrain, FinishIfLast, Finish, Running, Resumable
    <2>4. CASE \E how \in {"returned", "raised"} : AppEnd(r, how)
      BY <2>4 DEF AppEnd, NoAbandons, transport
    <2> QED BY <1>6, <2>1, <2>2, <2>3, <2>4 DEF AppStep
  <1> QED BY <1>2, <1>3, <1>4, <1>5, <1>6 DEF Next

\* Applications that complete their responses or raise are given everything the
\* connection promises.
THEOREM TidyApplications ==
    NoAbandons => (Spec => /\ [](ResponsesInOrder /\ PredecessorsComplete)
                           /\ [](CloseIsFinal /\ CloseHonoured)
                           /\ KeepsPromises)
  <1> SUFFICES ASSUME NoAbandons
               PROVE  Spec => /\ [](ResponsesInOrder /\ PredecessorsComplete)
                              /\ [](CloseIsFinal /\ CloseHonoured)
                              /\ KeepsPromises
    OBVIOUS
  <1>1. Init => TypeInv /\ SlotInv /\ NoneAbandoned
    BY InitTypeInv, InitSlotInv DEF Init, NoneAbandoned
  <1>2. TypeInv /\ SlotInv /\ NoneAbandoned /\ [Next]_vars
            => (TypeInv /\ SlotInv /\ NoneAbandoned)'
    BY NextTypeInv, NextSlotInv, NextNoneAbandoned
  <1>3. Spec => []NoneAbandoned
    BY <1>1, <1>2, PTL DEF Spec
  <1> QED BY <1>3, ResponseOrder, ImplementsStream, CloseEnds, CloseKept, PTL

=============================================================================
