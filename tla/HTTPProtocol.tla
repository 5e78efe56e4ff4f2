---------------------------- MODULE HTTPProtocol ----------------------------
(***************************************************************************)
(* One TCP connection of the sonix server while it speaks HTTP/1.1: the    *)
(* class HTTPProtocol of src/src/sonix/server/protocol.py, with the        *)
(* transport, the event loop, the parser, the application and the server   *)
(* as its environment.                                                     *)
(*                                                                         *)
(* Everything runs on one event loop, so an action is what happens between *)
(* two suspension points: one callback of the protocol, or one stretch of  *)
(* a request task between two awaits.  Each request is a SLOT, numbered in *)
(* order of arrival.  A slot holds a task, its receive queue, and its link *)
(* of the write turnstile: the event my_done, which is also the my_turn of *)
(* the next slot.                                                          *)
(*                                                                         *)
(* An operator introduced as a "Mutation" is not part of the model: it is  *)
(* a plausible bug in the definition that follows it, kept to show that    *)
(* the properties notice.                                                  *)
(***************************************************************************)
EXTENDS Integers, Sequences, FiniteSets

CONSTANTS
    MaxRequests,  \* bound: requests dispatched on the connection
    MaxChunks,    \* bound: body chunks of a request before its last one
    MaxWrites,    \* bound: non-final body messages of a response
    PauseAt,      \* body_pause_watermark
    ResumeAt,     \* body_resume_watermark
    Habits,       \* what the ASGI applications of this instance may do
    Disturbances  \* what its client, network and server may do

ASSUME BoundsAssumption ==
    /\ MaxRequests \in Nat \ {0}
    /\ MaxChunks \in Nat
    /\ MaxWrites \in Nat

ASSUME WatermarkAssumption ==
    /\ PauseAt \in Nat
    /\ ResumeAt \in Nat
    /\ ResumeAt < PauseAt

\* raises: lets an exception escape; abandons: ends without a complete
\* response; ignores_body: answers without reading its request to the end;
\* listens: keeps waiting for the disconnect once it has answered;
\* swallows_cancel: survives a CancelledError.
ASSUME HabitsAssumption ==
    Habits \subseteq {"raises", "abandons", "ignores_body", "listens",
                      "swallows_cancel"}

\* malformed: the parser fails; upgrade: an upgrade is offered and rejected;
\* slow_client: a write crosses the high-water mark; eof and lost: the client
\* closes, the connection breaks; shutdown: the server shuts down.
ASSUME DisturbancesAssumption ==
    Disturbances \subseteq {"malformed", "upgrade", "slow_client", "eof", "lost",
                            "shutdown"}

VARIABLES
    \* transport
    closing,       \* transport.is_closing()
    wire,          \* what was written, in order
    writePaused,   \* _paused_writing
    \* connection
    closed,        \* _closed: inbound bytes are dropped
    disconnected,  \* _disconnected
    gotFirstHead,  \* _got_first_head
    timerArmed,    \* the head timeout has neither fired nor been cancelled
    readingPaused, \* _reading_paused
    drainWaiter,   \* the slot whose future is in _drain_waiter, 0 for None
    \* data_received and the parser
    feeding,       \* the batch of events being dispatched
    bodyOpen,      \* the body of the newest request is incomplete
    chunks,        \* chunks of that body so far
    slots,         \* slots in use: the last one is the newest
    \* per slot
    kind,          \* an application or a failure response
    task,          \* where the task is
    queue,         \* receive queue
    seen,          \* what the application has read of its request
    clientClose,   \* the client asked for Connection: close
    close,         \* the closure variable `close` of _make_send
    response,      \* how far the application's response has come
    myDone,        \* my_done is set
    mustCancel,    \* a CancelledError awaits the task's next step
    \* event loop and server
    cancelling,    \* slots whose task.cancel is scheduled
    owed,          \* slots whose wake-up was scheduled before those
    shouldExit     \* ServerState.should_exit

transport  == <<closing, wire, writePaused>>
connection == <<closed, disconnected, gotFirstHead, timerArmed>>
parsing    == <<feeding, bodyOpen, chunks, slots>>
requests   == <<kind, clientClose>>
progress   == <<task, queue, seen, close, response, myDone, mustCancel>>
loop       == <<cancelling, owed>>
vars == <<transport, connection, readingPaused, drainWaiter, parsing,
          requests, progress, loop, shouldExit>>

-----------------------------------------------------------------------------
\* The last slot is only ever used by a failure response.
Slot == 1..(MaxRequests + 1)

Message == {"more", "last", "disconnect"}

\* "drain" awaits the drain future, "drained" has it resolved.
Ended  == {"returned", "raised", "cancelled"}
Status == {"unused", "new", "run", "recv", "turn", "drain", "drained", "gone"}
              \cup Ended

Entry == [slot : Slot \cup {0}, part : {"head", "body", "error", "timeout"},
          close : BOOLEAN]

Inflight == {r \in Slot : task[r] \notin {"unused", "gone"}}

IsIdle == Inflight = {}

\* Mutation: nobody waits for the turnstile.
TurnIgnored(r) == r \in Slot

\* my_turn of slot r is set: it is the event the previous slot releases.
Turn(r) == r > 1 => myDone[r - 1]

\* No callback runs while data_received dispatches a batch.
LoopFree == feeding = "idle"

\* transport.write, guarded by is_closing() everywhere in the source.  The
\* high-water mark may be crossed by any write.
Write(entry) ==
    IF closing THEN UNCHANGED <<wire, writePaused>>
    ELSE /\ wire' = Append(wire, entry)
         /\ \/ writePaused' = writePaused
            \/ "slow_client" \in Disturbances /\ writePaused' = TRUE

Init ==
    /\ closing = FALSE /\ wire = <<>> /\ writePaused = FALSE
    /\ closed = FALSE /\ disconnected = FALSE
    /\ gotFirstHead = FALSE /\ timerArmed = TRUE
    /\ readingPaused = FALSE /\ drainWaiter = 0
    /\ feeding = "idle" /\ bodyOpen = FALSE /\ chunks = 0 /\ slots = 0
    /\ kind = [r \in Slot |-> "app"]
    /\ task = [r \in Slot |-> "unused"]
    /\ queue = [r \in Slot |-> <<>>]
    /\ seen = [r \in Slot |-> "none"]
    /\ clientClose = [r \in Slot |-> FALSE]
    /\ close = [r \in Slot |-> FALSE]
    /\ response = [r \in Slot |-> "none"]
    /\ myDone = [r \in Slot |-> FALSE]
    /\ mustCancel = [r \in Slot |-> FALSE]
    /\ cancelling = {} /\ owed = {} /\ shouldExit = FALSE

-----------------------------------------------------------------------------
(* data_received.  A batch is the list of events the parser made of one    *)
(* segment; its first event starts it.  In mode "error" the parser failed  *)
(* on that segment and the batch is what _completed_request_events keeps.  *)

MayRead == LoopFree /\ ~closed /\ ~closing /\ ~readingPaused

InBatch(mode) ==
    /\ mode = "error" => "malformed" \in Disturbances
    /\ MayRead \/ feeding = mode
    /\ feeding' = mode

\* Mutation: the head timeout is not disarmed.
FirstHeadArmed == UNCHANGED <<gotFirstHead, timerArmed>>

FirstHead == gotFirstHead' = TRUE /\ timerArmed' = FALSE

Spawn(what) ==
    /\ slots' = slots + 1
    /\ task' = [task EXCEPT ![slots + 1] = "new"]
    /\ kind' = [kind EXCEPT ![slots + 1] = what]

\* A request head: _begin_request links the slot into the turnstile and
\* creates its task.
BeginRequest(mode, c) ==
    /\ InBatch(mode)
    /\ ~bodyOpen /\ slots < MaxRequests
    /\ FirstHead
    /\ Spawn("app")
    /\ clientClose' = [clientClose EXCEPT ![slots + 1] = c]
    /\ bodyOpen' = TRUE /\ chunks' = 0
    /\ UNCHANGED <<transport, closed, disconnected, readingPaused, drainWaiter,
                   queue, seen, close, response, myDone, mustCancel, loop,
                   shouldExit>>

\* A body chunk goes to the newest request's queue, even if its task is gone.
PushBodyChunk(mode, message) ==
    /\ InBatch(mode)
    /\ bodyOpen
    /\ message = "more" => chunks < MaxChunks
    /\ queue' = [queue EXCEPT ![slots] = Append(@, message)]
    /\ readingPaused' = (readingPaused \/ Len(queue'[slots]) >= PauseAt)
    /\ bodyOpen' = (message = "more")
    /\ chunks' = IF message = "more" THEN chunks + 1 ELSE chunks
    /\ UNCHANGED <<transport, connection, drainWaiter, slots, requests, task,
                   seen, close, response, myDone, mustCancel, loop, shouldExit>>

EndOfEvents ==
    /\ feeding = "events"
    /\ feeding' = "idle"
    /\ UNCHANGED <<transport, connection, readingPaused, drainWaiter, bodyOpen,
                   chunks, slots, requests, progress, loop, shouldExit>>

\* A head that upgrades to a protocol the server does not speak, or whose
\* websocket handshake is invalid.  The parser emits nothing after it.
RejectUpgrade ==
    /\ "upgrade" \in Disturbances
    /\ MayRead \/ feeding = "events"
    /\ ~bodyOpen
    /\ closed' = TRUE
    /\ FirstHead
    /\ Spawn("failure")
    /\ feeding' = "idle"
    /\ UNCHANGED <<transport, disconnected, readingPaused, drainWaiter, bodyOpen,
                   chunks, clientClose, queue, seen, close, response, myDone,
                   mustCancel, loop, shouldExit>>

\* The parser error itself, after the requests that are kept.  A segment may
\* be malformed from its first byte, in the middle of a body dispatched
\* earlier.
Fail ==
    /\ "malformed" \in Disturbances
    /\ MayRead \/ (feeding = "error" /\ ~bodyOpen)
    /\ closed' = TRUE
    /\ timerArmed' = FALSE
    /\ Spawn("failure")
    /\ feeding' = "idle"
    /\ UNCHANGED <<transport, disconnected, gotFirstHead, readingPaused,
                   drainWaiter, bodyOpen, chunks, clientClose, queue, seen,
                   close, response, myDone, mustCancel, loop, shouldExit>>

-----------------------------------------------------------------------------
(* The other callbacks of the protocol. *)

OnHeadTimeout ==
    /\ LoopFree /\ timerArmed
    /\ timerArmed' = FALSE
    /\ IF gotFirstHead \/ closing
       THEN UNCHANGED <<closed, transport>>
       ELSE /\ closed' = TRUE
            /\ Write([slot |-> 0, part |-> "timeout", close |-> TRUE])
            /\ closing' = TRUE
    /\ UNCHANGED <<disconnected, gotFirstHead, readingPaused, drainWaiter,
                   parsing, requests, progress, loop, shouldExit>>

\* eof_received returns False, so the transport closes itself.
EofReceived ==
    /\ LoopFree /\ ~closing /\ ~readingPaused /\ "eof" \in Disturbances
    /\ closing' = TRUE
    /\ UNCHANGED <<wire, writePaused, connection, readingPaused, drainWaiter,
                   parsing, requests, progress, loop, shouldExit>>

\* Mutation: tasks are cancelled at once, ahead of their wake-ups.
WokenIgnored == {}

\* Tasks with a wake-up in the loop's queue, once the disconnect message has
\* been put: these run before any task.cancel that is scheduled now.
WokenByDisconnect ==
    {r \in Slot : task[r] \in {"new", "recv", "drained"}
                      \/ (task[r] = "turn" /\ Turn(r))}

ConnectionLost ==
    /\ LoopFree /\ ~disconnected
    /\ closing \/ "lost" \in Disturbances
    /\ closing' = TRUE
    /\ closed' = TRUE /\ disconnected' = TRUE /\ timerArmed' = FALSE
    /\ queue' = [r \in Slot |-> IF r \in Inflight /\ kind[r] = "app"
                                THEN Append(queue[r], "disconnect")
                                ELSE queue[r]]
    /\ cancelling' = Inflight
    /\ owed' = WokenByDisconnect
    /\ UNCHANGED <<wire, writePaused, gotFirstHead, readingPaused, drainWaiter,
                   parsing, requests, task, seen, close, response, myDone,
                   mustCancel, shouldExit>>

ResumeWriting ==
    /\ LoopFree /\ writePaused /\ ~disconnected
    /\ writePaused' = FALSE
    /\ task' = [r \in Slot |-> IF r = drainWaiter /\ task[r] = "drain"
                                     /\ ~mustCancel[r]
                               THEN "drained" ELSE task[r]]
    /\ UNCHANGED <<closing, wire, connection, readingPaused, drainWaiter,
                   parsing, requests, queue, seen, close, response, myDone,
                   mustCancel, loop, shouldExit>>

\* Server.shutdown raises the flag and closes idle connections in one stretch.
BeginShutdown ==
    /\ LoopFree /\ ~shouldExit /\ "shutdown" \in Disturbances
    /\ shouldExit' = TRUE
    /\ closing' = (closing \/ IsIdle)
    /\ UNCHANGED <<wire, writePaused, connection, readingPaused, drainWaiter,
                   parsing, requests, progress, loop>>

\* The drain is over or its deadline passed.
ForceClose ==
    /\ LoopFree /\ shouldExit /\ ~closing
    /\ closing' = TRUE
    /\ UNCHANGED <<wire, writePaused, connection, readingPaused, drainWaiter,
                   parsing, requests, progress, loop, shouldExit>>

-----------------------------------------------------------------------------
(* The loop resumes tasks. *)

Resumable(r, status) == LoopFree /\ task[r] = status /\ ~mustCancel[r]

WakeUp(r) == owed' = owed \ {r} /\ UNCHANGED cancelling

\* Mutation: the failure response does not close the transport.
WriteFailureKeepsOpen(r) ==
    /\ Write([slot |-> r, part |-> "error", close |-> TRUE])
    /\ task' = [task EXCEPT ![r] = "returned"]
    /\ UNCHANGED closing

\* _write_failure_response once its turn has come.
WriteFailure(r) ==
    /\ Write([slot |-> r, part |-> "error", close |-> TRUE])
    /\ closing' = TRUE
    /\ task' = [task EXCEPT ![r] = "returned"]

Start(r) ==
    /\ Resumable(r, "new")
    /\ WakeUp(r)
    /\ \/ /\ kind[r] = "app"
          /\ task' = [task EXCEPT ![r] = "run"]
          /\ UNCHANGED transport
       \/ /\ kind[r] = "failure" /\ Turn(r)
          /\ WriteFailure(r)
       \/ /\ kind[r] = "failure" /\ ~Turn(r)
          /\ task' = [task EXCEPT ![r] = "turn"]
          /\ UNCHANGED transport
    /\ UNCHANGED <<connection, readingPaused, drainWaiter, parsing, requests,
                   queue, seen, close, response, myDone, mustCancel, shouldExit>>

WriteHead(r) ==
    /\ Write([slot |-> r, part |-> "head", close |-> close'[r]])
    /\ UNCHANGED closing

TurnGranted(r) ==
    /\ Resumable(r, "turn") /\ Turn(r)
    /\ WakeUp(r)
    /\ close' = close
    /\ \/ /\ kind[r] = "app"
          /\ WriteHead(r)
          /\ task' = [task EXCEPT ![r] = "run"]
       \/ /\ kind[r] = "failure"
          /\ WriteFailure(r)
    /\ UNCHANGED <<connection, readingPaused, drainWaiter, parsing, requests,
                   queue, seen, response, myDone, mustCancel, shouldExit>>

\* Mutation: < instead of <= against the low watermark.
StillPausedAtMark(r) == readingPaused /\ Len(queue'[r]) >= ResumeAt

\* Reading resumes once the reader's queue has fallen to the low watermark.
StillPaused(r) == readingPaused /\ Len(queue'[r]) > ResumeAt

\* The tail of receive(): hand over one message.
TakeMessage(r) ==
    /\ queue' = [queue EXCEPT ![r] = Tail(@)]
    /\ seen' = [seen EXCEPT ![r] = CASE Head(queue[r]) = "more" -> @
                                     [] Head(queue[r]) = "last" -> "end"
                                     [] OTHER -> "disconnect"]
    /\ readingPaused' = StillPaused(r)

MessageArrived(r) ==
    /\ Resumable(r, "recv") /\ queue[r] # <<>>
    /\ WakeUp(r)
    /\ TakeMessage(r)
    /\ task' = [task EXCEPT ![r] = "run"]
    /\ UNCHANGED <<transport, connection, drainWaiter, parsing, requests, close,
                   response, myDone, mustCancel, shouldExit>>

\* Mutation: only the end of the task releases the turnstile.
FinishHoldsTurn(r) ==
    /\ closing' = (closing \/ close[r])
    /\ UNCHANGED myDone

\* The end of the last send(): release the turnstile, close if announced.
Finish(r) ==
    /\ myDone' = [myDone EXCEPT ![r] = TRUE]
    /\ closing' = (closing \/ close[r])

FinishIfLast(r, last) ==
    IF last THEN Finish(r) ELSE UNCHANGED <<myDone, closing>>

\* Mutation: a last body that had to wait for the drain does not close.
DrainedKeepsOpen(r) ==
    /\ Resumable(r, "drained")
    /\ WakeUp(r)
    /\ drainWaiter' = 0
    /\ task' = [task EXCEPT ![r] = "run"]
    /\ myDone' = [myDone EXCEPT ![r] = @ \/ response[r] = "final"]
    /\ UNCHANGED <<transport, connection, readingPaused, parsing, requests,
                   queue, seen, close, response, mustCancel, shouldExit>>

Drained(r) ==
    /\ Resumable(r, "drained")
    /\ WakeUp(r)
    /\ drainWaiter' = 0
    /\ task' = [task EXCEPT ![r] = "run"]
    /\ FinishIfLast(r, response[r] = "final")
    /\ UNCHANGED <<wire, writePaused, connection, readingPaused, parsing,
                   requests, queue, seen, close, response, mustCancel, shouldExit>>

\* Mutation: only tasks blocked in receive() or for their turn are cancelled.
CancelWaitersOnly(r) ==
    /\ LoopFree /\ r \in cancelling /\ owed = {}
    /\ cancelling' = cancelling \ {r}
    /\ mustCancel' = [mustCancel EXCEPT ![r] = task[r] \in {"recv", "turn"}]
    /\ UNCHANGED <<transport, connection, readingPaused, drainWaiter, parsing,
                   requests, task, queue, seen, close, response, myDone, owed,
                   shouldExit>>

\* A task.cancel scheduled by connection_lost.  The loop's queue is FIFO: the
\* wake-ups scheduled before it have run.
CancelTask(r) ==
    /\ LoopFree /\ r \in cancelling /\ owed = {}
    /\ cancelling' = cancelling \ {r}
    /\ mustCancel' = [mustCancel EXCEPT ![r] = task[r] \notin Ended \cup {"gone"}]
    /\ UNCHANGED <<transport, connection, readingPaused, drainWaiter, parsing,
                   requests, task, queue, seen, close, response, myDone, owed,
                   shouldExit>>

\* The CancelledError is thrown at the task's await.  A message that was
\* delivered but not yet taken stays in the queue.
Interrupted(r) ==
    /\ LoopFree /\ mustCancel[r]
    /\ mustCancel' = [mustCancel EXCEPT ![r] = FALSE]
    /\ \/ task' = [task EXCEPT ![r] = "cancelled"]
       \/ /\ "swallows_cancel" \in Habits /\ kind[r] = "app" /\ task[r] # "new"
          /\ task' = [task EXCEPT ![r] = "run"]
    /\ drainWaiter' = IF task[r] \in {"drain", "drained"} THEN 0 ELSE drainWaiter
    /\ UNCHANGED <<transport, connection, readingPaused, parsing, requests,
                   queue, seen, close, response, myDone, loop, shouldExit>>

\* _on_task_done; a failure task only has the discard as its callback.
OnTaskDone(r) ==
    /\ LoopFree /\ task[r] \in Ended
    /\ task' = [task EXCEPT ![r] = "gone"]
    /\ myDone' = [myDone EXCEPT ![r] = @ \/ kind[r] = "app"]
    /\ closing' = (closing \/ task[r] = "raised")
    /\ UNCHANGED <<wire, writePaused, connection, readingPaused, drainWaiter,
                   parsing, requests, queue, seen, close, response, mustCancel,
                   loop, shouldExit>>

-----------------------------------------------------------------------------
(* The application, through receive() and send().  It follows ASGI: one    *)
(* response start, then bodies up to the last one.                         *)

Running(r) == Resumable(r, "run")

Receive(r) ==
    /\ Running(r)
    /\ \/ seen[r] = "none"
       \/ seen[r] = "end" /\ response[r] = "final" /\ "listens" \in Habits
    /\ IF queue[r] # <<>>
       THEN TakeMessage(r) /\ UNCHANGED task
       ELSE IF disconnected
       THEN /\ seen' = [seen EXCEPT ![r] = "disconnect"]
            /\ UNCHANGED <<queue, readingPaused, task>>
       ELSE /\ task' = [task EXCEPT ![r] = "recv"]
            /\ UNCHANGED <<queue, readingPaused, seen>>
    /\ UNCHANGED <<transport, connection, drainWaiter, parsing, requests, close,
                   response, myDone, mustCancel, loop, shouldExit>>

\* The decision to close is taken before the turn is awaited.
SendStart(r, declaresLength) ==
    /\ Running(r) /\ response[r] = "none"
    /\ response' = [response EXCEPT ![r] = "started"]
    /\ close' = [close EXCEPT ![r] = clientClose[r] \/ ~declaresLength
                                         \/ shouldExit]
    /\ IF Turn(r)
       THEN WriteHead(r) /\ UNCHANGED task
       ELSE task' = [task EXCEPT ![r] = "turn"] /\ UNCHANGED transport
    /\ UNCHANGED <<connection, readingPaused, drainWaiter, parsing, requests,
                   queue, seen, myDone, mustCancel, loop, shouldExit>>

BodiesOnWire(r) == {i \in DOMAIN wire : wire[i].slot = r /\ wire[i].part = "body"}

\* _drain when the transport has paused writing.
AwaitDrain(r, last) ==
    /\ task' = [task EXCEPT ![r] = "drain"]
    /\ drainWaiter' = r
    /\ UNCHANGED <<myDone, closing>>

\* http.response.body; `full` says whether it carries bytes.  A written body
\* waits in _drain if the transport is over its high-water mark.
SendBody(r, last, full) ==
    /\ Running(r) /\ response[r] = "started"
    /\ last => (seen[r] # "none" \/ "ignores_body" \in Habits)
    /\ ~last => full /\ Cardinality(BodiesOnWire(r)) < MaxWrites
    /\ response' = IF last THEN [response EXCEPT ![r] = "final"] ELSE response
    /\ IF full /\ ~closing
       THEN /\ Write([slot |-> r, part |-> "body", close |-> FALSE])
            /\ IF writePaused'
               THEN AwaitDrain(r, last)
               ELSE /\ FinishIfLast(r, last)
                    /\ UNCHANGED <<task, drainWaiter>>
       ELSE /\ FinishIfLast(r, last)
            /\ UNCHANGED <<wire, writePaused, task, drainWaiter>>
    /\ UNCHANGED <<connection, readingPaused, parsing, requests, queue, seen,
                   close, mustCancel, loop, shouldExit>>

\* The application's coroutine ends: normally, or with an exception.
AppEnd(r, how) ==
    /\ Running(r)
    /\ \/ how = "returned" /\ (response[r] = "final" \/ "abandons" \in Habits)
       \/ how = "raised" /\ "raises" \in Habits
    /\ task' = [task EXCEPT ![r] = how]
    /\ UNCHANGED <<transport, connection, readingPaused, drainWaiter, parsing,
                   requests, queue, seen, close, response, myDone, mustCancel,
                   loop, shouldExit>>

-----------------------------------------------------------------------------
DataReceived ==
    \/ \E mode \in {"events", "error"} :
         \/ \E c \in BOOLEAN : BeginRequest(mode, c)
         \/ \E message \in {"more", "last"} : PushBodyChunk(mode, message)
    \/ EndOfEvents
    \/ RejectUpgrade
    \/ Fail

LoopStep(r) ==
    \/ Start(r) \/ TurnGranted(r) \/ MessageArrived(r) \/ Drained(r)
    \/ CancelTask(r) \/ Interrupted(r) \/ OnTaskDone(r)

AppStep(r) ==
    \/ Receive(r)
    \/ \E declaresLength \in BOOLEAN : SendStart(r, declaresLength)
    \/ \E last, full \in BOOLEAN : SendBody(r, last, full)
    \/ \E how \in {"returned", "raised"} : AppEnd(r, how)

Next ==
    \/ DataReceived
    \/ OnHeadTimeout
    \/ EofReceived
    \/ ConnectionLost
    \/ ResumeWriting
    \/ BeginShutdown
    \/ ForceClose
    \/ \E r \in Slot : LoopStep(r) \/ AppStep(r)

Spec == Init /\ [][Next]_vars

\* The loop runs every callback and task that is ready, and data_received
\* gets through its batch.
LoopFairness ==
    /\ WF_vars(feeding # "idle" /\ DataReceived)
    /\ \A r \in Slot : WF_vars(LoopStep(r))

\* Applications do not stop between two awaits of the protocol's, and the
\* client ends the bodies it began, reads what it is sent, and lets a closed
\* connection go.
EnvironmentFairness ==
    /\ \A r \in Slot : WF_vars(AppStep(r))
    /\ WF_vars(\E message \in {"more", "last"} : PushBodyChunk("events", message))
    /\ WF_vars(ResumeWriting)
    /\ WF_vars(closing /\ ConnectionLost)

FairSpec == Spec /\ LoopFairness /\ EnvironmentFairness

-----------------------------------------------------------------------------
(* The response stream a client is promised, in terms of this model.        *)

\* The slot of the newest entry on the wire.
Newest == IF wire = <<>> THEN 0 ELSE wire[Len(wire)].slot

Stream == INSTANCE ResponseStream WITH
    stream <- wire,
    complete <- (Newest = 0 \/ response[Newest] = "final"),
    open <- ~closing

-----------------------------------------------------------------------------
(* Properties. *)

TransportType ==
    /\ closing \in BOOLEAN /\ wire \in Seq(Entry) /\ writePaused \in BOOLEAN

ConnectionType ==
    /\ closed \in BOOLEAN /\ disconnected \in BOOLEAN
    /\ gotFirstHead \in BOOLEAN /\ timerArmed \in BOOLEAN
    /\ readingPaused \in BOOLEAN /\ drainWaiter \in Slot \cup {0}

ParsingType ==
    /\ feeding \in {"idle", "events", "error"} /\ bodyOpen \in BOOLEAN
    /\ chunks \in 0..MaxChunks /\ slots \in Slot \cup {0}

SlotType ==
    /\ kind \in [Slot -> {"app", "failure"}]
    /\ task \in [Slot -> Status]
    /\ queue \in [Slot -> Seq(Message)]
    /\ seen \in [Slot -> {"none", "end", "disconnect"}]
    /\ response \in [Slot -> {"none", "started", "final"}]

FlagType ==
    /\ clientClose \in [Slot -> BOOLEAN] /\ close \in [Slot -> BOOLEAN]
    /\ myDone \in [Slot -> BOOLEAN] /\ mustCancel \in [Slot -> BOOLEAN]
    /\ cancelling \subseteq Slot /\ owed \subseteq Slot
    /\ shouldExit \in BOOLEAN

\* Every variable has its type.
TypeOK ==
    TransportType /\ ConnectionType /\ ParsingType /\ SlotType /\ FlagType

\* Responses to pipelined requests go out in the order of the requests, and
\* what is written of a response after its head is written behind that head:
\* the write turnstile of _begin_request, _make_send and the failure path.
ResponsesInOrder ==
    \A i \in DOMAIN wire :
        /\ \A j \in 1..i : wire[j].slot <= wire[i].slot
        /\ wire[i].part = "body" =>
               \E j \in 1..(i - 1) : wire[j].slot = wire[i].slot
                                         /\ wire[j].part = "head"

\* Nothing of a response is written before every earlier request has its
\* head on the wire and its last body message sent: no response is skipped,
\* cut short or overtaken, and a parser error answers after the good
\* requests ahead of it.
PredecessorsComplete ==
    \A i \in DOMAIN wire : \A q \in 1..(wire[i].slot - 1) :
        /\ response[q] = "final"
        /\ \E j \in 1..(i - 1) : wire[j].slot = q /\ wire[j].part = "head"

\* The connection implements the response stream: whatever the tasks,
\* callbacks and client do, a response, a body or a refusal is only written
\* when the client is due it, and nothing follows the end of the stream.
KeepsPromises == Stream!Spec

\* Once a response has announced Connection: close (every 4xx of the parser,
\* the 408 and the 501 do) only its own body follows on the wire.
CloseIsFinal ==
    \A i \in DOMAIN wire : wire[i].close =>
        \A j \in (i + 1)..Len(wire) :
            wire[j].slot = wire[i].slot /\ wire[j].part = "body"

\* A response that announced the close and released the turnstile has closed
\* the transport, whichever of send() and _on_task_done released it.
CloseHonoured ==
    \A r \in Slot : myDone[r] /\ close[r] => closing

\* The slow-loris 408 is only ever sent to a client that has sent no request
\* and got no other answer, and it is the last thing sent.
LoneTimeout ==
    \A i \in DOMAIN wire : wire[i].part = "timeout" => slots = 0 /\ Len(wire) = 1

\* connection_lost defers its cancellations so that a task blocked in
\* receive() gets the disconnect (or an earlier message) first: no cancel
\* overtakes a message already delivered to the task's receive().
DisconnectObserved ==
    \A r \in Slot : ~(mustCancel[r] /\ task[r] = "recv" /\ queue[r] # <<>>)

\* A parser error met in the middle of a body leaves that request's
\* application without a way to see its end; so are the slots behind it.
Dangling(r) == closed /\ bodyOpen /\ r >= slots - 1

\* Every request dispatched is answered in full, or the connection closes:
\* no link of the turnstile, no drain and no receive() blocks for ever.
RequestsAnswered ==
    \A r \in Slot :
        r <= slots ~> (kind[r] = "app" /\ myDone[r]) \/ closing \/ Dangling(r)

\* A parser error is answered and the connection closes: _fail.
ParseErrorCloses == closed ~> closing

\* Once every request is answered and its task has ended, the connection can
\* read the next one: keep-alive.
KeepAliveReusable == IsIdle ~> ~readingPaused \/ closing

\* No task outlives its connection.
TasksReaped == disconnected ~> IsIdle

\* Backpressure is temporary: reading resumes, or the connection closes.
ReadingResumes == readingPaused ~> ~readingPaused \/ closing

=============================================================================
