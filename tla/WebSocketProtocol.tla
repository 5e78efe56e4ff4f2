-------------------------- MODULE WebSocketProtocol --------------------------
(***************************************************************************)
(* One TCP connection of the sonix server from its websocket upgrade on:   *)
(* the websocket half of the class HTTPProtocol of                         *)
(* src/src/sonix/server/protocol.py.  The module HTTPProtocol models the   *)
(* connection up to here.                                                  *)
(*                                                                         *)
(* The upgrade is terminal for the HTTP parser, so the websocket task is   *)
(* the last link of the write turnstile.  What may still be in flight is   *)
(* the request pipelined AHEAD of it, with its own receive queue, which    *)
(* shares the transport and its read state with the session.  An action is *)
(* what the event loop runs between two suspension points.                 *)
(*                                                                         *)
(* An operator introduced as a "Mutation" is a plausible bug in the        *)
(* definition that follows it, and not part of the model.                  *)
(***************************************************************************)
EXTENDS Integers, Sequences

CONSTANTS
    MaxInbound,    \* bound: messages and pings the peer gets through
    MaxWrites,     \* bound: messages the application sends
    MaxPings,      \* bound: pings of the server
    AheadBacklog,  \* bound: unread messages of the request ahead
    PauseAt,       \* ws_pause_watermark
    ResumeAt,      \* ws_resume_watermark, and body_resume_watermark
    Habits,        \* what the ASGI application of this instance may do
    Disturbances   \* what its client, network and server may do

ASSUME BoundsAssumption ==
    /\ MaxInbound \in Nat /\ MaxWrites \in Nat
    /\ MaxPings \in Nat /\ AheadBacklog \in Nat

ASSUME WatermarkAssumption ==
    /\ PauseAt \in Nat /\ ResumeAt \in Nat
    /\ ResumeAt < PauseAt

\* raises: lets an exception escape; returns_early: returns without having
\* answered the handshake; swallows_cancel: survives a CancelledError.
ASSUME HabitsAssumption ==
    Habits \subseteq {"raises", "returns_early", "swallows_cancel"}

\* ahead: a request is in flight ahead of the handshake; prologue: frames come
\* in the segment of the handshake; violation: a segment breaks the framing
\* rules; slow_client: a write crosses the high-water mark; eof and lost: the
\* client half-closes, the connection breaks; keepalive: ws_ping_interval is
\* set; shutdown: the server shuts down; late_upgrade: it did so already.
ASSUME DisturbancesAssumption ==
    Disturbances \subseteq {"ahead", "prologue", "violation", "slow_client",
                            "eof", "lost", "keepalive", "shutdown",
                            "late_upgrade"}

VARIABLES
    \* transport and peer
    closing,       \* transport.is_closing()
    wire,          \* what was written, in order
    writePaused,   \* _paused_writing
    unread,        \* the peer sent bytes the transport has not read
    answered,      \* the peer has sent the pong of the newest ping
    \* connection
    disconnected,  \* _disconnected and _closed: connection_lost was called
    readingPaused, \* _reading_paused
    feeding,       \* the batch of frame events being handled
    inbound,       \* messages and pings so far
    \* the request ahead
    ahead,         \* its progress: my_turn is set unless it is "busy"
    backlog,       \* length of its receive queue
    \* the session
    wsState,       \* _ws_state
    prologue,      \* _ws_prologue holds bytes
    closeSent,     \* _ws_close_sent
    told,          \* the code of _ws_disconnect_message
    pingArmed,     \* _ws_ping_handle is not None
    pendingPing,   \* _ws_pending_ping is not None
    queue,         \* _ws_queue
    task,          \* where the application's task is
    seen,          \* what the application last read
    mustCancel,    \* a CancelledError awaits the task's next step
    \* event loop and server
    cancelling,    \* task.cancel is scheduled
    owed,          \* the task's wake-up was scheduled before that
    shouldExit     \* ServerState.should_exit

transport == <<closing, wire, writePaused>>
reading   == <<readingPaused, feeding, inbound, unread>>
request   == <<ahead, backlog>>
handshake == <<wsState, prologue>>
farewell  == <<closeSent, told>>
keepalive == <<pingArmed, pendingPing, answered>>
app       == <<task, seen, mustCancel>>
loop      == <<cancelling, owed>>
vars == <<transport, reading, request, handshake, farewell, keepalive, queue,
          app, loop, disconnected, shouldExit>>

-----------------------------------------------------------------------------
Message == {"connect", "receive", "disconnect"}

\* 1000, the application's, the peer's and 1005 if it gave none, a codec
\* error's, 1011, 1001 and 1006.
Code == {"normal", "app", "peer", "no status", "violation", "ping timeout",
         "going away", "abnormal"}

\* The frame that closes a session for this reason: 1005 stands for a frame
\* without a code, and is never written.
CloseFrame(code) == IF code = "no status" THEN "empty" ELSE code

\* 1006 stands for no frame at all.
CloseFrames == {CloseFrame(code) : code \in Code \ {"abnormal"}}

Frame == {"data", "ping", "pong"} \cup CloseFrames
Entry == {"response", "101", "403"} \cup Frame

Ended  == {"returned", "raised", "cancelled"}
Status == {"none", "new", "run", "recv", "accept", "deny", "drain", "drained",
           "gone"} \cup Ended

Inflight == task \notin {"none", "gone"}

IsIdle == ~Inflight /\ ahead = "gone"

\* Mutation: nobody waits for the turnstile.
TurnIgnored == ahead \in {"busy", "answered", "gone"}

\* Mutation: only the end of the task ahead releases the turnstile.
TurnAfterTask == ahead = "gone"

\* my_turn: the request ahead has released it.
Turn == ahead # "busy"

\* No callback runs while a batch of frame events is handled.
LoopFree == feeding = "idle"

OnWire(entry) == \E i \in DOMAIN wire : wire[i] = entry

Count(entry) == Len(SelectSeq(wire, LAMBDA e : e = entry))

\* transport.write, guarded by is_closing() everywhere in the source.
Write(entry) ==
    IF closing THEN UNCHANGED <<wire, writePaused>>
    ELSE /\ wire' = Append(wire, entry)
         /\ \/ writePaused' = writePaused
            \/ "slow_client" \in Disturbances /\ writePaused' = TRUE

\* The segment that ends with the upgrade head is being handled; the request
\* ahead, if any, was spawned by this connection before.  A request whose body
\* filled its queue up has paused the reading.
Init ==
    /\ closing = FALSE /\ wire = <<>> /\ writePaused = FALSE
    /\ unread = FALSE /\ inbound = 0 /\ feeding = "head"
    /\ \/ ahead = "gone" /\ backlog = 0
       \/ ahead = "busy" /\ "ahead" \in Disturbances /\ backlog \in 0..AheadBacklog
    /\ readingPaused = (backlog >= PauseAt)
    /\ shouldExit \in BOOLEAN
    /\ shouldExit => "late_upgrade" \in Disturbances /\ ahead = "busy"
    /\ disconnected = FALSE
    /\ wsState = "http" /\ prologue = FALSE
    /\ closeSent = FALSE /\ told = "none"
    /\ pingArmed = FALSE /\ pendingPing = FALSE /\ answered = FALSE
    /\ queue = <<>> /\ task = "none" /\ seen = "none" /\ mustCancel = FALSE
    /\ cancelling = FALSE /\ owed = FALSE

-----------------------------------------------------------------------------
(* The end of a session. *)

\* Mutation: the reason is kept, and not put into the queue.
TellSilently(code) ==
    /\ told' = IF told = "none" THEN code ELSE told
    /\ UNCHANGED queue

\* _enqueue_ws_disconnect: only the first code counts.
Tell(code) ==
    IF told # "none" THEN UNCHANGED <<told, queue>>
    ELSE told' = code /\ queue' = Append(queue, "disconnect")

\* Mutation: the application is told the default code of the ASGI message.
FinishTellsDefault(code) ==
    /\ code \in Code
    /\ wsState' = "closed"
    /\ pingArmed' = FALSE
    /\ Tell("no status")
    /\ closing' = TRUE

\* Mutation: the application is told, and the rest is left to the peer.
FinishLater(code) ==
    /\ pingArmed' = FALSE
    /\ Tell(code)
    /\ UNCHANGED <<wsState, closing>>

\* _finish_websocket: disarm, tell the application, close the transport.
Finish(code) ==
    /\ wsState' = "closed"
    /\ pingArmed' = FALSE
    /\ Tell(code)
    /\ closing' = TRUE

\* A close frame goes out at most once.
SendClose(code) ==
    IF closeSent THEN UNCHANGED <<closeSent, wire, writePaused>>
    ELSE closeSent' = TRUE /\ Write(CloseFrame(code))

\* _ws_abort, _ws_peer_closed and _ws_close differ in the code only.
Abort(code) == SendClose(code) /\ Finish(code)

-----------------------------------------------------------------------------
(* data_received. *)

\* An upgrade head whose handshake is valid; p says whether the parser's
\* buffer holds bytes behind it.
BeginWebsocket(p) ==
    /\ feeding = "head" /\ feeding' = "idle"
    /\ p => "prologue" \in Disturbances
    /\ prologue' = p
    /\ wsState' = "connecting"
    /\ queue' = <<"connect">>
    /\ readingPaused' = TRUE
    /\ task' = "new"
    /\ UNCHANGED <<transport, inbound, unread, request, farewell, keepalive,
                   seen, mustCancel, loop, disconnected, shouldExit>>

\* The peer sends frames, the pong of an outstanding ping among them or not.
PeerSends(pong) ==
    /\ LoopFree /\ ~closing
    /\ IF pong THEN pendingPing /\ ~answered ELSE ~unread
    /\ unread' = TRUE
    /\ answered' = (answered \/ pong)
    /\ UNCHANGED <<transport, readingPaused, feeding, inbound, request,
                   handshake, farewell, pingArmed, pendingPing, queue, app,
                   loop, disconnected, shouldExit>>

MayRead ==
    LoopFree /\ ~disconnected /\ ~closing /\ ~readingPaused /\ unread

\* _arm_ws_ping: only a connected session is probed.
Arm == pingArmed' = ("keepalive" \in Disturbances /\ wsState' = "connected")

\* Mutation: the countdown starts afresh, the outstanding ping stands.
AliveOnly == UNCHANGED pendingPing /\ Arm

\* The head of _ws_data_received: any byte proves the peer alive.
Alive == pendingPing' = FALSE /\ Arm

BatchMode == {"frames", "violation"}

\* In mode "violation" the codec fails at the end of the batch.
StartBatch(mode) ==
    /\ MayRead
    /\ mode = "violation" => "violation" \in Disturbances
    /\ unread' = FALSE
    /\ UNCHANGED handshake
    /\ IF wsState = "closed"
       THEN UNCHANGED <<feeding, pingArmed, pendingPing>>
       ELSE feeding' = mode /\ Alive
    /\ UNCHANGED <<transport, answered, readingPaused, inbound, request, farewell, queue,
                   app, loop, disconnected, shouldExit>>

\* _push_to_queue pauses the reading at the high watermark.
PauseTaken == readingPaused \/ Len(queue') >= PauseAt

ReceiveMessage ==
    /\ feeding \in BatchMode /\ inbound < MaxInbound
    /\ inbound' = inbound + 1
    /\ queue' = Append(queue, "receive")
    /\ readingPaused' = PauseTaken
    /\ UNCHANGED <<transport, feeding, unread, request, handshake, farewell,
                   keepalive, app, loop, disconnected, shouldExit>>

\* A ping is answered at once.  A pong changes nothing: Alive was first.
ReceivePing ==
    /\ feeding \in BatchMode /\ inbound < MaxInbound
    /\ inbound' = inbound + 1
    /\ Write("pong")
    /\ UNCHANGED <<closing, readingPaused, feeding, unread, request, handshake,
                   farewell, keepalive, queue, app, loop, disconnected,
                   shouldExit>>

\* Mutation: the frames behind a close frame are handled.
ReceiveCloseGoesOn ==
    /\ feeding = "frames"
    /\ \E code \in {"peer", "no status"} : Abort(code)
    /\ UNCHANGED <<readingPaused, feeding, inbound, unread, request, prologue,
                   pendingPing, answered, app, loop, disconnected, shouldExit>>

\* _ws_peer_closed.  The codec discards what follows a close frame.
ReceiveClose ==
    /\ feeding = "frames" /\ feeding' = "idle"
    /\ \E code \in {"peer", "no status"} : Abort(code)
    /\ UNCHANGED <<readingPaused, inbound, unread, request, prologue,
                   pendingPing, answered, app, loop, disconnected, shouldExit>>

EndOfBatch ==
    /\ feeding = "frames" /\ feeding' = "idle"
    /\ UNCHANGED <<transport, readingPaused, inbound, unread, request,
                   handshake, farewell, keepalive, queue, app, loop,
                   disconnected, shouldExit>>

\* A WebSocketProtocolError, once its partial events are handled.
ViolationFound ==
    /\ feeding = "violation" /\ feeding' = "idle"
    /\ Abort("violation")
    /\ UNCHANGED <<readingPaused, inbound, unread, request, prologue,
                   pendingPing, answered, app, loop, disconnected, shouldExit>>

-----------------------------------------------------------------------------
(* The other callbacks. *)

\* Mutation: no timeout is armed for the ping.
OnPingDueOnce ==
    /\ LoopFree /\ pingArmed
    /\ Count("ping") < MaxPings
    /\ pendingPing' = TRUE /\ answered' = FALSE
    /\ pingArmed' = FALSE
    /\ Write("ping")
    /\ UNCHANGED <<closing, reading, request, handshake, farewell, queue, app,
                   loop, disconnected, shouldExit>>

\* The due time is long after the loop has read what it may read.
OnPingDue ==
    /\ LoopFree /\ pingArmed
    /\ ~unread \/ readingPaused \/ closing
    /\ IF pendingPing
       THEN Abort("ping timeout") /\ UNCHANGED <<pendingPing, answered>>
       ELSE /\ Count("ping") < MaxPings
            /\ pendingPing' = TRUE /\ answered' = FALSE
            /\ Write("ping")
            /\ UNCHANGED <<closing, wsState, farewell, pingArmed, queue>>
    /\ UNCHANGED <<reading, request, prologue, app, loop, disconnected,
                   shouldExit>>

\* eof_received returns False, so the transport closes itself.  The bytes
\* before the end were read first.
EofReceived ==
    /\ LoopFree /\ ~closing /\ ~readingPaused /\ ~unread /\ "eof" \in Disturbances
    /\ closing' = TRUE
    /\ UNCHANGED <<wire, writePaused, reading, request, handshake, farewell,
                   keepalive, queue, app, loop, disconnected, shouldExit>>

\* The task has a wake-up in the loop's queue, the disconnect being put.
Woken == \/ task \in {"new", "recv", "drained"}
         \/ task \in {"accept", "deny"} /\ Turn

ConnectionLost ==
    /\ LoopFree /\ ~disconnected
    /\ closing \/ "lost" \in Disturbances
    /\ closing' = TRUE /\ disconnected' = TRUE
    /\ pingArmed' = FALSE
    /\ Tell("abnormal")
    /\ cancelling' = Inflight
    /\ owed' = Woken
    /\ UNCHANGED <<wire, writePaused, reading, request, handshake, closeSent,
                   pendingPing, answered, app, shouldExit>>

ResumeWriting ==
    /\ LoopFree /\ writePaused /\ ~disconnected
    /\ writePaused' = FALSE
    /\ task' = IF task = "drain" /\ ~mustCancel THEN "drained" ELSE task
    /\ UNCHANGED <<closing, wire, reading, request, handshake, farewell,
                   keepalive, queue, seen, mustCancel, loop, disconnected,
                   shouldExit>>

\* Mutation: no close frame is sent.
ShutdownSilently ==
    IF wsState = "closed"
    THEN /\ closing' = (closing \/ IsIdle)
         /\ UNCHANGED <<wire, writePaused, wsState, farewell, pingArmed, queue>>
    ELSE Finish("going away") /\ UNCHANGED <<closeSent, wire, writePaused>>

\* shutdown_websocket, then Server.shutdown closes what is idle.
ShutdownConnection ==
    CASE wsState = "closed" ->
             /\ closing' = (closing \/ IsIdle)
             /\ UNCHANGED <<wire, writePaused, wsState, farewell, pingArmed, queue>>
      [] wsState = "connected" -> Abort("going away")
      [] OTHER -> Finish("going away") /\ UNCHANGED <<closeSent, wire, writePaused>>

BeginShutdown ==
    /\ LoopFree /\ ~shouldExit /\ "shutdown" \in Disturbances
    /\ shouldExit' = TRUE
    /\ ShutdownConnection
    /\ UNCHANGED <<reading, request, prologue, pendingPing, answered, app, loop,
                   disconnected>>

\* The drain is over or its deadline passed.
ForceClose ==
    /\ LoopFree /\ shouldExit /\ ~closing
    /\ closing' = TRUE
    /\ UNCHANGED <<wire, writePaused, reading, request, handshake, farewell,
                   keepalive, queue, app, loop, disconnected, shouldExit>>

-----------------------------------------------------------------------------
(* The request ahead, in what the session can notice of it. *)

\* receive() of the HTTP half: it resumes the reading, whoever paused it.
AheadReceives ==
    /\ LoopFree /\ ahead # "gone" /\ backlog > 0
    /\ backlog' = backlog - 1
    /\ readingPaused' = (readingPaused /\ backlog' > ResumeAt)
    /\ UNCHANGED <<transport, feeding, inbound, unread, ahead, handshake,
                   farewell, keepalive, queue, app, loop, disconnected,
                   shouldExit>>

\* Its response is written and the turnstile released; `last` says whether
\* the response announced Connection: close.
AheadAnswers(last) ==
    /\ LoopFree /\ ahead = "busy"
    /\ ahead' = "answered"
    /\ Write("response")
    /\ closing' = (closing \/ last)
    /\ UNCHANGED <<reading, backlog, handshake, farewell, keepalive, queue, app,
                   loop, disconnected, shouldExit>>

\* _on_task_done of its task: the turnstile is released in any case.
AheadDone(raised) ==
    /\ LoopFree /\ ahead # "gone"
    /\ ahead = "busy" => raised \/ disconnected
    /\ raised => "raises" \in Habits
    /\ ahead' = "gone"
    /\ closing' = (closing \/ raised)
    /\ UNCHANGED <<wire, writePaused, reading, backlog, handshake, farewell,
                   keepalive, queue, app, loop, disconnected, shouldExit>>

-----------------------------------------------------------------------------
(* The websocket task, between two suspension points. *)

Resumable(status) == LoopFree /\ task = status /\ ~mustCancel

WakeUp == owed' = FALSE /\ UNCHANGED cancelling

Start ==
    /\ Resumable("new")
    /\ WakeUp
    /\ task' = "run"
    /\ UNCHANGED <<transport, reading, request, handshake, farewell, keepalive,
                   queue, seen, mustCancel, disconnected, shouldExit>>

\* _ws_accept once its turn has come; the prologue is a batch of its own.
Accepted ==
    /\ wsState' = "connected"
    /\ Write("101")
    /\ readingPaused' = FALSE
    /\ Arm
    /\ prologue' = FALSE
    /\ IF prologue
       THEN /\ \/ feeding' = "frames"
               \/ "violation" \in Disturbances /\ feeding' = "violation"
            /\ pendingPing' = FALSE
       ELSE UNCHANGED <<feeding, pendingPing>>

\* _ws_deny once its turn has come.
Denied == Write("403") /\ closing' = TRUE

TurnGranted ==
    /\ Turn /\ WakeUp
    /\ task' = "run"
    /\ \/ /\ Resumable("accept")
          /\ Accepted
          /\ UNCHANGED closing
       \/ /\ Resumable("deny")
          /\ Denied
          /\ UNCHANGED <<handshake, readingPaused, feeding, pingArmed,
                         pendingPing>>
    /\ UNCHANGED <<inbound, unread, answered, request, farewell, queue, seen,
                   mustCancel, disconnected, shouldExit>>

\* Mutation: the state of the session is not looked at.
StillPausedAnyState == readingPaused /\ ~(Len(queue') <= ResumeAt)

\* receive() resumes the reading of a connected session at the low watermark.
StillPaused ==
    readingPaused /\ ~(wsState = "connected" /\ Len(queue') <= ResumeAt)

TakeMessage ==
    /\ seen' = Head(queue)
    /\ queue' = Tail(queue)
    /\ readingPaused' = StillPaused

MessageArrived ==
    /\ Resumable("recv") /\ queue # <<>>
    /\ WakeUp
    /\ TakeMessage
    /\ task' = "run"
    /\ UNCHANGED <<transport, feeding, inbound, unread, request, handshake,
                   farewell, keepalive, mustCancel, disconnected, shouldExit>>

Drained ==
    /\ Resumable("drained")
    /\ WakeUp
    /\ task' = "run"
    /\ UNCHANGED <<transport, reading, request, handshake, farewell, keepalive,
                   queue, seen, mustCancel, disconnected, shouldExit>>

\* The task.cancel scheduled by connection_lost, after the task's wake-up.
CancelTask ==
    /\ LoopFree /\ cancelling /\ ~owed
    /\ cancelling' = FALSE
    /\ mustCancel' = (task \notin Ended \cup {"gone"})
    /\ UNCHANGED <<transport, reading, request, handshake, farewell, keepalive,
                   queue, task, seen, owed, disconnected, shouldExit>>

\* The CancelledError is thrown at the task's await.
Interrupted ==
    /\ LoopFree /\ mustCancel
    /\ mustCancel' = FALSE
    /\ \/ task' = "cancelled"
       \/ "swallows_cancel" \in Habits /\ task # "new" /\ task' = "run"
    /\ UNCHANGED <<transport, reading, request, handshake, farewell, keepalive,
                   queue, seen, loop, disconnected, shouldExit>>

\* Mutation: a handler that returns does not end its session.
OnTaskDoneLeavesOpen ==
    /\ LoopFree /\ task \in Ended
    /\ task' = "gone"
    /\ closing' = (closing \/ task = "raised")
    /\ UNCHANGED <<wire, writePaused, reading, request, handshake, farewell,
                   keepalive, queue, seen, mustCancel, loop, disconnected,
                   shouldExit>>

\* _on_ws_task_done.
OnTaskDone ==
    /\ LoopFree /\ task \in Ended
    /\ task' = "gone"
    /\ IF wsState = "connected"
       THEN Abort("normal")
       ELSE /\ closing' = (closing \/ task = "raised")
            /\ UNCHANGED <<wire, writePaused, wsState, farewell, pingArmed, queue>>
    /\ UNCHANGED <<reading, request, prologue, pendingPing, answered, seen, mustCancel,
                   loop, disconnected, shouldExit>>

-----------------------------------------------------------------------------
(* The application, through receive() and send().                           *)

Running == Resumable("run")

\* An application does not receive after a disconnect.
Receive ==
    /\ Running /\ seen # "disconnect"
    /\ IF queue # <<>>
       THEN TakeMessage /\ UNCHANGED task
       ELSE IF told # "none" \/ disconnected
       THEN seen' = "disconnect" /\ UNCHANGED <<queue, readingPaused, task>>
       ELSE task' = "recv" /\ UNCHANGED <<queue, readingPaused, seen>>
    /\ UNCHANGED <<transport, feeding, inbound, unread, request, handshake,
                   farewell, keepalive, mustCancel, loop, disconnected,
                   shouldExit>>

SendAccept ==
    /\ Running /\ wsState = "connecting" /\ seen # "none"
    /\ IF Turn
       THEN Accepted /\ UNCHANGED task
       ELSE /\ task' = "accept"
            /\ UNCHANGED <<wire, writePaused, handshake, readingPaused, feeding,
                           pingArmed, pendingPing>>
    /\ UNCHANGED <<closing, inbound, unread, answered, request, farewell, queue, seen,
                   mustCancel, loop, disconnected, shouldExit>>

\* A close before the accept: the state changes before the turn is awaited.
SendDeny ==
    /\ Running /\ wsState = "connecting"
    /\ wsState' = "closed"
    /\ Tell("normal")
    /\ IF Turn
       THEN Denied /\ UNCHANGED task
       ELSE task' = "deny" /\ UNCHANGED transport
    /\ UNCHANGED <<reading, request, prologue, closeSent, keepalive, seen,
                   mustCancel, loop, disconnected, shouldExit>>

\* _drain, awaited even if the transport is closing and nothing was written.
AwaitDrain == task' = IF writePaused' THEN "drain" ELSE task

SendMessage ==
    /\ Running /\ wsState = "connected"
    /\ Count("data") < MaxWrites
    /\ Write("data")
    /\ AwaitDrain
    /\ UNCHANGED <<closing, reading, request, handshake, farewell, keepalive,
                   queue, seen, mustCancel, loop, disconnected, shouldExit>>

\* _ws_close; on a closed websocket it does nothing.
SendCloseMessage ==
    /\ Running /\ wsState = "connected"
    /\ Abort("app")
    /\ UNCHANGED <<reading, request, prologue, pendingPing, answered, app, loop,
                   disconnected, shouldExit>>

\* Any other message on a closed websocket is a RuntimeError.
SendRefused ==
    /\ Running /\ wsState = "closed"
    /\ task' = "raised"
    /\ UNCHANGED <<transport, reading, request, handshake, farewell, keepalive,
                   queue, seen, mustCancel, loop, disconnected, shouldExit>>

AppEnd(how) ==
    /\ Running
    /\ \/ how = "raised" /\ "raises" \in Habits
       \/ /\ how = "returned"
          /\ wsState = "connecting" => told # "none" \/ "returns_early" \in Habits
    /\ task' = how
    /\ UNCHANGED <<transport, reading, request, handshake, farewell, keepalive,
                   queue, seen, mustCancel, loop, disconnected, shouldExit>>

-----------------------------------------------------------------------------
DataReceived ==
    \/ \E p \in BOOLEAN : BeginWebsocket(p)
    \/ \E mode \in BatchMode : StartBatch(mode)
    \/ ReceiveMessage \/ ReceivePing \/ ReceiveClose
    \/ EndOfBatch \/ ViolationFound

Ahead ==
    \/ AheadReceives
    \/ \E last \in BOOLEAN : AheadAnswers(last)
    \/ \E raised \in BOOLEAN : AheadDone(raised)

TaskStep ==
    \/ Start \/ TurnGranted \/ MessageArrived \/ Drained
    \/ CancelTask \/ Interrupted \/ OnTaskDone

AppStep ==
    \/ Receive \/ SendAccept \/ SendDeny \/ SendMessage \/ SendCloseMessage
    \/ SendRefused
    \/ \E how \in {"returned", "raised"} : AppEnd(how)

Next ==
    \/ DataReceived \/ (\E pong \in BOOLEAN : PeerSends(pong))
    \/ OnPingDue \/ EofReceived \/ ConnectionLost
    \/ ResumeWriting \/ BeginShutdown \/ ForceClose
    \/ Ahead \/ TaskStep \/ AppStep

Spec == Init /\ [][Next]_vars

\* The loop gets through a batch, runs what is ready and fires its timers.  What
\* a batch keeps out is treated strongly: in the code a batch is one callback,
\* and keeps nothing out.
LoopFairness ==
    /\ WF_vars(feeding # "idle" /\ DataReceived)
    /\ WF_vars(MayRead /\ DataReceived)
    /\ SF_vars(TaskStep)
    /\ WF_vars(OnPingDue)

\* Applications do not stop between two awaits of the protocol's, the request
\* ahead is answered, and the peer reads what it is sent and lets a closed
\* connection go.
EnvironmentFairness ==
    /\ SF_vars(AppStep)
    /\ SF_vars(\E last \in BOOLEAN : AheadAnswers(last))
    /\ WF_vars(ResumeWriting)
    /\ WF_vars(closing /\ ConnectionLost)

FairSpec == Spec /\ LoopFairness /\ EnvironmentFairness

-----------------------------------------------------------------------------
(* Properties. *)

TransportType ==
    /\ closing \in BOOLEAN /\ wire \in Seq(Entry) /\ writePaused \in BOOLEAN
    /\ unread \in BOOLEAN /\ answered \in BOOLEAN

ReadingType ==
    /\ disconnected \in BOOLEAN /\ readingPaused \in BOOLEAN
    /\ feeding \in {"head", "idle"} \cup BatchMode /\ inbound \in 0..MaxInbound
    /\ ahead \in {"busy", "answered", "gone"} /\ backlog \in 0..AheadBacklog

SessionType ==
    /\ wsState \in {"http", "connecting", "connected", "closed"}
    /\ prologue \in BOOLEAN /\ closeSent \in BOOLEAN /\ shouldExit \in BOOLEAN
    /\ pingArmed \in BOOLEAN /\ pendingPing \in BOOLEAN

QueueType ==
    /\ told \in Code \cup {"none"}
    /\ queue \in Seq(Message)
    /\ Len(queue) <= inbound + (IF told = "none" THEN 1 ELSE 2)

TaskType ==
    /\ task \in Status /\ seen \in Message \cup {"none"}
    /\ mustCancel \in BOOLEAN /\ cancelling \in BOOLEAN /\ owed \in BOOLEAN

\* Every variable has its type, and the queue holds no more than the connect,
\* the peer's messages and one disconnect.
TypeOK ==
    TransportType /\ ReadingType /\ SessionType /\ QueueType /\ TaskType

\* The response of the request pipelined ahead goes out before the answer to
\* the handshake: the websocket takes the write turnstile, and keeps it.
ResponseBeforeHandshake ==
    \A i \in DOMAIN wire :
        /\ wire[i] = "response" =>
               \A j \in 1..(i - 1) : wire[j] \notin {"101", "403"}
        /\ wire[i] \in {"101", "403"} => ahead # "busy"

\* A close frame, like a 403, is the last thing written on the connection:
\* whichever of peer, codec, keepalive, shutdown, application and task end
\* closes the session, none writes another frame behind the first of them.
CloseIsLast ==
    \A i \in DOMAIN wire :
        wire[i] \in CloseFrames \cup {"403"} => i = Len(wire)

\* The application is told why the session ended once, and nothing reaches
\* its queue behind that.
DisconnectLast ==
    /\ \A i \in DOMAIN queue : queue[i] = "disconnect" => i = Len(queue)
    /\ seen = "disconnect" => queue = <<>>

\* Peer and application agree on why a session ended: the code of the close
\* frame on the wire is the one its application is told, 1005 for a frame
\* without a code.  Whatever would end the session again behind the first
\* reason, a broken connection included, replaces neither.
CloseToldTruly ==
    \A i \in DOMAIN wire : wire[i] \in CloseFrames => wire[i] = CloseFrame(told)

\* While the session is open, reading is only paused for a queue over the low
\* watermark: the next receive() calls will resume it.
PauseOwned ==
    wsState = "connected" /\ readingPaused /\ ~closing => Len(queue) > ResumeAt

\* Nothing is read from a client whose handshake the application has not
\* answered yet (protocol.py:733), unless a request is in flight ahead of it.
HeldUntilDecided == wsState = "connecting" => readingPaused \/ closing

\* The deferred cancel never overtakes a message delivered to receive().
CancelOvertakesNothing == ~(mustCancel /\ task = "recv" /\ queue # <<>>)

\* No wake-up is lost: an application that waits in receive() when the session
\* ends has a message to be woken by.
BlockedIsWoken == task = "recv" /\ told # "none" => queue # <<>>

\* However the handler ends, its connection is closed with it: no socket
\* dangles without a task that owns it.
SessionEndsWithTask == task = "gone" => closing

\* Unless it was closed before, an accepted websocket is not closed in a
\* shutdown without a close frame that says 1001, going away.
GoodbyeAtShutdown ==
    [][wsState = "connected" /\ shouldExit' /\ closing' /\ ~closing
           => OnWire("going away")']_vars

\* A peer that has answered the outstanding ping is never dropped for a ping
\* timeout, unless the session was not read because its application is slow.
AnsweredNotDropped ==
    [][told' = "ping timeout" /\ told # told' /\ ~closing
           => ~answered \/ readingPaused]_vars

\* A handshake the application has answered is answered on the wire, or the
\* connection closes: the turn of the websocket comes.
HandshakeAnswered ==
    task \in {"accept", "deny"} ~> OnWire("101") \/ OnWire("403") \/ closing

\* A ping is settled by its peer, or the session of a peer that is gone ends.
PingResolved == pendingPing ~> ~pendingPing \/ closing

-----------------------------------------------------------------------------
\* The session in the eyes of the application.
ASGIState ==
    CASE wsState \in {"http", "connecting"} -> "CONNECTING"
      [] wsState = "connected" -> "CONNECTED"
      [] wsState = "closed" -> "CLOSED"

ASGIQueue == IF wsState = "http" THEN <<"connect">> ELSE queue

Awaited ==
    CASE task = "recv" -> "receive"
      [] task = "accept" -> "turn"
      [] task = "deny" -> "deny"
      [] task \in {"drain", "drained"} -> "drain"
      [] OTHER -> "none"

Bridge == INSTANCE WebSocketBridge
            WITH Data <- {"receive"}, state <- ASGIState, queue <- ASGIQueue,
                 known <- told # "none", lost <- disconnected, call <- Awaited

\* Whatever peer, network, timers, shutdown and the request ahead do, in any
\* order, the application sees a session of the contract: its end is told with
\* the state change and once, no wait outlives that, a closed session opens
\* only by an accept that was waiting, and only a lost connection cancels.
KeepsContract == Bridge!Spec

=============================================================================
