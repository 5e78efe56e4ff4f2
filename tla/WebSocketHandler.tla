--------------------------- MODULE WebSocketHandler ---------------------------
(***************************************************************************)
(* One websocket session as the application sees it: the WebSocket object  *)
(* of src/src/sonix/app/websockets.py in the hands of a handler, under the *)
(* websocket branch of ExceptionMiddleware (middleware.py).                *)
(*                                                                         *)
(* Below them is the bridge of server/protocol.py, reduced to what its     *)
(* send and receive show, which is the contract WebSocketBridge: wire is   *)
(* its state, known says that the disconnect message is out, and the turn  *)
(* of an accept or of a denial comes at any time.  The handler is one      *)
(* coroutine that makes any calls, in any order; it may catch what they    *)
(* raise, and may close in a finally.                                      *)
(***************************************************************************)
EXTENDS Integers, Sequences

CONSTANTS
    MaxCalls,     \* bound: the calls a handler makes
    MaxMessages,  \* bound: the messages the peer sends
    Debug         \* debug of the application

ASSUME BoundsAssumption == MaxCalls \in Nat /\ MaxMessages \in Nat /\ Debug \in BOOLEAN

VARIABLES
    wire,     \* the bridge: "CONNECTING", "CONNECTED" or "CLOSED"
    queue,    \* its messages for the application
    known,    \* _ws_disconnect_message is set
    lost,     \* connection_lost has run
    messages, \* how many the peer has sent
    client,   \* client_state
    app,      \* application_state
    call,     \* what the handler waits for, "none" if it runs
    calls,    \* how many calls it has made
    phase,    \* "handler", "leaving", "returned", "done"
    raised,   \* the exception in flight, "none" for none
    closed,   \* the middleware has seen a close
    closes,   \* history: the closes that reached the peer, by code
    told,     \* history: how often the application was told of the end
    failed    \* history: the exception the handler left with

bridge  == <<wire, queue, known, lost, messages>>
states  == <<client, app>>
history == <<closes, told, failed>>
vars == <<bridge, states, call, calls, phase, raised, closed, history>>

Init ==
    /\ wire = "CONNECTING" /\ queue = <<"connect">> /\ known = FALSE /\ lost = FALSE
    /\ messages = 0
    /\ client = "CONNECTING" /\ app = "CONNECTING"
    /\ call = "none" /\ calls = 0 /\ phase = "handler" /\ raised = "none"
    /\ closed = FALSE /\ closes = <<>> /\ told = 0 /\ failed = "none"

-----------------------------------------------------------------------------
\* The bridge.

\* Mutation: every reason is told.
EnqueueDisconnectAgain == known' = TRUE /\ queue' = Append(queue, "disconnect")

\* _enqueue_ws_disconnect: the first reason stands.
EnqueueDisconnect ==
    /\ known' = TRUE
    /\ queue' = IF known THEN queue ELSE Append(queue, "disconnect")

\* _finish_websocket
Finish == wire' = "CLOSED" /\ EnqueueDisconnect

\* Mutation: a close frame does not end the session.
SendCloseFrame(code) ==
    closes' = Append(closes, code) /\ UNCHANGED <<wire, queue, known, call>>

\* websocket.close handed to send: the handshake is denied, at once or when the
\* turn of the 403 comes, or a close frame is written; on a closed websocket it
\* does nothing.
SendClose(code) ==
    \/ /\ wire = "CONNECTING" /\ Finish
       /\ closes' = Append(closes, 403) /\ call' \in {"none", "deny"}
    \/ /\ wire = "CONNECTED" /\ Finish
       /\ closes' = Append(closes, code) /\ UNCHANGED call
    \/ wire = "CLOSED" /\ UNCHANGED <<wire, queue, known, closes, call>>

PeerSends ==
    /\ wire # "CLOSED" /\ messages < MaxMessages
    /\ messages' = messages + 1
    /\ \E m \in {"text", "bytes"} : queue' = Append(queue, m)
    /\ UNCHANGED <<wire, known, lost, states, call, calls, phase, raised, closed, history>>

\* The peer closes, breaks the protocol or is silent, or the server goes away.
WireCloses ==
    /\ wire # "CLOSED"
    /\ Finish
    /\ UNCHANGED <<lost, messages, states, call, calls, phase, raised, closed, history>>

ConnectionLost ==
    /\ ~lost /\ lost' = TRUE /\ EnqueueDisconnect
    /\ UNCHANGED <<wire, messages, states, call, calls, phase, raised, closed, history>>

-----------------------------------------------------------------------------
\* The calls of the WebSocket object.

Free == phase = "handler" /\ call = "none" /\ calls < MaxCalls

Ready == Free /\ raised = "none"

Called == calls' = calls + 1 /\ UNCHANGED <<phase, lost, messages>>

Raises(e) == raised' = e /\ UNCHANGED call

Waits(c) == call' = c /\ UNCHANGED raised

\* What receive() does with a message.
Took(m) ==
    /\ client' = CASE m = "connect" -> "CONNECTED"
                   [] m = "disconnect" -> "DISCONNECTED"
                   [] OTHER -> client
    /\ app' = IF m = "disconnect" THEN "DISCONNECTED" ELSE app
    /\ told' = IF m = "disconnect" THEN told + 1 ELSE told

\* accept takes websocket.connect itself, and waits for the turn of the handshake.
Accept ==
    /\ Ready /\ Called
    /\ \/ /\ client = "CONNECTING"
          /\ Took(Head(queue)) /\ queue' = Tail(queue)
       \/ client # "CONNECTING" /\ UNCHANGED <<states, told, queue>>
    /\ \/ wire = "CONNECTING" /\ Waits("turn")
       \/ wire = "CONNECTED" /\ Raises("runtime")
       \/ wire = "CLOSED" /\ Raises("late")
    /\ UNCHANGED <<wire, known, closed, closes, failed>>

\* The turn has come: the 101 is written, whatever happened meanwhile.
Accepted ==
    /\ phase = "handler" /\ call = "turn"
    /\ call' = "none" /\ wire' = "CONNECTED" /\ app' = "CONNECTED"
    /\ UNCHANGED <<queue, known, lost, messages, client, calls, phase, raised, closed, history>>

\* receive, receive_text and receive_bytes, by the kind they are to return.
Kinds == {"receive", "text", "bytes"}

Receiving == call \in Kinds

\* The end is repeated to whoever receives behind it.
Coming == IF queue # <<>> THEN Head(queue) ELSE "disconnect"

Takes(kind) ==
    /\ Took(Coming)
    /\ raised' = CASE kind = "receive" \/ Coming = kind -> raised
                   [] kind # "receive" /\ Coming = "disconnect" -> "disconnect"
                   [] OTHER -> "runtime"
    /\ queue' = IF queue # <<>> THEN Tail(queue) ELSE queue

Refused(kind) == client = "DISCONNECTED" \/ (kind # "receive" /\ app # "CONNECTED")

\* What is there is returned at once.
Receive(kind) ==
    /\ Ready /\ Called
    /\ \/ Refused(kind) /\ Raises("runtime") /\ UNCHANGED <<states, told, queue>>
       \/ /\ ~Refused(kind) /\ (queue # <<>> \/ known)
          /\ Takes(kind) /\ UNCHANGED call
       \/ /\ ~Refused(kind) /\ queue = <<>> /\ ~known
          /\ Waits(kind) /\ UNCHANGED <<states, told, queue>>
    /\ UNCHANGED <<wire, known, closed, closes, failed>>

\* What was waited for has come.
Delivered ==
    /\ phase = "handler" /\ Receiving /\ queue # <<>>
    /\ Takes(call)
    /\ call' = "none"
    /\ UNCHANGED <<wire, known, lost, messages, calls, phase, closed, closes, failed>>

\* send_text and send_bytes
SendData ==
    /\ Ready /\ Called
    /\ \/ app # "CONNECTED" /\ Raises("runtime")
       \/ app = "CONNECTED" /\ wire = "CONNECTED" /\ Waits("drain")
       \/ app = "CONNECTED" /\ wire # "CONNECTED" /\ Raises("late")
    /\ UNCHANGED <<wire, queue, known, states, closed, history>>

\* A send or a denial has been written.
Drained ==
    /\ call \in {"drain", "deny"} /\ call' = "none"
    /\ UNCHANGED <<bridge, states, calls, phase, raised, closed, history>>

\* close, also in a finally with an exception in flight.
Close ==
    /\ Free /\ Called
    /\ \/ /\ app = "DISCONNECTED"
          /\ UNCHANGED <<wire, queue, known, app, call, closed, closes>>
       \/ /\ app # "DISCONNECTED" /\ app' = "DISCONNECTED"
          /\ closed' = TRUE /\ SendClose(1000)
    /\ UNCHANGED <<client, raised, told, failed>>

-----------------------------------------------------------------------------
\* The handler.

\* A handler fails of its own accord, before it ran in the case of "http": a
\* dependency, or a query parameter.
HandlerRaises ==
    /\ Ready /\ Called
    /\ \E e \in {"ws", "http", "error"} : Raises(e)
    /\ UNCHANGED <<wire, queue, known, states, closed, history>>

Catch ==
    /\ Free /\ Called /\ raised # "none" /\ raised' = "none"
    /\ UNCHANGED <<wire, queue, known, states, call, closed, history>>

\* connection_lost has the task cancelled wherever it waits, in a call of the
\* object, in an await of the handler's own, or in the close of the exception layer.
Cancelled ==
    /\ lost /\ (phase = "handler" \/ call # "none")
    /\ call' = "none" /\ raised' = "cancelled"
    /\ UNCHANGED <<bridge, states, calls, phase, closed, history>>

Leave ==
    /\ phase = "handler" /\ call = "none" /\ phase' = "leaving"
    /\ failed' = raised
    /\ UNCHANGED <<bridge, states, call, calls, raised, closed, closes, told>>

\* Mutation: the exceptions of HTTP are not told from the others.
CloseForAny(e) == IF e = "ws" THEN 4000 ELSE 1011

\* _close_for
CloseFor(e) == CASE e = "ws" -> 4000 [] e = "http" -> 1008 [] OTHER -> 1011

Converted == raised \notin {"none", "cancelled", "disconnect"}

\* The exception layer makes an exception a close, once.
LeaveExceptions ==
    /\ phase = "leaving" /\ phase' = "returned"
    /\ \/ Converted /\ ~closed /\ SendClose(CloseFor(raised))
       \/ ~(Converted /\ ~closed) /\ UNCHANGED <<wire, queue, known, closes, call>>
    /\ raised' = IF raised = "cancelled" \/ (Debug /\ Converted /\ raised \notin {"ws", "http"})
                 THEN raised ELSE "none"
    /\ UNCHANGED <<lost, messages, states, calls, closed, told, failed>>

\* Mutation: a handler that returns is not the end of its session.
TaskDoneQuietly ==
    /\ phase = "returned" /\ call = "none" /\ phase' = "done"
    /\ UNCHANGED <<bridge, states, call, calls, raised, closed, history>>

\* _on_ws_task_done.  That an exception closes the transport besides is not seen
\* here: the connection may be lost at any time.
TaskDone ==
    /\ phase = "returned" /\ call = "none" /\ phase' = "done"
    /\ \/ wire = "CONNECTED" /\ Finish /\ closes' = Append(closes, 1000)
       \/ wire # "CONNECTED" /\ UNCHANGED <<wire, queue, known, closes>>
    /\ UNCHANGED <<lost, messages, states, call, calls, raised, closed, told, failed>>

-----------------------------------------------------------------------------
HandlerRuns ==
    \/ Accept \/ Accepted \/ (\E kind \in Kinds : Receive(kind))
    \/ Delivered \/ SendData \/ Drained \/ Close \/ HandlerRaises \/ Catch \/ Leave

Steps == HandlerRuns \/ Cancelled \/ LeaveExceptions \/ TaskDone

Next ==
    \/ Steps \/ PeerSends \/ WireCloses \/ ConnectionLost
    \/ phase = "done" /\ UNCHANGED vars

Spec == Init /\ [][Next]_vars /\ WF_vars(Steps)

-----------------------------------------------------------------------------
SocketStates == {"CONNECTING", "CONNECTED", "DISCONNECTED"}
Exceptions == {"none", "runtime", "late", "disconnect", "ws", "http", "error", "cancelled"}

TypeOK ==
    /\ wire \in {"CONNECTING", "CONNECTED", "CLOSED"}
    /\ queue \in Seq({"connect", "text", "bytes", "disconnect"})
    /\ known \in BOOLEAN /\ lost \in BOOLEAN /\ closed \in BOOLEAN
    /\ messages \in 0..MaxMessages /\ calls \in 0..MaxCalls
    /\ client \in SocketStates /\ app \in SocketStates
    /\ call \in {"none", "turn", "receive", "text", "bytes", "drain", "deny"}
    /\ phase \in {"handler", "leaving", "returned", "done"}
    /\ raised \in Exceptions /\ failed \in Exceptions
    /\ closes \in Seq({403, 1000, 1008, 1011, 4000}) /\ told \in Nat

\* The state the application keeps never runs ahead of the bridge: it is
\* connected only after the 101, and disconnected only when the end is known
\* there too (websockets.py:82 and :93).
StatesAgree ==
    /\ app = "CONNECTED" => wire # "CONNECTING"
    /\ app = "DISCONNECTED" => known
    /\ client = "CONNECTING" => queue # <<>> /\ Head(queue) = "connect"

\* Of the handler, the exception layer and the end of the task, one at most
\* closes the connection (middleware.py:186).
ClosedOnce == Len(closes) <= 1

\* The application is told of the end once; whoever receives after that is
\* refused, and never waits for what cannot come (websockets.py:100).
ToldOnce == told <= 1

\* The peer is told how the session ended: the code of the exception the
\* handler left with, and 1000 only if it closed or nothing went wrong
\* (middleware.py:192).
ToldTruly ==
    phase = "done" /\ closes # <<>> =>
        CASE closes[1] = 1000 -> closed \/ failed \in {"none", "disconnect", "cancelled"}
          [] closes[1] = 4000 -> failed = "ws"
          [] closes[1] = 1008 -> failed = "http"
          [] closes[1] = 1011 -> failed \in {"error", "runtime"}
          [] OTHER -> closed \/ failed \notin {"none", "disconnect", "cancelled"}

\* No session outlives its handler: an accepted one is closed, and one that was
\* not is denied if the handler failed (protocol.py:920).
NeverDangles ==
    phase = "done" =>
        /\ wire # "CONNECTED"
        /\ failed \notin {"none", "disconnect", "cancelled"} => wire = "CLOSED"

-----------------------------------------------------------------------------
Bridge == INSTANCE WebSocketBridge
            WITH Data <- {"text", "bytes"}, state <- wire,
                 call <- IF Receiving THEN "receive" ELSE call

\* The handler, the WebSocket object and the exception layer use the bridge as
\* the contract has it: one call at a time, no answer to a handshake that has
\* been answered or is over, no message on a closed websocket.
KeepsContract == Bridge!Spec

=============================================================================
