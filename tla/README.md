# A formal model of sonix

sonix is an ASGI server and a small application framework in pure Python:
`server/` parses HTTP/1.1 and websockets on a raw `asyncio.Protocol` and runs one
task per request; `app/` is the framework above it. This directory holds TLA+
modules translated from that code, the TLC configurations that check them on
small instances, and TLAPS proofs for every instance. `PROJECT.json` maps each
definition to the lines it models.

Paths below are relative to `src/src/sonix/`.

## Inventory

| Part | State | Operations | What makes it correct |
|---|---|---|---|
| `server/protocol.py`, HTTP half | per connection: `_closed`, `_disconnected`, head timer, `_reading_paused`, `_paused_writing`, `_drain_waiter`, receive queues, in-flight tasks, the write turnstile; per request: `started`, `close`, `my_turn`, `my_done` | `data_received`, `connection_lost`, `eof_received`, `pause_writing`, `resume_writing`, head timeout, `receive()`, `send()`, task done, failure responses | responses in request order and complete; the announced close honoured and final; nobody blocked for ever; disconnect delivered; backpressure released |
| `server/protocol.py`, websocket half | `_ws_state`, frame parser, queue, prologue, pending ping, close flags | upgrade, accept, deny, frames, ping and pong, close, `shutdown_websocket` | nothing read before the accept; one close frame, last; one disconnect, last; a ping kills only dead peers |
| `server/parser.py` | buffer, state, limits, body counters | `feed_data`, `feed_eof`, `take_buffer` | the same events however the bytes are cut; limits; nothing parsed behind an upgrade |
| `server/websockets.py` | frame parser state, fragments | `feed_data`, handshake validation, frame encoding | fragmentation and control-frame rules, size limit |
| `server/server.py` | listening socket, `ServerState` (connections, `should_exit`), lifespan runner | `startup`, `serve_forever`, `shutdown`, `run` | in-flight responses drained; teardown last; shutdown ends |
| `server/server.py` `LifespanRunner`, `app/lifespan.py` | task, queue, events, mode | `startup`, `shutdown`, `_main`, `_send` | startup outcome reported once; teardown in reverse order |
| `app/di.py` | registered graph, per-request cache, exit stack | register, resolve, teardown | acyclic, scope rules, one instance per request, teardown in reverse order |
| `app/middleware.py`, `app/exceptions.py` | stack, `response_started` | dispatch, wrapping of `send` | at most one response start; errors answered once |
| `app/routing.py` | list of routes | `match` | first match wins; 405 only without a match |
| `app/websockets.py` | client and application state | `accept`, `send`, `receive`, `close` | ASGI websocket order |
| `app/applications.py`, `app/requests.py`, `app/responses.py` | stack built once, request body cache | `__call__`, endpoint, `body`, `stream` | dependencies outlive the response; every request is answered or its exception told |
| `__init__.py`, `types.py`, `_demo.py` | none | command line | nothing to check |

The server calls a protocol through the event loop; a protocol calls its parser
synchronously, creates one task per request, and the tasks call back through the
`receive` and `send` closures. The server reads `is_idle` and `is_websocket` of
every connection in `ServerState.connections` and closes transports at shutdown;
connections read `should_exit`. All of it runs on one loop, so the hard part is
not data races but *awaits*: state read before an await and used after it, tasks
resumed in an order the loop chooses, cancellations that race wake-ups, and waits
that nobody ends. Two parts are hard for another reason: the parsers must not care
how TCP cuts their input, and the exit stack of a request must be right for every
graph of dependencies.

    module                 extends               stands for
    HTTPProtocol           -                     a connection that speaks HTTP
    ResponseStream         -                     what HTTPProtocol promises
    WebSocketProtocol      -                     a connection after the upgrade
    Lifespan               -                     server and application at start and end
    Server                 Lifespan              startup, serving, drain, teardown
    HTTP11Parser           -                     bytes to requests
    FrameParser            -                     bytes to websocket messages
    InboundBytes           both parsers          the way of a connection's bytes
    WholeStream            both parsers          the same without segments
    Writing                InboundBytes          how a client writes a stream
    MCInbound              Writing               the streams of the instance
    Injection, Router      -                     app/di.py, app/routing.py
    Application            Injection, Router     one HTTP request inside the application
    MCApplication          Application           the scenarios of the instance
    WebSocketHandler       -                     one websocket session inside it
    WebSocketBridge        -                     what those two sides are to each other
    *Proofs                the module named      theorems

## What is modelled

### `HTTPProtocol` (core)

One connection while it speaks HTTP. An action is what happens between two
suspension points: one callback, or one stretch of a request task between two
awaits. Requests and failure responses occupy numbered *slots* in arrival order,
and the turnstile is `Turn(r)`: the `my_turn` of slot r is the `my_done` of slot
r - 1.

| Code | Model |
|---|---|
| `connection_made` | `Init` |
| `data_received`, `_handle_event` | a batch of actions `BeginRequest`, `PushBodyChunk`, `EndOfEvents`, `RejectUpgrade`, `Fail`; `feeding` keeps every other callback out until the batch ends, because the code does not await in it |
| `_completed_request_events` | mode `error` of a batch: only complete requests, then `Fail` |
| `_write_failure_response` | a slot of kind `failure`: `Start`, `TurnGranted`, `WriteFailure` |
| `_on_head_timeout`, `eof_received`, `connection_lost`, `resume_writing` | the actions of the same names |
| `pause_writing` | any write may cross the high-water mark (`Write`) |
| `receive()` | `Receive`, `MessageArrived`, `TakeMessage` |
| `send()` | `SendStart`, `TurnGranted`, `SendBody`, `AwaitDrain`, `Drained`, `Finish` |
| `_on_task_done` | `OnTaskDone` |
| the deferred `call_soon(task.cancel)` | `cancelling`, and `owed`: the wake-ups that were in the loop's FIFO queue first; `CancelTask` waits for them, `Interrupted` throws at the await |
| `Server.shutdown` as one connection sees it | `BeginShutdown`, `ForceClose` |

The parser is the environment: any batch of events it can produce, including an
error at any point between two events of a body. The application is the
environment too, within the ASGI protocol; the constant `Habits` says which
liberties the applications of an instance take (raise, end without responding,
answer without reading, keep listening, swallow a cancellation), and
`Disturbances` says what client, network and server do (malformed input, upgrade,
slow reader, eof, loss, shutdown). Runs choose both, so each run is about
something; the theorems hold for every choice; those about the order of
responses hold for as long as no application has returned with its response unfinished
(`NoneAbandoned`).

What a message carries is reduced to what the properties tell apart: a body
message is `more` or `last`, an entry on the wire has a slot, a part and the
`close` of its `Connection` header.

### `WebSocketProtocol`

The same connection from the websocket upgrade on. The upgrade is terminal for
the HTTP parser, so the websocket task is the last link of the turnstile; what
may still be in flight is the request pipelined ahead of it.

| Code | Model |
|---|---|
| `_begin_websocket` | `BeginWebsocket`, the first action; `prologue` says whether frames came in the segment of the handshake |
| `_ws_data_received`, `_handle_frame_event` | a batch opened by `StartBatch` (which runs `Alive`: any byte disarms the ping) of `ReceiveMessage`, `ReceivePing`, `ReceiveClose`, ended by one of `EndOfBatch`, `ReceiveClose`, `ViolationFound` |
| `_enqueue_ws_disconnect`, `_finish_websocket` | `Tell`, `Finish` |
| `_ws_abort`, `_ws_peer_closed`, `_ws_close` | `SendClose`, then `Finish`: the operator `Abort`; the frame on the wire is its code (`CloseFrame`: the peer's 1005 goes out as a frame without one) |
| `_on_ws_ping_due`, `_arm_ws_ping` | `OnPingDue`, `Arm` |
| `shutdown_websocket`, `Server.shutdown` as the connection sees it | `BeginShutdown`, `ForceClose` |
| `_make_ws_receive` | `Receive`, `MessageArrived`, `TakeMessage` |
| `_make_ws_send`: accept, deny, message, close, anything on a closed websocket | `SendAccept` and `SendDeny` (both await `Turn`, then `TurnGranted`), `SendMessage`, `SendCloseMessage`, `SendRefused` |
| `_on_ws_task_done` | `OnTaskDone` |
| `connection_lost` and its deferred cancel | `ConnectionLost`, `CancelTask`, `Interrupted`, as in `HTTPProtocol` |

What is abstracted:

- The request ahead is what the session can notice of it: a turn (`ahead`), a
  receive queue (`backlog`, already complete) and its use of the shared read
  state and transport. There is at most one, it answers in one write, and it
  answers or raises; more of them, or slower ones, only make `Turn` come later.
- A handshake that fails validation is a failure response, and belongs to
  `HTTPProtocol`.
- The frame codec is the environment: any sequence of messages and pings, then a
  close frame, a violation or the end of the segment. `FrameParser` has the codec
  itself.
- The application sends from one task, within the ASGI protocol, and closes with a
  code that may go on the wire. The codes of the codec (1002, 1007, 1009) are one.
- Timers are untimed but for one thing: a ping falls due after the loop has read
  what it is allowed to read (`OnPingDue`), since the interval is long. The peer
  sends its pong at any time (`PeerSends`), so a timeout may still race it.

### `ResponseStream` (abstract)

What a client that pipelines requests is promised: one response after the other
in request order, each begun when the one before is complete, none after an
announced close, at most one refusal, at the end. Three variables; no tasks,
turnstile or callbacks. `HTTPProtocol` instantiates it as `Stream` with

    stream <- wire, complete <- no response is unfinished on the wire, open <- ~closing

and `KeepsPromises` is its specification under this mapping.

### `Server` and `Lifespan`

`Server.run()` is one task of the loop, and `phase` is its progress: `StartUp`,
`StartupFails`, `Bind`, `Signal` (`serve_forever` is cancelled), `BeginShutdown` (the
part of `shutdown()` before the drain), `DeadlinePasses`, `EndDrain` (the poll that
ends `_drain_busy_connections`, and the force-close behind it), `TearDown`, `Exit`.
`wait_closed()` is what asyncio documents: all transports have detached.

What asyncio does between the signal and `shutdown()` is its own: on the way out,
`asyncio.Server.serve_forever` closes the listening socket and, depending on the
release, waits for the connections or closes them. `Signal` allows both, so what is
said of the drain holds from `shutdown()` on, and nothing is said of the wait before it
(`NobodyHangs` begins at the drain). `shutdown()` may also be called by itself, as the
tests do.

A connection is what the server sees of a protocol: its transport, whether it is in
`ServerState.connections`, whether bytes are unsent, and its tasks. There is one for each
pipelined request and one for the session behind them (`Handler`), and `stage` says how
far each has come:

    none -> running -> keep or close -> answered -> gone     (and lingering -> gone, once cancelled)

| Code | Model |
|---|---|
| `_begin_request`, `_begin_websocket` | `BeginRequest`, `Upgrade` |
| `send()` of a start: `close` is decided before the turn is awaited | `SendStart`; for a session it is the denial |
| the writes of a task whose turn has come | `Write`: they may stay in the buffer of a slow client |
| `send()` of the last body; the 403 | `Answer`: a response that said close closes the transport, whoever is behind it |
| `_finish_websocket` of an accepted session | `CloseSession` |
| `_on_task_done`, `_on_ws_task_done` | `Ends`: an exception closes the transport, whoever else is in flight |
| `eof_received`, `_on_head_timeout`, `connection_lost` | `EofReceived`, `HeadTimeout`, `ConnectionLost` (with `Cancelled`) |
| a cancelled task that ends | `CleanedUp` |

`Lifespan` composes both sides of the lifespan protocol. `LifespanRunner` is
`Startup`, `Started`, `Stop`, `Answered`, `Reap` and, at the end of its `_main`,
`MainEnds`. Against it runs a Sonix application (`SonixBegins` to `SonixExits`, a
step for each stretch between two awaits of `LifespanHandler`) or a foreign one,
which may send any lifespan message at any time, return or raise.

### `HTTP11Parser`, `FrameParser` and `InboundBytes`

A *unit* stands for a byte. The first unit of a line carries what the line means,
the units behind it only make it longer; CR, LF and the bytes of bodies are
themselves. `feed_data` is `FeedHTTP` or `FeedFrames`, and then one step for each
iteration of the code's loop until it is blocked; every check the code makes, in
its order, is a guard, and every exception it raises an outcome. In a frame there
is a unit for each of the two bytes of its head, for the extended length, for the
mask and for each payload byte; the encoders of `websockets.py` build the
instance's frames.

`InboundBytes` wires the two together as `protocol.py` does: a head that switches
protocols ends the HTTP parsing, reading is paused, `take_buffer` gives the bytes
behind it to `FrameParser`, and `eof_received` may come at any moment. A stream
declares what it means - its requests, messages, the fault that ends it, and the
positions at which it is complete - in the terms of whoever wrote it, and the
properties compare what the parsers told with that declaration. This is the
reference definition: it does not parse.

### `Writing` (the client)

What the streams of `InboundBytes` are, for the theorems that speak of all of them:
`WellWritten(s)` is the grammar of HTTP/1.1 requests and websocket frames, from the
side of who writes. `s.writing[p]` says what the client is about when it has written
`p` units - which part of which request comes next, with what the request has so far;
or which frame of which message - and the grammar relates it to the units that follow
and to what is said where the part ends: a line and its CRLF, as many bytes of body as
were announced, a chunk, a frame as `encode_frame` builds it. Where a client breaks a
rule, the stream says with which fault it ends. There is no buffer, no segment and no
state of a parser in it; what a line *means* (`IsRequestLine`, `HeaderError`,
`Framing`, `SizeError`) and the encoder are the operators of the parser modules, since
a line is a unit with a meaning in them.

It excludes a line of exactly the limit, which the code judges by the segment its CR
comes in (see the divergences). A stream ends where a request or a frame ends, or in
its fault; one that is cut short is the whole one, closed before it has been read.
`WritingAssumption` says that the streams are written so; `segmentation` evaluates it
on each of its streams, and `MCInbound` writes them by composing the annotated
writings of lines, bodies, chunks and frames.

### `WholeStream` (abstract)

What is promised of segmentation: the parsers as a client thinks of them, with the
whole of the stream in their buffer from the start. Its actions are those of the two
parsers, but for three that say what segments may decide. A body or a chunk is told
in pieces of any size (`BodyPiece`, `ChunkPiece`); a line of exactly the limit may be
refused (`RejectAtLimit`: see the divergences); what follows a close frame is nobody's
(`Forget`). The hand-over is one step, `Switch`. `InboundBytes` instantiates it as
`Whole` with

    buffer <- what HTTP11Parser has and has still to come, frames <- the same of FrameParser

and `ReadsWholeStream` is its specification under this mapping: a parser that decides
on half a line, half a terminator or half a frame, or loses a byte between two
segments or at the hand-over, takes a step that `WholeStream` has not.

### `Injection`, `Router` and `Application`

`Injection` is `di.py`: a handler's graph of callables, the plan built from it, and
its execution. The recursion of `_resolve_params` is kept as `frames`, the calls
made as the log `invoked`, in which a call is known by its index and says which
calls it `uses`; `stack` is the `AsyncExitStack`. A sync callable runs in a worker
thread and runs on when its task is cancelled (`ThreadEnds`). `Router` is pure:
`Dispatch` is the loop of the code (`Look` is one turn of it), `Expected` the
definition it is compared with. The functions that walk a graph (`Circular`,
`QuerySpecs`, `NeedsTeardown`) recurse as the code does; `Below`, the least set that
is closed under dependence, does not, and is what they are compared with.

`Application` takes one HTTP request through `ExceptionMiddleware`, the middleware,
the router, the endpoint and the response and back out again. `phase` goes

    new -> entering -> endpoint -> resolving -> responding -> closing -> leaving
        -> excusing -> ended            (or new -> refused: the plan is cyclic)

What the application's own code does is left open: a dependency or handler may
fail, the code behind a `yield` may pass an exception on, swallow it or raise
another, and the task may be cancelled wherever it waits. A middleware is any ASGI
callable: it may not call what it wraps, and answer, raise or do neither
(`ShortCircuit`); and when what it wraps is through it may let the outcome be, raise, or
suppress the exception in flight, and send what is still to be sent (`LeaveMiddleware`).
What it may not do here is send a start before it hands the request on, or withhold
what passes through it.

### `WebSocketHandler`

The `WebSocket` object in the hands of a handler that makes any calls in any order
and may catch what they raise, under the websocket branch of
`ExceptionMiddleware`, over a bridge reduced to what its `send` and `receive` show.
The two states of the object (`client`, `app`) run beside the state of the bridge
(`wire`), which the peer, the codec or the server may close at any time.

| Code | Model |
|---|---|
| `accept` | `Accept`, which takes the connect message itself, and `Accepted` when the turn has come |
| `receive`, `receive_text`, `receive_bytes` | `Receive(kind)`: refused (`Refused`), answered at once with what is queued or with the end, or waiting until `Delivered` |
| `send_text`, `send_bytes` | `SendData`, `Drained` |
| `close` | `Close`; before the accept it denies the handshake, and waits in `deny` for the turn of its 403 |
| `_call_websocket`, `_close_for` | `Leave`, `LeaveExceptions`, `CloseFor` |
| `_on_ws_task_done` | `TaskDone` |
| the cancel of `connection_lost` | `Cancelled`, wherever the task waits: in a call, in an await of the handler's own, or in the close of the exception layer |

### `WebSocketBridge` (contract)

A websocket session between `receive()` and `send()`: the state of the session, the
queue, whether its end is known, whether the connection is gone, and the one call the
application waits in. Of itself the server delivers messages, ends the session or
loses the connection (`ServerStep`); the rest is what may come of a call (`CallStep`).
It has no transport, turnstile, ping, batch or exception in it. What it says:

- the end is told in the step in which the session ends, once, and wakes a waiting
  `receive()`; nobody begins to wait for a message when the end is known;
- a session that is over is opened by nothing but an accept that was waiting for its
  turn, which stands (one of the divergences);
- a handshake is answered once, and only while it is undecided; a message is sent only
  on an open session;
- only a lost connection cancels a call.

Both sides are shown to implement it, each against any other side. `WebSocketProtocol`
has the server in full and an application that makes any legal call; `WebSocketHandler`
has the application in full and a server that does whatever the contract allows.
Their mappings:

    contract    WebSocketProtocol                           WebSocketHandler
    state       wsState, CONNECTING before the upgrade      wire
    queue       queue, <<"connect">> before the upgrade     queue
    known       told # "none"                               known
    lost        disconnected                                lost
    call        the await the task is in (Awaited)          call, the three receives as one

In both modules `KeepsContract` is the contract under the mapping. It is what makes the
small bridge of `WebSocketHandler` an honest one: no step of the real connection is
missing in it (see *Proofs*).

## Runs

Every property of a passing run has a mutant: an operator introduced as a
*Mutation* in the module, a plausible bug in the definition that follows it, which
the property catches.

| Run | Checks | Shows |
|---|---|---|
| `pipeline_order` | `ResponsesInOrder`, `CloseHonoured`, `LoneTimeout`, `KeepsPromises` | responses in order, complete, and the last one announced the close, with errors and upgrades behind good requests, drains, disconnects and shutdown; the refinement of `ResponseStream` |
| `answered` | `RequestsAnswered`, `ReadingResumes` | liveness with slow clients and parser errors, two bodies that cross the watermark |
| `reaped` | `DisconnectObserved`, `TasksReaped` | every task of a lost connection ends, whatever it waits for and however its application behaves, and no cancellation overtakes a delivered message |
| `ws_session` | `CloseIsLast`, `CloseToldTruly`, `DisconnectLast`, `HeldUntilDecided`, `SessionEndsWithTask`, `GoodbyeAtShutdown`, `AnsweredNotDropped` | a session with violations, pings, slow client, half-close, loss and shutdown, and no request ahead |
| `ws_live` | `ResponseBeforeHandshake`, `KeepsContract`, `HandshakeAnswered`, `PingResolved` | the composition with the request ahead, prologue included: the order of the two responses, the refinement of `WebSocketBridge`, and liveness |
| `shutdown` | type, `OnlyCancelledOutlive`, `NothingLeftOpen`, `InFlightDrained`, `NobodyHangs` | the server's life in every lifespan mode, with Sonix and foreign applications, failing startup, shutdown and bind, against a connection with pipelined requests and a handshake behind them, which anything may end: the drain cuts nothing off before its deadline, and what else may is named |
| `segmentation` | `DeliveredIsSent`, `AllIsDelivered`, `EofToldTruly`, `BufferBounded`, `ReadsWholeStream` | the same requests and messages however the bytes are cut; every fault found where it is; nothing parsed behind an upgrade; the refinement of `WholeStream` |
| `dispatch` | `RoutedRight`, `PlanIsRight`, `ScalarsFirst`, `ClosedAfterUsers`, `ClosedAfterResponse`, `AllClosed`, `AnsweredOrRaised` | one request inside the application, with failure, suppression and cancellation wherever they can happen |
| `ws_handler` | `ToldTruly`, `ClosedOnce`, `NeverDangles`, `KeepsContract` | a handler that makes any five calls: one close, with the code of what happened; the refinement of `WebSocketBridge` from the other side |
| `parse_error`, `keep_alive`, `teardown` | one property each, violated | the findings below |

### Bounds

- Connection runs: a slot interacts with its neighbours only, so two requests and a
  failure behind them already give a first, a middle and a last link.
  `MaxRequests` bounds requests, `MaxChunks` the chunks of a body before its last,
  `MaxWrites` the non-final bodies of a response. Watermarks are 1/0 or 2/0 rather
  than 32/8, so that two chunks cross them. In `answered` applications only listen
  on after their response, because an exception closes the connection and so
  satisfies the liveness properties; `reaped` has every habit but one and no
  chunk but the last of a body, because there the waits matter and not the queues.
- `ws_session` has three inbound messages, which cross watermarks of 2/1 in both
  directions, and one ping of the server, which is enough for a second due time,
  the timeout. It leaves out the request ahead and the prologue because with them
  `HeldUntilDecided` and `DisconnectLast` do not hold, and a late upgrade because
  of `GoodbyeAtShutdown`: see the divergences. The other properties of the run are
  theorems for every choice of disturbances. `ws_live` uses 1/0, one message and
  one unread message of the request ahead: what it asks is who waits for whom,
  and its state graph has to be searched for cycles.
- `shutdown` has every lifespan mode, every habit and every disturbance, and one
  connection: two requests and the session behind them give it a first, a middle and a
  last link, and they compete with each other, the signal, the drain and its deadline.
  Connections do not touch one another; they meet in the drain and the force-close,
  which go over all of them. What is said of these (the type, `OnlyCancelledOutlive`,
  `NothingLeftOpen`, `InFlightDrained`) is proved for any number of connections and
  requests; `NobodyHangs` has been checked for one connection only. `teardown` needs
  one request.
- `segmentation` has every pair of requests of the kinds in `MCInbound` (bodies
  with a length, in chunks, with trailers, folded or repeated headers, every kind
  of refusal), and every pair of frames or messages behind an upgrade, in all
  mixtures of segments of 1, 2, 3, 5, 8 or all units. A pair is enough because
  nothing is carried further than from one item to the next. The limits (12 units
  of head, 3 headers, body 3, message 4, control payload 3) are crossed by items
  made for it. Lines stay well below the line limit or well above it: a line at
  the limit is judged by the segment its CR comes in, which is listed below.
- `dispatch` has eight graphs - a trivial one, one of scalars, a diamond, a chain
  of generators under a threaded handler, a generator two levels down, one used
  with the cache and without it, and two cyclic ones - every table of up to two
  routes of four kinds, two methods, and up to two middleware with and without
  debug.
- `ws_handler`: five calls are accept, receive, send, close and one out of order;
  two messages are one of each type.

Deadlock is checked in `shutdown`, `teardown`, `segmentation`, `dispatch` and `ws_handler`, whose ends are explicit stuttering steps, so that nothing but an end
may stop. It is not in the connection runs: a connection that is closed and whose
tasks have ended stops, as it should.

### Fairness

`LoopFairness`: the event loop runs every ready callback and resumes every ready
task, and `data_received` gets to the end of its batch; asyncio's ready queue is
FIFO, so weak fairness is less than it gives. `EnvironmentFairness`: an
application does not stop between two awaits, and the client finishes the bodies
it began, eventually reads what it is sent (`resume_writing` comes), and a closed
transport reports `connection_lost`. No fairness on new requests, errors, losses,
timeouts or shutdown. `RequestsAnswered` excepts a request cut by a parser error
(`Dangling`): that is the first finding. In `WebSocketProtocol` the loop also
fires the ping timer (`OnPingDue`). The steps of the tasks, of the application
and of the request ahead have strong fairness there, because a batch of frame
events, one callback in the code, is several steps in the model, during which
they are disabled: a peer that never stops sending cannot starve them in the
code's event loop. The environment is fair in that the
application goes on between awaits, the request ahead is answered, the peer
reads, and a closed transport reports `connection_lost`; nothing makes the peer
send, answer a ping, or close.

`Server`: the loop runs every step of `Server.run()` and of the lifespan runner
that is due, the drain deadline passes, a client takes the bytes it is sent or its
connection breaks (`Flush`, `ConnectionLost`), and the context manager of a Sonix
application comes to an end. Nothing makes a request handler or a foreign
application end, and no signal needs to come. `Application` and
`WebSocketHandler` only state that their task goes on; no property needs it.

## Findings

1. **A dangling head of an earlier segment is not dropped** (`protocol.py:520`).
   `_completed_request_events` removes an unfinished request only from the batch
   that failed. If its head came in an earlier `data_received`, its application
   waits for a chunk that never comes, the error response waits behind it, and
   the connection is never closed. Run `parse_error`.
2. **Answering without reading the body wedges keep-alive** (`protocol.py:669`).
   Only `receive()` resumes reading. Run `keep_alive`.
3. **The teardown may run under a handler** (`server.py:321`). `shutdown()` waits
   for transports, not for the tasks of their requests. A force-closed handler is
   cancelled, but one whose cleanup awaits, or a sync one in its worker thread, is
   still running when the lifespan closes its resources, against the comment at
   `server.py:317`. Run `teardown`; what does hold is `OnlyCancelledOutlive`.

Divergences seen while modelling that have no run of their own. The model has the
behaviour, and the runs choose `Disturbances` and habits so as to keep it out of
the properties it would break; those marked (text) are outside the model.

HTTP:

- Ending without a response releases the turnstile out of turn
  (`protocol.py:587`): of three pipelined requests the third can be answered before
  the first. `NoneAbandoned` in the proofs is what it breaks.
- `should_exit` is read before the turnstile is awaited (`protocol.py:626`): a
  response that waited across the start of a shutdown says keep-alive.
- A shutdown does not finish pipelined requests (`protocol.py:653`): the first
  response started after `should_exit` says close, and its last body closes the
  transport. A request behind it that was in flight before the shutdown, and whose
  application has started its response already, is never answered, long before the
  deadline and against the comment at `protocol.py:622`: one of the exceptions in
  `InFlightDrained`.
- Any request's `receive()` resumes reading on the size of its own queue
  (`protocol.py:669`), whatever the newest queue holds.
- An exception in a later pipelined request closes the transport, and drops an
  earlier response that is still being written (`protocol.py:594`): one of the
  exceptions in `InFlightDrained`.
- A rejected set of headers counts as started, which defeats the 500
  (`protocol.py:617`; text).

Websocket:

- The hold before the accept does not hold when a request is ahead
  (`protocol.py:669`): it shares `_reading_paused`, its `receive()` clears it, and
  pings are answered before the 101 (`HeldUntilDecided` with `ahead`). The accept
  then resumes a reading that a full queue had paused (`protocol.py:987`).
- A handler that returns undecided leaves the socket open (`protocol.py:920`), with
  reading paused and every timer disarmed (`SessionEndsWithTask` with
  `returns_early`).
- Any byte settles a ping (`protocol.py:816`); payloads are compared to no effect,
  against `docs/architecture.md:328`.
- A shutdown cuts off the response ahead of an undecided handshake
  (`protocol.py:907`): one of the exceptions in `InFlightDrained`.
- An accept that awaits its turn reopens a session that a shutdown closed
  meanwhile (`protocol.py:980`).
- Messages of the prologue are queued behind the disconnect (`protocol.py:993`)
  when the connection is lost before the accept (`DisconnectLast` with
  `prologue`).
- A pong behind data that a slow application keeps unread does not count, and
  the session ends with 1011 (`protocol.py:791`): the exception in
  `AnsweredNotDropped`.
- A handshake dispatched during a shutdown gets no goodbye (`server.py:296`;
  `GoodbyeAtShutdown` with `late_upgrade`).
- Two tasks that send on one websocket share one `_drain_waiter`
  (`protocol.py:958`): the second overwrites the waiter of the first, which is
  never woken. The model has one sender.

Server and lifespan:

- The force-close may drop what a slow client has not taken, and without the
  deadline `wait_closed` waits for it: "nothing is left for it to wait on"
  (`server.py:314`) is true only of clients that read.
- Under `auto` a misconfigured application, or a lifespan factory that raises, is
  taken for one without a lifespan and served (`lifespan.py:77`,
  `server.py:108`).
- A failed bind leaves the lifespan without its shutdown (`server.py:251`).
- The lifespan shutdown has no timeout (`server.py:145`): a foreign application that
  never answers hangs the exit. `NobodyHangs` excepts it.

Parser:

- An incomplete line is measured with the CR it may already hold, a complete one
  without (`parser.py:222`): a line exactly at the limit is accepted in one segment
  and refused if the segment ends between its CR and LF.

Application:

- A sync callable that was given up runs on in its thread while the exit stack
  closes what it uses (`applications.py:95`, `di.py:579`, against the comment at
  `applications.py:107`): the exception in `ClosedAfterUsers`.
- A `yield` dependency or a middleware that swallows an exception, and a middleware
  that returns without calling what it wraps or answering, leave the client without a
  response, which neither the exception layer nor the server notices
  (`middleware.py:132`, `protocol.py:589`): the exception `swallowed` in
  `AnsweredOrRaised`.
- Hooks registered between the startup and the first request are accepted and
  never run (text).
- A send behind the peer's close raises `RuntimeError` and not
  `WebSocketDisconnect` (`protocol.py:966`), and so is logged, and raised again
  under debug.
- `receive()` of a disconnect before the accept, and then `accept()`, leaves the
  object connected for sending and disconnected for receiving.

## Proofs

Each theorem holds for every value of the constants that satisfies the `ASSUME`s of
its module; further assumptions are stated in it.

### HTTP: `HTTPProtocolProofs`, `ResponseStream`

For every number of requests, chunks and writes, every watermark, and every habit and
disturbance. `NoneAbandoned` says that no application has returned from an open
connection with its response unfinished. The server does not check that, and the first
divergence shows it is needed; so it is not a choice of constants but a condition on
the behaviour, and what the theorems promise stands for as long as it does.
`TidyApplications` discharges it for applications that complete their responses or
raise (`NoAbandons`): that nothing but the end of a coroutine can break it is its own
invariant.

| Theorem | Statement |
|---|---|
| `TypeCorrect` | `Spec => []TypeOK` |
| `DisconnectDelivered` | `Spec => []DisconnectObserved` |
| `TimeoutIsAlone` | `Spec => []LoneTimeout` |
| `ResponseOrder` | `Spec /\ []NoneAbandoned => [](ResponsesInOrder /\ PredecessorsComplete)` |
| `ImplementsStream` | `Spec /\ []NoneAbandoned => KeepsPromises` |
| `CloseEnds` | `Spec /\ []NoneAbandoned => []CloseIsFinal` |
| `CloseKept` | `Spec /\ []NoneAbandoned => []CloseHonoured` |
| `TidyApplications` | `NoAbandons => (Spec => ...)`, all four |
| `ResponseStream!CloseEndsStream` | the abstract stream satisfies `[]NothingAfterClose` |

The inductive invariant is a conjunction of named parts, each with its own
lemmas:

- `TypeInv`: types, and that a slot is free when one is spawned (`SlotsBounded`),
  without which the types are not inductive.
- `CancelInv`: after `connection_lost` no task enters the wait of `receive()`, and
  those in it are owed a wake-up before any cancellation.
- `SlotInv`: what each slot's task can be doing.
- `TimerInv`: an armed head timer has seen no request; once it has fired the
  connection is closed and has no slot.
- `TurnInv`: while the transport is open, the released links are a prefix of the
  slots, a released link belongs to a complete response, and a task past its turn
  has its head on the wire. It speaks only of an open transport because
  cancellation and exceptions release links at random once it closes.
- `WireInv`: the order on the wire, which follows from whose turn it is.
- `CloseInv`: a response that announced the close has not released its link.

`ImplementsStream` maps each step to a step of the stream or to a stutter;
`CloseEnds` is then the theorem of the abstract stream, carried over.

### Websocket: `WebSocketProofs`

For every bound, watermark, habit and disturbance, but for the assumption named.

| Theorem | Statement | Invariant |
|---|---|---|
| `SessionTyped` | `Spec => []TypeOK` | itself |
| `PauseIsOwned` | `Spec => []PauseOwned` | itself, with the types |
| `NobodyLeftWaiting` | `Spec => []BlockedIsWoken` | itself, with the types |
| `MessageBeforeCancel` | `Spec => []CancelOvertakesNothing` | `CancelInv`: a cancelled task was told first, and its wake-up is ahead of the cancel |
| `NoSocketDangles` | without `returns_early`: `Spec => []SessionEndsWithTask` | `OwnerInv`: a told session is closing, or its 403 waits for its turn |
| `NothingBehindClose` | `Spec => []CloseIsLast` | `FarewellInv`: a farewell on the wire means a closing transport, and has the code that was told |
| `GoodbyeIsTold` | `Spec => []CloseToldTruly` | `FarewellInv`, with `ToldInv`: once the application is told, nothing ends the session a second time on an open transport |
| `AnsweredIsKept` | `Spec => AnsweredNotDropped` | `PingInv`: while the countdown runs, a pong that has come is among the unread bytes |
| `HandshakeAwaitsTurn` | `Spec => []ResponseBeforeHandshake` | itself, with the types |
| `HeldBeforeAccept` | without `ahead`: `Spec => []HeldUntilDecided` | `HoldInv`: itself, and that nobody is ahead |
| `GoodbyeIsSaid` | without `late_upgrade`: `Spec => GoodbyeAtShutdown` | `ShutdownInv`: what a shutdown leaves open was closed before it and waits for the turn of its 403 |
| `ServerKeepsContract` | `Spec => KeepsContract` | `SessionInv`: what the state of the session says of its task, its end and the batch; with `CancelInv` |
| `DisconnectComesLast` | without `prologue`: `Spec => []DisconnectLast` | `ControlEnd`: no frame is handled once the application has been told; `QueueEnd`: before that no disconnect is queued or seen |

Each assumption is needed: the divergences above are the counterexamples.

`ServerKeepsContract` needs none. Each step is taken to a step of `WebSocketBridge`, or
to one that the application cannot see: pings, watermarks, writes, batches, timers and
the request ahead (`ContractQuiet`), whatever ends the session (`ContractFinish`,
`ContractOfServer`), the steps of the task (`ContractOfTask`) and its calls
(`ContractOfCalls`). `NobodyLeftWaiting` is what it says of one state.

### Server: `ServerProofs`

For any set of connections, any number of requests on each, and any modes, kinds of
application, habits and disturbances.
`IInv` ties the phase of the server to its runner and connections (`Phases`), the
runner to the flags and the task (`Flags`), and, for a Sonix application, the task to
its resources (`Context`).

| Theorem | Statement |
|---|---|
| `TypeCorrect` | `Spec => []TypeOK`: the registry is exact until the drain has ended |
| `ListensReady` | `Spec => []ListensOnlyReady` |
| `CleanExit` | `Spec => []NothingLeftOpen` |
| `CancelledBeforeTearDown` | `Spec => []OnlyCancelledOutlive` |
| `TearDownLast` | without `lingers`: `Spec => []ResourcesOpen`; the `teardown` run shows why not with it |
| `RequestsDrained` | `Spec => InFlightDrained`: of `BeginShutdown` and `EndDrain`, the first closes only what is idle or upgraded, the second only what is idle or overdue |

### Bytes: `InboundProofs`, `WritingProofs`

For any streams, cuts and limits.

| Theorem | Statement |
|---|---|
| `BytesTyped` | `Spec => []TypeOK` |
| `BodiesBounded` | `Spec => []BodyBounded`: no body exceeds `max_body_size`, declared or chunked |
| `BuffersBounded` | `Spec => []BufferBounded` |
| `SegmentsDoNotMatter` | `Spec => ReadsWholeStream` |
| `SentIsTold` | `Spec => []DeliveredIsSent`, for streams that are `WellWritten` |
| `EverythingIsTold` | `Spec => []AllIsDelivered`, for the same |
| `EofIsTold` | `Spec => []EofToldTruly`, for the same |

`IInv` adds to the types that an accepted content length is within the limit
(`LengthsChecked`), and that the body told so far and the bytes still due come to no
more than what was allowed (`BodyAddsUp`).

`SegmentsDoNotMatter` is the refinement of `WholeStream`. What a parser holds is a
prefix of what is ahead, and everything it decides on is decided by that prefix: the
first CRLF of the part is the first of the whole (`LineAgrees`), a line that is too
long in part is too long or at the limit (`LineIsWhole`), a frame whose head is
refused or whose end is there is the next of the whole (`FrameIsWhole`), and what is
cut off the part is cut off the whole (`CutPrefix`). So each step of a parser is the
step of the same name of `WholeStream`, an arriving segment is a stutter
(`Arriving`), and the hand-over is `Switch`. It takes two facts beyond `IInv`
(`Untold`): a chunk that is being read is not read to its end, and `FrameParser` is
empty before the switch.

The last three rest on it. `There` says where a parser is in the writing of the client:
what it has still to read (`HTTPAhead`, `FramesAhead`) is what the client writes from
some position `p`, and its state is what the client is about at `p`, its part, lines,
bytes still due and messages so far (`HTTPAt`, `FramesAt`); or the stream is over for
it, with all that it means told (`GaveUp`, `FramesOver`). Because every step is a step
of `WholeStream`, segments are gone from the argument: `HTTPProgress` shows for each
part of a request that the reading step takes the parser from the position of the part
to the position where it ends, `FrameProgress` the same for a frame (`FrameFound` reads
back what `EncodeFrame` wrote, mask and extended length included), and `Waiting` that a
parser that is blocked with nothing to come has read everything. `StaysThere` puts them
together, and the properties are read off `There`.

### Application: `ApplicationProofs`

For every graph, route table, number of middleware and habit.

| Theorem | Statement |
|---|---|
| `RequestTyped` | `Spec => []TypeOK`: what a call uses was called before it |
| `UsersComeFirst` | `Spec => []ClosedAfterUsers` |
| `ResponseComesFirst` | `Spec => []ClosedAfterResponse` |
| `NothingStaysOpen` | `Spec => []AllClosed` |
| `AnsweredOnce` | `Spec => [](AnsweredOrRaised /\ OneHead)`: but for a client that has gone, an exception that was suppressed and a middleware that did not answer |
| `RoutedToFirst` | `Spec => []RoutedRight` |
| `PlanFitsGraph` | `Spec => []PlanIsRight` |
| `NothingRunsUnchecked` | `Spec => []ScalarsFirst` |

The argument of `UsersComeFirst`: the exit stack increases strictly in the index of
the calls and holds all open generators (`Stacked`), a call only uses calls before
it (`Bounded`), and nothing is closed while the resolution still calls; so whoever
uses a generator is above it on the stack, and closed first. `Phased` ties the
stack to the phase, `Told` the response to the exceptions.

The last three are about recursive functions, along a route table and down a graph.
The induction theorems of the library cannot be used, since they take an operator;
instead a set of numbers has a least member (`LeastNumber`, from `WFMin`), and that
member of the set of counterexamples is refuted. A recursive function is by
definition some solution of its equation: a solution is exhibited that does not recurse
(what lies in `Below`), so that the equation holds, and two solutions agree, on a table
at the least index where they would not (`UpTo`), on a graph at a callable below which
no other is left (`Bottom`, `Agree`), and for `Circular` at the largest set of seen
callables (`CircularIs`). `PlanInv` is what the phases of the specification add: a plan
is accepted only if the graph below its handler has no cycle, and nothing is called
before every scalar has been looked at (`Sound`).

### Websocket handler: `WebSocketHandlerProofs`

For any number of calls and messages, with and without debug.

| Theorem | Statement |
|---|---|
| `SessionTyped` | `Spec => []TypeOK` |
| `SessionAgrees` | `Spec => []StatesAgree` |
| `SessionEndsOnce` | `Spec => [](ClosedOnce /\ ToldOnce)` |
| `SessionToldTruly` | `Spec => []ToldTruly` |
| `SessionNeverDangles` | `Spec => []NeverDangles` |
| `HandlerKeepsContract` | `Spec => KeepsContract` |
| `AnyServer` | every `ServerStep` of the contract, within the bound on messages, is a step of this module's environment |

`Agree` ties the object's states to the bridge, `Once` counts what can happen once,
`Verdict` follows the handler's exception to the close the peer is sent.

The last two, with `ServerKeepsContract`, close the circle. The server gives any
application a session of the contract; the application keeps to the contract on any
server; and no server of the contract does what this module leaves out. So what is
proved of the handler here holds over the connection of `WebSocketProtocol`. What the
contract does not say - that a granted turn or a drained write ever comes - is liveness,
and `ws_live` has it for the server.

### Only model-checked

All liveness (`RequestsAnswered`, `ReadingResumes`, `TasksReaped`,
`HandshakeAnswered`, `PingResolved`, `NobodyHangs`) is out of the prover's reach. Every
invariant, every action property and every refinement that a passing run checks is
stated by a theorem. The type invariants of all modules are proved; `shutdown`
also checks one.

## Not modelled

- Text: header encoding and validation, the ASGI scope, status texts, cookies,
  queries, rendering of bodies, path patterns and converters, the validation of
  handshake headers (`websockets.py:263` to 314), signature inspection and value
  conversion of `di.py`, the `iter_*` and `*_json` helpers.
- HTTP/1.0 as such (it only decides `clientClose`), and a `Connection` header the
  application supplies.
- Messages that break ASGI order: `send()` raises, which is `raises`. The code
  does not notice a body sent after the last one.
- Time: timers fire at any moment after they are armed.
- `require_mask` is true, as the server sets it; reading stays paused between the
  head of an upgrade and the accept.
- `_assert_not_started` and the decorators, which run before the server does; the
  body stream of `Request`; the command line, type aliases and the demo.
- asyncio itself: `wait_closed`, `task.cancel` and the transports are modelled from
  how the code uses them.

## What is next

1. An application that sends on one websocket from two tasks.
2. The body stream of `Request` against the receive queue.
3. The websocket theorems with a request ahead, weakened to what holds there.
4. The queue of the contract counted: `AnyServer` holds within `MaxMessages`, which
   bounds the model and not the server.
