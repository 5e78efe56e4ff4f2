-------------------------------- MODULE Server --------------------------------
(***************************************************************************)
(* The server of src/src/sonix/server/server.py: startup, serving and the  *)
(* graceful shutdown, with its connections and the lifespan of module      *)
(* Lifespan.  Server.run() is one task of the event loop; `phase` says     *)
(* where it is.                                                            *)
(*                                                                         *)
(* A connection is what ServerState and Server.shutdown() see of an        *)
(* HTTPProtocol: its transport, whether it is registered, and the handlers *)
(* that run for it.  Its own behaviour is in modules HTTPProtocol and      *)
(* WebSocketProtocol.                                                      *)
(***************************************************************************)
EXTENDS Lifespan, Integers

CONSTANTS
    Conn,         \* the connections that may be made
    MaxRequests,  \* requests a client may make on one connection
    Disturbances  \* what the network, the clients and the applications may do

ASSUME MaxRequestsAssumption == MaxRequests \in Nat

\* bind_fails: the address is taken; slow_client: a response stays in the
\* write buffer; lost: a connection breaks; hangs_up: a client ends its half
\* of the connection, or sends nothing; upgrade: a handshake arrives; asks_close:
\* a request or its response asks for the connection to close, or fails to
\* parse; raises: an application fails.
ASSUME DisturbancesAssumption ==
    Disturbances \subseteq {"bind_fails", "slow_client", "lost", "hangs_up",
                            "upgrade", "asks_close", "raises"}

VARIABLES
    phase,       \* the progress of Server.run()
    overdue,     \* the deadline of the drain has passed
    registered,  \* ServerState.connections
    transport,   \* the transport of each connection
    unsent,      \* connections with bytes in the write buffer
    stage        \* how far the task of each request and session has come

connections == <<registered, transport, unsent, stage>>
server      == <<phase, overdue, connections>>
vars        == <<lifespan, server>>

\* The requests of a connection are numbered as they arrive; 0 is its session.
Handler == Conn \X (0 .. MaxRequests)
Request == Conn \X (1 .. MaxRequests)

Session(c) == <<c, 0>>

\* A handler has decided whether its response says close once it has sent the
\* start of it; a denied session is to say close with its 403.  It is answered
\* when the response is complete, or the session has been closed, and goes on
\* until it ends; a cancelled one may linger in its cleanup.
Unanswered == {"running", "keep", "close"}
InProgress == Unanswered \cup {"answered"}

Init ==
    /\ LifespanInit
    /\ phase = "new" /\ overdue = FALSE
    /\ registered = {} /\ transport = [c \in Conn |-> "none"]
    /\ unsent = {} /\ stage = [h \in Handler |-> "none"]

running   == {h \in Handler : stage[h] \in InProgress}
lingering == {h \in Handler : stage[h] = "lingering"}
websocket == {c \in Conn : stage[Session(c)] # "none"}

\* A cancelled handler is still in flight.
InFlight(c) == {h \in running \cup lingering : h[1] = c}

\* The turnstile: everything ahead of h on its connection is answered or over.
\* A session is behind every request of its connection.
Turn(h) ==
    \A g \in Request : g[1] = h[1] /\ (g[2] < h[2] \/ h[2] = 0)
                         => stage[g] \notin Unanswered

\* ServerState.should_exit.
ShouldExit == phase \notin {"new", "starting", "serving", "unwinding"}

IsIdle(c) == InFlight(c) = {}

Busy == {c \in registered : ~IsIdle(c)}

\* transport.close() of every connection in cs: what is buffered goes out
\* first, then connection_lost is called.
Closed(cs) == [c \in Conn |-> IF c \in cs /\ transport[c] = "open" THEN "closing"
                              ELSE transport[c]]

-----------------------------------------------------------------------------
\* Server.startup: the lifespan first, then the socket.
StartUp ==
    /\ phase = "new" /\ phase' = "starting"
    /\ Startup
    /\ UNCHANGED <<overdue, connections>>

StartupFails ==
    /\ phase = "starting" /\ runner = "startFailed"
    /\ phase' = "crashed"
    /\ UNCHANGED <<lifespan, overdue, connections>>

\* run() has no handler around startup(): a failed bind ends it.
Bind ==
    /\ phase = "starting" /\ runner = "started"
    /\ \/ phase' = "serving"
       \/ "bind_fails" \in Disturbances /\ phase' = "crashed"
    /\ UNCHANGED <<lifespan, overdue, connections>>

\* Mutation: idle or not, connections are closed.
Closable == registered

\* A denied session that waits for the turn of its 403.
Denied(c) == stage[Session(c)] = "close"

\* The connections shutdown() closes before it drains: the idle ones, and
\* through shutdown_websocket those whose session is not closed yet.
ClosedAtOnce == {c \in registered : IsIdle(c) \/ (c \in websocket /\ ~Denied(c))}

\* A signal cancels serve_forever(), and asyncio.Server closes the listening
\* socket before it lets the cancellation through.  What it does with the
\* connections there is a matter of its release: it waits for them to end, or
\* closes them first.
Signal ==
    /\ phase = "serving" /\ phase' = "unwinding"
    /\ transport' \in {transport, Closed(registered)}
    /\ UNCHANGED <<lifespan, overdue, registered, unsent, stage>>

\* shutdown() up to the drain: serve_forever() has returned, a second signal
\* has cancelled its wait, or shutdown() is called by itself.
BeginShutdown ==
    /\ phase \in {"serving", "unwinding"} /\ phase' = "draining"
    /\ transport' = Closed(ClosedAtOnce)
    /\ UNCHANGED <<lifespan, overdue, registered, unsent, stage>>

\* The deadline of _drain_busy_connections.
DeadlinePasses ==
    /\ phase = "draining" /\ ~overdue
    /\ overdue' = TRUE
    /\ UNCHANGED <<lifespan, phase, connections>>

\* A poll that ends _drain_busy_connections, and the force-close behind it.
EndDrain ==
    /\ phase = "draining" /\ (Busy = {} \/ overdue)
    /\ phase' = "closing"
    /\ transport' = Closed(registered)
    /\ registered' = {}
    /\ UNCHANGED <<lifespan, overdue, unsent, stage>>

\* Mutation: nobody waits for the transports.
NoneAttached == phase = "closing"

\* What asyncio.Server.wait_closed() waits for.
AllDetached == \A c \in Conn : transport[c] \in {"none", "lost"}

TearDown ==
    /\ phase = "closing" /\ AllDetached
    /\ phase' = "teardown"
    /\ Stop
    /\ UNCHANGED <<overdue, connections>>

Exit ==
    /\ phase = "teardown" /\ runner \in {"stopped", "stopFailed"}
    /\ phase' = "exited"
    /\ UNCHANGED <<lifespan, overdue, connections>>

-----------------------------------------------------------------------------
\* connection_made: the listening socket is open while the server serves.
Connect(c) ==
    /\ phase = "serving" /\ transport[c] = "none"
    /\ transport' = [transport EXCEPT ![c] = "open"]
    /\ registered' = registered \cup {c}
    /\ UNCHANGED <<lifespan, phase, overdue, unsent, stage>>

\* A request on an open connection: behind others that are not answered, and
\* in the drain too.
BeginRequest(h) ==
    /\ transport[h[1]] = "open" /\ h[1] \notin websocket
    /\ stage[h] = "none" /\ (h[2] > 1 => stage[<<h[1], h[2] - 1>>] # "none")
    /\ stage' = [stage EXCEPT ![h] = "running"]
    /\ UNCHANGED <<lifespan, phase, overdue, registered, transport, unsent>>

\* A handshake: its session starts behind the requests still in flight.
Upgrade(c) ==
    /\ "upgrade" \in Disturbances
    /\ transport[c] = "open" /\ c \notin websocket
    /\ stage' = [stage EXCEPT ![Session(c)] = "running"]
    /\ UNCHANGED <<lifespan, phase, overdue, registered, transport, unsent>>

\* send() of a response start: close is decided before the turn comes, and is
\* certain once the server is to exit.  A websocket.close before the accept
\* decides for the 403 alike.
SendStart(h) ==
    /\ stage[h] = "running"
    /\ \/ /\ stage' = [stage EXCEPT ![h] = "close"]
          /\ ShouldExit \/ h[2] = 0 \/ "asks_close" \in Disturbances
       \/ stage' = [stage EXCEPT ![h] = "keep"] /\ ~ShouldExit /\ h[2] # 0
    /\ UNCHANGED <<lifespan, phase, overdue, registered, transport, unsent>>

\* What a handler writes in its turn stays in the buffer of a slow client.
Write(h) ==
    /\ "slow_client" \in Disturbances
    /\ stage[h] \in {"keep", "close"} \/ (h[2] = 0 /\ stage[h] = "running")
    /\ Turn(h) /\ transport[h[1]] = "open"
    /\ unsent' = unsent \cup {h[1]}
    /\ UNCHANGED <<lifespan, phase, overdue, registered, transport, stage>>

\* The end of a response: one that said close closes the transport.
Answer(h) ==
    /\ stage[h] \in {"keep", "close"} /\ Turn(h)
    /\ stage' = [stage EXCEPT ![h] = "answered"]
    /\ transport' = IF stage[h] = "close" THEN Closed({h[1]}) ELSE transport
    /\ UNCHANGED <<lifespan, phase, overdue, registered, unsent>>

\* _finish_websocket of a session that was accepted: the peer, the
\* application or the keepalive closes it.
CloseSession(c) ==
    /\ stage[Session(c)] = "running" /\ Turn(Session(c))
    /\ stage' = [stage EXCEPT ![Session(c)] = "answered"]
    /\ transport' = Closed({c})
    /\ UNCHANGED <<lifespan, phase, overdue, registered, unsent>>

\* A task ends, before its answer or behind it.  What it raises closes the
\* transport, and so does an accepted session by returning.  A denied session
\* ends behind its 403.
Ends(h) ==
    /\ stage[h] \in InProgress /\ ~(h[2] = 0 /\ stage[h] = "close")
    /\ stage' = [stage EXCEPT ![h] = "gone"]
    /\ \/ UNCHANGED transport
       \/ /\ "raises" \in Disturbances \/ (h[2] = 0 /\ Turn(h))
          /\ transport' = Closed({h[1]})
    /\ UNCHANGED <<lifespan, phase, overdue, registered, unsent>>

\* eof_received, which has the transport closed whatever is in flight.
EofReceived(c) ==
    /\ "hangs_up" \in Disturbances /\ transport[c] = "open"
    /\ transport' = Closed({c})
    /\ UNCHANGED <<lifespan, phase, overdue, registered, unsent, stage>>

\* _on_head_timeout: nothing arrived on the connection.
HeadTimeout(c) ==
    /\ "hangs_up" \in Disturbances /\ transport[c] = "open"
    /\ \A h \in Handler : h[1] = c => stage[h] = "none"
    /\ transport' = Closed({c})
    /\ unsent' \in {unsent} \cup {unsent \cup {c} : d \in Disturbances \cap {"slow_client"}}
    /\ UNCHANGED <<lifespan, phase, overdue, registered, stage>>

Flush(c) ==
    /\ c \in unsent /\ unsent' = unsent \ {c}
    /\ UNCHANGED <<lifespan, phase, overdue, registered, transport, stage>>

\* connection_lost cancels the handlers still running.  One that only has to
\* unwind is gone when the loop comes to the next callback.
Cancelled(c) ==
    \E end \in {"gone"} \cup (Habits \cap {"lingers"}) :
        stage' = [h \in Handler |->
                    IF h[1] # c \/ stage[h] \notin InProgress THEN stage[h]
                    ELSE IF end = "gone" THEN "gone" ELSE "lingering"]

\* Mutation: a connection that breaks stays registered.
LostLeaks(c) ==
    /\ transport[c] = "closing" /\ c \notin unsent
    /\ transport' = [transport EXCEPT ![c] = "lost"]
    /\ Cancelled(c)
    /\ UNCHANGED <<lifespan, phase, overdue, registered, unsent>>

\* connection_lost: the connection deregisters, and its handlers are cancelled.
ConnectionLost(c) ==
    /\ \/ transport[c] = "closing" /\ c \notin unsent
       \/ "lost" \in Disturbances /\ transport[c] \in {"open", "closing"}
    /\ transport' = [transport EXCEPT ![c] = "lost"]
    /\ registered' = registered \ {c}
    /\ unsent' = unsent \ {c}
    /\ Cancelled(c)
    /\ UNCHANGED <<lifespan, phase, overdue>>

\* A cancelled handler has finished its cleanup.
CleanedUp(h) ==
    /\ stage[h] = "lingering" /\ stage' = [stage EXCEPT ![h] = "gone"]
    /\ UNCHANGED <<lifespan, phase, overdue, registered, transport, unsent>>

-----------------------------------------------------------------------------
LifespanStep ==
    /\ Started \/ Answered \/ Reap \/ Sonix \/ Foreign
    /\ UNCHANGED server

\* The process has ended.
Over == phase \in {"exited", "crashed"} /\ UNCHANGED vars

Next ==
    \/ StartUp \/ StartupFails \/ Bind \/ Signal \/ BeginShutdown \/ DeadlinePasses
    \/ EndDrain \/ TearDown \/ Exit \/ LifespanStep \/ Over
    \/ \E c \in Conn : Connect(c) \/ Upgrade(c) \/ CloseSession(c) \/ EofReceived(c)
                         \/ HeadTimeout(c) \/ Flush(c) \/ ConnectionLost(c)
    \/ \E h \in Request : BeginRequest(h)
    \/ \E h \in Handler : SendStart(h) \/ Write(h) \/ Answer(h) \/ Ends(h)
                            \/ CleanedUp(h)

Spec == Init /\ [][Next]_vars

\* The loop runs what is ready, timers expire, a client takes what is sent to
\* it or its connection breaks, and the context manager of a Sonix application
\* comes to an end.  Nothing makes a request handler or a foreign application
\* end, and no signal needs to arrive.
FairSpec ==
    /\ Spec
    /\ WF_vars(StartUp \/ StartupFails \/ Bind \/ EndDrain \/ TearDown \/ Exit)
    /\ WF_vars(DeadlinePasses)
    /\ WF_vars((Started \/ Answered \/ Reap) /\ UNCHANGED server)
    /\ WF_vars(Sonix /\ UNCHANGED server)
    /\ \A c \in Conn : WF_vars(Flush(c)) /\ WF_vars(ConnectionLost(c))

-----------------------------------------------------------------------------
\* The types, and the registry of ServerState, which is exact as long as the
\* drain relies on it: every live connection, and none that has died.
TypeOK ==
    /\ LifespanTypeOK
    /\ phase \in {"new", "starting", "serving", "unwinding", "draining", "closing",
                  "teardown", "exited", "crashed"}
    /\ overdue \in BOOLEAN
    /\ registered \in SUBSET Conn
    /\ transport \in [Conn -> {"none", "open", "closing", "lost"}]
    /\ unsent \in SUBSET Conn
    /\ stage \in [Handler -> {"none", "lingering", "gone"} \cup InProgress]
    /\ phase \in {"serving", "unwinding", "draining"} =>
          registered = {c \in Conn : transport[c] \in {"open", "closing"}}

\* No client ever reaches an application that is not ready: when the socket
\* listens, the application has acknowledged its startup, or "auto" lets it be
\* served without.  A reported failure is never taken for a missing lifespan.
ListensOnlyReady ==
    phase \notin {"new", "starting", "crashed"} =>
        /\ Ready
        /\ app = "sonix" /\ acknowledged => resources # "none"

\* The comment at server.py:317: no request of an application with a lifespan
\* runs after the resources of that lifespan have begun to close.
ResourcesOpen ==
    running \cup lingering # {} => resources \notin {"closing", "closed"}

\* What holds of it: only a handler that has been cancelled finds them closing.
OnlyCancelledOutlive ==
    running # {} => resources \notin {"closing", "closed"}

\* A server that exits in good order leaves no connection and no resource: the
\* teardown of a context manager that was entered has run to its end.
NothingLeftOpen ==
    phase = "exited" => AllDetached /\ registered = {} /\ resources # "open"

\* The transport of request h closes while h has not been answered.
CutsOff(h) ==
    /\ transport[h[1]] = "open" /\ transport'[h[1]] = "closing"
    /\ stage[h] \in Unanswered /\ stage'[h] \in Unanswered

\* h completes a response that said close, or its task ends.
Closes(h) ==
    \/ stage[h] = "close" /\ stage'[h] = "answered"
    \/ stage[h] \in InProgress /\ stage'[h] = "gone"

\* Before its deadline the drain of shutdown() cuts no request off.  What may:
\* a response ahead of it that said close, a task of its connection that ends
\* by raising, its client, asyncio on the way out of serve_forever(), and for
\* the requests ahead of a handshake shutdown_websocket.
InFlightDrained ==
    [][\A h \in Request :
         CutsOff(h) =>
             \/ overdue \/ Signal \/ EofReceived(h[1])
             \/ BeginShutdown /\ h[1] \in websocket
             \/ \E g \in Handler :
                  /\ g[1] = h[1] /\ Closes(g)
                  /\ g[2] < h[2] \/ stage'[g] = "gone"]_vars

\* Neither the startup nor the exit hangs on a Sonix application, on one that
\* ended its lifespan call, or on a hung request handler.
NobodyHangs ==
    /\ phase = "starting" /\ (app = "sonix" \/ task = "ended")
          ~> phase \in {"serving", "crashed"}
    /\ phase = "draining" /\ (app = "sonix" \/ task = "ended")
          ~> phase = "exited"

=============================================================================
