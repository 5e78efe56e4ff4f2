----------------------------- MODULE ServerProofs -----------------------------
(***************************************************************************)
(* What module Server promises for any set of connections: its types and   *)
(* the exactness of the registry, when it listens, what it drains, and     *)
(* what is left when it exits.  The inductive invariant IInv says in       *)
(* addition how far the lifespan task, the runner and the phase of the     *)
(* server may be apart.                                                    *)
(***************************************************************************)
EXTENDS Server, TLAPS

Stopping == runner \in {"stopping", "reaping", "stopped", "stopFailed"}

\* The phase of the server against its runner and its connections.
Phases ==
    /\ Stopping <=> phase \in {"teardown", "exited"}
    /\ phase \in {"serving", "unwinding", "draining", "closing"} => runner = "started"
    /\ phase = "exited" => runner \in {"stopped", "stopFailed"}
    /\ phase \in {"new", "starting"} =>
          registered = {} /\ \A c \in Conn : transport[c] = "none"
    /\ phase \in {"closing", "teardown", "exited"} => registered = {}
    /\ phase \in {"teardown", "exited"} => AllDetached
    /\ \A h \in Handler : stage[h] \in InProgress => transport[h[1]] \in {"open", "closing"}

\* The runner against its flags and the task.
Flags ==
    /\ runner = "starting" => mode # "off"
    /\ mode = "off" \/ runner = "idle" => task = "none"
    /\ startupDone => acknowledged \/ (task = "ended" /\ ~supported)
    /\ ~supported => task = "ended"
    /\ runner \notin {"idle", "starting", "startFailed"} => Ready

\* The task of a Sonix application against its resources and the runner.
Context ==
    /\ task \in {"none", "new", "entering"} =>
          ~acknowledged /\ ~failure /\ resources = "none"
    /\ task \in {"new", "entering"} => runner = "starting"
    /\ task = "new" => queue = <<"startup">>
    /\ task \in {"entering", "serving"} /\ ~Stopping => queue = <<>>
    /\ task = "serving" => resources = "open"
    /\ task = "exiting" => resources = "closing"
    /\ task = "ended" => resources \in {"none", "closed"}
    /\ resources \in {"closing", "closed"} => Stopping
    /\ task = "ended" /\ resources = "none" /\ acknowledged => failure
    /\ resources = "none" /\ failure => runner \in {"starting", "startFailed"}
    /\ shutdownDone => task = "ended"
    /\ runner \in {"reaping", "stopped", "stopFailed"} => task \in {"none", "ended"}

IInv ==
    /\ TypeOK /\ Phases /\ Flags
    /\ app = "sonix" => Context
    /\ app = "foreign" => resources = "none"

-----------------------------------------------------------------------------
LEMMA QueueFacts ==
    /\ <<>> \in Seq({"startup", "shutdown"})
    /\ <<"startup">> \in Seq({"startup", "shutdown"})
    /\ Tail(<<"startup">>) = <<>>
  OBVIOUS

LEMMA InitIInv == Init => IInv
<1> SUFFICES ASSUME Init PROVE IInv
  OBVIOUS
<1> USE DEF Init, LifespanInit
<1>1. LifespanTypeOK
  BY QueueFacts DEF LifespanTypeOK
<1>2. TypeOK
  BY <1>1 DEF TypeOK
<1>3. Phases
  BY DEF Phases, Stopping, InProgress, Unanswered
<1>4. Flags /\ Context
  BY DEF Flags, Context
<1>5. QED
  BY <1>2, <1>3, <1>4 DEF IInv

\* The parts that speak of the lifespan only.
LifespanInv ==
    /\ LifespanTypeOK /\ Flags
    /\ app = "sonix" => Context
    /\ app = "foreign" => resources = "none"

\* The parts that speak of the connections only, given the phase.
ConnectionInv ==
    /\ phase \in {"new", "starting", "serving", "unwinding", "draining", "closing",
                  "teardown", "exited", "crashed"}
    /\ overdue \in BOOLEAN
    /\ registered \in SUBSET Conn
    /\ transport \in [Conn -> {"none", "open", "closing", "lost"}]
    /\ unsent \in SUBSET Conn
    /\ stage \in [Handler -> {"none", "lingering", "gone"} \cup InProgress]
    /\ phase \in {"serving", "unwinding", "draining"} =>
          registered = {c \in Conn : transport[c] \in {"open", "closing"}}
    /\ phase \in {"new", "starting"} =>
          registered = {} /\ \A c \in Conn : transport[c] = "none"
    /\ phase \in {"closing", "teardown", "exited"} => registered = {}
    /\ phase \in {"teardown", "exited"} => AllDetached
    /\ \A h \in Handler : stage[h] \in InProgress => transport[h[1]] \in {"open", "closing"}

\* The phase against the runner.
PhaseOfRunner ==
    /\ Stopping <=> phase \in {"teardown", "exited"}
    /\ phase \in {"serving", "unwinding", "draining", "closing"} => runner = "started"
    /\ phase = "exited" => runner \in {"stopped", "stopFailed"}

LEMMA SplitIInv == IInv <=> LifespanInv /\ ConnectionInv /\ PhaseOfRunner
  BY DEF IInv, LifespanInv, ConnectionInv, PhaseOfRunner, TypeOK, Phases

-----------------------------------------------------------------------------
\* What a step of the lifespan does to the parts about it.
LEMMA LifespanStepInv ==
    ASSUME LifespanInv,
           Startup \/ Started \/ Stop \/ Answered \/ Reap \/ Sonix \/ Foreign
    PROVE  LifespanInv'
<1> USE DEF LifespanInv, LifespanTypeOK, Flags, Ready, Stopping, Context,
            runnerState, flags
<1>1. CASE Startup
  BY <1>1, QueueFacts DEF Startup
<1>2. CASE Started
  BY <1>2, ModesAssumption DEF Started, Fatal
<1>3. CASE Stop
  BY <1>3 DEF Stop
<1>4. CASE Answered
  BY <1>4 DEF Answered
<1>5. CASE Reap
  BY <1>5 DEF Reap, MainEnds, Live
<1>6. CASE SonixBegins
  <2> app = "sonix" /\ task = "new" /\ queue = <<"startup">>
    BY <1>6 DEF SonixBegins
  <2>1. CASE task' = "entering"
    BY <1>6, <2>1, QueueFacts DEF SonixBegins, MainEnds
  <2>2. CASE task' = "ended"
    <3>1. queue' \in Seq({"startup", "shutdown"}) /\ MainEnds(TRUE)
      BY <1>6, <2>2, QueueFacts DEF SonixBegins
    <3>2. QED
      BY <1>6, <2>2, <3>1 DEF SonixBegins, MainEnds
  <2>3. QED
    BY <1>6, <2>1, <2>2 DEF SonixBegins, MainEnds
<1>7. CASE SonixEnters
  BY <1>7 DEF SonixEnters, Send, SendLast, MainEnds
<1>8. CASE SonixLeaves
  BY <1>8 DEF SonixLeaves
<1>9. CASE SonixExits
  BY <1>9 DEF SonixExits, SendLast, MainEnds
<1>10. CASE Foreign
  <2>1. app = "foreign" /\ Live /\ UNCHANGED <<mode, app, runner, resources>>
    BY <1>10 DEF Foreign
  <2>2. CASE queue # <<>> /\ queue' = Tail(queue) /\ UNCHANGED <<task, flags>>
    BY <2>1, <2>2
  <2>3. ASSUME NEW message, Send(message), UNCHANGED <<task, queue, supported>>
        PROVE  LifespanInv'
    BY <2>1, <2>3 DEF Send, Live
  <2>4. ASSUME NEW escaped \in BOOLEAN, MainEnds(escaped),
               UNCHANGED <<queue, acknowledged, failure>>
        PROVE  LifespanInv'
    BY <2>1, <2>4 DEF MainEnds, Live
  <2>5. QED
    BY <1>10, <2>2, <2>3, <2>4 DEF Foreign
<1>11. QED
  BY <1>1, <1>2, <1>3, <1>4, <1>5, <1>6, <1>7, <1>8, <1>9, <1>10 DEF Sonix

LEMMA LifespanUnchanged ==
    ASSUME LifespanInv, UNCHANGED lifespan PROVE LifespanInv'
  BY DEF LifespanInv, LifespanTypeOK, Flags, Ready, Stopping, Context, lifespan,
         runnerState, flags

\* The runner moves within a phase only before the server serves, or in the
\* teardown.
LEMMA RunnerWithinPhase ==
    ASSUME LifespanInv, PhaseOfRunner, UNCHANGED phase,
           Started \/ Answered \/ Reap \/ Sonix \/ Foreign
    PROVE  PhaseOfRunner'
  BY DEF PhaseOfRunner, Stopping, Started, Answered, Reap, Sonix, SonixBegins,
         SonixEnters, SonixLeaves, SonixExits, Foreign, runnerState, LifespanInv,
         LifespanTypeOK

-----------------------------------------------------------------------------
\* A handler on its way, and what becomes of it.
LEMMA HandlerTypes ==
    /\ Request \subseteq Handler
    /\ \A c \in Conn : Session(c) \in Handler /\ Session(c)[1] = c /\ Session(c)[2] = 0
    /\ \A h \in Handler : h[1] \in Conn /\ h[2] \in Int
  BY MaxRequestsAssumption DEF Handler, Request, Session

\* What a step of the server does to its connections.
LEMMA ConnectionStepInv ==
    ASSUME ConnectionInv, Next, ~LifespanStep PROVE ConnectionInv'
<1> USE HandlerTypes DEF ConnectionInv, AllDetached, connections, server, InProgress,
            Unanswered
<1>1. CASE StartUp \/ StartupFails \/ Bind \/ TearDown \/ Exit \/ DeadlinePasses
  <2>1. UNCHANGED connections
    BY <1>1 DEF StartUp, StartupFails, Bind, TearDown, Exit, DeadlinePasses
  <2>2. CASE StartUp \/ StartupFails \/ DeadlinePasses
    BY <2>1, <2>2 DEF StartUp, StartupFails, DeadlinePasses
  <2>3. CASE Bind
    BY <2>1, <2>3 DEF Bind
  <2>4. CASE TearDown \/ Exit
    BY <2>1, <2>4 DEF TearDown, Exit
  <2>5. QED
    BY <1>1, <2>2, <2>3, <2>4
<1>2. CASE Signal
  BY <1>2 DEF Signal, Closed
<1>3. CASE BeginShutdown
  BY <1>3 DEF BeginShutdown, Closed
<1>4. CASE EndDrain
  BY <1>4 DEF EndDrain, Closed
<1>5. ASSUME NEW c \in Conn, Connect(c) PROVE ConnectionInv'
  BY <1>5 DEF Connect
<1>6. ASSUME NEW c \in Conn, Upgrade(c) PROVE ConnectionInv'
  BY <1>6 DEF Upgrade
<1>7. ASSUME NEW c \in Conn, CloseSession(c) PROVE ConnectionInv'
  BY <1>7 DEF CloseSession, Closed
<1>8. ASSUME NEW c \in Conn, EofReceived(c) \/ HeadTimeout(c) PROVE ConnectionInv'
  BY <1>8 DEF EofReceived, HeadTimeout, Closed
<1>9. ASSUME NEW c \in Conn, Flush(c) PROVE ConnectionInv'
  BY <1>9 DEF Flush
<1>10. ASSUME NEW c \in Conn, ConnectionLost(c) PROVE ConnectionInv'
  BY <1>10 DEF ConnectionLost, Cancelled
<1>11. ASSUME NEW h \in Handler,
              BeginRequest(h) \/ SendStart(h) \/ Write(h) \/ CleanedUp(h)
       PROVE  ConnectionInv'
  BY <1>11 DEF BeginRequest, SendStart, Write, CleanedUp
<1>12. ASSUME NEW h \in Handler, Answer(h) PROVE ConnectionInv'
  BY <1>12 DEF Answer, Closed
<1>13. ASSUME NEW h \in Handler, Ends(h) PROVE ConnectionInv'
  BY <1>13 DEF Ends, Closed
<1>14. CASE Over
  BY <1>14 DEF Over, vars
<1>15. QED
  BY <1>1, <1>2, <1>3, <1>4, <1>5, <1>6, <1>7, <1>8, <1>9, <1>10, <1>11, <1>12,
     <1>13, <1>14 DEF Next

-----------------------------------------------------------------------------
\* The steps of run() keep the phase and the runner together.
LEMMA PhaseStepInv ==
    ASSUME LifespanInv, PhaseOfRunner, Next, ~LifespanStep PROVE PhaseOfRunner'
<1> USE DEF PhaseOfRunner, Stopping
<1>1. CASE StartUp
  BY <1>1 DEF StartUp, Startup
<1>2. CASE TearDown
  BY <1>2 DEF TearDown, Stop
<1>3. CASE \/ StartupFails \/ Bind \/ Signal \/ BeginShutdown \/ DeadlinePasses
            \/ EndDrain \/ Exit
  BY <1>3 DEF StartupFails, Bind, Signal, BeginShutdown, DeadlinePasses, EndDrain,
     Exit, lifespan, runnerState
<1>4. CASE Over
  BY <1>4 DEF Over, vars, lifespan, runnerState, server
<1>5. ASSUME NEW c \in Conn,
             \/ Connect(c) \/ Upgrade(c) \/ CloseSession(c) \/ EofReceived(c)
             \/ HeadTimeout(c) \/ Flush(c) \/ ConnectionLost(c)
      PROVE  PhaseOfRunner'
  BY <1>5 DEF Connect, Upgrade, CloseSession, EofReceived, HeadTimeout, Flush,
     ConnectionLost, lifespan, runnerState
<1>6. ASSUME NEW h \in Handler,
             \/ BeginRequest(h) \/ SendStart(h) \/ Write(h) \/ Answer(h) \/ Ends(h)
             \/ CleanedUp(h)
      PROVE  PhaseOfRunner'
  BY <1>6 DEF BeginRequest, SendStart, Write, Answer, Ends, CleanedUp, lifespan,
     runnerState
<1>7. QED
  BY <1>1, <1>2, <1>3, <1>4, <1>5, <1>6, HandlerTypes DEF Next

\* What the steps that are not the lifespan's own leave of it.
LEMMA LifespanOfNext ==
    ASSUME Next, ~LifespanStep
    PROVE  Startup \/ Stop \/ UNCHANGED lifespan
  BY DEF Next, StartUp, StartupFails, Bind, Signal, BeginShutdown, DeadlinePasses,
     EndDrain, TearDown, Exit, Over, Connect, Upgrade, CloseSession, EofReceived,
     HeadTimeout, Flush, ConnectionLost, BeginRequest, SendStart, Write, Answer, Ends,
     CleanedUp, vars

LEMMA ConnectionUnchanged ==
    ASSUME ConnectionInv, UNCHANGED server PROVE ConnectionInv'
  BY DEF ConnectionInv, AllDetached, server, connections

LEMMA NextIInv == IInv /\ [Next]_vars => IInv'
<1> SUFFICES ASSUME IInv, [Next]_vars PROVE IInv'
  OBVIOUS
<1>1. LifespanInv /\ ConnectionInv /\ PhaseOfRunner
  BY SplitIInv
<1>2. LifespanInv' /\ ConnectionInv' /\ PhaseOfRunner'
  <2>1. CASE UNCHANGED vars
    <3>1. UNCHANGED lifespan /\ UNCHANGED server
      BY <2>1 DEF vars
    <3>2. PhaseOfRunner'
      BY <1>1, <3>1 DEF PhaseOfRunner, Stopping, lifespan, runnerState, server
    <3>3. QED
      BY <1>1, <3>1, <3>2, LifespanUnchanged, ConnectionUnchanged
  <2>2. CASE LifespanStep
    <3>1. UNCHANGED phase
      BY <2>2 DEF LifespanStep, server
    <3>2. QED
      BY <1>1, <2>2, <3>1, LifespanStepInv, RunnerWithinPhase, ConnectionUnchanged
         DEF LifespanStep
  <2>3. CASE Next /\ ~LifespanStep
    <3>1. LifespanInv'
      BY <1>1, <2>3, LifespanOfNext, LifespanStepInv, LifespanUnchanged
    <3>2. QED
      BY <1>1, <2>3, <3>1, ConnectionStepInv, PhaseStepInv
  <2>4. QED
    BY <2>1, <2>2, <2>3
<1>3. (LifespanInv /\ ConnectionInv /\ PhaseOfRunner => IInv)'
  BY SplitIInv, PTL
<1>4. QED
  BY <1>2, <1>3

THEOREM Invariance == Spec => []IInv
  BY InitIInv, NextIInv, PTL DEF Spec

\* The types, and a registry that is exact until the drain has ended, for any
\* set of connections: ServerState of protocol.py.
THEOREM TypeCorrect == Spec => []TypeOK
<1>1. IInv => TypeOK
  BY DEF IInv
<1>2. QED
  BY <1>1, Invariance, PTL

\* Server.startup never lets a client reach an application whose startup it
\* reported as failed or did not finish.
THEOREM ListensReady == Spec => []ListensOnlyReady
<1>1. IInv => ListensOnlyReady
  BY DEF IInv, TypeOK, LifespanTypeOK, Phases, Flags, Context, ListensOnlyReady, Stopping
<1>2. QED
  BY <1>1, Invariance, PTL

\* Server.shutdown leaves no transport, no registered connection and no open
\* context manager behind.
THEOREM CleanExit == Spec => []NothingLeftOpen
<1>1. IInv => NothingLeftOpen
  BY AppsAssumption DEF IInv, TypeOK, LifespanTypeOK, Phases, Context, NothingLeftOpen
<1>2. QED
  BY <1>1, Invariance, PTL

-----------------------------------------------------------------------------
\* A handler that runs has a transport, which the teardown waits for.
LEMMA IInvOutlive == IInv => OnlyCancelledOutlive
<1> SUFFICES ASSUME IInv, NEW h \in running, resources \in {"closing", "closed"}
             PROVE  FALSE
  BY DEF OnlyCancelledOutlive
<1>1. h \in Handler /\ stage[h] \in InProgress /\ h[1] \in Conn
  BY HandlerTypes DEF running
<1>2. phase \in {"teardown", "exited"}
  BY AppsAssumption DEF IInv, TypeOK, LifespanTypeOK, Phases, Context
<1>3. QED
  BY <1>1, <1>2 DEF IInv, Phases, AllDetached

\* No cancelled handler takes its time.
NoLingering == \A h \in Handler : stage[h] # "lingering"

LEMMA NextNoLingering ==
    ASSUME "lingers" \notin Habits, TypeOK, NoLingering, [Next]_vars
    PROVE  NoLingering'
<1> USE HandlerTypes DEF NoLingering, TypeOK
<1>1. CASE UNCHANGED stage
  BY <1>1
<1>2. ASSUME NEW h \in Handler,
             stage' \in {[stage EXCEPT ![h] = s] : s \in {"running", "keep", "close",
                                                         "answered", "gone"}}
      PROVE  NoLingering'
  BY <1>2
<1>3. ASSUME NEW c \in Conn, Upgrade(c) \/ CloseSession(c) PROVE NoLingering'
  BY <1>2, <1>3 DEF Upgrade, CloseSession
<1>4. ASSUME NEW c \in Conn, ConnectionLost(c) PROVE NoLingering'
  BY <1>4 DEF ConnectionLost, Cancelled
<1>5. ASSUME NEW h \in Handler,
             BeginRequest(h) \/ SendStart(h) \/ Answer(h) \/ Ends(h) \/ CleanedUp(h)
      PROVE  NoLingering'
  BY <1>2, <1>5 DEF BeginRequest, SendStart, Answer, Ends, CleanedUp
<1>6. QED
  BY <1>1, <1>3, <1>4, <1>5 DEF Next, StartUp, StartupFails, Bind, Signal, BeginShutdown,
     DeadlinePasses, EndDrain, TearDown, Exit, Over, Connect, EofReceived, HeadTimeout,
     Flush, Write, LifespanStep, vars, server, connections

\* The teardown of Server.shutdown finds no handler that has not been cancelled.
THEOREM CancelledBeforeTearDown == Spec => []OnlyCancelledOutlive
<1>1. IInv => OnlyCancelledOutlive
  BY IInvOutlive
<1>2. QED
  BY <1>1, Invariance, PTL

\* It finds no handler at all, provided a cancelled one ends at once.
THEOREM TearDownLast ==
    ASSUME "lingers" \notin Habits PROVE Spec => []ResourcesOpen
<1>1. Init => NoLingering
  BY DEF Init, NoLingering
<1>2. IInv /\ NoLingering /\ [Next]_vars => NoLingering'
  BY NextNoLingering DEF IInv
<1>3. IInv /\ NoLingering => ResourcesOpen
  BY IInvOutlive DEF NoLingering, lingering, ResourcesOpen, OnlyCancelledOutlive
<1>4. QED
  BY <1>1, <1>2, <1>3, Invariance, PTL DEF Spec

\* The drain of Server.shutdown cuts no request off before its deadline: its
\* connection closes under it only behind an earlier response that said close,
\* or where a task raised, the client hung up, or a handshake is behind it.
THEOREM RequestsDrained == Spec => InFlightDrained
<1> DEFINE Excused(h) == \/ overdue \/ Signal \/ EofReceived(h[1])
                         \/ BeginShutdown /\ h[1] \in websocket
                         \/ \E g \in Handler :
                              /\ g[1] = h[1] /\ Closes(g)
                              /\ g[2] < h[2] \/ stage'[g] = "gone"
<1>1. ASSUME IInv, [Next]_vars, NEW h \in Request, CutsOff(h) PROVE Excused(h)
  <2> USE HandlerTypes
  <2>1. /\ h \in Handler /\ stage[h] \in Unanswered /\ stage'[h] \in Unanswered
        /\ transport[h[1]] = "open" /\ transport'[h[1]] = "closing"
    BY <1>1 DEF CutsOff
  <2>2. h \in InFlight(h[1])
    BY <2>1 DEF InFlight, running, InProgress
  <2>3. CASE BeginShutdown
    BY <2>1, <2>2, <2>3 DEF BeginShutdown, Closed, ClosedAtOnce, IsIdle
  <2>4. CASE EndDrain
    <3>1. h[1] \in registered
      BY <1>1, <2>1, <2>4 DEF EndDrain, IInv, TypeOK
    <3>2. QED
      BY <2>2, <2>4, <3>1 DEF EndDrain, Busy, IsIdle
  <2>5. ASSUME NEW g \in Handler, Answer(g) PROVE Excused(h)
    <3>1. g[1] = h[1] /\ stage[g] = "close" /\ Turn(g)
      BY <2>1, <2>5 DEF Answer, Closed
    <3>2. stage'[g] = "answered"
      BY <1>1, <2>5 DEF Answer, IInv, TypeOK
    <3>3. g # h
      BY <2>1, <3>2 DEF Unanswered
    <3>4. g[2] # 0 /\ ~(h[2] < g[2])
      BY <2>1, <3>1 DEF Turn
    <3>5. g[2] < h[2]
      <4>1. g[2] # h[2]
        BY <3>1, <3>3 DEF Handler, Request
      <4>2. QED
        BY <3>4, <4>1
    <3>6. QED
      BY <3>1, <3>2, <3>5 DEF Closes
  <2>6. ASSUME NEW g \in Handler, Ends(g) PROVE Excused(h)
    <3>1. g[1] = h[1] /\ stage[g] \in InProgress
      BY <2>1, <2>6 DEF Ends, Closed
    <3>2. stage'[g] = "gone"
      BY <1>1, <2>6 DEF Ends, IInv, TypeOK
    <3>3. QED
      BY <3>1, <3>2 DEF Closes
  <2>7. ASSUME NEW c \in Conn, CloseSession(c) PROVE FALSE
    BY <2>1, <2>7 DEF CloseSession, Closed, Turn
  <2>8. ASSUME NEW c \in Conn, EofReceived(c) PROVE Excused(h)
    <3>1. c = h[1]
      BY <2>1, <2>8 DEF EofReceived, Closed
    <3>2. QED
      BY <2>8, <3>1
  <2>9. ASSUME NEW c \in Conn, HeadTimeout(c) PROVE FALSE
    BY <2>1, <2>9 DEF HeadTimeout, Closed, Unanswered
  <2>10. ASSUME \/ UNCHANGED transport
                \/ \E d \in Conn : Connect(d) \/ ConnectionLost(d)
         PROVE  FALSE
    BY <1>1, <2>1, <2>10 DEF Connect, ConnectionLost, IInv, TypeOK
  <2>11. QED
    BY <1>1, <2>3, <2>4, <2>5, <2>6, <2>7, <2>8, <2>9, <2>10 DEF Next, StartUp,
       StartupFails, Bind, DeadlinePasses, TearDown, Exit, Over, Upgrade, Flush,
       BeginRequest, SendStart, Write, CleanedUp, LifespanStep, server, connections,
       vars
<1>2. IInv /\ [Next]_vars => [\A h \in Request : CutsOff(h) => Excused(h)]_vars
  BY <1>1
<1>3. QED
  BY <1>2, Invariance, PTL DEF Spec, InFlightDrained

=============================================================================
