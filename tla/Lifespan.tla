------------------------------- MODULE Lifespan -------------------------------
(***************************************************************************)
(* The lifespan of the application: LifespanRunner of server.py on the     *)
(* server's side, and on the other side either LifespanHandler of          *)
(* app/lifespan.py, which a Sonix application runs, or any other ASGI      *)
(* application.                                                            *)
(*                                                                         *)
(* The application's call is a task of its own, fed by a queue.  `task`    *)
(* says where it is, `runner` where the server's startup() or shutdown()   *)
(* is.                                                                     *)
(***************************************************************************)
EXTENDS Sequences

CONSTANTS
    Modes,   \* the values of Config.lifespan in this instance
    Apps,    \* the kinds of application
    Habits   \* what the applications may do

ASSUME ModesAssumption == Modes \subseteq {"auto", "on", "off"}

ASSUME AppsAssumption == Apps \subseteq {"sonix", "foreign"}

\* misconfigured: given both lifespan= and hooks, or a factory that raises;
\* startup_fails, shutdown_fails: __aenter__, __aexit__ raises; lingers: a
\* cancelled request handler needs time for its own cleanup.
ASSUME HabitsAssumption ==
    Habits \subseteq {"misconfigured", "startup_fails", "shutdown_fails", "lingers"}

VARIABLES
    mode,         \* LifespanRunner.mode
    app,          \* the kind of application that is served
    runner,       \* the progress of startup() and shutdown()
    task,         \* the progress of the application's lifespan call
    queue,        \* _queue
    startupDone,  \* _startup_done is set
    shutdownDone, \* _shutdown_done is set
    acknowledged, \* _acknowledged
    supported,    \* supported
    failure,      \* _failure is not None
    resources     \* what the context manager of a Sonix application holds

runnerState == <<mode, app, runner>>
flags       == <<startupDone, shutdownDone, acknowledged, supported, failure>>
lifespan    == <<runnerState, task, queue, flags, resources>>

LifespanInit ==
    /\ mode \in Modes /\ app \in Apps
    /\ runner = "idle" /\ task = "none" /\ queue = <<>>
    /\ startupDone = FALSE /\ shutdownDone = FALSE
    /\ acknowledged = FALSE /\ supported = TRUE /\ failure = FALSE
    /\ resources = "none"

-----------------------------------------------------------------------------
\* LifespanRunner.startup up to its wait.
Startup ==
    /\ runner = "idle"
    /\ IF mode = "off" THEN runner' = "started" /\ UNCHANGED <<task, queue>>
       ELSE runner' = "starting" /\ task' = "new" /\ queue' = <<"startup">>
    /\ UNCHANGED <<mode, app, flags, resources>>

\* startup() raises LifespanFailure.
Fatal == failure \/ (~supported /\ mode = "on")

Started ==
    /\ runner = "starting" /\ startupDone
    /\ runner' = IF Fatal THEN "startFailed" ELSE "started"
    /\ UNCHANGED <<mode, app, task, queue, flags, resources>>

\* Mutation: the application is cancelled without being told.
StopSilently ==
    /\ runner = "started"
    /\ runner' = IF mode = "off" THEN "stopped" ELSE "reaping"
    /\ UNCHANGED <<mode, app, queue, task, flags, resources>>

\* LifespanRunner.shutdown up to its wait for the answer.
Stop ==
    /\ runner = "started"
    /\ runner' = CASE mode = "off" -> "stopped"
                   [] mode # "off" /\ supported -> "stopping"
                   [] OTHER -> "reaping"
    /\ queue' = IF runner' = "stopping" THEN Append(queue, "shutdown") ELSE queue
    /\ UNCHANGED <<mode, app, task, flags, resources>>

Answered ==
    /\ runner = "stopping" /\ shutdownDone
    /\ runner' = "reaping"
    /\ UNCHANGED <<mode, app, task, queue, flags, resources>>

Live == task \notin {"none", "ended"}

\* Mutation: the `finally` of _main only sees to the startup.
MainEndsHalf(escaped) ==
    /\ task' = "ended"
    /\ supported' = (supported /\ ~escaped /\ acknowledged')
    /\ startupDone' = TRUE /\ shutdownDone' = (shutdownDone \/ task = "exiting")

\* The `except` and `finally` of _main: the call has ended, by an exception
\* or not.  Whoever waits for an answer is unblocked.
MainEnds(escaped) ==
    /\ task' = "ended"
    /\ supported' = (supported /\ ~escaped /\ acknowledged')
    /\ startupDone' = TRUE /\ shutdownDone' = TRUE

\* A task that is not done is cancelled, and awaited whatever comes of it.  A
\* context manager left that way is not exited.
Reap ==
    /\ runner = "reaping"
    /\ IF Live THEN UNCHANGED acknowledged /\ MainEnds(TRUE)
       ELSE UNCHANGED <<task, supported, startupDone, shutdownDone, acknowledged>>
    /\ runner' = IF failure THEN "stopFailed" ELSE "stopped"
    /\ UNCHANGED <<mode, app, queue, failure, resources>>

-----------------------------------------------------------------------------
\* LifespanRunner._send, without the task's own progress.
Send(message) ==
    /\ startupDone' = (startupDone \/ message \in {"startup.complete", "startup.failed"})
    /\ shutdownDone' = (shutdownDone \/ message \in {"shutdown.complete", "shutdown.failed"})
    /\ acknowledged' = (acknowledged \/ message \in {"startup.complete", "startup.failed"})
    /\ failure' = (failure \/ message \in {"startup.failed", "shutdown.failed"})

\* The last message of a call that returns behind it.
SendLast(message) ==
    /\ acknowledged' = (acknowledged \/ message \in {"startup.complete", "startup.failed"})
    /\ failure' = (failure \/ message \in {"startup.failed", "shutdown.failed"})
    /\ MainEnds(FALSE)

\* The first step of a Sonix application: _build_lifespan, the startup message,
\* the factory, and __aenter__ as far as its first suspension.
SonixBegins ==
    /\ app = "sonix" /\ task = "new"
    /\ \/ /\ task' = "entering" /\ queue' = Tail(queue)
          /\ UNCHANGED flags
       \/ /\ "misconfigured" \in Habits
          /\ queue' \in {queue, Tail(queue)}
          /\ UNCHANGED <<acknowledged, failure>> /\ MainEnds(TRUE)
    /\ UNCHANGED <<runnerState, resources>>

SonixEnters ==
    /\ app = "sonix" /\ task = "entering"
    /\ \/ /\ resources' = "open" /\ task' = "serving"
          /\ Send("startup.complete") /\ UNCHANGED supported
       \/ /\ "startup_fails" \in Habits
          /\ SendLast("startup.failed") /\ UNCHANGED resources
    /\ UNCHANGED <<runnerState, queue>>

SonixLeaves ==
    /\ app = "sonix" /\ task = "serving" /\ queue # <<>>
    /\ queue' = Tail(queue)
    /\ task' = "exiting" /\ resources' = "closing"
    /\ UNCHANGED <<runnerState, flags>>

SonixExits ==
    /\ app = "sonix" /\ task = "exiting"
    /\ resources' = "closed"
    /\ \/ SendLast("shutdown.complete")
       \/ "shutdown_fails" \in Habits /\ SendLast("shutdown.failed")
    /\ UNCHANGED <<runnerState, queue>>

Sonix == SonixBegins \/ SonixEnters \/ SonixLeaves \/ SonixExits

\* Any other application: it takes a message, sends one whether or not it is
\* due, returns, or lets an exception escape, as an unknown message does.
Foreign ==
    /\ app = "foreign" /\ Live
    /\ \/ /\ queue # <<>> /\ queue' = Tail(queue)
          /\ UNCHANGED <<task, flags>>
       \/ /\ \E message \in {"startup.complete", "startup.failed",
                             "shutdown.complete", "shutdown.failed"} : Send(message)
          /\ UNCHANGED <<task, queue, supported>>
       \/ /\ UNCHANGED <<queue, acknowledged, failure>>
          /\ \E escaped \in BOOLEAN : MainEnds(escaped)
    /\ UNCHANGED <<runnerState, resources>>

-----------------------------------------------------------------------------
LifespanTypeOK ==
    /\ mode \in Modes /\ app \in Apps
    /\ runner \in {"idle", "starting", "started", "startFailed", "stopping",
                   "reaping", "stopped", "stopFailed"}
    /\ task \in {"none", "new", "entering", "serving", "exiting", "ended"}
    /\ queue \in Seq({"startup", "shutdown"})
    /\ startupDone \in BOOLEAN /\ shutdownDone \in BOOLEAN
    /\ acknowledged \in BOOLEAN /\ supported \in BOOLEAN /\ failure \in BOOLEAN
    /\ resources \in {"none", "open", "closing", "closed"}

\* The lifespan is up: the application has acknowledged the startup, or it is
\* served without a lifespan because "auto" allows that.
Ready ==
    \/ mode = "off"
    \/ acknowledged
    \/ mode = "auto" /\ task = "ended" /\ ~supported

=============================================================================
