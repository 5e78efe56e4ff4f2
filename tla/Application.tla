------------------------------ MODULE Application ------------------------------
(***************************************************************************)
(* One HTTP request inside a Sonix application: the exception layer, the   *)
(* middleware, the router, the endpoint with its dependencies and the      *)
(* response (applications.py, middleware.py, routing.py, di.py and         *)
(* responses.py under src/src/sonix/app).                                  *)
(*                                                                         *)
(* A scenario is what was registered and what is asked for: the routes and *)
(* the method, the callables of the handler, the query parameters with bad *)
(* values, the number of middleware, and debug.  What the application's    *)
(* own code does - return, raise, swallow - is left open, and the task may *)
(* be cancelled wherever it waits, as the server does when the client goes.*)
(***************************************************************************)
EXTENDS Injection, Router

CONSTANTS
    Scenarios,  \* what may be registered and asked
    Habits,     \* what the code behind a yield does: "passes", "swallows", "fails"
    Cancels     \* whether the task may be cancelled

ASSUME ScenariosAssumption ==
    \A s \in Scenarios :
        /\ WellFormed(s.graph) /\ WellRouted(s.routes)
        /\ s.middleware \in Nat /\ s.debug \in BOOLEAN

ASSUME HabitsAssumption == Habits \subseteq {"passes", "swallows", "fails"} /\ Cancels \in BOOLEAN

VARIABLES
    scenario,  \* what this behavior is about
    phase,     \* where the request is
    depth,     \* the middleware it is inside of
    raised,    \* the exception in flight, "none" for none
    last,      \* history: the last exception that was raised
    swallowed, \* history: since then, the application's code has suppressed it,
               \* or has returned without an answer
    started,   \* response_started: a start has been handed to send
    heads,     \* the response heads that were written
    complete   \* the last body has been sent

response == <<started, heads, complete>>
vars == <<scenario, graph, injection, phase, depth, raised, last, swallowed, response>>

Init ==
    /\ scenario \in Scenarios /\ graph = scenario.graph
    /\ frames = <<>> /\ cache = <<>> /\ invoked = <<>> /\ stack = <<>>
    /\ phase = "new" /\ depth = 0
    /\ raised = "none" /\ last = "none" /\ swallowed = FALSE
    /\ started = FALSE /\ heads = 0 /\ complete = FALSE

GoTo(p) == phase' = p

\* An exception takes the place of the one in flight.
Raises(e) == raised' = e /\ last' = e /\ swallowed' = FALSE

NothingRaised == UNCHANGED <<raised, last, swallowed>>

\* The exception in flight is suppressed.
Drops ==
    /\ raised # "none" /\ raised' = "none"
    /\ swallowed' = TRUE /\ UNCHANGED last

\* What code that is not the framework's may raise, or be made to raise.
Failures == {"http", "error"} \cup (IF Cancels THEN {"cancelled"} ELSE {})

-----------------------------------------------------------------------------
\* The route is registered: its plan is built, or refused.
AddRoute ==
    /\ phase = "new"
    /\ GoTo(IF Refused THEN "refused" ELSE "entering")
    /\ UNCHANGED <<scenario, graph, injection, depth, raised, last, swallowed, response>>

\* A middleware hands the request on.
EnterMiddleware ==
    /\ phase = "entering" /\ depth < scenario.middleware
    /\ depth' = depth + 1
    /\ UNCHANGED <<scenario, graph, injection, phase, raised, last, swallowed, response>>

\* What a middleware may send itself: nothing, a start that is written or
\* refused, a whole response, or the end of one begun below it.
Sends ==
    \/ UNCHANGED response
    \/ ~started /\ started' = TRUE /\ heads' \in {heads, heads + 1} /\ UNCHANGED complete
    \/ ~started /\ started' = TRUE /\ heads' = heads + 1 /\ complete' = TRUE
    \/ started /\ complete' = TRUE /\ UNCHANGED <<started, heads>>

\* A middleware does not call what it wraps: it raises, or returns with an
\* answer or without one.
ShortCircuit ==
    /\ phase = "entering" /\ depth < scenario.middleware
    /\ Sends /\ GoTo("leaving")
    /\ \/ \E e \in Failures : Raises(e)
       \/ UNCHANGED <<raised, last>> /\ swallowed' = ~complete'
    /\ UNCHANGED <<scenario, graph, injection, depth>>

Routed == Dispatch(scenario.routes, "http", scenario.method)

CallRouter ==
    /\ phase = "entering" /\ depth = scenario.middleware
    /\ \/ Routed[1] = "route" /\ GoTo("endpoint") /\ NothingRaised
       \/ Routed[1] # "route" /\ Raises("http") /\ GoTo("leaving")
    /\ UNCHANGED <<scenario, graph, injection, depth, response>>

\* The endpoint: every scalar of the whole graph is looked at first.
Endpoint ==
    /\ phase = "endpoint"
    /\ \/ /\ ~IsTrivial /\ Errors(scenario.bad) # {}
          /\ Raises("validation") /\ GoTo("leaving") /\ UNCHANGED frames
       \/ /\ IsTrivial \/ Errors(scenario.bad) = {}
          /\ frames' = <<Frame(Handler, FALSE)>>
          /\ GoTo("resolving") /\ NothingRaised
    /\ UNCHANGED <<scenario, graph, cache, invoked, stack, depth, response>>

\* Resolving takes a step, and nobody has failed.
Resolve ==
    /\ phase = "resolving"
    /\ TakeParam \/ Descend \/ Invoke \/ DependencyReturns
    /\ UNCHANGED <<scenario, graph, phase, depth, raised, last, swallowed, response>>

\* Mutation: the exit stack is left before the response is sent.
CoerceOutsideStack ==
    /\ phase = "resolving" /\ HandlerReturns
    /\ GoTo(IF stack = <<>> THEN "responding" ELSE "closing") /\ NothingRaised
    /\ UNCHANGED <<scenario, graph, depth, response>>

\* The result of the handler is made a Response.
Coerce ==
    /\ phase = "resolving" /\ HandlerReturns
    /\ \/ GoTo("responding") /\ NothingRaised
       \/ GoTo("closing") /\ Raises("error")
    /\ UNCHANGED <<scenario, graph, depth, response>>

\* Mutation: the exit stack is left on success only.
ResolveFailsUnclosed ==
    /\ phase = "resolving" /\ CallFails
    /\ Raises("error") /\ GoTo("leaving")
    /\ UNCHANGED <<scenario, graph, depth, response>>

\* Only what reads the body of the request meets a client that has gone.
ResolveFails ==
    /\ phase = "resolving" /\ CallFails
    /\ \E e \in {"http", "error", "disconnect"} : Raises(e)
    /\ GoTo("closing")
    /\ UNCHANGED <<scenario, graph, depth, response>>

CancelCall ==
    /\ Cancels /\ phase = "resolving" /\ CallCancelled
    /\ Raises("cancelled") /\ GoTo("closing")
    /\ UNCHANGED <<scenario, graph, depth, response>>

\* The start of the response: the server may refuse its headers, and the task
\* may be cancelled while it waits for its turn.
StartResponse ==
    /\ phase = "responding" /\ ~started
    /\ started' = TRUE
    /\ \/ heads' = heads + 1 /\ UNCHANGED phase /\ NothingRaised
       \/ Raises("error") /\ GoTo("closing") /\ UNCHANGED heads
       \/ Cancels /\ Raises("cancelled") /\ GoTo("closing") /\ UNCHANGED heads
    /\ UNCHANGED <<scenario, graph, injection, depth, complete>>

\* Its body, which may have to wait for the client.
SendBody ==
    /\ phase = "responding" /\ started
    /\ GoTo("closing")
    /\ \/ complete' = TRUE /\ NothingRaised
       \/ Cancels /\ Raises("cancelled") /\ UNCHANGED complete
    /\ UNCHANGED <<scenario, graph, injection, depth, started, heads>>

-----------------------------------------------------------------------------
\* What the code behind a yield does with the exception in flight.
Tidy(habit) ==
    \/ habit = "passes" /\ NothingRaised
    \/ habit = "swallows" /\ Drops
    \/ habit = "fails" /\ Raises("error")

\* The exit stack of the endpoint unwinds.
Unwind ==
    /\ phase = "closing" /\ CloseDependency
    /\ \/ \E habit \in Habits : Tidy(habit)
       \/ /\ Cancels /\ Kind(invoked[Newest].call) = "agen"
          /\ Raises("cancelled")
    /\ UNCHANGED <<scenario, graph, phase, depth, response>>

LeaveEndpoint ==
    /\ phase = "closing" /\ stack = <<>>
    /\ GoTo("leaving")
    /\ UNCHANGED <<scenario, graph, injection, depth, raised, last, swallowed, response>>

\* The middleware see the outcome in turn: each may let it be, fail on it, or
\* suppress the exception, and answer by itself in any of these cases.
LeaveMiddleware ==
    /\ phase = "leaving" /\ depth > 0 /\ depth' = depth - 1
    /\ Sends
    /\ NothingRaised \/ Drops \/ \E e \in Failures : Raises(e)
    /\ UNCHANGED <<scenario, graph, injection, phase>>

\* Which exceptions the exception layer gives back to the server: one that is
\* no Exception, one that debug shows, and one it can no longer answer.
Passed ==
    \/ raised = "cancelled"
    \/ scenario.debug /\ raised = "error"
    \/ started /\ raised # "disconnect"

\* Mutation: cancellation is taken for a client that has gone.
SilentIfCancelled == raised \in {"none", "disconnect", "cancelled"}

\* There is nothing to answer, or nobody.
Silent == raised \in {"none", "disconnect"}

LeaveExceptions ==
    /\ phase = "leaving" /\ depth = 0
    /\ \/ Silent /\ raised' = "none" /\ GoTo("ended")
       \/ ~Silent /\ Passed /\ GoTo("ended") /\ UNCHANGED raised
       \/ ~Silent /\ ~Passed /\ GoTo("excusing") /\ UNCHANGED raised
    /\ UNCHANGED <<scenario, graph, injection, depth, last, swallowed, response>>

\* The exception handler that was looked up fails, or its response is sent.
Excuse ==
    /\ phase = "excusing" /\ GoTo("ended")
    /\ \/ /\ heads' = heads + 1 /\ complete' = TRUE
          /\ raised' = "none" /\ UNCHANGED <<last, swallowed>>
       \/ Raises("error") /\ UNCHANGED <<heads, complete>>
       \/ /\ Cancels /\ Raises("cancelled") /\ UNCHANGED complete
          /\ heads' \in {heads, heads + 1}
    /\ UNCHANGED <<scenario, graph, injection, depth, started>>

-----------------------------------------------------------------------------
\* A worker thread whose task has given up on it comes to its end.
ThreadReturns ==
    /\ \E i \in DOMAIN invoked : ThreadEnds(i)
    /\ UNCHANGED <<scenario, graph, phase, depth, raised, last, swallowed, response>>

Ended == phase \in {"refused", "ended"}

Steps ==
    \/ AddRoute \/ EnterMiddleware \/ ShortCircuit \/ CallRouter \/ Endpoint
    \/ Resolve \/ Coerce \/ ResolveFails \/ CancelCall \/ StartResponse \/ SendBody
    \/ Unwind \/ LeaveEndpoint \/ LeaveMiddleware \/ LeaveExceptions \/ Excuse

Next == Steps \/ ThreadReturns \/ (Ended /\ UNCHANGED vars)

Spec == Init /\ [][Next]_vars /\ WF_vars(Steps)

-----------------------------------------------------------------------------
Outcomes == {"none", "http", "validation", "error", "disconnect", "cancelled"}

TypeOK ==
    /\ phase \in {"new", "refused", "entering", "endpoint", "resolving", "responding",
                  "closing", "leaving", "excusing", "ended"}
    /\ depth \in 0..scenario.middleware
    /\ raised \in Outcomes /\ last \in Outcomes
    /\ swallowed \in BOOLEAN /\ started \in BOOLEAN /\ complete \in BOOLEAN
    /\ heads \in 0..2
    /\ \A i \in DOMAIN invoked :
          /\ invoked[i].call \in DOMAIN graph
          /\ invoked[i].uses \subseteq 1..(i - 1)
          /\ invoked[i].state \in {"running", "value", "open", "closed", "failed"}
    /\ \A i \in DOMAIN stack : stack[i] \in DOMAIN invoked

\* The route that serves a request is the first that was registered for it, and
\* a request that none serves is told 405 with all the methods of its path, or
\* 404 (routing.py:202).
RoutedRight ==
    Routed = Expected(scenario.routes, "http", scenario.method)
    /\ Dispatch(scenario.routes, "websocket", "GET")
         = Expected(scenario.routes, "websocket", "GET")

\* The callables below a callable: the least set with those it depends on, and
\* with those that any in it depends on.
Below(c) ==
    {d \in DOMAIN graph : \A s \in SUBSET DOMAIN graph :
        DependsOn(c) \subseteq s /\ (\A e \in s : DependsOn(e) \subseteq s) => d \in s}

\* A plan is refused exactly if a callable below the handler, or the handler, is
\* below itself; sharing one is no cycle.  A plan that is accepted knows of every
\* generator below the handler (di.py:275).
PlanIsRight ==
    /\ phase = "refused" =>
          \E c \in Below(Handler) \cup {Handler} : c \in Below(c)
    /\ phase = "entering" =>
          /\ \A c \in Below(Handler) \cup {Handler} : c \notin Below(c)
          /\ NeedsTeardown[Handler] <=> \E c \in Below(Handler) : IsGenerator(c)

\* No callable runs on behalf of a request with a bad query parameter anywhere
\* in its graph (di.py:541).
ScalarsFirst ==
    invoked # <<>> => \A c \in Below(Handler) \cup {Handler} :
        \A i \in DOMAIN Params(c) : Params(c)[i][1] = "query" => Params(c)[i][2] \notin scenario.bad

\* The exit stack closes a dependency after everything that was made of it: no
\* generator above it is open, and no callable on the event loop uses it.
ClosedAfterUsers ==
    \A i, j \in DOMAIN invoked :
        invoked[i].state = "closed" /\ i \in invoked[j].uses =>
            \/ invoked[j].state \in {"value", "closed", "failed"}
            \/ invoked[j].state = "running" /\ Kind(invoked[j].call) = "sync"

\* Dependencies are closed when the response is out, or something was raised
\* (applications.py:107).
ClosedAfterResponse ==
    (\E i \in DOMAIN invoked : invoked[i].state = "closed") => complete \/ last # "none"

\* Nothing that was opened is open when the endpoint is left.
AllClosed ==
    phase \in {"leaving", "excusing", "ended"} =>
        stack = <<>> /\ \A i \in DOMAIN invoked : invoked[i].state # "open"

\* A request ends with one whole response, or with an exception for the server.
\* What leaves neither is a client that has gone, or the application's own code:
\* a dependency or a middleware that suppresses an exception, or a middleware
\* that returns without an answer.  An exception raised after that counts again.
AnsweredOrRaised ==
    phase = "ended" =>
        complete \/ raised # "none" \/ last = "disconnect" \/ swallowed

\* No second response is begun over a first one (middleware.py:146).
OneHead == heads <= 1

=============================================================================
