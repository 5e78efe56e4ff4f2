------------------------------- MODULE Injection -------------------------------
(***************************************************************************)
(* Dependency injection, src/src/sonix/app/di.py: the plan of a handler,   *)
(* built once, and its execution for one request.                          *)
(*                                                                         *)
(* A callable is [kind, params].  A kind is "async", "sync" (called in a   *)
(* worker thread), "agen" or "sgen" (a generator, entered on the exit      *)
(* stack).  A parameter is <<"connection">>, <<"query", name>> or          *)
(* <<"depends", callable, use_cache>>; a path parameter is the connection  *)
(* to this model, since it cannot fail once its route has matched.         *)
(*                                                                         *)
(* The recursion of _resolve_params is kept as its frames.  Every call is  *)
(* logged in invoked, and an invocation is known by its index there.       *)
(***************************************************************************)
EXTENDS Integers, Sequences, SequencesExt, FiniteSets

VARIABLES
    graph,    \* the callables of the handler, by name
    frames,   \* who is waiting for a parameter, the handler first
    cache,    \* the invocations that may be used again, by callable
    invoked,  \* every call made: who, on what, and what became of it
    stack     \* the exit stack

injection == <<frames, cache, invoked, stack>>

Handler == "handler"

Kinds == {"async", "sync", "agen", "sgen"}

\* What the signatures of a handler and its dependencies give.
WellFormed(g) ==
    /\ Handler \in DOMAIN g /\ IsFiniteSet(DOMAIN g)
    /\ \A c \in DOMAIN g :
          /\ g[c].kind \in Kinds
          /\ Len(g[c].params) \in Nat /\ DOMAIN g[c].params = 1..Len(g[c].params)
          /\ \A i \in 1..Len(g[c].params) : g[c].params[i][1] = "depends" =>
                g[c].params[i][2] \in DOMAIN g /\ g[c].params[i][3] \in BOOLEAN

Params(c) == graph[c].params
Kind(c)   == graph[c].kind

IsGenerator(c) == Kind(c) \in {"agen", "sgen"}

DependsOn(c) == {p[2] : p \in {q \in Range(Params(c)) : q[1] = "depends"}}

-----------------------------------------------------------------------------
\* The callables that build_plan refuses when it is called with those it has
\* seen: one that is its own ancestor, or has such a one to build.
Circular[seen \in SUBSET DOMAIN graph] ==
    {c \in DOMAIN graph : c \in seen \/ \E d \in DependsOn(c) : d \in Circular[seen \cup {c}]}

\* Mutation: one set of callables seen is shared by the whole graph.
RefusedIfMet ==
    \/ Handler \in Circular[{}]
    \/ \E c, d \in DOMAIN graph : c # d /\ DependsOn(c) \cap DependsOn(d) # {}

Refused == Handler \in Circular[{}]

Queries(c) == {p[2] : p \in {q \in Range(Params(c)) : q[1] = "query"}}

\* _flatten_query_specs: the query parameters of a callable and of those below.
QuerySpecs[c \in DOMAIN graph] ==
    Queries(c) \cup UNION {QuerySpecs[d] : d \in DependsOn(c)}

\* Mutation: only the parameters of the handler itself are checked.
OwnErrors(bad) == Queries(Handler) \cap bad

\* The query parameters whose values are bad, all of them told at once.
Errors(bad) == QuerySpecs[Handler] \cap bad

\* needs_teardown: without it a request has no exit stack.
NeedsTeardown[c \in DOMAIN graph] ==
    \E d \in DependsOn(c) : IsGenerator(d) \/ NeedsTeardown[d]

\* is_trivial: such a plan is not resolved at all.
IsTrivial == Params(Handler) = <<<<"connection">>>>

-----------------------------------------------------------------------------
Frame(c, cached) == [call |-> c, cached |-> cached, next |-> 1, got |-> {}, id |-> 0]

Top     == frames[Len(frames)]
Calling == frames # <<>> /\ Top.id # 0
Asking  == frames # <<>> /\ Top.id = 0 /\ Top.next <= Len(Params(Top.call))
Param   == Params(Top.call)[Top.next]

\* A parameter has its value: the invocation that made it, if one did.
Given(ids) ==
    [frames EXCEPT ![Len(frames)].next = @ + 1, ![Len(frames)].got = @ \cup ids]

FromCache == Param[1] = "depends" /\ Param[3] /\ Param[2] \in DOMAIN cache

TakeParam ==
    /\ Asking
    /\ \/ Param[1] # "depends" /\ frames' = Given({})
       \/ FromCache /\ frames' = Given({cache[Param[2]]})
    /\ UNCHANGED <<cache, invoked, stack>>

Descend ==
    /\ Asking /\ Param[1] = "depends" /\ ~FromCache
    /\ frames' = Append(frames, Frame(Param[2], Param[3]))
    /\ UNCHANGED <<cache, invoked, stack>>

\* Everything an invocation is given, and what that was made of.
Uses(ids) == ids \cup UNION {invoked[i].uses : i \in ids}

\* All parameters are there: the callable is called.
Invoke ==
    /\ frames # <<>> /\ Top.id = 0 /\ Top.next > Len(Params(Top.call))
    /\ invoked' = Append(invoked, [call |-> Top.call, cached |-> Top.cached,
                                   uses |-> Uses(Top.got), state |-> "running"])
    /\ frames' = [frames EXCEPT ![Len(frames)].id = Len(invoked')]
    /\ UNCHANGED <<cache, stack>>

Becomes(i, state) == invoked' = [invoked EXCEPT ![i].state = state]

\* A dependency has its value: the one above it goes on.  A generator has run
\* to its yield, and is on the exit stack, which must be there.
DependencyReturns ==
    /\ Calling /\ Len(frames) > 1
    /\ IsGenerator(Top.call) => NeedsTeardown[Handler]
    /\ Becomes(Top.id, IF IsGenerator(Top.call) THEN "open" ELSE "value")
    /\ stack' = IF IsGenerator(Top.call) THEN Append(stack, Top.id) ELSE stack
    /\ cache' = IF Top.cached
                THEN [c \in DOMAIN cache \cup {Top.call} |->
                        IF c = Top.call THEN Top.id ELSE cache[c]]
                ELSE cache
    /\ LET above == Len(frames) - 1
       IN frames' = [SubSeq(frames, 1, above) EXCEPT
                        ![above].next = @ + 1, ![above].got = @ \cup {Top.id}]

HandlerReturns ==
    /\ Calling /\ Len(frames) = 1
    /\ Becomes(Top.id, "value") /\ frames' = <<>>
    /\ UNCHANGED <<cache, stack>>

\* The callable raises, and so does everything above it.
CallFails ==
    /\ Calling
    /\ Becomes(Top.id, "failed") /\ frames' = <<>>
    /\ UNCHANGED <<cache, stack>>

\* The task is cancelled while it waits for a callable.  A generator that is no
\* coroutine is entered without waiting, and a worker thread goes on.
CallCancelled ==
    /\ Calling /\ Kind(Top.call) # "sgen"
    /\ frames' = <<>>
    /\ \/ Kind(Top.call) = "sync" /\ UNCHANGED invoked
       \/ Kind(Top.call) # "sync" /\ Becomes(Top.id, "failed")
    /\ UNCHANGED <<cache, stack>>

ThreadEnds(i) ==
    /\ invoked[i].state = "running" /\ Kind(invoked[i].call) = "sync" /\ frames = <<>>
    /\ Becomes(i, "value") /\ UNCHANGED <<frames, cache, stack>>

\* Mutation: the generators are closed in the order they were opened in.
Oldest == Head(stack)

\* The next generator to close.
Newest == Last(stack)

Unstack == stack' = Front(stack)

CloseDependency ==
    /\ frames = <<>> /\ stack # <<>>
    /\ Becomes(Newest, "closed") /\ Unstack
    /\ UNCHANGED <<frames, cache>>

=============================================================================
