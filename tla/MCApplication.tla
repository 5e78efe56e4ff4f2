----------------------------- MODULE MCApplication -----------------------------
(***************************************************************************)
(* Scenarios for TLC: every shape of dependency graph the source treats    *)
(* differently, and every kind of route table.                             *)
(***************************************************************************)
EXTENDS Application

C(kind, params) == [kind |-> kind, params |-> params]
D(c) == <<"depends", c, TRUE>>
U(c) == <<"depends", c, FALSE>>
Q(q) == <<"query", q>>
Conn == <<"connection">>

Trivial == "handler" :> C("async", <<Conn>>)
Scalars == "handler" :> C("sync", <<Q("q"), Conn>>)

\* Two dependencies share a third.
Diamond == "handler" :> C("async", <<D("a"), D("b")>>) @@ "a" :> C("agen", <<D("c")>>)
           @@ "b" :> C("sync", <<D("c")>>) @@ "c" :> C("sgen", <<Q("q")>>)

\* A chain of generators under a handler in a worker thread.
Chain == "handler" :> C("sync", <<D("a")>>) @@ "a" :> C("agen", <<D("b")>>)
         @@ "b" :> C("sgen", <<D("c"), Q("r")>>) @@ "c" :> C("agen", <<Conn>>)

\* The only generator is below another callable.
Deep == "handler" :> C("async", <<D("a"), Q("q")>>) @@ "a" :> C("async", <<D("b")>>)
        @@ "b" :> C("agen", <<>>)

\* One generator, used with the cache and without it.
Uncached == "handler" :> C("async", <<U("a"), D("a"), U("a"), D("a")>>) @@ "a" :> C("agen", <<>>)

Loop   == "handler" :> C("async", <<D("a")>>) @@ "a" :> C("async", <<D("b")>>)
          @@ "b" :> C("sync", <<D("a")>>)
Itself == "handler" :> C("async", <<D("handler")>>)

Route(scope, matches, methods) == [scope |-> scope, matches |-> matches, methods |-> methods]
Get    == Route("http", TRUE, {"GET"})
Post   == Route("http", TRUE, {"POST", "PUT"})
Other  == Route("http", FALSE, {"GET"})
Socket == Route("websocket", TRUE, {})
Tables == UNION {[1..n -> {Get, Post, Other, Socket}] : n \in 0..2}

Asked(routes, method, g, bad, middleware, debug) ==
    [routes |-> routes, method |-> method, graph |-> g, bad |-> bad,
     middleware |-> middleware, debug |-> debug]

MCScenarios ==
    {Asked(<<Get>>, "GET", g, bad, 0, FALSE) :
        g \in {Scalars, Diamond, Chain, Deep, Uncached, Loop, Itself}, bad \in {{}, {"q"}}}
    \cup {Asked(t, m, Trivial, {"q"}, 0, FALSE) : t \in Tables, m \in {"GET", "PUT"}}
    \cup {Asked(<<Get>>, "GET", g, {}, 2, d) : g \in {Trivial, Deep}, d \in BOOLEAN}

AllHabits == {"passes", "swallows", "fails"}

=============================================================================
