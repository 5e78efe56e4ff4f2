-------------------------------- MODULE Router --------------------------------
(***************************************************************************)
(* Router of src/src/sonix/app/routing.py: which route answers a request.  *)
(*                                                                         *)
(* A route is [scope, matches, methods]: the type of scope it serves,      *)
(* whether its pattern matches the path of the request at hand, and its    *)
(* methods, none for a websocket route.                                    *)
(***************************************************************************)
EXTENDS Integers, Sequences

\* Mutation: the type of scope a route serves is not looked at.
SkippedByPath(r, scope) == ~r.matches

Skipped(r, scope) == r.scope # scope \/ ~r.matches

\* The registered routes: add_route refuses one without a method, and a
\* websocket route has none.
WellRouted(routes) ==
    /\ Len(routes) \in Nat /\ DOMAIN routes = 1..Len(routes)
    /\ \A i \in DOMAIN routes :
          /\ routes[i].scope \in {"http", "websocket"} /\ routes[i].matches \in BOOLEAN
          /\ routes[i].methods = {} <=> routes[i].scope = "websocket"

\* One turn of the loop of Router.__call__, at route n: the route that serves
\* the request, 0 for none yet, and the methods its path is served with.
Look(seen, routes, n, scope, method) ==
    IF seen.found # 0 \/ Skipped(routes[n], scope) THEN seen
    ELSE IF scope = "websocket" \/ method \in routes[n].methods
         THEN [seen EXCEPT !.found = n]
         ELSE [seen EXCEPT !.allowed = @ \cup routes[n].methods]

Scan(routes, scope, method) ==
    LET seen[n \in 0..Len(routes)] ==
            IF n = 0 THEN [found |-> 0, allowed |-> {}]
            ELSE Look(seen[n - 1], routes, n, scope, method)
    IN seen[Len(routes)]

\* What the caller is told: a route, 405 with the methods to allow, or 404; on
\* a websocket a close with 1000.
Dispatch(routes, scope, method) ==
    LET scan == Scan(routes, scope, method)
    IN CASE scan.found # 0 -> <<"route", scan.found>>
         [] scan.found = 0 /\ scope = "websocket" -> <<"1000", {}>>
         [] OTHER -> <<IF scan.allowed = {} THEN "404" ELSE "405", scan.allowed>>

-----------------------------------------------------------------------------
\* The same as a definition: among the routes of its type of scope, the first
\* registered that matches wins (the comment of Route.scope_type).
Serves(r, scope, method) ==
    r.scope = scope /\ r.matches /\ (scope = "websocket" \/ method \in r.methods)

Expected(routes, scope, method) ==
    LET good == {i \in DOMAIN routes : Serves(routes[i], scope, method)}
        here == {i \in DOMAIN routes : routes[i].scope = scope /\ routes[i].matches}
        allow == UNION {routes[i].methods : i \in here}
    IN CASE good # {} -> <<"route", CHOOSE i \in good : \A j \in good : i <= j>>
         [] good = {} /\ scope = "websocket" -> <<"1000", {}>>
         [] good = {} /\ scope = "http" /\ here = {} -> <<"404", {}>>
         [] OTHER -> <<"405", allow>>

=============================================================================
