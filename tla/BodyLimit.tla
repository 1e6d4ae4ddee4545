------------------------------ MODULE BodyLimit -----------------------------
(***************************************************************************)
(* LimitRequestBodyMiddleware (rooted_api/limits.py): a ceiling on the     *)
(* bytes of a request body that reach a route, enforced while they stream. *)
(* One connection at a time; its bytes are counted in units.               *)
(***************************************************************************)
EXTENDS Naturals

CONSTANTS
  Limit,            \* max_request_bytes()
  MaxChunk          \* bound: the units one http.request message carries

ASSUME BodyAssumption == {Limit, MaxChunk} \subseteq Nat

VARIABLE conn

\* How a route reads its body.  FastAPI reads it for a "form" (or JSON) route and
\* makes a 400 of any error; a "raw" route (the B2 webhook) reads it itself.
Route == {"form", "raw"}

Closed == [pc |-> "closed", route |-> "form", total |-> 0, fed |-> 0, over |-> FALSE,
           status |-> "none"]

BodyInit == conn = Closed

\* A Content-Length over the ceiling is refused unread; one that is absent, no
\* number, or within the ceiling decides nothing.
Open(route, declared) ==
  /\ conn = Closed
  /\ conn' = IF declared > Limit
               THEN [Closed EXCEPT !.route = route, !.status = "413"]
               ELSE [Closed EXCEPT !.pc = "reading", !.route = route]

\* limited_receive: a chunk is counted, then fed to the route, unless it crosses
\* the ceiling: then the route is told that the client has gone.
Receive(n) ==
  /\ conn.pc = "reading"
  /\ conn' = IF conn.total + n > Limit
               THEN [conn EXCEPT !.pc = "cut", !.total = @ + n, !.over = TRUE]
               ELSE [conn EXCEPT !.total = @ + n, !.fed = @ + n]

\* Faulty: what the route answers to the disconnect is let through.
CutUnguarded ==
  /\ conn.pc = "cut"
  /\ conn' = [conn EXCEPT !.pc = "closed",
                          !.status = IF conn.route = "form" THEN "app" ELSE "500"]

\* The route reacts to the disconnect.  What it answers is suppressed, and 413 is
\* sent once it returns; but an exception it lets through (ClientDisconnect, from
\* request.body()) passes through the middleware too, and is a 500.
Cut ==
  /\ conn.pc = "cut"
  /\ conn' = [conn EXCEPT !.pc = "closed",
                          !.status = IF conn.route = "form" THEN "413" ELSE "500"]

\* The whole body has arrived, or the route answers before it has.
Answer ==
  /\ conn.pc = "reading"
  /\ conn' = [conn EXCEPT !.pc = "closed", !.status = "app"]

BodyNext ==
  \/ \E route \in Route, declared \in 0..(Limit + 1) : Open(route, declared)
  \/ \E n \in 1..MaxChunk : Receive(n)
  \/ Cut
  \/ Answer

-----------------------------------------------------------------------------
\* A route is never fed more than the ceiling, whatever length was declared, and once
\* a body has crossed it nothing the route answers reaches the client.  (limited_receive
\* and guarded_send.)
BodyBounded == conn.fed <= Limit /\ (conn.over => conn.status # "app")

\* limits.py, LimitRequestBodyMiddleware: "the response is 413 regardless of how the
\* downstream route reacts".
OverCapIs413 == conn.over /\ conn.pc = "closed" => conn.status = "413"
=============================================================================
