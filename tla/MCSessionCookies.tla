------------------------- MODULE MCSessionCookies -------------------------
(* TLC instance of SessionCookies: two overlapping calls, two cookies, one *)
(* changed at a time, and Retry-After headers of every kind.               *)
EXTENDS SessionCookies

MCSetCookies == {d \in Deltas : \A m, n \in Names : d[m] # None /\ d[n] # None => m = n}

Header(s, k, v) == [status |-> s, kind |-> k, value |-> v]

MCRetryAfters ==
    {Header(429, "seconds", MAX_RETRY_DELAY_SECONDS + 1), Header(503, "date", 1),
     Header(429, "seconds", -1), Header(429, "date", 0), Header(429, "other", 0),
     Header(500, "seconds", 1)}

(* Requests and their responses alone: no login, logout or dialog.         *)
ResponsesSpec == Init /\ [][\E c \in Calls : Begin(c) \/ Handle(c)]_vars
=============================================================================
