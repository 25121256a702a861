----------------------------- MODULE ProxyPool -----------------------------
(***************************************************************************)
(* The pool of HTTPS CONNECT endpoints behind one host                     *)
(* (crates/reader-web-runtime, public_proxy.rs and public_proxy/health.rs).*)
(* Several requests share the health of the endpoints: a transport failure *)
(* quarantines an endpoint, and after the quarantine one request probes it.*)
(* Time is abstract: a quarantine is running or has expired, and the       *)
(* endpoints are kept in the order of their last attempt.                  *)
(***************************************************************************)
EXTENDS Naturals, FiniteSets, SequencesExt

CONSTANTS Requests,     \* requests in flight
          Endpoints,    \* 1 .. n, in the configured order
          MaxSent       \* requests sent in a run

VARIABLES health,     \* endpoint -> "unknown", "healthy", "quarantined" or "expired"
          probing,    \* endpoints whose recovery probe is reserved
          order,      \* the endpoints, least recently attempted first
          req,        \* the requests
          sent,
          passed_over \* first claims that passed over an endpoint ready to be probed

pvars == <<health, probing, order, req, sent, passed_over>>

NoAttempt == [endpoint |-> 0, probe |-> FALSE]
Idle == [at |-> "idle", attempted |-> {}, attempt |-> NoAttempt, authoritative |-> FALSE]

Init ==
    /\ health = [e \in Endpoints |-> "unknown"]
    /\ probing = {} /\ sent = 0
    /\ order = SetToSortSeq(Endpoints, <)
    /\ req = [r \in Requests |-> Idle]
    /\ passed_over = [e \in Endpoints |-> 0]

failed(e) == health[e] \in {"quarantined", "expired"}
ready(e, h, p) == h[e] = "expired" /\ e \notin p

\* The count restarts whenever an endpoint is not waiting for its probe.
counted(chosen, first) ==
    passed_over' = [e \in Endpoints |->
        IF ~ready(e, health', probing') THEN 0
        ELSE IF first /\ e # chosen THEN passed_over[e] + 1 ELSE passed_over[e]]

-----------------------------------------------------------------------------
(* The health of an endpoint.                                              *)

eligible(r) ==
    {e \in Endpoints : /\ e \notin req[r].attempted /\ e \notin probing
                       /\ health[e] # "quarantined"}

\* The first claim of a request prefers an expired quarantine, a later one leaves it
\* for last; then a healthy endpoint before an untried one.
priority(e, first) ==
    CASE health[e] = "expired" -> IF first THEN 0 ELSE 3
      [] health[e] = "healthy" -> 1
      [] OTHER -> 2

position(e) == CHOOSE i \in DOMAIN order : order[i] = e

\* Failed endpoints in the order of their last attempt, others as configured.
before_as_configured(e, f, first) ==
    \/ priority(e, first) < priority(f, first)
    \/ priority(e, first) = priority(f, first) /\ e < f

before(e, f, first) ==
    \/ priority(e, first) < priority(f, first)
    \/ /\ priority(e, first) = priority(f, first)
       /\ IF health[e] = "expired" THEN position(e) < position(f) ELSE e < f

claimed(r) ==
    CHOOSE e \in eligible(r) :
      \A f \in eligible(r) \ {e} : before(e, f, req[r].attempted = {})

\* Only the probe itself owns the reservation of its endpoint.
releases(a) == IF a.probe THEN {a.endpoint} ELSE {}

finish(a, success) ==
    /\ probing' = probing \ releases(a)
    /\ health' = [health EXCEPT ![a.endpoint] =
                    IF success THEN "healthy" ELSE "quarantined"]

\* A cancelled attempt says nothing about the endpoint.
dropped(a) == probing' = probing \ releases(a) /\ UNCHANGED health

elapse(e) ==
    /\ health[e] = "quarantined"
    /\ health' = [health EXCEPT ![e] = "expired"]
    /\ UNCHANGED <<probing, order, req, sent>> /\ counted(0, FALSE)

-----------------------------------------------------------------------------
(* One request: ProxyTransport::execute and the body it hands out.         *)

\* A direct attempt that answers leaves the pool alone; this one needs the pool.
send(r) ==
    /\ req[r].at = "idle" /\ sent < MaxSent /\ sent' = sent + 1
    /\ req' = [req EXCEPT ![r] = [Idle EXCEPT !.at = "claiming"]]
    /\ UNCHANGED <<health, probing, order>> /\ counted(0, FALSE)

claim(r) ==
    /\ req[r].at = "claiming" /\ eligible(r) # {}
    /\ LET e == claimed(r) IN
         /\ req' = [req EXCEPT ![r].at = "trying", ![r].attempted = @ \cup {e},
                               ![r].attempt = [endpoint |-> e, probe |-> failed(e)]]
         /\ probing' = IF failed(e) THEN probing \cup {e} ELSE probing
         /\ order' = Append(Remove(order, e), e)
         /\ UNCHANGED <<health, sent>>
         /\ counted(e, req[r].attempted = {})

\* No endpoint is left: the last error is returned.
give_up(r) ==
    /\ req[r].at = "claiming" /\ eligible(r) = {}
    /\ req' = [req EXCEPT ![r] = Idle]
    /\ UNCHANGED <<health, probing, order, sent>> /\ counted(0, FALSE)

\* The tunnel, TLS, the request or its own time limit failed: on to the next endpoint.
attempt_failed(r) ==
    /\ req[r].at = "trying"
    /\ finish(req[r].attempt, FALSE)
    /\ req' = [req EXCEPT ![r].at = "claiming", ![r].attempt = NoAttempt]
    /\ UNCHANGED <<order, sent>> /\ counted(0, FALSE)

\* Any HTTP answer is authoritative; a status other than success also vouches for
\* the endpoint whatever happens to its body.
via_proxy(r, success) ==
    /\ req[r].at = "trying"
    /\ req' = [req EXCEPT ![r].at = "body", ![r].authoritative = ~success]
    /\ UNCHANGED <<health, probing, order, sent>> /\ counted(0, FALSE)

\* The last chunk, or an error in the middle.
next_chunk(r, success) ==
    /\ req[r].at = "body"
    /\ finish(req[r].attempt, success \/ req[r].authoritative)
    /\ req' = [req EXCEPT ![r] = Idle]
    /\ UNCHANGED <<order, sent>> /\ counted(0, FALSE)

\* The caller goes away, or the deadline of the whole request ends an attempt early.
cancel(r) ==
    /\ req[r].at \in {"trying", "body"}
    /\ IF req[r].authoritative THEN finish(req[r].attempt, TRUE)
                               ELSE dropped(req[r].attempt)
    /\ req' = [req EXCEPT ![r] = Idle]
    /\ UNCHANGED <<order, sent>> /\ counted(0, FALSE)

Next ==
    \/ \E e \in Endpoints : elapse(e)
    \/ \E r \in Requests :
         \/ send(r) \/ claim(r) \/ give_up(r) \/ attempt_failed(r) \/ cancel(r)
         \/ \E success \in BOOLEAN : via_proxy(r, success) \/ next_chunk(r, success)

Spec == Init /\ [][Next]_pvars

-----------------------------------------------------------------------------
(* Properties.                                                             *)

\* An endpoint is reserved for a probe exactly while one request is probing it, so
\* two requests never probe it together and a cancelled request or a late answer to
\* an older request leaves no reservation behind (claim, finish, Drop).
ProbeReserved ==
    \A e \in Endpoints :
      LET probes == {r \in Requests : req[r].attempt = [endpoint |-> e, probe |-> TRUE]}
      IN Cardinality(probes) = IF e \in probing THEN 1 ELSE 0

\* An endpoint whose quarantine has expired is passed over by at most one request per
\* other endpoint before a request probes it, however short the deadlines are: the
\* tail of the pool is not starved (claim).
TailNotStarved == \A e \in Endpoints : passed_over[e] < Cardinality(Endpoints)
=============================================================================
