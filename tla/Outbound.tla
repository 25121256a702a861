------------------------------ MODULE Outbound ------------------------------
(***************************************************************************)
(* One request of the shared HTTP client (crates/reader-web-runtime,       *)
(* http_client.rs and network.rs): resolving, trying the addresses one by  *)
(* one, following redirects, the single retry without cache validators,    *)
(* streaming the body, and the record left with the observer.  The network *)
(* and the servers are external and answer in every way they can.          *)
(***************************************************************************)
EXTENDS Naturals, FiniteSets

CONSTANTS Home, Elsewhere,   \* the origin the caller addressed and another one
          Paths,
          MaxAddresses, MaxHops, MaxBody

VARIABLES request,     \* the prepared request as it is now
          restricted,  \* the client is narrowed to the origin it was built for
          at,          \* "resolve", "connect", "stream" or "over"
          left,        \* addresses of this resolution not tried yet
          seen, hops, recovered,
          received,
          observed,    \* completions reported for this request
          sends,       \* what reached a server, as a set of records
          visits       \* how often the open hop was resolved, and its redirects

ovars == <<request, restricted, at, left, seen, hops, recovered, received,
           observed, sends, visits>>

Urls == {Home, Elsewhere} \X Paths
origin(u) == u[1]

Init ==
    /\ request \in [method : {"GET", "POST"}, url : {<<Home, p>> : p \in Paths},
                    credentials : BOOLEAN, validators : BOOLEAN, ranged : BOOLEAN]
    /\ request.method = "POST" => ~request.validators /\ ~request.ranged
    /\ restricted \in BOOLEAN
    /\ at = "resolve" /\ left = 0
    /\ seen = {request.url} /\ hops = 0 /\ recovered = FALSE
    /\ received = 0 /\ observed = 0 /\ sends = {} /\ visits = 0

validate_url(u) == restricted => origin(u) = Home

\* The request ends with an error; it is reported once.
rejected ==
    /\ at' = "over" /\ observed' = observed + 1
    /\ UNCHANGED <<request, restricted, left, seen, hops, recovered, received, sends,
                   visits>>

\* DNS answers with public addresses only, or the request is refused.
resolve ==
    /\ at = "resolve"
    /\ \/ rejected
       \/ /\ validate_url(request.url)
          /\ \E n \in 1 .. MaxAddresses : left' = n
          /\ at' = "connect" /\ visits' = visits + 1
          /\ UNCHANGED <<request, restricted, seen, hops, recovered, received,
                         observed, sends>>

\* What a server may have received of an attempt.
sending == sends \cup {[origin |-> origin(request.url), credentials |-> request.credentials,
                        url |-> request.url, method |-> request.method, visit |-> visits,
                        address |-> left]}

can_retry_cache_validation ==
    request.method = "GET" /\ request.validators /\ ~request.ranged

retries(m) == m = "GET"

\* A transport failure before the headers: the next address, for a request that may
\* be repeated.
attempt_failed ==
    /\ at = "connect" /\ left > 0
    /\ sends' = sending
    /\ IF retries(request.method) /\ left > 1
         THEN left' = left - 1 /\ UNCHANGED <<at, observed>>
         ELSE at' = "over" /\ observed' = observed + 1 /\ UNCHANGED left
    /\ UNCHANGED <<request, restricted, seen, hops, recovered, received, visits>>

\* The server closed the connection before the headers of a conditional request: once,
\* start again without the validators.
recover_cache_validation ==
    /\ at = "connect" /\ left > 0 /\ ~recovered /\ can_retry_cache_validation
    /\ sends' = sending
    /\ request' = [request EXCEPT !.validators = FALSE]
    /\ recovered' = TRUE /\ at' = "resolve"
    /\ UNCHANGED <<restricted, left, seen, hops, received, observed, visits>>

for_redirect(u) ==
    [request EXCEPT !.url = u,
       !.credentials = @ /\ origin(u) = origin(request.url)]

follow_unseen(u) == hops < MaxHops

follow(u) == hops < MaxHops /\ u \notin seen

redirect(u) ==
    /\ at = "connect" /\ left > 0
    /\ sends' = sending
    /\ IF follow(u) /\ validate_url(u)
         THEN /\ request' = for_redirect(u)
              /\ seen' = seen \cup {u} /\ hops' = hops + 1
              /\ at' = "resolve" /\ UNCHANGED observed
         ELSE /\ at' = "over" /\ observed' = observed + 1
              /\ UNCHANGED <<request, seen, hops>>
    /\ UNCHANGED <<restricted, left, recovered, received, visits>>

answer ==
    /\ at = "connect" /\ left > 0
    /\ sends' = sending /\ at' = "stream"
    /\ UNCHANGED <<request, restricted, left, seen, hops, recovered, received,
                   observed, visits>>

\* A chunk is handed on while the body is within the limit; the end, an error and a
\* body that is too long finish the stream.
read_chunk ==
    /\ at = "stream" /\ received < MaxBody /\ observed = 0
    /\ received' = received + 1
    /\ UNCHANGED <<request, restricted, at, left, seen, hops, recovered, observed,
                   sends, visits>>

finish == observed' = IF observed = 0 THEN 1 ELSE observed

next_chunk_last ==
    /\ at = "stream" /\ observed = 0 /\ finish
    /\ UNCHANGED <<request, restricted, at, left, seen, hops, recovered, received,
                   sends, visits>>

\* The stream is dropped, read to its end or not.
drop_stream ==
    /\ at = "stream" /\ finish /\ at' = "over"
    /\ UNCHANGED <<request, restricted, left, seen, hops, recovered, received, sends,
                   visits>>

\* The caller drops the request while it is being opened, or the deadline ends it.
drop_opening ==
    /\ at \in {"resolve", "connect"}
    /\ rejected

Next ==
    \/ resolve \/ attempt_failed \/ recover_cache_validation \/ answer
    \/ read_chunk \/ next_chunk_last \/ drop_stream \/ drop_opening
    \/ \E u \in Urls : redirect(u)

Spec == Init /\ [][Next]_ovars

-----------------------------------------------------------------------------
(* Properties.                                                             *)

\* Credentials reach no origin but the one the caller addressed, also on a chain of
\* redirects that leaves it and returns (for_redirect).
CredentialsStay == \A s \in sends : s.credentials => s.origin = Home

\* A client restricted to its origin sends nothing to another one on any hop
\* (validate_url).
RestrictedStays == restricted => \A s \in sends : s.origin = Home

\* A request that must not be repeated is sent at most once on each hop, whatever
\* failed on the way (open_stream).
PostOnce ==
    \A s, t \in sends :
      s.method = "POST" /\ t.method = "POST" /\ s.visit = t.visit => s = t

\* No URL is asked for again, except once for the retry without cache validators:
\* redirects never turn in a circle (RedirectChain).
NoCircle ==
    \A u \in Urls :
      Cardinality({s.visit : s \in {t \in sends : t.url = u}}) <= IF recovered THEN 2 ELSE 1

\* Every request that is over was reported to the observer exactly once, whether it
\* was refused, failed, was read to the end or was dropped (OpeningObservation,
\* OutboundResponseStream).
ReportedOnce == observed <= 1 /\ (at = "over" => observed = 1)
=============================================================================
