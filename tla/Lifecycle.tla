------------------------------ MODULE Lifecycle ------------------------------
(***************************************************************************)
(* The tasks of one server process and how they end: serve spawns them     *)
(* under a TaskSupervisor, waits for a signal or for a task that should    *)
(* not have ended, closes admission and drains.  An operation stands for   *)
(* one claimed job with its heartbeat, one HTTP request or one icon fetch. *)
(***************************************************************************)
EXTENDS Naturals, FiniteSets, Sequences, SequencesExt

CONSTANTS
    Ingest,      \* workers of run_until_shutdown
    Loops,       \* the AI scheduler and the glossary workers
    Ai,          \* workers of the four AI classes
    Slots,       \* permits they share
    Page,        \* icons of a page
    Concurrency, \* icon fetches at a time
    MaxPanics    \* panics in all

VARIABLES
    main,      \* "running", "draining", "succeeded" or "failed"
    stop,      \* the supervisor has requested shutdown
    failure,   \* serve remembers an unexpected exit, or drain an error
    closing,   \* run_until_shutdown has told its workers to stop
    stage,     \* what each worker, the ingest task and the server are doing
    queue,     \* workers that wait for a permit, in order of arrival
    left,      \* icons of the page not yet fetched
    flying,    \* icon fetches in flight
    late       \* ghost: operations each worker began after the request

lvars == <<main, stop, failure, closing, stage, queue, left, flying, late>>

AllWorkers == Ingest \cup Loops \cup Ai

Tasks == Loops \cup Ai \cup {"ingest", "http", "icons"}

Ended == {"ended", "panicked"}

Exited == main \in {"succeeded", "failed"}

held == Cardinality({w \in Ai : stage[w] \in {"admitted", "working"}})

Init ==
    /\ main = "running" /\ stop = FALSE /\ failure = FALSE /\ closing = FALSE
    /\ stage = [w \in AllWorkers \cup {"ingest", "http", "icons"} |-> "idle"]
    /\ queue = << >>
    /\ left = Page /\ flying = 0
    /\ late = [w \in AllWorkers |-> 0]

moves(w, to) == stage' = [stage EXCEPT ![w] = to]

live == ~ Exited

\* The stop flag each worker looks at.
told(w) == IF w \in Ingest THEN closing ELSE stop

\* The loop of any other worker: the flag is read, then the operation begins.
begin(w) ==
    /\ live /\ stage[w] = "idle"
    /\ moves(w, IF told(w) THEN "ended" ELSE "admitted")
    /\ UNCHANGED <<main, stop, failure, closing, queue, left, flying, late>>

\* The loop of an AI worker: it waits for a permit or for the request to stop.
wait_permit(w) ==
    /\ live /\ stage[w] = "idle"
    /\ moves(w, IF stop THEN "ended" ELSE "waiting")
    /\ queue' = IF stop THEN queue ELSE Append(queue, w)
    /\ UNCHANGED <<main, stop, failure, closing, left, flying, late>>

\* Any worker that waits may be given the permit.
next_waiting_any == queue[Len(queue)]

\* Permits are given in order of arrival.
next_waiting == Head(queue)

\* A permit is free; the flag is read once more before the job is claimed.
acquire ==
    /\ live /\ queue # << >> /\ held < Slots
    /\ LET w == next_waiting
       IN  /\ moves(w, IF stop THEN "ended" ELSE "admitted")
           /\ queue' = Remove(queue, w)
    /\ UNCHANGED <<main, stop, failure, closing, left, flying, late>>

\* The request to stop wins over the permit.
abandon(w) ==
    /\ live /\ stop /\ stage[w] = "waiting"
    /\ moves(w, "ended")
    /\ queue' = Remove(queue, w)
    /\ UNCHANGED <<main, stop, failure, closing, left, flying, late>>

\* The claim itself.
claim(w) ==
    /\ live /\ stage[w] = "admitted"
    /\ moves(w, "working")
    /\ late' = [late EXCEPT ![w] = IF told(w) THEN @ + 1 ELSE @]
    /\ UNCHANGED <<main, stop, failure, closing, queue, left, flying>>

\* The operation is over, well or not, and the permit is free again.
finish(w) ==
    /\ live /\ stage[w] = "working"
    /\ moves(w, "idle")
    /\ UNCHANGED <<main, stop, failure, closing, queue, left, flying, late>>

panic(w) ==
    /\ live /\ stage[w] = "working"
    /\ Cardinality({v \in AllWorkers : stage[v] = "panicked"}) < MaxPanics
    /\ moves(w, "panicked")
    /\ UNCHANGED <<main, stop, failure, closing, queue, left, flying, late>>

\* run_until_shutdown: the request, or a worker that has ended, closes admission.
close_ingest ==
    /\ live /\ ~ closing
    /\ stop \/ \E w \in Ingest : stage[w] \in Ended
    /\ closing' = TRUE
    /\ UNCHANGED <<main, stop, failure, stage, queue, left, flying, late>>

\* A worker that ended by itself, or panicked at any time, is an error.
ingest_failed == \E w \in Ingest : stage[w] = "panicked"

\* run_until_shutdown returns when every worker has been joined.
end_ingest ==
    /\ live /\ closing /\ stage["ingest"] = "idle"
    /\ \A w \in Ingest : stage[w] \in Ended
    /\ moves("ingest", IF ingest_failed THEN "panicked" ELSE "ended")
    /\ UNCHANGED <<main, stop, failure, closing, queue, left, flying, late>>

\* axum::serve with its graceful shutdown: a request is let in until the request
\* to stop, and the task ends when none is open.
accept ==
    /\ live /\ ~ stop /\ stage["http"] = "idle"
    /\ moves("http", "working")
    /\ UNCHANGED <<main, stop, failure, closing, queue, left, flying, late>>

answer ==
    /\ live /\ stage["http"] = "working"
    /\ moves("http", "idle")
    /\ UNCHANGED <<main, stop, failure, closing, queue, left, flying, late>>

end_http ==
    /\ live /\ stop /\ stage["http"] = "idle"
    /\ moves("http", "ended")
    /\ UNCHANGED <<main, stop, failure, closing, queue, left, flying, late>>

\* run_page: fetches are started while there is room and no request to stop.
admit_icon ==
    /\ live /\ ~ stop /\ left > 0 /\ flying < Concurrency
    /\ left' = left - 1
    /\ flying' = flying + 1
    /\ UNCHANGED <<main, stop, failure, closing, stage, queue, late>>

\* A fetch that is joined is stored, or has failed, before its place is taken.
join_icon ==
    /\ live /\ flying > 0
    /\ flying' = flying - 1
    /\ UNCHANGED <<main, stop, failure, closing, stage, queue, left, late>>

\* The store fails, or the fetch that is joined panicked: run_page returns, its
\* JoinSet is dropped and aborts the other fetches, and the rest of the page is
\* left to the next round.  The error is logged and goes no further.
fail_page ==
    /\ live /\ flying > 0
    /\ flying' = 0 /\ left' = 0
    /\ UNCHANGED <<main, stop, failure, closing, stage, queue, late>>

\* refresh reads the next page, at once or in the next round.
next_page ==
    /\ live /\ ~ stop /\ left = 0 /\ flying = 0
    /\ left' = Page
    /\ UNCHANGED <<main, stop, failure, closing, stage, queue, flying, late>>

\* refresh and its loop end: what was admitted has been joined.
end_icons ==
    /\ live /\ stop /\ stage["icons"] = "idle" /\ flying = 0
    /\ moves("icons", "ended")
    /\ UNCHANGED <<main, stop, failure, closing, queue, left, flying, late>>

\* serve: a signal, or a task that has ended, ends the wait.
request_shutdown(signal) ==
    /\ main = "running"
    /\ signal \/ \E t \in Tasks : stage[t] \in Ended
    /\ main' = "draining" /\ stop' = TRUE
    /\ failure' = ~ signal
    /\ UNCHANGED <<closing, stage, queue, left, flying, late>>

\* Only the unexpected exit that ended the wait counts.
drained_quietly == ~ failure

\* drain reports the first task that ended with an error or panicked.
drained == ~ failure /\ \A t \in Tasks : stage[t] # "panicked"

\* Every task has been joined.
drain ==
    /\ main = "draining"
    /\ \A t \in Tasks : stage[t] \in Ended
    /\ main' = IF drained THEN "succeeded" ELSE "failed"
    /\ UNCHANGED <<stop, failure, closing, stage, queue, left, flying, late>>

\* Nothing bounds the wait for the tasks.
graceful_timeout_never == FALSE /\ UNCHANGED lvars

\* The graceful shutdown has taken too long; the tasks are dropped as they are.
graceful_timeout ==
    /\ main = "draining"
    /\ main' = "failed"
    /\ UNCHANGED <<stop, failure, closing, stage, queue, left, flying, late>>

AiStep(w) == wait_permit(w) \/ abandon(w) \/ claim(w) \/ finish(w)

LoopStep(w) == begin(w) \/ claim(w)

Next ==
    \/ \E w \in AllWorkers \ Ai : LoopStep(w) \/ finish(w)
    \/ \E w \in Ai : AiStep(w)
    \/ \E w \in AllWorkers : panic(w)
    \/ acquire
    \/ close_ingest \/ end_ingest
    \/ accept \/ answer \/ end_http
    \/ admit_icon \/ join_icon \/ fail_page \/ next_page \/ end_icons
    \/ request_shutdown(TRUE) \/ request_shutdown(FALSE)
    \/ drain \/ graceful_timeout

\* The runtime polls every task that can go on; AI calls end by the deadline of
\* the provider.  Any other operation, and an HTTP request, may last for ever.
Fairness ==
    /\ \A w \in Ai : WF_lvars(AiStep(w))
    /\ \A w \in AllWorkers \ Ai : WF_lvars(LoopStep(w))
    /\ WF_lvars(acquire)
    /\ WF_lvars(request_shutdown(FALSE))
    /\ WF_lvars(drain \/ graceful_timeout)

Spec == Init /\ [][Next]_lvars

FairSpec == Spec /\ Fairness

\* The process reports success only if no claimed job and no request was cut
\* short: every worker and the server have ended by themselves, none by a panic,
\* and no icon fetch is left in flight.  Icons are the one exception to "nothing
\* is dropped": a page whose store failed drops its fetches, and the exit is a
\* success all the same (fail_page).
CleanExit ==
    main = "succeeded" =>
        /\ \A w \in AllWorkers \cup {"http"} : stage[w] = "ended"
        /\ flying = 0

\* A worker begins at most one operation after it is told to stop: the one whose
\* check of the flag came before.  Closing admission does not wait for it.
LastOperation == \A w \in AllWorkers : late[w] <= 1

\* A request to stop ends the process, even if an operation never does, and so
\* does a task that ends by itself.
Stops == (stop \/ \E t \in Tasks : stage[t] \in Ended) ~> Exited

\* No class of paid work is starved by the others: a worker that waits is served,
\* or the process ends.
Served == \A w \in Ai : (stage[w] = "waiting") ~> (stage[w] # "waiting" \/ Exited)

=============================================================================
