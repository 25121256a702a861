------------------------------ MODULE JobQueue ------------------------------
(***************************************************************************)
(* The durable ingest queue: the rows of table ingest_jobs, the claim      *)
(* transaction of reader-storage-postgres/src/ingest_store/queue.rs, the   *)
(* lease updates of ingest_store.rs and the worker loop of                 *)
(* reader-ingest/src/engine/mod.rs that drives them.                       *)
(*                                                                         *)
(* A claim is one PostgreSQL transaction made of several READ COMMITTED    *)
(* statements, so it is modelled as three steps between which other        *)
(* workers run: Select (candidate query, takes the row lock), Reserve      *)
(* (advisory lock of the origin and the second reading of the limits) and  *)
(* Grant (the UPDATE and the commit).  The UPDATE of lease_update tests its *)
(* WHERE before it waits for the row and does not test the deadline again  *)
(* when the holder only locked the row, so a heartbeat is two steps (renew *)
(* and renewed) and so is a retry or fail (report first).  The effects of  *)
(* a handler are a transaction that opens with assert_lease and ends later *)
(* (Close).  Every other store operation takes its row lock first and is   *)
(* one step.                                                               *)
(***************************************************************************)
EXTENDS Integers, FiniteSets

CONSTANTS
  Jobs,                  \* identities of durable jobs
  Kind,                  \* Kind[j]: the WorkItem variant of job j
  SourceOf,              \* SourceOf[j]: the source the item names
  OriginOf,              \* OriginOf[j]: column origin_key
  Sources, Origins,
  Workers,               \* workers of run_until_shutdown, in any process
  Tokens,                \* lease tokens (random UUIDs in the code)
  None,                  \* SQL NULL, and "nobody" for locks
  PerOriginConcurrency,  \* scheduler.per_origin_concurrency
  LeaseDuration,         \* scheduler.lease_seconds
  PollInterval,          \* scheduler.polling_interval_seconds
  MaxRetryAge,           \* scheduler.max_retry_age_seconds
  RetryAttempts,         \* scheduler.retry_attempts
  RateLimitDelay,        \* scheduler.rate_limit_retry_seconds
  Jitter,                \* Jitter[j]: offset of job j within retry_jitter
  RetryAfter,            \* delays an upstream may ask for; 0 is no Retry-After
  MaxTime,               \* bound: the clock stops here
  CrashHorizon           \* bound: no worker crashes after this time

Kinds == {"poll", "refresh", "fanout", "manual_text", "text", "rules", "cleanup"}

\* is_recurring: PollSource and CollectWebFeed go back to the queue when done.
is_recurring(j) == Kind[j] = "poll"

\* The items whose source_id the claim query compares: one at a time per source.
Collects(j) == Kind[j] \in {"poll", "refresh"}

\* work_source: the items whose failures are charged to their source's health.
work_source(j) == IF Kind[j] \in {"poll", "refresh", "fanout"} THEN {SourceOf[j]} ELSE {}

\* initial_job_run_at: the priority bands, all in the past.
initial_job_run_at(j) ==
  CASE Kind[j] = "manual_text" -> -400
    [] Kind[j] = "text"        -> -300
    [] Kind[j] = "fanout"      -> -200
    [] Kind[j] = "rules"       -> -100
    [] Kind[j] = "cleanup"     -> -50
    [] OTHER                   -> 0

ASSUME ConstantsAssumption ==
  /\ IsFiniteSet(Jobs)
  /\ Kind \in [Jobs -> Kinds]
  /\ SourceOf \in [Jobs -> Sources]
  /\ OriginOf \in [Jobs -> Origins]
  /\ None \notin Workers \cup Tokens \cup Jobs

\* validate_scheduler_limits, IngestWorker::new and with_runtime_policy reject
\* everything else.
ASSUME LimitsAssumption ==
  /\ PerOriginConcurrency \in Nat \ {0}
  /\ LeaseDuration \in Nat \ {0}
  /\ PollInterval \in Nat \ {0}
  /\ MaxRetryAge \in Nat \ {0}
  /\ RetryAttempts \in Nat \ {0}
  /\ RateLimitDelay \in Nat
  /\ Jitter \in [Jobs -> Nat]
  /\ RetryAfter \subseteq Nat
  /\ MaxTime \in Nat
  /\ CrashHorizon \in Int

\* source_origin: the origin of a collecting job is read from its source, whose
\* URL never changes, so two such jobs of one source share their origin.
ASSUME OriginAssumption ==
  \A a, b \in Jobs :
    Collects(a) /\ Collects(b) /\ SourceOf[a] = SourceOf[b] => OriginOf[a] = OriginOf[b]

VARIABLES
  clock,            \* Utc::now() and clock_timestamp(): one machine, one clock
  \* columns of ingest_jobs; status "absent" is a row not yet inserted
  status, lease_token, lease_deadline, run_at, first_attempt, attempt,
  revived,          \* history: leases prolonged after they had run out
  failing,          \* sources whose source_health row carries an error
  row_lock,         \* row_lock[j]: the worker whose transaction locked row j
  origin_lock,      \* origin_lock[o]: holder of the origin's advisory lock
  \* memory of each worker
  pc,               \* where run_one is
  now,              \* the time run_one was called with, or reports its error
  job,              \* the selected or leased job
  token,            \* LeasedWork.token
  leased_attempt,   \* LeasedWork.attempt
  beat,             \* the deadline a heartbeat under way writes; 0: none
  excluded,         \* origins the claim transaction gave up on
  aged              \* jobs the open claim transaction found too old

rows == <<status, lease_token, lease_deadline, run_at, first_attempt, attempt, revived>>
memory == <<pc, now, job, token, leased_attempt, beat, excluded, aged>>
vars == <<clock, rows, failing, row_lock, origin_lock, memory>>
-----------------------------------------------------------------------------
Init ==
  /\ clock = 0
  /\ status = [j \in Jobs |-> "absent"]
  /\ lease_token = [j \in Jobs |-> None]
  /\ lease_deadline = [j \in Jobs |-> 0]
  /\ run_at = [j \in Jobs |-> 0]
  /\ first_attempt = [j \in Jobs |-> 0]
  /\ attempt = [j \in Jobs |-> 0]
  /\ revived = {}
  /\ failing = {}
  /\ row_lock = [j \in Jobs |-> None]
  /\ origin_lock = [o \in Origins |-> None]
  /\ pc = [w \in Workers |-> "idle"]
  /\ now = [w \in Workers |-> 0]
  /\ job = [w \in Workers |-> None]
  /\ token = [w \in Workers |-> None]
  /\ leased_attempt = [w \in Workers |-> 0]
  /\ beat = [w \in Workers |-> 0]
  /\ excluded = [w \in Workers |-> {}]
  /\ aged = [w \in Workers |-> {}]

Tick ==
  /\ clock < MaxTime
  /\ clock' = clock + 1
  /\ UNCHANGED <<rows, failing, row_lock, origin_lock, memory>>

\* enqueue_work / enqueue_work_tx: a row that exists is left alone, a new one
\* is ready at once.  first_attempt_ms is the time of the insertion.
enqueue_work(j) ==
  /\ status[j] = "absent"
  /\ status' = [status EXCEPT ![j] = "ready"]
  /\ run_at' = [run_at EXCEPT ![j] = initial_job_run_at(j)]
  /\ first_attempt' = [first_attempt EXCEPT ![j] = clock]
  /\ UNCHANGED <<clock, lease_token, lease_deadline, attempt, revived, failing,
                 row_lock, origin_lock, memory>>
-----------------------------------------------------------------------------
(* The claim transaction. *)

\* Leases that count against origin o when the caller's clock reads t.
active(o, t) == {a \in Jobs : status[a] = "leased" /\ OriginOf[a] = o /\ lease_deadline[a] >= t}

origin_has_capacity(o, t) == Cardinality(active(o, t)) < PerOriginConcurrency

source_busy(j, t) ==
  \E a \in Jobs : /\ status[a] = "leased" /\ lease_deadline[a] >= t
                  /\ Collects(a) /\ Collects(j) /\ SourceOf[a] = SourceOf[j]

\* Mutant: the lease of a dead worker is never taken over.
claimable_ready(j, t) == status[j] = "ready" /\ run_at[j] <= t

claimable(j, t) == \/ status[j] = "ready" /\ run_at[j] <= t
                   \/ status[j] = "leased" /\ lease_deadline[j] < t

\* The rows the candidate query of w may return.  FOR UPDATE SKIP LOCKED passes
\* over rows another transaction locked; rows w aged out no longer match.
candidates(w) ==
  {j \in Jobs : /\ claimable(j, now[w]) /\ j \notin aged[w]
                /\ row_lock[j] \in {None, w}
                /\ OriginOf[j] \notin excluded[w]
                /\ origin_has_capacity(OriginOf[j], now[w])
                /\ ~source_busy(j, now[w])}

\* ORDER BY ready first, then run_at_ms.  The last key, a random UUID, leaves
\* ties open.
precedes(a, b) ==
  \/ status[a] = "ready" /\ status[b] = "leased"
  \/ status[a] = status[b] /\ run_at[a] < run_at[b]

release_rows(w) == row_lock' = [j \in Jobs |-> IF row_lock[j] = w THEN None ELSE row_lock[j]]
release_origins(w) ==
  origin_lock' = [o \in Origins |-> IF origin_lock[o] = w THEN None ELSE origin_lock[o]]

\* run_one is over for w, whatever it returns.
forget(w) ==
  /\ pc' = [pc EXCEPT ![w] = "idle"]
  /\ now' = [now EXCEPT ![w] = 0]
  /\ job' = [job EXCEPT ![w] = None]
  /\ token' = [token EXCEPT ![w] = None]
  /\ leased_attempt' = [leased_attempt EXCEPT ![w] = 0]
  /\ beat' = [beat EXCEPT ![w] = 0]
  /\ excluded' = [excluded EXCEPT ![w] = {}]
  /\ aged' = [aged EXCEPT ![w] = {}]

\* run_one reads the clock and opens the claim transaction.
Begin(w) ==
  /\ pc[w] = "idle"
  /\ pc' = [pc EXCEPT ![w] = "claiming"]
  /\ now' = [now EXCEPT ![w] = clock]
  /\ UNCHANGED <<clock, rows, failing, row_lock, origin_lock,
                 job, token, leased_attempt, beat, excluded, aged>>

Select(w) ==
  /\ pc[w] = "claiming"
  /\ \E j \in candidates(w) :
       /\ \A k \in candidates(w) : ~precedes(k, j)
       /\ job' = [job EXCEPT ![w] = j]
       /\ row_lock' = [row_lock EXCEPT ![j] = w]
  /\ pc' = [pc EXCEPT ![w] = "selected"]
  /\ UNCHANGED <<clock, rows, failing, origin_lock, now, token, leased_attempt, beat,
                 excluded, aged>>

\* pg_try_advisory_xact_lock fails: another claim holds the origin.
ReserveContended(w) ==
  LET o == OriginOf[job[w]] IN
  /\ pc[w] = "selected"
  /\ origin_lock[o] \notin {None, w}
  /\ excluded' = [excluded EXCEPT ![w] = @ \cup {o}]
  /\ pc' = [pc EXCEPT ![w] = "claiming"]
  /\ UNCHANGED <<clock, rows, failing, row_lock, origin_lock, now, job, token,
                 leased_attempt, beat, aged>>

retry_age_exceeded(j, t) == first_attempt[j] < t - MaxRetryAge

\* The origin is reserved and the row is too old.  The row's new values are
\* visible to others when the transaction commits (settle_aged).
ReserveAged(w) ==
  LET o == OriginOf[job[w]] IN
  /\ pc[w] = "selected"
  /\ origin_lock[o] \in {None, w}
  /\ retry_age_exceeded(job[w], now[w])
  /\ origin_lock' = [origin_lock EXCEPT ![o] = w]
  /\ aged' = [aged EXCEPT ![w] = @ \cup {job[w]}]
  /\ pc' = [pc EXCEPT ![w] = "claiming"]
  /\ UNCHANGED <<clock, rows, failing, row_lock, now, job, token, leased_attempt, beat,
                 excluded>>

\* Mutants: one of the two limits is not read again.
admissible_capacity_only(w) == origin_has_capacity(OriginOf[job[w]], now[w])
admissible_source_only(w) == ~source_busy(job[w], now[w])

\* The limits, read again under the origin's lock.
admissible(w) ==
  /\ origin_has_capacity(OriginOf[job[w]], now[w])
  /\ ~source_busy(job[w], now[w])

ReserveRefused(w) ==
  LET o == OriginOf[job[w]] IN
  /\ pc[w] = "selected"
  /\ origin_lock[o] \in {None, w}
  /\ ~retry_age_exceeded(job[w], now[w])
  /\ ~admissible(w)
  /\ origin_lock' = [origin_lock EXCEPT ![o] = w]
  /\ excluded' = [excluded EXCEPT ![w] = @ \cup {o}]
  /\ pc' = [pc EXCEPT ![w] = "claiming"]
  /\ UNCHANGED <<clock, rows, failing, row_lock, now, job, token, leased_attempt, beat, aged>>

Reserve(w) ==
  LET o == OriginOf[job[w]] IN
  /\ pc[w] = "selected"
  /\ origin_lock[o] \in {None, w}
  /\ ~retry_age_exceeded(job[w], now[w])
  /\ admissible(w)
  /\ origin_lock' = [origin_lock EXCEPT ![o] = w]
  /\ pc' = [pc EXCEPT ![w] = "reserved"]
  /\ UNCHANGED <<clock, rows, failing, row_lock, now, job, token, leased_attempt, beat,
                 excluded, aged>>

\* A recurring job starts a new cycle, any other has failed.
status_when_given_up(j) == IF is_recurring(j) THEN "ready" ELSE "failed"

\* What the commit of w's claim writes for the rows it aged out: a recurring
\* job starts a new cycle one interval later, any other job has failed.
settle_aged(w) ==
  LET next_run == now[w] + PollInterval
      renewed == {j \in aged[w] : is_recurring(j)}
  IN [status  |-> [j \in Jobs |-> IF j \in aged[w] THEN status_when_given_up(j) ELSE status[j]],
      token   |-> [j \in Jobs |-> IF j \in aged[w] THEN None ELSE lease_token[j]],
      deadline |-> [j \in Jobs |-> IF j \in aged[w] THEN 0 ELSE lease_deadline[j]],
      run_at  |-> [j \in Jobs |-> IF j \in renewed THEN next_run ELSE run_at[j]],
      first   |-> [j \in Jobs |-> IF j \in renewed THEN next_run ELSE first_attempt[j]],
      attempt |-> [j \in Jobs |-> IF j \in renewed THEN 0 ELSE attempt[j]],
      failing |-> failing \cup UNION {work_source(j) : j \in aged[w]}]

\* A UUID nobody else holds.
fresh(t) == t \notin {lease_token[j] : j \in Jobs} \cup {token[w] : w \in Workers}

\* UPDATE ... SET status = 'leased' and the commit.  The deadline counts from
\* the time run_one read before the transaction, not from the clock.
Grant(w) ==
  LET after == settle_aged(w) j == job[w] IN
  /\ pc[w] = "reserved"
  /\ \E t \in Tokens :
       /\ fresh(t)
       /\ token' = [token EXCEPT ![w] = t]
       /\ lease_token' = [after.token EXCEPT ![j] = t]
  /\ status' = [after.status EXCEPT ![j] = "leased"]
  /\ lease_deadline' = [after.deadline EXCEPT ![j] = now[w] + LeaseDuration]
  /\ leased_attempt' = [leased_attempt EXCEPT ![w] = attempt[j]]
  /\ run_at' = after.run_at /\ first_attempt' = after.first
  /\ attempt' = after.attempt /\ failing' = after.failing
  /\ revived' = revived \ {j}
  /\ pc' = [pc EXCEPT ![w] = "working"]
  /\ excluded' = [excluded EXCEPT ![w] = {}]
  /\ aged' = [aged EXCEPT ![w] = {}]
  /\ release_rows(w) /\ release_origins(w)
  /\ UNCHANGED <<clock, now, job, beat>>

\* The candidate query returns nothing: commit what was aged out, return None.
ClaimNothing(w) ==
  LET after == settle_aged(w) IN
  /\ pc[w] = "claiming" /\ candidates(w) = {}
  /\ status' = after.status /\ lease_token' = after.token
  /\ lease_deadline' = after.deadline
  /\ run_at' = after.run_at /\ first_attempt' = after.first
  /\ attempt' = after.attempt /\ failing' = after.failing
  /\ forget(w) /\ release_rows(w) /\ release_origins(w)
  /\ UNCHANGED <<clock, revived>>
-----------------------------------------------------------------------------
(* Working under a lease. *)

\* Mutants: the token, or the deadline, is not compared.
holds_any_token(w) == status[job[w]] = "leased"
live_any_deadline(w) == status[job[w]] = "leased" /\ lease_token[job[w]] = token[w]

holds(w) == status[job[w]] = "leased" /\ lease_token[job[w]] = token[w]
live(w) == holds(w) /\ lease_deadline[job[w]] >= clock
unlocked(w) == row_lock[job[w]] = None

\* The heartbeat finds its lease live.  The new deadline was computed when the
\* call was made; the handler goes on, and may have the row locked.
renew(w) ==
  /\ pc[w] \in {"working", "committing"} /\ beat[w] = 0 /\ live(w)
  /\ \E d \in lease_deadline[job[w]]..(clock + LeaseDuration) : beat' = [beat EXCEPT ![w] = d]
  /\ UNCHANGED <<clock, rows, failing, row_lock, origin_lock, pc, now, job, token,
                 leased_attempt, excluded, aged>>

\* It has the row and writes.  Only a row that was changed meanwhile is tested
\* again, and that is a row with another token or none (StaleLease).
renewed(w) ==
  LET j == job[w] IN
  /\ beat[w] # 0 /\ unlocked(w) /\ holds(w)
  /\ lease_deadline' = [lease_deadline EXCEPT ![j] = beat[w]]
  /\ revived' = IF lease_deadline[j] < clock THEN revived \cup {j} ELSE revived
  /\ beat' = [beat EXCEPT ![w] = 0]
  /\ UNCHANGED <<clock, status, lease_token, run_at, first_attempt, attempt, failing,
                 row_lock, origin_lock, pc, now, job, token, leased_attempt, excluded, aged>>

\* Mutant: the row is read without FOR UPDATE.
assert_lease_unlocked(w) ==
  /\ pc[w] = "working" /\ unlocked(w) /\ live(w)
  /\ pc' = [pc EXCEPT ![w] = "committing"]
  /\ UNCHANGED <<clock, rows, failing, row_lock, origin_lock, now, job, token,
                 leased_attempt, beat, excluded, aged>>

\* A transaction of the handler opens: assert_lease locks the row.
assert_lease(w) ==
  /\ pc[w] = "working" /\ unlocked(w) /\ live(w)
  /\ row_lock' = [row_lock EXCEPT ![job[w]] = w]
  /\ pc' = [pc EXCEPT ![w] = "committing"]
  /\ UNCHANGED <<clock, rows, failing, origin_lock, now, job, token, leased_attempt,
                 beat, excluded, aged>>

\* It commits.  A collection (commit_poll, record_source_success) clears the
\* error of its source; what else it writes is the subject of other modules.
EndCommit(w) ==
  /\ pc[w] = "committing"
  /\ pc' = [pc EXCEPT ![w] = "working"]
  /\ failing' = IF Collects(job[w]) THEN failing \ {SourceOf[job[w]]} ELSE failing
  /\ release_rows(w)
  /\ UNCHANGED <<clock, rows, origin_lock, now, job, token, leased_attempt, beat,
                 excluded, aged>>

\* It is rolled back, and the handler returns the error; or a heartbeat found
\* the lease gone and the handler is dropped.  Either ends the heartbeats.
AbortCommit(w) ==
  /\ pc[w] = "committing"
  /\ pc' = [pc EXCEPT ![w] = "erred"]
  /\ beat' = [beat EXCEPT ![w] = 0]
  /\ release_rows(w)
  /\ UNCHANGED <<clock, rows, failing, origin_lock, now, job, token, leased_attempt,
                 excluded, aged>>

\* complete: finish compares the token and never the deadline.
complete(w) ==
  LET j == job[w] next_run == clock + PollInterval IN
  /\ pc[w] = "working" /\ unlocked(w) /\ holds(w)
  /\ status' = [status EXCEPT ![j] = IF is_recurring(j) THEN "ready" ELSE "completed"]
  /\ run_at' = [run_at EXCEPT ![j] = IF is_recurring(j) THEN next_run ELSE 0]
  /\ first_attempt' = [first_attempt EXCEPT ![j] = IF is_recurring(j) THEN next_run ELSE @]
  /\ attempt' = [attempt EXCEPT ![j] = IF is_recurring(j) THEN 0 ELSE @]
  /\ lease_token' = [lease_token EXCEPT ![j] = None]
  /\ lease_deadline' = [lease_deadline EXCEPT ![j] = 0]
  /\ forget(w)
  /\ UNCHANGED <<clock, revived, failing, row_lock, origin_lock>>

larger(a, b) == IF a < b THEN b ELSE a

\* 1 << min(attempt, 10) seconds.
backoff(n) == <<1, 2, 4, 8, 16, 32, 64, 128, 256, 512, 1024>>[IF n < 10 THEN n + 1 ELSE 11]

\* not_before of a response that asked to wait r; 0 stands for its absence.
not_before(w, r) == IF r = 0 THEN 0 ELSE now[w] + r

retry_at(w, rate_limited, r) ==
  larger(now[w] + larger(backoff(leased_attempt[w]), IF rate_limited THEN RateLimitDelay ELSE 0)
               + Jitter[job[w]],
         not_before(w, r))

exhausted(w) == leased_attempt[w] + 1 >= RetryAttempts

\* The handler's error is reported: the UPDATE of retry or fail finds the lease
\* live, and then waits for the row.
report(w) ==
  /\ pc[w] \in {"working", "erred"} /\ live(w)
  /\ pc' = [pc EXCEPT ![w] = "reporting"]
  /\ now' = [now EXCEPT ![w] = clock]
  /\ beat' = [beat EXCEPT ![w] = 0]
  /\ UNCHANGED <<clock, rows, failing, row_lock, origin_lock, job, token, leased_attempt,
                 excluded, aged>>

reporting(w) == pc[w] = "reporting" /\ unlocked(w)

\* retry: the row keeps its token, but is no longer leased under it.
retry(w) ==
  LET j == job[w] IN
  /\ reporting(w) /\ holds(w) /\ ~exhausted(w)
  /\ \E rate_limited \in BOOLEAN, r \in RetryAfter :
       run_at' = [run_at EXCEPT ![j] = retry_at(w, rate_limited, r)]
  /\ status' = [status EXCEPT ![j] = "ready"]
  /\ lease_deadline' = [lease_deadline EXCEPT ![j] = 0]
  /\ attempt' = [attempt EXCEPT ![j] = @ + 1]
  /\ failing' = failing \cup work_source(j)
  /\ forget(w)
  /\ UNCHANGED <<clock, lease_token, first_attempt, revived, row_lock, origin_lock>>

\* fail: the end of a one-shot job; a recurring one starts a new cycle.
fail(w) ==
  LET j == job[w] IN
  /\ reporting(w) /\ holds(w) /\ exhausted(w)
  /\ \E rate_limited \in BOOLEAN, r \in RetryAfter :
       LET at == IF rate_limited THEN retry_at(w, rate_limited, r) ELSE not_before(w, r)
           next_run == larger(clock + PollInterval, at)
       IN /\ run_at' = [run_at EXCEPT ![j] = IF is_recurring(j) THEN next_run
                                             ELSE IF at = 0 THEN @ ELSE at]
          /\ first_attempt' = [first_attempt EXCEPT ![j] = IF is_recurring(j) THEN next_run ELSE @]
  /\ status' = [status EXCEPT ![j] = status_when_given_up(j)]
  /\ lease_token' = [lease_token EXCEPT ![j] = IF is_recurring(j) THEN None ELSE @]
  /\ lease_deadline' = [lease_deadline EXCEPT ![j] = 0]
  /\ attempt' = [attempt EXCEPT ![j] = IF is_recurring(j) THEN 0 ELSE @]
  /\ failing' = failing \cup work_source(j)
  /\ forget(w)
  /\ UNCHANGED <<clock, revived, row_lock, origin_lock>>

\* Any of the calls above finds the lease gone: renew drops the handler, and
\* the retry or fail that follows is refused for the same reason; or it loses
\* the lease while it waits for the row.
StaleLease(w) ==
  /\ \/ pc[w] \in {"working", "erred"} /\ ~live(w)
     \/ reporting(w) /\ ~holds(w)
  /\ forget(w)
  /\ UNCHANGED <<clock, rows, failing, row_lock, origin_lock>>

\* The process dies or its connection breaks; PostgreSQL rolls back.
Crash(w) ==
  /\ clock <= CrashHorizon
  /\ pc[w] # "idle"
  /\ forget(w) /\ release_rows(w) /\ release_origins(w)
  /\ UNCHANGED <<clock, rows, failing>>

Claim(w) == \/ Begin(w) \/ Select(w) \/ ReserveContended(w) \/ ReserveAged(w)
            \/ ReserveRefused(w) \/ Reserve(w) \/ Grant(w) \/ ClaimNothing(w)
Heartbeat(w) == renew(w) \/ renewed(w)
Outcome(w) == complete(w) \/ report(w) \/ retry(w) \/ fail(w) \/ StaleLease(w)
Close(w) == EndCommit(w) \/ AbortCommit(w)

Next ==
  \/ Tick
  \/ \E j \in Jobs : enqueue_work(j)
  \/ \E w \in Workers : Claim(w) \/ Heartbeat(w) \/ assert_lease(w) \/ Close(w)
                         \/ Outcome(w) \/ Crash(w)

Spec == Init /\ [][Next]_vars

\* Time passes, workers keep calling run_one, statements return, and a handler
\* makes finitely many commits before it reports an outcome.
FairSpec == /\ Spec
            /\ WF_vars(Tick)
            /\ \A w \in Workers : WF_vars(Claim(w)) /\ WF_vars(Close(w)) /\ SF_vars(Outcome(w))
-----------------------------------------------------------------------------
Stages == {"idle", "claiming", "selected", "reserved", "working", "committing", "erred",
           "reporting"}

\* Every column and every field of a worker holds a value of its type.
TypeOK ==
  /\ clock \in 0..MaxTime
  /\ status \in [Jobs -> {"absent", "ready", "leased", "completed", "failed"}]
  /\ lease_token \in [Jobs -> Tokens \cup {None}]
  /\ lease_deadline \in [Jobs -> Nat]
  /\ run_at \in [Jobs -> Int]
  /\ first_attempt \in [Jobs -> Nat]
  /\ attempt \in [Jobs -> Nat]
  /\ revived \subseteq Jobs
  /\ failing \subseteq Sources
  /\ row_lock \in [Jobs -> Workers \cup {None}]
  /\ origin_lock \in [Origins -> Workers \cup {None}]
  /\ pc \in [Workers -> Stages]
  /\ now \in [Workers -> 0..MaxTime]
  /\ job \in [Workers -> Jobs \cup {None}]
  /\ token \in [Workers -> Tokens \cup {None}]
  /\ leased_attempt \in [Workers -> Nat]
  /\ beat \in [Workers -> Nat]
  /\ excluded \in [Workers -> SUBSET Origins]
  /\ aged \in [Workers -> SUBSET Jobs]

\* A lease live at t that has been so since it was granted.
stands(j, t) == status[j] = "leased" /\ lease_deadline[j] >= t /\ j \notin revived

standing(o, t) == {a \in Jobs : OriginOf[a] = o /\ stands(a, t)}

\* However claims and heartbeats interleave, the leases of one origin that are
\* live and never ran out do not exceed per_origin_concurrency: the candidate
\* query alone does not ensure it, the second count under the origin's advisory
\* lock does.
OriginCapacity == \A o \in Origins : Cardinality(standing(o, clock)) <= PerOriginConcurrency

\* Two jobs that collect the same source (its poll and a manual refresh) are
\* never together under leases that are live and never ran out.
PollSerialized ==
  \A a, b \in Jobs :
    /\ Collects(a) /\ Collects(b) /\ SourceOf[a] = SourceOf[b]
    /\ stands(a, clock) /\ stands(b, clock)
    => a = b

\* A worker whose transaction passed assert_lease owns the job until the
\* transaction ends, even when the deadline passes meanwhile: nobody else takes
\* the job over, ends it or writes for it.
CommitFenced ==
  \A w \in Workers : pc[w] = "committing" =>
    /\ holds(w)
    /\ \A v \in Workers : pc[v] \in {"selected", "reserved", "committing"} /\ job[v] = job[w] => v = w

\* The attempt that retry_attempts bounds is the one run_one decides by: the
\* column never reaches the limit, whichever workers raised it.
RetryBudget == \A j \in Jobs : attempt[j] < RetryAttempts

\* Neither exhausted retries nor old age end a recurring collection.
RecurringSurvives == \A j \in Jobs : is_recurring(j) => status[j] \notin {"completed", "failed"}

\* A late heartbeat revives a lease for at most one more lease_seconds: as long
\* as the token is the same, no step moves the deadline of a lease that ran out
\* by more than that, however long the UPDATE waited for its row.
RevivalBounded ==
  [][\A j \in Jobs :
       /\ status[j] = "leased" /\ lease_deadline[j] < clock
       /\ status'[j] = "leased" /\ lease_token'[j] = lease_token[j]
       => lease_deadline'[j] <= lease_deadline[j] + LeaseDuration]_vars

Due(j) == \/ status[j] = "ready" /\ run_at[j] <= clock
          \/ status[j] = "leased" /\ lease_deadline[j] < clock

\* A job that is due, new, retried or left by a crashed worker, is eventually
\* taken up or ended.
DueServed == \A j \in Jobs : Due(j) ~> ~Due(j)

\* The state of module FencedJobs that a state of the queue stands for.
phase == [j \in Jobs |-> CASE status[j] = "absent" -> "absent"
                           [] status[j] = "ready"  -> "waiting"
                           [] status[j] = "leased" -> "owned"
                           [] OTHER                -> "ended"]
owner == [j \in Jobs |-> IF status[j] = "leased" THEN lease_token[j] ELSE None]
writing == [j \in Jobs |-> IF row_lock[j] # None /\ pc[row_lock[j]] = "committing"
                           THEN token[row_lock[j]] ELSE None]

Fenced == INSTANCE FencedJobs WITH phase <- phase, owner <- owner, writing <- writing

\* Every step of the queue is a step of the abstract ownership: effects are
\* written under the current token only, and jobs change hands between writes.
ImplementsFenced == Fenced!Spec
=============================================================================
