------------------------ MODULE JobQueueInvariant ---------------------------
(***************************************************************************)
(* The inductive invariant of the ingest queue, what its operators return, *)
(* why a step that starts no lease keeps the limits of origins and         *)
(* sources, and the steps of time, of enqueue_work and of the start of a   *)
(* claim.                                                                  *)
(***************************************************************************)
EXTENDS JobQueue, TLAPS

-----------------------------------------------------------------------------
(* The inductive invariant. *)

\* A worker past its candidate query has a job, and no worker's clock is ahead.
Placed ==
  \A w \in Workers : /\ pc[w] \notin {"idle", "claiming"} => job[w] \in Jobs
                     /\ now[w] <= clock

\* Who holds which row and which origin, stage by stage.
Locked ==
  \A w \in Workers :
    /\ pc[w] \in {"selected", "reserved", "committing"} => row_lock[job[w]] = w
    /\ pc[w] \in {"idle", "working", "erred", "reporting"} => \A j \in Jobs : row_lock[j] # w
    /\ pc[w] = "committing" => \A j \in Jobs : row_lock[j] = w => j = job[w]
    /\ pc[w] \notin {"claiming", "selected", "reserved"} =>
         aged[w] = {} /\ \A o \in Origins : origin_lock[o] # w

\* The rows of an open claim are still as its candidate query found them.
Stable ==
  \A w \in Workers :
    /\ pc[w] \in {"selected", "reserved"} => claimable(job[w], now[w]) /\ job[w] \notin aged[w]
    /\ \A j \in aged[w] : row_lock[j] = w /\ claimable(j, now[w])

\* There is room for the job of w among the leases that never ran out.
room(w) ==
  /\ Cardinality(standing(OriginOf[job[w]], now[w])) < PerOriginConcurrency
  /\ \A a \in Jobs :
       stands(a, now[w]) => ~(Collects(a) /\ Collects(job[w]) /\ SourceOf[a] = SourceOf[job[w]])

\* A reservation stays good until it is used: only a claim under the origin's
\* lock adds to these leases, a late heartbeat does not.
Reserved ==
  \A w \in Workers : pc[w] = "reserved" => origin_lock[OriginOf[job[w]]] = w /\ room(w)

\* A token is known to one worker and to the row of its job.
Tokened ==
  \A w \in Workers :
    /\ token[w] # None <=> pc[w] \in {"working", "committing", "erred", "reporting"}
    /\ token[w] # None => /\ \A v \in Workers : token[v] = token[w] => v = w
                          /\ \A j \in Jobs : lease_token[j] = token[w] => j = job[w]

\* An open transaction is under the current lease; the attempt a worker decides
\* by is the one in the row while its lease lasts; and a heartbeat under way
\* would prolong the lease it found by one lease duration at most.
Owned ==
  \A w \in Workers :
    /\ pc[w] = "committing" => holds(w)
    /\ token[w] # None /\ holds(w) => leased_attempt[w] = attempt[job[w]]
    /\ beat[w] # 0 => pc[w] \in {"working", "committing"}
    /\ beat[w] # 0 /\ holds(w) => beat[w] <= lease_deadline[job[w]] + LeaseDuration

IInv == /\ TypeOK /\ Placed /\ Locked /\ Stable /\ Reserved /\ Tokened /\ Owned
        /\ OriginCapacity /\ PollSerialized /\ RetryBudget /\ RecurringSurvives
-----------------------------------------------------------------------------
(* The operators. *)

\* The delay before a retry is a natural number of seconds.
LEMMA BackoffNat == \A n \in Nat : backoff(n) \in Nat
<1> TAKE n \in Nat
<1>1. CASE n < 10
  BY DEF backoff
<1>2. CASE ~(n < 10)
  BY DEF backoff
<1> QED
  BY <1>1, <1>2

\* The time a retry is due at, and the time a fail passes on.
LEMMA RetryAtNat ==
  ASSUME TypeOK, NEW w \in Workers, job[w] \in Jobs, NEW b \in BOOLEAN, NEW r \in RetryAfter
  PROVE  retry_at(w, b, r) \in Nat /\ not_before(w, r) \in Nat
<1>1. backoff(leased_attempt[w]) \in Nat
  BY BackoffNat DEF TypeOK
<1>2. Jitter[job[w]] \in Nat /\ now[w] \in Nat /\ r \in Nat
  BY LimitsAssumption DEF TypeOK
<1>3. not_before(w, r) \in Nat
  BY <1>2 DEF not_before
<1> DEFINE d == larger(backoff(leased_attempt[w]), IF b THEN RateLimitDelay ELSE 0)
<1>4. d \in Nat
  BY <1>1, LimitsAssumption DEF larger
<1>5. now[w] + d + Jitter[job[w]] \in Nat
  BY <1>2, <1>4
<1> HIDE DEF d
<1>6. retry_at(w, b, r) = larger(now[w] + d + Jitter[job[w]], not_before(w, r))
  BY DEF retry_at, d
<1> QED
  BY <1>3, <1>5, <1>6 DEF larger

\* The rows a claim writes when it commits have the types of the columns.
LEMMA SettleAgedType ==
  ASSUME TypeOK, NEW w \in Workers
  PROVE  /\ settle_aged(w).status \in [Jobs -> {"absent", "ready", "leased", "completed", "failed"}]
         /\ settle_aged(w).token \in [Jobs -> Tokens \cup {None}]
         /\ settle_aged(w).deadline \in [Jobs -> Nat]
         /\ settle_aged(w).run_at \in [Jobs -> Int]
         /\ settle_aged(w).first \in [Jobs -> Nat]
         /\ settle_aged(w).attempt \in [Jobs -> Nat]
         /\ settle_aged(w).failing \subseteq Sources
<1>1. \A j \in Jobs : work_source(j) \subseteq Sources
  BY ConstantsAssumption DEF work_source
<1>2. aged[w] \subseteq Jobs /\ now[w] + PollInterval \in Nat
  BY LimitsAssumption DEF TypeOK
<1>3. failing \cup UNION {work_source(j) : j \in aged[w]} \subseteq Sources
  BY <1>1 DEF TypeOK
<1> QED
  BY <1>2, <1>3 DEF TypeOK, settle_aged, status_when_given_up

\* The columns of the rows, and the clock.
LEMMA RowsTyped ==
  ASSUME IInv
  PROVE  /\ status \in [Jobs -> {"absent", "ready", "leased", "completed", "failed"}]
         /\ lease_token \in [Jobs -> Tokens \cup {None}] /\ lease_deadline \in [Jobs -> Nat]
         /\ run_at \in [Jobs -> Int] /\ attempt \in [Jobs -> Nat] /\ clock \in Nat
BY DEF IInv, TypeOK

-----------------------------------------------------------------------------
(* The limits: a step that starts no lease keeps them. *)

\* No lease stands after the step that did not stand before it.
NoNewLease == \A j \in Jobs : \A t \in 0..clock : stands(j, t)' => stands(j, t)

\* A worker with a reservation had it before the step.
OldReservations ==
  \A v \in Workers : pc'[v] = "reserved" =>
    /\ pc[v] = "reserved" /\ job'[v] = job[v] /\ now'[v] = now[v]
    /\ \A o \in Origins : origin_lock[o] = v => origin_lock'[o] = v

\* A step that writes no row starts no lease, uses no attempt and ends no job.
LEMMA RowsKept ==
  ASSUME IInv, UNCHANGED <<clock, rows>>
  PROVE  NoNewLease /\ RetryBudget' /\ RecurringSurvives' /\ clock' >= clock
BY DEF IInv, TypeOK, NoNewLease, stands, RetryBudget, RecurringSurvives, rows

\* A step that uses no attempt, and ends no recurring job, keeps their limits.
LEMMA BudgetKept ==
  ASSUME RetryBudget, RecurringSurvives,
         \A j \in Jobs : /\ attempt'[j] \in {0, attempt[j]}
                         /\ is_recurring(j) => status'[j] \in {"ready", "leased", status[j]}
  PROVE  RetryBudget' /\ RecurringSurvives'
BY LimitsAssumption DEF RetryBudget, RecurringSurvives

\* How sets of jobs are counted: none counts for nothing, a part for no more
\* than the whole, and one more job for one more at most.
Counting ==
  /\ Cardinality({}) = 0
  /\ \A S \in SUBSET Jobs :
       /\ Cardinality(S) \in Nat
       /\ \A T \in SUBSET S : Cardinality(T) <= Cardinality(S)
       /\ \A j \in Jobs : Cardinality(S \cup {j}) <= Cardinality(S) + 1

\* Fewer leases are counted against an origin, so its limit is kept.
LEMMA FewerStanding ==
  ASSUME Counting, NEW S \in SUBSET Jobs, NEW T \in SUBSET S
  PROVE  Cardinality(T) <= Cardinality(S) /\ Cardinality(S) \in Nat /\ Cardinality(T) \in Nat
BY DEF Counting

\* The limits of origins and sources, and every open reservation, survive a
\* step that starts no lease.
LEMMA LimitsKept ==
  ASSUME Counting, IInv, TypeOK', clock' >= clock, NoNewLease
  PROVE  /\ OriginCapacity' /\ PollSerialized'
         /\ \A v \in Workers : room(v) /\ job[v] \in Jobs /\ job'[v] = job[v] /\ now'[v] = now[v]
                                => room(v)'
<1>1. clock \in Nat /\ clock' \in Nat /\ clock <= MaxTime
  BY DEF IInv, TypeOK
<1>2. \A o \in Origins : \A t \in 0..clock : \A a \in Jobs :
        OriginOf[a] = o /\ stands(a, t)' => a \in standing(o, t)
  BY DEF NoNewLease, standing
<1>a. \A a \in Jobs : stands(a, clock)' => stands(a, clock)
  <2> SUFFICES ASSUME NEW a \in Jobs, stands(a, clock)' PROVE stands(a, clock)
    OBVIOUS
  <2>1. status'[a] = "leased" /\ lease_deadline'[a] >= clock' /\ a \notin revived'
    BY DEF stands
  <2>2. lease_deadline'[a] >= clock
    BY <1>1, <2>1 DEF TypeOK
  <2> DEFINE c == clock
  <2>3. c \in 0..clock /\ (status'[a] = "leased" /\ lease_deadline'[a] >= c /\ a \notin revived')
    BY <1>1, <2>1, <2>2
  <2> QED
    BY <2>3 DEF NoNewLease, stands
<1>3. \A o \in Origins : standing(o, clock)' \subseteq standing(o, clock)
  BY <1>a DEF standing
<1>4. OriginCapacity'
  <2> SUFFICES ASSUME NEW o \in Origins
               PROVE  Cardinality(standing(o, clock)') <= PerOriginConcurrency
    BY DEF OriginCapacity
  <2>1. standing(o, clock) \in SUBSET Jobs
    BY DEF standing
  <2>2. Cardinality(standing(o, clock)) <= PerOriginConcurrency
    BY DEF IInv, OriginCapacity
  <2>3. /\ Cardinality(standing(o, clock)') <= Cardinality(standing(o, clock))
        /\ Cardinality(standing(o, clock)) \in Nat /\ Cardinality(standing(o, clock)') \in Nat
    BY <1>3, <2>1, FewerStanding
  <2> QED
    BY <2>2, <2>3, LimitsAssumption
<1>5. PollSerialized'
  <2> SUFFICES ASSUME NEW a \in Jobs, NEW b \in Jobs,
                      Collects(a), Collects(b), SourceOf[a] = SourceOf[b],
                      stands(a, clock)', stands(b, clock)'
               PROVE  a = b
    BY Zenon DEF PollSerialized
  <2> QED
    BY Zenon, <1>a DEF IInv, PollSerialized
<1>6. ASSUME NEW v \in Workers, room(v), job[v] \in Jobs, job'[v] = job[v], now'[v] = now[v]
      PROVE room(v)'
  <2> DEFINE o == OriginOf[job[v]]
             t == now[v]
  <2>1. t \in 0..clock /\ o \in Origins
    BY <1>6, ConstantsAssumption DEF IInv, TypeOK, Placed
  <2>2. o' = o /\ t' = t
    BY <1>6
  <2> HIDE DEF o, t
  <2>3. standing(o, t) \in SUBSET Jobs
    BY DEF standing
  <2>4. standing(o, t)' \subseteq standing(o, t)
    <3>1. \A a \in Jobs : stands(a, t)' => stands(a, t)
      BY <2>1, <2>2 DEF NoNewLease, stands
    <3> QED
      BY <2>2, <3>1 DEF standing
  <2>5. /\ Cardinality(standing(o, t)) < PerOriginConcurrency
        /\ \A a \in Jobs :
             stands(a, t) => ~(Collects(a) /\ Collects(job[v]) /\ SourceOf[a] = SourceOf[job[v]])
    BY <1>6 DEF room, o, t
  <2>6. Cardinality(standing(o, t)') < PerOriginConcurrency
    BY <2>3, <2>4, <2>5, FewerStanding, LimitsAssumption
  <2>7. \A a \in Jobs :
          stands(a, t)' => ~(Collects(a) /\ Collects(job'[v]) /\ SourceOf[a] = SourceOf[job'[v]])
    BY <1>6, <2>1, <2>2, <2>5 DEF stands, NoNewLease
  <2> QED
    BY <2>6, <2>7 DEF room, o, t
<1> QED
  BY <1>4, <1>5, <1>6

\* The reservations themselves, when the step makes none.
LEMMA ReservationsKept ==
  ASSUME Counting, IInv, TypeOK', clock' >= clock, NoNewLease, OldReservations
  PROVE  Reserved'
<1> SUFFICES ASSUME NEW v \in Workers, pc'[v] = "reserved"
             PROVE  origin_lock'[OriginOf[job'[v]]] = v /\ room(v)'
  BY DEF Reserved
<1>1. /\ pc[v] = "reserved" /\ job'[v] = job[v] /\ now'[v] = now[v]
      /\ \A o \in Origins : origin_lock[o] = v => origin_lock'[o] = v
  BY DEF OldReservations
<1>2. job[v] \in Jobs /\ origin_lock[OriginOf[job[v]]] = v /\ room(v)
  BY <1>1 DEF IInv, Placed, Reserved
<1> QED
  BY <1>1, <1>2, LimitsKept, ConstantsAssumption

\* The initial queue is empty, unlocked and within every limit.
LEMMA InitIInv == ASSUME Counting, Init PROVE IInv
<1>0. TypeOK
  BY ConstantsAssumption, LimitsAssumption DEF Init, TypeOK, Stages
<1>1. Placed /\ Locked /\ Stable /\ Reserved /\ Tokened /\ Owned
  <2>1. \A w \in Workers : /\ pc[w] = "idle" /\ now[w] <= clock /\ token[w] = None /\ aged[w] = {}
                           /\ beat[w] = 0
                           /\ \A j \in Jobs : row_lock[j] # w
                           /\ \A o \in Origins : origin_lock[o] # w
    BY ConstantsAssumption DEF Init
  <2> QED
    BY Zenon, <2>1 DEF Placed, Locked, Stable, Reserved, Tokened, Owned
<1>2. PollSerialized /\ RetryBudget /\ RecurringSurvives
  BY LimitsAssumption DEF Init, PollSerialized, stands, RetryBudget, RecurringSurvives
<1>3. OriginCapacity
  <2>1. \A o \in Origins : standing(o, clock) = {}
    BY DEF Init, standing, stands
  <2> QED
    BY <2>1, LimitsAssumption DEF OriginCapacity, Counting
<1> QED
  BY <1>0, <1>1, <1>2, <1>3 DEF IInv

-----------------------------------------------------------------------------
(* The end of a job or of a claim: what five actions and a crash share. *)

\* A step leaves the row of j, or what worker v remembers and locks, alone.
RowSame(j) == /\ status'[j] = status[j] /\ lease_token'[j] = lease_token[j]
              /\ lease_deadline'[j] = lease_deadline[j] /\ run_at'[j] = run_at[j]
              /\ attempt'[j] = attempt[j] /\ (j \in revived' <=> j \in revived)
WorkerSame(v) == /\ pc'[v] = pc[v] /\ now'[v] = now[v] /\ job'[v] = job[v] /\ token'[v] = token[v]
                 /\ leased_attempt'[v] = leased_attempt[v] /\ beat'[v] = beat[v]
                 /\ aged'[v] = aged[v]
                 /\ \A j \in Jobs : row_lock'[j] = v <=> row_lock[j] = v
                 /\ \A o \in Origins : origin_lock'[o] = v <=> origin_lock[o] = v

\* A row that nobody but w locked is no longer leased, and has no new token.
RowLeft(w, j) == /\ row_lock[j] \in {None, w} /\ status'[j] # "leased"
                 /\ lease_token'[j] \in {None, lease_token[j]}

\* w is idle again without any lock; every other worker is where it was, and
\* every row w did not leave is as it was.
Forgets(w) ==
  /\ clock' = clock
  /\ pc'[w] = "idle" /\ now'[w] = 0 /\ token'[w] = None /\ beat'[w] = 0 /\ aged'[w] = {}
  /\ \A j \in Jobs : row_lock'[j] # w
  /\ \A o \in Origins : origin_lock'[o] # w
  /\ \A v \in Workers : v # w => WorkerSame(v)
  /\ \A j \in Jobs : RowSame(j) \/ RowLeft(w, j)

\* forget, and the release of what the worker locked, do that to the workers.
LEMMA ForgetFrees ==
  ASSUME IInv, NEW w \in Workers, forget(w),
         \/ /\ row_lock' = row_lock /\ origin_lock' = origin_lock
            /\ pc[w] \in {"working", "erred", "reporting"}
         \/ release_rows(w) /\ release_origins(w)
  PROVE  /\ pc'[w] = "idle" /\ now'[w] = 0 /\ token'[w] = None /\ beat'[w] = 0 /\ aged'[w] = {}
         /\ \A j \in Jobs : row_lock'[j] # w
         /\ \A o \in Origins : origin_lock'[o] # w
         /\ \A v \in Workers : v # w => WorkerSame(v)
<1>1. pc'[w] = "idle" /\ now'[w] = 0 /\ token'[w] = None /\ beat'[w] = 0 /\ aged'[w] = {}
  BY DEF IInv, TypeOK, forget
<1>2. /\ \A j \in Jobs : row_lock'[j] = IF row_lock[j] = w THEN None ELSE row_lock[j]
      /\ \A o \in Origins : origin_lock'[o] = IF origin_lock[o] = w THEN None ELSE origin_lock[o]
  <2>1. CASE release_rows(w) /\ release_origins(w)
    BY <2>1 DEF release_rows, release_origins
  <2>2. CASE /\ row_lock' = row_lock /\ origin_lock' = origin_lock
             /\ pc[w] \in {"working", "erred", "reporting"}
    BY <2>2 DEF IInv, Locked
  <2> QED
    BY <2>1, <2>2
<1>3. ASSUME NEW v \in Workers, v # w
      PROVE  /\ pc'[v] = pc[v] /\ now'[v] = now[v] /\ job'[v] = job[v] /\ token'[v] = token[v]
             /\ leased_attempt'[v] = leased_attempt[v] /\ beat'[v] = beat[v] /\ aged'[v] = aged[v]
  BY <1>3 DEF forget
<1> QED
  BY <1>1, <1>2, <1>3, ConstantsAssumption DEF WorkerSame

\* What forget leaves in the worker's memory has its type.
LEMMA ForgetType ==
  ASSUME IInv, NEW w \in Workers, forget(w)
  PROVE  /\ pc' \in [Workers -> Stages] /\ now' \in [Workers -> 0..MaxTime]
         /\ job' \in [Workers -> Jobs \cup {None}] /\ token' \in [Workers -> Tokens \cup {None}]
         /\ leased_attempt' \in [Workers -> Nat] /\ beat' \in [Workers -> Nat]
         /\ excluded' \in [Workers -> SUBSET Origins] /\ aged' \in [Workers -> SUBSET Jobs]
BY LimitsAssumption DEF IInv, TypeOK, Stages, forget

\* What Placed, Locked and Stable say of worker v after the step.
StillPlaced(v) ==
  /\ pc'[v] \notin {"idle", "claiming"} => job'[v] \in Jobs
  /\ now'[v] <= clock'
  /\ pc'[v] \in {"selected", "reserved", "committing"} => row_lock'[job'[v]] = v
  /\ pc'[v] \in {"idle", "working", "erred", "reporting"} => \A j \in Jobs : row_lock'[j] # v
  /\ pc'[v] = "committing" => \A j \in Jobs : row_lock'[j] = v => j = job'[v]
  /\ pc'[v] \notin {"claiming", "selected", "reserved"} =>
       aged'[v] = {} /\ \A o \in Origins : origin_lock'[o] # v
StillStable(v) ==
  /\ pc'[v] \in {"selected", "reserved"} => claimable(job[v], now[v])' /\ job'[v] \notin aged'[v]
  /\ \A j \in aged'[v] : row_lock'[j] = v /\ claimable(j, now[v])'

\* A worker the step leaves alone, with the rows it locked, stays in order.
LEMMA OthersKept ==
  ASSUME IInv, clock' = clock, NEW v \in Workers, WorkerSame(v),
         \A j \in Jobs : row_lock[j] = v => RowSame(j)
  PROVE  StillPlaced(v) /\ StillStable(v)
<1>1. StillPlaced(v)
  BY DEF IInv, Placed, Locked, WorkerSame, StillPlaced
<1>2. pc[v] \in {"selected", "reserved"} => /\ job[v] \in Jobs /\ row_lock[job[v]] = v
                                            /\ claimable(job[v], now[v]) /\ job[v] \notin aged[v]
  BY DEF IInv, Placed, Locked, Stable
<1>3. \A j \in aged[v] : j \in Jobs /\ row_lock[j] = v /\ claimable(j, now[v])
  BY DEF IInv, TypeOK, Stable
<1>4. ASSUME NEW j \in Jobs, row_lock[j] = v, claimable(j, now[v])
      PROVE  row_lock'[j] = v /\ claimable(j, now[v])'
  BY <1>4 DEF WorkerSame, RowSame, claimable
<1> QED
  BY <1>1, <1>2, <1>3, <1>4 DEF WorkerSame, StillStable

\* Such a step disturbs no other worker.
LEMMA ForgetsStep ==
  ASSUME IInv, NEW w \in Workers, Forgets(w)
  PROVE  /\ Placed' /\ Locked' /\ Stable' /\ Tokened' /\ Owned'
         /\ NoNewLease /\ OldReservations /\ clock' >= clock
<1>1. clock' >= clock /\ clock \in Nat /\ clock' = clock
  BY DEF IInv, TypeOK, Forgets
<1>2. NoNewLease
  BY DEF NoNewLease, stands, Forgets, RowSame, RowLeft
<1>3. OldReservations
  BY DEF OldReservations, Forgets, WorkerSame
<1>4. ASSUME NEW v \in Workers, v # w PROVE StillPlaced(v) /\ StillStable(v)
  <2>1. WorkerSame(v) /\ \A j \in Jobs : row_lock[j] = v => RowSame(j)
    BY <1>4, ConstantsAssumption DEF Forgets, RowLeft
  <2> QED
    BY <1>1, <2>1, OthersKept
<1>5. Placed' /\ Locked' /\ Stable'
  <2>1. StillPlaced(w) /\ StillStable(w)
    BY <1>1 DEF StillPlaced, StillStable, Forgets
  <2>2. \A v \in Workers : StillPlaced(v) /\ StillStable(v)
    BY <1>4, <2>1
  <2> QED
    BY <2>2 DEF Placed, Locked, Stable, StillPlaced, StillStable
<1>6. Tokened'
  <2>1. \A j \in Jobs : lease_token'[j] \in {None, lease_token[j]}
    BY DEF Forgets, RowSame, RowLeft
  <2>2. /\ pc'[w] = "idle" /\ token'[w] = None
        /\ \A v \in Workers : v # w => pc'[v] = pc[v] /\ token'[v] = token[v] /\ job'[v] = job[v]
    BY Zenon DEF Forgets, WorkerSame
  <2> QED
    BY <2>1, <2>2 DEF IInv, Tokened
<1>7. Owned'
  <2>1. ASSUME NEW v \in Workers, v # w, token[v] # None, job[v] \in Jobs
        PROVE  /\ pc[v] = "committing" => RowSame(job[v])
               /\ holds(v)' => RowSame(job[v])
    <3>1. WorkerSame(v) /\ (RowSame(job[v]) \/ RowLeft(w, job[v]))
      BY <2>1 DEF Forgets
    <3>2. pc[v] = "committing" => row_lock[job[v]] = v
      BY DEF IInv, Locked
    <3> QED
      BY <2>1, <3>1, <3>2, ConstantsAssumption DEF WorkerSame, RowLeft, holds
  <2>2. ASSUME NEW v \in Workers, v # w
        PROVE  /\ pc'[v] = "committing" => holds(v)'
               /\ token'[v] # None /\ holds(v)' => leased_attempt'[v] = attempt'[job'[v]]
               /\ beat'[v] # 0 => pc'[v] \in {"working", "committing"}
               /\ beat'[v] # 0 /\ holds(v)' => beat'[v] <= lease_deadline'[job'[v]] + LeaseDuration
    <3>1. WorkerSame(v)
      BY <2>2 DEF Forgets
    <3>2. /\ pc[v] = "committing" => token[v] # None /\ holds(v)
          /\ token[v] # None => job[v] \in Jobs
          /\ token[v] # None /\ holds(v) => leased_attempt[v] = attempt[job[v]]
          /\ beat[v] # 0 => pc[v] \in {"working", "committing"} /\ token[v] # None
          /\ beat[v] # 0 /\ holds(v) => beat[v] <= lease_deadline[job[v]] + LeaseDuration
      BY Zenon DEF IInv, Placed, Tokened, Owned
    <3> QED
      BY <2>1, <2>2, <3>1, <3>2 DEF WorkerSame, RowSame, holds
  <2> QED
    BY <2>2 DEF Owned, Forgets
<1> QED
  BY <1>1, <1>2, <1>3, <1>5, <1>6, <1>7

-----------------------------------------------------------------------------
(* Time, the enqueuing of a job, and the start of a claim.                 *)

\* Time passes.
LEMMA TickStep == ASSUME Counting, IInv, Tick PROVE IInv'
<1>1. TypeOK'
  BY LimitsAssumption DEF IInv, TypeOK, Tick, rows, memory
<1>2. Placed' /\ Locked'
  BY DEF IInv, TypeOK, Placed, Locked, Tick, memory
<1>3. Stable'
  BY DEF IInv, Stable, claimable, Tick, rows, memory
<1>4. NoNewLease /\ OldReservations /\ clock' >= clock
  BY DEF IInv, TypeOK, NoNewLease, stands, OldReservations, Tick, rows, memory
<1>5. Tokened' /\ Owned'
  BY DEF IInv, Tokened, Owned, holds, Tick, rows, memory
<1>6. RetryBudget' /\ RecurringSurvives'
  BY DEF IInv, RetryBudget, RecurringSurvives, Tick, rows
<1> QED
  BY Zenon, <1>1, <1>2, <1>3, <1>4, <1>5, <1>6, LimitsKept, ReservationsKept DEF IInv

\* A job is enqueued.
LEMMA EnqueueStep == ASSUME Counting, IInv, NEW j \in Jobs, enqueue_work(j) PROVE IInv'
<1>1. TypeOK'
  BY DEF IInv, TypeOK, enqueue_work, initial_job_run_at, memory
<1>2. Placed' /\ Locked'
  BY DEF IInv, Placed, Locked, enqueue_work, memory
<1>3. Stable'
  BY DEF IInv, Stable, claimable, enqueue_work, memory
<1>4. NoNewLease /\ OldReservations /\ clock' >= clock
  <2>1. status \in [Jobs -> {"absent", "ready", "leased", "completed", "failed"}] /\ clock \in Nat
    BY DEF IInv, TypeOK
  <2> QED
    BY <2>1 DEF NoNewLease, stands, OldReservations, enqueue_work, memory
<1>5. Tokened' /\ Owned'
  <2>1. Tokened /\ Owned
    BY DEF IInv
  <2>2. lease_token' = lease_token /\ memory' = memory /\ attempt' = attempt
        /\ lease_deadline' = lease_deadline
    BY DEF enqueue_work
  <2>3. ASSUME NEW v \in Workers, job[v] \in Jobs PROVE holds(v)' <=> holds(v)
    <3>1. job' = job /\ token' = token
      BY <2>2 DEF memory
    <3>2. \A k \in Jobs : status'[k] = "leased" <=> status[k] = "leased"
      <4>1. status \in [Jobs -> {"absent", "ready", "leased", "completed", "failed"}]
        BY DEF IInv, TypeOK
      <4> QED
        BY <4>1 DEF enqueue_work
    <3> QED
      BY <2>2, <2>3, <3>1, <3>2 DEF holds
  <2>4. \A v \in Workers : pc[v] = "committing" \/ token[v] # None => job[v] \in Jobs
    BY <2>1 DEF IInv, Placed, Tokened
  <2> QED
    BY <2>1, <2>2, <2>3, <2>4 DEF Tokened, Owned, memory
<1>6. RetryBudget' /\ RecurringSurvives'
  BY DEF IInv, RetryBudget, RecurringSurvives, enqueue_work
<1> QED
  BY <1>1, <1>2, <1>3, <1>4, <1>5, <1>6, LimitsKept, ReservationsKept DEF IInv

\* A worker opens a claim.
LEMMA BeginStep == ASSUME Counting, IInv, NEW w \in Workers, Begin(w) PROVE IInv'
<1>1. TypeOK'
  BY DEF IInv, TypeOK, Stages, Begin, rows
<1>2. Placed' /\ Locked'
  BY DEF IInv, TypeOK, Placed, Locked, Begin
<1>3. Stable'
  BY DEF IInv, Locked, Stable, claimable, Begin, rows
<1>4. NoNewLease /\ RetryBudget' /\ RecurringSurvives' /\ clock' >= clock
  BY RowsKept DEF Begin
<1>5. Tokened' /\ Owned'
  BY DEF IInv, Tokened, Owned, holds, Begin, rows
<1>6. OldReservations
  BY DEF OldReservations, Begin
<1> QED
  BY <1>1, <1>2, <1>3, <1>4, <1>5, <1>6, LimitsKept, ReservationsKept DEF IInv

\* The memory and the locks of the claims.
LEMMA ClaimMemory ==
  ASSUME IInv
  PROVE  /\ pc \in [Workers -> Stages] /\ aged \in [Workers -> SUBSET Jobs]
         /\ job \in [Workers -> Jobs \cup {None}] /\ excluded \in [Workers -> SUBSET Origins]
         /\ row_lock \in [Jobs -> Workers \cup {None}]
         /\ origin_lock \in [Origins -> Workers \cup {None}]
BY DEF IInv, TypeOK

\* A step that writes nothing else keeps the types.
LEMMA ClaimType ==
  ASSUME IInv, clock' = clock, rows' = rows, failing' = failing, now' = now, token' = token,
         leased_attempt' = leased_attempt, beat' = beat,
         pc' \in [Workers -> Stages], aged' \in [Workers -> SUBSET Jobs],
         job' \in [Workers -> Jobs \cup {None}], excluded' \in [Workers -> SUBSET Origins],
         row_lock' \in [Jobs -> Workers \cup {None}],
         origin_lock' \in [Origins -> Workers \cup {None}]
  PROVE  TypeOK'
BY DEF IInv, TypeOK, rows

\* The candidate query locks a row.
LEMMA SelectStep == ASSUME Counting, IInv, NEW w \in Workers, Select(w) PROVE IInv'
<1>1. TypeOK'
  <2>1. PICK j \in Jobs : /\ job' = [job EXCEPT ![w] = j]
                          /\ row_lock' = [row_lock EXCEPT ![j] = w]
    BY Zenon DEF Select, candidates
  <2>2. pc' = [pc EXCEPT ![w] = "selected"] /\ "selected" \in Stages
    BY Zenon DEF Stages, Select
  <2>3. /\ pc' \in [Workers -> Stages] /\ job' \in [Workers -> Jobs \cup {None}]
        /\ row_lock' \in [Jobs -> Workers \cup {None}]
    BY <2>1, <2>2, ClaimMemory
  <2>4. UNCHANGED <<clock, rows, failing, origin_lock, now, token, leased_attempt, beat, excluded, aged>>
    BY Zenon DEF Select
  <2> QED
    BY Zenon, <2>3, <2>4, ClaimMemory, ClaimType
<1>2. PICK j \in Jobs : /\ row_lock[j] \in {None, w} /\ claimable(j, now[w]) /\ j \notin aged[w]
                        /\ job' = [job EXCEPT ![w] = j] /\ row_lock' = [row_lock EXCEPT ![j] = w]
  BY Zenon DEF Select, candidates
<1>3. /\ pc[w] = "claiming" /\ pc'[w] = "selected" /\ job'[w] = j
      /\ clock' = clock /\ rows' = rows /\ origin_lock' = origin_lock /\ now' = now
      /\ token' = token /\ leased_attempt' = leased_attempt /\ beat' = beat /\ aged' = aged
      /\ \A v \in Workers : v # w => pc'[v] = pc[v] /\ job'[v] = job[v]
      /\ \A k \in Jobs : row_lock'[k] = IF k = j THEN w ELSE row_lock[k]
  BY <1>2 DEF IInv, TypeOK, Select
<1>4. \A v \in Workers : v # None
  BY ConstantsAssumption
<1>5. Placed' /\ Locked'
  BY <1>2, <1>3, <1>4 DEF IInv, Placed, Locked
<1>6. Stable'
  <2>1. ASSUME NEW v \in Workers
        PROVE  /\ pc'[v] \in {"selected", "reserved"} => claimable(job[v], now[v])' /\ job'[v] \notin aged'[v]
               /\ \A k \in aged'[v] : row_lock'[k] = v /\ claimable(k, now[v])'
    <3>1. Stable
      BY DEF IInv
    <3>2. aged[v] \subseteq Jobs
      BY ClaimMemory
    <3>3. \A k \in aged[v] : row_lock'[k] = v /\ claimable(k, now[v])
      BY <1>2, <1>3, <1>4, <3>1, <3>2 DEF Stable
    <3>4. pc'[v] \in {"selected", "reserved"} => claimable(job'[v], now[v]) /\ job'[v] \notin aged[v]
      <4>1. CASE v = w
        BY <1>2, <1>3, <4>1
      <4>2. CASE v # w
        <5>1. pc'[v] = pc[v] /\ job'[v] = job[v]
          BY <1>3, <4>2
        <5> QED
          BY <3>1, <5>1 DEF Stable
      <4> QED
        BY <4>1, <4>2
    <3> QED
      BY <1>3, <3>3, <3>4 DEF claimable, rows
  <2> QED
    BY Zenon, <2>1 DEF Stable
<1>7. NoNewLease /\ RetryBudget' /\ RecurringSurvives' /\ clock' >= clock
  BY RowsKept DEF Select
<1>8. Tokened' /\ Owned'
  BY <1>3 DEF IInv, Tokened, Owned, holds, rows
<1>9. OldReservations
  BY Zenon, <1>3 DEF OldReservations
<1> QED
  BY Zenon, <1>1, <1>5, <1>6, <1>7, <1>8, <1>9, LimitsKept, ReservationsKept DEF IInv
=============================================================================
