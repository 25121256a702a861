-------------------------- MODULE JobQueueProofs ----------------------------
(***************************************************************************)
(* Safety of the ingest queue for any set of jobs, workers and limits, and *)
(* the fenced ownership of module FencedJobs that it implements.           *)
(***************************************************************************)
EXTENDS JobQueueSteps

-----------------------------------------------------------------------------
(* The grant of a lease. *)

\* What the grant of token t to w does.
Granted(w, t) ==
  /\ fresh(t) /\ clock' = clock
  /\ pc[w] = "reserved" /\ job[w] \in Jobs /\ job[w] \notin aged[w] /\ row_lock[job[w]] = w
  /\ status'[job[w]] = "leased" /\ lease_token'[job[w]] = t /\ attempt'[job[w]] = attempt[job[w]]
  /\ \A j \in Jobs : j # job[w] => AgedOrSame(w, j)
  /\ pc'[w] = "working" /\ now'[w] = now[w] /\ job'[w] = job[w] /\ token'[w] = t
  /\ leased_attempt'[w] = attempt[job[w]] /\ beat'[w] = 0 /\ aged'[w] = {}
  /\ \A j \in Jobs : row_lock'[j] # w
  /\ \A o \in Origins : origin_lock'[o] # w
  /\ \A v \in Workers : v # w => WorkerSame(v)

\* What the commit of a claim writes.
LEMMA GrantEffect ==
  ASSUME IInv, NEW w \in Workers, Grant(w)
  PROVE  TypeOK' /\ \E t \in Tokens : Granted(w, t)
<1> DEFINE g == job[w]
<1>1. /\ pc[w] = "reserved" /\ clock' = clock /\ now' = now /\ job' = job
  BY DEF Grant
<1>2. g \in Jobs /\ g \notin aged[w] /\ row_lock[g] = w
  BY <1>1 DEF IInv, Placed, Locked, Stable
<1>3. PICK t \in Tokens : /\ fresh(t) /\ token' = [token EXCEPT ![w] = t]
                          /\ lease_token' = [settle_aged(w).token EXCEPT ![g] = t]
  BY ZenonT(60) DEF Grant
<1>4. TypeOK'
  <2>1. /\ lease_deadline' \in [Jobs -> Nat]
        /\ status' \in [Jobs -> {"absent", "ready", "leased", "completed", "failed"}]
        /\ run_at' \in [Jobs -> Int] /\ first_attempt' \in [Jobs -> Nat] /\ attempt' \in [Jobs -> Nat]
        /\ failing' \subseteq Sources
    <3>1. now[w] + LeaseDuration \in Nat
      BY LimitsAssumption DEF IInv, TypeOK
    <3> QED
      BY SMTT(60), <1>2, <3>1, SettleAgedType DEF IInv, Grant
  <2>2. lease_token' \in [Jobs -> Tokens \cup {None}] /\ token' \in [Workers -> Tokens \cup {None}]
    BY ZenonT(60), <1>3, SettleAgedType DEF IInv, TypeOK
  <2>3. row_lock' \in [Jobs -> Workers \cup {None}] /\ origin_lock' \in [Origins -> Workers \cup {None}]
    BY DEF IInv, TypeOK, Grant, release_rows, release_origins
  <2>4. /\ pc' \in [Workers -> Stages] /\ leased_attempt' \in [Workers -> Nat]
        /\ excluded' \in [Workers -> SUBSET Origins] /\ aged' \in [Workers -> SUBSET Jobs]
        /\ beat' \in [Workers -> Nat] /\ revived' \subseteq Jobs
    BY <1>2 DEF IInv, TypeOK, Stages, Grant
  <2> QED
    BY <1>1, <2>1, <2>2, <2>3, <2>4 DEF IInv, TypeOK
<1>5. ASSUME NEW j \in Jobs, j # g PROVE AgedOrSame(w, j)
  BY <1>5 DEF Grant, settle_aged, AgedOrSame, RowSame, status_when_given_up
<1>6. status'[g] = "leased" /\ lease_token'[g] = t /\ attempt'[g] = attempt[g]
  BY ZenonT(60), <1>2, <1>3 DEF Grant, settle_aged
<1>7. /\ pc'[w] = "working" /\ token'[w] = t /\ leased_attempt'[w] = attempt[g] /\ aged'[w] = {}
      /\ \A j \in Jobs : row_lock'[j] # w
      /\ \A o \in Origins : origin_lock'[o] # w
  BY <1>3, ConstantsAssumption DEF IInv, TypeOK, Grant, release_rows, release_origins
<1>8. ASSUME NEW v \in Workers, v # w PROVE WorkerSame(v)
  <2>1. /\ token \in [Workers -> Tokens \cup {None}] /\ pc \in [Workers -> Stages]
        /\ leased_attempt \in [Workers -> Nat] /\ aged \in [Workers -> SUBSET Jobs]
    BY DEF IInv, TypeOK
  <2>2. /\ pc'[v] = pc[v] /\ token'[v] = token[v] /\ leased_attempt'[v] = leased_attempt[v]
        /\ beat'[v] = beat[v] /\ aged'[v] = aged[v]
    BY <1>3, <1>8, <2>1 DEF Grant
  <2>3. /\ \A j \in Jobs : row_lock'[j] = v <=> row_lock[j] = v
        /\ \A o \in Origins : origin_lock'[o] = v <=> origin_lock[o] = v
    <3>1. v # None /\ release_rows(w) /\ release_origins(w)
      BY ConstantsAssumption DEF Grant
    <3> QED
      BY <1>8, <3>1 DEF release_rows, release_origins
  <2> QED
    BY <1>1, <2>2, <2>3 DEF WorkerSame
<1>9. beat'[w] = 0
  <2>1. beat' = beat /\ Owned
    BY Zenon DEF IInv, Grant
  <2> QED
    BY <1>1, <2>1 DEF Owned
<1> QED
  BY <1>1, <1>2, <1>3, <1>4, <1>5, <1>6, <1>7, <1>8, <1>9 DEF Granted

\* The other workers, and the tokens they know, are not disturbed.
LEMMA GrantWorkers ==
  ASSUME IInv, NEW w \in Workers, NEW t \in Tokens, Granted(w, t)
  PROVE  Placed' /\ Locked' /\ Stable' /\ Tokened' /\ Owned'
<1>1. \A j \in aged[w] : row_lock[j] = w
  BY DEF IInv, Stable
<1>2. clock' = clock /\ clock \in Nat /\ now[w] <= clock
  BY DEF IInv, TypeOK, Placed, Granted
<1>3. ASSUME NEW v \in Workers, v # w PROVE StillPlaced(v) /\ StillStable(v)
  <2>1. WorkerSame(v) /\ \A j \in Jobs : row_lock[j] = v => RowSame(j)
    BY <1>1, <1>3 DEF Granted, AgedOrSame
  <2> QED
    BY <1>2, <2>1, OthersKept
<1>4. Placed' /\ Locked' /\ Stable'
  BY <1>2, <1>3 DEF Placed, Locked, Stable, StillPlaced, StillStable, Granted
<1>5. Tokened'
  <2>1. ASSUME NEW j \in Jobs, NEW v \in Workers, v # w, token[v] # None, lease_token'[j] = token[v]
        PROVE  lease_token[j] = token[v]
    <3>1. fresh(t) /\ lease_token'[job[w]] = t /\ (j # job[w] => AgedOrSame(w, j))
      BY DEF Granted
    <3> QED
      BY <2>1, <3>1 DEF AgedOrSame, RowSame, fresh
  <2>2. /\ t # None /\ token'[w] = t /\ pc'[w] = "working" /\ job'[w] = job[w]
        /\ \A v \in Workers : token[v] # t
        /\ \A v \in Workers : v # w => pc'[v] = pc[v] /\ token'[v] = token[v] /\ job'[v] = job[v]
    BY ConstantsAssumption DEF Granted, WorkerSame, fresh
  <2>3. \A j \in Jobs : j # job[w] => lease_token'[j] # t
    <3>1. /\ \A j \in Jobs : j # job[w] => lease_token'[j] \in {None, lease_token[j]}
          /\ fresh(t)
      BY DEF Granted, AgedOrSame, RowSame
    <3> QED
      BY <2>2, <3>1 DEF fresh
  <2>4. Tokened
    BY DEF IInv
  <2>5. ASSUME NEW v \in Workers, v # w
        PROVE  /\ token'[v] # None <=> pc'[v] \in {"working", "committing", "erred", "reporting"}
               /\ token'[v] # None =>
                      /\ \A u \in Workers : token'[u] = token'[v] => u = v
                      /\ \A j \in Jobs : lease_token'[j] = token'[v] => j = job'[v]
    <3>1. token'[v] = token[v] /\ pc'[v] = pc[v] /\ job'[v] = job[v]
      BY <2>2, <2>5
    <3>2. ASSUME NEW u \in Workers, token[v] # None, token'[u] = token[v] PROVE u = v
      BY <2>2, <2>4, <3>2 DEF Tokened
    <3>3. ASSUME NEW j \in Jobs, token[v] # None, lease_token'[j] = token[v] PROVE j = job[v]
      BY <2>1, <2>4, <2>5, <3>3 DEF Tokened
    <3>4. token[v] # None <=> pc[v] \in {"working", "committing", "erred", "reporting"}
      BY <2>4 DEF Tokened
    <3> QED
      BY <3>1, <3>2, <3>3, <3>4
  <2>6. /\ \A u \in Workers : token'[u] = t => u = w
        /\ \A j \in Jobs : lease_token'[j] = t => j = job[w]
    BY <2>2, <2>3
  <2> QED
    BY <2>2, <2>5, <2>6 DEF Tokened
<1>6. Owned'
  <2>1. ASSUME NEW v \in Workers, v # w, token[v] # None, job[v] \in Jobs
        PROVE  /\ pc[v] = "committing" => RowSame(job[v])
               /\ holds(v)' => RowSame(job[v])
    <3>1. WorkerSame(v) /\ token[v] # t
      BY <2>1 DEF Granted, fresh
    <3>2. pc[v] = "committing" => row_lock[job[v]] = v
      BY DEF IInv, Locked
    <3>3. /\ row_lock[job[w]] = w /\ lease_token'[job[w]] = t
          /\ job[v] # job[w] => AgedOrSame(w, job[v])
      BY <2>1 DEF Granted
    <3>4. pc[v] = "committing" => RowSame(job[v])
      BY <1>1, <2>1, <3>2, <3>3 DEF AgedOrSame
    <3>5. ASSUME holds(v)' PROVE RowSame(job[v])
      <4>1. lease_token'[job[v]] = token[v]
        BY <3>1, <3>5 DEF holds, WorkerSame
      <4> QED
        BY <2>1, <3>1, <3>3, <4>1 DEF AgedOrSame
    <3> QED
      BY <3>4, <3>5
  <2>2. ASSUME NEW v \in Workers, v # w
        PROVE  /\ pc'[v] = "committing" => holds(v)'
               /\ token'[v] # None /\ holds(v)' => leased_attempt'[v] = attempt'[job'[v]]
               /\ beat'[v] # 0 => pc'[v] \in {"working", "committing"}
               /\ beat'[v] # 0 /\ holds(v)' => beat'[v] <= lease_deadline'[job'[v]] + LeaseDuration
    <3>1. WorkerSame(v)
      BY Zenon, <2>2 DEF Granted
    <3>2. /\ pc[v] = "committing" => token[v] # None /\ holds(v)
          /\ token[v] # None => job[v] \in Jobs
          /\ token[v] # None /\ holds(v) => leased_attempt[v] = attempt[job[v]]
          /\ beat[v] # 0 => pc[v] \in {"working", "committing"} /\ token[v] # None
          /\ beat[v] # 0 /\ holds(v) => beat[v] <= lease_deadline[job[v]] + LeaseDuration
      BY DEF IInv, Placed, Tokened, Owned
    <3> QED
      BY <2>1, <2>2, <3>1, <3>2 DEF WorkerSame, RowSame, holds
  <2> QED
    BY <2>2 DEF Owned, Granted
<1> QED
  BY <1>4, <1>5, <1>6

\* The limits hold with the new lease: they were read again under the lock of
\* the origin, which excludes every other claim of it.
LEMMA GrantLimits ==
  ASSUME Counting, IInv, NEW w \in Workers, NEW t \in Tokens, Granted(w, t), TypeOK'
  PROVE  OriginCapacity' /\ PollSerialized' /\ Reserved'
<1> DEFINE g == job[w]
<1>0. /\ pc[w] = "reserved" /\ g \in Jobs /\ clock' = clock /\ clock \in Nat
      /\ now[w] <= clock /\ now[w] \in Nat /\ OriginOf[g] \in Origins
  BY ConstantsAssumption DEF IInv, TypeOK, Placed, Granted
<1>d. lease_deadline' \in [Jobs -> Nat]
  BY DEF TypeOK
\* Only g can be live now and not before.
<1>1. ASSUME NEW j \in Jobs, j # g, NEW s \in 0..clock,
             status'[j] = "leased", lease_deadline'[j] >= s, j \notin revived'
      PROVE  stands(j, s)
  BY <1>1 DEF Granted, AgedOrSame, RowSame, stands
<1>2. /\ Cardinality(standing(OriginOf[g], now[w])) < PerOriginConcurrency
      /\ \A a \in Jobs :
           stands(a, now[w]) => ~(Collects(a) /\ Collects(g) /\ SourceOf[a] = SourceOf[g])
      /\ origin_lock[OriginOf[g]] = w
  BY <1>0 DEF IInv, Reserved, room
<1>3. OriginCapacity'
  <2> SUFFICES ASSUME NEW o \in Origins
               PROVE  Cardinality(standing(o, clock)') <= PerOriginConcurrency
    BY DEF OriginCapacity
  <2>1. CASE o = OriginOf[g]
    <3> DEFINE A == standing(o, now[w])
    <3>1. A \in SUBSET Jobs
      BY DEF standing
    <3>2. standing(o, clock)' \subseteq A \cup {g}
      BY SMTT(60), <1>0, <1>1 DEF standing, stands, TypeOK
    <3>3. Cardinality(A) < PerOriginConcurrency
      BY <1>2, <2>1
    <3> HIDE DEF A
    <3>4. A \cup {g} \in SUBSET Jobs /\ Cardinality(A) \in Nat
      BY <1>0, <3>1 DEF Counting
    <3>5. Cardinality(A \cup {g}) <= Cardinality(A) + 1
      BY <1>0, <3>1 DEF Counting
    <3>6. /\ Cardinality(standing(o, clock)') <= Cardinality(A \cup {g})
          /\ Cardinality(A \cup {g}) \in Nat /\ Cardinality(standing(o, clock)') \in Nat
      BY <3>2, <3>4, FewerStanding
    <3> QED
      BY <3>3, <3>4, <3>5, <3>6, LimitsAssumption
  <2>2. CASE o # OriginOf[g]
    <3>1. standing(o, clock) \in SUBSET Jobs
      BY DEF standing
    <3>2. standing(o, clock)' \subseteq standing(o, clock)
      BY SMTT(60), <1>0, <1>1, <2>2 DEF standing, stands
    <3>3. Cardinality(standing(o, clock)) <= PerOriginConcurrency
      BY DEF IInv, OriginCapacity
    <3>4. /\ Cardinality(standing(o, clock)') <= Cardinality(standing(o, clock))
          /\ Cardinality(standing(o, clock)) \in Nat /\ Cardinality(standing(o, clock)') \in Nat
      BY <3>1, <3>2, FewerStanding
    <3> QED
      BY <3>3, <3>4, LimitsAssumption
  <2> QED
    BY <2>1, <2>2
<1>4. PollSerialized'
  <2> SUFFICES ASSUME NEW a \in Jobs, NEW b \in Jobs,
                      Collects(a), Collects(b), SourceOf[a] = SourceOf[b],
                      status'[a] = "leased", lease_deadline'[a] >= clock, a \notin revived',
                      status'[b] = "leased", lease_deadline'[b] >= clock, b \notin revived'
               PROVE  a = b
    BY <1>0 DEF PollSerialized, stands
  <2>1. \A j \in {a, b} \ {g} : stands(j, clock) /\ stands(j, now[w])
    <3>1. now[w] \in 0..clock /\ clock \in 0..clock /\ \A j \in Jobs : lease_deadline'[j] \in Nat
      BY <1>0, <1>d
    <3>2. \A j \in {a, b} : /\ status'[j] = "leased" /\ j \notin revived'
                             /\ lease_deadline'[j] >= clock /\ lease_deadline'[j] >= now[w]
      BY <1>0, <3>1
    <3> QED
      BY <1>1, <3>1, <3>2
  <2>2. \A j \in {a, b} \ {g} : g \notin {a, b}
    BY <1>2, <2>1
  <2> QED
    <3>1. PollSerialized
      BY DEF IInv
    <3>2. g \notin {a, b} \/ (a = g /\ b = g)
      BY <2>2
    <3> QED
      BY <2>1, <3>1, <3>2 DEF PollSerialized
<1>5. Reserved'
  <2> SUFFICES ASSUME NEW v \in Workers, pc'[v] = "reserved"
               PROVE  origin_lock'[OriginOf[job'[v]]] = v /\ room(v)'
    BY DEF Reserved
  <2> DEFINE o == OriginOf[job[v]]
             t0 == now[v]
  <2>1. v # w
    BY Zenon DEF Granted
  <2>2. WorkerSame(v)
    BY Zenon DEF Granted
  <2>3. pc[v] = "reserved"
    BY <2>2 DEF WorkerSame
  <2>4. job[v] \in Jobs /\ o \in Origins /\ t0 \in 0..clock /\ origin_lock[o] = v /\ room(v)
    <3>1. job[v] \in Jobs /\ now[v] <= clock /\ origin_lock[o] = v /\ room(v)
      BY Zenon, <2>3 DEF IInv, Placed, Reserved
    <3> QED
      BY <3>1, ConstantsAssumption DEF IInv, TypeOK
  <2>5. o # OriginOf[g] /\ o' = o /\ t0' = t0 /\ job'[v] = job[v] /\ origin_lock'[o] = v
    BY Zenon, <1>2, <2>1, <2>4, <2>2 DEF WorkerSame
  <2>6. /\ Cardinality(standing(o, t0)) < PerOriginConcurrency
        /\ \A a \in Jobs :
             stands(a, t0) => ~(Collects(a) /\ Collects(job[v]) /\ SourceOf[a] = SourceOf[job[v]])
    BY Zenon, <2>4 DEF room
  <2>7. ~(Collects(g) /\ Collects(job[v]) /\ SourceOf[g] = SourceOf[job[v]])
    BY Zenon, <1>0, <2>4, <2>5, OriginAssumption
  <2>8. \A a \in Jobs :
          stands(a, t0)' => ~(Collects(a) /\ Collects(job[v]) /\ SourceOf[a] = SourceOf[job[v]])
    BY Zenon, <1>1, <2>4, <2>5, <2>6, <2>7 DEF stands
  <2> HIDE DEF o, t0
  <2>9. standing(o, t0) \in SUBSET Jobs /\ standing(o, t0)' \subseteq standing(o, t0)
    BY Zenon, <1>1, <2>4, <2>5 DEF standing, stands
  <2>10. Cardinality(standing(o, t0)') < PerOriginConcurrency
    <3>1. /\ Cardinality(standing(o, t0)') <= Cardinality(standing(o, t0))
          /\ Cardinality(standing(o, t0)) \in Nat /\ Cardinality(standing(o, t0)') \in Nat
      BY <2>9, FewerStanding
    <3>2. Cardinality(standing(o, t0)) < PerOriginConcurrency
      BY Zenon, <2>6
    <3>3. PerOriginConcurrency \in Nat
      BY LimitsAssumption
    <3> QED
      BY <3>1, <3>2, <3>3
  <2> QED
    BY <2>5, <2>8, <2>10 DEF room, standing, stands, o, t0
<1> QED
  BY <1>3, <1>4, <1>5

\* A lease starts: the one step that can raise what is counted.
LEMMA GrantStep == ASSUME Counting, IInv, NEW w \in Workers, Grant(w) PROVE IInv'
<1>1. TypeOK' /\ \E t \in Tokens : Granted(w, t)
  BY GrantEffect
<1>2. PICK t \in Tokens : Granted(w, t)
  BY <1>1
<1>3. RetryBudget' /\ RecurringSurvives'
  <2>1. ASSUME NEW j \in Jobs
        PROVE  /\ attempt'[j] \in {0, attempt[j]}
               /\ is_recurring(j) => status'[j] \in {"ready", "leased", status[j]}
    BY <1>2 DEF Granted, AgedOrSame, RowSame
  <2> QED
    BY <2>1, BudgetKept DEF IInv
<1> QED
  BY <1>1, <1>3, GrantWorkers, GrantLimits DEF IInv

\* Every step keeps the invariant.
LEMMA NextIInv == ASSUME Counting, IInv, [Next]_vars PROVE IInv'
<1>1. CASE Tick
  BY <1>1, TickStep
<1>2. CASE \E j \in Jobs : enqueue_work(j)
  BY <1>2, EnqueueStep
<1>3. ASSUME NEW w \in Workers, Claim(w) PROVE IInv'
  BY <1>3, BeginStep, SelectStep, ContendedStep, AgedStep, RefusedStep, ReserveStep, GrantStep,
     NothingStep DEF Claim
<1>4. ASSUME NEW w \in Workers, Heartbeat(w) \/ assert_lease(w) \/ Close(w) PROVE IInv'
  BY <1>4, RenewStep, RenewedStep, AssertLeaseStep, CloseStep DEF Heartbeat
<1>5. ASSUME NEW w \in Workers, Outcome(w) \/ Crash(w) PROVE IInv'
  BY <1>5, CompleteStep, ReportStep, RetryStep, FailStep, StaleLeaseStep, CrashStep DEF Outcome
<1>6. CASE UNCHANGED vars
  BY <1>6, StutterStep
<1> QED
  BY <1>1, <1>2, <1>3, <1>4, <1>5, <1>6 DEF Next

-----------------------------------------------------------------------------
(* Every step is a step of the fenced ownership.                           *)

\* What one job does in one step of the abstract specification.
JobStep(j) ==
  \/ Fenced!Stay(j) \/ Fenced!Submit(j) \/ Fenced!Take(j)
  \/ Fenced!Open(j) \/ Fenced!Close(j) \/ Fenced!Leave(j)

\* A job whose row, and whose open transaction, a step leaves alone.
LEMMA Staying ==
  ASSUME NEW j \in Jobs, status'[j] = status[j], lease_token'[j] = lease_token[j],
         writing'[j] = writing[j]
  PROVE  JobStep(j)
BY DEF JobStep, Fenced!Stay, phase, owner

\* Time, claims that have not committed, heartbeats and errors not yet written
\* change no ownership.
LEMMA QuietSteps ==
  ASSUME IInv, NEW w \in Workers,
         \/ Tick \/ Begin(w) \/ Select(w) \/ ReserveContended(w) \/ ReserveAged(w)
         \/ ReserveRefused(w) \/ Reserve(w) \/ Heartbeat(w) \/ report(w) \/ StaleLease(w),
         NEW j \in Jobs
  PROVE  JobStep(j)
<1>1. status'[j] = status[j] /\ lease_token'[j] = lease_token[j]
  BY Zenon DEF Tick, Begin, Select, ReserveContended, ReserveAged, ReserveRefused, Reserve,
         Heartbeat, renew, renewed, report, StaleLease, rows
<1>2. writing'[j] = writing[j]
  <2>1. CASE Tick \/ Heartbeat(w)
    BY Zenon, <2>1 DEF Tick, Heartbeat, renew, renewed, writing, memory
  <2>2. CASE \/ Begin(w) \/ ReserveContended(w) \/ ReserveAged(w) \/ ReserveRefused(w) \/ Reserve(w)
             \/ report(w)
    <3>1. /\ row_lock' = row_lock /\ token' = token /\ pc[w] # "committing"
          /\ \E s : s # "committing" /\ pc' = [pc EXCEPT ![w] = s]
      BY Zenon, <2>2 DEF Begin, ReserveContended, ReserveAged, ReserveRefused, Reserve, report
    <3> QED
      BY Zenon, <3>1, ClaimMemory DEF writing
  <2>3. CASE Select(w)
    <3>1. PICK k : /\ row_lock[k] \in {None, w} /\ row_lock' = [row_lock EXCEPT ![k] = w]
                   /\ pc[w] = "claiming" /\ pc' = [pc EXCEPT ![w] = "selected"] /\ token' = token
      BY Zenon, <2>3 DEF Select, candidates
    <3>2. /\ row_lock[j] \in Workers \cup {None} /\ pc'[w] = "selected"
          /\ \A v \in Workers : v # w => pc'[v] = pc[v]
      BY Zenon, <3>1, ClaimMemory
    <3>3. row_lock'[j] = row_lock[j] \/ (row_lock[j] \in {None, w} /\ row_lock'[j] = w)
      BY Zenon, <3>1, ClaimMemory
    <3> QED
      BY <3>1, <3>2, <3>3 DEF writing
  <2>4. CASE StaleLease(w)
    <3>1. Locked /\ token \in [Workers -> Tokens \cup {None}]
      BY DEF IInv, TypeOK
    <3>2. /\ row_lock' = row_lock /\ pc[w] \in {"working", "erred", "reporting"}
          /\ pc' = [pc EXCEPT ![w] = "idle"] /\ token' = [token EXCEPT ![w] = None]
      BY Zenon, <2>4 DEF StaleLease, reporting, forget
    <3>3. row_lock[j] # w
      BY Zenon, <3>1, <3>2 DEF Locked
    <3>4. \A v \in Workers : v # w => pc'[v] = pc[v] /\ token'[v] = token[v]
      BY Zenon, <3>1, <3>2, ClaimMemory
    <3>5. row_lock[j] \in Workers \cup {None}
      BY Zenon, ClaimMemory
    <3> QED
      BY Zenon, <3>2, <3>3, <3>4, <3>5 DEF writing
  <2> QED
    BY Zenon, <2>1, <2>2, <2>3, <2>4
<1> QED
  BY Zenon, <1>1, <1>2, Staying

\* Enqueuing submits the job.
LEMMA EnqueueSubmits ==
  ASSUME IInv, NEW k \in Jobs, enqueue_work(k), NEW j \in Jobs
  PROVE  JobStep(j)
<1>1. writing' = writing
  BY DEF enqueue_work, writing, memory
<1>2. CASE j # k
  BY <1>1, <1>2, Staying DEF enqueue_work, IInv, TypeOK
<1>3. CASE j = k
  BY <1>1, <1>3 DEF enqueue_work, IInv, TypeOK, JobStep, Fenced!Submit, phase, owner
<1> QED
  BY <1>2, <1>3

\* A handler's transaction opens under the current owner, and closes once.
LEMMA CommitSteps ==
  ASSUME IInv, NEW w \in Workers, assert_lease(w) \/ EndCommit(w) \/ AbortCommit(w), NEW j \in Jobs
  PROVE  JobStep(j)
<1>1. status'[j] = status[j] /\ lease_token'[j] = lease_token[j]
  BY DEF assert_lease, EndCommit, AbortCommit, rows
<1>2. job[w] \in Jobs
  BY DEF IInv, Placed, assert_lease, EndCommit, AbortCommit
<1>3. CASE j # job[w]
  <2>1. writing'[j] = writing[j]
    <3>1. Locked /\ token' = token
      BY Zenon DEF IInv, assert_lease, EndCommit, AbortCommit
    <3>2. CASE assert_lease(w)
      BY Zenon, <1>2, <1>3, <3>1, <3>2, ClaimMemory DEF Locked, assert_lease, writing
    <3>3. CASE EndCommit(w)
      BY Zenon, <1>2, <1>3, <3>1, <3>3, ClaimMemory DEF Locked, EndCommit, release_rows, writing
    <3>4. CASE AbortCommit(w)
      BY Zenon, <1>2, <1>3, <3>1, <3>4, ClaimMemory DEF Locked, AbortCommit, release_rows, writing
    <3> QED
      BY <3>2, <3>3, <3>4
  <2> QED
    BY <1>1, <2>1, Staying
<1>4. CASE j = job[w] /\ assert_lease(w)
  <2>1. status[j] = "leased" /\ lease_token[j] = token[w] /\ row_lock[j] = None
    BY Zenon, <1>4 DEF assert_lease, live, holds, unlocked
  <2>2. row_lock'[j] = w /\ pc'[w] = "committing" /\ token'[w] = token[w]
    BY <1>2, <1>4, ClaimMemory DEF assert_lease
  <2>3. writing[j] = None /\ writing'[j] = token[w]
    BY Zenon, <2>1, <2>2, ConstantsAssumption DEF writing
  <2> QED
    BY <1>1, <2>1, <2>3 DEF JobStep, Fenced!Open, phase, owner
<1>5. CASE j = job[w] /\ (EndCommit(w) \/ AbortCommit(w))
  <2>1. pc[w] = "committing" /\ row_lock[j] = w /\ row_lock'[j] = None
    <3>1. Locked /\ pc[w] = "committing" /\ release_rows(w)
      BY Zenon, <1>5 DEF IInv, EndCommit, AbortCommit
    <3> QED
      BY Zenon, <1>2, <1>5, <3>1 DEF Locked, release_rows
  <2>2. token[w] # None
    BY Zenon, <2>1 DEF IInv, Tokened
  <2>3. writing[j] # None /\ writing'[j] = None
    BY Zenon, <2>1, <2>2, ConstantsAssumption DEF writing
  <2> QED
    BY <1>1, <2>3 DEF JobStep, Fenced!Close, phase, owner
<1> QED
  BY <1>3, <1>4, <1>5

\* A worker that ends without an open transaction leaves every other one open.
LEMMA WritingKept ==
  ASSUME IInv, TypeOK', NEW w \in Workers, NEW j \in Jobs, pc'[w] # "committing",
         \A v \in Workers : v # w => WorkerSame(v), pc[w] # "committing" \/ row_lock[j] # w
  PROVE  writing'[j] = writing[j]
<1>1. row_lock[j] \in Workers \cup {None} /\ row_lock'[j] \in Workers \cup {None}
  BY DEF IInv, TypeOK
<1>2. CASE row_lock[j] \in {None, w}
  <2>1. row_lock'[j] \in {None, w}
    BY Zenon, <1>1, <1>2 DEF WorkerSame
  <2> QED
    BY Zenon, <1>2, <2>1 DEF writing
<1>3. CASE row_lock[j] \notin {None, w}
  <2>1. row_lock'[j] = row_lock[j] /\ pc'[row_lock[j]] = pc[row_lock[j]] /\ token'[row_lock[j]] = token[row_lock[j]]
    BY Zenon, <1>1, <1>3 DEF WorkerSame
  <2> QED
    BY Zenon, <2>1 DEF writing
<1> QED
  BY <1>2, <1>3

\* The outcome of the owner, and only of the owner, takes the job from it.
LEMMA OutcomeLeaves ==
  ASSUME IInv, TypeOK', NEW w \in Workers, complete(w) \/ retry(w) \/ fail(w), NEW j \in Jobs
  PROVE  JobStep(j)
<1>1. job[w] \in Jobs /\ pc[w] \in {"working", "reporting"} /\ row_lock[job[w]] = None
  BY Zenon DEF IInv, Placed, complete, retry, fail, reporting, unlocked
<1>2. writing'[j] = writing[j]
  BY Zenon, <1>1, OutcomeForgets, WritingKept DEF Forgets
<1>3. CASE j # job[w]
  BY Zenon, <1>2, <1>3, OutcomeForgets, Staying DEF RowSame
<1>4. CASE j = job[w]
  <2>1. writing[j] = None /\ status[j] = "leased"
    BY Zenon, <1>1, <1>4 DEF writing, complete, retry, fail, holds
  <2>2. status'[j] \in {"ready", "completed", "failed"}
    BY Zenon, <1>1, <1>4 DEF IInv, TypeOK, complete, retry, fail, status_when_given_up
  <2> QED
    BY <1>2, <2>1, <2>2 DEF JobStep, Fenced!Leave, phase, owner
<1> QED
  BY <1>3, <1>4

\* A crash closes the worker's transaction and nothing else.
LEMMA CrashCloses ==
  ASSUME IInv, TypeOK', NEW w \in Workers, Crash(w), NEW j \in Jobs
  PROVE  JobStep(j)
<1>1. status'[j] = status[j] /\ lease_token'[j] = lease_token[j]
  BY DEF Crash, rows
<1>2. CASE row_lock[j] # w
  <2>1. pc'[w] = "idle" /\ \A v \in Workers : v # w => WorkerSame(v)
    BY Zenon, ForgetFrees DEF Crash
  <2>2. writing'[j] = writing[j]
    BY Zenon, <1>2, <2>1, WritingKept
  <2> QED
    BY <1>1, <2>2, Staying
<1>3. CASE row_lock[j] = w
  <2>1. row_lock'[j] = None
    BY <1>3 DEF Crash, release_rows
  <2>2. writing'[j] = None
    BY <2>1 DEF writing
  <2> QED
    BY <1>1, <2>2, Staying DEF JobStep, Fenced!Close, phase, owner
<1> QED
  BY <1>2, <1>3

\* A committed claim hands its job over and leaves the jobs it aged out.
LEMMA ClaimHandsOver ==
  ASSUME IInv, TypeOK', NEW w \in Workers, Grant(w) \/ ClaimNothing(w), NEW j \in Jobs
  PROVE  JobStep(j)
<1>1. ASSUME NEW k \in Jobs, pc[w] \in {"claiming", "reserved"}, pc'[w] # "committing",
             \A v \in Workers : v # w => WorkerSame(v)
      PROVE  writing'[k] = writing[k] /\ (row_lock[k] = w => writing[k] = None)
  <2>1. writing'[k] = writing[k]
    BY Zenon, <1>1, WritingKept
  <2> QED
    BY <1>1, <2>1 DEF writing
<1>2. ASSUME AgedOrSame(w, j), writing'[j] = writing[j], row_lock[j] = w => writing[j] = None
      PROVE  JobStep(j)
  <2>1. CASE j \notin aged[w]
    BY Zenon, <1>2, <2>1, Staying DEF AgedOrSame, RowSame
  <2>2. CASE j \in aged[w]
    <3>1. row_lock[j] = w /\ status[j] \in {"ready", "leased"}
      BY Zenon, <2>2 DEF IInv, Stable, claimable
    <3> QED
      BY <1>2, <2>2, <3>1 DEF AgedOrSame, JobStep, Fenced!Leave, phase, owner
  <2> QED
    BY <2>1, <2>2
<1>3. CASE ClaimNothing(w)
  <2>1. Forgets(w) /\ AgedOrSame(w, j)
    BY <1>3, NothingEffect
  <2>2. pc[w] = "claiming"
    BY <1>3 DEF ClaimNothing
  <2> QED
    BY Zenon, <1>1, <1>2, <2>1, <2>2 DEF Forgets
<1>4. CASE Grant(w)
  <2>1. PICK t \in Tokens : Granted(w, t)
    BY <1>4, GrantEffect
  <2>2. writing'[j] = writing[j] /\ (row_lock[j] = w => writing[j] = None)
    BY Zenon, <1>1, <2>1 DEF Granted
  <2>3. CASE j # job[w]
    BY Zenon, <1>2, <2>1, <2>2, <2>3 DEF Granted
  <2>4. CASE j = job[w]
    <3>1. status[j] \in {"ready", "leased"}
      BY Zenon, <2>1, <2>4 DEF IInv, Stable, claimable, Granted
    <3>2. row_lock[j] = w /\ status'[j] = "leased" /\ lease_token'[j] = t
      BY Zenon, <2>1, <2>4 DEF Granted
    <3>3. t # lease_token[j] /\ t # None
      BY Zenon, <2>1, ConstantsAssumption DEF Granted, fresh
    <3> QED
      BY <2>2, <3>1, <3>2, <3>3 DEF JobStep, Fenced!Take, phase, owner
  <2> QED
    BY <2>3, <2>4
<1> QED
  BY <1>3, <1>4

\* Every step of the queue is, job by job, a step of the abstract ownership.
LEMMA StepRefines == ASSUME Counting, IInv, [Next]_vars PROVE [Fenced!Next]_(Fenced!vars)
<1>1. CASE UNCHANGED vars
  BY <1>1 DEF vars, rows, memory, Fenced!vars, phase, owner, writing
<1>2. ASSUME Next, NEW j \in Jobs PROVE JobStep(j)
  <2>0. TypeOK'
    BY NextIInv DEF IInv
  <2>1. CASE \E k \in Jobs : enqueue_work(k)
    BY <2>1, EnqueueSubmits
  <2>2. CASE Tick
    <3>1. writing' = writing /\ status' = status /\ lease_token' = lease_token
      BY <2>2 DEF Tick, writing, memory, rows
    <3> QED
      BY <3>1, Staying
  <2>3. ASSUME NEW w \in Workers, Claim(w) PROVE JobStep(j)
    BY <2>0, <2>3, QuietSteps, ClaimHandsOver DEF Claim
  <2>4. ASSUME NEW w \in Workers, Heartbeat(w) \/ assert_lease(w) \/ Close(w) PROVE JobStep(j)
    BY <2>4, QuietSteps, CommitSteps DEF Close
  <2>5. ASSUME NEW w \in Workers, Outcome(w) \/ Crash(w) PROVE JobStep(j)
    BY <2>0, <2>5, QuietSteps, OutcomeLeaves, CrashCloses DEF Outcome
  <2> QED
    BY <1>2, <2>1, <2>2, <2>3, <2>4, <2>5 DEF Next
<1> QED
  BY <1>1, <1>2 DEF JobStep, Fenced!Next

-----------------------------------------------------------------------------
\* A step moves the deadline of a lease under its token by one lease duration
\* at most, once the lease has run out.
LEMMA RevivalStep ==
  ASSUME IInv, [Next]_vars, NEW j \in Jobs,
         status[j] = "leased", lease_deadline[j] < clock,
         status'[j] = "leased", lease_token'[j] = lease_token[j]
  PROVE  lease_deadline'[j] <= lease_deadline[j] + LeaseDuration
<1>0. lease_deadline[j] \in Nat /\ LeaseDuration \in Nat
  BY RowsTyped, LimitsAssumption
<1>s. ASSUME lease_deadline'[j] = lease_deadline[j]
      PROVE  lease_deadline'[j] <= lease_deadline[j] + LeaseDuration
  BY <1>0, <1>s
<1>1. ASSUME NEW w \in Workers, Grant(w) PROVE lease_deadline'[j] = lease_deadline[j]
  <2>1. job[w] \in Jobs
    BY Zenon, <1>1 DEF IInv, Placed, Grant
  <2>2. PICK t \in Tokens : fresh(t) /\ lease_token' = [settle_aged(w).token EXCEPT ![job[w]] = t]
    BY Zenon, <1>1 DEF Grant
  <2>3. j # job[w]
    BY Zenon, <2>2, SettleAgedType DEF IInv, fresh
  <2> QED
    BY Zenon, <1>1, <2>1, <2>3, RowsTyped DEF Grant, settle_aged, status_when_given_up
<1>2. ASSUME NEW w \in Workers, ClaimNothing(w) PROVE lease_deadline'[j] = lease_deadline[j]
  BY Zenon, <1>2, RowsTyped DEF ClaimNothing, settle_aged, status_when_given_up
<1>3. ASSUME NEW w \in Workers, renewed(w)
      PROVE  lease_deadline'[j] <= lease_deadline[j] + LeaseDuration
  <2>1. CASE j = job[w]
    BY <1>3, <2>1, RenewedEffect
  <2>2. CASE j # job[w]
    BY <1>3, <1>s, <2>2, RenewedEffect
  <2> QED
    BY <2>1, <2>2
<1>4. ASSUME NEW w \in Workers, complete(w) \/ retry(w) \/ fail(w)
      PROVE  lease_deadline'[j] = lease_deadline[j]
  <2>1. job[w] \in Jobs
    BY Zenon, <1>4 DEF IInv, Placed, complete, retry, fail, reporting
  <2>2. CASE complete(w)
    BY Zenon, <2>1, <2>2, RowsTyped DEF complete
  <2>3. CASE retry(w)
    BY Zenon, <2>1, <2>3, RowsTyped DEF retry
  <2>4. CASE fail(w)
    BY Zenon, <2>1, <2>4, RowsTyped DEF fail, status_when_given_up
  <2> QED
    BY <1>4, <2>2, <2>3, <2>4
<1> QED
  BY Zenon, <1>s, <1>1, <1>2, <1>3, <1>4 DEF Next, Claim, Heartbeat, Close, Outcome, Tick, enqueue_work,
     Begin, Select, ReserveContended, ReserveAged, ReserveRefused, Reserve, renew, assert_lease,
     EndCommit, AbortCommit, report, StaleLease, Crash, vars, rows

-----------------------------------------------------------------------------
(* The invariant from the start, and the theorems.                         *)

INSTANCE FiniteSetTheorems

\* Jobs is finite, so its subsets are counted as they should be.
LEMMA JobsCounted == Counting
<1> SUFFICES ASSUME NEW S \in SUBSET Jobs
             PROVE  /\ Cardinality(S) \in Nat
                    /\ \A T \in SUBSET S : Cardinality(T) <= Cardinality(S)
                    /\ \A j \in Jobs : Cardinality(S \cup {j}) <= Cardinality(S) + 1
  BY FS_EmptySet DEF Counting
<1>1. IsFiniteSet(S)
  BY FS_Subset, ConstantsAssumption
<1>2. Cardinality(S) \in Nat
  BY <1>1, FS_CardinalityType
<1>3. \A T \in SUBSET S : Cardinality(T) <= Cardinality(S)
  BY <1>1, FS_Subset
<1>4. ASSUME NEW j \in Jobs PROVE Cardinality(S \cup {j}) <= Cardinality(S) + 1
  <2>1. Cardinality(S \cup {j}) = IF j \in S THEN Cardinality(S) ELSE Cardinality(S) + 1
    BY Zenon, <1>1, FS_AddElement
  <2> QED
    BY <1>2, <2>1
<1> QED
  BY <1>2, <1>3, <1>4

\* The strengthened invariant holds of every behaviour.
THEOREM Invariance == Spec => []IInv
<1>1. IInv /\ [Next]_vars => IInv'
  BY JobsCounted, NextIInv
<1>2. Init => IInv
  BY JobsCounted, InitIInv
<1> QED
  BY <1>1, <1>2, PTL DEF Spec

\* Columns and worker memory keep their types.
THEOREM TypeCorrect == Spec => []TypeOK
<1>1. IInv => TypeOK
  BY DEF IInv
<1> QED
  BY <1>1, Invariance, PTL

\* The per-origin limit of leases that never ran out, for any number of workers,
\* jobs and origins, any limit, and any wait of a heartbeat for its row.
THEOREM CapacityRespected == Spec => []OriginCapacity
<1>1. IInv => OriginCapacity
  BY DEF IInv
<1> QED
  BY <1>1, Invariance, PTL

\* Polls, refreshes and collections of one source exclude each other, as long as
\* their leases do not run out.
THEOREM CollectionSerialized == Spec => []PollSerialized
<1>1. IInv => PollSerialized
  BY DEF IInv
<1> QED
  BY <1>1, Invariance, PTL

\* A handler's transaction is fenced from assert_lease to its end.
THEOREM CommitsFenced == Spec => []CommitFenced
<1>1. IInv => CommitFenced
  BY SMTT(60) DEF IInv, TypeOK, Placed, Locked, Owned, CommitFenced
<1> QED
  BY <1>1, Invariance, PTL

\* No job is attempted more often than retry_attempts allows, and recurring
\* collections never end.
THEOREM RetriesBounded == Spec => [](RetryBudget /\ RecurringSurvives)
<1>1. IInv => RetryBudget /\ RecurringSurvives
  BY DEF IInv
<1> QED
  BY <1>1, Invariance, PTL

\* The queue implements FencedJobs: SPEC.md's promise that a late worker
\* publishes nothing once its job has been handed to another.
THEOREM Refinement == Spec => ImplementsFenced
<1>1. Init => Fenced!Init
  BY DEF Init, Fenced!Init, phase, owner, writing
<1>2. IInv /\ [Next]_vars => [Fenced!Next]_(Fenced!vars)
  BY JobsCounted, StepRefines
<1> QED
  BY <1>1, <1>2, Invariance, PTL DEF Spec, ImplementsFenced, Fenced!Spec

\* A lease that ran out lasts one lease_seconds longer at most, unless the job
\* is claimed under a new token.
THEOREM RevivalsBounded == Spec => RevivalBounded
<1> DEFINE A == \A j \in Jobs :
                  /\ status[j] = "leased" /\ lease_deadline[j] < clock
                  /\ status'[j] = "leased" /\ lease_token'[j] = lease_token[j]
                  => lease_deadline'[j] <= lease_deadline[j] + LeaseDuration
<1>1. IInv /\ [Next]_vars => A
  BY RevivalStep
<1> QED
  BY <1>1, Invariance, PTL DEF Spec, RevivalBounded
=============================================================================
