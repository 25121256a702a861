--------------------------- MODULE JobQueueSteps ----------------------------
(***************************************************************************)
(* The steps of a claim up to the grant, of a worker that has a lease and  *)
(* of a crash keep the invariant.                                          *)
(***************************************************************************)
EXTENDS JobQueueInvariant

-----------------------------------------------------------------------------
(* A claim considers the job it selected.                                  *)

\* What follows the candidate query: no row is written or locked, and the claim
\* goes on with its origin locked and, when the row is too old, the row aged.
Considers(w) ==
  /\ pc[w] = "selected" /\ pc'[w] \in {"claiming", "reserved"}
  /\ clock' = clock /\ rows' = rows /\ row_lock' = row_lock
  /\ now' = now /\ job' = job /\ token' = token /\ leased_attempt' = leased_attempt /\ beat' = beat
  /\ \A v \in Workers : v # w => pc'[v] = pc[v] /\ aged'[v] = aged[v]
  /\ \/ aged'[w] = aged[w]
     \/ pc'[w] = "claiming" /\ aged'[w] = aged[w] \cup {job[w]}
  /\ \A o \in Origins : origin_lock'[o] = origin_lock[o] \/ (origin_lock[o] \in {None, w} /\ origin_lock'[o] = w)

\* Such a step disturbs no other worker.
LEMMA ConsidersKeeps ==
  ASSUME IInv, NEW w \in Workers, Considers(w)
  PROVE  /\ Placed' /\ Locked' /\ Stable' /\ Tokened' /\ Owned'
         /\ NoNewLease /\ RetryBudget' /\ RecurringSurvives' /\ clock' >= clock
<1>1. Placed' /\ Locked'
  BY DEF IInv, Placed, Locked, Considers
<1>2. Stable'
  <2>1. ASSUME NEW v \in Workers
        PROVE  /\ pc'[v] \in {"selected", "reserved"} => claimable(job[v], now[v])' /\ job'[v] \notin aged'[v]
               /\ \A j \in aged'[v] : row_lock'[j] = v /\ claimable(j, now[v])'
    <3>1. row_lock[job[w]] = w
      BY DEF IInv, Locked, Considers
    <3>2. \A j : claimable(j, now[v])' <=> claimable(j, now[v])
      BY DEF claimable, Considers, rows
    <3> QED
      BY <3>1, <3>2 DEF IInv, Stable, Considers
  <2> QED
    BY <2>1 DEF Stable
<1>3. Tokened' /\ Owned'
  BY DEF IInv, Tokened, Owned, holds, Considers, rows
<1> QED
  BY <1>1, <1>2, <1>3, RowsKept DEF Considers

\* The origin is busy with another claim.
LEMMA ContendedStep == ASSUME Counting, IInv, NEW w \in Workers, ReserveContended(w) PROVE IInv'
<1>1. TypeOK'
  <2>1. job[w] \in Jobs /\ OriginOf[job[w]] \in Origins
    BY ConstantsAssumption DEF IInv, Placed, ReserveContended
  <2>2. /\ pc' \in [Workers -> Stages]
        /\ excluded' \in [Workers -> SUBSET Origins]
    BY <2>1, ClaimMemory DEF Stages, ReserveContended
  <2> QED
    BY <2>2, ClaimMemory, ClaimType DEF ReserveContended
<1>2. Considers(w)
  BY ClaimMemory DEF Considers, ReserveContended
<1>3. OldReservations
  <2>1. pc' = [pc EXCEPT ![w] = "claiming"] /\ job' = job /\ now' = now /\ origin_lock' = origin_lock
    BY DEF ReserveContended
  <2>2. DOMAIN pc = Workers
    BY DEF IInv, TypeOK
  <2>3. ASSUME NEW v \in Workers, pc'[v] = "reserved" PROVE pc[v] = "reserved"
    BY <2>1, <2>2, <2>3
  <2> QED
    BY <2>1, <2>3 DEF OldReservations
<1> QED
  BY <1>1, <1>2, <1>3, ConsidersKeeps, LimitsKept, ReservationsKept DEF IInv

\* A claim that goes on under the origin's lock takes no reservation away.
LEMMA LockTaken ==
  ASSUME NEW w \in Workers, DOMAIN pc = Workers, None \notin Workers,
         NEW o, origin_lock[o] = None \/ origin_lock[o] = w, origin_lock' = [origin_lock EXCEPT ![o] = w],
         pc' = [pc EXCEPT ![w] = "claiming"], job' = job, now' = now
  PROVE  OldReservations
<1>1. ASSUME NEW v \in Workers, pc'[v] = "reserved" PROVE v # w /\ pc[v] = "reserved"
  BY <1>1
<1>2. ASSUME NEW v \in Workers, v # w, NEW q \in Origins, origin_lock[q] = v
      PROVE  origin_lock'[q] = v
  BY <1>2
<1> QED
  BY <1>1, <1>2 DEF OldReservations

\* A row is too old.
LEMMA AgedStep == ASSUME Counting, IInv, NEW w \in Workers, ReserveAged(w) PROVE IInv'
<1>1. TypeOK'
  <2>1. job[w] \in Jobs /\ OriginOf[job[w]] \in Origins
    BY ConstantsAssumption DEF IInv, Placed, ReserveAged
  <2>2. /\ pc' \in [Workers -> Stages]
        /\ aged' \in [Workers -> SUBSET Jobs] /\ origin_lock' \in [Origins -> Workers \cup {None}]
    BY <2>1, ClaimMemory DEF Stages, ReserveAged
  <2> QED
    BY <2>2, ClaimMemory, ClaimType DEF ReserveAged
<1>2. Considers(w)
  BY ClaimMemory DEF Considers, ReserveAged
<1>3. OldReservations
  <2>1. DOMAIN pc = Workers /\ None \notin Workers
    BY ConstantsAssumption DEF IInv, TypeOK
  <2>2. PICK o : /\ origin_lock[o] = None \/ origin_lock[o] = w
                 /\ origin_lock' = [origin_lock EXCEPT ![o] = w]
                 /\ pc' = [pc EXCEPT ![w] = "claiming"] /\ job' = job /\ now' = now
    BY Zenon DEF ReserveAged
  <2> QED BY Zenon, <2>1, <2>2, LockTaken
<1> QED
  BY <1>1, <1>2, <1>3, ConsidersKeeps, LimitsKept, ReservationsKept DEF IInv

\* The second look at the limits refuses the row.
LEMMA RefusedStep == ASSUME Counting, IInv, NEW w \in Workers, ReserveRefused(w) PROVE IInv'
<1>1. TypeOK'
  <2>1. job[w] \in Jobs /\ OriginOf[job[w]] \in Origins
    BY ConstantsAssumption DEF IInv, Placed, ReserveRefused
  <2>2. /\ pc' \in [Workers -> Stages]
        /\ excluded' \in [Workers -> SUBSET Origins] /\ origin_lock' \in [Origins -> Workers \cup {None}]
    BY <2>1, ClaimMemory DEF Stages, ReserveRefused
  <2> QED
    BY <2>2, ClaimMemory, ClaimType DEF ReserveRefused
<1>2. Considers(w)
  BY ClaimMemory DEF Considers, ReserveRefused
<1>3. OldReservations
  <2>1. DOMAIN pc = Workers /\ None \notin Workers
    BY ConstantsAssumption DEF IInv, TypeOK
  <2>2. PICK o : /\ origin_lock[o] = None \/ origin_lock[o] = w
                 /\ origin_lock' = [origin_lock EXCEPT ![o] = w]
                 /\ pc' = [pc EXCEPT ![w] = "claiming"] /\ job' = job /\ now' = now
    BY Zenon DEF ReserveRefused
  <2> QED BY Zenon, <2>1, <2>2, LockTaken
<1> QED
  BY <1>1, <1>2, <1>3, ConsidersKeeps, LimitsKept, ReservationsKept DEF IInv

\* The limits as the claim reads them count every live lease, so they leave room
\* among those that never ran out.
LEMMA AdmissibleRoom ==
  ASSUME Counting, NEW w \in Workers, admissible(w)
  PROVE  room(w)
<1> DEFINE o == OriginOf[job[w]]
           t == now[w]
<1>1. active(o, t) \in SUBSET Jobs /\ standing(o, t) \subseteq active(o, t)
  BY DEF active, standing, stands
<1>2. Cardinality(active(o, t)) < PerOriginConcurrency /\ ~source_busy(job[w], t)
  BY DEF admissible, origin_has_capacity
<1>3. Cardinality(standing(o, t)) < PerOriginConcurrency
  BY <1>1, <1>2, FewerStanding, LimitsAssumption
<1> QED
  BY <1>2, <1>3 DEF room, source_busy, stands

\* A row is admitted under the origin's lock.
LEMMA ReserveStep == ASSUME Counting, IInv, NEW w \in Workers, Reserve(w) PROVE IInv'
<1>1. TypeOK'
  <2>2. /\ pc' \in [Workers -> Stages]
        /\ origin_lock' \in [Origins -> Workers \cup {None}]
    BY Zenon, ClaimMemory DEF Stages, Reserve
  <2> QED
    BY <2>2, ClaimMemory, ClaimType DEF Reserve
<1>2. Considers(w)
  BY ClaimMemory DEF Considers, Reserve
<1>3. Reserved'
  <2>1. \A v \in Workers : room(v) /\ job[v] \in Jobs => room(v)'
    BY <1>1, <1>2, ConsidersKeeps, LimitsKept DEF Considers
  <2>2. /\ job[w] \in Jobs /\ OriginOf[job[w]] \in Origins /\ room(w)
        /\ origin_lock'[OriginOf[job[w]]] = w
    <3>1. /\ job[w] \in Jobs /\ OriginOf[job[w]] \in Origins /\ admissible(w)
          /\ origin_lock'[OriginOf[job[w]]] = w
      BY ConstantsAssumption DEF IInv, TypeOK, Placed, Reserve
    <3> QED
      BY <3>1, AdmissibleRoom
  <2>3. \A v \in Workers : v # None /\ (pc[v] = "reserved" => job[v] \in Jobs /\ OriginOf[job[v]] \in Origins)
    BY ConstantsAssumption DEF IInv, Placed
  <2> QED
    BY <1>2, <2>1, <2>2, <2>3 DEF IInv, Reserved, Considers
<1> QED
  BY <1>1, <1>2, <1>3, ConsidersKeeps, LimitsKept DEF IInv

\* What a committed claim does to row j, the granted one apart.
AgedOrSame(w, j) ==
  \/ j \notin aged[w] /\ RowSame(j)
  \/ /\ j \in aged[w]
     /\ status'[j] \in {"ready", "failed"} /\ (is_recurring(j) => status'[j] = "ready")
     /\ lease_token'[j] = None /\ lease_deadline'[j] = 0 /\ attempt'[j] \in {0, attempt[j]}

\* The commit of a claim that found no job.
LEMMA NothingEffect ==
  ASSUME IInv, NEW w \in Workers, ClaimNothing(w)
  PROVE  Forgets(w) /\ \A j \in Jobs : AgedOrSame(w, j)
<1>1. ASSUME NEW j \in Jobs PROVE AgedOrSame(w, j)
  BY Zenon DEF ClaimNothing, settle_aged, AgedOrSame, RowSame, status_when_given_up
<1>2. \A j \in aged[w] : row_lock[j] = w
  BY DEF IInv, Stable
<1>3. \A j \in Jobs : RowSame(j) \/ RowLeft(w, j)
  BY <1>1, <1>2 DEF AgedOrSame, RowLeft
<1> QED
  BY <1>1, <1>3, ForgetFrees DEF ClaimNothing, Forgets

\* The claim ends without a job.
LEMMA NothingStep == ASSUME Counting, IInv, NEW w \in Workers, ClaimNothing(w) PROVE IInv'
<1>1. TypeOK'
  BY Zenon, SettleAgedType, ForgetType DEF IInv, TypeOK, ClaimNothing, release_rows, release_origins
<1>2. Forgets(w) /\ \A j \in Jobs : AgedOrSame(w, j)
  BY NothingEffect
<1>3. RetryBudget' /\ RecurringSurvives'
  <2>1. ASSUME NEW j \in Jobs
        PROVE  /\ attempt'[j] \in {0, attempt[j]}
               /\ is_recurring(j) => status'[j] \in {"ready", "leased", status[j]}
    BY <1>2 DEF AgedOrSame, RowSame
  <2> QED
    BY <2>1, BudgetKept DEF IInv
<1> QED
  BY <1>1, <1>2, <1>3, ForgetsStep, LimitsKept, ReservationsKept DEF IInv

\* Nothing happens.
LEMMA StutterStep == ASSUME Counting, IInv, UNCHANGED vars PROVE IInv'
<1>1. UNCHANGED <<clock, rows, failing, row_lock, origin_lock, memory>>
  BY DEF vars
<1>2. NoNewLease /\ RetryBudget' /\ RecurringSurvives' /\ clock' >= clock
  BY <1>1, RowsKept
<1>3. TypeOK'
  BY <1>1 DEF IInv, TypeOK, rows, memory
<1>4. Placed' /\ Locked' /\ OldReservations
  BY <1>1 DEF IInv, Placed, Locked, OldReservations, memory
<1>5. Stable'
  BY <1>1 DEF IInv, Stable, claimable, rows, memory
<1>6. Tokened' /\ Owned'
  BY <1>1 DEF IInv, Tokened, Owned, holds, rows, memory
<1> QED
  BY <1>2, <1>3, <1>4, <1>5, <1>6, LimitsKept, ReservationsKept DEF IInv

-----------------------------------------------------------------------------
(* A worker that has a lease, and the crash of a worker.                   *)

\* The heartbeat finds its lease live.
LEMMA RenewStep == ASSUME Counting, IInv, NEW w \in Workers, renew(w) PROVE IInv'
<1>1. /\ pc[w] \in {"working", "committing"} /\ lease_deadline[job[w]] >= clock
      /\ job[w] \in Jobs /\ lease_deadline[job[w]] \in Nat /\ clock \in Nat
      /\ UNCHANGED <<clock, rows, failing, row_lock, origin_lock, pc, now, job, token,
                     leased_attempt, excluded, aged>>
  <2>1. /\ pc[w] \in {"working", "committing"} /\ lease_deadline[job[w]] >= clock
        /\ job[w] \in Jobs
        /\ UNCHANGED <<clock, rows, failing, row_lock, origin_lock, pc, now, job, token,
                       leased_attempt, excluded, aged>>
    BY Zenon DEF IInv, Placed, renew, live
  <2> QED
    BY <2>1, RowsTyped
<1>2. PICK d \in lease_deadline[job[w]]..(clock + LeaseDuration) : beat' = [beat EXCEPT ![w] = d]
  BY Zenon DEF renew
<1>3. d \in Nat /\ d <= lease_deadline[job[w]] + LeaseDuration
  BY <1>1, LimitsAssumption
<1>4. beat \in [Workers -> Nat]
  BY DEF IInv, TypeOK
<1>5. TypeOK'
  BY <1>1, <1>2, <1>3, <1>4 DEF IInv, TypeOK, rows
<1>6. Placed' /\ Locked' /\ OldReservations
  BY <1>1 DEF IInv, Placed, Locked, OldReservations
<1>7. Stable' /\ Tokened'
  BY <1>1 DEF IInv, Stable, claimable, Tokened, rows
<1>8. Owned'
  <2>1. \A v \in Workers : holds(v)' <=> holds(v)
    BY <1>1 DEF holds, rows
  <2>2. \A v \in Workers : v # w => beat'[v] = beat[v]
    BY <1>2, <1>4
  <2>3. beat'[w] = d
    BY <1>2, <1>4
  <2>4. Owned /\ lease_deadline' = lease_deadline /\ attempt' = attempt
    BY <1>1 DEF IInv, rows
  <2> QED
    BY <1>1, <1>3, <2>1, <2>2, <2>3, <2>4 DEF Owned
<1>9. NoNewLease /\ RetryBudget' /\ RecurringSurvives' /\ clock' >= clock
  BY <1>1, RowsKept
<1> QED
  BY Zenon, <1>5, <1>6, <1>7, <1>8, <1>9, LimitsKept, ReservationsKept DEF IInv

\* What the heartbeat writes: the deadline of its own row, which nobody locked.
\* A lease that had run out is marked as revived.
LEMMA RenewedEffect ==
  ASSUME IInv, NEW w \in Workers, renewed(w)
  PROVE  /\ job[w] \in Jobs /\ row_lock[job[w]] = None /\ holds(w) /\ beat'[w] = 0
         /\ lease_deadline' \in [Jobs -> Nat] /\ revived' \subseteq Jobs
         /\ lease_deadline'[job[w]] = beat[w]
         /\ beat[w] <= lease_deadline[job[w]] + LeaseDuration
         /\ lease_deadline[job[w]] < clock => job[w] \in revived'
         /\ revived \subseteq revived'
         /\ \A j \in Jobs : j # job[w] => /\ lease_deadline'[j] = lease_deadline[j]
                                          /\ j \in revived' <=> j \in revived
         /\ \A v \in Workers : v # w => beat'[v] = beat[v]
         /\ UNCHANGED <<clock, status, lease_token, run_at, first_attempt, attempt, failing, row_lock,
                        origin_lock, pc, now, job, token, leased_attempt, excluded, aged>>
<1>1. /\ beat[w] # 0 /\ row_lock[job[w]] = None /\ holds(w)
      /\ lease_deadline' = [lease_deadline EXCEPT ![job[w]] = beat[w]]
      /\ revived' = IF lease_deadline[job[w]] < clock THEN revived \cup {job[w]} ELSE revived
      /\ beat' = [beat EXCEPT ![w] = 0]
  BY Zenon DEF renewed, unlocked
<1>2. job[w] \in Jobs /\ beat[w] <= lease_deadline[job[w]] + LeaseDuration
  BY Zenon, <1>1 DEF IInv, Placed, Owned
<1>3. beat \in [Workers -> Nat] /\ lease_deadline \in [Jobs -> Nat] /\ revived \subseteq Jobs
  BY DEF IInv, TypeOK
<1>4. UNCHANGED <<clock, status, lease_token, run_at, first_attempt, attempt, failing, row_lock,
                  origin_lock, pc, now, job, token, leased_attempt, excluded, aged>>
  BY Zenon DEF renewed
<1>5. /\ lease_deadline' \in [Jobs -> Nat] /\ lease_deadline'[job[w]] = beat[w]
      /\ \A j \in Jobs : j # job[w] => lease_deadline'[j] = lease_deadline[j]
  BY <1>1, <1>2, <1>3
<1>6. /\ revived' \subseteq Jobs /\ revived \subseteq revived'
      /\ lease_deadline[job[w]] < clock => job[w] \in revived'
      /\ \A j \in Jobs : j # job[w] => (j \in revived' <=> j \in revived)
  BY Zenon, <1>1, <1>2, <1>3
<1>7. beat'[w] = 0 /\ \A v \in Workers : v # w => beat'[v] = beat[v]
  BY <1>1, <1>3
<1> QED
  BY Zenon, <1>1, <1>2, <1>4, <1>5, <1>6, <1>7

\* The heartbeat writes.  The lease it revives does not stand.
LEMMA RenewedStep == ASSUME Counting, IInv, NEW w \in Workers, renewed(w) PROVE IInv'
<1>1. TypeOK'
  <2>1. beat' \in [Workers -> Nat]
    BY DEF IInv, TypeOK, renewed
  <2> QED
    BY <2>1, RenewedEffect DEF IInv, TypeOK
<1>2. /\ job[w] \in Jobs /\ row_lock[job[w]] = None /\ pc' = pc /\ now' = now /\ job' = job
      /\ aged' = aged /\ row_lock' = row_lock /\ status' = status /\ run_at' = run_at
      /\ clock' = clock /\ origin_lock' = origin_lock
      /\ \A j \in Jobs : j # job[w] => lease_deadline'[j] = lease_deadline[j]
  BY Zenon, RenewedEffect
<1>3. Placed' /\ Locked' /\ OldReservations
  BY <1>2 DEF IInv, Placed, Locked, OldReservations
<1>4. Stable'
  <2>1. \A v \in Workers : v # None /\ aged[v] \subseteq Jobs
    BY ConstantsAssumption DEF IInv, TypeOK
  <2>2. \A j \in Jobs, v \in Workers : j # job[w] => (claimable(j, now[v])' <=> claimable(j, now[v]))
    BY <1>2 DEF claimable
  <2>3. \A v \in Workers : pc[v] \in {"selected", "reserved"} => job[v] \in Jobs /\ job[v] # job[w]
    BY <1>2, <2>1 DEF IInv, Placed, Locked
  <2>4. \A v \in Workers : pc[v] \in {"selected", "reserved"} =>
          (claimable(job[v], now[v])' <=> claimable(job[v], now[v]))
    BY <1>2, <2>3 DEF claimable
  <2>5. Stable
    BY DEF IInv
  <2>6. \A v \in Workers : \A j \in aged[v] : j # job[w]
    BY <1>2, <2>1, <2>5 DEF Stable
  <2> QED
    BY <1>2, <2>1, <2>2, <2>4, <2>5, <2>6 DEF Stable
<1>5. NoNewLease /\ clock' >= clock
  <2>1. clock \in Nat /\ lease_deadline \in [Jobs -> Nat]
    BY RowsTyped
  <2>2. /\ lease_deadline[job[w]] < clock => job[w] \in revived'
        /\ revived \subseteq revived'
    BY Zenon, RenewedEffect
  <2>3. \A t \in 0..clock : stands(job[w], t)' => stands(job[w], t)
    BY <1>2, <2>1, <2>2 DEF stands
  <2>4. \A j \in Jobs : \A t \in 0..clock : j # job[w] => (stands(j, t)' => stands(j, t))
    BY <1>2, <2>2 DEF stands
  <2> QED
    BY <1>2, <2>1, <2>3, <2>4 DEF NoNewLease
<1>6. Tokened'
  BY RenewedEffect DEF IInv, Tokened
<1>7. Owned'
  <2>1. \A v \in Workers : holds(v)' <=> holds(v)
    BY RenewedEffect DEF holds
  <2>2. ASSUME NEW v \in Workers, v # w, holds(v), token[v] # None PROVE job[v] # job[w]
    <3>1. holds(w)
      BY RenewedEffect
    <3> QED
      BY <2>2, <3>1 DEF IInv, Tokened, holds
  <2>3. \A v \in Workers : token[v] # None => job[v] \in Jobs
    BY DEF IInv, Placed, Tokened
  <2>4. \A v \in Workers : beat[v] # 0 => token[v] # None
    BY DEF IInv, Tokened, Owned
  <2>5. /\ Owned /\ pc' = pc /\ token' = token /\ job' = job /\ attempt' = attempt
        /\ leased_attempt' = leased_attempt /\ beat'[w] = 0
        /\ \A v \in Workers : v # w => beat'[v] = beat[v]
    BY Zenon, RenewedEffect DEF IInv
  <2> QED
    BY <1>2, <2>1, <2>2, <2>3, <2>4, <2>5 DEF Owned
<1>8. RetryBudget' /\ RecurringSurvives'
  BY Zenon DEF IInv, RetryBudget, RecurringSurvives, renewed
<1> QED
  BY Zenon, <1>1, <1>3, <1>4, <1>5, <1>6, <1>7, <1>8, LimitsKept, ReservationsKept DEF IInv

\* A transaction of the handler opens.
LEMMA AssertLeaseStep == ASSUME Counting, IInv, NEW w \in Workers, assert_lease(w) PROVE IInv'
<1>1. TypeOK'
  BY Zenon DEF IInv, TypeOK, Stages, assert_lease, rows
<1>2. /\ pc[w] = "working" /\ pc'[w] = "committing" /\ holds(w) /\ job[w] \in Jobs
      /\ now' = now /\ job' = job /\ token' = token /\ leased_attempt' = leased_attempt /\ beat' = beat
      /\ aged' = aged /\ origin_lock' = origin_lock /\ clock' = clock /\ rows' = rows
      /\ \A v \in Workers : v # w => pc'[v] = pc[v]
      /\ row_lock[job[w]] = None
      /\ \A j \in Jobs : row_lock'[j] = IF j = job[w] THEN w ELSE row_lock[j]
  BY DEF IInv, TypeOK, Placed, assert_lease, live, unlocked
<1>3. Placed' /\ Locked'
  BY <1>2, ConstantsAssumption DEF IInv, Placed, Locked
<1>4. Stable'
  <2>1. \A v \in Workers : aged[v] \subseteq Jobs
    BY DEF IInv, TypeOK
  <2>2. \A v, j : claimable(j, now[v])' <=> claimable(j, now[v])
    BY <1>2 DEF claimable, rows
  <2>3. \A v : claimable(job[v], now[v])' <=> claimable(job[v], now[v])
    BY <1>2 DEF claimable, rows
  <2>4. \A v \in Workers : v # None
    BY ConstantsAssumption
  <2> QED
    BY <1>2, <2>1, <2>2, <2>3, <2>4 DEF IInv, Stable
<1>5. NoNewLease /\ RetryBudget' /\ RecurringSurvives' /\ clock' >= clock
  BY RowsKept DEF assert_lease
<1>6. Tokened' /\ Owned'
  BY <1>2 DEF IInv, Tokened, Owned, holds, rows
<1>7. OldReservations
  BY Zenon, <1>2 DEF OldReservations
<1> QED
  BY <1>1, <1>3, <1>4, <1>5, <1>6, <1>7, LimitsKept, ReservationsKept DEF IInv

\* It commits or is rolled back.
LEMMA CloseStep == ASSUME Counting, IInv, NEW w \in Workers, Close(w) PROVE IInv'
<1>1. TypeOK'
  BY DEF IInv, TypeOK, Stages, Close, EndCommit, AbortCommit, release_rows, rows
<1>2. NoNewLease /\ RetryBudget' /\ RecurringSurvives' /\ clock' >= clock
  BY Zenon, RowsKept DEF Close, EndCommit, AbortCommit
<1>3. /\ pc[w] = "committing" /\ pc'[w] \in {"working", "erred"}
      /\ now' = now /\ job' = job /\ token' = token /\ leased_attempt' = leased_attempt
      /\ aged' = aged /\ origin_lock' = origin_lock /\ clock' = clock /\ rows' = rows
      /\ \A v \in Workers : v # w => pc'[v] = pc[v] /\ beat'[v] = beat[v]
      /\ beat'[w] = 0 \/ (pc'[w] = "working" /\ beat'[w] = beat[w])
      /\ \A j \in Jobs : row_lock'[j] = IF row_lock[j] = w THEN None ELSE row_lock[j]
  BY DEF IInv, TypeOK, Close, EndCommit, AbortCommit, release_rows
<1>4. aged[w] = {}
  BY Zenon, <1>3 DEF IInv, Locked
<1>5. Placed' /\ Locked'
  BY <1>3, ConstantsAssumption DEF IInv, Placed, Locked
<1>6. Stable'
  <2>1. ASSUME NEW v \in Workers, v # w
        PROVE  /\ pc'[v] \in {"selected", "reserved"} => claimable(job[v], now[v])' /\ job'[v] \notin aged'[v]
               /\ \A j \in aged'[v] : row_lock'[j] = v /\ claimable(j, now[v])'
    <3>1. \A j \in aged[v] : j \in Jobs
      BY DEF IInv, TypeOK
    <3>2. \A j : claimable(j, now[v])' <=> claimable(j, now[v])
      BY <1>3 DEF claimable, rows
    <3> QED
      BY <1>3, <2>1, <3>1, <3>2 DEF IInv, Stable
  <2> QED
    BY Zenon, <1>3, <1>4, <2>1 DEF Stable
<1>7. Tokened' /\ Owned'
  BY <1>3 DEF IInv, Tokened, Owned, holds, rows
<1>8. OldReservations
  BY <1>3 DEF OldReservations
<1> QED
  BY Zenon, <1>1, <1>2, <1>5, <1>6, <1>7, <1>8, LimitsKept, ReservationsKept DEF IInv

\* The handler's error is reported.
LEMMA ReportStep == ASSUME Counting, IInv, NEW w \in Workers, report(w) PROVE IInv'
<1>1. TypeOK'
  BY DEF IInv, TypeOK, Stages, report, rows
<1>2. NoNewLease /\ RetryBudget' /\ RecurringSurvives' /\ clock' >= clock
  BY Zenon, RowsKept DEF report
<1>3. /\ pc[w] \in {"working", "erred"} /\ pc'[w] = "reporting" /\ now'[w] = clock /\ beat'[w] = 0
      /\ clock' = clock /\ rows' = rows /\ row_lock' = row_lock /\ origin_lock' = origin_lock
      /\ job' = job /\ token' = token /\ leased_attempt' = leased_attempt /\ aged' = aged
      /\ \A v \in Workers : v # w => pc'[v] = pc[v] /\ now'[v] = now[v] /\ beat'[v] = beat[v]
  BY DEF IInv, TypeOK, report
<1>4. aged[w] = {} /\ clock \in Nat
  BY Zenon, <1>3, RowsTyped DEF IInv, Locked
<1>5. Placed' /\ Locked' /\ OldReservations
  BY <1>3, <1>4 DEF IInv, Placed, Locked, OldReservations
<1>6. Stable'
  <2>1. ASSUME NEW v \in Workers, v # w
        PROVE  /\ pc'[v] \in {"selected", "reserved"} => claimable(job[v], now[v])' /\ job'[v] \notin aged'[v]
               /\ \A j \in aged'[v] : row_lock'[j] = v /\ claimable(j, now[v])'
    BY <1>3, <2>1 DEF IInv, Stable, claimable, rows
  <2> QED
    BY Zenon, <1>3, <1>4, <2>1 DEF Stable
<1>7. Tokened' /\ Owned'
  BY <1>3 DEF IInv, Tokened, Owned, holds, rows
<1> QED
  BY Zenon, <1>1, <1>2, <1>5, <1>6, <1>7, LimitsKept, ReservationsKept DEF IInv

\* The lease is gone.
LEMMA StaleLeaseStep == ASSUME Counting, IInv, NEW w \in Workers, StaleLease(w) PROVE IInv'
<1>1. TypeOK'
  BY ForgetType DEF IInv, TypeOK, StaleLease, rows
<1>2. RetryBudget' /\ RecurringSurvives'
  BY RowsKept DEF StaleLease
<1>3. Forgets(w)
  <2>1. \A j \in Jobs : RowSame(j)
    BY Zenon DEF StaleLease, rows, RowSame
  <2> QED
    BY Zenon, <2>1, ForgetFrees DEF StaleLease, reporting, Forgets
<1> QED
  BY Zenon, <1>1, <1>2, <1>3, ForgetsStep, LimitsKept, ReservationsKept DEF IInv

\* The worker dies.
LEMMA CrashStep == ASSUME Counting, IInv, NEW w \in Workers, Crash(w) PROVE IInv'
<1>1. TypeOK'
  BY ForgetType DEF IInv, TypeOK, Crash, release_rows, release_origins, rows
<1>2. RetryBudget' /\ RecurringSurvives'
  BY RowsKept DEF Crash
<1>3. Forgets(w)
  <2>1. \A j \in Jobs : RowSame(j)
    BY DEF Crash, rows, RowSame
  <2> QED
    BY Zenon, <2>1, ForgetFrees DEF Crash, Forgets
<1> QED
  BY Zenon, <1>1, <1>2, <1>3, ForgetsStep, LimitsKept, ReservationsKept DEF IInv

\* An outcome of the owner of a lease writes the row of its job only.
LEMMA OutcomeForgets ==
  ASSUME IInv, NEW w \in Workers, complete(w) \/ retry(w) \/ fail(w)
  PROVE  Forgets(w) /\ \A j \in Jobs : j # job[w] => RowSame(j)
<1>1. /\ pc[w] \in {"working", "erred", "reporting"} /\ job[w] \in Jobs /\ row_lock[job[w]] = None
      /\ forget(w) /\ clock' = clock /\ row_lock' = row_lock /\ origin_lock' = origin_lock
      /\ revived' = revived
  BY Zenon DEF IInv, Placed, complete, retry, fail, reporting, unlocked
<1>2. RowLeft(w, job[w])
  <2>1. CASE complete(w)
    BY Zenon, <1>1, <2>1, RowsTyped DEF complete, RowLeft
  <2>2. CASE retry(w)
    BY Zenon, <1>1, <2>2, RowsTyped DEF retry, RowLeft
  <2>3. CASE fail(w)
    BY Zenon, <1>1, <2>3, RowsTyped DEF fail, status_when_given_up, RowLeft
  <2> QED
    BY <2>1, <2>2, <2>3
<1>3. ASSUME NEW j \in Jobs, j # job[w] PROVE RowSame(j)
  <2>1. CASE complete(w)
    BY Zenon, <1>1, <1>3, <2>1, RowsTyped DEF complete, RowSame
  <2>2. CASE retry(w)
    BY Zenon, <1>1, <1>3, <2>2, RowsTyped DEF retry, RowSame
  <2>3. CASE fail(w)
    BY Zenon, <1>1, <1>3, <2>3, RowsTyped DEF fail, RowSame
  <2> QED
    BY <2>1, <2>2, <2>3
<1> QED
  BY Zenon, <1>1, <1>2, <1>3, ForgetFrees DEF Forgets

\* The job is done.
LEMMA CompleteStep == ASSUME Counting, IInv, NEW w \in Workers, complete(w) PROVE IInv'
<1>1. TypeOK'
  <2>1. job[w] \in Jobs /\ clock + PollInterval \in Nat
    BY LimitsAssumption DEF IInv, TypeOK, Placed, complete
  <2>2. /\ status' \in [Jobs -> {"absent", "ready", "leased", "completed", "failed"}]
        /\ lease_token' \in [Jobs -> Tokens \cup {None}] /\ lease_deadline' \in [Jobs -> Nat]
        /\ run_at' \in [Jobs -> Int] /\ first_attempt' \in [Jobs -> Nat] /\ attempt' \in [Jobs -> Nat]
        /\ failing' \subseteq Sources
    BY <2>1 DEF IInv, TypeOK, complete
  <2> QED
    BY <2>2, ForgetType DEF IInv, TypeOK, complete
<1>2. RetryBudget' /\ RecurringSurvives'
  <2>1. /\ status \in [Jobs -> {"absent", "ready", "leased", "completed", "failed"}]
        /\ attempt \in [Jobs -> Nat]
    BY DEF IInv, TypeOK
  <2>2. ASSUME NEW j \in Jobs
        PROVE  /\ attempt'[j] \in {0, attempt[j]}
               /\ is_recurring(j) => status'[j] \in {"ready", "leased", status[j]}
    BY <2>1 DEF complete
  <2> QED
    BY <2>2, BudgetKept DEF IInv
<1> QED
  BY Zenon, <1>1, <1>2, OutcomeForgets, ForgetsStep, LimitsKept, ReservationsKept DEF IInv

\* The job goes back to the queue.
LEMMA RetryStep == ASSUME Counting, IInv, NEW w \in Workers, retry(w) PROVE IInv'
<1>1. TypeOK'
  <2>1. TypeOK /\ job[w] \in Jobs
    BY Zenon DEF IInv, Placed, retry, reporting
  <2>2. \A b \in BOOLEAN, r \in RetryAfter : retry_at(w, b, r) \in Nat
    BY <2>1, RetryAtNat
  <2>3. work_source(job[w]) \subseteq Sources /\ clock \in Nat
    BY <2>1, ConstantsAssumption DEF work_source, TypeOK
  <2>4. /\ status' \in [Jobs -> {"absent", "ready", "leased", "completed", "failed"}]
        /\ lease_token' \in [Jobs -> Tokens \cup {None}] /\ lease_deadline' \in [Jobs -> Nat]
        /\ run_at' \in [Jobs -> Int] /\ first_attempt' \in [Jobs -> Nat] /\ attempt' \in [Jobs -> Nat]
        /\ failing' \subseteq Sources
    BY <2>1, <2>2, <2>3 DEF TypeOK, retry
  <2> QED
    BY <2>4, ForgetType DEF IInv, TypeOK, retry
<1>2. RetryBudget' /\ RecurringSurvives'
  <2>1. job[w] \in Jobs /\ token[w] # None /\ holds(w) /\ attempt[job[w]] + 1 < RetryAttempts
    <3>1. pc[w] = "reporting" /\ holds(w) /\ ~exhausted(w)
      BY Zenon DEF retry, reporting
    <3>2. job[w] \in Jobs /\ token[w] # None /\ leased_attempt[w] = attempt[job[w]]
      BY Zenon, <3>1 DEF IInv, Placed, Tokened, Owned
    <3>3. attempt[job[w]] \in Nat
      BY <3>2 DEF IInv, TypeOK
    <3> QED
      BY <3>1, <3>2, <3>3, LimitsAssumption DEF exhausted
  <2>2. /\ RetryBudget /\ RecurringSurvives
        /\ DOMAIN status = Jobs /\ DOMAIN attempt = Jobs
    BY DEF IInv, TypeOK
  <2>3. ASSUME NEW j \in Jobs
        PROVE  /\ attempt'[j] \in {attempt[j], attempt[job[w]] + 1}
               /\ status'[j] \in {"ready", status[j]}
    BY <2>1, <2>2 DEF retry
  <2> QED
    BY Zenon, <2>1, <2>2, <2>3 DEF RetryBudget, RecurringSurvives
<1> QED
  BY <1>1, <1>2, OutcomeForgets, ForgetsStep, LimitsKept, ReservationsKept DEF IInv

\* The attempts are used up.
LEMMA FailStep == ASSUME Counting, IInv, NEW w \in Workers, fail(w) PROVE IInv'
<1>1. TypeOK'
  <2>1. TypeOK /\ job[w] \in Jobs
    BY Zenon DEF IInv, Placed, fail, reporting
  <2>2. \A b \in BOOLEAN, r \in RetryAfter : retry_at(w, b, r) \in Nat /\ not_before(w, r) \in Nat
    BY <2>1, RetryAtNat
  <2>3. work_source(job[w]) \subseteq Sources /\ clock \in Nat
    BY <2>1, ConstantsAssumption DEF work_source, TypeOK
  <2>4. /\ status' \in [Jobs -> {"absent", "ready", "leased", "completed", "failed"}]
        /\ lease_token' \in [Jobs -> Tokens \cup {None}] /\ lease_deadline' \in [Jobs -> Nat]
        /\ run_at' \in [Jobs -> Int] /\ first_attempt' \in [Jobs -> Nat] /\ attempt' \in [Jobs -> Nat]
        /\ failing' \subseteq Sources
    BY <2>1, <2>2, <2>3, LimitsAssumption DEF TypeOK, fail, larger, status_when_given_up
  <2> QED
    BY Zenon, <2>4, ForgetType DEF IInv, TypeOK, fail
<1>2. RetryBudget' /\ RecurringSurvives'
  <2>1. job[w] \in Jobs
    BY Zenon DEF IInv, Placed, fail, reporting
  <2>2. ASSUME NEW j \in Jobs
        PROVE  /\ attempt'[j] \in {0, attempt[j]}
               /\ is_recurring(j) => status'[j] \in {"ready", "leased", status[j]}
    <3>1. status \in [Jobs -> {"absent", "ready", "leased", "completed", "failed"}]
          /\ attempt \in [Jobs -> Nat]
      BY DEF IInv, TypeOK
    <3> QED
      BY <2>1, <3>1 DEF fail, status_when_given_up
  <2> QED
    BY Zenon, <2>2, BudgetKept DEF IInv
<1> QED
  BY Zenon, <1>1, <1>2, OutcomeForgets, ForgetsStep, LimitsKept, ReservationsKept DEF IInv
=============================================================================
