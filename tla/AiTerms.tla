------------------------------ MODULE AiTerms -------------------------------
(***************************************************************************)
(* Definitions of terms and translations of paragraphs: the one-shot paid  *)
(* jobs about an article, crates/reader-ai/src/service/definitions.rs and  *)
(* translation.rs over reader-storage-postgres/src/ai/definitions.rs and   *)
(* translations.rs.  A command finds the job it may reuse or queues one; a *)
(* worker leases the oldest, reserves, asks the provider, keeps the raw    *)
(* reply, settles and finishes, each in a transaction of its own.          *)
(*                                                                         *)
(* One owner, one article, one prompt version.  The input of a job is the  *)
(* revision of the text it was made from.  A lease is the number of the    *)
(* claim; the reservation (ai_spending) is filed under it.                 *)
(***************************************************************************)
EXTENDS Naturals, Sequences, FiniteSets, SequencesExt, FiniteSetsExt, TLC

CONSTANTS
    Workers,     \* workers of the two classes
    Ops,         \* operation ids of the commands
    Kinds,       \* "terms" (ai_definitions) and "text" (ai_translations)
    Limit,       \* reservations the daily budget allows
    MaxJobs,     \* bound: jobs
    MaxRevision, \* bound: revisions of the text
    MaxClaims,   \* bound: claims of a job
    MaxDay,      \* bound: days
    Faults       \* bound: overrun leases and worker deaths

VARIABLES
    jobs,        \* rows of both tables, oldest first
    opened,      \* ai_definition_operations: op -> the job it is bound to
    revision,    \* the current revision of the article's text
    spending,    \* reservations: [job, lease, day, automatic]
    task,        \* what each worker is doing
    peak,        \* automatic work is paused
    excluded,    \* reader_ai_automatic_allowed is false
    rejected,    \* ai_terms_failures: the text could not be used
    scheduling,  \* the scheduler found the article without terms
    day,
    faults

vars == <<jobs, opened, revision, spending, task, peak, excluded, rejected, scheduling, day, faults>>

Idle == [pc |-> "idle"]
clock == <<revision, peak, excluded, rejected, day>>

Job(kind, input, automatic) ==
    [kind |-> kind, input |-> input, status |-> "queued", automatic |-> automatic,
     lease |-> 0, expired |-> FALSE, claims |-> 0, until |-> 0, offpeak |-> FALSE,
     reply |-> 0]

Of(kind, statuses) ==
    {j \in DOMAIN jobs : jobs[j].kind = kind /\ jobs[j].status \in statuses}

All == {"queued", "generating", "completed", "failed", "cancelled"}

-----------------------------------------------------------------------------
(* Commands.                                                               *)

\* What a command may reuse: automatic work any job of the prompt version that
\* was not cancelled, a manual one the same input, unless it is to be redone.
reusable(kind, input, automatic, regenerate) ==
    IF automatic THEN Of(kind, All \ {"cancelled"})
    ELSE {j \in Of(kind, {"queued", "generating"} \cup
                         IF regenerate THEN {} ELSE {"completed"}) : jobs[j].input = input}

promote(job) == [job EXCEPT !.automatic = FALSE, !.until = 0, !.offpeak = FALSE]

\* insert_definitions under the owner's lock.
insert_definitions(op, input, regenerate, automatic) ==
    LET found == reusable("terms", input, automatic, regenerate)
        j == IF found = {} THEN Len(jobs) + 1 ELSE Max(found)
        rows == IF found = {} THEN Append(jobs, Job("terms", input, automatic)) ELSE jobs
    IN  /\ op \notin DOMAIN opened
        /\ ~(automatic /\ regenerate)
        /\ j <= MaxJobs
        /\ jobs' = IF automatic THEN rows ELSE [rows EXCEPT ![j] = promote(@)]
        /\ opened' = opened @@ (op :> j)

\* define_internal: the text was read before, so it may be an older revision.
define_internal(op, regenerate, automatic) ==
    \E input \in 1..revision : insert_definitions(op, input, regenerate, automatic)

\* A reader asks for the terms, or for new ones.
define(op, regenerate) ==
    /\ define_internal(op, regenerate, FALSE)
    /\ UNCHANGED <<spending, task, scheduling, clock, faults>>

\* schedule_once finds the article with next_terms, then queues it or, when its
\* text cannot be used, rejects it for good.
next_terms == /\ ~scheduling /\ ~peak /\ ~excluded /\ ~rejected
              /\ Of("terms", All \ {"cancelled"}) = {}
              /\ scheduling' = TRUE
              /\ UNCHANGED <<jobs, opened, spending, task, clock, faults>>

schedule_once(op) ==
    /\ scheduling /\ scheduling' = FALSE
    /\ \/ define_internal(op, FALSE, TRUE) /\ UNCHANGED rejected
       \/ rejected' = TRUE /\ UNCHANGED <<jobs, opened>>
    /\ UNCHANGED <<spending, task, revision, peak, excluded, day, faults>>

\* insert_translation: the operation is the id of the job, and nothing is
\* written when an equal one is found.
insert_translation(op, input) ==
    /\ op \notin DOMAIN opened
    /\ reusable("text", input, FALSE, FALSE) = {}
    /\ Len(jobs) < MaxJobs
    /\ jobs' = Append(jobs, Job("text", input, FALSE))
    /\ opened' = opened @@ (op :> Len(jobs) + 1)

translate(op) == /\ \E input \in 1..revision : insert_translation(op, input)
                 /\ UNCHANGED <<spending, task, scheduling, clock, faults>>

-----------------------------------------------------------------------------
(* Workers.                                                                *)

\* reader_ai_terms_superseded: one automatic attempt, the oldest or the one
\* that already ran.
superseded(rows, j) ==
    /\ rows[j].automatic
    /\ \E i \in DOMAIN rows \ {j} :
           /\ rows[i].kind = rows[j].kind /\ rows[i].status # "cancelled"
           /\ rows[i].status # "queued" \/ i < j

\* Mutant: an expired claim goes back to the queue.
recovered_queued(job) ==
    IF job.status = "generating" /\ job.expired
    THEN [job EXCEPT !.status = "queued", !.lease = 0, !.expired = FALSE] ELSE job

\* The request of an expired claim may have been paid: it is not repeated.
recovered(job) ==
    IF job.status = "generating" /\ job.expired
    THEN [job EXCEPT !.status = "failed", !.lease = 0, !.expired = FALSE] ELSE job

\* The start of lease_definitions: duplicates are cancelled, expired claims fail.
swept == [j \in DOMAIN jobs |->
             IF jobs[j].kind # "terms" THEN jobs[j]
             ELSE IF jobs[j].status = "queued" /\ superseded(jobs, j)
             THEN [jobs[j] EXCEPT !.status = "cancelled"]
             ELSE recovered(jobs[j])]

\* The start of lease_translation.
interrupted == [j \in DOMAIN jobs |-> IF jobs[j].kind = "text" THEN recovered(jobs[j]) ELSE jobs[j]]

due(rows, j) == /\ rows[j].status = "queued" /\ ~superseded(rows, j)
                /\ rows[j].until <= day /\ ~rows[j].offpeak
                /\ rows[j].automatic => ~peak
                /\ rows[j].claims < MaxClaims

\* The oldest job that is due is claimed under a new lease.
claim(w, kind, rows) ==
    LET ready == {j \in DOMAIN rows : rows[j].kind = kind /\ due(rows, j)}
        j == Min(ready)
    IN  /\ task[w] = Idle
        /\ IF ready = {}
           THEN /\ rows # jobs
                /\ jobs' = rows /\ UNCHANGED task
           ELSE /\ jobs' = [rows EXCEPT ![j].status = "generating", ![j].claims = @ + 1,
                                        ![j].lease = rows[j].claims + 1]
                /\ task' = [task EXCEPT ![w] = [pc |-> "reserve", job |-> j,
                                                lease |-> rows[j].claims + 1]]
        /\ UNCHANGED <<opened, spending, scheduling, clock, faults>>

lease_definitions(w) == claim(w, "terms", swept)
lease_translation(w) == "text" \in Kinds /\ claim(w, "text", interrupted)

Mine(w) == jobs[task[w].job]
Goto(w, pc) == task' = [task EXCEPT ![w].pc = pc]
Quit(w) == task' = [task EXCEPT ![w] = Idle]

\* The row still carries the claim's lease; reserve looks it up by nothing else.
leased(w) == Mine(w).lease = task[w].lease

fenced(w) == leased(w) /\ ~Mine(w).expired /\ Mine(w).status = "generating"

\* The final UPDATE of a job: a claim that was lost changes nothing.
closed(w, status) ==
    /\ jobs' = IF fenced(w) THEN [jobs EXCEPT ![task[w].job].status = status,
                                              ![task[w].job].lease = 0] ELSE jobs
    /\ Quit(w)

complete_definitions(w, status) == Mine(w).kind = "terms" /\ closed(w, status)
complete_translation(w, status) == Mine(w).kind = "text" /\ closed(w, status)

\* defer_terms: until tomorrow, or until the peak is over.
defer_terms(w, atPeak) ==
    /\ jobs' = IF fenced(w)
               THEN [jobs EXCEPT ![task[w].job].status = "queued", ![task[w].job].lease = 0,
                                 ![task[w].job].until = IF atPeak THEN 0 ELSE day + 1,
                                 ![task[w].job].offpeak = atPeak /\ peak]
               ELSE jobs
    /\ Quit(w)

\* What budget::reserve answers to a claim.
verdict(w) ==
    LET automatic == leased(w) /\ Mine(w).kind = "terms" /\ Mine(w).automatic IN
    IF automatic /\ superseded(jobs, task[w].job) THEN "duplicate"
    ELSE IF automatic /\ peak THEN "paused"
    ELSE IF automatic /\ excluded THEN "refused"
    ELSE IF Cardinality({s \in spending : s.day = day}) >= Limit THEN "over"
    ELSE "asked"

\* The reservation is filed under the lease, or refused.  The policy or the key
\* may have refused before.
reserve(w) ==
    /\ task[w].pc = "reserve"
    /\ \/ /\ Goto(w, verdict(w))
          /\ spending' = IF verdict(w) # "asked" THEN spending
                         ELSE spending \cup {[job |-> task[w].job, lease |-> task[w].lease,
                                              day |-> day, automatic |-> Mine(w).automatic]}
       \/ Goto(w, "refused") /\ UNCHANGED spending
    /\ UNCHANGED <<jobs, opened, scheduling, clock, faults>>

\* The provider answers or fails.  The raw reply is kept whatever became of the
\* claim, but never over another one.
retain_reply(w) ==
    /\ task[w].pc = "asked"
    /\ \/ /\ Mine(w).reply \in {0, task[w].lease}
          /\ jobs' = [jobs EXCEPT ![task[w].job].reply = task[w].lease]
          /\ Goto(w, "replied")
       \/ Goto(w, "refused") /\ UNCHANGED jobs
    /\ UNCHANGED <<opened, spending, scheduling, clock, faults>>

\* The end of define_once, by what became of the request.
define_once(w) ==
    /\ \/ task[w].pc = "duplicate" /\ complete_definitions(w, "cancelled")
       \/ task[w].pc = "paused" /\ defer_terms(w, TRUE)
       \/ task[w].pc = "over" /\ Mine(w).kind = "terms" /\ defer_terms(w, FALSE)
       \/ task[w].pc = "refused" /\ complete_definitions(w, "failed")
       \/ /\ task[w].pc = "replied"
          /\ \E status \in {"completed", "failed"} : complete_definitions(w, status)
    /\ UNCHANGED <<opened, spending, scheduling, clock, faults>>

\* The end of translate_once: nothing is put off.
translate_once(w) ==
    /\ \/ task[w].pc \in {"over", "refused"} /\ complete_translation(w, "failed")
       \/ /\ task[w].pc = "replied"
          /\ \E status \in {"completed", "failed"} : complete_translation(w, status)
    /\ UNCHANGED <<opened, spending, scheduling, clock, faults>>

Held(j) == \E w \in Workers : /\ task[w] # Idle
                              /\ task[w].job = j /\ task[w].lease = jobs[j].lease

\* A lease runs out: always when its worker is gone, sometimes before it ends.
LeaseExpires(j) ==
    /\ jobs[j].lease # 0 /\ ~jobs[j].expired
    /\ IF Held(j) THEN faults < Faults /\ faults' = faults + 1 ELSE UNCHANGED faults
    /\ jobs' = [jobs EXCEPT ![j].expired = TRUE]
    /\ UNCHANGED <<opened, spending, task, scheduling, clock>>

Crash(w) == /\ task[w] # Idle
            /\ Quit(w)
            /\ faults < Faults /\ faults' = faults + 1
            /\ UNCHANGED <<jobs, opened, spending, scheduling, clock>>

Revise == /\ revision < MaxRevision /\ revision' = revision + 1
          /\ UNCHANGED <<jobs, opened, spending, task, peak, excluded, rejected, scheduling, day, faults>>

\* Peak hours begin or end; the jobs put off until then are due.
Peak == /\ peak' = ~peak
        /\ jobs' = [j \in DOMAIN jobs |-> [jobs[j] EXCEPT !.offpeak = @ /\ ~peak]]
        /\ UNCHANGED <<opened, revision, spending, task, excluded, rejected, scheduling, day, faults>>

Exclude == /\ excluded' = ~excluded
           /\ UNCHANGED <<jobs, opened, revision, spending, task, peak, rejected, scheduling, day, faults>>

Midnight == /\ day < MaxDay /\ day' = day + 1
            /\ UNCHANGED <<jobs, opened, revision, spending, task, peak, excluded, rejected, scheduling, faults>>

-----------------------------------------------------------------------------
\* A new article, or one with automatic jobs of before the rule of one attempt
\* was installed (schema/terms_once.sql): two queued, or one that failed after
\* it was paid and one queued for a later revision.
Init ==
    /\ \/ jobs = <<>> /\ spending = {}
       \/ /\ jobs = <<Job("terms", 1, TRUE), Job("terms", 1, TRUE)>>
          /\ spending = {}
       \/ /\ jobs = <<[Job("terms", 1, TRUE) EXCEPT !.status = "failed", !.claims = 1],
                     Job("terms", 1, TRUE)>>
          /\ spending = {[job |-> 1, lease |-> 1, day |-> 1, automatic |-> TRUE]}
    /\ opened = <<>> /\ revision = 1
    /\ task = [w \in Workers |-> Idle]
    /\ peak = FALSE /\ excluded = FALSE /\ rejected = FALSE /\ scheduling = FALSE /\ day = 1 /\ faults = 0

Work(w) == \/ lease_definitions(w) \/ lease_translation(w) \/ reserve(w) \/ retain_reply(w)
           \/ task[w] # Idle /\ (define_once(w) \/ translate_once(w))

Next == \/ \E op \in Ops, r \in BOOLEAN : define(op, r)
        \/ next_terms
        \/ \E op \in Ops : schedule_once(op)
        \/ "text" \in Kinds /\ \E op \in Ops : translate(op)
        \/ \E w \in Workers : Work(w) \/ Crash(w)
        \/ \E j \in DOMAIN jobs : LeaseExpires(j)
        \/ Revise \/ Peak \/ Exclude \/ Midnight

Spec == Init /\ [][Next]_vars

-----------------------------------------------------------------------------
(* Properties.                                                             *)

\* A job is paid for at most once: a claim that expired with its request sent
\* is failed by recovery, never put back in the queue.
JobPaidOnce == \A s, t \in spending : s.job = t.job => s = t

\* Two clicks, tabs or repeated requests never have the same input asked
\* twice at the same time (the cache lookups under the advisory locks).  The
\* automatic duplicates of before the upgrade are the exception.
SameInputOnce ==
    \A i, j \in DOMAIN jobs :
        /\ jobs[i].kind = jobs[j].kind /\ jobs[i].input = jobs[j].input
        /\ ~jobs[i].automatic /\ ~jobs[j].automatic
        /\ jobs[i].status \in {"queued", "generating"}
        /\ jobs[j].status \in {"queued", "generating"}
        => i = j

\* Automatic work asks for the terms of an article once per prompt version,
\* whatever is claimed, deferred, expired or left over from before.
AutomaticOnce == Cardinality({s \in spending : s.automatic}) <= 1

=============================================================================
