---------------------------- MODULE ArchiveRules ----------------------------
(***************************************************************************)
(* "Apply to existing": a rule version is applied to the articles already  *)
(* in a workspace, in batches.  Every batch is a durable job that leaves   *)
(* the job of the next one in its own transaction.                         *)
(* Article identifiers are numbers in the order of the article keys; a     *)
(* rule looks at title and text, and every article matches one or other.   *)
(***************************************************************************)
EXTENDS Integers, FiniteSets, FiniteSetsExt

CONSTANTS
    Ids,          \* article identifiers, 1..n
    Foreign,      \* the ones not delivered through the subscription of the rule
    Textual,      \* the ones whose title does not match
    Versions,     \* versions a rule can reach, 1..n
    Appliers,     \* workers
    Limit,        \* articles of a batch
    Attempts,     \* attempts of a job
    MaxLosses     \* leases lost

VARIABLES
    here,       \* articles delivered to the workspace
    text,       \* articles whose full text is there
    rule,       \* its version (0 once deleted) and whether it is enabled
    jobs,       \* jobs by identity: version and the article after which they begin
    applier,    \* the job each worker runs and how far it is
    evaluated,  \* rule_evaluations: article and version
    asked,      \* ghost: articles there were when a version was first applied
    losses

uvars == <<here, text, rule, jobs, applier, evaluated, asked, losses>>

None == 0

Keys == Versions \X (Ids \cup {None})

NoJob == [status |-> "none", through |-> None, attempt |-> 0, holder |-> None]

Idle == [key |-> <<0, 0>>, stage |-> "idle"]

Init ==
    /\ here = {} /\ text = {}
    /\ rule = [version |-> 1, enabled |-> TRUE]
    /\ jobs = [k \in Keys |-> NoJob]
    /\ applier = [w \in Appliers |-> Idle]
    /\ evaluated = {} 
    /\ asked = [v \in Versions |-> {}]
    /\ losses = 0

last_of(S) == IF S = {} THEN None ELSE Max(S)

\* An article is delivered; its full text may follow.
deliver(i) ==
    /\ i \notin here
    /\ here' = here \cup {i}
    /\ UNCHANGED <<text, rule, jobs, applier, evaluated, asked, losses>>

extract(i) ==
    /\ i \in (here \cap Textual) \ text
    /\ text' = text \cup {i}
    /\ UNCHANGED <<here, rule, jobs, applier, evaluated, asked, losses>>

\* Edited, switched on or off: a new version.
update_rule(enabled) ==
    /\ rule.version # None /\ rule.version + 1 \in Versions
    /\ rule' = [version |-> rule.version + 1, enabled |-> enabled]
    /\ UNCHANGED <<here, text, jobs, applier, evaluated, asked, losses>>

delete_rule ==
    /\ rule.version # None
    /\ rule' = [version |-> None, enabled |-> FALSE]
    /\ UNCHANGED <<here, text, jobs, applier, evaluated, asked, losses>>

\* A job is new, or the same again; another one under its identity is an error.
enqueued(key, through) ==
    IF jobs[key].status = "none"
    THEN [jobs EXCEPT ![key] = [NoJob EXCEPT !.status = "ready", !.through = through]]
    ELSE jobs

collides(key, through) == jobs[key].status # "none" /\ jobs[key].through # through

\* The command: the boundary is the last article there is now.  Given again for
\* the same version and boundary it is accepted and starts nothing.
enqueue_rule_application ==
    LET v == rule.version
        through == last_of(here)
    IN  /\ v # None
        /\ ~ collides(<<v, None>>, through)
        /\ jobs' = enqueued(<<v, None>>, through)
        /\ asked' = IF jobs[<<v, None>>].status = "none"
                    THEN [asked EXCEPT ![v] = here] ELSE asked
        /\ UNCHANGED <<here, text, rule, applier, evaluated, losses>>

lease_next(w, key) ==
    /\ applier[w] = Idle /\ jobs[key].status = "ready"
    /\ jobs' = [jobs EXCEPT ![key].status = "leased", ![key].holder = w]
    /\ applier' = [applier EXCEPT ![w] = [key |-> key, stage |-> "batch"]]
    /\ UNCHANGED <<here, text, rule, evaluated, asked, losses>>

assert_lease(w) ==
    LET job == jobs[applier[w].key]
    IN  job.status = "leased" /\ job.holder = w

\* The lease runs out while its worker still works, or has gone.
lose_lease(w) ==
    /\ applier[w] # Idle /\ assert_lease(w) /\ losses < MaxLosses
    /\ losses' = losses + 1
    /\ jobs' = [jobs EXCEPT ![applier[w].key].status = "ready"]
    /\ UNCHANGED <<here, text, rule, applier, evaluated, asked>>

\* The rule is read under lock: gone, disabled or edited, nothing is done.
applicable(v) == rule.version = v /\ rule.enabled

through_of(key) == IF jobs[key].through # None THEN jobs[key].through ELSE last_of(here)

rows(key) == {i \in here : i > key[2] /\ i <= through_of(key)}

batch(key) == {i \in rows(key) : Cardinality({j \in rows(key) : j < i}) < Limit}

\* ensure_rule_content: without its text the article cannot be judged.
awaits_text(i) == i \in Textual \ text

\* A full batch that reached the boundary's neighbour is taken for the last.
continues_short(key) == Cardinality(rows(key)) > Limit + 1

\* A full batch that has not reached the boundary leaves the next job.
continues(key) ==
    /\ Cardinality(batch(key)) = Limit
    /\ last_of(batch(key)) # through_of(key)

next_key(key) == <<key[1], last_of(batch(key))>>

\* One transaction: every article of the batch is evaluated and the next job left.
apply_rule_batch(w) ==
    LET key == applier[w].key
    IN  /\ applier[w].stage = "batch" /\ assert_lease(w)
        /\ applicable(key[1])
        /\ \A i \in batch(key) : ~ awaits_text(i)
        /\ continues(key) => ~ collides(next_key(key), through_of(key))
        /\ evaluated' = evaluated \cup {<<i, key[1]>> : i \in batch(key)}
        /\ jobs' = IF continues(key) THEN enqueued(next_key(key), through_of(key)) ELSE jobs
        /\ applier' = [applier EXCEPT ![w].stage = "complete"]
        /\ UNCHANGED <<here, text, rule, asked, losses>>

\* The rule no longer applies: the job is done with nothing changed.
skip_batch(w) ==
    /\ applier[w].stage = "batch" /\ assert_lease(w)
    /\ ~ applicable(applier[w].key[1])
    /\ applier' = [applier EXCEPT ![w].stage = "complete"]
    /\ UNCHANGED <<here, text, rule, jobs, evaluated, asked, losses>>

\* An article without text, or a collision, undoes the batch: later, or never.
fail_batch(w) ==
    LET key == applier[w].key
        tried == jobs[key].attempt + 1
    IN  /\ applier[w].stage = "batch" /\ assert_lease(w)
        /\ applicable(key[1])
        /\ \/ \E i \in batch(key) : awaits_text(i)
           \/ continues(key) /\ collides(next_key(key), through_of(key))
        /\ jobs' = [jobs EXCEPT ![key].attempt = tried,
               ![key].status = IF tried >= Attempts THEN "failed" ELSE "ready"]
        /\ applier' = [applier EXCEPT ![w] = Idle]
        /\ UNCHANGED <<here, text, rule, evaluated, asked, losses>>

complete(w) ==
    /\ applier[w].stage = "complete"
    /\ jobs' = IF assert_lease(w)
               THEN [jobs EXCEPT ![applier[w].key].status = "completed"] ELSE jobs
    /\ applier' = [applier EXCEPT ![w] = Idle]
    /\ UNCHANGED <<here, text, rule, evaluated, asked, losses>>

\* The worker learns that its lease is gone, or is restarted.
forget(w) ==
    /\ applier[w].stage = "batch" /\ ~ assert_lease(w)
    /\ applier' = [applier EXCEPT ![w] = Idle]
    /\ UNCHANGED <<here, text, rule, jobs, evaluated, asked, losses>>

\* What the status request answers for the application of version v.
rule_application_progress(v) ==
    LET statuses == {jobs[k].status : k \in {k \in Keys : k[1] = v}}
    IN  CASE rule.version # v \/ ~ rule.enabled -> "cancelled"
          [] "failed" \in statuses -> "failed"
          [] statuses \cap {"ready", "leased"} # {} -> "running"
          [] OTHER -> "completed"

Next ==
    \/ \E i \in Ids : deliver(i) \/ extract(i)
    \/ \E enabled \in BOOLEAN : update_rule(enabled)
    \/ delete_rule \/ enqueue_rule_application
    \/ \E w \in Appliers :
          \/ \E key \in Keys : lease_next(w, key)
          \/ lose_lease(w) \/ apply_rule_batch(w) \/ skip_batch(w) \/ fail_batch(w)
          \/ complete(w) \/ forget(w)

Spec == Init /\ [][Next]_uvars

\* An application that is reported as completed has evaluated every article it
\* was asked to cover, across batches, lost leases, repeated batches and articles
\* that arrive below the cursor meanwhile.
CompletedMeansAll ==
    \A v \in Versions :
        (jobs[<<v, None>>].status # "none" /\ rule_application_progress(v) = "completed")
            => \A i \in asked[v] : <<i, v>> \in evaluated

\* Editing, switching off or deleting the rule ends what remains of a running
\* application: afterwards no batch evaluates an article for the former version.
EditEndsApplication ==
    \A e \in evaluated' \ evaluated : rule.enabled /\ rule.version = e[2]

\* A rule belongs to one subscription: applying it to the archive marks only
\* articles delivered through that subscription.
ScopeHeld == \A e \in evaluated : e[1] \notin Foreign

=============================================================================
