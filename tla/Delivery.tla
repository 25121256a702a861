------------------------------ MODULE Delivery ------------------------------
(***************************************************************************)
(* Delivery of stored source records into the library of one workspace:   *)
(* the fan-out jobs of crates/reader-ingest/src/engine/mod.rs, the         *)
(* delivery transaction of ingest_store/delivery.rs with its exact         *)
(* deduplication and regrouping, the rule evaluations a delivery queues    *)
(* (ingest_store/rules.rs), and the commands that race with them: pausing  *)
(* and resuming subscriptions, archiving the workspace, editing rules and  *)
(* the reader's own decisions about an article.                            *)
(*                                                                         *)
(* A delivery is one database transaction that holds the workspace row, so *)
(* deliveries into one workspace are serial and workspaces do not share    *)
(* state: one workspace is modelled.  The lease of a fan-out job is the    *)
(* one of JobQueue; here a job has at most one run, and a run may stop at  *)
(* any point (crash or lost lease) and be repeated from the beginning.     *)
(* A deduplication key (location, title, description) is a value of Keys.  *)
(***************************************************************************)
EXTENDS Naturals, Sequences, FiniteSets

CONSTANTS
    Records,        \* source records
    Sources,        \* sources
    SourceOf,       \* [Records -> Sources]
    Keys,           \* deduplication keys
    Subs,           \* subscriptions of the workspace, ordered by id
    LinkOf,         \* [Subs -> Sources], the subscription_sources row
    ArticleIds,     \* article ids, in the order of their text
    Workers,        \* fan-out workers
    Old,            \* records published before the automatic-read age
    Matching,       \* keys whose title a rule's phrase matches
    Batch,          \* limits.fanout_batch
    Newest,         \* [Records -> Nat], the order of ai_record_discovery: newest first
    InitialScope,   \* records of a source that a resumed subscription catches up with
    MaxRevision,    \* bound: [Records -> Nat], revisions of each record
    MaxToggles,     \* bound: pauses, resumes, archivings, removals
    MaxRuleVersion, \* bound: versions of one subscription's rule
    Commands,       \* bound: which of the reader's commands are used
    None

VARIABLES
    record,     \* source_records: revision (0: not stored yet) and key
    status,     \* subscriptions: "active", "stopped" (paused or archived), "removed"
    accepting,  \* the workspace is not archived
    toggles,    \* number of status changes so far
    ready,      \* fan-out jobs waiting for a worker
    ended,      \* fan-out jobs completed or failed
    failed,     \* the failed ones
    run,        \* what each fan-out worker is doing
    articles,   \* articles: the row of each article id, or None
    dedup,      \* library_dedup: the article of each key, or None
    links,      \* library_origins rows
    rules,      \* version of each subscription's enabled rule (0: none)
    rule_jobs,  \* EvaluateArticleRules jobs: id, rule version and open or not
    owed        \* history: records a subscription is to receive (see Delivered)

vars == <<record, status, accepting, toggles, ready, ended, failed, run,
          articles, dedup, links, rules, rule_jobs, owed>>

library == <<articles, dedup, links, rule_jobs>>
subscriptions == <<status, accepting, toggles, owed>>

-----------------------------------------------------------------------------
(* Job identities.  A fan-out job is named after the record revision or    *)
(* the resumed subscription that caused it, a continuation after its       *)
(* parent and the last subscription served.                                *)

record_job(r, n) == [cause |-> "record", of |-> n, record |-> r, path |-> <<>>]

backfill_job(s, r) == [cause |-> "backfill", of |-> s, record |-> r, path |-> <<>>]

continuation(j, s) == [j EXCEPT !.path = Append(@, s)]

after_subscription(j) == IF j.path = <<>> THEN 0 ELSE j.path[Len(j.path)]

\* A job id already present keeps its row, whatever its status.
known == ready \cup ended \cup {run[w].job : w \in {v \in Workers : run[v] # None}}

enqueue_work(js) == ready' = ready \cup (js \ known)

-----------------------------------------------------------------------------
Active(s) == status[s] = "active" /\ accepting

\* subscription_sources rows of the record's source; removal deletes the row.
LinkedSubs(r) == {s \in Subs : status[s] # "removed" /\ LinkOf[s] = SourceOf[r]}

Least(S) == CHOOSE x \in S : \A y \in S : x <= y

\* The first n elements of S in id order.
FirstOf(S, n) == {x \in S : Cardinality({y \in S : y < x}) < n}

Rows(r) == {l \in links : l.record = r}

\* Mutant: one read article makes the merged article read.
merge_any_read(S) == [read    |-> \E a \in S : articles[a].read,
                      later   |-> \E a \in S : articles[a].later,
                      protect |-> \E a \in S : articles[a].protect]

\* ArticleState::merge.
merge(S) == [read    |-> \A a \in S : articles[a].read,
             later   |-> \E a \in S : articles[a].later,
             protect |-> \E a \in S : articles[a].protect]

Article(k, o, st) == [key |-> k, origins |-> o, read |-> st.read,
                      later |-> st.later, protect |-> st.protect]

Init ==
    /\ record = [r \in Records |-> [revision |-> 0, key |-> None]]
    /\ status = [s \in Subs |-> "active"]
    /\ accepting = TRUE
    /\ toggles = 0
    /\ ready = {} /\ ended = {} /\ failed = {}
    /\ run = [w \in Workers |-> None]
    /\ articles = [a \in ArticleIds |-> None]
    /\ dedup = [k \in Keys |-> None]
    /\ links = {}
    /\ rules = [s \in Subs |-> 0]
    /\ rule_jobs = {}
    /\ owed = {}

-----------------------------------------------------------------------------
(* The poll side: a committed poll stores a new record or a revision of it *)
(* and queues its fan-out, unless the revision only refreshes content.     *)

\* The effect of a revision: a changed key (or description media type, not
\* part of the key) regroups, anything else only refreshes the content.
fans_out(r, k, media) == record[r].revision = 0 \/ record[r].key # k \/ media

commit_poll(r, k, media) ==
    /\ record[r].revision < MaxRevision[r]
    /\ record' = [record EXCEPT ![r] = [revision |-> @.revision + 1, key |-> k]]
    /\ IF fans_out(r, k, media)
         THEN /\ enqueue_work({record_job(r, record[r].revision + 1)})
              /\ owed' = owed \cup ({s \in LinkedSubs(r) : Active(s)} \X {r})
         ELSE UNCHANGED <<ready, owed>>
    /\ UNCHANGED <<status, accepting, toggles, ended, failed, run, library, rules>>

-----------------------------------------------------------------------------
(* One run of a fan-out job.                                               *)

\* The worker leases the job and reads the record once for the whole run.
fanout(w, j) ==
    /\ run[w] = None
    /\ j \in ready
    /\ run' = [run EXCEPT ![w] = [job |-> j, phase |-> "targets",
                                  revision |-> record[j.record].revision,
                                  key |-> record[j.record].key,
                                  todo |-> {}, last |-> 0]]
    /\ ready' = ready \ {j}
    /\ UNCHANGED <<record, subscriptions, ended, failed, library, rules>>

Running(w, phase) == run[w] # None /\ run[w].phase = phase

targets_of(j) ==
    {s \in FirstOf({s \in LinkedSubs(j.record) : s > after_subscription(j)}, Batch) : Active(s)}

delivery_targets(w) ==
    /\ Running(w, "targets")
    /\ run' = [run EXCEPT ![w].phase = "deliver", ![w].todo = targets_of(run[w].job)]
    /\ UNCHANGED <<record, subscriptions, ready, ended, failed, library, rules>>

Served(w, s) == [run EXCEPT ![w].todo = @ \ {s}, ![w].last = s]

\* The subscription and workspace rows, locked and read again.
deliverable(s) == Active(s)

\* The target was paused, archived or removed since the targets were read.
SkippedInactive(w) ==
    /\ Running(w, "deliver")
    /\ run[w].todo # {}
    /\ LET s == Least(run[w].todo) IN
         /\ ~deliverable(s)
         /\ run' = Served(w, s)
    /\ UNCHANGED <<record, subscriptions, ready, ended, failed, library, rules>>

\* Articles the record sits in under a key that is no longer its own.
moved_articles(r, k) == {l.article : l \in {x \in Rows(r) : articles[x.article].key # k}}

emptied(r, k) == {a \in moved_articles(r, k) : articles[a].origins = {r}}

moved_subscriptions(r, k) == {l.sub : l \in {x \in Rows(r) : x.article \in moved_articles(r, k)}}

\* An id no row and no queued evaluation mentions stands for a new one.
proposed_article_id ==
    Least({a \in ArticleIds : articles[a] = None /\ \A e \in rule_jobs : e.article # a})

\* The article the record is delivered to: the one with its key, else the
\* first article it leaves empty, else a new one.
destination(r, k) ==
    IF dedup[k] # None THEN dedup[k]
    ELSE IF emptied(r, k) # {} THEN Least(emptied(r, k))
    ELSE proposed_article_id

merged_from(r, k) == moved_articles(r, k) \cup (IF dedup[k] # None THEN {dedup[k]} ELSE {})

\* Only a first insertion applies the automatic-read age.
delivered_state(r, k) ==
    IF merged_from(r, k) = {}
      THEN [read |-> r \in Old, later |-> FALSE, protect |-> FALSE]
      ELSE merge(merged_from(r, k))

\* The rule evaluations a delivery of revision n queues, one per subscription.
rule_evaluations(a, subs, r, n) ==
    {[article |-> a, sub |-> s, record |-> r, revision |-> n,
      version |-> rules[s], open |-> TRUE] : s \in {x \in subs : rules[x] > 0}}

SameId(e, f) == /\ e.article = f.article /\ e.sub = f.sub
                /\ e.record = f.record /\ e.revision = f.revision

\* A job id is taken by a different item.
conflicts(es) == \E e \in es, f \in rule_jobs : SameId(e, f) /\ e.version # f.version

\* The library disagrees with its own index.
broken(r, k) ==
    \/ \E l \in Rows(r) : articles[l.article] = None
    \/ dedup[k] # None /\ (articles[dedup[k]] = None \/ articles[dedup[k]].key # k)

\* Mutant: the index entry of a deleted article stays.
indexed_forever(r, k, a) == [dedup EXCEPT ![k] = a]

\* library_dedup after the delivery to article a.
indexed(r, k, a) ==
    [x \in Keys |-> IF x = k THEN a
                    ELSE IF dedup[x] \in emptied(r, k) THEN None ELSE dedup[x]]

kept_links(r, k) == {l \in links : ~(l.record = r /\ l.article \in moved_articles(r, k))}

\* The committed transaction: regroup, merge, link, queue rule evaluations.
deliver(w) ==
    /\ Running(w, "deliver")
    /\ run[w].todo # {}
    /\ LET s      == Least(run[w].todo)
           r      == run[w].job.record
           k      == run[w].key
           a      == destination(r, k)
           linked == moved_subscriptions(r, k) \cup {s}
           held   == IF dedup[k] # None THEN articles[a].origins ELSE {}
           evals  == rule_evaluations(a, linked, r, run[w].revision)
       IN /\ deliverable(s)
          /\ ~broken(r, k)
          /\ ~conflicts(evals)
          /\ articles' = [b \in ArticleIds |->
                CASE b = a -> Article(k, held \cup {r}, delivered_state(r, k))
                  [] b # a /\ b \in emptied(r, k) -> None
                  [] b # a /\ b \in moved_articles(r, k) \ emptied(r, k) ->
                       [articles[b] EXCEPT !.origins = @ \ {r}]
                  [] OTHER -> articles[b]]
          /\ dedup' = indexed(r, k, a)
          /\ links' = kept_links(r, k) \cup {[article |-> a, sub |-> x, record |-> r] : x \in linked}
          /\ rule_jobs' = rule_jobs \cup {e \in evals : \A f \in rule_jobs : ~SameId(e, f)}
          /\ run' = Served(w, s)
    /\ UNCHANGED <<record, subscriptions, ready, ended, failed, rules>>

\* The transaction is rolled back and the run ends with an error.
deliver_refused(w) ==
    /\ Running(w, "deliver")
    /\ run[w].todo # {}
    /\ LET s     == Least(run[w].todo)
           r     == run[w].job.record
           k     == run[w].key
           evals == rule_evaluations(destination(r, k), moved_subscriptions(r, k) \cup {s},
                                     r, run[w].revision)
       IN deliverable(s) /\ (broken(r, k) \/ conflicts(evals))
    /\ run' = [run EXCEPT ![w].phase = "error"]
    /\ UNCHANGED <<record, subscriptions, ready, ended, failed, library, rules>>

\* Every target served: the continuation starts after the last one.
advance_fanout(w) ==
    /\ Running(w, "deliver")
    /\ run[w].todo = {}
    /\ run[w].last # 0
    /\ enqueue_work({continuation(run[w].job, run[w].last)})
    /\ run' = [run EXCEPT ![w].phase = "complete"]
    /\ UNCHANGED <<record, subscriptions, ended, failed, library, rules>>

\* The handler returned; a batch without targets queues no continuation.
complete(w) ==
    /\ \/ Running(w, "complete")
       \/ Running(w, "deliver") /\ run[w].todo = {} /\ run[w].last = 0
    /\ ended' = ended \cup {run[w].job}
    /\ run' = [run EXCEPT ![w] = None]
    /\ UNCHANGED <<record, subscriptions, ready, failed, library, rules>>

\* An error is retried until the queue gives the job up (JobQueue).
retry(w) ==
    /\ Running(w, "error")
    /\ ready' = ready \cup {run[w].job}
    /\ run' = [run EXCEPT ![w] = None]
    /\ UNCHANGED <<record, subscriptions, ended, failed, library, rules>>

fail(w) ==
    /\ Running(w, "error")
    /\ ended' = ended \cup {run[w].job}
    /\ failed' = failed \cup {run[w].job}
    /\ run' = [run EXCEPT ![w] = None]
    /\ UNCHANGED <<record, subscriptions, ready, library, rules>>

\* The process stops or loses its lease; another worker repeats the job.
LoseLease(w) ==
    /\ run[w] # None
    /\ run[w].phase # "error"
    /\ ready' = ready \cup {run[w].job}
    /\ run' = [run EXCEPT ![w] = None]
    /\ UNCHANGED <<record, subscriptions, ended, failed, library, rules>>

-----------------------------------------------------------------------------
(* Rules.                                                                  *)

\* Creating or editing a rule gives it the next version.
save_rule(s) ==
    /\ status[s] # "removed"
    /\ rules[s] < MaxRuleVersion
    /\ rules' = [rules EXCEPT ![s] = @ + 1]
    /\ UNCHANGED <<record, subscriptions, ready, ended, failed, run, library>>

\* Rule::apply after PendingRuleEvaluation::still_valid_for and matches.
marks_read(e) ==
    /\ e.version = rules[e.sub]
    /\ articles[e.article].key \in Matching
    /\ ~articles[e.article].protect

evaluate_article_rules(e) ==
    /\ e \in rule_jobs
    /\ e.open
    /\ articles' = IF articles[e.article] # None /\ marks_read(e)
                     THEN [articles EXCEPT ![e.article].read = TRUE]
                     ELSE articles
    /\ rule_jobs' = (rule_jobs \ {e}) \cup {[e EXCEPT !.open = FALSE]}
    /\ UNCHANGED <<record, subscriptions, ready, ended, failed, run, dedup, links, rules>>

-----------------------------------------------------------------------------
(* The reader's commands.                                                  *)

\* update_article with a read patch; marking unread protects the article.
patch_read(a, b) ==
    /\ "read" \in Commands
    /\ articles[a] # None
    /\ articles' = [articles EXCEPT ![a].read = b, ![a].protect = @ \/ ~b]
    /\ UNCHANGED <<record, subscriptions, ready, ended, failed, run, dedup, links, rules, rule_jobs>>

patch_later(a, b) ==
    /\ "later" \in Commands
    /\ articles[a] # None
    /\ articles' = [articles EXCEPT ![a].later = b]
    /\ UNCHANGED <<record, subscriptions, ready, ended, failed, run, dedup, links, rules, rule_jobs>>

Toggle == toggles < MaxToggles /\ toggles' = toggles + 1

\* Pause or archive a subscription.
suspend(s) ==
    /\ status[s] = "active"
    /\ Toggle
    /\ status' = [status EXCEPT ![s] = "stopped"]
    /\ owed' = {o \in owed : o[1] # s}
    /\ UNCHANGED <<record, accepting, ready, ended, failed, run, library, rules>>

\* The newest stored records of the subscription's source.
initial_records(s) ==
    LET stored == {r \in Records : record[r].revision > 0 /\ SourceOf[r] = LinkOf[s]} IN
    {r \in stored : Cardinality({q \in stored : Newest[q] < Newest[r]}) < InitialScope}

\* Mutant: resuming queues no catch-up.
backfill_none(ss) == {}

\* enqueue_backfill_tx: the newest stored records of each source, one job each.
backfill(ss) == UNION {{backfill_job(s, r) : r \in initial_records(s)} : s \in ss}

\* A resumed subscription is owed those records, except the ones it was already
\* caught up with: their job has begun and keeps its identity.
caught_up(ss) ==
    owed \cup UNION {{<<s, r>> : r \in {q \in initial_records(s) :
                          backfill_job(s, q) \notin known \ ready}} : s \in ss}

\* Resume a paused or restore an archived subscription, with its catch-up;
\* the command is accepted, and catches up, for an active one as well.
activate(s) ==
    /\ status[s] # "removed"
    /\ accepting
    /\ Toggle
    /\ status' = [status EXCEPT ![s] = "active"]
    /\ enqueue_work(backfill({s}))
    /\ owed' = caught_up({s})
    /\ UNCHANGED <<record, accepting, ended, failed, run, library, rules>>

delete_subscription(s) ==
    /\ status[s] # "removed"
    /\ Toggle
    /\ status' = [status EXCEPT ![s] = "removed"]
    /\ owed' = {o \in owed : o[1] # s}
    /\ UNCHANGED <<record, accepting, ready, ended, failed, run, library, rules>>

archive_workspace ==
    /\ accepting
    /\ Toggle
    /\ accepting' = FALSE
    /\ owed' = {}
    /\ UNCHANGED <<record, status, ready, ended, failed, run, library, rules>>

restore_workspace ==
    /\ Toggle
    /\ accepting' = TRUE
    /\ enqueue_work(backfill({s \in Subs : status[s] = "active"}))
    /\ owed' = caught_up({s \in Subs : status[s] = "active"})
    /\ UNCHANGED <<record, status, ended, failed, run, library, rules>>

-----------------------------------------------------------------------------
Patch == \E a \in ArticleIds, b \in BOOLEAN : patch_read(a, b) \/ patch_later(a, b)

Evaluate == \E e \in rule_jobs : evaluate_article_rules(e)

Next ==
    \/ \E r \in Records, k \in Keys, media \in BOOLEAN : commit_poll(r, k, media)
    \/ \E w \in Workers, j \in ready : fanout(w, j)
    \/ \E w \in Workers :
          \/ delivery_targets(w) \/ SkippedInactive(w) \/ deliver(w) \/ deliver_refused(w)
          \/ advance_fanout(w) \/ complete(w) \/ retry(w) \/ fail(w) \/ LoseLease(w)
    \/ \E s \in Subs : save_rule(s) \/ suspend(s) \/ activate(s) \/ delete_subscription(s)
    \/ Evaluate
    \/ Patch
    \/ archive_workspace
    \/ restore_workspace

Spec == Init /\ [][Next]_vars

-----------------------------------------------------------------------------
(* Properties.                                                             *)

\* The articles that list the record among their origins.
Holders(r) == {a \in ArticleIds : articles[a] # None /\ r \in articles[a].origins}

\* The deduplication index and the articles agree in both directions, so a
\* workspace has at most one article per exact key however deliveries of
\* several records and revisions interleave.
DedupExact ==
    /\ \A k \in Keys : dedup[k] # None =>
          articles[dedup[k]] # None /\ articles[dedup[k]].key = k
    /\ \A a \in ArticleIds : articles[a] # None => dedup[articles[a].key] = a

\* The origin list inside an article and the library_origins table are two
\* copies of one relation; a record sits in one article of the workspace, and
\* an article without origins does not remain.
OriginsExact ==
    /\ \A a \in ArticleIds : articles[a] # None =>
          /\ articles[a].origins # {}
          /\ articles[a].origins = {l.record : l \in {x \in links : x.article = a}}
    /\ \A l \in links : articles[l.article] # None
    /\ \A r \in Records : Cardinality(Holders(r)) <= 1

\* The articles whose records make up article b after the step.
Ancestors(b) == UNION {Holders(r) : r \in articles'[b].origins}

\* Regrouping keeps the reader's decisions wherever splits and merges carry a
\* record: no delivery drops a "read later" mark or a manual unread or marks an
\* unread article read, and articles that were all read never come out unread.
KeepsDecisions ==
    \/ Patch \/ Evaluate
    \/ \A b \in ArticleIds : articles'[b] # None =>
          /\ \A a \in Ancestors(b) :
                /\ articles[a].later => articles'[b].later
                /\ articles[a].protect => articles'[b].protect
                /\ ~articles[a].read => ~articles'[b].read
          /\ Ancestors(b) # {} /\ (\A a \in Ancestors(b) : articles[a].read) => articles'[b].read

\* A manual unread outlives automation: an article the reader marked unread
\* becomes read again only by the reader's command, whatever rule evaluations,
\* repeated deliveries and regroupings are still queued.
KeepsManualUnread ==
    \/ Patch
    \/ \A b \in ArticleIds : articles'[b] # None =>
          \A a \in Ancestors(b) : articles[a].protect /\ ~articles[a].read => ~articles'[b].read

Received(s) == {l.record : l \in {x \in links : x.sub = s}}

\* Nothing new is delivered through a subscription that is paused, archived or
\* removed, or into an archived workspace, even by a run that read its targets
\* while the subscription was still active.
HoldsPause == \A s \in Subs : Active(s) \/ Received(s)' \subseteq Received(s)

\* Repeating a delivery after a crash is safe: no delivery is ever refused.
NeverRefused == \A w \in Workers : ~Running(w, "error")

Quiet == ready = {} /\ \A w \in Workers : run[w] = None

\* Once every fan-out job has completed, each active subscription has received
\* every record stored for its source.
EveryActiveReached ==
    Quiet /\ failed = {} =>
        \A r \in Records : record[r].revision > 0 =>
            \A s \in LinkedSubs(r) : Active(s) => r \in Received(s)

\* A batch whose subscriptions are all inactive ends the fan-out: what follows
\* it is promised only where the subscriptions fit one batch or none was paused.
NoStall(r) == toggles = 0 \/ Cardinality({s \in Subs : LinkOf[s] = SourceOf[r]}) <= Batch

\* Once every fan-out job has completed, a subscription that has stayed active
\* has received each record it is owed: those collected since, and the newest
\* InitialScope ones it had to catch up with when it was resumed or its
\* workspace restored (a record it had begun to catch up with before is not
\* caught up with again).  When runs do not overlap, the article it shows is the
\* one of the record's latest revision.
Delivered ==
    Quiet /\ failed = {} =>
        \A o \in owed : NoStall(o[2]) =>
            /\ o[2] \in Received(o[1])
            /\ Cardinality(Workers) = 1 =>
                  \A a \in Holders(o[2]) : articles[a].key = record[o[2]].key
=============================================================================
