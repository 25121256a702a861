------------------------------ MODULE Content ------------------------------
(* The full text of one record: ExtractFullText jobs of the ingest worker    *)
(* (engine/mod.rs: fulltext) over ingest_store/content.rs, the snapshot that  *)
(* readers and rules take (content_snapshot.rs) and the search projection.    *)
(* A publication stages its chunks under a fresh refresh id and moves the     *)
(* manifest in one transaction; a cleanup job removes the other generations   *)
(* later.  Jobs of several revisions, manual refreshes and repetitions after  *)
(* a lost lease run at the same time.                                         *)
EXTENDS Naturals, FiniteSets

CONSTANTS Extractors,    \* ingest workers
          MaxRevision,   \* bound: revisions of the record
          MaxClock,      \* bound: clock readings
          MaxRuns        \* bound: extractions started

VARIABLES embedded,      \* the body comes with the record (Telegram, Zhihu)
          record,        \* revision of the record; its body is the body of that revision
          page,          \* version of the page behind the record's URL
          jobs,          \* extraction jobs, by revision of the record
          cleanups,      \* cleanup jobs, by the refresh id they name
          clock,         \* the worker's clock
          manifest,      \* content_manifests
          staged,        \* staged_content_chunks: number of chunks by refresh id
          searched,      \* search_content
          failure,       \* content_refresh_state "failure/<record>"
          task,          \* what each worker fetched
          runs           \* extractions started; also the source of refresh ids

tvars == <<embedded, record, page, jobs, cleanups, clock, manifest, staged, searched, failure, task, runs>>

NoTask == [pc |-> "idle"]
NoManifest == [revision |-> 0, at |-> 0, refresh |-> 0, chunks |-> 0, text |-> 0]

\* commit_poll stores a revision and queues its extraction; a reader may ask
\* for another one (enqueue_article_full_text_refresh).
Revise == /\ record < MaxRevision /\ record' = record + 1
          /\ jobs' = jobs \cup {record + 1}
          /\ UNCHANGED <<embedded, page, cleanups, clock, manifest, staged, searched, failure, task, runs>>

PageChanges == /\ page < MaxRevision /\ page' = page + 1
               /\ UNCHANGED <<embedded, record, jobs, cleanups, clock, manifest, staged, searched, failure, task, runs>>

Tick == /\ clock < MaxClock /\ clock' = clock + 1
        /\ UNCHANGED <<embedded, record, page, jobs, cleanups, manifest, staged, searched, failure, task, runs>>

\* A worker takes an extraction; `now' is the time of the claim.
claim(w) ==
    /\ task[w] = NoTask /\ runs < MaxRuns /\ runs' = runs + 1
    /\ \E job \in jobs :
           task' = [task EXCEPT ![w] = [pc |-> "claimed", job |-> job, at |-> clock, refresh |-> runs + 1]]
    /\ UNCHANGED <<embedded, record, page, jobs, cleanups, clock, manifest, staged, searched, failure>>

\* An embedded body is published only under the revision it belongs to.
embedded_current(job) == record = job

\* The page is fetched, decoded and cut into chunks; each step may fail.
extract(w) ==
    /\ task[w].pc = "claimed"
    /\ \/ /\ embedded => embedded_current(task[w].job)
          /\ \E chunks \in 1..2 :
                 task' = [task EXCEPT ![w] =
                     [pc |-> "publish", job |-> task[w].job, at |-> task[w].at, refresh |-> task[w].refresh,
                      chunks |-> chunks, text |-> IF embedded THEN record ELSE page]]
       \/ task' = [task EXCEPT ![w].pc = "failed"]
    /\ UNCHANGED <<embedded, record, page, jobs, cleanups, clock, manifest, staged, searched, failure, runs>>

\* Mutant: the time of the claim alone decides.
manifest_newer_by_time(current, candidate) == current.at >= candidate.at

manifest_is_current_or_newer(current, candidate) ==
    \/ current.revision > candidate.job
    \/ current.revision = candidate.job /\ current.at >= candidate.at

\* search::projection::publish indexes the text of the safe chunks.
index(text) == searched' = text

\* What a publication commits; the upsert of the manifest asks nothing.
write(c) ==
    /\ staged' = [staged EXCEPT ![c.refresh] = c.chunks]
    /\ manifest' = [revision |-> c.job, at |-> c.at, refresh |-> c.refresh,
                    chunks |-> c.chunks, text |-> c.text]
    /\ index(c.text)
    /\ failure' = FALSE
    /\ cleanups' = cleanups \cup {c.refresh}

\* publish_content over a manifest: FOR UPDATE holds the row from the
\* comparison to the commit, so that the transaction is one step.
publish_content(w) ==
    /\ task[w].pc = "publish" /\ manifest # NoManifest
    /\ IF manifest_is_current_or_newer(manifest, task[w])
       THEN UNCHANGED <<manifest, staged, searched, failure, cleanups>>
       ELSE write(task[w])
    /\ task' = [task EXCEPT ![w] = NoTask]
    /\ UNCHANGED <<embedded, record, page, jobs, clock, runs>>

\* Without a manifest there is no row to lock: the transaction goes on to write
\* its chunks while others do the same.
find_none(w) ==
    /\ task[w].pc = "publish" /\ manifest = NoManifest
    /\ task' = [task EXCEPT ![w].pc = "first"]
    /\ UNCHANGED <<embedded, record, page, jobs, cleanups, clock, manifest, staged, searched, failure, runs>>

\* Its upsert waits for whoever inserted the row meanwhile and replaces it; the
\* comparison is not made again.
publish_first(w) ==
    /\ task[w].pc = "first"
    /\ write(task[w])
    /\ task' = [task EXCEPT ![w] = NoTask]
    /\ UNCHANGED <<embedded, record, page, jobs, clock, runs>>

\* record_refresh_failure: the failure is shown and the text stays.
record_refresh_failure(w) ==
    /\ task[w].pc = "failed"
    /\ failure' = TRUE
    /\ task' = [task EXCEPT ![w] = NoTask]
    /\ UNCHANGED <<embedded, record, page, jobs, cleanups, clock, manifest, staged, searched, runs>>

\* A lost lease refuses either transaction (assert_lease); a crash or an error
\* rolls it back.
StaleLease(w) == /\ task[w] # NoTask
                 /\ task' = [task EXCEPT ![w] = NoTask]
                 /\ UNCHANGED <<embedded, record, page, jobs, cleanups, clock, manifest, staged, searched, failure, runs>>

\* Mutant: the generation named by the job is kept.
kept_generation_requested(keep) == keep

\* The generation that stays is the published one, not the one of the job.
kept_generation(keep) == manifest.refresh

\* cleanup_content
cleanup_content(keep) ==
    /\ staged' = [r \in DOMAIN staged |-> IF r = kept_generation(keep) THEN staged[r] ELSE 0]
    /\ UNCHANGED <<embedded, record, page, jobs, cleanups, clock, manifest, searched, failure, task, runs>>

\* content_snapshot::decode: the manifest and the chunks of its generation agree.
decode == staged[manifest.refresh] = manifest.chunks

Init == /\ embedded \in BOOLEAN /\ record = 1 /\ page = 1 /\ jobs = {1} /\ cleanups = {} /\ clock = 1
        /\ manifest = NoManifest /\ staged = [r \in 1..MaxRuns |-> 0] /\ searched = 0
        /\ failure = FALSE /\ task = [w \in Extractors |-> NoTask] /\ runs = 0

Publish(w) == publish_content(w) \/ find_none(w) \/ publish_first(w)
Extract(w) == claim(w) \/ extract(w) \/ Publish(w) \/ record_refresh_failure(w) \/ StaleLease(w)
Next == \/ \E w \in Extractors : Extract(w)
        \/ \E keep \in cleanups : cleanup_content(keep)
        \/ Revise \/ PageChanges \/ Tick

Spec == Init /\ [][Next]_tvars

-----------------------------------------------------------------------------
(* Properties.                                                             *)

\* Every snapshot a reader, a rule or an AI request takes decodes: all chunks
\* of the published generation are there, and the search has its text
\* (content_snapshot::decode never meets "invalid published content").
SnapshotWhole == manifest # NoManifest =>
    decode /\ searched = manifest.text

\* The published text steps back to an earlier revision, or within one revision
\* to an earlier fetch, only when a publication ends that had found nothing
\* published; and once something is published no further publication of that
\* kind begins.  In whatever order extractions end, the text therefore goes only
\* forward from when the last publication that began before the first one ended.
PublishedForward ==
    /\ \/ manifest'.revision > manifest.revision
       \/ manifest'.revision = manifest.revision /\ manifest'.at >= manifest.at
       \/ \E w \in Extractors : task[w].pc = "first" /\ manifest'.refresh = task[w].refresh
    /\ manifest # NoManifest =>
           \A w \in Extractors : task'[w].pc = "first" => task'[w] = task[w]

\* The body of an embedded source is published under its own revision.
EmbeddedExact == embedded /\ manifest # NoManifest => manifest.text = manifest.revision

\* What is published is one whole snapshot of the right revision.
SnapshotExact == SnapshotWhole /\ EmbeddedExact
=============================================================================
