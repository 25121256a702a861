---------------------------- MODULE ContentProofs ---------------------------
(***************************************************************************)
(* The publication of full texts, proved for any number of workers,        *)
(* revisions and extractions.                                              *)
(***************************************************************************)
EXTENDS Content, TLAPS

Number == Nat \ {0}

Claimed == [pc : {"claimed", "failed"}, job : Number, at : Nat, refresh : 1..MaxRuns]
Fetched == [pc : {"publish", "first"}, job : Number, at : Nat, refresh : 1..MaxRuns,
            chunks : Number, text : Number]
Manifests == [revision : Number, at : Nat, refresh : 1..MaxRuns, chunks : Number, text : Number]

\* Types, as far as the argument needs them.
TypeOK == /\ embedded \in BOOLEAN
          /\ record \in Number /\ page \in Number /\ clock \in Nat /\ runs \in Nat
          /\ jobs \subseteq Number
          /\ task \in [Extractors -> {NoTask} \cup Claimed \cup Fetched]
          /\ staged \in [1..MaxRuns -> Nat]
          /\ manifest \in {NoManifest} \cup Manifests

\* A fetched embedded body is the one of the revision its job names: the record
\* may be revised after embedded_current was asked, and text keeps the answer.
FetchedExact == \A w \in Extractors :
    embedded /\ task[w].pc \in {"publish", "first"} => task[w].text = task[w].job

IInv == TypeOK /\ FetchedExact /\ SnapshotWhole /\ EmbeddedExact

\* A published manifest is told from the empty one by its revision.
LEMMA Published ==
    ASSUME TypeOK
    PROVE  /\ manifest # NoManifest <=> manifest \in Manifests
           /\ manifest # NoManifest <=> manifest.revision # 0
BY DEF TypeOK, Manifests, NoManifest, Number

\* The invariant holds before anything was extracted.
LEMMA InitIInv ==
    ASSUME MaxRuns \in Nat, Init
    PROVE  IInv
BY DEF Init, IInv, TypeOK, FetchedExact, SnapshotWhole, EmbeddedExact, NoTask, Number

\* A step that only moves the task of one worker, to a value that is typed and
\* exact, keeps everything.
LEMMA TaskStep ==
    ASSUME IInv, NEW w \in Extractors, NEW t \in {NoTask} \cup Claimed \cup Fetched,
           task' = [task EXCEPT ![w] = t],
           embedded /\ t.pc \in {"publish", "first"} => t.text = t.job,
           runs' \in Nat,
           UNCHANGED <<embedded, record, page, jobs, clock, manifest, staged, searched>>
    PROVE  IInv'
<1>1. TypeOK'
    BY DEF IInv, TypeOK
<1>2. FetchedExact'
    BY DEF IInv, TypeOK, FetchedExact
<1>3. SnapshotWhole' /\ EmbeddedExact'
    BY DEF IInv, SnapshotWhole, EmbeddedExact, decode
<1> QED BY <1>1, <1>2, <1>3 DEF IInv

\* A worker without a task is typed.
LEMMA IdleTyped ==
    NoTask.pc \notin {"publish", "first"}
BY DEF NoTask

\* A claimed extraction starts from the revision its job names.
LEMMA ClaimStep ==
    ASSUME MaxRuns \in Nat, IInv, NEW w \in Extractors, claim(w)
    PROVE  IInv'
<1>1. PICK job \in jobs :
          task' = [task EXCEPT ![w] = [pc |-> "claimed", job |-> job, at |-> clock,
                                       refresh |-> runs + 1]]
    BY DEF claim
<1> DEFINE t == [pc |-> "claimed", job |-> job, at |-> clock, refresh |-> runs + 1]
<1>2. t \in Claimed
    BY DEF IInv, TypeOK, Claimed, claim
<1>3. t.pc \notin {"publish", "first"}
    OBVIOUS
<1>4. runs' \in Nat
    BY DEF IInv, TypeOK, claim
<1> QED BY <1>1, <1>2, <1>3, <1>4, TaskStep DEF claim

\* extract only fills the task of its worker.
LEMMA ExtractStep ==
    ASSUME IInv, NEW w \in Extractors, extract(w)
    PROVE  IInv'
<1>1. task[w] \in Claimed
    BY DEF IInv, TypeOK, extract, NoTask, Fetched
<1>2. runs' \in Nat
    BY DEF IInv, TypeOK, extract
<1>3. CASE task' = [task EXCEPT ![w].pc = "failed"]
    <2> DEFINE t == [task[w] EXCEPT !.pc = "failed"]
    <2>1. t \in Claimed /\ t.pc \notin {"publish", "first"}
        BY <1>1 DEF Claimed
    <2>2. task' = [task EXCEPT ![w] = t]
        BY <1>3 DEF IInv, TypeOK
    <2> QED BY <1>2, <2>1, <2>2, TaskStep DEF extract
<1>4. CASE /\ embedded => embedded_current(task[w].job)
           /\ \E chunks \in 1..2 :
                 task' = [task EXCEPT ![w] =
                     [pc |-> "publish", job |-> task[w].job, at |-> task[w].at,
                      refresh |-> task[w].refresh, chunks |-> chunks,
                      text |-> IF embedded THEN record ELSE page]]
    <2>1. PICK chunks \in 1..2 :
                 task' = [task EXCEPT ![w] =
                     [pc |-> "publish", job |-> task[w].job, at |-> task[w].at,
                      refresh |-> task[w].refresh, chunks |-> chunks,
                      text |-> IF embedded THEN record ELSE page]]
        BY <1>4
    <2> DEFINE t == [pc |-> "publish", job |-> task[w].job, at |-> task[w].at,
                     refresh |-> task[w].refresh, chunks |-> chunks,
                     text |-> IF embedded THEN record ELSE page]
    <2>2. t \in Fetched
        BY <1>1 DEF Claimed, Fetched, IInv, TypeOK, Number
    <2>3. embedded => t.text = t.job
        BY <1>4 DEF embedded_current
    <2> QED BY <1>2, <2>1, <2>2, <2>3, TaskStep DEF extract
<1> QED BY <1>3, <1>4 DEF extract

\* What a worker that is about to publish holds.
LEMMA FetchedTask ==
    ASSUME IInv, NEW w \in Extractors, Publish(w)
    PROVE  task[w] \in Fetched
BY DEF IInv, TypeOK, Publish, publish_content, find_none, publish_first, NoTask, Claimed

\* The manifest, its chunks and the index move in one transaction.
LEMMA PublishStep ==
    ASSUME IInv, NEW w \in Extractors, Publish(w)
    PROVE  IInv'
<1>1. task[w] \in Fetched
    BY FetchedTask
<1>2. CASE publish_content(w) /\ manifest_is_current_or_newer(manifest, task[w])
    <2>1. runs' \in Nat
        BY <1>2 DEF IInv, TypeOK, publish_content
    <2> QED BY <1>2, <2>1, IdleTyped, TaskStep DEF publish_content
<1>4. CASE find_none(w)
    <2> DEFINE t == [task[w] EXCEPT !.pc = "first"]
    <2>1. t \in Fetched /\ t.text = task[w].text /\ t.job = task[w].job
        BY <1>1 DEF Fetched
    <2>2. embedded => t.text = t.job
        BY <1>4, <2>1 DEF IInv, FetchedExact, find_none
    <2>3. task' = [task EXCEPT ![w] = t]
        BY <1>4 DEF IInv, TypeOK, find_none
    <2>4. runs' \in Nat
        BY <1>4 DEF IInv, TypeOK, find_none
    <2> QED BY <1>4, <2>1, <2>2, <2>3, <2>4, TaskStep DEF find_none
<1>3. CASE \/ publish_content(w) /\ ~manifest_is_current_or_newer(manifest, task[w])
           \/ publish_first(w)
    <2>1. /\ staged' = [staged EXCEPT ![task[w].refresh] = task[w].chunks]
          /\ manifest' = [revision |-> task[w].job, at |-> task[w].at,
                          refresh |-> task[w].refresh, chunks |-> task[w].chunks,
                          text |-> task[w].text]
          /\ searched' = task[w].text
          /\ task' = [task EXCEPT ![w] = NoTask]
          /\ UNCHANGED <<embedded, record, page, jobs, clock, runs>>
        BY <1>3 DEF publish_content, publish_first, write, index
    <2>2. manifest' \in Manifests /\ staged' \in [1..MaxRuns -> Nat]
        BY <1>1, <2>1 DEF Fetched, Manifests, IInv, TypeOK, Number
    <2>3. TypeOK'
        BY <2>1, <2>2 DEF IInv, TypeOK
    <2>4. FetchedExact'
        BY <2>1, IdleTyped DEF IInv, TypeOK, FetchedExact
    <2>5. SnapshotWhole'
        BY <1>1, <2>1 DEF SnapshotWhole, decode, Fetched, IInv, TypeOK
    <2>6. EmbeddedExact'
        BY <1>1, <1>3, <2>1 DEF publish_content, publish_first, EmbeddedExact, IInv, FetchedExact, Fetched
    <2> QED BY <2>3, <2>4, <2>5, <2>6 DEF IInv
<1> QED BY <1>2, <1>3, <1>4 DEF Publish, publish_content

\* A task that fails or is lost leaves the published content.
LEMMA FailureStep ==
    ASSUME IInv, NEW w \in Extractors, record_refresh_failure(w) \/ StaleLease(w)
    PROVE  IInv'
<1>1. runs' \in Nat
    BY DEF IInv, TypeOK, record_refresh_failure, StaleLease
<1> QED BY <1>1, IdleTyped, TaskStep DEF record_refresh_failure, StaleLease

\* A cleanup empties every generation except the published one.
LEMMA CleanupStep ==
    ASSUME IInv, NEW keep, cleanup_content(keep)
    PROVE  IInv'
<1>1. TypeOK'
    BY DEF IInv, TypeOK, cleanup_content
<1>2. FetchedExact' /\ EmbeddedExact'
    BY DEF IInv, FetchedExact, EmbeddedExact, cleanup_content
<1>3. SnapshotWhole'
    <2>1. manifest # NoManifest => manifest.refresh \in 1..MaxRuns
        BY Published DEF IInv, Manifests
    <2> QED BY <2>1 DEF IInv, TypeOK, SnapshotWhole, decode, cleanup_content, kept_generation
<1> QED BY <1>1, <1>2, <1>3 DEF IInv

\* New revisions, a changed page and time leave the published content.
LEMMA OutsideStep ==
    ASSUME IInv, Revise \/ PageChanges \/ Tick \/ UNCHANGED tvars
    PROVE  IInv'
<1>1. TypeOK'
    <2>1. CASE Revise
        BY <2>1 DEF IInv, TypeOK, Number, Revise
    <2>2. CASE PageChanges
        BY <2>2 DEF IInv, TypeOK, Number, PageChanges
    <2>3. CASE Tick \/ UNCHANGED tvars
        BY <2>3 DEF IInv, TypeOK, Tick, tvars
    <2> QED BY <2>1, <2>2, <2>3
<1>2. UNCHANGED <<embedded, manifest, staged, searched, task>>
    BY DEF Revise, PageChanges, Tick, tvars
<1>3. FetchedExact' /\ SnapshotWhole' /\ EmbeddedExact'
    BY <1>2 DEF IInv, FetchedExact, SnapshotWhole, EmbeddedExact, decode
<1> QED BY <1>1, <1>3 DEF IInv

\* Every step keeps the invariant.
LEMMA NextIInv ==
    ASSUME MaxRuns \in Nat, IInv, [Next]_tvars
    PROVE  IInv'
<1>1. ASSUME NEW w \in Extractors, Extract(w) PROVE IInv'
    BY <1>1, ClaimStep, ExtractStep, PublishStep, FailureStep DEF Extract
<1>2. ASSUME NEW keep \in cleanups, cleanup_content(keep) PROVE IInv'
    BY <1>2, CleanupStep
<1> QED BY <1>1, <1>2, OutsideStep DEF Next

\* The inductive invariant holds of every state that extraction reaches.
LEMMA Invariance ==
    ASSUME MaxRuns \in Nat
    PROVE  Spec => []IInv
<1>1. Init => IInv
    BY InitIInv
<1>2. IInv /\ [Next]_tvars => IInv'
    BY NextIInv
<1> QED BY <1>1, <1>2, PTL DEF Spec

\* Whatever the order in which extractions, repetitions and cleanups end, the
\* published manifest finds all its chunks and the index has its text
\* (content_snapshot::decode), and the body of an embedded source is published
\* under its own revision.
THEOREM SnapshotsExact ==
    ASSUME MaxRuns \in Nat
    PROVE  Spec => []SnapshotExact
<1>1. IInv => SnapshotExact
    BY DEF IInv, SnapshotExact
<1> QED BY <1>1, Invariance, PTL

\* Only find_none brings a worker to publish unconditionally, and it finds no
\* manifest.
LEMMA OnlyEmptyOpens ==
    ASSUME IInv, NEW w \in Extractors, Extract(w), manifest # NoManifest,
           NEW v \in Extractors, task'[v].pc = "first"
    PROVE  task'[v] = task[v]
<1>1. task \in [Extractors -> {NoTask} \cup Claimed \cup Fetched]
    BY DEF IInv, TypeOK
<1>2. CASE v # w
    BY <1>1, <1>2 DEF Extract, Publish, claim, extract, publish_content, find_none,
                      publish_first, record_refresh_failure, StaleLease
<1>3. CASE v = w
    <2>1. CASE claim(w)
        BY <1>1, <1>3, <2>1 DEF claim
    <2>2. CASE extract(w)
        <3>1. task[w] \in Claimed
            BY <1>1, <2>2 DEF extract, NoTask, Fetched
        <3> QED BY <1>1, <1>3, <2>2, <3>1 DEF extract, Claimed
    <2>3. CASE publish_content(w) \/ publish_first(w) \/ record_refresh_failure(w) \/ StaleLease(w)
        BY <1>1, <1>3, <2>3, IdleTyped DEF publish_content, publish_first, record_refresh_failure,
                                           StaleLease
    <2>4. ~find_none(w)
        BY DEF find_none
    <2> QED BY <2>1, <2>2, <2>3, <2>4 DEF Extract, Publish
<1> QED BY <1>2, <1>3

\* publish_content: a step puts back a former revision, or a former fetch of the
\* same revision, only to end a publication that had found no manifest, and none
\* begins to be one once a manifest is published.
THEOREM NeverBack ==
    ASSUME MaxRuns \in Nat
    PROVE  Spec => [][PublishedForward]_tvars
<1>1. ASSUME IInv, [Next]_tvars PROVE [PublishedForward]_tvars
    <2>1. manifest.revision \in Nat /\ manifest.at \in Nat
        BY <1>1 DEF IInv, TypeOK, NoManifest, Manifests, Number
    <2>2. CASE UNCHANGED <<manifest, task>>
        BY <2>1, <2>2 DEF PublishedForward
    <2>3. ASSUME NEW w \in Extractors, Extract(w) PROVE PublishedForward
        <3>2. manifest # NoManifest =>
                  \A v \in Extractors : task'[v].pc = "first" => task'[v] = task[v]
            BY <1>1, <2>3, OnlyEmptyOpens
        <3>3. CASE manifest' = manifest
            BY <2>1, <3>2, <3>3 DEF PublishedForward
        <3>4. CASE publish_content(w) /\ manifest' # manifest
            <4>1. task[w] \in Fetched
                BY <1>1, <3>4, FetchedTask DEF Publish
            <4>2. /\ ~manifest_is_current_or_newer(manifest, task[w])
                  /\ manifest'.revision = task[w].job /\ manifest'.at = task[w].at
                BY <3>4 DEF publish_content, write
            <4>3. task[w].job \in Nat /\ task[w].at \in Nat
                BY <4>1 DEF Fetched, Number
            <4> QED BY <2>1, <3>2, <4>2, <4>3 DEF manifest_is_current_or_newer, PublishedForward
        <3>5. CASE publish_first(w)
            BY <3>2, <3>5 DEF publish_first, write, PublishedForward
        <3>6. manifest' = manifest \/ publish_content(w) \/ publish_first(w)
            BY <2>3 DEF Extract, Publish, claim, extract, find_none, record_refresh_failure, StaleLease
        <3> QED BY <3>3, <3>4, <3>5, <3>6
    <2>4. UNCHANGED <<manifest, task>> \/ \E w \in Extractors : Extract(w)
        BY <1>1 DEF Next, cleanup_content, Revise, PageChanges, Tick, tvars
    <2> QED BY <2>2, <2>3, <2>4
<1> QED BY <1>1, Invariance, PTL DEF Spec
=============================================================================
