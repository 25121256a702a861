# Formal models of inoreader

inoreader is a self-hosted feed reader for several accounts: a Rust modular monolith
(`crates/`) over PostgreSQL with a Preact client (`web/`). Collected source records are
stored once, and a durable queue of jobs carries them into the libraries of the
workspaces that subscribe to their source. Around it stand paid AI work, a glossary of a
Telegram channel, a wiki, accounts, the outbound web runtime and the commands that
upgrade the database. This directory holds TLA+ models of that machinery, the TLC
configurations that check them, and TLAPS proofs about the queue, the full texts, the
accounts and the paid chats.

## Parts and modules

| Part | Where | Module | Checked through |
|---|---|---|---|
| Ingest queue | `ingest_store.rs`, `ingest_store/queue.rs`, `engine/mod.rs` | `JobQueue`, `FencedJobs` | `MCJobQueue` |
| Fan-out, delivery, rules on delivery, pauses | `ingest_store/delivery.rs`, `ingest_store/rules.rs`, `repository/*` | `Delivery` | `MCDelivery` |
| Poll and backlog | `ingest_store/poll.rs`, `ingest_store/backlog.rs` | `Collection` | `MCLibrary` |
| Full text and cleanup | `ingest_store/content.rs`, `content_snapshot.rs` | `Content` | `MCLibrary` |
| Subscriptions, import, seed, recipes | `repository/subscription.rs`, `repository.rs`, `reader-server` | `Subscriptions` | `MCLibrary` |
| Rules on the archive | `ingest_store/rules.rs`, `repository/rule.rs` | `ArchiveRules` | `MCLibrary` |
| Focused reading | `repository/focused_reading.rs`, `useFocusedReading.ts` | `FocusedReading` | `MCLibrary` |
| Session timer | `sessionClock.ts`, `useSessionClock.ts`, `readingSession.ts` | `SessionClock` | `MCLibrary` |
| Article list | `repository/presentation.rs`, `repository/article.rs`, `useReaderController.ts` | `ReaderPages` | `MCLibrary` |
| AI chats, calls, budget | `reader-ai/src/service*`, `ai.rs`, `ai/*.rs` | `AiChat`, `PaidWork` | `MCAiChat`, `MCRuntime` |
| Definitions, translations | `service/definitions.rs`, `service/translation.rs`, `ai/definitions.rs`, `ai/translations.rs` | `AiTerms` | `MCAiTasks` |
| Interest ranking | `reader-ai/src/interests.rs`, `ai/interests.rs` | `Interests` | `MCAiTasks` |
| AI bootstrap of a subscription | `ai_bootstrap.rs`, `schema/ai_bootstrap.sql` | `Bootstrap` | `MCAiTasks` |
| AI replies | `stream.rs`, `provider.rs`; `review.rs`, `translation.rs` | `ReplyStream`; `ReplyEdits` | `MCServices` |
| Accounts and sessions | `auth.rs`, `repository/identity.rs` | `Accounts` | `MCServices` |
| Wiki and its editor | `wiki/*.rs`, `CreateSubscriptionPage.tsx`; `WikiEditor.tsx` | `Wiki`; `WikiEditor` | `MCServices` |
| Glossary | `reader-glossary`, `glossary/*.rs` | `Glossary` | `MCServices` |
| Proxy health; outbound requests | `public_proxy/health.rs`; `http_client.rs`, `network.rs` | `ProxyPool`; `Outbound` | `MCServices` |
| Schema commands | `schema.rs` | `SchemaRelease` | `MCServices` |
| Process lifecycle | `reader-runtime`, `startup.rs`, worker loops | `Lifecycle` | `MCRuntime`, `MCServices` |

`PROJECT.json` lists the sources of each part, the lines of every definition and the
hazards. `MCLibrary`, `MCServices`, `MCAiTasks` and `MCRuntime` hold several modules side
by side: the variable `part` chooses one in the initial state, the others stay as they
begin. The parts write different rows and are checked one at a time; the product of their
states would say nothing more. `MCDelivery` does the same with `scenario`, for instances
of one module with different constants.

## The models

### JobQueue: leases of durable jobs

The variables are the columns of `ingest_jobs` (`status`, `lease_token`, `lease_deadline`,
`run_at`, `first_attempt`, `attempt`), the sources whose health row carries an error
(`failing`), PostgreSQL's locks (`row_lock`, `origin_lock`) and the memory of each worker
inside `run_one`. Time is a counter, one tick being the unit of every duration.

`claim` is one transaction of several READ COMMITTED statements, so other workers run
between them. It is modelled as `Begin`, `Select` (candidate query, `FOR UPDATE SKIP
LOCKED`), one of `ReserveContended`, `ReserveAged`, `ReserveRefused`, `Reserve` (advisory
lock, age, second reading of the limits), and `Grant` or `ClaimNothing` (commit). Rows a
claim ages out change when it commits. A handler's transaction opens with `assert_lease`,
which locks the row, and ends with `EndCommit` or `AbortCommit`; the deadline may pass in
between. `complete` compares only the token. A heartbeat, a retry and a failure are one
`UPDATE` whose `WHERE` also tests the deadline, but PostgreSQL tests it before it waits for
the row and does not test it again after a holder that only locked the row (`assert_lease`
of the worker's own handler). Each is therefore two steps: `renew` and `renewed`, `report`
and `retry` or `fail`. A heartbeat that waited can write when its lease has run out; the
history variable `revived` marks the leases it brought back. A worker may `Crash` anywhere.

`FencedJobs` is the abstract specification: a job has one owner at a time, its effects are
written under the current owner, it changes hands only between writes, and once ended it
stays ended. `ImplementsFenced` is the refinement; the mapping is `phase`, `owner` and
`writing` at the end of `JobQueue`.

### Delivery: from a stored record to the library

One workspace is modelled: a delivery holds the workspace row, so deliveries into one
workspace are serial and workspaces share nothing. The variables are the rows delivery
reads and writes: `record`, `status`, `accepting`, the fan-out jobs (`ready`, `ended`,
`failed`), `articles`, `dedup` (`library_dedup`), `links` (`library_origins`), `rules` and
`rule_jobs`; `run` is what each worker holds in memory. A run reads the record once
(`fanout`), then its batch of subscriptions (`delivery_targets`), then delivers to them one
transaction each (`deliver`, `SkippedInactive`, `deliver_refused`), queues the continuation
(`advance_fanout`) and completes. It may stop between any two of these and be repeated
(`LoseLease`). The lease itself is JobQueue's: a job has one run at a time. Job identities
are records that carry exactly what the code hashes into the UUID. A resumed subscription
catches up with the newest `InitialScope` records of its source (`initial_records`). The
history variable `owed` holds what a subscription is to receive: the records collected
while it is active and those it has to catch up with, until it is paused.

### Collecting: Collection, Content, Subscriptions, Bootstrap

`Collection` follows one source: the first response may be larger than the first batch, the
rest waits in `poll_backlog`, later polls and refreshes drain it before they fetch again,
and the validators of the last commit keep the source from listing anything twice. A
response is a function from items to texts, its index is its ETag. The lease passes between
workers and may be lost between preparing and committing.

`Content` follows one record: extraction jobs of several revisions, manual refreshes and
repetitions stage chunks under a fresh refresh id and move the manifest in one
transaction; cleanup jobs remove other generations later. Over a manifest the transaction
is one step, because `FOR UPDATE` holds the row from the comparison to the commit
(`publish_content`). While there is none nothing is locked, and the transaction is two
steps (`find_none`, `publish_first`) that others may overtake.

`Subscriptions` has the handlers that read, wait for the network and write: add, import,
edit, replace the source, remove, restore, recipes, and the seed and migration commands.
What a handler has read is in `pend`; its write is one transaction with the code's checks.

`Bootstrap` has the records discovered, the records counted as initial, the open delivery
transactions (the trigger `reader_ai_origin_candidate` runs inside them) and the selection.

### Reading: ArchiveRules, FocusedReading, SessionClock, ReaderPages

`ArchiveRules` applies a rule version to the articles that exist, in batches; a job leaves
the next one in its transaction. `FocusedReading` composes the browser hook with the
repository: completions under an operation id, receipts, undo, answers lost or late,
the 408 of the server's timeout, reloads, a second tab and marks of a whole scope.
`SessionClock` is the timer over `sessionStorage`, whose writes may fail one at a time.
`ReaderPages` composes keyset pages with the list controller: optimistic marks, rollback,
bulk marks, pages and polls of the selected article that are overtaken by writes, requests
that outlive the batch they were sent for, arrivals.

### Paid work: AiChat, AiTerms, Interests, ReplyStream, ReplyEdits

In `AiChat` every storage call of a worker is a step; between two the reader may stop or
retry, the lease may expire, recovery may run and the provider may answer late. A text is
the index of the call that wrote it. `PaidWork` is the abstract specification of what may be
bought: a command opens an attempt, an attempt buys one draft and one check, each billed
once. `PaidOnce` states that `AiChat` implements it (instance `Money`). `AiTerms` has the
queues of definitions and translations with reuse, the automatic scheduler and recovery;
`Interests` the ranking claims with the trigger that marks a score dirty when its article is
published again. `ReplyStream` scans a reply cut at any token; `ReplyEdits` applies the
corrections of a review and the words of a dictionary, checked against definitions that do
not scan.

### Services: Accounts, Wiki, WikiEditor, Glossary, ProxyPool, Outbound, SchemaRelease

`Accounts`: a call reads, hashes and commits under the revisions it read; the attempts of a
username are a set of numbered times, and an attempt has the time at which its transaction
runs. `Wiki`: writes of a
namespace are serial, the clients race, answers are lost and commands repeated; the dialog
that makes a subscription's page is one of the clients. `WikiEditor`: windows of one
account with autosave, publication and discarding. `Glossary`: leased pollers, history
readers, archive import, projector, reindexing; Telegram is external and forgets what an
offset has passed. `ProxyPool`: requests that share endpoint health. `Outbound`: one request
through addresses, redirects and the retry. `SchemaRelease`: commands that may be started
together and end at any statement, from every release that can be upgraded.

### Lifecycle

The tasks of one process: the supervisor, ingest workers, the AI classes with their shared
permits, loops, the icon fetches of a page and their failure, panics, the stop request and
the drain with its timeout.

## Runs

| Run | Result | Question |
|---|---|---|
| `queue` | holds | fencing, serialized collection, bounded revival and refinement with crashes, expiry, late heartbeats and ageing |
| `queue_origin` | holds | can two claims overfill an origin with one place, and is every due job eventually taken up |
| `delivery` | holds | is the library exact, are decisions and pauses kept, does everybody receive what it is owed, through regrouping, rules, pauses, batches and crashes |
| `ai_chat` | holds | is every stage bought and billed once, the budget kept, and only finished text shown |
| `ai_tasks` | holds | definitions and translations paid once, scores of the current text, the selection not overlooked and within its allowance |
| `library` | holds | what polls, full texts, subscriptions, rule application, focused reading, the timer and the list promise |
| `services` | holds | what accounts, wiki, editor, glossary, proxies, requests, upgrades and replies promise; does the process end in order |
| `runtime` | holds | do calls end, does the process stop, is every class served |
| `delivery_stall`, `ai_stop`, `ai_selection`, `archive_scope` | violated | see below |

A property of a run may join several facts about one part; each fact has a definition and a
comment of its own in the module of the part. `PROJECT.json` names for each property a
mutation of a mapped definition that breaks it.

The violated runs are disagreements between the code and a sentence of the repository;
`PROJECT.json` quotes it and names the line:

- `delivery_targets` limits the batch before it drops inactive subscriptions, and a batch
  without a target ends the fan-out; later active subscriptions get nothing
  (`delivery_stall`).
- `stop` leaves the lease of a chat, and `defer_chat` looks at nothing else: a stopped chat
  that its worker was deferring is queued again (`ai_stop`).
- Records a first poll finds changed are initial records but are not fanned out, so the
  selection of the subscription waits for them forever (`ai_selection`).
- `apply_rule_batch` takes the articles of the workspace and not of the rule's
  subscription (`archive_scope`).

### Known differences that have no run

Read from the code while modelling, each at the line `PROJECT.json` or the module names:

- A one-shot job's age counts from its insertion, so one that only waited longer than
  `max_retry_age_seconds` fails without an attempt (`queue.rs:51`; SPEC.md:586).
- `deliver` does not compare the revision it read with the stored one; an older run can
  move the article back to the old key (`engine/mod.rs:435`; SPEC.md:302).
- The job of a catch-up is named after the subscription and the record, so a second resume
  finds the ended job of the first and catches up nothing; and a catch-up covers the newest
  `initial_scope` records only, whatever was missed (`repository.rs:440`; SPEC.md:126).
- A delivery repeated after a rule was edited is refused, because the evaluation it queues
  has the same identity and another content (`rules.rs:257`; `engine/mod.rs:456`).
- Applying a rule version a second time is answered as queued and starts nothing, and one
  article without full text undoes its whole batch (`repository/rule.rs:60`, `rules.rs:157`).
- The cursor of a page keeps microseconds, the arrival times more: turning towards newer
  pages can show an article of the same microsecond again (SPEC.md:104).
- The seed and migration commands can put a recipe on a source that exists, and a repeated
  seed is refused. `FOR UPDATE` on the missing key row of `replace_subscription_source`
  locks nothing; the unique key decides.
- A conflicting archive record leaves a receipt too many, so the import is never complete.
- The parent command of `CreateSubscriptionPage` keeps conflicting once somebody else has
  changed the page; an autosave whose answer was lost is refused after more typing until the
  draft is opened again.
- A score row first claimed during a publication is not marked by its trigger
  (`Interests`, the exception `born`).
- A heartbeat that waited for its row revives a lease whose place was given to another job,
  so that for up to `lease_seconds` an origin has one live lease too many
  (`ingest_store.rs:98`; tests/support/admission.rs:57). `OriginCapacity` and
  `PollSerialized` are about leases that never ran out, `RevivalBounded` about the rest;
  commits stay fenced by the token.
- Two publications of a record that has no manifest yet both write; the one that ends last
  stays, whatever its revision (`content.rs:13,53`). `PublishedForward` names this case.
- The client takes the 408 of `TimeoutLayer` for a refusal and drops the operation of a
  completion that may have been committed (`startup.rs:127`;
  docs/focused-reading-spec.md:232). `NeverDisowned` names this case.
- After one of the two writes of a timer change failed, scrolling writes the former state
  over the stored one, although the message says that the stored state is kept
  (`useSessionClock.ts:136`; the sessions `reverted`).
- An answer to the poll of the selected article replaces the row unless this window has
  marked it meanwhile; a change by another window or by a late bulk mark between the answer
  and its use is not seen (`useReaderController.ts:123`; the ids `foreign`).
- A store error in an icon page drops the fetches in flight, and a shutdown meanwhile still
  reports success (`icons.rs:62`, `fail_page`).

`NeverRefused` (in `LibraryExact`) holds only without rules and is checked in `dedup`.
`Delivered` names its exceptions in the formula: `NoStall` (the stall above), a record that
was caught up with before, and the revision shown when two workers overlap. So do
`CompletedMeansAll`, `RecipeCollected`, `ShownIsStored` and `ScoreOfCurrentText`.

### Bounds

- JobQueue: two jobs, two workers, four tokens (two held in memory, two in rows), lease,
  interval and retry age of one tick, two attempts, clock up to 3 (`MaxTime`), crashes up
  to time 1 (`CrashHorizon`). This suffices for a lease to expire, be taken over, expire
  again and age out. `LeastToken` picks the least free token, which is sound because
  tokens are only compared for equality; workers are symmetric. `queue_origin` stops
  the clock at 2 and uses no symmetry, since it checks liveness.
- Delivery: one or two records, one or two keys, up to three subscriptions, up to two
  revisions, up to four status changes (`MaxToggles`) and two rule versions. Two records and
  two keys are enough for a merge, a split and a second merge; four changes for two pauses
  and two resumes; two records of one source for a catch-up that leaves one out.
- AiChat: two workers, two commands, two chats, two days, one fault, one change of settings.
  `OneThing` keeps a second chat to days without fault or change: two chats meet only in the
  budget. `runtime` has one worker, one chat and one day.
- AiTasks: two workers, two jobs, two revisions, two claims, one fault; two texts, two
  profiles, three claims of scores; three records, two articles, an allowance of one.
- Library and Services: two workers, clients, windows or commands of each kind, which is
  where every race modelled begins; two or three items, articles, pages, endpoints, rows;
  one lost lease or answer; replies of two characters a segment and at most two segments.
  `Library.cfg` and `Services.cfg` list them.
- Lifecycle: one worker of each loop, two AI classes with one permit, one panic; two icons at
  a time in `services`, which checks safety, and one in `runtime`, which checks liveness.

`CHECK_DEADLOCK FALSE` wherever the bounded inputs run out.

### Fairness

- `queue_origin`: the clock advances, every worker keeps calling `run_one` and its
  statements return (weak fairness of `Claim` and `Close`), and a handler that can report
  an outcome again and again eventually does (strong fairness of `Outcome`, because its own
  commits disable it in between; a handler commits finitely often). `run_until_shutdown`
  is that loop. `Crash`, heartbeats and `enqueue_work` are not fair.
- `runtime`, the chat: the worker loop goes on (weak fairness of `Work`), and a lease that
  nobody renews runs out. Commands, crashes and settings are not fair.
- `runtime`, the process: every loop takes its next step, the semaphore hands a free permit
  to the first waiter (tokio's is first in, first out), and the drain or its timeout returns.
  Operations need not end: `Stops` holds by the timeout. The signal is not fair.
- `ai_selection`: the deliveries of queued records and the polls that drain the backlog.
  This is what the queue gives them; the violation needs no unfair behaviour.

## Proofs

TLAPS checks the following for every value of the constants the assumptions allow; TLC has
checked each inductive invariant on the instance of the run first.

### The queue

Assumptions: `ConstantsAssumption` (types, finitely many jobs), `LimitsAssumption` (what the
constructors validate) and `OriginAssumption` (jobs that collect one source share its
origin, which the code reads from the source).

- `TypeCorrect`, `CapacityRespected`, `CollectionSerialized`, `CommitsFenced` and
  `RetriesBounded`, from `Invariance` (`Spec => []IInv`);
- `Refinement` (`Spec => ImplementsFenced`) and `RevivalsBounded`.

`JobQueueInvariant` states `IInv`, the lemmas about its operators, the initial states and
the steps of time, of `enqueue_work` and of the start of a claim; `JobQueueSteps` has a
lemma per step of the rest of a claim up to its grant, of a worker under a lease, and of a
crash; `JobQueueProofs` has the grant, the only step that starts a lease, all of `Next`,
the map of every step to `FencedJobs`, and the theorems.
What the steps need of `Cardinality` is one hypothesis (`Counting`), proved from the finite
`Jobs` in `JobQueueProofs`. `OriginCapacity` and `PollSerialized` are not inductive: a
claim decides in `Reserve` and writes in `Grant`. `IInv` adds what connects the two. The
selected row is locked by its claim (`Locked`) and stays claimable while locked (`Stable`);
a claim past `Reserve` holds the advisory lock, and the limits it read still hold at its
own time, since only a holder of that lock adds a lease to the origin (`Reserved`); a token
identifies one lease (`Tokened`), a writing worker owns its job, and a heartbeat in flight
will not write more than `LeaseDuration` past the deadline it found (`Owned`). A lease that
is counted at the later clock and never ran out was counted at the claim's; a revived one
is not counted, which is why the limits are about leases that stand. Steps that end a
worker's business share their effect (`Forgets`): the rows it locked are free, the others
untouched, and no lease begins.

### Full texts

`ContentProofs`, for any number of extractors and any `MaxRuns` in Nat: `SnapshotsExact`
(`Spec => []SnapshotExact`) and `NeverBack` (a former revision or fetch comes back only by a
publication that had found no manifest, and no worker becomes one once there is a manifest;
`PublishedForward`, the part of `VersionsForward` about content). The invariant adds
`FetchedExact`: the text a worker is about to publish is of the revision its job names,
because `embedded_current` was asked when it was fetched; the record may have been revised
since, and the manifest then carries the older revision.

### Accounts

`AccountsProofs`, for any sets of calls, passwords and tokens, any limit and any length of
the minute, when invites and resets are different tokens (`Setting`): `SignInsSound`
(`Spec => []SignInSound`) and `ChangesVerified`. The invariant says what a call still knows
when it commits. Credentials with the present auth revision belong to the present password
(`Credential`), for session rows and for sign-ins in flight (`SessionsSound`, `CallsSound`);
a document prepared at the present revision was made from the present account, with the next
auth revision (`Document`). A used token stays consumed, and an open reset means a live
account (`TokensSound`). Every sign-in of the last minute is among the retained attempts,
which are at most `Limit` (`AttemptsSound`).

### Paid chats

Under `AiChatAssumption`, for any workers, commands, chats, days and faults.

`AiChatProofs`: `EveryCallPaidOnce` (`Spec => PaidOnce`, that is `Money!Spec`): the chats
implement `PaidWork`. The mapping counts the operations of a chat as attempts, the calls as
requests and `actual` as the bill. The invariant needs three facts. No stage of an attempt
has two calls (`Once`), so a request names a call; a worker waits only for a call without a
bill (`Waits`); and two workers never wait for one call (`Apart`), although a lease may run
out under a worker that waits and the next claim may call for a new attempt. Rows are typed
only as far as the argument needs (`Row`). Most steps rewrite rows and keep requests and
bills (`Silent`); a lemma per action shows that it is one of these, or opens, buys or
learns.

`AiChatShownProofs`: `ShownIsHeld` (`Spec => []ShownExact`) and `DraftPaidOnce`
(`Spec => PaidDraftKept`). `write_progress` keeps what was published of an unfinished
summary instead of computing it, so the projection is exact only because of how calls end,
and `SInv` says how. Of a chat (`Good`): drafts and complete summaries come from completed
calls (`Sourced`), those were accounted for (`Accounted`), and a chat whose newest message
is complete has no lease and is not pending (`Rested`). Of a worker (`Knows`): its attempt
is the newest only as long as its lease is the chat's, the task and the draft it remembers
are those of its attempt, and its call has not completed. Two workers at one chat differ in
lease, attempt and call (`Distinct`), so a late write of one is not seen by the other. The
operations of all chats were saved (`Saved`) and are different (`Unique`).

`AiChatRows` shows for each transaction that the row it leaves `Replaces` the one it found:
it is good, and a worker notices only if its lease was given up, its attempt got a draft or
its call completed. `AiChatShownProofs` has a lemma per action: commands and settings spare
every worker (`Still`, `Grows`), a step of a worker spares the others (`Rewrites`).

### Only model-checked

- Liveness (`queue_origin`, `runtime`, `ai_selection`): out of the prover's reach.
- `BudgetHeld`: the spending of a day is a fold over the calls, and what a fold returns for
  a larger set needs induction over data.
- `ReplyStream`, `ReplyEdits` and the other modules with recursive scans: the same.
- The safety invariants of the remaining modules of `library`, `services`, `ai_tasks`,
  `delivery` and `runtime`. Most are within the prover's reach; nobody has written the
  inductive invariants yet.

## Not modelled

- Remote browsers, visual snapshots of discovery, the Zhihu session: I/O; their outcomes are
  the errors of the workers that call them.
- Parsing of feeds, pages, posts, terms and prompts; matching of rule phrases; search
  queries, statistics and the order of the ranked feed: pure functions or read-only queries.
- HTTP mapping, configuration, wiring, observability.
- `reprioritize_ready_jobs`, `article_history_links`, `migrate_rule_provenance`,
  `first_arrived_at`, the pause history, redirects of a source URL.
- Of the glossary: conflicting payloads under one update id, updates Telegram drops after a
  day, versions of the parser. Of the AI: the stream of a review, its refusals for length,
  for an empty reason or because the model was unable, pinyin and language checks, stream data after `[DONE]`, failures of the
  provider after a call was settled, a repeated settlement (it writes the same row) and
  `ai_budget_overrides`. Of the ranking: a delivery that joins a record with a published
  text to an article. Of requests: the second completion that the retry without validators reports to the
  observer. Of the schema: the refusal of retired notes.
- Sessions that expire by age, clock skew between the application and the database, and
  deadlocks that PostgreSQL resolves by aborting a statement.
