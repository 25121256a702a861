------------------------------ MODULE MCLibrary -----------------------------
(***************************************************************************)
(* One run over the parts that fill the library and show it: collection of *)
(* a source, publication of texts, subscriptions and their sources, rules  *)
(* applied to the archive, focused reading with the clock of its session,  *)
(* and the pages of the reader.  The parts share no state here; the        *)
(* initial state chooses the one that moves and the others stay in one of  *)
(* their initial states.                                                   *)
(***************************************************************************)
EXTENDS Naturals, Sequences

CONSTANTS Collectors, Items, MaxFeeds, FirstBatch, LaterBatch, MaxLosses, MaxPauses,
          Extractors, MaxRevision, MaxClock, MaxRuns,
          Clients, Workspaces, Urls, Recipes, SeedUrl, SeedKind, LegacyUrl, MaxSubs, MaxRev,
          MaxAsked, Ids, Foreign, Textual, Versions, Appliers, Limit, Attempts,
          Articles, MaxOps, MaxCalls, MaxOther, MaxMoves,
          Sessions, Plans, MaxNow, MaxEdits,
          Initial, Views, Gap, Micro, PageSize, MaxActs

VARIABLES part,
          feeds, web, active, rec, backlog, polled, fans, texts, refreshes, worker, lease, losses,
          pauses,
          embedded, record, page, jobs, cleanups, clock, manifest, staged, searched, unextracted,
          task, runs,
          subs, removed, keys, source_urls, sources, mapping, recipes, seeded, previews, pend,
          acked, reused, asked,
          here, text, rule, applications, applier, evaluated, scope, interruptions,
          versions, receipts, completions, entries, at, shown, epoch, locked, calls, rejected,
          patching, others,
          plan, now, saved, pointer, current, progress, failure, spent, reverted, edits,
          stored, delivered, events, view, rows, cursors, unread, writes, bulk, stray, poll, load,
          version, walk, foreign, uncounted, acts

Collecting == INSTANCE Collection
Extraction == INSTANCE Content WITH failure <- unextracted
Subscribing == INSTANCE Subscriptions
Applying == INSTANCE ArchiveRules WITH
    jobs <- applications, asked <- scope, losses <- interruptions
Focused == INSTANCE FocusedReading WITH events <- completions
Session == INSTANCE SessionClock
Reading == INSTANCE ReaderPages

collectionVars == <<feeds, web, active, rec, backlog, polled, fans, texts, refreshes, worker, lease,
                    losses, pauses>>
contentVars == <<embedded, record, page, jobs, cleanups, clock, manifest, staged, searched,
                 unextracted, task, runs>>
subscriptionVars == <<subs, removed, keys, source_urls, sources, mapping, recipes, seeded, previews,
                      pend, acked, reused, asked>>
ruleVars == <<here, text, rule, applications, applier, evaluated, scope, interruptions>>
focusedVars == <<versions, receipts, completions, entries, at, shown, epoch, locked, calls,
                 rejected, patching, others>>
sessionVars == <<plan, now, saved, pointer, current, progress, failure, spent, reverted, edits>>
pageVars == <<stored, delivered, events, view, rows, cursors, unread, writes, bulk, stray, poll,
              load, version, walk, foreign, uncounted, acts>>
vars == <<part, collectionVars, contentVars, subscriptionVars, ruleVars, focusedVars, sessionVars,
          pageVars>>

Parts == {"collection", "content", "subscriptions", "rules", "focused", "session", "pages"}

Init ==
    /\ part \in Parts
    /\ Collecting!Init /\ (part # "collection" => web /\ feeds[1] = [i \in Items |-> 1])
    /\ Extraction!Init /\ (part # "content" => embedded)
    /\ Subscribing!Init /\ Applying!Init
    /\ Focused!Init /\ (part # "focused" => entries[1].article = CHOOSE a \in Articles : TRUE)
    /\ Session!Init /\ (part # "session" => plan = [k \in {"smart", "random"} |-> 1])
    /\ Reading!Init

Next ==
    \/ /\ part = "collection" /\ Collecting!Next
       /\ UNCHANGED <<part, contentVars, subscriptionVars, ruleVars, focusedVars, sessionVars, pageVars>>
    \/ /\ part = "content" /\ Extraction!Next
       /\ UNCHANGED <<part, collectionVars, subscriptionVars, ruleVars, focusedVars, sessionVars, pageVars>>
    \/ /\ part = "subscriptions" /\ Subscribing!Next
       /\ UNCHANGED <<part, collectionVars, contentVars, ruleVars, focusedVars, sessionVars, pageVars>>
    \/ /\ part = "rules" /\ Applying!Next
       /\ UNCHANGED <<part, collectionVars, contentVars, subscriptionVars, focusedVars, sessionVars, pageVars>>
    \/ /\ part = "focused" /\ Focused!Next
       /\ UNCHANGED <<part, collectionVars, contentVars, subscriptionVars, ruleVars, sessionVars, pageVars>>
    \/ /\ part = "session" /\ Session!Next
       /\ UNCHANGED <<part, collectionVars, contentVars, subscriptionVars, ruleVars, focusedVars, pageVars>>
    \/ /\ part = "pages" /\ Reading!Next
       /\ UNCHANGED <<part, collectionVars, contentVars, subscriptionVars, ruleVars, focusedVars, sessionVars>>

Spec == Init /\ [][Next]_vars

\* The rules alone.
RulesSpec == Init /\ part = "rules" /\ [][Next]_vars

-----------------------------------------------------------------------------
\* Nothing a feed offered is lost: every record of a poll is stored, waits in the
\* backlog or was never new, the backlog holds only records the library does not
\* know, and a record that is stored for the first time is fanned out (Collection).
NothingLost ==
    part = "collection" =>
        Collecting!NothingSkipped /\ Collecting!BacklogUnknown /\ Collecting!FirstFannedOut

\* What readers see is one whole snapshot, and the body of an embedded source is
\* published under its own revision (Content).
SnapshotExact == part = "content" => Extraction!SnapshotExact

\* Versions only move forward, whoever commits late: a revision of a record names one
\* text (Collection), the published text never steps back (Content), and no article is
\* evaluated for a former version of a rule (ArchiveRules).
VersionsForward ==
    [][/\ part = "collection" => Collecting!RevisionNamesText
       /\ part = "content" => Extraction!PublishedForward
       /\ part = "rules" => Applying!EditEndsApplication]_vars

\* Subscriptions, reservations and sources agree however commands interleave: a
\* workspace has an address once, a reserved address belongs to a live subscription,
\* subscriptions to one address share its source, one with a recipe is collected with
\* that recipe, and no acknowledged edit is overwritten (Subscriptions).
SubscriptionsAgree ==
    part = "subscriptions" =>
        /\ Subscribing!UrlOnce /\ Subscribing!KeyLive
        /\ Subscribing!SourceShared /\ Subscribing!RecipeCollected
        /\ Subscribing!EditsKept

\* An application shown as completed has evaluated every article it was asked for
\* (ArchiveRules).
CompletedMeansAll == part = "rules" => Applying!CompletedMeansAll

\* A rule applied to the archive marks only articles of its subscription
\* (ArchiveRules).
ScopeHeld == part = "rules" => Applying!ScopeHeld

\* A completion that the handler refused to the reader was not applied, before or
\* after (FocusedReading).
NeverDisowned == part = "focused" => Focused!NeverDisowned

\* Undo gives back the marks from before the completion, and the history has one
\* event for every article that became read (FocusedReading).
CompletionExact == part = "focused" => Focused!UndoRestores /\ Focused!HistoryExact

\* The time of a session is neither lost nor counted twice, unless a change was half
\* saved and written over, and a saved session can be read again (SessionClock).
SessionKept == part = "session" => Session!TimeKept /\ Session!SavedReadable

\* Once nothing is in flight the list shows the stored marks, the unread counter is
\* exact, and older pages show every article once (ReaderPages).
ListExact == part = "pages" => Reading!ShownIsStored /\ Reading!CounterExact /\ Reading!OlderExact
=============================================================================
