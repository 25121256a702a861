----------------------------- MODULE Bootstrap ------------------------------
(***************************************************************************)
(* Which articles of a new subscription automatic AI work may touch:       *)
(* reader-storage-postgres/src/ai_bootstrap.rs and schema/ai_bootstrap.sql *)
(* with the polls and deliveries that drive them.  The records collected   *)
(* until the first complete poll are "initial"; when all of them have been *)
(* delivered the newest InitialArticles articles are selected, once.       *)
(*                                                                         *)
(* One subscription of a source that others read too.  A record is a       *)
(* number, newer ones are larger; delivery groups records into articles.   *)
(***************************************************************************)
EXTENDS Naturals, Sequences, FiniteSets, SequencesExt, FiniteSetsExt, Functions, TLC

CONSTANTS
    MaxRecord,        \* bound: records of the source
    Articles,         \* articles of the library
    InitialArticles,  \* ai.initial_articles
    Batch,            \* ingest.initial_feed_items: first batch, backfill limit
    MaxChanges        \* bound: changed records a poll finds, hidings

VARIABLES
    discovered,  \* ai_record_discovery: the records in order of discovery
    backlog,     \* poll_backlog: the rest of a long first response
    fan,         \* records a FanOut job is to deliver
    phase,       \* of the subscription: absent, collecting, frozen, ready
    cutoff,      \* the frozen length of the discovery
    initial,     \* subscription_ai_initial_records
    selected,    \* subscription_ai_selected
    origin,      \* library_origins: delivered record -> article
    tx,          \* open delivery transactions
    hidden,      \* articles hidden by a rule
    changes

bvars == <<discovered, backlog, fan, phase, cutoff, initial, selected, origin, tx, hidden, changes>>

Known == Range(discovered)

\* The newest n records of S (ORDER BY publication_order DESC LIMIT n).
Newest(S, n) == {r \in S : Cardinality({q \in S : q > r}) < n}

-----------------------------------------------------------------------------
(* reader_ai_finalize_subscription.                                        *)

\* The newest record of each visible article.
best(init, seen) ==
    {r \in init : /\ seen[r] \notin hidden
                  /\ \A q \in init : seen[q] = seen[r] => q <= r}

\* One record for each of the newest visible articles.
choose(init, seen) == Newest(best(init, seen), InitialArticles)

\* finish_poll: the boundary is frozen, and the selection made if it can be.
freeze(known, init) ==
    IF phase = "collecting"
    THEN /\ cutoff' = Len(known)
         /\ IF init \subseteq DOMAIN origin
            THEN phase' = "ready" /\ selected' = choose(init, origin)
            ELSE phase' = "frozen" /\ UNCHANGED selected
    ELSE UNCHANGED <<cutoff, phase, selected>>

\* Mutant: a delivery does not lock the subscription's row.
unlocked_always(r) == TRUE

\* SELECT ... FOR UPDATE: one transaction at a time finalizes.
unlocked(r) == \A q \in DOMAIN tx : tx[q].pc # "checked"

-----------------------------------------------------------------------------
(* Polls, under the source's lock.                                         *)

registered(found) == IF phase = "collecting" THEN initial \cup found ELSE initial

\* A poll finds new records, and old ones whose content or identity changed.
commit_poll(new, refreshed, regrouped) ==
    LET first == IF Known = {} THEN Newest(new, Batch) ELSE new
        found == new \cup refreshed \cup regrouped
        known == discovered \o SetToSortSeq(new, >)
    IN  /\ backlog = {} /\ unlocked(0)
        /\ discovered' = known
        /\ backlog' = new \ first
        /\ fan' = fan \cup first \cup regrouped
        /\ initial' = registered(found)
        /\ IF backlog' = {} THEN freeze(known, initial') ELSE UNCHANGED <<cutoff, phase, selected>>
        /\ changes' = changes + Cardinality(refreshed \cup regrouped)
        /\ UNCHANGED <<origin, tx, hidden>>

Poll == \E n \in 0..3, refreshed \in SUBSET Known : \E regrouped \in SUBSET (Known \ refreshed) :
            /\ Len(discovered) + n <= MaxRecord
            /\ n = 0 => refreshed \cup regrouped # {}
            /\ changes + Cardinality(refreshed \cup regrouped) <= MaxChanges
            /\ commit_poll((Len(discovered) + 1)..(Len(discovered) + n), refreshed, regrouped)

\* The next batch of a long first response.
pending_poll ==
    LET batch == Newest(backlog, Batch) IN
    /\ backlog # {} /\ unlocked(0)
    /\ backlog' = backlog \ batch
    /\ fan' = fan \cup batch
    /\ initial' = registered(batch)
    /\ IF backlog' = {} THEN freeze(discovered, initial') ELSE UNCHANGED <<cutoff, phase, selected>>
    /\ UNCHANGED <<discovered, origin, tx, hidden, changes>>

\* 304 Not Modified, or a response with nothing in it: record_source_success.
not_modified == /\ backlog = {} /\ unlocked(0)
                /\ phase = "collecting"
                /\ freeze(discovered, initial)
                /\ UNCHANGED <<discovered, backlog, fan, initial, origin, tx, hidden, changes>>

\* What a new subscription starts with: the backfill and the backlog.
started(backfill) == backfill \cup backlog

\* provision_subscription_tx: create_subscription, then enqueue_backfill_tx.
subscribe ==
    LET backfill == Newest(Known \ backlog, Batch) IN
    /\ phase = "absent"
    /\ phase' = "collecting"
    /\ initial' = started(backfill)
    /\ fan' = fan \cup backfill
    /\ UNCHANGED <<discovered, backlog, cutoff, selected, origin, tx, hidden, changes>>

-----------------------------------------------------------------------------
(* Delivery to the subscription: the origin is written, the trigger        *)
(* finalizes, the transaction commits.                                     *)

\* Before it exists a record is delivered to the others only.
deliver_others(r) ==
    /\ phase = "absent"
    /\ fan' = fan \ {r}
    /\ UNCHANGED <<discovered, backlog, phase, cutoff, initial, selected, origin, tx, hidden, changes>>

insert_origin(r, a) ==
    /\ r \in fan \ DOMAIN tx /\ phase # "absent"
    /\ tx' = tx @@ (r :> [pc |-> "inserted", article |-> a, ready |-> FALSE, selected |-> {}])
    /\ UNCHANGED <<discovered, backlog, fan, phase, cutoff, initial, selected, origin, hidden, changes>>

reader_ai_origin_candidate(r) ==
    LET seen == (r :> tx[r].article) @@ origin
        complete == phase = "frozen" /\ initial \subseteq DOMAIN seen
    IN  /\ tx[r].pc = "inserted" /\ unlocked(r)
        /\ tx' = [tx EXCEPT ![r].pc = "checked", ![r].ready = complete,
                            ![r].selected = IF complete THEN choose(initial, seen) ELSE {}]
        /\ UNCHANGED <<discovered, backlog, fan, phase, cutoff, initial, selected, origin, hidden,
                       changes>>

deliver_commit(r) ==
    /\ tx[r].pc = "checked"
    /\ origin' = (r :> tx[r].article) @@ origin
    /\ fan' = fan \ {r}
    /\ phase' = IF tx[r].ready THEN "ready" ELSE phase
    /\ selected' = IF tx[r].ready THEN tx[r].selected ELSE selected
    /\ tx' = Restrict(tx, DOMAIN tx \ {r})
    /\ UNCHANGED <<discovered, backlog, cutoff, initial, hidden, changes>>

\* Rules hide an article or show it again.
Hide(a) == /\ changes < MaxChanges /\ changes' = changes + 1
           /\ hidden' = IF a \in hidden THEN hidden \ {a} ELSE hidden \cup {a}
           /\ UNCHANGED <<discovered, backlog, fan, phase, cutoff, initial, selected, origin, tx>>

-----------------------------------------------------------------------------
\* reader_ai_automatic_allowed.
allowed(a) ==
    /\ phase = "ready" /\ a \notin hidden
    /\ \E r \in DOMAIN origin : /\ origin[r] = a
                                /\ r \in selected \/ r \notin Range(SubSeq(discovered, 1, cutoff))

Init == /\ discovered = <<>> /\ backlog = {} /\ fan = {} /\ phase = "absent" /\ cutoff = 0
        /\ initial = {} /\ selected = {} /\ origin = <<>> /\ tx = <<>> /\ hidden = {} /\ changes = 0

Deliver(r) == \/ deliver_others(r)
              \/ \E a \in Articles : insert_origin(r, a)
              \/ r \in DOMAIN tx /\ (reader_ai_origin_candidate(r) \/ deliver_commit(r))

Next == \/ Poll \/ pending_poll \/ not_modified \/ subscribe
        \/ \E r \in fan : Deliver(r)
        \/ \E a \in Articles : Hide(a)

Spec == Init /\ [][Next]_bvars

\* The queue runs its deliveries, polls recur and continue.
Fair == /\ \A r \in 1..MaxRecord : WF_bvars(r \in fan /\ Deliver(r))
        /\ WF_bvars(pending_poll) /\ WF_bvars(not_modified)

FairSpec == Spec /\ Fair

-----------------------------------------------------------------------------
(* Properties.                                                             *)

\* No delivery of the last initial record is overlooked, neither by another
\* delivery in progress nor by the poll that freezes the boundary: when all of
\* them are there and no transaction is open, the selection has been made.
NothingOverlooked ==
    phase = "frozen" /\ tx = <<>> => ~(initial \subseteq DOMAIN origin)

\* However records are regrouped and articles hidden or shown later, no more
\* than InitialArticles articles of the archive are open to automatic work.
AllowanceHolds ==
    Cardinality({a \in Articles :
        /\ allowed(a)
        /\ \A r \in DOMAIN origin : origin[r] = a => r \in Range(SubSeq(discovered, 1, cutoff))})
    <= InitialArticles

\* A subscription added while a long first response is still being worked off
\* has the rest of it among its initial records.
BacklogIsInitial == phase = "collecting" => backlog \subseteq initial

\* The selection of a subscription is made in the end, after which "later new
\* records are processed as usual" (docs/designs/subscription-ai-bootstrap.md).
SelectionMade == phase = "collecting" ~> phase = "ready"
=============================================================================
