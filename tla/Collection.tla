----------------------------- MODULE Collection -----------------------------
(* The collection of one source: the poll handlers of reader-ingest         *)
(* (engine/mod.rs: poll, collect_web_feed) over the store's poll.rs and      *)
(* backlog.rs.  The first response may be larger than the first batch; the   *)
(* rest waits in poll_backlog and later polls drain it before they fetch     *)
(* again.  A feed is asked conditionally, with the validators of the last    *)
(* commit, so what a commit forgets is never listed again.                   *)
(*                                                                          *)
(* A response is the listing of the source, a text for every item it lists;  *)
(* its position in `feeds' is its ETag.  Leases of collection work are       *)
(* module JobQueue: here the lease passes from worker to worker and may be   *)
(* lost at any time, and only its holder commits (assert_lease).             *)
EXTENDS Naturals, Sequences, FiniteSets, SequencesExt, FiniteSetsExt

CONSTANTS Collectors,   \* ingest workers
          Items,        \* upstream identities of the source, numbered as it lists them
          MaxFeeds,     \* bound: versions of the listing
          FirstBatch,   \* initial_feed_items
          LaterBatch,   \* fanout_batch
          MaxLosses,    \* bound: lost leases
          MaxPauses     \* bound: changes of the set of active subscriptions

VARIABLES feeds,        \* the listings so far: Items -> text, 0 when not listed
          web,          \* a web page or a built-in adapter: no validators
          active,       \* some subscription takes deliveries
          rec,          \* source_records: revision 0 when there is none
          backlog,      \* poll_backlog in its order
          polled,       \* content_refresh_state: last response and validators
          fans,         \* fan-out jobs, by item and revision
          texts,        \* full-text jobs, by item and revision
          refreshes,    \* continuation jobs (RefreshSource), by last item
          worker,       \* what each worker is about to commit
          lease,        \* the worker whose lease is live
          losses, pauses

cvars == <<feeds, web, active, rec, backlog, polled, fans, texts, refreshes, worker, lease, losses,
           pauses>>

Resting == [pc |-> "resting"]
NoLease == "none"
Listed(n) == {i \in Items : feeds[n][i] # 0}

\* has_committed_poll
has_committed_poll == polled.fetched # 0

\* SourceRecord::revise and revise_from_record: a changed key regroups, any
\* other change refreshes.  from_parsed: a record not seen before.
from_parsed(i, text) == [item |-> i, revision |-> 1, text |-> text, action |-> "deliver"]
revise(i, text, effect) ==
    [item |-> i, revision |-> rec[i].revision + 1, text |-> text, action |-> effect]

\* What response n asks for, in its order; nothing of an unchanged item.
changed(n) == {i \in Listed(n) : rec[i].text # feeds[n][i]}
polled_records(n, effects) ==
    LET of(i) == IF rec[i].revision = 0 THEN from_parsed(i, feeds[n][i])
                 ELSE revise(i, feeds[n][i], effects[i])
    IN  [k \in 1..Cardinality(changed(n)) |-> of(SetToSortSeq(changed(n), <)[k])]
Effects(n) == [{i \in changed(n) : rec[i].revision # 0} -> {"refresh", "regroup"}]

-----------------------------------------------------------------------------
(* Reading: what a handler does before its commit.                         *)

claim(c) == /\ lease = NoLease /\ worker[c] = Resting
            /\ lease' = c
            /\ worker' = [worker EXCEPT ![c] = [pc |-> "claimed"]]
            /\ UNCHANGED <<feeds, web, active, rec, backlog, polled, fans, texts, refreshes, losses, pauses>>

\* Nobody to deliver to: no poll.
active_delivery_count(c) ==
    /\ worker[c].pc = "claimed" /\ ~active
    /\ worker' = [worker EXCEPT ![c] = Resting]
    /\ lease' = IF lease = c THEN NoLease ELSE lease
    /\ UNCHANGED <<feeds, web, active, rec, backlog, polled, fans, texts, refreshes, losses, pauses>>

\* pending_poll_batch: the next rows of the backlog under their own context.
pending_poll_batch(c) ==
    /\ worker[c].pc = "claimed" /\ active /\ backlog # <<>>
    /\ LET rows == SubSeq(backlog, 1, Min({LaterBatch, Len(backlog)})) IN
       worker' = [worker EXCEPT ![c] =
           IF \E b \in ToSet(rows) : b.context # rows[1].context THEN [pc |-> "failed"]
           ELSE [pc |-> "commit", records |-> [k \in DOMAIN rows |-> rows[k].record],
                 remainder |-> <<>>, fetched |-> rows[1].context,
                 incomplete |-> Len(backlog) > LaterBatch]]
    /\ UNCHANGED <<feeds, web, active, rec, backlog, polled, fans, texts, refreshes, lease, losses, pauses>>

\* Mutant: the rest of the first response is dropped.
split_dropped(all) == <<SubSeq(all, 1, Min({FirstBatch, Len(all)})), <<>>>>

\* The first response is split after initial_feed_items, a later one never.
split(all) ==
    IF ~has_committed_poll /\ Len(all) > FirstBatch
    THEN <<SubSeq(all, 1, FirstBatch), SubSeq(all, FirstBatch + 1, Len(all))>>
    ELSE <<all, <<>>>>

prepared(c, n, all) ==
    worker' = [worker EXCEPT ![c] =
        [pc |-> "commit", records |-> split(all)[1], remainder |-> split(all)[2], fetched |-> n,
         incomplete |-> ~has_committed_poll /\ Cardinality(Listed(n)) > FirstBatch]]

\* poll: a conditional request; the answer may be that nothing changed.
poll(c) ==
    /\ worker[c].pc = "claimed" /\ active /\ backlog = <<>> /\ ~web
    /\ IF polled.validators = Len(feeds)
       THEN worker' = [worker EXCEPT ![c] = [pc |-> "unchanged"]]
       ELSE \E effects \in Effects(Len(feeds)) :
                prepared(c, Len(feeds), polled_records(Len(feeds), effects))
    /\ UNCHANGED <<feeds, web, active, rec, backlog, polled, fans, texts, refreshes, lease, losses, pauses>>

\* collect_web_feed: no validators, and an empty page after a success is an error.
collect_web_feed(c) ==
    /\ worker[c].pc = "claimed" /\ active /\ backlog = <<>> /\ web
    /\ IF has_committed_poll /\ Listed(Len(feeds)) = {}
       THEN worker' = [worker EXCEPT ![c] = [pc |-> "failed"]]
       ELSE \E effects \in Effects(Len(feeds)) :
                prepared(c, Len(feeds), polled_records(Len(feeds), effects))
    /\ UNCHANGED <<feeds, web, active, rec, backlog, polled, fans, texts, refreshes, lease, losses, pauses>>

-----------------------------------------------------------------------------
(* The commit of a poll.                                                   *)

assert_lease(c) == lease = c

\* backlog::persist: the remainder is stored and the committed rows leave.
persist(commit) ==
    LET rest == [k \in DOMAIN commit.remainder |->
                    [record |-> commit.remainder[k], context |-> commit.fetched]]
    IN  SelectSeq(backlog \o rest,
                  LAMBDA b : \A r \in ToSet(commit.records) : r.item # b.record.item)

\* Deliver and Regroup go to the subscriptions, RefreshContent does not.
delivered(r) == r.action \in {"deliver", "regroup"}

stored(commit) ==
    [i \in Items |->
        IF \E r \in ToSet(commit.records) : r.item = i
        THEN LET r == CHOOSE r \in ToSet(commit.records) : r.item = i
             IN  [revision |-> r.revision, text |-> r.text]
        ELSE rec[i]]

\* commit_poll: one transaction of the lease's holder.
commit_poll(c) ==
    LET commit == worker[c] IN
    /\ commit.pc = "commit" /\ assert_lease(c)
    /\ rec' = stored(commit)
    /\ backlog' = persist(commit)
    /\ fans' = fans \cup {<<r.item, r.revision>> : r \in {q \in ToSet(commit.records) : delivered(q)}}
    /\ texts' = texts \cup {<<r.item, r.revision>> : r \in ToSet(commit.records)}
    /\ polled' = [fetched |-> commit.fetched, validators |-> IF web THEN 0 ELSE commit.fetched]
    /\ refreshes' = IF commit.incomplete THEN refreshes \cup {Last(commit.records).item} ELSE refreshes
    /\ worker' = [worker EXCEPT ![c] = Resting]
    /\ lease' = NoLease
    /\ UNCHANGED <<feeds, web, active, losses, pauses>>

\* record_source_success after an unchanged answer, an error, or a commit
\* refused because the lease is gone: no record changes.
finish(c) ==
    /\ \/ worker[c].pc \in {"unchanged", "failed"}
       \/ worker[c].pc = "commit" /\ ~assert_lease(c)
    /\ worker' = [worker EXCEPT ![c] = Resting]
    /\ lease' = IF lease = c THEN NoLease ELSE lease
    /\ UNCHANGED <<feeds, web, active, rec, backlog, polled, fans, texts, refreshes, losses, pauses>>

\* The deadline passes under a working collector, or its process ends.
LoseLease(c) ==
    /\ lease = c /\ losses < MaxLosses
    /\ lease' = NoLease /\ losses' = losses + 1
    /\ \/ UNCHANGED worker
       \/ worker' = [worker EXCEPT ![c] = Resting]
    /\ UNCHANGED <<feeds, web, active, rec, backlog, polled, fans, texts, refreshes, pauses>>

\* The publisher adds, changes or drops an item.
Publish == /\ Len(feeds) < MaxFeeds
           /\ \E i \in Items, text \in {0, Len(feeds) + 1} :
                  feeds' = Append(feeds, [Last(feeds) EXCEPT ![i] = text])
           /\ UNCHANGED <<web, active, rec, backlog, polled, fans, texts, refreshes, worker, lease, losses, pauses>>

Activity == /\ pauses < MaxPauses /\ pauses' = pauses + 1
            /\ active' = ~active
            /\ UNCHANGED <<feeds, web, rec, backlog, polled, fans, texts, refreshes, worker, lease, losses>>

Init == /\ feeds \in {<<[i \in Items |-> IF i \in S THEN 1 ELSE 0]>> : S \in SUBSET Items}
        /\ web \in BOOLEAN /\ active = TRUE
        /\ rec = [i \in Items |-> [revision |-> 0, text |-> 0]]
        /\ backlog = <<>> /\ polled = [fetched |-> 0, validators |-> 0]
        /\ fans = {} /\ texts = {} /\ refreshes = {}
        /\ worker = [c \in Collectors |-> Resting] /\ lease = NoLease /\ losses = 0 /\ pauses = 0

Handle(c) == \/ claim(c) \/ active_delivery_count(c) \/ pending_poll_batch(c) \/ poll(c)
             \/ collect_web_feed(c) \/ commit_poll(c) \/ finish(c)

Next == \/ \E c \in Collectors : Handle(c) \/ LoseLease(c)
        \/ Publish \/ Activity

Spec == Init /\ [][Next]_cvars

-----------------------------------------------------------------------------
(* Properties.                                                             *)

\* What the validators acknowledge is stored: every item of the last committed
\* response has its text in source_records or waits in the backlog.  Otherwise
\* the next conditional answer ("not modified") would lose it.
NothingSkipped ==
    has_committed_poll =>
        \A i \in Listed(polled.fetched) :
            \/ rec[i].text = feeds[polled.fetched][i]
            \/ \E b \in ToSet(backlog) : b.record.item = i /\ b.record.text = feeds[polled.fetched][i]

\* An item of the backlog is still unknown: no poll overtakes the backlog and
\* no batch is committed twice.
BacklogUnknown == \A b \in ToSet(backlog) : rec[b.record.item].revision = 0

\* Every record was sent to the subscriptions when it was found, from a batch
\* of the backlog too.
FirstFannedOut == \A i \in Items : rec[i].revision # 0 => <<i, 1>> \in fans

\* A revision number names one text: a collector that lost its lease while it
\* prepared a commit cannot give a second text to a revision in use.
RevisionNamesText ==
    \A i \in Items : /\ rec'[i].revision >= rec[i].revision
                     /\ rec'[i].revision = rec[i].revision => rec'[i] = rec[i]
=============================================================================
