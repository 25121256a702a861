------------------------------ MODULE Glossary ------------------------------
(***************************************************************************)
(* The glossary of one Telegram channel (crates/reader-glossary and the    *)
(* glossary store): workers that lease the channel and poll the bot's      *)
(* updates, workers that lease and read the public history page by page,   *)
(* the archive import, the projector that turns stored updates into posts, *)
(* and the command that reindexes them.  Telegram is external: it keeps    *)
(* the updates until a request names a later offset.                       *)
(*                                                                         *)
(* A post is the number of its version: 1 is the original, later numbers   *)
(* are edits.  Two edits may fall into the same second (edit_date).        *)
(***************************************************************************)
EXTENDS Naturals, Sequences, FiniteSets

CONSTANTS Pollers, Readers,  \* polling and history workers, of any process
          Archived,          \* messages 1..Archived exist when the archive is made
          MaxMessages, MaxVersion, MaxUpdates,
          Batch,             \* updates of one getUpdates answer
          MaxLosses,         \* crashes and leases that run out
          MaxFailures,       \* updates the projector cannot parse at first
          MaxPasses          \* passes over the public history

VARIABLES versions,    \* the channel itself: the latest version of each message
          updates,     \* the updates Telegram issued; the id is the index
          forgotten,   \* Telegram dropped the updates below this id
          configured, cursor, poll_lease, polling,
          events,      \* the stored update id -> "pending", "applied" or "failed"
          posts,       \* glossary_posts
          inventory, receipts, import_complete,
          history_before, history_lease, reading,
          passed, passes,   \* the messages the current pass has applied
          losses, failures

gvars == <<versions, updates, forgotten, configured, cursor, poll_lease, polling,
           events, posts, inventory, receipts, import_complete, history_before,
           history_lease, reading, passed, passes, losses, failures>>

Messages == 1 .. MaxMessages
Nobody == "nobody"
Waiting == [at |-> "waiting"]
Unknown == [version |-> 0, edited |-> 0, kind |-> "none", conflicted |-> FALSE]

\* edit_date of a version: none (0) for the original, in seconds for an edit, so
\* the second and the third version carry the same one.
edit_date(v) == v \div 2

Init ==
    /\ versions = [m \in Messages |-> IF m <= Archived THEN 1 ELSE 0]
    /\ updates = <<>> /\ forgotten = 1
    /\ configured = FALSE /\ cursor = 0 /\ poll_lease = Nobody
    /\ polling = [w \in Pollers |-> Waiting]
    /\ events = <<>> /\ posts = [m \in Messages |-> Unknown]
    /\ inventory = FALSE /\ receipts = {} /\ import_complete = FALSE
    /\ history_before = 0 /\ history_lease = Nobody
    /\ reading = [w \in Readers |-> Waiting]
    /\ passed = {} /\ passes = 0 /\ losses = 0 /\ failures = 0

\* The channel publishes or edits a message and Telegram queues an update for the bot.
publish(m) ==
    /\ Len(updates) < MaxUpdates /\ versions[m] < MaxVersion
    /\ m > 1 => versions[m - 1] > 0
    /\ versions' = [versions EXCEPT ![m] = @ + 1]
    /\ updates' = Append(updates, [message |-> m, version |-> versions[m] + 1])
    /\ UNCHANGED <<forgotten, configured, cursor, poll_lease, polling, events, posts,
                   inventory, receipts, import_complete, history_before, history_lease, reading,
                   passed, passes, losses, failures>>

-----------------------------------------------------------------------------
(* Projection of one observation onto the stored post.                     *)

\* A Bot API message knows its edit date; an archive record or a page does not.
edited_at(v, kind) == IF kind = "bot" THEN edit_date(v) ELSE 0

newer_by_arrival(old, v, kind) ==
    \/ old.version = v /\ old.kind = kind
    \/ kind = "bot"

newer(old, v, kind) ==
    \/ old.version = v /\ old.kind = kind
    \/ kind = "bot" /\ edit_date(v) > old.edited

apply_post(old, v, kind) ==
    CASE old = Unknown ->
           [version |-> v, edited |-> edited_at(v, kind), kind |-> kind,
            conflicted |-> FALSE]
      [] old # Unknown /\ old.version = v ->
           IF kind = "bot" /\ edit_date(v) > old.edited
             THEN [old EXCEPT !.edited = edit_date(v), !.kind = kind]
             ELSE old
      [] old # Unknown /\ old.version # v /\ newer(old, v, kind) ->
           [version |-> v, edited |-> edited_at(v, kind), kind |-> kind,
            conflicted |-> FALSE]
      [] OTHER ->
           IF \/ edited_at(v, kind) # 0 /\ edited_at(v, kind) < old.edited
              \/ kind = "archive" /\ old.kind = "bot"
             THEN old
             ELSE [old EXCEPT !.conflicted = TRUE]

\* One run of the projector: the first pending update, in the order of the ids.  An
\* update it cannot read is kept with the error.
pending == {i \in DOMAIN events : events[i] = "pending"}

project_events ==
    /\ configured /\ pending # {}
    /\ \E i \in pending :
         /\ \A j \in pending : i <= j
         /\ \/ /\ events' = [events EXCEPT ![i] = "applied"]
               /\ posts' = [posts EXCEPT ![updates[i].message] =
                              apply_post(@, updates[i].version, "bot")]
               /\ UNCHANGED failures
            \/ /\ failures < MaxFailures /\ failures' = failures + 1
               /\ events' = [events EXCEPT ![i] = "failed"]
               /\ UNCHANGED posts
    /\ UNCHANGED <<versions, updates, forgotten, configured, cursor, poll_lease,
                   polling, inventory, receipts, import_complete, history_before, history_lease,
                   reading, passed, passes, losses>>

\* Every post is projected again from its own source, which leaves it as it is, and
\* the failed updates become pending.
reindex ==
    /\ \E i \in DOMAIN events : events[i] = "failed"
    /\ events' = [i \in DOMAIN events |->
                    IF events[i] = "failed" THEN "pending" ELSE events[i]]
    /\ posts' = [m \in Messages |->
                   IF posts[m] = Unknown THEN Unknown
                   ELSE apply_post(posts[m], posts[m].version, posts[m].kind)]
    /\ UNCHANGED <<versions, updates, forgotten, configured, cursor, poll_lease,
                   polling, inventory, receipts, import_complete, history_before, history_lease,
                   reading, passed, passes, losses, failures>>

-----------------------------------------------------------------------------
(* Polling the bot.                                                        *)

\* Refused while a poll holds the channel.
configure ==
    /\ poll_lease = Nobody /\ ~configured /\ configured' = TRUE
    /\ UNCHANGED <<versions, updates, forgotten, cursor, poll_lease, polling, events,
                   posts, inventory, receipts, import_complete, history_before, history_lease,
                   reading, passed, passes, losses, failures>>

lease_poll(w) ==
    /\ configured /\ poll_lease = Nobody /\ polling[w] = Waiting
    /\ poll_lease' = w
    /\ polling' = [polling EXCEPT ![w] = [at |-> "claimed", offset |-> cursor]]
    /\ UNCHANGED <<versions, updates, forgotten, configured, cursor, events, posts,
                   inventory, receipts, import_complete, history_before, history_lease, reading,
                   passed, passes, losses, failures>>

largest(a, b) == IF a > b THEN a ELSE b

\* getUpdates: Telegram forgets what is below the offset and answers with the rest.
get_updates(w) ==
    /\ polling[w].at = "claimed"
    /\ forgotten' = largest(forgotten, polling[w].offset)
    /\ polling' = [polling EXCEPT ![w] =
                     [at |-> "fetched",
                      ids |-> {i \in DOMAIN updates :
                                 forgotten' <= i /\ i < forgotten' + Batch}]]
    /\ UNCHANGED <<versions, updates, configured, cursor, poll_lease, events, posts,
                   inventory, receipts, import_complete, history_before, history_lease, reading,
                   passed, passes, losses, failures>>

next_offset(ids) == 1 + (CHOOSE i \in ids : \A j \in ids : j <= i)

holds_poll(w) == poll_lease = w

\* The updates and the cursor are stored together, and only under the lease.
persist_batch(w) ==
    LET ids == polling[w].ids IN
    IF holds_poll(w) /\ ids # {}
      THEN /\ events' = [i \in DOMAIN events \cup ids |->
                           IF i \in DOMAIN events THEN events[i] ELSE "pending"]
           /\ cursor' = next_offset(ids)
      ELSE UNCHANGED <<events, cursor>>

release_poll(w) == poll_lease' = IF holds_poll(w) THEN Nobody ELSE poll_lease

\* The end of a poll: commit the batch, give the lease back.
poll_once(w) ==
    /\ polling[w].at = "fetched"
    /\ polling' = [polling EXCEPT ![w] = Waiting]
    /\ persist_batch(w) /\ release_poll(w)
    /\ UNCHANGED <<versions, updates, forgotten, configured, posts, inventory, receipts,
                   import_complete, history_before, history_lease, reading, passed,
                   passes, losses, failures>>

\* The lease runs out while its worker is still busy, or after it died.
poll_lost ==
    /\ poll_lease # Nobody /\ losses < MaxLosses /\ losses' = losses + 1
    /\ poll_lease' = Nobody
    /\ \/ UNCHANGED polling
       \/ polling' = [polling EXCEPT ![poll_lease] = Waiting]
    /\ UNCHANGED <<versions, updates, forgotten, configured, cursor, events, posts,
                   inventory, receipts, import_complete, history_before, history_lease, reading,
                   passed, passes, failures>>

-----------------------------------------------------------------------------
(* The archive, and the public history.                                    *)

begin_archive ==
    /\ ~inventory /\ inventory' = TRUE
    /\ UNCHANGED <<versions, updates, forgotten, configured, cursor, poll_lease,
                   polling, events, posts, receipts, import_complete, history_before,
                   history_lease, reading, passed, passes, losses, failures>>

\* The command imports the records in the order of the file; it may stop anywhere and
\* be run again from the first record.
import_reaches(m) == inventory /\ m <= Archived /\ (m = 1 \/ m - 1 \in receipts)

\* One record, one transaction.
import_post(m) ==
    /\ import_reaches(m)
    /\ receipts' = receipts \cup {m}
    /\ posts' = [posts EXCEPT ![m] = apply_post(@, 1, "archive")]
    /\ UNCHANGED <<versions, updates, forgotten, configured, cursor, poll_lease,
                   polling, events, inventory, import_complete, history_before, history_lease,
                   reading, passed, passes, losses, failures>>

finish_archive ==
    /\ Cardinality(receipts) = Archived
    /\ import_complete' = TRUE
    /\ UNCHANGED <<versions, updates, forgotten, configured, cursor, poll_lease,
                   polling, events, posts, inventory, receipts, history_before, history_lease,
                   reading, passed, passes, losses, failures>>

lease_history(w) ==
    /\ import_complete /\ history_lease = Nobody /\ reading[w] = Waiting
    /\ passes < MaxPasses
    /\ history_lease' = w
    /\ reading' = [reading EXCEPT ![w] = [at |-> "claimed", before |-> history_before]]
    /\ UNCHANGED <<versions, updates, forgotten, configured, cursor, poll_lease,
                   polling, events, posts, inventory, receipts, import_complete, history_before,
                   passed, passes, losses, failures>>

\* A page of the public history holds one message; it names the page before it.
shown(before) == {m \in Messages : versions[m] > 0 /\ (before = 0 \/ m < before)}

get_page(w) ==
    /\ reading[w].at = "claimed"
    /\ LET older == shown(reading[w].before)
           m == CHOOSE x \in older : \A y \in older : y <= x
       IN reading' = [reading EXCEPT ![w] =
                        [at |-> "fetched", message |-> m, version |-> versions[m],
                         next |-> IF m > 1 THEN m ELSE 0]]
    /\ UNCHANGED <<versions, updates, forgotten, configured, cursor, poll_lease,
                   polling, events, posts, inventory, receipts, import_complete, history_before,
                   history_lease, passed, passes, losses, failures>>

holds_history(w) == history_lease = w

\* persist_page: the posts and the place to continue, under the lease.  A stale page
\* is refused.
persist_page(w) ==
    /\ reading[w].at = "fetched"
    /\ reading' = [reading EXCEPT ![w] = Waiting]
    /\ IF holds_history(w)
         THEN /\ posts' = [posts EXCEPT ![reading[w].message] =
                             apply_post(@, reading[w].version, "public")]
              /\ history_before' = reading[w].next
              /\ history_lease' = Nobody
              /\ passed' = IF history_before = 0 THEN {reading[w].message}
                           ELSE passed \cup {reading[w].message}
              /\ passes' = IF reading[w].next = 0 THEN passes + 1 ELSE passes
         ELSE UNCHANGED <<posts, history_before, history_lease, passed, passes>>
    /\ UNCHANGED <<versions, updates, forgotten, configured, cursor, poll_lease,
                   polling, events, inventory, receipts, import_complete, losses, failures>>

\* The page cannot be read: the lease is given back and the place kept.
release_history(w) ==
    /\ reading[w].at = "claimed"
    /\ reading' = [reading EXCEPT ![w] = Waiting]
    /\ history_lease' = IF holds_history(w) THEN Nobody ELSE history_lease
    /\ UNCHANGED <<versions, updates, forgotten, configured, cursor, poll_lease,
                   polling, events, posts, inventory, receipts, import_complete, history_before,
                   passed, passes, losses, failures>>

history_lost ==
    /\ history_lease # Nobody /\ losses < MaxLosses /\ losses' = losses + 1
    /\ history_lease' = Nobody
    /\ \/ UNCHANGED reading
       \/ reading' = [reading EXCEPT ![history_lease] = Waiting]
    /\ UNCHANGED <<versions, updates, forgotten, configured, cursor, poll_lease,
                   polling, events, posts, inventory, receipts, import_complete, history_before,
                   passed, passes, failures>>

Next ==
    \/ \E m \in Messages : publish(m) \/ import_post(m)
    \/ configure \/ begin_archive \/ finish_archive \/ project_events \/ reindex
    \/ poll_lost \/ history_lost
    \/ \E w \in Pollers : lease_poll(w) \/ get_updates(w) \/ poll_once(w)
    \/ \E w \in Readers : \/ lease_history(w) \/ get_page(w) \/ persist_page(w)
                          \/ release_history(w)

Spec == Init /\ [][Next]_gvars

-----------------------------------------------------------------------------
(* Properties.                                                             *)

\* An update Telegram has been allowed to forget is stored: an offset is sent only
\* after the transaction that stored everything below it (poll_once, persist_batch).
AcknowledgedStored == \A i \in 1 .. forgotten - 1 : i \in DOMAIN events

\* The cursor never moves back and never passes an update it did not store, whatever
\* a worker whose lease ran out still commits (persist_batch).
CursorForward == cursor' >= cursor /\ \A i \in 1 .. cursor' - 1 : i \in DOMAIN events'

\* Once no update of a message is waiting, its post is at least as new as the newest
\* update the bot stored, or it is marked as conflicting: neither a late page, nor
\* the archive, nor a replayed update rolls it back silently (apply_post).
NeverSilentlyOlder ==
    \A m \in Messages :
      LET mine == {i \in DOMAIN events : updates[i].message = m} IN
      (\A i \in mine : events[i] = "applied") =>
        \/ posts[m].conflicted
        \/ \A i \in mine : posts[m].version >= updates[i].version

\* When a pass over the public history reaches the beginning, that same pass has
\* read every message of the archive, across crashes and expired leases
\* (lease_history, persist_page).
PassComplete == passes > 0 /\ history_before = 0 => 1 .. Archived \subseteq passed
=============================================================================
