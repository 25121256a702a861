---------------------------- MODULE ReaderPages ----------------------------
(***************************************************************************)
(* The article list: keyset pages of a workspace served by the repository  *)
(* and the list controller of the browser, which shows a batch, writes     *)
(* read and later marks optimistically and turns pages while its own       *)
(* writes, other windows and deliveries change the articles.               *)
(*                                                                         *)
(* Articles are numbered as they arrive, which is also the order of ids.   *)
(* An arrival time counts the clock's smallest step; a page cursor keeps   *)
(* only whole microseconds, which are Micro steps long.  <<0, 0>> is "no   *)
(* cursor".                                                                *)
(***************************************************************************)
EXTENDS Integers, FiniteSets, SequencesExt

CONSTANTS
    Ids,        \* articles, in the order they arrive
    Initial,    \* how many are there at first
    Views,      \* the views asked for
    Gap,        \* clock steps between two deliveries
    Micro,      \* clock steps in a microsecond
    PageSize,   \* ARTICLE_PAGE_SIZE
    MaxActs     \* bound: marks, bulk marks, pages and polls asked for, marks made elsewhere

VARIABLES
    stored,    \* articles: arrival (0: not there), read, later, revision, marked
    delivered, \* number of articles delivered
    events,    \* number of read events recorded, the clock of marked
    view,      \* the view whose batch is shown
    rows,      \* the shown batch: article -> marks shown
    cursors,   \* newer and older cursor of the shown batch
    unread,    \* the unread counter shown
    writes,    \* marks in flight, in the order they were made
    bulk,      \* the bulk mark in flight
    stray,     \* views of bulk marks in flight whose batch was replaced
    poll,      \* the request for the selected article in flight
    load,      \* the page request in flight
    version,   \* writeVersion since the page request was sent: has a write begun
    walk,      \* ghost: the walk towards older pages
    foreign,   \* ghost: shown articles the controller cannot know the marks of
    uncounted, \* ghost: the counter cannot be exact
    acts       \* marks, pages and marks made elsewhere so far

rvars == <<stored, delivered, events, view, rows, cursors, unread, writes, bulk,
           stray, poll, load, version, walk, foreign, uncounted, acts>>

None == <<0, 0>>
Absent == [at |-> 0, read |-> FALSE, later |-> FALSE, revision |-> 0, marked |-> 0]
NoWalk == [view |-> "feed", live |-> FALSE, expected |-> {}, next |-> {},
           seen |-> {}, again |-> FALSE]
NoBulk == [stage |-> "none", ids |-> {}, unread |-> 0, recount |-> FALSE]
NoPoll == [stage |-> "none", id |-> 0, same |-> TRUE, stale |-> FALSE,
           marks |-> [read |-> FALSE, later |-> FALSE]]
NoLoad == [stage |-> "none", view |-> "feed", cursor |-> None, newer |-> FALSE,
           detail |-> FALSE, dropped |-> FALSE, page |-> <<>>,
           marks |-> <<>>, cursors |-> [newer |-> None, older |-> None],
           unread |-> 0, foreign |-> {}, recount |-> FALSE]

-----------------------------------------------------------------------------
(* The repository's pages.                                                  *)

\* state_predicate of article_summary_page; the join of read_history_page.
in_scope(v, a) ==
    /\ a.at # 0
    /\ CASE v = "feed" -> ~a.read
         [] v = "later" -> a.later
         [] v = "subscription" -> TRUE
         [] v = "history" -> a.read /\ a.marked # 0

\* The tuple a view is ordered by: (arrival_order, id) or (marked_at, id).
order_key(v, i) == <<IF v = "history" THEN stored[i].marked ELSE stored[i].at, i>>

precedes(x, y) == x[1] < y[1] \/ (x[1] = y[1] /\ x[2] < y[2])

\* article_cursor then decode_article_cursor: whole microseconds of an arrival.
article_cursor(v, i) ==
    LET key == order_key(v, i)
    IN  <<IF v = "history" THEN key[1] ELSE key[1] - (key[1] % Micro), i>>

unread_total == Cardinality({i \in Ids : in_scope("feed", stored[i])})

\* ArticlePageRequest::new: the newer direction needs a cursor.
page_request(cursor, newer) == newer => cursor # None

\* The rows past the cursor, in the direction the request reads them.
past(v, cursor, newer) ==
    {i \in Ids : /\ in_scope(v, stored[i])
                 /\ \/ cursor = None
                    \/ newer /\ precedes(cursor, order_key(v, i))
                    \/ ~newer /\ precedes(order_key(v, i), cursor)}

\* LIMIT n + 1, newest first whichever way they were read.
page_rows(v, cursor, newer) ==
    LET found == past(v, cursor, newer)
        first == SetToSortSeq(found, LAMBDA i, j :
                    IF newer THEN precedes(order_key(v, i), order_key(v, j))
                             ELSE precedes(order_key(v, j), order_key(v, i)))
        kept == SubSeq(first, 1, IF Len(first) < PageSize THEN Len(first) ELSE PageSize)
    IN  [rows |-> IF newer THEN Reverse(kept) ELSE kept, extra |-> Len(first) > PageSize]

\* has_newer and has_older, and the cursors article_page_view derives from them.
page_cursors(v, cursor, newer, p) ==
    LET bounded == cursor # None
        has_newer == bounded /\ (~newer \/ p.extra)
        has_older == (bounded /\ newer) \/ p.extra
    IN  [newer |-> IF has_newer /\ p.rows # <<>> THEN article_cursor(v, Head(p.rows)) ELSE None,
         older |-> IF has_older /\ p.rows # <<>> THEN article_cursor(v, Last(p.rows)) ELSE None]

-----------------------------------------------------------------------------
(* Changes of the articles.                                                 *)

marks(i) == [read |-> stored[i].read, later |-> stored[i].later]

Keys == {"read", "later"}

\* cas_tx and record_read of save_article: an event when the mark becomes read.
save(i, key, value) ==
    LET reads == key = "read" /\ value /\ ~stored[i].read
    IN  /\ stored' = [stored EXCEPT ![i] =
                [@ EXCEPT !.revision = @ + 1,
                          !.read = IF key = "read" THEN value ELSE @,
                          !.later = IF key = "later" THEN value ELSE @,
                          !.marked = IF reads THEN events + 1 ELSE @]]
        /\ events' = IF reads THEN events + 1 ELSE events

\* A walk expects only what stayed in its scope.
walked(after) ==
    [walk EXCEPT !.expected = {i \in @ : in_scope(walk.view, after[i])},
                 !.next = {i \in @ : in_scope(load.view, after[i])}]

\* Ghosts of a change the controller did not make.
since(S) ==
    IF load.stage \in {"listed", "detail"}
    THEN [load EXCEPT !.foreign = @ \cup S, !.recount = TRUE]
    ELSE load

\* Ghost: the answer of a poll that was served before the articles S were changed.
outdated(S) == IF poll.stage = "served" /\ poll.id \in S THEN [poll EXCEPT !.stale = TRUE] ELSE poll

elsewhere(S) ==
    /\ foreign' = foreign \cup S
    /\ uncounted' = TRUE
    /\ load' = since(S)
    /\ bulk' = IF bulk.stage = "counted" THEN [bulk EXCEPT !.recount = TRUE] ELSE bulk
    /\ poll' = outdated(S)

\* commit_delivery: first_arrived_at is the time its job was handled.
arrival(n) == 1 + (n - 1) * Gap

\* A delivery creates the next article.
deliver ==
    /\ delivered < Cardinality(Ids)
    /\ delivered' = delivered + 1
    /\ stored' = [stored EXCEPT ![delivered'] = [Absent EXCEPT !.at = arrival(delivered')]]
    /\ elsewhere({delivered'})
    /\ UNCHANGED <<events, view, rows, cursors, unread, writes, stray, version, walk,
                   acts>>

\* update_article called by another window of the account.
other_window(i, key) ==
    /\ acts < MaxActs
    /\ stored[i].at # 0
    /\ save(i, key, ~stored[i][key])
    /\ acts' = acts + 1
    /\ walk' = walked(stored')
    /\ elsewhere({i})
    /\ UNCHANGED <<delivered, view, rows, cursors, unread, writes, stray, version>>

-----------------------------------------------------------------------------
(* Marks made by the controller.                                            *)

\* The marks the shown batch waits for; applyPage forgets the earlier ones.
pending == {<<writes[n].id, writes[n].key>> : n \in {k \in 1..Len(writes) : ~writes[k].orphan}}

delta(key, value, before) ==
    IF key # "read" \/ value = before THEN 0 ELSE IF value THEN -1 ELSE 1

\* mutate: shown at once, queued behind the article's earlier marks.
mutate(i, key, value) ==
    /\ acts < MaxActs
    /\ i \in DOMAIN rows
    /\ bulk.stage = "none"
    /\ <<i, key>> \notin pending
    /\ acts' = acts + 1
    /\ version' = (load.stage \in {"asked", "listed", "detail"})
    /\ LET before == rows[i][key]
           d == delta(key, value, before)
       IN  /\ writes' = Append(writes, [id |-> i, key |-> key, value |-> value,
                    before |-> before, delta |-> d, stage |-> "queued",
                    revision |-> 0, orphan |-> FALSE])
           /\ unread' = unread + d
           /\ rows' = [rows EXCEPT ![i][key] = value]
    /\ poll' = IF poll.id = i THEN [poll EXCEPT !.same = FALSE] ELSE poll
    /\ uncounted' = (uncounted \/ i \in foreign)
    /\ UNCHANGED <<stored, delivered, events, view, cursors, bulk, stray, load, walk,
                   foreign>>

\* The first unanswered mark of an article is the one being served; a new batch does
\* not wait for the marks of the old one.
served(n, stage) ==
    /\ writes[n].stage = stage
    /\ \A k \in 1..(n - 1) : writes[k].id = writes[n].id => writes[k].orphan # writes[n].orphan

\* update_article reads the article and its revision.
read_article(n) ==
    /\ served(n, "queued")
    /\ writes' = [writes EXCEPT ![n] = [@ EXCEPT !.stage = "read",
                                !.revision = stored[writes[n].id].revision]]
    /\ UNCHANGED <<stored, delivered, events, view, rows, cursors, unread, bulk, stray,
                   poll, load, version, walk, foreign, uncounted, acts>>

\* save_article: compare the revision and write, or report a conflict.
save_article(n) ==
    LET w == writes[n]
        same == stored[w.id].revision = w.revision
    IN  /\ served(n, "read")
        /\ IF same THEN save(w.id, w.key, w.value) ELSE UNCHANGED <<stored, events>>
        /\ walk' = walked(stored')
        /\ writes' = [writes EXCEPT ![n].stage = IF same THEN "saved" ELSE "refused"]
        /\ IF w.orphan THEN elsewhere({w.id})
           ELSE /\ poll' = IF same /\ poll.same THEN outdated({w.id}) ELSE poll
                /\ UNCHANGED <<foreign, uncounted, load, bulk>>
        /\ UNCHANGED <<delivered, view, rows, cursors, unread, stray, version, acts>>

\* The answer of a saved mark carries the mark as it was saved.
answered(n) ==
    LET w == writes[n]
    IN  /\ served(n, "saved")
        /\ writes' = RemoveAt(writes, n)
        /\ rows' = IF w.orphan \/ w.id \notin DOMAIN rows THEN rows
                   ELSE [rows EXCEPT ![w.id][w.key] = w.value]
        /\ UNCHANGED <<stored, delivered, events, view, cursors, unread, bulk, stray, poll,
                       load, version, walk, foreign, uncounted, acts>>

\* The mark and the counter a failed write gives back.
restored(w) ==
    /\ rows' = IF w.orphan \/ w.id \notin DOMAIN rows THEN rows
               ELSE [rows EXCEPT ![w.id][w.key] = w.before]
    /\ unread' = IF w.orphan THEN unread ELSE unread - w.delta

\* An error answer, a request that never arrived, or an answer that is lost.
failed(n) ==
    LET w == writes[n]
    IN  /\ \/ served(n, "queued") \/ served(n, "refused") \/ served(n, "saved")
        /\ writes' = RemoveAt(writes, n)
        /\ restored(w)
        /\ IF w.stage = "saved" THEN elsewhere({w.id})
           ELSE UNCHANGED <<foreign, uncounted, load, bulk, poll>>
        /\ UNCHANGED <<stored, delivered, events, view, cursors, stray, version, walk,
                       acts>>

-----------------------------------------------------------------------------
(* The bulk mark.                                                           *)

\* markAllRead: never in a history view, nor while a mark is pending.
mark_all(S) ==
    /\ acts < MaxActs
    /\ view # "history" /\ bulk.stage = "none"
    /\ \A n \in 1..Len(writes) : writes[n].orphan
    /\ S = {i \in DOMAIN rows : ~rows[i].read} /\ S # {}
    /\ acts' = acts + 1
    /\ version' = (load.stage \in {"asked", "listed", "detail"})
    /\ bulk' = [NoBulk EXCEPT !.stage = "sent", !.ids = S, !.unread = unread]
    /\ unread' = IF view = "feed" THEN 0 ELSE unread
    /\ rows' = [i \in DOMAIN rows |-> IF i \in S THEN [rows[i] EXCEPT !.read = TRUE]
                                                 ELSE rows[i]]
    /\ UNCHANGED <<stored, delivered, events, view, cursors, writes, stray, poll, load, walk,
                   foreign, uncounted>>

\* mark_scope_read_atomic: every unread article of the scope in one transaction.
scope_unread(v) == {i \in Ids : in_scope(v, stored[i]) /\ ~stored[i].read}

mark_scope_read_atomic(v) ==
    /\ stored' = [i \in Ids |-> IF i \notin scope_unread(v) THEN stored[i]
                    ELSE [stored[i] EXCEPT !.read = TRUE, !.marked = events + 1,
                                           !.revision = @ + 1]]
    /\ events' = events + 1
    /\ walk' = walked(stored')

mark_scope_read ==
    /\ bulk.stage = "sent"
    /\ mark_scope_read_atomic(view)
    /\ bulk' = [bulk EXCEPT !.stage = "marked"]
    /\ poll' = outdated(scope_unread(view))
    /\ UNCHANGED <<delivered, view, rows, cursors, unread, writes, stray, load, version,
                   foreign, uncounted, acts>>

\* The request of a bulk mark whose batch was replaced arrives late, or never.
stray_mark(v) ==
    /\ v \in stray /\ stray' = stray \ {v}
    /\ \/ mark_scope_read_atomic(v) /\ elsewhere(scope_unread(v))
       \/ UNCHANGED <<stored, events, walk, foreign, uncounted, load, bulk, poll>>
    /\ UNCHANGED <<delivered, view, rows, cursors, unread, writes, version, acts>>

\* The counter is read again; an error keeps the one shown.
recount ==
    /\ bulk.stage = "marked"
    /\ bulk' = [bulk EXCEPT !.stage = "counted", !.unread = unread_total, !.recount = FALSE]
    /\ UNCHANGED <<stored, delivered, events, view, rows, cursors, unread, writes, stray,
                   poll, load, version, walk, foreign, uncounted, acts>>

marked_all ==
    /\ \/ /\ bulk.stage = "counted"
          /\ unread' = bulk.unread
          /\ uncounted' = bulk.recount
       \/ /\ bulk.stage = "marked"
          /\ unread' = unread
          /\ uncounted' = TRUE
    /\ bulk' = NoBulk
    /\ UNCHANGED <<stored, delivered, events, view, rows, cursors, writes, stray, poll, load,
                   version, walk, foreign, acts>>

\* The request failed, or its answer was lost: everything is shown unread again.
mark_all_failed ==
    /\ bulk.stage \in {"sent", "marked"}
    /\ unread' = bulk.unread
    /\ rows' = [i \in DOMAIN rows |-> IF i \in bulk.ids THEN [rows[i] EXCEPT !.read = FALSE]
                                                        ELSE rows[i]]
    /\ bulk' = NoBulk
    /\ IF bulk.stage = "marked"
       THEN /\ foreign' = Ids
            /\ uncounted' = TRUE
            /\ load' = since(Ids)
       ELSE UNCHANGED <<foreign, uncounted, load>>
    /\ UNCHANGED <<stored, delivered, events, view, cursors, writes, stray, poll, version,
                   walk, acts>>

-----------------------------------------------------------------------------
(* The poll of the selected article.                                        *)

kept_page == <<stored, delivered, events, view, cursors, unread, writes, bulk, stray, load,
               version, walk, uncounted>>

\* getArticle of the selected article: after it was selected or the batch changed,
\* and again and again while its full text is pending.
poll_article(i) ==
    /\ acts < MaxActs /\ acts' = acts + 1
    /\ poll.stage = "none" /\ i \in DOMAIN rows
    /\ poll' = [NoPoll EXCEPT !.stage = "asked", !.id = i]
    /\ UNCHANGED <<kept_page, rows, foreign>>

get_article ==
    /\ poll.stage = "asked"
    /\ poll' = [poll EXCEPT !.stage = "served", !.marks = marks(poll.id)]
    /\ UNCHANGED <<kept_page, rows, foreign, acts>>

\* A mark of the article was begun since the question, or is pending, or a bulk mark is.
refused ==
    \/ ~poll.same \/ bulk.stage # "none"
    \/ \E key \in Keys : <<poll.id, key>> \in pending

\* The answer replaces the article, or the article is asked for again.
polled ==
    /\ poll.stage = "served"
    /\ IF refused
       THEN /\ poll' = [NoPoll EXCEPT !.stage = "asked", !.id = poll.id]
            /\ UNCHANGED <<rows, foreign>>
       ELSE /\ rows' = [rows EXCEPT ![poll.id] = poll.marks]
            /\ foreign' = IF poll.stale THEN foreign \cup {poll.id} ELSE foreign \ {poll.id}
            /\ poll' = NoPoll
    /\ UNCHANGED <<kept_page, acts>>

\* Another article is selected, or the request fails.
poll_left ==
    /\ poll.stage # "none"
    /\ poll' = NoPoll
    /\ UNCHANGED <<kept_page, rows, foreign, acts>>

-----------------------------------------------------------------------------
(* Turning pages.                                                           *)

\* loadPage: one at a time; a restored location may name a linked article.
load_page(v, cursor, newer, detail) ==
    /\ acts < MaxActs
    /\ load.stage = "none"
    /\ load' = [NoLoad EXCEPT !.stage = "waiting", !.view = v, !.cursor = cursor,
                              !.newer = newer, !.detail = detail]
    /\ acts' = acts + 1
    /\ UNCHANGED <<stored, delivered, events, view, rows, cursors, unread, writes,
                   bulk, stray, poll, version, walk, foreign, uncounted>>

\* The buttons of the list: another view, the next older or newer batch, history.
turn ==
    \/ \E v \in Views : load_page(v, None, FALSE, FALSE)
    \/ \E v \in Views : load_page(v, None, FALSE, TRUE)
    \/ cursors.older # None /\ load_page(view, cursors.older, FALSE, FALSE)
    \/ cursors.newer # None /\ load_page(view, cursors.newer, TRUE, FALSE)

\* inFlightWrites is empty.
settled == writes = <<>> /\ bulk.stage = "none" /\ stray = {}

\* waitForWrites, then listArticles is sent.
ask ==
    /\ load.stage = "waiting"
    /\ settled
    /\ load' = [load EXCEPT !.stage = "asked"]
    /\ version' = FALSE
    /\ UNCHANGED <<stored, delivered, events, view, rows, cursors, unread, writes,
                   bulk, stray, poll, walk, foreign, uncounted, acts>>

\* article_summary_page or read_history_page.
list_articles ==
    /\ load.stage = "asked"
    /\ page_request(load.cursor, load.newer)
    /\ LET p == page_rows(load.view, load.cursor, load.newer)
       IN  load' = [load EXCEPT !.stage = "listed", !.page = p.rows,
                    !.marks = [n \in 1..Len(p.rows) |-> marks(p.rows[n])],
                    !.cursors = page_cursors(load.view, load.cursor, load.newer, p),
                    !.unread = unread_total, !.foreign = {}, !.recount = FALSE]
    /\ walk' = [walk EXCEPT !.next = {i \in Ids : in_scope(load.view, stored[i])}]
    /\ UNCHANGED <<stored, delivered, events, view, rows, cursors, unread, writes,
                   bulk, stray, poll, version, foreign, uncounted, acts>>

publishable_always == version \in BOOLEAN

publishable == ~version

\* Ghost: a first page starts a walk, an older page continues it.
walks(l) ==
    LET shown == ToSet(l.page)
    IN  IF l.cursor = None
        THEN [view |-> l.view, live |-> TRUE, expected |-> walk.next, next |-> {},
              seen |-> shown, again |-> FALSE]
        ELSE IF l.newer \/ ~walk.live THEN NoWalk
        ELSE [walk EXCEPT !.again = @ \/ shown \cap walk.seen # {},
                          !.seen = @ \cup shown, !.next = {}]

\* applyPage: the batch replaces the list; writes of the old one are orphans, and a
\* bulk mark that was not yet served is still on its way.  A write begun while a
\* linked article was fetched is lost from view: the ghosts except it.
apply_page ==
    /\ ~load.dropped
    /\ view' = load.view
    /\ rows' = [i \in ToSet(load.page) |->
                    load.marks[CHOOSE n \in 1..Len(load.page) : load.page[n] = i]]
    /\ cursors' = load.cursors
    /\ unread' = load.unread
    /\ bulk' = NoBulk /\ poll' = NoPoll
    /\ stray' = IF bulk.stage = "sent" THEN stray \cup {view} ELSE stray
    /\ writes' = [n \in 1..Len(writes) |-> [writes[n] EXCEPT !.orphan = TRUE]]
    /\ walk' = walks(load)
    /\ LET overtaken == load.stage = "detail" /\ version
       IN  /\ foreign' = IF overtaken THEN Ids ELSE load.foreign
           /\ uncounted' = (overtaken \/ load.recount)
    /\ load' = NoLoad /\ version' = FALSE
    /\ UNCHANGED <<stored, delivered, events, acts>>

kept_list == <<stored, delivered, events, view, rows, cursors, unread, writes,
               bulk, stray, poll, version, walk, foreign, uncounted, acts>>

\* The page is taken only when no write began during its request; then a linked
\* article that is not on it is fetched, or the page is applied at once.
listed ==
    /\ load.stage = "listed"
    /\ \/ ~publishable /\ load' = [load EXCEPT !.stage = "waiting"] /\ UNCHANGED kept_list
       \/ publishable /\ load.detail /\ load' = [load EXCEPT !.stage = "detail"]
             /\ UNCHANGED kept_list
       \/ publishable /\ ~load.detail /\ apply_page

detailed == load.stage = "detail" /\ apply_page

\* popstate: the position changed while the page was under way.
navigate ==
    /\ load.stage # "none" /\ ~load.dropped
    /\ load' = [load EXCEPT !.dropped = TRUE]
    /\ UNCHANGED kept_list

\* A request that fails, or whose position was left, leaves the list as it is.
load_ended ==
    /\ \/ load.stage \in {"asked", "detail"}
       \/ load.stage = "listed" /\ publishable /\ load.dropped
    /\ load' = NoLoad
    /\ UNCHANGED kept_list

\* The bootstrap answer carries the first batch of the feed.
Init ==
    /\ stored = [i \in Ids |-> IF i <= Initial THEN [Absent EXCEPT !.at = arrival(i)] ELSE Absent]
    /\ delivered = Initial /\ events = 0
    /\ view = "feed"
    /\ LET p == page_rows("feed", None, FALSE)
       IN  /\ rows = [i \in ToSet(p.rows) |-> marks(i)]
           /\ cursors = page_cursors("feed", None, FALSE, p)
           /\ walk = [view |-> "feed", live |-> TRUE, expected |-> 1..Initial, next |-> {},
                      seen |-> ToSet(p.rows), again |-> FALSE]
    /\ unread = unread_total
    /\ writes = <<>> /\ bulk = NoBulk /\ stray = {} /\ poll = NoPoll
    /\ load = NoLoad /\ version = FALSE
    /\ foreign = {} /\ uncounted = FALSE
    /\ acts = 0

Next ==
    \/ deliver
    \/ \E i \in Ids, key \in Keys : other_window(i, key)
    \/ \E i \in Ids, key \in Keys, value \in BOOLEAN : mutate(i, key, value)
    \/ \E n \in 1..Len(writes) :
          read_article(n) \/ save_article(n) \/ answered(n) \/ failed(n)
    \/ \E S \in SUBSET Ids : mark_all(S)
    \/ mark_scope_read \/ recount \/ marked_all \/ mark_all_failed
    \/ \E v \in Views : stray_mark(v)
    \/ \E i \in Ids : poll_article(i)
    \/ get_article \/ polled \/ poll_left
    \/ turn \/ ask \/ list_articles \/ listed \/ detailed
    \/ navigate \/ load_ended

Spec == Init /\ [][Next]_rvars
-----------------------------------------------------------------------------
(* Properties.                                                              *)

\* Once nothing is in flight the list shows the stored marks of its articles,
\* whatever order optimistic marks, failures, bulk marks, pages and polls of the
\* selected article came in.  Excepted are articles changed elsewhere or whose answer
\* was lost, all of them after a write that began while a linked article was fetched,
\* and a polled article whose answer left the server before a mark was saved and
\* came back after the mark had been answered.
ShownIsStored ==
    settled => \A i \in DOMAIN rows \ foreign : rows[i] = marks(i)

\* Once nothing is in flight the unread counter is the number of unread articles,
\* unless articles arrived or were changed elsewhere since it was read.
CounterExact ==
    settled /\ ~uncounted => unread = unread_total

\* Turning to older pages shows no article twice, and by the last one every article
\* that stayed in the view, although others arrive and leave it meanwhile.
OlderExact ==
    walk.live => /\ ~walk.again
                 /\ cursors.older = None => walk.expected \subseteq walk.seen
=============================================================================
