--------------------------- MODULE FocusedReading ---------------------------
(* Focused reading: the browser hook web/src/app/reading/useFocusedReading.ts *)
(* over the repository operations of repository/focused_reading.rs and        *)
(* repository/article.rs.  A completion is sent under an operation id that    *)
(* survives a lost answer and a reload in the history entry of the page; the   *)
(* server keeps a receipt per operation and an undo takes back exactly one     *)
(* completion.  Another tab patches the same articles, and a whole scope may   *)
(* be marked read in between.                                                  *)
(*                                                                            *)
(* Requests and answers may be lost, may take longer than the server waits,    *)
(* and may arrive after the reader has gone on; all requests are               *)
(* authenticated.                                                              *)
EXTENDS Naturals, Sequences, FiniteSets, SequencesExt, TLC

CONSTANTS Articles,
          MaxOps,       \* bound: operations the reader starts
          MaxCalls,     \* bound: requests sent
          MaxOther,     \* bound: writes outside focused reading
          MaxMoves      \* bound: reloads and steps through the history

VARIABLES versions,     \* the row of each article, after all its earlier contents
          receipts,     \* reading_completions by operation
          events,       \* article_read_events
          entries,      \* history entries: article, pending operation, undo offer
          at,           \* the entry shown
          shown,        \* the revision of the loaded state, 0 while loading
          epoch,        \* epoch.current of the hook
          locked,       \* lock.current
          calls,        \* requests of the tab and their answers
          rejected,     \* operations given up after an answer of the handler itself
          patching,     \* the other tab between its read and its write
          others

fvars == <<versions, receipts, events, entries, at, shown, epoch, locked, calls, rejected, patching,
           others>>
server == <<versions, receipts, events>>
tab == <<entries, at, shown, epoch, locked, calls, rejected>>

NoPatch == [article |-> "none"]
None == 0
revision(a) == Len(versions[a])
row(a) == Last(versions[a])
Ops == 1..MaxOps

\* write_article and write_rating: a new version of the row.
write_article(a, value) == versions' = [versions EXCEPT ![a] = Append(@, value)]

\* record_read
record_read(a, method) == events' = events \cup {[article |-> a, revision |-> revision(a) + 1, method |-> method]}

-----------------------------------------------------------------------------
(* Server.                                                                 *)

\* Mutant: the receipt is looked for after the article was checked.
known_operation_late(c) == c.op \in DOMAIN receipts /\ revision(c.article) = c.expected

\* A repeated operation is answered from its receipt.
known_operation(c) == c.op \in DOMAIN receipts

\* complete_reading: the answer is "done", "undone" or "conflict".
complete_reading(k) ==
    LET c == calls[k] IN
    /\ c.kind = "complete" /\ c.stage = "sent"
    /\ \/ /\ known_operation(c)
          /\ calls' = [calls EXCEPT ![k].stage = IF receipts[c.op].undone = None THEN "done" ELSE "undone"]
          /\ UNCHANGED server
       \/ /\ ~known_operation(c)
          /\ revision(c.article) # c.expected \/ row(c.article).read
          /\ calls' = [calls EXCEPT ![k].stage = "conflict"]
          /\ UNCHANGED server
       \/ /\ ~known_operation(c)
          /\ revision(c.article) = c.expected /\ ~row(c.article).read
          /\ receipts' = (c.op :> [article |-> c.article, previous |-> row(c.article),
                                   completed |-> c.expected + 1, undone |-> None]) @@ receipts
          /\ write_article(c.article, [row(c.article) EXCEPT !.read = TRUE, !.rating = c.rating])
          /\ record_read(c.article, "reader")
          /\ calls' = [calls EXCEPT ![k].stage = "done"]
    /\ UNCHANGED <<entries, at, shown, epoch, locked, rejected, patching, others>>

\* Mutant: an undo whatever happened to the article since.
undoable_always(r) == TRUE

undoable(r) == revision(r.article) = r.completed

\* undo_reading: restores the state the completion replaced.
undo_reading(k) ==
    LET c == calls[k]
        r == receipts[c.op]
    IN
    /\ c.kind = "undo" /\ c.stage = "sent"
    /\ \/ /\ r.undone # None
          /\ calls' = [calls EXCEPT ![k].stage = "undone"] /\ UNCHANGED server
       \/ /\ r.undone = None /\ ~undoable(r)
          /\ calls' = [calls EXCEPT ![k].stage = "conflict"] /\ UNCHANGED server
       \/ /\ r.undone = None /\ undoable(r)
          /\ write_article(r.article, r.previous)
          /\ receipts' = [receipts EXCEPT ![c.op].undone = revision(r.article) + 1]
          /\ calls' = [calls EXCEPT ![k].stage = "undone"]
          /\ UNCHANGED events
    /\ UNCHANGED <<entries, at, shown, epoch, locked, rejected, patching, others>>

\* update_article in the other tab reads the article ...
begin_patch(a) ==
    /\ patching = NoPatch /\ others < MaxOther /\ others' = others + 1
    /\ patching' = [article |-> a, revision |-> revision(a), row |-> row(a)]
    /\ UNCHANGED <<server, tab>>

\* save_article records an event when the article becomes read.
marks_read(old, new) == ~old.read /\ new.read

\* ... and writes it back if nobody wrote in between (cas_tx).
save_article(read) ==
    LET a == patching.article
        value == IF read THEN [patching.row EXCEPT !.read = TRUE]
                 ELSE [patching.row EXCEPT !.read = FALSE, !.protect = TRUE]
    IN
    /\ patching # NoPatch
    /\ patching' = NoPatch
    /\ IF revision(a) = patching.revision
       THEN /\ write_article(a, value)
            /\ IF marks_read(row(a), value) THEN record_read(a, "single") ELSE UNCHANGED events
       ELSE UNCHANGED <<versions, events>>
    /\ UNCHANGED <<receipts, tab, others>>

\* mark_scope_read_atomic: one snapshot of all unread articles.
mark_scope_read_atomic ==
    LET unread == {a \in Articles : ~row(a).read} IN
    /\ unread # {} /\ others < MaxOther /\ others' = others + 1
    /\ versions' = [a \in Articles |->
           IF a \in unread THEN Append(versions[a], [row(a) EXCEPT !.read = TRUE]) ELSE versions[a]]
    /\ events' = events \cup {[article |-> a, revision |-> revision(a) + 1, method |-> "bulk"] : a \in unread}
    /\ UNCHANGED <<receipts, tab, patching>>

-----------------------------------------------------------------------------
(* The browser.                                                            *)

here == entries[at]
send(call) == calls' = Append(calls, call)
remember(entry) == entries' = [entries EXCEPT ![at] = entry]

\* pushState drops what was ahead and copies the saved state of the entry.
selectUrl(a, entry) ==
    /\ entries' = Append(SubSeq([entries EXCEPT ![at] = entry], 1, at), [entry EXCEPT !.article = a])
    /\ at' = at + 1
    /\ shown' = 0 /\ epoch' = epoch + 1 /\ locked' = FALSE

\* The effect of the hook: the article and its reading state are loaded.
load == /\ shown = 0
        /\ shown' = revision(here.article)
        /\ UNCHANGED <<server, entries, at, epoch, locked, calls, rejected, patching, others>>

Started == Cardinality({calls[k].op : k \in {n \in DOMAIN calls : calls[n].kind = "complete"}})

\* complete: an operation already pending for this article is sent again, else
\* a new one is started for the revision shown.
complete(rating) ==
    LET again == here.pending # None /\ calls[here.pending].article = here.article
        command == IF again THEN [calls[here.pending] EXCEPT !.epoch = epoch, !.stage = "sent"]
                   ELSE [kind |-> "complete", op |-> Started + 1, article |-> here.article,
                         expected |-> shown, rating |-> rating, epoch |-> epoch, stage |-> "sent"]
    IN
    /\ shown # 0 /\ ~locked /\ Len(calls) < MaxCalls
    /\ again \/ Started < MaxOps
    /\ locked' = TRUE
    /\ send(command)
    /\ remember([here EXCEPT !.pending = Len(calls) + 1])
    /\ UNCHANGED <<server, at, shown, epoch, rejected, patching, others>>

\* undoLast
undoLast ==
    /\ shown # 0 /\ ~locked /\ Len(calls) < MaxCalls /\ here.undo # None
    /\ locked' = TRUE
    /\ send([kind |-> "undo", op |-> here.undo, article |-> receipts[here.undo].article,
             expected |-> 0, rating |-> 0, epoch |-> epoch, stage |-> "sent"])
    /\ UNCHANGED <<server, entries, at, shown, epoch, rejected, patching, others>>

\* A request or its answer is lost; the first may have been carried out.
Lose(k) == /\ calls[k].stage \in {"sent", "done", "undone", "conflict"}
           /\ calls' = [calls EXCEPT ![k].stage = "error"]
           /\ UNCHANGED <<server, entries, at, shown, epoch, locked, rejected, patching, others>>

\* TimeoutLayer answers 408 in place of a handler that took too long, whether or not
\* the handler had committed by then.
Timeout(k) == /\ calls[k].stage \in {"sent", "done", "undone", "conflict"}
              /\ calls' = [calls EXCEPT ![k].stage = "timeout"]
              /\ UNCHANGED <<server, entries, at, shown, epoch, locked, rejected, patching, others>>

closed(k) == calls' = [calls EXCEPT ![k].stage = "closed"]

\* The answer to complete, when the page has not moved on: done goes on to the
\* next article, a 4xx drops the operation, the 408 of TimeoutLayer too, and
\* anything else keeps it.
completed(k, next) ==
    /\ calls[k].kind = "complete"
    /\ calls[k].stage \in {"done", "undone", "conflict", "timeout", "error"}
    /\ calls[k].epoch = epoch
    /\ closed(k)
    /\ \/ /\ calls[k].stage = "done"
          /\ selectUrl(next, [here EXCEPT !.pending = None, !.undo = calls[k].op])
          /\ UNCHANGED rejected
       \/ /\ calls[k].stage = "undone"
          /\ remember([here EXCEPT !.pending = None, !.undo = None])
          /\ shown' = receipts[calls[k].op].undone /\ locked' = FALSE
          /\ UNCHANGED <<at, epoch, rejected>>
       \/ /\ calls[k].stage \in {"conflict", "timeout"}
          /\ remember([here EXCEPT !.pending = None])
          /\ rejected' = IF calls[k].stage = "conflict" THEN rejected \cup {calls[k].op} ELSE rejected
          /\ locked' = FALSE
          /\ UNCHANGED <<at, shown, epoch>>
       \/ /\ calls[k].stage = "error" /\ locked' = FALSE
          /\ UNCHANGED <<entries, at, shown, epoch, rejected>>
    /\ UNCHANGED <<server, patching, others>>

\* The answer to undoLast shows the article again; a refusal changes nothing.
undone(k) ==
    /\ calls[k].kind = "undo" /\ calls[k].stage \in {"undone", "conflict", "timeout", "error"}
    /\ calls[k].epoch = epoch
    /\ closed(k)
    /\ LET cleared == [here EXCEPT !.pending = None, !.undo = None] IN
       \/ calls[k].stage = "undone" /\ calls[k].article # here.article
          /\ selectUrl(calls[k].article, cleared)
       \/ /\ calls[k].stage = "undone" /\ calls[k].article = here.article
          /\ remember(cleared) /\ shown' = 0 /\ epoch' = epoch + 1 /\ locked' = FALSE
          /\ UNCHANGED at
       \/ calls[k].stage # "undone" /\ locked' = FALSE /\ UNCHANGED <<entries, at, shown, epoch>>
    /\ UNCHANGED <<server, rejected, patching, others>>

\* continue: the next article without an answer, when none is awaited.
continue(next) == /\ shown # 0 /\ ~locked /\ epoch < MaxMoves
                  /\ selectUrl(next, here)
                  /\ UNCHANGED <<server, calls, rejected, patching, others>>

\* The reader reloads or goes back; answers under way find another epoch.
restore == /\ epoch < MaxMoves
           /\ at' \in {at, at - 1} \ {0}
           /\ shown' = 0 /\ epoch' = epoch + 1 /\ locked' = FALSE
           /\ UNCHANGED <<server, entries, calls, rejected, patching, others>>

Init == /\ versions = [a \in Articles |-> <<[read |-> FALSE, protect |-> FALSE, rating |-> 0]>>]
        /\ receipts = <<>> /\ events = {}
        /\ entries \in {<<[article |-> a, pending |-> None, undo |-> None]>> : a \in Articles}
        /\ at = 1 /\ shown = 0 /\ epoch = 0 /\ locked = FALSE
        /\ calls = <<>> /\ rejected = {} /\ patching = NoPatch /\ others = 0

Serve(k) == complete_reading(k) \/ undo_reading(k) \/ Lose(k) \/ Timeout(k)
Browse == \/ load \/ complete(1) \/ undoLast \/ restore
          \/ \E a \in Articles : continue(a)
          \/ \E k \in DOMAIN calls : undone(k) \/ \E a \in Articles : completed(k, a)
Next == \/ Browse \/ mark_scope_read_atomic
        \/ \E k \in DOMAIN calls : Serve(k)
        \/ \E a \in Articles : begin_patch(a)
        \/ \E read \in BOOLEAN : save_article(read)

Spec == Init /\ [][Next]_fvars

-----------------------------------------------------------------------------
(* Properties.                                                             *)

\* An operation the page gave up because complete_reading refused it was never
\* applied: repeated, late and overtaken requests of one completion agree (the
\* receipt is consulted before the revision).  A 408 refuses nothing, and the page
\* gives up on it an operation that may well have been applied.
NeverDisowned == \A op \in rejected : op \notin DOMAIN receipts

\* An undo takes back one completion and nothing else: it directly follows the
\* completion and leaves the article as the completion found it, protection
\* from rules included.
UndoRestores ==
    \A op \in DOMAIN receipts :
        LET r == receipts[op]
            v == versions[r.article]
        IN  r.undone # None => /\ r.undone = r.completed + 1
                               /\ v[r.undone] = v[r.completed - 1]

\* The reading history has one event for each time an article became read, at
\* that revision, whichever of the three writers did it.
HistoryExact ==
    \A a \in Articles :
        {e.revision : e \in {x \in events : x.article = a}}
            = {n \in 2..Len(versions[a]) : versions[a][n].read /\ ~versions[a][n - 1].read}
=============================================================================
