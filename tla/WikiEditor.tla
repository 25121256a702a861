------------------------------- MODULE WikiEditor -------------------------------
(***************************************************************************)
(* The wiki editor: one existing page, one private draft of one account,   *)
(* and several windows of that account editing it while other accounts     *)
(* publish.  A window autosaves the draft, publishes, and discards the     *)
(* draft it has published; any answer may be lost.                         *)
(*                                                                         *)
(* A request is executed and answered in one step: what the window does    *)
(* while it waits happens before that step.                                *)
(***************************************************************************)
EXTENDS Naturals, FiniteSets

CONSTANTS
    Windows,
    MaxTexts,    \* texts typed; text 0 is the published one
    MaxRev,      \* revisions of the page and of the draft
    MaxOps,      \* publications asked for
    MaxLost      \* answers lost

VARIABLES
    page,      \* wiki_pages: the revision and text of the page
    row,       \* wiki_drafts: rev (0 when there is no row), base, text
    done,      \* wiki_operations: operations that took effect
    win,       \* window -> the state of WikiEditor
    req,       \* window -> the request in flight
    texts,     \* texts typed so far
    ops,       \* operation ids used
    drafts,    \* draft revisions used
    lost,
    stored,    \* ghost: texts that reached the server
    shown,     \* ghost: window -> revisions of the page it has shown since it opened
    unseen     \* ghost: a draft was replaced by a window that had not shown it

evars == <<page, row, done, win, req, texts, ops, drafts, lost, stored, shown, unseen>>

None == [kind |-> "none"]

NoRow == [rev |-> 0, base |-> 0, text |-> 0]

NoCommand == [id |-> 0, expected |-> 0, text |-> 0]

Closed == [open |-> FALSE, draft |-> NoRow, saved |-> NoRow, writing |-> FALSE, conflict |-> 0,
           retry |-> NoCommand]

Init ==
    /\ page = [rev |-> 1, text |-> 0]
    /\ row = NoRow /\ done = {}
    /\ win = [w \in Windows |-> Closed]
    /\ req = [w \in Windows |-> None]
    /\ texts = 0 /\ ops = 0 /\ drafts = 0 /\ lost = 0
    /\ stored = {0}
    /\ shown = [w \in Windows |-> {}]
    /\ unseen = FALSE

\* client.draft when the editor opens: the stored draft, or one on the page shown; an
\* older base is fetched as a revision and shown.
open(w) ==
    /\ ~ win[w].open
    /\ LET initial == IF row.rev # 0 THEN row ELSE [rev |-> 0, base |-> page.rev, text |-> page.text]
       IN  /\ win' = [win EXCEPT ![w] = [Closed EXCEPT !.open = TRUE, !.draft = initial,
                                                       !.saved = initial]]
           /\ shown' = [shown EXCEPT ![w] = {initial.base}]
    /\ UNCHANGED <<page, row, done, req, texts, ops, drafts, lost, stored, unseen>>

\* onInput: the fields are disabled while publishing
edit(w) ==
    /\ win[w].open /\ ~ win[w].writing
    /\ texts < MaxTexts /\ texts' = texts + 1
    /\ win' = [win EXCEPT ![w].draft.text = texts']
    /\ UNCHANGED <<page, row, done, req, ops, drafts, lost, stored, shown, unseen>>

dirty(w) == win[w].draft # win[w].saved

\* persist, when its timer fires
persist(w) ==
    /\ win[w].open /\ ~ win[w].writing /\ req[w] = None
    /\ dirty(w)
    /\ req' = [req EXCEPT ![w] = [kind |-> "draft", snapshot |-> win[w].draft]]
    /\ UNCHANGED <<page, row, done, win, texts, ops, drafts, lost, stored, shown, unseen>>

lose ==
    lost < MaxLost /\ lost' = lost + 1

\* save_draft: the same draft again is answered with the stored revision
same_draft(d) == row.rev # 0 /\ row.base = d.base /\ row.text = d.text

\* The answer marks what is on screen as saved.
confirmed_latest(e, snapshot, rev) ==
    [e EXCEPT !.saved = [@ EXCEPT !.rev = rev, !.base = e.draft.base, !.text = e.draft.text],
              !.draft.rev = rev]

\* The answer to saveDraft: what was sent is saved, and what is on screen takes the
\* revision of the draft.
confirmed(e, snapshot, rev) == [e EXCEPT !.saved = [snapshot EXCEPT !.rev = rev], !.draft.rev = rev]

\* save_draft; the page it names exists
save_draft(w) ==
    LET d == req[w].snapshot
        fresh == row.rev = d.rev
        rev == IF fresh THEN drafts + 1 ELSE row.rev
    IN
    /\ req[w].kind = "draft"
    /\ fresh \/ same_draft(d)
    /\ fresh => drafts < MaxRev
    /\ row' = [d EXCEPT !.rev = rev]
    /\ drafts' = IF fresh THEN rev ELSE drafts
    /\ stored' = stored \cup {d.text}
    /\ req' = [req EXCEPT ![w] = None]
    /\ \/ win' = [win EXCEPT ![w] = confirmed(@, d, rev)] /\ UNCHANGED lost
       \/ lose /\ win' = [win EXCEPT ![w].writing = FALSE]
    /\ UNCHANGED <<page, done, texts, ops, shown, unseen>>

\* Conflict; a publication waiting for the request fails with it.
save_draft_refused(w) ==
    /\ req[w].kind = "draft"
    /\ row.rev # req[w].snapshot.rev /\ ~ same_draft(req[w].snapshot)
    /\ req' = [req EXCEPT ![w] = None]
    /\ win' = [win EXCEPT ![w].writing = FALSE]
    /\ UNCHANGED <<page, row, done, texts, ops, drafts, lost, stored, shown, unseen>>

\* save, pressed: it waits for a draft request in flight
save(w) ==
    /\ win[w].open /\ ~ win[w].writing
    /\ win' = [win EXCEPT ![w].writing = TRUE]
    /\ UNCHANGED <<page, row, done, req, texts, ops, drafts, lost, stored, shown, unseen>>

\* The publication expects whatever is published now.
expected_now(d) == page.rev

\* expected_revision: d.base_revision
expected(d) == d.base

\* save, once no draft request is in flight: an unchanged command is repeated under its
\* operation
publish(w) ==
    LET d == win[w].draft
        prior == win[w].retry
        again == prior.id # 0 /\ prior.expected = d.base /\ prior.text = d.text
        command == IF again THEN prior
                   ELSE [id |-> ops + 1, expected |-> expected(d), text |-> d.text]
    IN
    /\ win[w].writing /\ req[w] = None
    /\ again \/ ops < MaxOps
    /\ ops' = IF again THEN ops ELSE ops + 1
    /\ win' = [win EXCEPT ![w].retry = command]
    /\ req' = [req EXCEPT ![w] = [kind |-> "publish", command |-> command, draft |-> d]]
    /\ UNCHANGED <<page, row, done, texts, drafts, lost, stored, shown, unseen>>

\* change_page with Save; then the window asks to discard the draft it has published.
write(w) ==
    LET c == req[w].command
        applied == c.id \in done
    IN
    /\ req[w].kind = "publish"
    /\ applied \/ c.expected = page.rev
    /\ page' = IF applied THEN page ELSE [rev |-> page.rev + 1, text |-> c.text]
    /\ done' = done \cup {c.id}
    /\ stored' = stored \cup {c.text}
    /\ \/ /\ req' = [req EXCEPT ![w] = [kind |-> "discard", rev |-> req[w].draft.rev]]
          /\ win' = [win EXCEPT ![w].saved = req[w].draft, ![w].retry = NoCommand]
          /\ UNCHANGED lost
       \/ /\ lose
          /\ req' = [req EXCEPT ![w] = None]
          /\ win' = [win EXCEPT ![w].writing = FALSE]
    /\ UNCHANGED <<row, texts, ops, drafts, shown, unseen>>

\* 409: the current page is fetched and shown beside the draft.
write_conflict(w) ==
    /\ req[w].kind = "publish"
    /\ req[w].command.id \notin done /\ req[w].command.expected # page.rev
    /\ req' = [req EXCEPT ![w] = None]
    /\ win' = [win EXCEPT ![w].conflict = page.rev, ![w].writing = FALSE]
    /\ shown' = [shown EXCEPT ![w] = @ \cup {page.rev}]
    /\ UNCHANGED <<page, row, done, texts, ops, drafts, lost, stored, unseen>>

\* "Use current revision as base"
rebase(w) ==
    /\ win[w].open /\ win[w].conflict # 0 /\ ~ win[w].writing
    /\ win' = [win EXCEPT ![w].draft.base = win[w].conflict, ![w].conflict = 0,
                          ![w].retry = NoCommand]
    /\ UNCHANGED <<page, row, done, req, texts, ops, drafts, lost, stored, shown, unseen>>

closes(w) ==
    /\ win' = [win EXCEPT ![w] = Closed]
    /\ shown' = [shown EXCEPT ![w] = {}]

\* discard_draft: no draft, or the revision the window knows
discardable(rev) == row.rev = 0 \/ row.rev = rev

\* discard_draft, refused or lost or not; then onSaved closes the editor.
discard_draft(w) ==
    /\ req[w].kind = "discard"
    /\ IF discardable(req[w].rev)
       THEN /\ row' = NoRow
            /\ unseen' = (unseen \/ (row.rev # 0 /\ row.rev # win[w].draft.rev))
       ELSE UNCHANGED <<row, unseen>>
    /\ req' = [req EXCEPT ![w] = None]
    /\ closes(w)
    /\ UNCHANGED <<page, done, texts, ops, drafts, lost, stored>>

\* onCancel, or the window is closed
cancel(w) ==
    /\ win[w].open /\ ~ win[w].writing /\ req[w] = None
    /\ closes(w)
    /\ UNCHANGED <<page, row, done, req, texts, ops, drafts, lost, stored, unseen>>

\* change_page by another account
publish_elsewhere ==
    /\ page.rev < MaxRev
    /\ texts < MaxTexts /\ texts' = texts + 1
    /\ page' = [rev |-> page.rev + 1, text |-> texts']
    /\ stored' = stored \cup {texts'}
    /\ UNCHANGED <<row, done, win, req, ops, drafts, lost, shown, unseen>>

Next ==
    \/ \E w \in Windows :
        \/ open(w) \/ edit(w) \/ persist(w) \/ save_draft(w) \/ save_draft_refused(w)
        \/ save(w) \/ publish(w) \/ write(w) \/ write_conflict(w) \/ rebase(w)
        \/ discard_draft(w) \/ cancel(w)
    \/ publish_elsewhere

Spec == Init /\ [][Next]_evars

(***************************************************************************)
(* Properties                                                              *)
(***************************************************************************)

\* A window that shows no unsaved changes shows a text that has reached the
\* server, although the user types while the autosave is in flight and answers
\* are lost: leaving it warns about everything else.
SavedReachedServer == \A w \in Windows : win[w].open /\ ~ dirty(w) => win[w].draft.text \in stored

\* Publishing in one window never discards a draft that another window has
\* saved since and that the publishing window has not seen.
UnseenDraftKept == ~ unseen

\* A publication replaces only a revision that its window has shown, as the base
\* of the draft or beside it in a conflict: no last write wins.
ReplacesShownOnly ==
    page' # page => \/ \E w \in Windows : req[w].kind = "publish" /\ page.rev \in shown[w]
                    \/ texts' # texts
================================================================================
