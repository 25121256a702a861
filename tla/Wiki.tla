---------------------------------- MODULE Wiki ----------------------------------
(***************************************************************************)
(* One wiki namespace: pages, their names, parents, revisions and          *)
(* operation receipts.  Every write locks the namespace row FOR UPDATE, so *)
(* a server operation is one step; what races is the client: a command     *)
(* carries the revision that was current when it was built, other commands *)
(* commit before it, and its answer may be lost and the command repeated.  *)
(*                                                                         *)
(* The text of a page is abstracted to its revision.  The dialog that      *)
(* creates the page of a subscription is a client of the same commands.    *)
(***************************************************************************)
EXTENDS Naturals, FiniteSets

CONSTANTS
    Owner,      \* the account that owns the namespace
    Guest,      \* an account that may be a member
    Pages,      \* page ids; 0 is none
    Names,      \* page names
    Root,       \* the name "Subscriptions"
    Moved, Other,  \* pages that exist at the start
    First, Second, \* their names
    MaxRev,     \* revisions written
    MaxSent,    \* requests made
    MaxLost     \* answers lost

VARIABLES
    pages,      \* wiki_pages: rev (0 when there is no row), name, parent, deleted
    names,      \* wiki_page_names: name -> page or 0
    history,    \* wiki_revisions
    last,       \* the newest revision
    root,       \* wiki_subscription_roots
    role,       \* wiki_members: the role of Guest
    favorites,  \* wiki_favorites, of Guest
    binding,    \* subscription_wiki_links of the one subscription of Owner
    pend,       \* account -> the command sent and not yet answered
    receipt,    \* account -> revision its operation wrote, in wiki_operations; 0 none
    refused,    \* account -> its last command was refused
    attempt,    \* CreateSubscriptionPage: its page, and how far it got
    sent, lost

wvars == <<pages, names, history, last, root, role, favorites, binding, pend, receipt,
           refused, attempt, sent, lost>>

Accounts == {Owner, Guest}

Idle == [op |-> "none"]

NoPage == [rev |-> 0, name |-> "", parent |-> 0, deleted |-> FALSE]

revision_row(p, row) == [page |-> p, rev |-> row.rev, name |-> row.name, parent |-> row.parent]

\* A namespace with two pages; Moved was under Other and has been moved out.  Other
\* may be the registered Subscriptions page.
Init ==
    /\ root \in {0, Other}
    /\ LET other == IF root = Other THEN Root ELSE Second IN
        /\ pages = [p \in Pages |->
                      CASE p = Moved -> [NoPage EXCEPT !.rev = 3, !.name = First]
                        [] p = Other -> [NoPage EXCEPT !.rev = 1, !.name = other]
                        [] OTHER     -> NoPage]
        /\ names = [n \in Names |->
                      CASE n = First -> Moved [] n = other -> Other [] OTHER -> 0]
    /\ history = {revision_row(p, pages[p]) : p \in {Moved, Other}}
                 \cup {[page |-> Moved, rev |-> 2, name |-> First, parent |-> Other]}
    /\ last = 3
    /\ role = "editor" /\ favorites = {} /\ binding = 0
    /\ pend = [a \in Accounts |-> Idle]
    /\ receipt = [a \in Accounts |-> 0]
    /\ refused = [a \in Accounts |-> FALSE]
    /\ attempt = [page |-> 0, stage |-> "closed", rev |-> 0, command |-> Idle]
    /\ sent = 0 /\ lost = 0

requested == sent < MaxSent /\ sent' = sent + 1

\* authorize: the role under the lock of the namespace row
authorized(a) == a = Owner \/ role # "none"

\* Role::can_edit
editor(a) == a = Owner \/ role = "editor"

\* load_page, for a page that is not 0
load_page(a, p) == pages[p].rev # 0 /\ (pages[p].deleted => editor(a))

live(p) == pages[p].rev # 0 /\ ~ pages[p].deleted

\* What the page view offers, within Write::new: a page that does not exist is only
\* saved, one in the trash only restored, and no page is offered as its own parent.
changes(p) ==
    IF pages[p].rev = 0 THEN {[op |-> "save", name |-> n] : n \in Names}
    ELSE IF pages[p].deleted THEN {[op |-> "restore"]}
    ELSE {[op |-> "save", name |-> pages[p].name], [op |-> "trash"]}
         \cup {[op |-> "rename", name |-> n] : n \in Names \ {pages[p].name}}
         \cup {[op |-> "set_parent", parent |-> q] : q \in (Pages \cup {0}) \ {p, pages[p].parent}}
         \cup {[op |-> "restore_revision", rev |-> h.rev] :
                  h \in {x \in history : x.page = p /\ x.rev # pages[p].rev}}

command(p, change) == [op |-> "write", page |-> p, expected |-> pages[p].rev, change |-> change]

\* A page view builds a command on the revision it shows.
send(a, p) ==
    /\ pend[a] = Idle /\ requested
    /\ a = Owner => attempt.stage \in {"closed", "done"}
    /\ \E ch \in changes(p) : pend' = [pend EXCEPT ![a] = command(p, ch)]
    /\ receipt' = [receipt EXCEPT ![a] = 0]
    /\ refused' = [refused EXCEPT ![a] = FALSE]
    /\ UNCHANGED <<pages, names, history, last, root, role, favorites, binding, attempt, lost>>

\* The row a change asks for
changed(p, ch) ==
    LET row == pages[p] IN
    CASE ch.op = "save"       -> [row EXCEPT !.name = ch.name, !.deleted = FALSE]
      [] ch.op = "rename"     -> [row EXCEPT !.name = ch.name]
      [] ch.op = "set_parent" -> [row EXCEPT !.parent = ch.parent]
      [] ch.op = "trash"      -> [row EXCEPT !.deleted = TRUE]
      [] ch.op = "restore"    -> [row EXCEPT !.deleted = FALSE]
      [] ch.op = "restore_revision" ->
            LET old == CHOOSE h \in history : h.page = p /\ h.rev = ch.rev
            IN  [row EXCEPT !.name = old.name, !.parent = old.parent]

\* The state of the page that each change needs
applicable(p, ch) ==
    CASE ch.op = "restore" -> pages[p].deleted
      [] ch.op = "save"    -> ~ pages[p].deleted
      [] OTHER             -> live(p)

\* The ancestors of a page, itself included
ancestors(p) ==
    LET up[n \in 0..Cardinality(Pages)] ==
            IF n = 0 THEN {p} ELSE up[n - 1] \cup {pages[q].parent : q \in up[n - 1] \ {0}}
    IN  up[Cardinality(Pages)]

\* The check looks at the new parent and the page above it.
cycle_above(p, parent) == p \in {parent, pages[parent].parent}

\* The recursive query over the ancestors of the new parent
cycle(p, parent) == p \in ancestors(parent)

parent_allowed(a, p, ch, parent) ==
    parent # 0 =>
        /\ load_page(a, parent)
        /\ ch.op \in {"set_parent", "restore_revision"} => ~ pages[parent].deleted
        /\ ~ cycle(p, parent)

\* wiki_page_names has the name for no other page: former names stay.
name_free(n, p) == names[n] \in {0, p}

allowed(a, p, ch) ==
    /\ applicable(p, ch)
    /\ parent_allowed(a, p, ch, changed(p, ch).parent)
    /\ name_free(changed(p, ch).name, p)

\* INSERT ... ON CONFLICT DO UPDATE, the name, the revision
stored(p, row) ==
    LET new == [row EXCEPT !.rev = last + 1]
    IN  /\ last' = last + 1
        /\ pages' = [pages EXCEPT ![p] = new]
        /\ names' = [names EXCEPT ![new.name] = p]
        /\ history' = history \cup {revision_row(p, new)}

\* The receipt is not looked up.
answered_before_never(a) == FALSE

\* SELECT request, response FROM wiki_operations
answered_before(a) == receipt[a] # 0

\* CreateSubscriptionPage: its next stage when a command succeeded; the revision in
\* the answer is the one the next command expects.
advanced(rev) ==
    CASE attempt.stage = "create"  -> [attempt EXCEPT !.stage = "created", !.rev = rev]
      [] attempt.stage = "created" -> [attempt EXCEPT !.stage = "parented", !.rev = 0]
      [] OTHER                     -> attempt

\* Success; a lost answer leaves the command to be sent again.
answered(a, rev) ==
    \/ /\ pend' = [pend EXCEPT ![a] = Idle]
       /\ receipt' = [receipt EXCEPT ![a] = 0]
       /\ attempt' = IF a = Owner THEN advanced(rev) ELSE attempt
       /\ UNCHANGED <<refused, lost>>
    \/ /\ lost < MaxLost /\ lost' = lost + 1
       /\ receipt' = [receipt EXCEPT ![a] = rev]
       /\ UNCHANGED <<pend, refused, attempt>>

\* change_page
change_page(a) ==
    LET c == pend[a] IN
    /\ c.op = "write"
    /\ editor(a)
    /\ IF answered_before(a)
       THEN answered(a, receipt[a]) /\ UNCHANGED <<pages, names, history, last>>
       ELSE /\ c.expected = pages[c.page].rev /\ allowed(a, c.page, c.change)
            /\ last < MaxRev
            /\ stored(c.page, changed(c.page, c.change))
            /\ answered(a, last + 1)
    /\ UNCHANGED <<root, role, favorites, binding, sent>>

\* change_page returns an error and rolls back.
change_page_refused(a) ==
    LET c == pend[a] IN
    /\ c.op = "write"
    /\ editor(a) /\ ~ answered_before(a)
    /\ c.expected # pages[c.page].rev \/ ~ allowed(a, c.page, c.change)
    /\ pend' = [pend EXCEPT ![a] = Idle]
    /\ refused' = [refused EXCEPT ![a] = TRUE]
    /\ UNCHANGED <<pages, names, history, last, root, role, favorites, binding, receipt, attempt,
                   sent, lost>>

\* Forbidden, or NotFound for an account that is no member any more
change_page_forbidden(a) ==
    /\ pend[a].op = "write" /\ ~ editor(a)
    /\ pend' = [pend EXCEPT ![a] = Idle]
    /\ UNCHANGED <<pages, names, history, last, root, role, favorites, binding, receipt, refused,
                   attempt, sent, lost>>

\* The page that shows the answer is closed, and the command with it.
close(a) ==
    /\ pend[a] # Idle
    /\ a = Owner => attempt.stage = "closed"
    /\ pend' = [pend EXCEPT ![a] = Idle]
    /\ UNCHANGED <<pages, names, history, last, root, role, favorites, binding, receipt, refused,
                   attempt, sent, lost>>

\* ensure_subscription_root: the registered page must not be in the trash, and a
\* page of that name is not adopted.
root_ready == IF root # 0 THEN live(root) ELSE names[Root] = 0

ensure_subscription_root(a, p) ==
    /\ editor(a) /\ pages[p].rev = 0 /\ last < MaxRev
    /\ root = 0 /\ root_ready
    /\ stored(p, [NoPage EXCEPT !.name = Root])
    /\ root' = p
    /\ UNCHANGED <<role, favorites, binding, pend, receipt, refused, attempt, sent, lost>>

set_favorite(p, favorite) ==
    /\ requested
    /\ authorized(Guest) /\ load_page(Guest, p) /\ ~ pages[p].deleted
    /\ favorites' = IF favorite THEN favorites \cup {p} ELSE favorites \ {p}
    /\ UNCHANGED <<pages, names, history, last, root, role, binding, pend, receipt, refused,
                   attempt, lost>>

set_member(r) ==
    /\ requested
    /\ r # role /\ role' = r
    /\ UNCHANGED <<pages, names, history, last, root, favorites, binding, pend, receipt, refused,
                   attempt, lost>>

\* set_binding; 0 removes it
set_binding(p) ==
    /\ p # binding
    /\ p # 0 => live(p)
    /\ binding' = p
    /\ UNCHANGED <<pages, names, history, last, root, role, favorites, pend, receipt, refused, lost>>

bind(p) == requested /\ set_binding(p) /\ UNCHANGED attempt

\* CreateSubscriptionPage sends a command of its own.
attempts(c, stage) ==
    /\ pend[Owner] = Idle /\ requested
    /\ pend' = [pend EXCEPT ![Owner] = c]
    /\ attempt' = [page |-> c.page, stage |-> stage, rev |-> 0, command |-> c]
    /\ receipt' = [receipt EXCEPT ![Owner] = 0]
    /\ refused' = [refused EXCEPT ![Owner] = FALSE]
    /\ UNCHANGED <<pages, names, history, last, root, role, favorites, binding, lost>>

\* Pressed: the root exists, then the page is created
create_and_link(p) ==
    /\ attempt.stage = "closed"
    /\ root # 0 /\ live(root) /\ pages[p].rev = 0
    /\ \E n \in Names : attempts(command(p, [op |-> "save", name |-> n]), "create")

\* The parent command is built on the revision the creation answered.
link_under_root ==
    /\ attempt.stage = "created" /\ attempt.rev # 0
    /\ attempts([command(attempt.page, [op |-> "set_parent", parent |-> root])
                    EXCEPT !.expected = attempt.rev], "created")

\* Pressed again after a refusal: the same operation
press_again ==
    /\ attempt.stage \in {"create", "created"} /\ refused[Owner] /\ pend[Owner] = Idle
    /\ requested
    /\ pend' = [pend EXCEPT ![Owner] = attempt.command]
    /\ refused' = [refused EXCEPT ![Owner] = FALSE]
    /\ UNCHANGED <<pages, names, history, last, root, role, favorites, binding, receipt, attempt,
                   lost>>

\* client.bind, once the page has its parent
link_subscription ==
    /\ attempt.stage = "parented"
    /\ set_binding(attempt.page) /\ UNCHANGED sent
    /\ attempt' = [attempt EXCEPT !.stage = "done"]

Next ==
    \/ \E a \in Accounts, p \in Pages : send(a, p)
    \/ \E a \in Accounts : change_page(a)
    \/ \E a \in Accounts : change_page_refused(a)
    \/ \E a \in Accounts : change_page_forbidden(a)
    \/ \E a \in Accounts : close(a)
    \/ \E a \in Accounts, p \in Pages : ensure_subscription_root(a, p)
    \/ \E p \in Pages, f \in BOOLEAN : set_favorite(p, f)
    \/ \E r \in {"none", "reader", "editor"} : set_member(r)
    \/ \E p \in Pages \cup {0} : bind(p)
    \/ \E p \in Pages : create_and_link(p)
    \/ link_under_root
    \/ press_again
    \/ link_subscription

Spec == Init /\ [][Next]_wvars

(***************************************************************************)
(* Properties                                                              *)
(***************************************************************************)

\* Whatever moves, renames, trashing and restored revisions are interleaved,
\* no page is its own ancestor: a restored revision brings back the parent it
\* had, and two editors may move pages under each other.
NoCycles == \A p \in Pages : pages[p].parent # 0 => p \notin ancestors(pages[p].parent)

\* Every name a page ever had leads to that page and to no other, so links by
\* a former name keep their meaning and every revision can be restored under
\* its own name.
FormerNamesKept == \A h \in history : names[h.name] = h.page

\* A command that has been applied is never answered with a conflict when it is
\* repeated after a lost answer: the client would show the user a conflict with
\* their own text.
AppliedNotRefused == \A a \in Accounts : refused[a] => receipt[a] = 0

\* A page that the dialog has linked to its subscription has been under the
\* Subscriptions page, whatever was lost and repeated on the way.
LinkedUnderRoot ==
    attempt.stage = "done" =>
        \E h \in history : h.page = attempt.page /\ h.parent = root /\ root # 0
================================================================================
