------------------------------ MODULE MCServices ----------------------------
(***************************************************************************)
(* One run over the services around the library: accounts, the wiki and    *)
(* its editor, the Telegram glossary, the routes and redirects of outgoing *)
(* requests, the releases of the database, the AI replies that are shown   *)
(* while they arrive or applied to a draft or a paragraph, and the process *)
(* that runs them all.  The parts share no state; the initial state        *)
(* chooses the one that moves and the others stay in one of their initial  *)
(* states.                                                                 *)
(***************************************************************************)
EXTENDS Naturals, Sequences

CONSTANTS Calls, Passwords, Invites, Resets, MaxAuth, MaxSessions, Limit, Minute, MaxNow,
          Owner, Guest, Pages, Names, Root, Moved, Other, First, Second, MaxRev, MaxSent, MaxLost,
          Windows, MaxTexts, MaxPageRev, MaxOps,
          Pollers, Readers, Archived, MaxMessages, MaxVersion, MaxUpdates, Batch, MaxLosses,
          MaxFailures, MaxPasses,
          Requests, Endpoints, MaxRequests,
          Home, Elsewhere, Paths, MaxAddresses, MaxHops, MaxBody,
          Runners, MaxRows, Chunk, MaxRuns,
          Inserted, MaxUnits, MaxDelta, MaxReply,
          Letters, MaxText, MaxPart,
          Ingest, Loops, Ai, Slots, Icons, Concurrency, MaxPanics

VARIABLES part,
          account, tokens, sessions, attempts, now, calling, opened, used, signins,
          pages, names, history, last, root, role, favorites, binding, command, receipt,
          refused, attempt, sent, answers_lost,
          page, row, done, win, req, texts, ops, drafts, lost, stored, shown, unseen,
          versions, updates, forgotten, configured, cursor, poll_lease, polling, events, posts,
          inventory, receipts, import_complete, history_before, history_lease, reading, passed,
          passes, losses, failures,
          health, probing, order, routed, requests, passed_over,
          request, restricted, at, left, seen, hops, recovered, received, observed, sends,
          visits,
          db, malformed, runner, locked, runs, upgraded,
          wire, parser, displayed, event, retained, outcome,
          kind, source, reply, result,
          main, stop, failure, closing, stage, queue, icons, flying, late

Signing == INSTANCE Accounts WITH pend <- calling
Editing == INSTANCE Wiki WITH pend <- command, lost <- answers_lost
Drafting == INSTANCE WikiEditor WITH MaxRev <- MaxPageRev
Archiving == INSTANCE Glossary
Routing == INSTANCE ProxyPool WITH MaxSent <- MaxRequests, req <- routed, sent <- requests
Sending == INSTANCE Outbound
Upgrading == INSTANCE SchemaRelease WITH Batch <- Chunk
Streaming == INSTANCE ReplyStream WITH Limit <- MaxReply, shown <- displayed
Correcting == INSTANCE ReplyEdits WITH Heading <- <<"b", "b">>, Article <- <<"a", "b">>
Process == INSTANCE Lifecycle WITH Page <- Icons, left <- icons

accountsVars == <<account, tokens, sessions, attempts, now, calling, opened, used, signins>>
wikiVars == <<pages, names, history, last, root, role, favorites, binding, command, receipt,
              refused, attempt, sent, answers_lost>>
editorVars == <<page, row, done, win, req, texts, ops, drafts, lost, stored, shown, unseen>>
glossaryVars == <<versions, updates, forgotten, configured, cursor, poll_lease, polling, events,
                  posts, inventory, receipts, import_complete, history_before, history_lease,
                  reading, passed, passes, losses, failures>>
proxiesVars == <<health, probing, order, routed, requests, passed_over>>
outboundVars == <<request, restricted, at, left, seen, hops, recovered, received, observed,
                  sends, visits>>
schemaVars == <<db, malformed, runner, locked, runs, upgraded>>
streamVars == <<wire, parser, displayed, event, retained, outcome>>
editsVars == <<kind, source, reply, result>>
processVars == <<main, stop, failure, closing, stage, queue, icons, flying, late>>
vars == <<part, accountsVars, wikiVars, editorVars, glossaryVars, proxiesVars, outboundVars,
          schemaVars, streamVars, editsVars, processVars>>

Parts == {"accounts", "wiki", "editor", "glossary", "proxies", "outbound", "schema", "stream",
          "edits", "process"}

Init ==
    /\ part \in Parts
    /\ Signing!Init
    /\ Editing!Init /\ (part # "wiki" => root = 0)
    /\ Drafting!Init
    /\ Archiving!Init
    /\ Routing!Init
    /\ Sending!Init /\ (part # "outbound" => request = [method |-> "GET", url |-> <<Home, 1>>, credentials |-> FALSE,
                                validators |-> FALSE, ranged |-> FALSE] /\ ~restricted)
    /\ Upgrading!Init /\ (part # "schema" => db.releases = {21} /\ malformed = {})
    /\ IF part = "stream" THEN Streaming!Init
       ELSE /\ wire = << >> /\ parser = Streaming!Fresh /\ displayed = << >>
            /\ event = [done |-> FALSE, stopped |-> FALSE, output_limit |-> FALSE, usage |-> FALSE]
            /\ retained = << >> /\ outcome = "idle"
    /\ IF part = "edits" THEN Correcting!Init
       ELSE kind = "none" /\ source = << >> /\ reply = << >> /\ result = Correcting!None
    /\ Process!Init

Next ==
    \/ /\ part = "accounts" /\ Signing!Next
       /\ UNCHANGED <<part, wikiVars, editorVars, glossaryVars, proxiesVars, outboundVars, schemaVars,
                      streamVars, editsVars, processVars>>
    \/ /\ part = "wiki" /\ Editing!Next
       /\ UNCHANGED <<part, accountsVars, editorVars, glossaryVars, proxiesVars, outboundVars,
                      schemaVars, streamVars, editsVars, processVars>>
    \/ /\ part = "editor" /\ Drafting!Next
       /\ UNCHANGED <<part, accountsVars, wikiVars, glossaryVars, proxiesVars, outboundVars,
                      schemaVars, streamVars, editsVars, processVars>>
    \/ /\ part = "glossary" /\ Archiving!Next
       /\ UNCHANGED <<part, accountsVars, wikiVars, editorVars, proxiesVars, outboundVars, schemaVars,
                      streamVars, editsVars, processVars>>
    \/ /\ part = "proxies" /\ Routing!Next
       /\ UNCHANGED <<part, accountsVars, wikiVars, editorVars, glossaryVars, outboundVars,
                      schemaVars, streamVars, editsVars, processVars>>
    \/ /\ part = "outbound" /\ Sending!Next
       /\ UNCHANGED <<part, accountsVars, wikiVars, editorVars, glossaryVars, proxiesVars, schemaVars,
                      streamVars, editsVars, processVars>>
    \/ /\ part = "schema" /\ Upgrading!Next
       /\ UNCHANGED <<part, accountsVars, wikiVars, editorVars, glossaryVars, proxiesVars,
                      outboundVars, streamVars, editsVars, processVars>>
    \/ /\ part = "stream" /\ Streaming!Next
       /\ UNCHANGED <<part, accountsVars, wikiVars, editorVars, glossaryVars, proxiesVars,
                      outboundVars, schemaVars, editsVars, processVars>>
    \/ /\ part = "edits" /\ Correcting!Next
       /\ UNCHANGED <<part, accountsVars, wikiVars, editorVars, glossaryVars, proxiesVars,
                      outboundVars, schemaVars, streamVars, processVars>>
    \/ /\ part = "process" /\ Process!Next
       /\ UNCHANGED <<part, accountsVars, wikiVars, editorVars, glossaryVars, proxiesVars,
                      outboundVars, schemaVars, streamVars, editsVars>>

Spec == Init /\ [][Next]_vars

-----------------------------------------------------------------------------
\* Signing in stays tied to the present credentials: a session that is open was opened
\* under the present password, an invitation or a reset takes effect once, and no more
\* sign-ins are tried in a minute than allowed (Accounts).
SignInSound == part = "accounts" => Signing!SignInSound

\* A write takes effect only over what its writer has seen: a password change over
\* the password it verified (Accounts), a publication over a revision its window has
\* shown (WikiEditor), and the Telegram cursor never goes back or past an update that
\* is not stored (Glossary).
NoStaleWrite ==
    [][/\ part = "accounts" => Signing!ChangeVerified
       /\ part = "editor" => Drafting!ReplacesShownOnly
       /\ part = "glossary" => Archiving!CursorForward]_vars

\* Pages stay reachable however they are moved and renamed: none is above itself, a
\* former name keeps leading to its page, and the page of a linked subscription
\* stands under the root (Wiki).
PagesReachable ==
    part = "wiki" => Editing!NoCycles /\ Editing!FormerNamesKept /\ Editing!LinkedUnderRoot

\* A command that was applied is not refused to its sender (Wiki).
AppliedNotRefused == part = "wiki" => Editing!AppliedNotRefused

\* Typed text is kept: a draft shown as saved is on the server, and a draft the
\* publisher has not seen is not discarded (WikiEditor).
TypedTextKept == part = "editor" => Drafting!SavedReachedServer /\ Drafting!UnseenDraftKept

\* The archive of a channel is whole: an update acknowledged to Telegram is stored, a
\* post is never shown in an older version than was stored, and a pass over the
\* history that ended has read every post (Glossary).
ChannelKept ==
    part = "glossary" =>
        Archiving!AcknowledgedStored /\ Archiving!NeverSilentlyOlder /\ Archiving!PassComplete

\* Routes recover in turn: an unhealthy one is probed by one request at a time, and
\* none is passed over for ever (ProxyPool).
RecoveryFair == part = "proxies" => Routing!ProbeReserved /\ Routing!TailNotStarved

\* Whatever redirects and failing addresses it meets, a request stays one request: a
\* POST that may have been received is not sent again, redirects never lead in a
\* circle, its outcome is reported once, its credentials stay with their origin and
\* its restriction to public addresses holds on the way (Outbound).
RequestKept ==
    part = "outbound" =>
        /\ Sending!PostOnce /\ Sending!NoCircle /\ Sending!ReportedOnce
        /\ Sending!CredentialsStay /\ Sending!RestrictedStays

\* A database that carries a release has all of it, each release is upgraded once, and
\* a process serves only the release it was built for (SchemaRelease).
OneRelease ==
    part = "schema" =>
        Upgrading!WholeRelease /\ Upgrading!UpgradedOnce /\ Upgrading!ServesRelease

\* What is shown of a reply while it arrives is a part of the reply, a well-formed one
\* is shown whole, no quotation is shown unverified, and what was received of a paid
\* reply is kept when the stream breaks (ReplyStream).
ReplyExact ==
    part = "stream" => /\ Streaming!ShownIsReply /\ Streaming!GoodReplyScanned
                       /\ Streaming!QuotesVerified /\ Streaming!ReceivedKept

\* A reply is applied exactly: a review changes the places its anchors name and is
\* taken when they are unique and apart, and a dictionary is accepted exactly when it
\* covers the paragraph (ReplyEdits).
AppliedExactly ==
    part = "edits" =>
        Correcting!ReviewExact /\ Correcting!ReviewTaken /\ Correcting!DictionaryFits

\* The process ends in order: it reports success only if no claimed job and no
\* request was cut short and no icon fetch is in flight, and no worker begins more
\* than one operation after it is told to stop (Lifecycle).
OrderlyEnd == part = "process" => Process!CleanExit /\ Process!LastOperation
=============================================================================
