---------------------------- MODULE Subscriptions ----------------------------
(***************************************************************************)
(* How subscriptions come to be, change and go: the handlers of            *)
(* reader-server read, wait for the network and then write one transaction *)
(* of reader-storage-postgres.  Whatever a handler has read before its     *)
(* write is kept in pend, so that every other handler and the seed and     *)
(* migration commands may commit in between.                               *)
(*                                                                         *)
(* A URL stands for its exact text, which is taken to be canonical.  A     *)
(* collector definition is 0 for the automatic feed reader and a positive  *)
(* number for a web page recipe.                                           *)
(***************************************************************************)
EXTENDS Naturals, FiniteSets, Functions

CONSTANTS
    Clients,    \* concurrent requests
    Workspaces, \* positive numbers; the commands run on workspace 1
    Urls,       \* exact source URLs
    Recipes,    \* recipe documents, positive numbers
    SeedUrl,    \* the URL of the one source of the inventory
    SeedKind,   \* its collector definition, a recipe
    LegacyUrl,  \* the URL of that source at the retired feed proxy
    MaxSubs,    \* subscriptions ever created
    MaxRev,     \* edits of one subscription or of one recipe
    MaxAsked    \* requests in all

VARIABLES
    subs,         \* live subscription -> its document
    removed,      \* ids of removed_subscriptions
    keys,         \* workspace_feed_urls: <<workspace, URL>> -> subscription
    source_urls,  \* shared URL -> source
    sources,      \* source -> collector definition
    mapping,      \* subscription_sources: subscription -> source
    recipes,      \* web_feed_recipes: subscription -> [rev, doc]
    seeded,       \* the manifest row is in seed_items
    previews,     \* unexpired source_url_previews: <<subscription, URL>>
    pend,         \* client -> what its request has read and will write
    acked,        \* ghost: subscription -> the last edits answered with success
    reused,       \* ghost: subscriptions whose recipe went to an existing source
    asked         \* requests so far

svars == <<subs, removed, keys, source_urls, sources, mapping, recipes, seeded,
           previews, pend, acked, reused, asked>>

\* The id of the seeded subscription, and of the source named after SeedUrl.
SeedId == 0

SeedWorkspace == 1

Idle == [op |-> "none"]

Live == DOMAIN subs

fresh(ids) == 1 + Cardinality(ids \ {SeedId})

subscribed(w, u) == \E s \in Live : subs[s].ws = w /\ subs[s].url = u

Without(f, S) == Restrict(f, DOMAIN f \ S)

With(f, x, v) == [y \in DOMAIN f \cup {x} |-> IF y = x THEN v ELSE f[y]]

Init ==
    /\ subs = << >> /\ removed = {} /\ keys = << >>
    /\ source_urls = << >> /\ sources = << >> /\ mapping = << >>
    /\ recipes = << >> /\ seeded = FALSE /\ previews = {}
    /\ pend = [c \in Clients |-> Idle]
    /\ acked = << >> /\ reused = {} /\ asked = 0

\* Only the reservations are consulted.
url_free_reserved(s, w, u) == \A t \in Live \ {s} : <<w, u>> \in DOMAIN keys => keys[<<w, u>>] # t

\* The unique index on workspace and URL of the subscriptions table.
url_free(s, w, u) == \A t \in Live \ {s} : subs[t].ws = w => subs[t].url # u

\* Subscription::new
new_subscription(w, u) == [ws |-> w, url |-> u, name |-> 0, rev |-> 0]

\* The source of a URL in source_urls, proposed when the URL is new there.
shared_source(s, u, kind) ==
    LET known == u \in DOMAIN source_urls
        source == IF known THEN source_urls[u] ELSE fresh(DOMAIN sources)
    IN  /\ source_urls' = With(source_urls, u, source)
        /\ sources' = IF known THEN sources ELSE With(sources, source, kind)
        /\ mapping' = With(mapping, s, source)

\* A source of its own for a recipe; the URL is not entered in source_urls.
isolated_source(s, u, kind) ==
    LET source == IF s = SeedId THEN SeedId ELSE fresh(DOMAIN sources)
    IN  /\ sources' = IF source \in DOMAIN sources THEN sources
                                                   ELSE With(sources, source, kind)
        /\ mapping' = With(mapping, s, source)
        /\ UNCHANGED source_urls

\* provision_subscription_tx without its reservation.
provision_subscription_tx(s, w, u, kind) ==
    /\ IF kind = 0 THEN shared_source(s, u, kind) ELSE isolated_source(s, u, kind)
    /\ subs' = With(subs, s, new_subscription(w, u))
    /\ acked' = With(acked, s, [url |-> u, name |-> 0])
    /\ recipes' = IF kind = 0 THEN recipes ELSE With(recipes, s, [rev |-> 0, doc |-> kind])

ask == asked < MaxAsked /\ asked' = asked + 1

refuse(c) ==
    /\ pend' = [pend EXCEPT ![c] = Idle]
    /\ UNCHANGED <<subs, removed, keys, source_urls, sources, mapping, recipes, seeded,
                   previews, acked, reused, asked>>

reads(c, request) ==
    /\ pend[c] = Idle
    /\ ask
    /\ pend' = [pend EXCEPT ![c] = request]
    /\ UNCHANGED <<subs, removed, keys, source_urls, sources, mapping, recipes, seeded,
                   previews, acked, reused>>

NextSub == fresh(Live \cup removed)

\* add_subscription up to the discovery call: an existing URL is refused.
add_subscription(c, w, u) ==
    /\ NextSub <= MaxSubs
    /\ ~ subscribed(w, u)
    /\ reads(c, [op |-> "add", ws |-> w, url |-> u])

\* save_subscription(None, value): the URL is reserved, then provisioned.
save_new_subscription(c) ==
    /\ pend[c].op = "add"
    /\ NextSub <= MaxSubs
    /\ LET p == pend[c]
       IN  IF <<p.ws, p.url>> \in DOMAIN keys \/ ~ url_free(NextSub, p.ws, p.url)
           THEN refuse(c)
           ELSE /\ provision_subscription_tx(NextSub, p.ws, p.url, 0)
                /\ keys' = With(keys, <<p.ws, p.url>>, NextSub)
                /\ pend' = [pend EXCEPT ![c] = Idle]
                /\ UNCHANGED <<removed, seeded, previews, reused, asked>>

\* web_feed_recipe and save_web_feed_subscription: nothing is read first.
save_web_feed_subscription(w, u, r) ==
    /\ ask
    /\ NextSub <= MaxSubs
    /\ url_free(NextSub, w, u)
    /\ provision_subscription_tx(NextSub, w, u, r)
    /\ UNCHANGED <<removed, keys, seeded, previews, pend, reused>>

\* import_opml: outlines whose URL is already subscribed are dropped.
import_opml(c, w, u) ==
    /\ NextSub <= MaxSubs
    /\ ~ subscribed(w, u)
    /\ reads(c, [op |-> "import", ws |-> w, url |-> u])

\* import_subscriptions_atomic: provisioned without a reservation
import_subscriptions_atomic(c) ==
    /\ pend[c].op = "import"
    /\ NextSub <= MaxSubs
    /\ LET p == pend[c]
       IN  IF ~ url_free(NextSub, p.ws, p.url)
           THEN refuse(c)
           ELSE /\ provision_subscription_tx(NextSub, p.ws, p.url, 0)
                /\ pend' = [pend EXCEPT ![c] = Idle]
                /\ UNCHANGED <<removed, keys, seeded, previews, reused, asked>>

\* apply_seed_atomic, its checks.  The creation time in the document of a
\* live subscription is never that of the manifest loaded now.
seed_checks(c) ==
    /\ SeedId \notin Live
    /\ reads(c, [op |-> "seed", url |-> SeedUrl, exists |-> subscribed(SeedWorkspace, SeedUrl)])

\* apply_seed_atomic, its writes: a subscribed URL only records the key.
apply_seed_atomic(c) ==
    /\ pend[c].op = "seed"
    /\ IF pend[c].exists
       THEN /\ seeded' = TRUE
            /\ pend' = [pend EXCEPT ![c] = Idle]
            /\ UNCHANGED <<subs, removed, keys, source_urls, sources, mapping, recipes,
                           previews, acked, reused, asked>>
       ELSE IF seeded \/ SeedId \in Live \/ ~ url_free(SeedId, SeedWorkspace, SeedUrl)
       THEN refuse(c)
       ELSE /\ provision_subscription_tx(SeedId, SeedWorkspace, SeedUrl, SeedKind)
            /\ seeded' = TRUE
            /\ pend' = [pend EXCEPT ![c] = Idle]
            /\ reused' = IF SeedId \in DOMAIN sources THEN reused \cup {SeedId} ELSE reused
            /\ UNCHANGED <<removed, keys, previews, asked>>

\* Subscription::rename
rename(doc, n) ==
    IF doc.name = n THEN doc ELSE [doc EXCEPT !.name = n, !.rev = @ + 1]

\* Subscription::replace_source
replace_source(doc, u) ==
    IF doc.url = u THEN doc ELSE [doc EXCEPT !.url = u, !.rev = @ + 1]

\* cas_tx: the row still has the revision the request has read.
current(s, rev) == s \in Live /\ subs[s].rev = rev

\* rename_subscription up to its write
rename_subscription(c, s, n) ==
    /\ subs[s].rev < MaxRev
    /\ reads(c, [op |-> "save", sub |-> s, rev |-> subs[s].rev, doc |-> rename(subs[s], n)])

\* save_subscription(Some(revision), value)
save_subscription(c) ==
    /\ pend[c].op = "save"
    /\ LET p == pend[c]
       IN  IF ~ current(p.sub, p.rev)
           THEN refuse(c)
           ELSE /\ subs' = [subs EXCEPT ![p.sub] = p.doc]
                /\ acked' = [acked EXCEPT ![p.sub].name = p.doc.name]
                /\ pend' = [pend EXCEPT ![c] = Idle]
                /\ UNCHANGED <<removed, keys, source_urls, sources, mapping, recipes,
                               seeded, previews, reused, asked>>

\* preview_subscription_source_url: not for a subscription with a recipe
preview_subscription_source_url(s, u) ==
    /\ ask
    /\ s \notin DOMAIN recipes
    /\ previews = {}
    /\ previews' = {<<s, u>>}
    /\ UNCHANGED <<subs, removed, keys, source_urls, sources, mapping, recipes, seeded,
                   pend, acked, reused>>

preview_expires ==
    /\ previews # {}
    /\ previews' = {}
    /\ UNCHANGED <<subs, removed, keys, source_urls, sources, mapping, recipes, seeded,
                   pend, acked, reused, asked>>

\* commit_subscription_source_url up to the repository call
commit_subscription_source_url(c, s, u) ==
    /\ <<s, u>> \in previews
    /\ s \notin DOMAIN recipes
    /\ ~ \E t \in Live \ {s} : subs[t].ws = subs[s].ws /\ subs[t].url = u
    /\ subs[s].rev < MaxRev
    /\ reads(c, [op |-> "replace", sub |-> s, rev |-> subs[s].rev, old |-> subs[s].url,
                 doc |-> replace_source(subs[s], u)])

\* replace_subscription_source, the reads: revision and the owner of the URL
replace_checks(c) ==
    /\ pend[c].op = "replace"
    /\ LET p == pend[c]
       IN  IF \/ ~ current(p.sub, p.rev)
              \/ /\ <<p.doc.ws, p.doc.url>> \in DOMAIN keys
                 /\ keys[<<p.doc.ws, p.doc.url>>] # p.sub
           THEN refuse(c)
           ELSE /\ pend' = [pend EXCEPT ![c].op = "replacing"]
                /\ UNCHANGED <<subs, removed, keys, source_urls, sources, mapping, recipes,
                               seeded, previews, acked, reused, asked>>

\* replace_subscription_source, the writes of its transaction
replace_subscription_source(c) ==
    /\ pend[c].op = "replacing"
    /\ LET p == pend[c]
       IN  IF ~ current(p.sub, p.rev) \/ ~ url_free(p.sub, p.doc.ws, p.doc.url)
           THEN refuse(c)
           ELSE /\ shared_source(p.sub, p.doc.url, 0)
                /\ subs' = [subs EXCEPT ![p.sub] = p.doc]
                /\ keys' = With(Without(keys, {<<p.doc.ws, p.old>>}),
                               <<p.doc.ws, p.doc.url>>, p.sub)
                /\ acked' = [acked EXCEPT ![p.sub].url = p.doc.url]
                /\ pend' = [pend EXCEPT ![c] = Idle]
                /\ UNCHANGED <<removed, recipes, seeded, previews, reused, asked>>

\* get_web_feed_recipe, then update_web_feed_recipe up to its preview
edit_recipe(c, s, r) ==
    /\ s \in DOMAIN recipes
    /\ recipes[s].rev < MaxRev
    /\ reads(c, [op |-> "recipe", sub |-> s, rev |-> recipes[s].rev, doc |-> r])

\* update_web_feed_recipe: the version guards the recipe and the source.
update_web_feed_recipe(c) ==
    /\ pend[c].op = "recipe"
    /\ LET p == pend[c]
       IN  IF p.sub \notin Live \/ recipes[p.sub].rev # p.rev
           THEN refuse(c)
           ELSE /\ recipes' = [recipes EXCEPT ![p.sub] = [rev |-> p.rev + 1, doc |-> p.doc]]
                /\ sources' = [sources EXCEPT ![mapping[p.sub]] = p.doc]
                /\ pend' = [pend EXCEPT ![c] = Idle]
                /\ UNCHANGED <<subs, removed, keys, source_urls, mapping, seeded,
                               previews, acked, reused, asked>>

\* The reservations held by a subscription go with it.
reservations_of(s) == {u \in DOMAIN keys : keys[u] = s}

\* delete_subscription up to its write
ask_delete(c, s) == reads(c, [op |-> "delete", sub |-> s, doc |-> subs[s]])

\* delete_subscription: only the exact document that was read is removed.
delete_subscription(c) ==
    /\ pend[c].op = "delete"
    /\ LET p == pend[c]
       IN  IF p.sub \notin Live \/ (p.sub \in Live /\ subs[p.sub] # p.doc)
           THEN refuse(c)
           ELSE /\ removed' = removed \cup {p.sub}
                /\ mapping' = Without(mapping, {p.sub})
                /\ keys' = Without(keys, reservations_of(p.sub))
                /\ subs' = Without(subs, {p.sub})
                /\ acked' = Without(acked, {p.sub})
                /\ pend' = [pend EXCEPT ![c] = Idle]
                /\ UNCHANGED <<source_urls, sources, recipes, seeded, previews, reused, asked>>

\* The source a migrated subscription is given: the one of its URL, or the one
\* named after the URL.  An automatic source takes over the recipe; any other
\* definition ends the command.
migration_source == IF SeedUrl \in DOMAIN source_urls THEN source_urls[SeedUrl] ELSE SeedId

migration_allowed ==
    migration_source \in DOMAIN sources => sources[migration_source] \in {0, SeedKind}

\* The URL is reserved and subscribed by nobody else.
migration_free(s) ==
    LET key == <<SeedWorkspace, SeedUrl>>
    IN  (key \in DOMAIN keys => keys[key] = s) /\ url_free(s, SeedWorkspace, SeedUrl)

\* The recipe document is inserted, or replaced under its next revision.
migrated_recipe(s) ==
    [rev |-> IF s \in DOMAIN recipes THEN recipes[s].rev + 1 ELSE 0, doc |-> SeedKind]

\* migrate_personal_feed_links_atomic, for the subscription of the retired URL.
migrate_personal_feed_links_atomic(s) ==
    /\ subs[s].ws = SeedWorkspace
    /\ subs[s].url = LegacyUrl
    /\ migration_allowed
    /\ subs[s].rev < MaxRev
    /\ migration_free(s)
    /\ subs' = [subs EXCEPT ![s] = replace_source(@, SeedUrl)]
    /\ acked' = [acked EXCEPT ![s].url = SeedUrl]
    /\ keys' = With(Without(keys, {<<SeedWorkspace, LegacyUrl>>}), <<SeedWorkspace, SeedUrl>>, s)
    /\ sources' = With(sources, migration_source, SeedKind)
    /\ source_urls' = With(source_urls, SeedUrl, migration_source)
    /\ mapping' = [mapping EXCEPT ![s] = migration_source]
    /\ recipes' = With(recipes, s, migrated_recipe(s))
    /\ reused' = reused \cup {s}
    /\ UNCHANGED <<removed, seeded, previews, pend, asked>>

Next ==
    \/ \E c \in Clients :
          \/ \E w \in Workspaces, u \in Urls : add_subscription(c, w, u) \/ import_opml(c, w, u)
          \/ save_new_subscription(c)
          \/ import_subscriptions_atomic(c)
          \/ seed_checks(c)
          \/ apply_seed_atomic(c)
          \/ \E s \in Live :
                \/ \E n \in {0, 1} : rename_subscription(c, s, n)
                \/ \E u \in Urls : commit_subscription_source_url(c, s, u)
                \/ \E r \in Recipes : edit_recipe(c, s, r)
                \/ ask_delete(c, s)
          \/ save_subscription(c)
          \/ replace_checks(c)
          \/ replace_subscription_source(c)
          \/ update_web_feed_recipe(c)
          \/ delete_subscription(c)
    \/ \E w \in Workspaces, u \in Urls, r \in Recipes : save_web_feed_subscription(w, u, r)
    \/ \E s \in Live : migrate_personal_feed_links_atomic(s)
    \/ \E s \in Live, u \in Urls : preview_subscription_source_url(s, u)
    \/ preview_expires

Spec == Init /\ [][Next]_svars

\* A reserved URL belongs to a live subscription of that URL, whatever edits and
\* deletions race: a reservation that outlives its subscription would refuse the
\* URL for ever, with no subscription to open instead.
KeyLive ==
    \A k \in DOMAIN keys :
        keys[k] \in Live /\ <<subs[keys[k]].ws, subs[keys[k]].url>> = k

\* Feed subscriptions of one URL are collected through one shared source, however
\* they were created or moved to that URL.
SourceShared ==
    \A s, t \in Live \ DOMAIN recipes :
        subs[s].url = subs[t].url => mapping[s] = mapping[t]

\* The recipe a subscription shows is what its source collects, and its source is
\* no other subscription's: editing a recipe changes nobody else's feed.  The
\* seed and migration commands alone put a recipe on a source that is there.
RecipeCollected ==
    \A s \in (Live \cap DOMAIN recipes) \ reused :
        /\ sources[mapping[s]] = recipes[s].doc
        /\ \A t \in Live \ {s} : mapping[t] # mapping[s]

\* A rename or a source change answered with success is still there after any
\* number of concurrent edits made from older copies of the document.
EditsKept ==
    \A s \in Live : acked[s] = [url |-> subs[s].url, name |-> subs[s].name]

\* One workspace has at most one subscription of a URL, although adding reserves
\* the URL, importing, seeding and recipes do not, and each checked it earlier.
UrlOnce ==
    \A s, t \in Live :
        subs[s].ws = subs[t].ws /\ subs[s].url = subs[t].url => s = t

=============================================================================
