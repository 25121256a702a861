----------------------------- MODULE Interests ------------------------------
(***************************************************************************)
(* Scoring of articles against the reader's interest profile:              *)
(* AiService::rank_once (crates/reader-ai/src/interests.rs) over           *)
(* reader-storage-postgres/src/ai/interests.rs, with the trigger of        *)
(* schema/interests.sql that marks a score dirty when the content of its   *)
(* article is published again.                                             *)
(*                                                                         *)
(* One owner and one unread article.  The text of the article is a number; *)
(* a publication may leave it as it is.  There is a row of interest_scores *)
(* for every profile revision that was claimed.                            *)
(***************************************************************************)
EXTENDS Naturals, FiniteSets, FiniteSetsExt, TLC

CONSTANTS
    Rankers,     \* workers that rank
    MaxText,     \* bound: texts of the article
    MaxProfile,  \* bound: profile revisions
    MaxLeases,   \* bound: claims
    MaxPublish   \* bound: publications

VARIABLES
    text,        \* committed text of the article
    publishing,  \* the text of a publication that is not committed, or 0
    published,   \* publications so far
    locked,      \* rows the publication in progress has marked
    profile,     \* revision of the profile
    scores,      \* profile revision -> row
    responses,   \* replies kept: [lease, profile, text]
    ranker,      \* what each worker is doing
    leases       \* claims so far

ivars == <<text, publishing, published, locked, profile, scores, responses, ranker, leases>>

Free == [pc |-> "free"]

\* reader_interest_content_changed: the rows that exist are marked.
marked == [p \in DOMAIN scores |-> [scores[p] EXCEPT !.dirty = TRUE]]

\* publish_content writes the manifest, and the trigger runs with it; both are
\* seen by others once the transaction commits.  The rows are locked until then.
write_manifest == /\ publishing = 0 /\ published < MaxPublish
                  /\ \E t \in {text, text + 1} : t <= MaxText /\ publishing' = t
                  /\ published' = published + 1
                  /\ scores' = marked /\ locked' = DOMAIN scores
                  /\ UNCHANGED <<text, profile, responses, ranker, leases>>

commit_manifest == /\ publishing # 0
                   /\ text' = publishing /\ publishing' = 0 /\ locked' = {}
                   /\ UNCHANGED <<published, profile, scores, responses, ranker, leases>>

\* save_profile compares the revision the reader saw; a lost race is a conflict.
save_profile(seen) ==
    /\ seen = profile /\ profile < MaxProfile
    /\ profile' = profile + 1
    /\ UNCHANGED <<text, publishing, published, locked, scores, responses, ranker, leases>>

-----------------------------------------------------------------------------
\* A row a publication in progress has marked cannot be changed until it ends.
unlocked(p) == p \notin locked

interrupted == [p \in DOMAIN scores |->
    IF scores[p].status = "working" /\ scores[p].expired
    THEN [scores[p] EXCEPT !.status = "failed"] ELSE scores[p]]

\* The article is a candidate: never claimed under this profile, dirty and at
\* rest, or put off until now; and no score of the owner is put off until later.
wanted(rows) ==
    /\ \A p \in DOMAIN rows : ~(rows[p].status = "budget" /\ rows[p].wait)
    /\ \/ profile \notin DOMAIN rows
       \/ rows[profile].dirty /\ rows[profile].status \in {"scored", "failed"}
       \/ rows[profile].status = "budget"

\* claim_interest: interrupted claims fail, and the article is claimed.
claim_interest(w) ==
    LET rows == interrupted IN
    /\ ranker[w] = Free
    /\ \A p \in DOMAIN rows : rows[p] # scores[p] => unlocked(p)
    /\ IF wanted(rows) /\ leases < MaxLeases
       THEN /\ profile \in DOMAIN scores => unlocked(profile)
            /\ leases' = leases + 1
            /\ scores' = (profile :> [status |-> "working", dirty |-> FALSE,
                                      lease |-> leases + 1, expired |-> FALSE,
                                      wait |-> FALSE, score |-> 0,
                                      born |-> publishing # 0])
                         @@ rows
            /\ ranker' = [ranker EXCEPT ![w] = [pc |-> "read", lease |-> leases + 1,
                                                profile |-> profile, text |-> 0]]
       ELSE /\ rows # scores
            /\ scores' = rows
            /\ UNCHANGED <<leases, ranker>>
    /\ UNCHANGED <<text, publishing, published, locked, profile, responses>>

\* article_input: the text that is committed now.
article_input(w) ==
    /\ ranker[w].pc = "read"
    /\ ranker' = [ranker EXCEPT ![w].pc = "retain", ![w].text = text]
    /\ UNCHANGED <<text, publishing, published, locked, profile, scores, responses, leases>>

\* The row is still working under this claim.
current(w) == /\ scores[ranker[w].profile].lease = ranker[w].lease
              /\ scores[ranker[w].profile].status = "working"

\* Mutant: the score of dirty content is kept until the next one.
finished_anyway(row, result, score) ==
    [row EXCEPT !.status = result, !.score = score, !.wait = result = "budget",
                !.dirty = FALSE]

\* The UPDATE of finish_interest: dirty content is scored again at once.
finished(row, result, score) ==
    [row EXCEPT !.status = IF row.dirty /\ result # "budget" THEN "budget" ELSE result,
                !.score = IF row.dirty THEN 0 ELSE score,
                !.wait = result = "budget"]

Reply(w) == [lease |-> ranker[w].lease, profile |-> ranker[w].profile, text |-> ranker[w].text]

\* When the claim was lost all of finish_interest is rolled back, the reply too.
kept(w, reply) == IF reply /\ current(w) THEN responses \cup {Reply(w)} ELSE responses

finish_interest(w, result, reply) ==
    LET p == ranker[w].profile IN
    /\ unlocked(p)
    /\ ranker' = [ranker EXCEPT ![w] = Free]
    /\ scores' = IF current(w) THEN [scores EXCEPT ![p] = finished(@, result, ranker[w].text)]
                 ELSE scores
    /\ responses' = kept(w, reply)

\* retain_interest_input: a kept reply to the same input is used again.
retain_interest_input(w) ==
    /\ ranker[w].pc = "retain"
    /\ IF ~current(w)
       THEN finish_interest(w, "failed", FALSE)
       ELSE IF \E r \in responses : r.profile = ranker[w].profile /\ r.text = ranker[w].text
       THEN finish_interest(w, "scored", FALSE)
       ELSE ranker' = [ranker EXCEPT ![w].pc = "reserve"] /\ UNCHANGED <<scores, responses>>
    /\ UNCHANGED <<text, publishing, published, locked, profile, leases>>

\* The daily budget or peak hours put the owner's scoring off, or it is sent.
reserve(w) ==
    /\ ranker[w].pc = "reserve"
    /\ \/ finish_interest(w, "budget", FALSE)
       \/ finish_interest(w, "failed", FALSE)
       \/ /\ ranker' = [ranker EXCEPT ![w].pc = "asked"]
          /\ UNCHANGED <<scores, responses>>
    /\ UNCHANGED <<text, publishing, published, locked, profile, leases>>

\* The provider answers, with a prediction or without.
classify(w) ==
    /\ ranker[w].pc = "asked"
    /\ \/ finish_interest(w, "scored", TRUE)
       \/ finish_interest(w, "failed", FALSE)
    /\ UNCHANGED <<text, publishing, published, locked, profile, leases>>

\* The lease ends by the clock, whether its worker lives or not.
Expire(p) == /\ scores[p].status = "working" /\ ~scores[p].expired
             /\ scores' = [scores EXCEPT ![p].expired = TRUE]
             /\ UNCHANGED <<text, publishing, published, locked, profile, responses, ranker, leases>>

Die(w) == /\ ranker[w] # Free
          /\ ranker' = [ranker EXCEPT ![w] = Free]
          /\ UNCHANGED <<text, publishing, published, locked, profile, scores, responses, leases>>

\* The time a score was put off until has come.
Resume(p) == /\ scores[p].wait
             /\ scores' = [scores EXCEPT ![p].wait = FALSE]
             /\ UNCHANGED <<text, publishing, published, locked, profile, responses, ranker, leases>>

-----------------------------------------------------------------------------
Init == /\ text = 1 /\ publishing = 0 /\ published = 0 /\ locked = {} /\ profile = 1
        /\ scores = <<>> /\ responses = {} /\ leases = 0
        /\ ranker = [w \in Rankers |-> Free]

Next == \/ write_manifest \/ commit_manifest
        \/ \E seen \in 1..profile : save_profile(seen)
        \/ \E w \in Rankers : \/ claim_interest(w) \/ article_input(w)
                              \/ retain_interest_input(w) \/ reserve(w)
                              \/ classify(w) \/ Die(w)
        \/ \E p \in DOMAIN scores : Expire(p) \/ Resume(p)

Spec == Init /\ [][Next]_ivars

-----------------------------------------------------------------------------
(* Properties.                                                             *)

\* A score that is shown is of the text the article has, however the claim,
\* the reading of the text, publications and late replies are interleaved
\* (feed_order shows scores that are not dirty).  The one exception is a row
\* first claimed while a publication was in progress: its trigger ran before
\* there was a row to mark.
ScoreOfCurrentText ==
    \A p \in DOMAIN scores :
        scores[p].status = "scored" /\ ~scores[p].dirty /\ ~scores[p].born
            => scores[p].score = text

\* At most one prediction is kept for a text and a profile revision: the kept
\* one is used again, and a worker that lost its claim adds none.
OneReplyKept == \A r, s \in responses : r.profile = s.profile /\ r.text = s.text => r = s
=============================================================================
