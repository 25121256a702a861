------------------------------ MODULE MCAiTasks -----------------------------
(***************************************************************************)
(* One run over the three independent parts of the automatic AI work: the  *)
(* definition and translation jobs, the interest scores and the initial    *)
(* selection of a subscription.  They share no state, so the initial state *)
(* chooses the part that moves and the others stay as they are.            *)
(***************************************************************************)
EXTENDS Naturals, Sequences, TLC

CONSTANTS Workers, Ops, Kinds, Limit, MaxJobs, MaxRevision, MaxClaims, MaxDay, Faults,
          MaxText, MaxProfile, MaxLeases, MaxPublish,
          MaxRecord, Articles, InitialArticles, Batch, MaxChanges

VARIABLES part,
          jobs, opened, revision, spending, task, peak, excluded, rejected, scheduling, day, faults,
          text, publishing, published, locked, profile, scores, responses, ranker, leases,
          discovered, backlog, fan, phase, cutoff, initial, selected, origin, tx, hidden, changes

Terms == INSTANCE AiTerms
Ranking == INSTANCE Interests WITH Rankers <- Workers
Selection == INSTANCE Bootstrap

termsVars == <<jobs, opened, revision, spending, task, peak, excluded, rejected, scheduling, day, faults>>
rankingVars == <<text, publishing, published, locked, profile, scores, responses, ranker, leases>>
selectionVars == <<discovered, backlog, fan, phase, cutoff, initial, selected, origin, tx, hidden,
                   changes>>
vars == <<part, termsVars, rankingVars, selectionVars>>

Init == /\ part \in {"terms", "ranking", "selection"}
        /\ Terms!Init /\ Ranking!Init /\ Selection!Init
        /\ part # "terms" => jobs = <<>>

TermsStep == part = "terms" /\ Terms!Next /\ UNCHANGED <<part, rankingVars, selectionVars>>
RankingStep == part = "ranking" /\ Ranking!Next /\ UNCHANGED <<part, termsVars, selectionVars>>
SelectionStep == part = "selection" /\ Selection!Next /\ UNCHANGED <<part, termsVars, rankingVars>>

Next == TermsStep \/ RankingStep \/ SelectionStep

Spec == Init /\ [][Next]_vars

\* The subscription alone, with the fairness of the queue that serves it.
SelectionSpec ==
    /\ Init /\ part = "selection" /\ [][Next]_vars
    /\ \A r \in 1..MaxRecord : WF_selectionVars(r \in fan /\ Selection!Deliver(r))
    /\ WF_selectionVars(Selection!pending_poll)
    /\ WF_selectionVars(Selection!not_modified)

Symmetry == Permutations(Workers) \cup Permutations(Ops) \cup Permutations(Articles)

-----------------------------------------------------------------------------
\* Terms are paid for once: a definition or translation job however often it is
\* recovered, the same input however often it is asked, and the automatic job of an
\* article however often it is scheduled (AiTerms).
TermsPaidOnce == Terms!JobPaidOnce /\ Terms!SameInputOnce /\ Terms!AutomaticOnce

\* A score that is shown is of the text the article has, and at most one prediction
\* is kept for a text and a profile (Interests).
ScoresExact == Ranking!ScoreOfCurrentText /\ Ranking!OneReplyKept

\* Of the archive that a new subscription brings, no delivery is overlooked by the
\* selection, no more articles than allowed are open to automatic work however
\* records are regrouped, and the rest of a long first response belongs to the
\* archive too (Bootstrap).
SelectionExact ==
    Selection!NothingOverlooked /\ Selection!AllowanceHolds /\ Selection!BacklogIsInitial

\* The selection of a subscription is made in the end (Bootstrap).
SelectionMade == Selection!SelectionMade
=============================================================================
