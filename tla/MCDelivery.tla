----------------------------- MODULE MCDelivery -----------------------------
(***************************************************************************)
(* Small instances of Delivery for TLC.  A scenario fixes the constants;   *)
(* the initial state chooses the scenario and only its steps are taken.    *)
(* Keys that a rule tells apart are x1 and x2; k1 and k2, like workers w1  *)
(* and w2, are interchangeable.                                            *)
(***************************************************************************)
EXTENDS Naturals, Sequences, FiniteSets, TLC

CONSTANTS r1, r2, feed, other, k1, k2, x1, x2, w, w1, w2, None

VARIABLES scenario, record, status, accepting, toggles, ready, ended, failed, run,
          articles, dedup, links, rules, rule_jobs, owed

libraryVars == <<record, status, accepting, toggles, ready, ended, failed, run,
                 articles, dedup, links, rules, rule_jobs, owed>>
vars == <<scenario, libraryVars>>

Sources == {feed, other}
\* Two records of two sources meet under one key and part again; the reader
\* marks articles.
Dedup == INSTANCE Delivery WITH
    Records <- {r1, r2}, SourceOf <- (r1 :> feed @@ r2 :> other), Keys <- {k1, k2},
    Subs <- {1, 2}, LinkOf <- <<feed, other>>, ArticleIds <- {1, 2}, Workers <- {w},
    Old <- {r1}, Matching <- {}, Batch <- 2, MaxRevision <- (r1 :> 2 @@ r2 :> 1),
    MaxToggles <- 0, MaxRuleVersion <- 0, Commands <- {"read", "later"},
    Newest <- (r1 :> 1 @@ r2 :> 2), InitialScope <- 1

\* Rules are edited, evaluated late and repeated; the reader marks the article.
Rules == INSTANCE Delivery WITH
    Records <- {r1}, SourceOf <- (r1 :> feed), Keys <- {x1, x2},
    Subs <- {1}, LinkOf <- <<feed>>, ArticleIds <- {1, 2, 3}, Workers <- {w},
    Old <- {}, Matching <- {x1}, Batch <- 2, MaxRevision <- (r1 :> 2),
    MaxToggles <- 0, MaxRuleVersion <- 2, Commands <- {"read"},
    Newest <- (r1 :> 1), InitialScope <- 1

\* Two subscriptions in one batch are paused, resumed, archived or removed.
Pause == INSTANCE Delivery WITH
    Records <- {r1}, SourceOf <- (r1 :> feed), Keys <- {x1},
    Subs <- {1, 2}, LinkOf <- <<feed, feed>>, ArticleIds <- {1}, Workers <- {w},
    Old <- {}, Matching <- {}, Batch <- 2, MaxRevision <- (r1 :> 1),
    MaxToggles <- 2, MaxRuleVersion <- 0, Commands <- {},
    Newest <- (r1 :> 1), InitialScope <- 1

\* One subscription is suspended and resumed, also twice, while its record changes.
CatchUp == INSTANCE Delivery WITH
    Records <- {r1}, SourceOf <- (r1 :> feed), Keys <- {k1, k2},
    Subs <- {1}, LinkOf <- <<feed>>, ArticleIds <- {1}, Workers <- {w},
    Old <- {}, Matching <- {}, Batch <- 2, MaxRevision <- (r1 :> 2),
    MaxToggles <- 4, MaxRuleVersion <- 0, Commands <- {},
    Newest <- (r1 :> 1), InitialScope <- 1

\* A resumed subscription catches up with the newer of two records only.
Scope == INSTANCE Delivery WITH
    Records <- {r1, r2}, SourceOf <- (r1 :> feed @@ r2 :> feed), Keys <- {x1},
    Subs <- {1}, LinkOf <- <<feed>>, ArticleIds <- {1}, Workers <- {w},
    Old <- {}, Matching <- {}, Batch <- 2, MaxRevision <- (r1 :> 1 @@ r2 :> 1),
    MaxToggles <- 3, MaxRuleVersion <- 0, Commands <- {},
    Newest <- (r1 :> 1 @@ r2 :> 2), InitialScope <- 1

\* Three subscriptions, batches of one, two workers.
Batches == INSTANCE Delivery WITH
    Records <- {r1}, SourceOf <- (r1 :> feed), Keys <- {k1, k2},
    Subs <- {1, 2, 3}, LinkOf <- <<feed, feed, feed>>, ArticleIds <- {1}, Workers <- {w1, w2},
    Old <- {}, Matching <- {}, Batch <- 1, MaxRevision <- (r1 :> 2),
    MaxToggles <- 0, MaxRuleVersion <- 0, Commands <- {},
    Newest <- (r1 :> 1), InitialScope <- 1

\* Batches of one, and a subscription that is paused.
Stall == INSTANCE Delivery WITH
    Records <- {r1}, SourceOf <- (r1 :> feed), Keys <- {x1},
    Subs <- {1, 2}, LinkOf <- <<feed, feed>>, ArticleIds <- {1}, Workers <- {w},
    Old <- {}, Matching <- {}, Batch <- 1, MaxRevision <- (r1 :> 2),
    MaxToggles <- 1, MaxRuleVersion <- 0, Commands <- {},
    Newest <- (r1 :> 1), InitialScope <- 1

Init ==
    \/ scenario = "dedup" /\ Dedup!Init
    \/ scenario = "rules" /\ Rules!Init
    \/ scenario = "pause" /\ Pause!Init
    \/ scenario = "catch_up" /\ CatchUp!Init
    \/ scenario = "scope" /\ Scope!Init
    \/ scenario = "batches" /\ Batches!Init

Next ==
    /\ \/ scenario = "dedup" /\ Dedup!Next
       \/ scenario = "rules" /\ Rules!Next
       \/ scenario = "pause" /\ Pause!Next
       \/ scenario = "catch_up" /\ CatchUp!Next
       \/ scenario = "scope" /\ Scope!Next
       \/ scenario = "batches" /\ Batches!Next
    /\ UNCHANGED scenario

Spec == Init /\ [][Next]_vars

StallSpec == /\ scenario = "stall" /\ Stall!Init
             /\ [][scenario = "stall" /\ Stall!Next /\ UNCHANGED scenario]_vars

Symmetry == Permutations({k1, k2}) \cup Permutations({w1, w2})

-----------------------------------------------------------------------------
\* The library is exact after every step: the deduplication index and the articles
\* agree in both directions, so do the origins inside an article and the
\* library_origins table, and repeating a delivery after a crash is never refused
\* while the rules stay as they are.
LibraryExact ==
    scenario = "dedup" => Dedup!DedupExact /\ Dedup!OriginsExact /\ Dedup!NeverRefused

\* What the reader has decided holds against deliveries in flight: regrouping keeps
\* the marks of the records it carries, an article marked unread becomes read again
\* only by the reader's command, and nothing is delivered through a subscription that
\* is paused, archived or removed, even by a run that read its targets before.
CommandsHold ==
    [][/\ scenario = "dedup" => Dedup!KeepsDecisions
       /\ scenario = "rules" => Rules!KeepsManualUnread
       /\ scenario = "pause" => Pause!HoldsPause]_vars

\* Once every fan-out job has completed, each active subscription has received
\* every record stored for its source.
EveryActiveReached == scenario = "stall" => Stall!EveryActiveReached

\* Once every fan-out job has completed, a subscription that has stayed active
\* has received each record collected since and the newest ones it was to catch
\* up with when it was resumed, in the latest revision.
Delivered ==
    /\ scenario = "pause" => Pause!Delivered
    /\ scenario = "catch_up" => CatchUp!Delivered
    /\ scenario = "scope" => Scope!Delivered
    /\ scenario = "batches" => Batches!Delivered
=============================================================================
