----------------------------- MODULE MCJobQueue -----------------------------
(***************************************************************************)
(* Instances of JobQueue for TLC.                                          *)
(***************************************************************************)
EXTENDS JobQueue, TLC

CONSTANTS s1, s2, o1, o2, poll1, refresh1, text1, fanout2

MCKind == (poll1 :> "poll" @@ refresh1 :> "refresh" @@ text1 :> "text" @@ fanout2 :> "fanout")
MCSourceOf == (poll1 :> s1 @@ refresh1 :> s1 @@ text1 :> s1 @@ fanout2 :> s2)
MCOriginOf == (poll1 :> o1 @@ refresh1 :> o1 @@ text1 :> o1 @@ fanout2 :> o2)
KindOf == [j \in Jobs |-> MCKind[j]]
SourceOfJob == [j \in Jobs |-> MCSourceOf[j]]
OriginOfJob == [j \in Jobs |-> MCOriginOf[j]]
NoJitter == [j \in Jobs |-> 0]

\* Tokens are random and interchangeable: without loss of generality a claim
\* takes the least one nobody holds.
LeastToken ==
  \A w \in Workers : token'[w] \notin {token[w], None} =>
    \A t \in Tokens : t < token'[w] => ~fresh(t)

\* Workers run the same code.
Symmetry == Permutations(Workers)
=============================================================================
