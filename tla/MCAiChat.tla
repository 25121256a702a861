------------------------------ MODULE MCAiChat ------------------------------
(* Small instances of AiChat for TLC.                                      *)
EXTENDS AiChat, TLC

Symmetry == Permutations(Workers) \cup Permutations(Ops)

\* Two chats compete for the budget on a quiet day; one chat lives through a
\* fault, a change of settings or the end of the day.
OneThing == edits + faults + day <= IF Len(chats) < 2 THEN 2 ELSE 1
=============================================================================
