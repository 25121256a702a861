------------------------------ MODULE PaidWork ------------------------------
(***************************************************************************)
(* What the AI chats promise about money, without saying how.  A reader's  *)
(* command opens an attempt at a chat; an attempt may buy one draft and    *)
(* one check of it, each at most once, and only the newest attempt of a    *)
(* chat buys anything.  A bill becomes known at most once and never        *)
(* changes.                                                                *)
(***************************************************************************)
EXTENDS Naturals

CONSTANTS Chats, Stages, Unknown

VARIABLES attempts,   \* attempts[c]: how many attempts the reader opened at c
          bought,     \* the <<chat, attempt, stage>> requests sent so far
          bill        \* bill[r]: what the provider charged for r, or Unknown

vars == <<attempts, bought, bill>>

Init == /\ attempts = [c \in Chats |-> 0]
        /\ bought = {}
        /\ bill = <<>>

\* The reader asks: a new attempt, with nothing bought for it yet.
Open(c) == /\ attempts' = [attempts EXCEPT ![c] = @ + 1]
           /\ UNCHANGED <<bought, bill>>

\* A request that has not been sent before is sent for the newest attempt.
Buy(c, s) == LET r == <<c, attempts[c], s>>
             IN  /\ attempts[c] > 0
                 /\ r \notin bought
                 /\ bought' = bought \cup {r}
                 /\ bill' = [q \in bought' |-> IF q = r THEN Unknown ELSE bill[q]]
                 /\ UNCHANGED attempts

\* The charge for a request that was sent becomes known.
Learn(r) == /\ UNCHANGED <<attempts, bought>>
            /\ r \in bought
            /\ bill[r] = Unknown
            /\ bill'[r] # Unknown
            /\ bill' = [bill EXCEPT ![r] = bill'[r]]

Next == \/ \E c \in Chats : Open(c)
        \/ \E c \in Chats, s \in Stages : Buy(c, s)
        \/ \E r \in bought : Learn(r)

Spec == Init /\ [][Next]_vars
=============================================================================
