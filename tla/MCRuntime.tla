------------------------------ MODULE MCRuntime -----------------------------
(***************************************************************************)
(* One run over what must happen in the end: a chat whose worker died is   *)
(* brought to an end (AiChat), and a process that is told to stop stops    *)
(* (Lifecycle).  The two share no state; the initial state chooses the     *)
(* part that moves, and fairness is asked of that part only.               *)
(***************************************************************************)
EXTENDS Naturals, Sequences

CONSTANTS Workers, Ops, Amount, Actuals, Unknown, Limit, MaxChats, MaxDay, MaxClaims, MaxEdits,
          Faults, Ingest, Loops, Ai, Slots, Page, Concurrency, MaxPanics

VARIABLES part,
          chats, operations, sent, worker, key, verify, article, peak, day, edits, faults,
          main, stop, failure, closing, stage, queue, left, flying, late

Chat == INSTANCE AiChat
Process == INSTANCE Lifecycle

chatVars == <<chats, operations, sent, worker, key, verify, article, peak, day, edits, faults>>
processVars == <<main, stop, failure, closing, stage, queue, left, flying, late>>
vars == <<part, chatVars, processVars>>

Init == /\ part \in {"chat", "process"} /\ Chat!Init /\ Process!Init
        /\ part = "process" => key /\ ~verify /\ article = "ready"

ChatStep == part = "chat" /\ Chat!Next /\ UNCHANGED <<part, processVars>>
ProcessStep == part = "process" /\ Process!Next /\ UNCHANGED <<part, chatVars>>

Next == ChatStep \/ ProcessStep

\* The fairness of AiChat for the chat and that of Lifecycle for the process.
Fairness ==
    /\ \A w \in Workers : WF_chatVars(part = "chat" /\ Chat!Work(w))
    /\ \A c \in 1..MaxChats :
          WF_chatVars(part = "chat" /\ c \in DOMAIN chats /\ Chat!LeaseExpires(c))
    /\ \A w \in Ai : WF_processVars(part = "process" /\ Process!AiStep(w))
    /\ \A w \in Process!AllWorkers \ Ai : WF_processVars(part = "process" /\ Process!LoopStep(w))
    /\ WF_processVars(part = "process" /\ Process!acquire)
    /\ WF_processVars(part = "process" /\ Process!request_shutdown(FALSE))
    /\ WF_processVars(part = "process" /\ (Process!drain \/ Process!graceful_timeout))

FairSpec == Init /\ [][Next]_vars /\ Fairness

-----------------------------------------------------------------------------
\* A paid call that was started is accounted for in the end (AiChat).
CallsEnd == Chat!CallsEnd

\* A request to stop ends the process, even if an operation never does
\* (Lifecycle).
Stops == Process!Stops

\* No class of paid work is starved by the others (Lifecycle).
Served == Process!Served
=============================================================================
