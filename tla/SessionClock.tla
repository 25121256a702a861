---------------------------- MODULE SessionClock ----------------------------
(* The timer of a reading session in the browser: useSessionClock.ts over    *)
(* sessionClock.ts and readingSession.ts of web/src/app/reading.  A session   *)
(* has a plan of minutes for a smart and a random phase.  Its progress is     *)
(* saved in sessionStorage under the session, with one pointer to the active  *)
(* session; a running phase is kept as an absolute deadline, so time goes on  *)
(* while the page reloads.  A phase ends only at the next article.            *)
EXTENDS Integers, FiniteSets

CONSTANTS Sessions, Plans, MaxNow, MaxEdits

VARIABLES plan,      \* minutes of each phase, part of the session's URL
          now,
          saved,     \* sessionStorage: progress of each session
          pointer,   \* sessionStorage: the active session
          current,   \* the session the page shows as active
          progress,  \* its progress in memory
          failure,   \* failure.current
          spent,     \* minutes each session ran in its phase (history)
          reverted,  \* sessions whose half-saved change was written over (history)
          edits

kvars == <<plan, now, saved, pointer, current, progress, failure, spent, reverted, edits>>

None == "none"
Undefined == -1
NoProgress == [mode |-> None]
Larger(a, b) == IF a > b THEN a ELSE b

-----------------------------------------------------------------------------
(* readingSession.ts and sessionClock.ts: pure functions of a progress.    *)

initialSession == LET mode == IF plan.smart > 0 THEN "smart" ELSE "random" IN
    [mode |-> mode, remaining |-> plan[mode], paused |-> FALSE, finished |-> FALSE,
     stopped |-> FALSE, deadline |-> Undefined]

sessionAt(v) ==
    IF v.paused \/ v.finished \/ v.deadline = Undefined THEN v
    ELSE [v EXCEPT !.remaining = Larger(0, v.deadline - now)]

startClock(v) ==
    [v EXCEPT !.deadline = IF v.paused \/ v.finished \/ v.remaining = 0 THEN Undefined
                           ELSE now + v.remaining]

advanceSession(v) ==
    IF v.finished \/ v.remaining > 0 THEN v
    ELSE IF v.mode = "smart" /\ plan.random > 0
    THEN [v EXCEPT !.mode = "random", !.remaining = plan.random, !.deadline = Undefined]
    ELSE [v EXCEPT !.finished = TRUE]

\* readSession refuses what no session can have saved.
readable(v) ==
    /\ v.remaining \in 0..plan[v.mode] /\ plan[v.mode] > 0
    /\ v.finished => v.remaining = 0
    /\ v.finished /\ v.mode = "smart" /\ plan.random > 0 => v.stopped
    /\ v.deadline = Undefined \/ v.deadline > 0

readSession(s) == IF saved[s] = NoProgress THEN initialSession ELSE saved[s]

-----------------------------------------------------------------------------
(* The hook.                                                               *)

\* persist writes two keys; the browser may refuse either, and the error shows.
persist(s, v) ==
    /\ edits < MaxEdits /\ edits' = edits + 1
    /\ \/ /\ saved' = [saved EXCEPT ![s] = v] /\ pointer' = s
          /\ current' = s /\ progress' = v /\ failure' = FALSE
       \/ /\ saved' \in {saved, [saved EXCEPT ![s] = v]}
          /\ failure' = TRUE /\ UNCHANGED <<pointer, current, progress>>

\* The reader opens the page of a session: a new one, or one left before.
visit(s) ==
    /\ ~failure /\ current # s
    /\ readable(readSession(s)) /\ ~readSession(s).finished
    /\ persist(s, startClock(sessionAt(readSession(s))))
    /\ UNCHANGED <<plan, now, spent, reverted>>

\* The URL of the session changes: another article, the same progress.
navigate ==
    /\ current # None /\ ~failure
    /\ persist(current, progress)
    /\ UNCHANGED <<plan, now, spent, reverted>>

\* The article is scrolled.  The progress in memory is saved with its position, even
\* after a failure, when the storage may hold a change that the memory has not.
scroll ==
    /\ current # None
    /\ persist(current, progress)
    /\ reverted' = IF saved'[current] # saved[current] THEN reverted \cup {current} ELSE reverted
    /\ UNCHANGED <<plan, now, spent>>

advance ==
    /\ current # None /\ ~failure
    /\ LET v == startClock(advanceSession(sessionAt(progress))) IN
       /\ persist(current, v)
       /\ spent' = IF saved'[current].mode = progress.mode THEN spent ELSE [spent EXCEPT ![current] = 0]
    /\ UNCHANGED <<plan, now, reverted>>

\* Mutant: the pause keeps the time of the last save.
paused_as_saved(v) == [v EXCEPT !.paused = ~v.paused, !.deadline = Undefined]

paused(v) == [sessionAt(v) EXCEPT !.paused = ~v.paused, !.deadline = Undefined]

toggle ==
    /\ current # None /\ ~failure
    /\ persist(current, startClock(paused(progress)))
    /\ UNCHANGED <<plan, now, spent, reverted>>

stopped(v) == [sessionAt(v) EXCEPT !.remaining = 0, !.finished = TRUE, !.stopped = TRUE,
                                   !.deadline = Undefined]

\* stop saves the end under the session and then, if that went well, clears the
\* pointer; the browser may refuse either.
stop ==
    /\ current # None /\ ~failure /\ edits < MaxEdits /\ edits' = edits + 1
    /\ \/ /\ saved' = [saved EXCEPT ![current] = stopped(progress)]
          /\ \/ /\ pointer' = None /\ current' = None /\ progress' = NoProgress
                /\ UNCHANGED failure
             \/ /\ progress' = stopped(progress) /\ failure' = TRUE
                /\ UNCHANGED <<pointer, current>>
       \/ /\ saved' \in {saved, [saved EXCEPT ![current] = stopped(progress)]}
          /\ failure' = TRUE /\ UNCHANGED <<pointer, current, progress>>
    /\ UNCHANGED <<plan, now, spent, reverted>>

\* restoreClock
restoreClock(s) == readable(saved[s])

\* The page is loaded again: the session of the pointer goes on.
reload ==
    /\ current' = IF pointer # None /\ restoreClock(pointer) THEN pointer ELSE None
    /\ progress' = IF current' = None THEN NoProgress ELSE saved[pointer]
    /\ failure' = (pointer # None /\ current' = None)
    /\ UNCHANGED <<plan, now, saved, pointer, spent, reverted, edits>>

Running(s) == saved[s] # NoProgress /\ ~saved[s].paused /\ ~saved[s].finished

Tick == /\ now < MaxNow /\ now' = now + 1
        /\ spent' = [s \in Sessions |-> IF Running(s) THEN spent[s] + 1 ELSE spent[s]]
        /\ UNCHANGED <<plan, saved, pointer, current, progress, failure, reverted, edits>>

Init == /\ plan \in {p \in [{"smart", "random"} -> Plans] : p["smart"] + p["random"] > 0}
        /\ now = 1 /\ saved = [s \in Sessions |-> NoProgress] /\ pointer = None
        /\ current = None /\ progress = NoProgress /\ failure = FALSE
        /\ spent = [s \in Sessions |-> 0] /\ reverted = {} /\ edits = 0

Next == \/ \E s \in Sessions : visit(s)
        \/ navigate \/ scroll \/ advance \/ toggle \/ stop \/ reload \/ Tick

Spec == Init /\ [][Next]_kvars

-----------------------------------------------------------------------------
(* Properties.                                                             *)

\* Whatever the timer saves it can read again: no sequence of pauses, phases,
\* stops, scrolls and reloads, whichever writes fail, leaves a session reported as damaged (readSession).
SavedReadable == \A s \in Sessions : saved[s] # NoProgress => readable(saved[s])

\* A phase gets exactly its planned time: pausing, reloading, scrolling and leaving
\* for another session neither add nor lose a minute of it.  The exception is a
\* change that was half saved and then written over by a scroll.
TimeKept ==
    \A s \in Sessions \ reverted :
        LET v == saved[s] IN
        v # NoProgress /\ ~v.finished
            => sessionAt(v).remaining = Larger(0, plan[v.mode] - spent[s])
=============================================================================
