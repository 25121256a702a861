------------------------------- MODULE AiChat -------------------------------
(***************************************************************************)
(* Paid AI chats of one account about one article: the commands of         *)
(* crates/reader-ai/src/service.rs, the workers of service/worker.rs and   *)
(* the transactions of reader-storage-postgres/src/ai.rs and ai/*.rs they  *)
(* use, with the daily budget of ai/budget.rs.  Every storage call of a    *)
(* worker is one transaction and one step; between two of them the reader  *)
(* may stop or retry the chat, the lease may expire, another worker may    *)
(* recover the chat, the worker may die, and the provider may answer late. *)
(*                                                                         *)
(* Message texts are abstracted to the provider call that wrote them: a    *)
(* content is the index of a call in the chat, 0 when empty.  Amounts of   *)
(* money are small naturals.  A lease UUID is the number of the claim.     *)
(***************************************************************************)
EXTENDS Naturals, Sequences, FiniteSets, Folds

CONSTANTS
    Workers,    \* chat workers (policy.config().workers)
    Ops,        \* operation ids chosen by clients
    Amount,     \* the reservation of one call (bound_cost)
    Actuals,    \* what a call may cost in the end
    Unknown,    \* the bill of a call that has not come (NULL)
    Limit,      \* daily_limit_usd
    MaxChats,   \* bound: chats created
    MaxDay,     \* bound: days that pass
    MaxClaims,  \* bound: claims of one chat
    MaxEdits,   \* bound: preference, key, schedule and content changes
    Faults      \* bound: worker deaths and lease expiries

ASSUME AiChatAssumption ==
    /\ {Amount, Limit, MaxChats, MaxDay, MaxClaims, MaxEdits, Faults} \subseteq Nat
    /\ Amount > 0
    /\ Actuals \subseteq 0..Amount /\ Unknown \notin Actuals

VARIABLES
    chats,      \* ai_chats, in creation order
    operations, \* ai_operations: the set of [op, chat, kind]
    sent,       \* requests that passed the service's checks, by operation
    worker,     \* what each worker is doing
    key,        \* a provider key is stored (ai_profiles)
    verify,     \* ai_model_preferences: a verification model is chosen
    article,    \* full text of the article: "waiting", "ready" or "failed"
    peak,       \* reader_ai_automatic_resume_at is not NULL
    day,        \* the Moscow day
    edits,      \* bounded changes made so far
    faults      \* bounded faults so far

vars == <<chats, operations, sent, worker, key, verify, article,
          peak, day, edits, faults>>

environment == <<key, verify, article, peak, day, edits>>

Idle == [pc |-> "idle"]
Unsent == [kind |-> "none"]

-----------------------------------------------------------------------------
(* The chat record: its view, its operations and its projections.          *)

pending(s) == s \in {"waiting_content", "queued", "generating", "verifying"}

phase(op) == IF op.task = "summary" /\ op.draft # 0 THEN "verifying" ELSE "generating"

Attempt(c) == Len(c.ops)

LastOp(c) == c.ops[Len(c.ops)]

\* Mutant: every call is marked, the completed ones too.
interrupt_all(c) ==
    [c EXCEPT !.calls = [k \in DOMAIN @ |->
        [@[k] EXCEPT !.status = IF c.status = "cancelled" THEN "cancelled" ELSE "interrupted"]]]

\* Calls still running are marked by how the chat ended.
interrupt(c) ==
    [c EXCEPT !.calls = [k \in DOMAIN @ |->
        IF @[k].status # "started" THEN @[k]
        ELSE [@[k] EXCEPT !.status = IF c.status = "cancelled" THEN "cancelled"
                                                              ELSE "interrupted"]]]

\* The last operation's assistant message takes a status.
set_attempt(c, s) == [c EXCEPT !.msgs[Attempt(c)].status = s]

\* A summary that is not complete shows its validated draft, or nothing.
into_public_view(c) ==
    [i \in DOMAIN c.msgs |-> IF c.ops[i].task = "summary" /\ c.msgs[i].status # "complete"
                             THEN c.ops[i].draft ELSE c.msgs[i].content]

write_record(c) == [c EXCEPT !.public = into_public_view(c)]

\* Progress writes keep what is published of an unfinished summary.
write_progress(c, published) ==
    [c EXCEPT !.public = [i \in DOMAIN c.msgs |->
        IF c.ops[i].task = "summary" /\ c.msgs[i].status # "complete"
        THEN published[i] ELSE c.msgs[i].content]]

unlease(c) == [c EXCEPT !.lease = 0, !.expired = FALSE]

runnable_now(c) == [c EXCEPT !.until = 0, !.offpeak = FALSE]

\* scheduled_at <= now(): the day and the end of the peak have come.
due(c) == c.until <= day /\ ~c.offpeak

Put(c, record) == chats' = [chats EXCEPT ![c] = record]

-----------------------------------------------------------------------------
(* The daily budget.  The ai_spending row of a call is kept in the call:   *)
(* its day, and what the call cost once the provider said so.              *)

cost(call) == IF call.actual = Unknown THEN Amount ELSE call.actual

AllCalls == UNION {{c} \X DOMAIN chats[c].calls : c \in DOMAIN chats}

\* What the calls of day d cost, at cost of(call).
total(d, of(_)) ==
    MapThenFoldSet(LAMBDA m, n : m + n, 0,
                   LAMBDA id : of(chats[id[1]].calls[id[2]]),
                   LAMBDA ids : CHOOSE id \in ids : TRUE,
                   {id \in AllCalls : chats[id[1]].calls[id[2]].day = d})

spent(d) == total(d, cost)

\* Mutant: a reservation whose bill is unknown does not count.
reserve_settled == total(day, LAMBDA call : IF call.actual = Unknown THEN 0 ELSE call.actual)
                       + Amount <= Limit

\* The admission of a call: everything reserved or billed today and this one.
reserve == spent(day) + Amount <= Limit

\* A manual request needs some of today's budget left.
manual_budget == spent(day) < Limit

-----------------------------------------------------------------------------
(* Commands of the reader.  The service checks first and writes in a later *)
(* transaction; a request may be delivered, and so written, several times. *)

NewOp(op, kind, task, draft) == [id |-> op, kind |-> kind, task |-> task, draft |-> draft]
NewMsg == [status |-> "pending", content |-> 0]

NewChat(op, kind, input, automatic) ==
    [status |-> IF input = "ready" THEN "queued" ELSE "waiting_content",
     snapshot |-> input = "ready", automatic |-> automatic, error |-> "none",
     ops |-> <<NewOp(op, kind, "summary", 0)>>, msgs |-> <<NewMsg>>, public |-> <<0>>,
     calls |-> <<>>, lease |-> 0, expired |-> FALSE, claims |-> 0,
     until |-> 0, offpeak |-> FALSE]

\* start_internal up to article_input: an existing chat is returned instead.
check_start(op, kind, automatic) ==
    /\ sent[op] = Unsent
    /\ automatic => kind = "start"
    /\ kind = "start" => Len(chats) = 0
    /\ key
    /\ article # "failed"
    /\ sent' = [sent EXCEPT ![op] = [kind |-> kind, chat |-> 0, input |-> article,
                                     automatic |-> automatic]]
    /\ UNCHANGED <<chats, operations, worker, environment, faults>>

\* enqueue up to manual_budget: a message or a retry of chat c.
check_enqueue(op, kind, c) ==
    /\ sent[op] = Unsent
    /\ key /\ manual_budget
    /\ sent' = [sent EXCEPT ![op] = [kind |-> kind, chat |-> c]]
    /\ UNCHANGED <<chats, operations, worker, environment, faults>>

prior_operation(op) == {o \in operations : o.op = op}

prioritize(c) == [runnable_now(c) EXCEPT !.automatic = FALSE]

\* create_chat under the operation's and the article's locks, then prioritize.
create_chat(op) ==
    LET r == sent[op]
        promoted(cs) == IF r.automatic THEN cs
                        ELSE [cs EXCEPT ![Len(cs)] = prioritize(cs[Len(cs)])]
    IN  /\ prior_operation(op) = {}
        /\ IF r.kind = "start" /\ Len(chats) > 0
           THEN /\ chats' = promoted(chats)
                /\ operations' = operations \cup {[op |-> op, chat |-> Len(chats), kind |-> r.kind]}
           ELSE /\ Len(chats) < MaxChats
                /\ chats' = promoted(Append(chats, NewChat(op, r.kind, r.input, r.automatic)))
                /\ operations' = operations \cup
                       {[op |-> op, chat |-> Len(chats) + 1, kind |-> r.kind]}

HasSummary(c) == \E i \in DOMAIN c.ops :
                     c.ops[i].task = "summary" /\ c.msgs[i].status = "complete"

\* Mutant: the draft of the last attempt is not carried into the retry.
retried_without_draft(c) == [LastOp(c) EXCEPT !.draft = 0]

\* A retry repeats the last task, with the draft already paid for.
retried(c) == LastOp(c)

\* append's guards: a new operation, nothing pending, something to answer.
appendable(op, c, kind) ==
    /\ prior_operation(op) = {}
    /\ ~pending(c.status)
    /\ IF kind = "message" THEN HasSummary(c)
                           ELSE c.status \in {"failed", "interrupted", "cancelled"}

append(op) ==
    LET r == sent[op]
        c == chats[r.chat]
        task == IF r.kind = "message" THEN [task |-> "reply", draft |-> 0] ELSE retried(c)
    IN  /\ appendable(op, c, r.kind)
        /\ Put(r.chat, unlease(write_record(
               [c EXCEPT !.ops = Append(@, NewOp(op, r.kind, task.task, task.draft)),
                         !.msgs = Append(@, NewMsg),
                         !.status = IF c.snapshot THEN "queued" ELSE "waiting_content",
                         !.error = "none", !.automatic = FALSE])))
        /\ operations' = operations \cup {[op |-> op, chat |-> r.chat, kind |-> r.kind]}

\* The write of a checked request.  It stays enabled: a client that heard
\* nothing repeats the request with the same operation id.
Execute(op) ==
    /\ sent[op] # Unsent
    /\ IF sent[op].chat = 0 THEN create_chat(op) ELSE append(op)
    /\ UNCHANGED <<sent, worker, environment, faults>>

stop(c) ==
    /\ pending(chats[c].status)
    /\ Put(c, write_record(set_attempt(interrupt([chats[c] EXCEPT !.status = "cancelled"]),
                                       "interrupted")))
    /\ UNCHANGED <<operations, sent, worker, environment, faults>>

\* Opening the article puts its latest chat first.
open_chats ==
    /\ chats # <<>>
    /\ chats' = [chats EXCEPT ![Len(chats)] = prioritize(@)]
    /\ UNCHANGED <<operations, sent, worker, environment, faults>>

-----------------------------------------------------------------------------
(* Settings, full text and time.                                           *)

Edit == edits < MaxEdits /\ edits' = edits + 1

save_credential ==
    /\ ~key /\ key' = TRUE
    /\ Edit
    /\ UNCHANGED <<chats, operations, sent, worker, verify, article, peak, day, faults>>

\* Removing the key cancels everything that is pending.
delete_credential ==
    /\ key /\ key' = FALSE
    /\ chats' = [c \in DOMAIN chats |->
           IF ~pending(chats[c].status) THEN chats[c]
           ELSE write_record(set_attempt(interrupt(
                    [chats[c] EXCEPT !.status = "cancelled", !.error = "missing_key"]),
                    "interrupted"))]
    /\ Edit
    /\ UNCHANGED <<operations, sent, worker, verify, article, peak, day, faults>>

\* A cheaper model may fit today: chats waiting for budget are due again.
save_model_preferences ==
    /\ verify' = ~verify
    /\ chats' = [c \in DOMAIN chats |->
           IF chats[c].status = "queued" /\ chats[c].lease = 0 /\ chats[c].error = "budget"
           THEN runnable_now(chats[c]) ELSE chats[c]]
    /\ Edit
    /\ UNCHANGED <<operations, sent, worker, key, article, peak, day, faults>>

FullText(result) ==
    /\ article # "ready" /\ article # result
    /\ article' = result
    /\ Edit
    /\ UNCHANGED <<chats, operations, sent, worker, key, verify, peak, day, faults>>

PeakBegins == /\ ~peak /\ peak' = TRUE
              /\ Edit
              /\ UNCHANGED <<chats, operations, sent, worker, key, verify, article, day, faults>>

\* The time to which peak deferrals were put off has come.
PeakEnds == /\ peak /\ peak' = FALSE
            /\ chats' = [c \in DOMAIN chats |-> [chats[c] EXCEPT !.offpeak = FALSE]]
            /\ UNCHANGED <<operations, sent, worker, key, verify, article, day,
                           edits, faults>>

Midnight == /\ day < MaxDay /\ day' = day + 1
            /\ UNCHANGED <<chats, operations, sent, worker, key, verify, article, peak,
                           edits, faults>>

-----------------------------------------------------------------------------
(* Workers.  worker[w] is the claim and the place in work_once,            *)
(* generate_claim and run_call.                                            *)

\* Mutant: an expired claim starts over, and what it asked is forgotten.
recovered_afresh(c) ==
    IF c.expired /\ pending(c.status)
    THEN unlease([c EXCEPT !.status = "queued",
                           !.calls = SelectSeq(@, LAMBDA call : call.status # "started")])
    ELSE c

\* Mutant: the chat is interrupted, its running call is not.
recovered_running(c) ==
    IF c.expired /\ pending(c.status)
    THEN write_record(set_attempt([c EXCEPT !.status = "interrupted",
                                            !.error = "interrupted"], "interrupted"))
    ELSE c

\* Expired leases become interruptions, never a second request.
recovered(c) ==
    IF c.expired /\ pending(c.status)
    THEN write_record(set_attempt(interrupt([c EXCEPT !.status = "interrupted",
                                                      !.error = "interrupted"]), "interrupted"))
    ELSE c

\* Queued or waiting for text, free, due, and not held back by peak hours.
\* claims < MaxClaims is the model's bound.
claimable(c) == /\ c.claims < MaxClaims
                /\ c.status \in {"queued", "waiting_content"}
                /\ c.lease = 0
                /\ due(c)
                /\ c.automatic => ~peak

\* Where generate_claim goes: a saved draft to its check, the rest to a call.
Stage(op) == IF phase(op) = "verifying" THEN "unchecked" ELSE "call"

\* Recovery of every expired chat and the claim of one; which of the waiting
\* chats the ORDER BY prefers is left open.
claim(w) ==
    LET after == [c \in DOMAIN chats |-> recovered(chats[c])]
    IN  /\ worker[w] = Idle
        /\ \/ /\ \E c \in DOMAIN after :
                   /\ claimable(after[c])
                   /\ LET n == after[c].claims + 1 IN
                      /\ chats' = [after EXCEPT ![c].lease = n, ![c].claims = n]
                      /\ worker' = [worker EXCEPT ![w] =
                             [pc |-> IF after[c].snapshot THEN Stage(LastOp(after[c])) ELSE "snapshot",
                              chat |-> c, lease |-> n, attempt |-> Attempt(after[c]),
                              task |-> LastOp(after[c]).task, draft |-> LastOp(after[c]).draft,
                              call |-> 0, error |-> "none"]]
           \/ /\ \A c \in DOMAIN after : ~claimable(after[c])
              /\ after # chats
              /\ chats' = after
              /\ UNCHANGED worker
        /\ UNCHANGED <<operations, sent, environment, faults>>

Mine(w) == chats[worker[w].chat]

\* The claim still owns the chat: same lease, not expired, still pending.
fenced(w) == /\ Mine(w).lease = worker[w].lease
             /\ ~Mine(w).expired
             /\ pending(Mine(w).status)

active(w) == fenced(w) /\ key

Goto(w, pc) == worker' = [worker EXCEPT ![w].pc = pc]
Quit(w) == worker' = [worker EXCEPT ![w] = Idle]
Fails(w, e) == worker' = [worker EXCEPT ![w].pc = "failing", ![w].error = e]

Rest == UNCHANGED <<operations, sent, environment, faults>>

message_status(next) ==
    CASE next = "completed" -> "complete"
      [] next \in {"generating", "verifying"} -> "streaming"
      [] next \in {"interrupted", "cancelled"} -> "interrupted"
      [] next = "failed" -> "failed"
      [] OTHER -> "pending"

\* update_claim's writes: status, end of running calls, error, message,
\* and the lease unless the worker goes on.
update_claim(c, next, content, error) ==
    LET ended == IF pending(next) THEN [c EXCEPT !.status = next]
                                  ELSE interrupt([c EXCEPT !.status = next])
        text == IF content = 0 THEN ended ELSE [ended EXCEPT !.msgs[Attempt(c)].content = content]
        done == write_progress(set_attempt([text EXCEPT !.error = error], message_status(next)),
                               c.public)
    IN  IF next \in {"generating", "verifying"} THEN done ELSE runnable_now(unlease(done))

\* generate_claim: the full text is pinned once, or the chat waits for it.
resolve_snapshot(w) ==
    /\ worker[w].pc = "snapshot"
    /\ IF article = "failed" THEN Fails(w, "fulltext") /\ UNCHANGED chats
       ELSE IF ~fenced(w) THEN Quit(w) /\ UNCHANGED chats
       ELSE IF article = "waiting"
       THEN Put(worker[w].chat, update_claim(Mine(w), "waiting_content", 0, "none")) /\ Quit(w)
       ELSE /\ Put(worker[w].chat, update_claim([Mine(w) EXCEPT !.snapshot = TRUE],
                                                "generating", 0, "none"))
            /\ Goto(w, Stage(LastOp(Mine(w))))
    /\ Rest

CallPhase(w) == IF worker[w].task = "summary" /\ worker[w].draft # 0
                THEN "verifying" ELSE "generating"

\* begin's checks: the same attempt, in this phase, which was not called yet.
startable(w) == /\ Attempt(Mine(w)) = worker[w].attempt
                /\ phase(LastOp(Mine(w))) = CallPhase(w)
                /\ ~\E k \in DOMAIN Mine(w).calls :
                       /\ Mine(w).calls[k].attempt = worker[w].attempt
                       /\ Mine(w).calls[k].phase = CallPhase(w)

\* The call is recorded, reserved and shown in one transaction.
begin(c, ph) ==
    LET started == [attempt |-> Attempt(c), phase |-> ph, status |-> "started",
                    usage |-> FALSE, day |-> day, actual |-> Unknown]
    IN  write_progress(set_attempt([c EXCEPT !.calls = Append(@, started), !.status = ph,
                                             !.error = "none"], "streaming"), c.public)

\* run_call up to the request: key, model, input size, admission, begin.
begin_call(w) ==
    /\ worker[w].pc = "call"
    /\ \/ /\ ~key
          /\ Fails(w, "missing_key") /\ UNCHANGED chats
       \/ /\ key /\ CallPhase(w) = "verifying" /\ ~verify
          /\ Fails(w, "conflict") /\ UNCHANGED chats
       \/ /\ key /\ Fails(w, "context") /\ UNCHANGED chats
       \/ /\ key /\ (CallPhase(w) = "verifying" => verify)
          /\ IF ~fenced(w) THEN Quit(w) /\ UNCHANGED chats
             ELSE IF ~startable(w) THEN Fails(w, "conflict") /\ UNCHANGED chats
             ELSE IF Mine(w).automatic /\ peak THEN Fails(w, "paused") /\ UNCHANGED chats
             ELSE IF ~reserve THEN Fails(w, "budget") /\ UNCHANGED chats
             ELSE \/ /\ Mine(w).automatic
                     /\ Fails(w, "excluded") /\ UNCHANGED chats
                  \/ /\ Put(worker[w].chat, begin(Mine(w), CallPhase(w)))
                     /\ worker' = [worker EXCEPT ![w].pc = "asked",
                                                 ![w].call = Len(Mine(w).calls) + 1]
    /\ Rest

\* What the reader is shown of the attempt's unfinished text while it streams.
publish(w) ==
    /\ worker[w].pc = "asked"
    /\ CallPhase(w) = "verifying" \/ worker[w].task = "reply"
    /\ active(w)
    /\ Put(worker[w].chat, update_claim(Mine(w), CallPhase(w), worker[w].call, "none"))
    /\ UNCHANGED worker
    /\ Rest

\* settle: the bill of the call, written once, whatever became of the chat.
settle(w) ==
    /\ worker[w].pc = "asked"
    /\ \E a \in Actuals : Put(worker[w].chat, [Mine(w) EXCEPT !.calls[worker[w].call].actual = a])
    /\ Goto(w, "usage")
    /\ Rest

\* The end of every call update: a fenced claim about to check its draft shows
\* so; an old one only keeps the accounts.
update(w, c, published) ==
    write_progress(IF /\ Attempt(c) = worker[w].attempt
                      /\ phase(LastOp(c)) = "verifying"
                      /\ fenced(w)
                   THEN [c EXCEPT !.status = "verifying"] ELSE c, published)

update_usage(w) ==
    /\ worker[w].pc = "usage"
    /\ Put(worker[w].chat, update(w, [Mine(w) EXCEPT !.calls[worker[w].call].usage = TRUE],
                                  Mine(w).public))
    /\ Goto(w, "answered")
    /\ Rest

\* The complete answer: a checked text or a reply is published first, by a
\* claim that is still active; a draft goes on to be saved.
publish_answer(w) ==
    /\ worker[w].pc = "answered"
    /\ IF CallPhase(w) = "generating" /\ worker[w].task = "summary"
       THEN Goto(w, "finish") /\ UNCHANGED chats
       ELSE IF ~active(w) THEN Quit(w) /\ UNCHANGED chats
       ELSE /\ Put(worker[w].chat, update_claim(Mine(w), CallPhase(w), worker[w].call, "none"))
            /\ Goto(w, "finish")
    /\ Rest

\* CallUpdate::Finished, with the draft saved into the attempt that asked.
finished(w, status, draft) ==
    LET n == worker[w].attempt
        c == [Mine(w) EXCEPT !.calls[worker[w].call].status = status]
    IN  IF draft = 0 THEN update(w, c, c.public)
        ELSE update(w, [c EXCEPT !.ops[n].draft = draft], [c.public EXCEPT ![n] = draft])

finish_call(w) ==
    /\ worker[w].pc = "finish"
    /\ LET k == worker[w].call IN
       IF CallPhase(w) = "generating" /\ worker[w].task = "summary"
       THEN /\ Put(worker[w].chat, finished(w, "completed", k))
            /\ worker' = [worker EXCEPT ![w].pc = "unchecked", ![w].draft = k]
       ELSE /\ Put(worker[w].chat, finished(w, "completed", 0))
            /\ Goto(w, "complete")
    /\ Rest

\* The provider fails, its answer is not valid, or the claim is found inactive.
fail_call(w) ==
    /\ worker[w].pc = "asked"
    /\ \/ /\ Put(worker[w].chat, finished(w, "interrupted", 0))
          /\ Fails(w, "provider")
       \/ /\ Put(worker[w].chat, finished(w, "failed", 0))
          /\ Fails(w, "invalid")
       \/ /\ ~active(w)
          /\ Put(worker[w].chat, finished(w, "cancelled", 0))
          /\ Quit(w)
    /\ Rest

\* unchecked::finish when no check is wanted: the draft becomes the answer.
publish_unchecked(c) ==
    LET n == Attempt(c)
        done == [c EXCEPT !.msgs[n] = [status |-> "complete", content |-> c.ops[n].draft],
                          !.status = "completed", !.error = "none"]
    IN  runnable_now(unlease(write_progress(done, c.public)))

\* The newest attempt has a draft whose call completed, and no check of its own.
draft_ready(w) ==
    LET c == Mine(w)
        n == Attempt(c)
        asks(k, i, ph) == c.calls[k].attempt = i /\ c.calls[k].phase = ph
    IN  /\ n = worker[w].attempt
        /\ phase(c.ops[n]) = "verifying"
        /\ \E k \in DOMAIN c.calls, i \in DOMAIN c.ops :
               /\ asks(k, i, "generating") /\ c.calls[k].status = "completed"
               /\ c.ops[i].task = "summary" /\ c.ops[i].draft = c.ops[n].draft
        /\ ~\E k \in DOMAIN c.calls : asks(k, n, "verifying")

finish_unchecked(w) ==
    /\ worker[w].pc = "unchecked"
    /\ \/ verify /\ Fails(w, "context") /\ UNCHANGED chats
       \/ IF ~fenced(w) THEN Quit(w) /\ UNCHANGED chats
          ELSE IF verify THEN Goto(w, "call") /\ UNCHANGED chats
          ELSE IF ~draft_ready(w) THEN Fails(w, "conflict") /\ UNCHANGED chats
          ELSE Put(worker[w].chat, publish_unchecked(Mine(w))) /\ Quit(w)
    /\ Rest

\* What update_claim asks of a completion: the stage the task needs was
\* completed in this attempt, and what is shown is what the check returned.
completable(c) ==
    LET n == Attempt(c)
        needed == phase(c.ops[n])
    IN  /\ c.ops[n].task = "summary" => c.ops[n].draft # 0
        /\ \E k \in DOMAIN c.calls :
               /\ c.calls[k].attempt = n /\ c.calls[k].phase = needed
               /\ c.calls[k].status = "completed"
               /\ needed = "verifying" => c.msgs[n].content = k

complete_claim(w) ==
    /\ worker[w].pc = "complete"
    /\ IF ~fenced(w) THEN Quit(w) /\ UNCHANGED chats
       ELSE IF ~completable(Mine(w)) THEN Fails(w, "conflict") /\ UNCHANGED chats
       ELSE Put(worker[w].chat, update_claim(Mine(w), "completed", 0, "none")) /\ Quit(w)
    /\ Rest

\* Put off until tomorrow, or until the peak is over.  The lease is compared,
\* the status is not.
defer_chat(c, error) ==
    LET waiting == set_attempt([c EXCEPT !.status = "queued", !.error = error], "pending")
    IN  [unlease(write_progress(waiting, c.public)) EXCEPT
             !.until = IF error = "budget" THEN day + 1 ELSE 0,
             !.offpeak = error = "paused" /\ peak]

\* work_once after an error.
fail_claim(w) ==
    LET e == worker[w].error IN
    /\ worker[w].pc = "failing"
    /\ IF e \in {"budget", "paused"} /\ worker[w].task = "summary"
       THEN IF Mine(w).lease = worker[w].lease /\ ~Mine(w).expired
            THEN Put(worker[w].chat, defer_chat(Mine(w), e)) ELSE UNCHANGED chats
       ELSE IF fenced(w)
       THEN Put(worker[w].chat,
                update_claim(Mine(w), IF e = "provider" THEN "interrupted" ELSE "failed", 0, e))
       ELSE UNCHANGED chats
    /\ Quit(w)
    /\ Rest

Fault == faults < Faults /\ faults' = faults + 1

\* The process dies and comes back; only the database remembers the claim.
Crash(w) == /\ worker[w] # Idle
            /\ Quit(w)
            /\ Fault
            /\ UNCHANGED <<chats, operations, sent, environment>>

Held(c) == \E w \in Workers : /\ worker[w] # Idle
                              /\ worker[w].chat = c /\ worker[w].lease = chats[c].lease

Expire(c) == /\ chats[c].lease # 0 /\ ~chats[c].expired
             /\ Put(c, [chats[c] EXCEPT !.expired = TRUE])

\* A lease nobody works under runs out; one that is worked under may, when
\* the provider is slow.
LeaseExpires(c) == /\ ~Held(c)
                   /\ Expire(c)
                   /\ UNCHANGED <<operations, sent, worker, environment, faults>>

LeaseOverrun(c) == /\ Held(c)
                   /\ Expire(c)
                   /\ Fault
                   /\ UNCHANGED <<operations, sent, worker, environment>>

-----------------------------------------------------------------------------
Init ==
    /\ chats = <<>> /\ operations = {}
    /\ sent = [op \in Ops |-> Unsent]
    /\ worker = [w \in Workers |-> Idle]
    /\ key \in BOOLEAN
    /\ verify \in BOOLEAN /\ article \in {"waiting", "ready"}
    /\ peak = FALSE /\ day = 1 /\ edits = 0 /\ faults = 0

Command == \/ \E op \in Ops, k \in {"start", "new"}, a \in BOOLEAN : check_start(op, k, a)
           \/ \E op \in Ops, k \in {"message", "retry"}, c \in DOMAIN chats :
                  check_enqueue(op, k, c)
           \/ \E op \in Ops : Execute(op)
           \/ \E c \in DOMAIN chats : stop(c)
           \/ open_chats

Setting == \/ save_credential \/ delete_credential \/ save_model_preferences
           \/ \E r \in {"ready", "failed"} : FullText(r)
           \/ PeakBegins \/ PeakEnds \/ Midnight

Work(w) == \/ claim(w) \/ resolve_snapshot(w) \/ begin_call(w)
           \/ settle(w) \/ update_usage(w) \/ publish_answer(w) \/ finish_call(w)
           \/ fail_call(w) \/ finish_unchecked(w) \/ complete_claim(w) \/ fail_claim(w)

Next == \/ Command
        \/ Setting
        \/ \E w \in Workers : Work(w) \/ publish(w) \/ Crash(w)
        \/ \E c \in DOMAIN chats : LeaseExpires(c) \/ LeaseOverrun(c)

Spec == Init /\ [][Next]_vars

\* A worker that is alive goes on (the provider call has a deadline), its
\* loop claims again and again, and an abandoned lease runs out.
FairSpec == /\ Spec
            /\ \A w \in Workers : WF_vars(Work(w))
            /\ \A c \in 1..MaxChats : WF_vars(c \in DOMAIN chats /\ LeaseExpires(c))

-----------------------------------------------------------------------------
(* Properties.                                                             *)

\* budget::reserve admits a call only when everything reserved or billed that
\* day, a call whose bill never came included, leaves room for all of it: no
\* order of concurrent calls, deaths and late bills spends over the limit.
BudgetHeld == \A d \in 1..MaxDay : spent(d) <= Limit

\* The projection the reader is served (presentation, kept by write_record and
\* write_progress) is always into_public_view of the record.
PublicViewExact == \A c \in DOMAIN chats : chats[c].public = into_public_view(chats[c])

\* A summary shows only text of a provider call that completed and was
\* accounted for: never a check in progress, cut short by Stop, a dead worker
\* or an expired lease.
OnlyFinishedShown ==
    \A c \in DOMAIN chats : \A i \in DOMAIN chats[c].ops :
        LET k == chats[c].public[i] IN
        chats[c].ops[i].task = "summary" /\ k # 0 =>
            chats[c].calls[k].status = "completed" /\ chats[c].calls[k].usage

\* A command delivered twice is executed once: an operation id opens one
\* attempt, in one chat (operation_lock, prior_operation, save_operation).
OperationOnce ==
    \A p, q \in UNION {{c} \X DOMAIN chats[c].ops : c \in DOMAIN chats} :
        chats[p[1]].ops[p[2]].id = chats[q[1]].ops[q[2]].id => p = q

\* The conversation shown is the one held: the served projection is exact, a summary
\* shows only text of a call that completed, and a repeated command adds nothing.
ShownExact == PublicViewExact /\ OnlyFinishedShown /\ OperationOnce

\* A draft that was paid for stays the draft of every later attempt at the
\* summary (append clones the task): a retry buys the check, not the draft.
PaidDraftKept ==
    [][\A c \in DOMAIN chats :
           LET old == LastOp(chats[c])
               new == LastOp(chats'[c])
           IN  old.draft # 0 => new.task = "reply" \/ new.draft = old.draft]_vars

Running(c, k) == /\ c \in DOMAIN chats /\ k \in DOMAIN chats[c].calls
                 /\ chats[c].calls[k].status = "started"

\* A call shown as running ends for the reader even when its worker died:
\* the lease runs out and recovery marks the call.
CallsEnd == \A c \in 1..MaxChats, k \in 1..2 * Cardinality(Ops) :
                Running(c, k) ~> ~Running(c, k)

\* Stop: a cancelled chat becomes pending again only by a new command
\* (docs/deepseek-style-interview.md).
StopHolds ==
    [][\A c \in DOMAIN chats :
           chats[c].status = "cancelled" /\ pending(chats'[c].status) =>
               Len(chats'[c].ops) > Len(chats[c].ops)]_vars

attemptsMade(cs) == [c \in 1..MaxChats |-> IF c \in DOMAIN cs THEN Attempt(cs[c]) ELSE 0]

Request(cs, c, k) == <<c, cs[c].calls[k].attempt, cs[c].calls[k].phase>>

requestsSent(cs) == UNION {{Request(cs, c, k) : k \in DOMAIN cs[c].calls} : c \in DOMAIN cs}

\* The call that sent a request.
CallOf(cs, r) == CHOOSE k \in DOMAIN cs[r[1]].calls : Request(cs, r[1], k) = r

billOf(cs) == [r \in requestsSent(cs) |-> cs[r[1]].calls[CallOf(cs, r)].actual]

\* The chats implement PaidWork: a command opens an attempt, begin buys a
\* stage of the newest attempt at most once, settle tells its price once.
Money == INSTANCE PaidWork WITH
    Chats <- 1..MaxChats,
    Stages <- {"generating", "verifying"},
    attempts <- attemptsMade(chats),
    bought <- requestsSent(chats),
    bill <- billOf(chats)

\* A stage of an attempt is bought once and billed once, whatever the order of
\* repeated commands, recovery, deaths and late answers (begin, settle).
PaidOnce == Money!Spec
=============================================================================
