---------------------------- MODULE AiChatProofs ----------------------------
(***************************************************************************)
(* The paid AI chats implement PaidWork, for any number of workers, chats  *)
(* and commands.                                                           *)
(***************************************************************************)
EXTENDS AiChatRows

-----------------------------------------------------------------------------
(* What a transaction leaves of the attempts and the calls of a chat.      *)

Row(c) == /\ {"ops", "calls"} \subseteq DOMAIN c
          /\ Sequence(c.ops) /\ Sequence(c.calls)
          /\ \A k \in DOMAIN c.calls : {"attempt", "phase", "actual"} \subseteq DOMAIN c.calls[k]

\* The call l sends the same request as k, and its bill is the same.
SameCall(k, l) == l.attempt = k.attempt /\ l.phase = k.phase /\ l.actual = k.actual

SameCalls(b, c) == /\ DOMAIN c.calls = DOMAIN b.calls
                   /\ \A k \in DOMAIN b.calls : SameCall(b.calls[k], c.calls[k])

\* c has the attempts, requests and bills of b.
Keeps(b, c) == Row(c) /\ Len(c.ops) = Len(b.ops) /\ SameCalls(b, c)

\* A row keeps itself.
LEMMA KeepsSelf ==
    ASSUME NEW c, Row(c)
    PROVE  Keeps(c, c)
BY DEF Keeps, SameCalls, SameCall

\* A row changed elsewhere than in its operations and calls.
LEMMA BesideKeeps ==
    ASSUME NEW b, NEW c, Keeps(b, c), NEW d,
           DOMAIN d = DOMAIN c, d.ops = c.ops, d.calls = c.calls
    PROVE  Keeps(b, d)
BY DEF Keeps, SameCalls, Row

\* The helpers that touch neither the operations nor the calls.
LEMMA HelpersKeep ==
    ASSUME NEW b, NEW c, Keeps(b, c)
    PROVE  /\ Keeps(b, unlease(c)) /\ Keeps(b, runnable_now(c)) /\ Keeps(b, prioritize(c))
           /\ Keeps(b, write_record(c))
           /\ \A s : Keeps(b, set_attempt(c, s))
           /\ \A p : Keeps(b, write_progress(c, p))
<1>1. {"ops", "calls"} \subseteq DOMAIN c
    BY DEF Keeps, Row
<1>2. Keeps(b, unlease(c))
    <2>1. /\ DOMAIN unlease(c) = DOMAIN c
          /\ unlease(c).ops = c.ops /\ unlease(c).calls = c.calls
        BY <1>1 DEF unlease
    <2> QED BY <2>1, BesideKeeps
<1>3. Keeps(b, runnable_now(c))
    <2>1. /\ DOMAIN runnable_now(c) = DOMAIN c
          /\ runnable_now(c).ops = c.ops /\ runnable_now(c).calls = c.calls
        BY <1>1 DEF runnable_now
    <2> QED BY <2>1, BesideKeeps
<1>4. Keeps(b, prioritize(c))
    <2>1. /\ DOMAIN prioritize(c) = DOMAIN c
          /\ prioritize(c).ops = c.ops /\ prioritize(c).calls = c.calls
        BY <1>1 DEF prioritize, runnable_now
    <2> QED BY <2>1, BesideKeeps
<1>5. Keeps(b, write_record(c))
    <2>1. /\ DOMAIN write_record(c) = DOMAIN c
          /\ write_record(c).ops = c.ops /\ write_record(c).calls = c.calls
        BY <1>1 DEF write_record
    <2> QED BY <2>1, BesideKeeps
<1>6. ASSUME NEW s PROVE Keeps(b, set_attempt(c, s))
    <2>1. /\ DOMAIN set_attempt(c, s) = DOMAIN c
          /\ set_attempt(c, s).ops = c.ops /\ set_attempt(c, s).calls = c.calls
        BY <1>1 DEF set_attempt
    <2> QED BY <2>1, BesideKeeps
<1>7. ASSUME NEW p PROVE Keeps(b, write_progress(c, p))
    <2>1. /\ DOMAIN write_progress(c, p) = DOMAIN c
          /\ write_progress(c, p).ops = c.ops /\ write_progress(c, p).calls = c.calls
        BY <1>1 DEF write_progress
    <2> QED BY <2>1, BesideKeeps
<1> QED BY <1>2, <1>3, <1>4, <1>5, <1>6, <1>7

\* Calls rewritten in place, each keeping its request and its bill.
LEMMA CallsRewritten ==
    ASSUME NEW b, NEW c, Keeps(b, c), NEW calls,
           calls = [k \in DOMAIN c.calls |-> calls[k]],
           \A k \in DOMAIN c.calls : /\ DOMAIN calls[k] = DOMAIN c.calls[k]
                                     /\ SameCall(c.calls[k], calls[k])
    PROVE  Keeps(b, [c EXCEPT !.calls = calls])
<1> DEFINE d == [c EXCEPT !.calls = calls]
<1>1. DOMAIN d = DOMAIN c /\ d.ops = c.ops /\ d.calls = calls
    BY DEF Keeps, Row
<1>2. Sequence(calls) /\ DOMAIN calls = DOMAIN c.calls
    BY SamePositions DEF Keeps, Row
<1>3. Row(d)
    BY <1>1, <1>2 DEF Keeps, Row
<1>4. SameCalls(b, d)
    BY Zenon, <1>1, <1>2 DEF Keeps, SameCalls, SameCall
<1> QED BY <1>1, <1>3, <1>4 DEF Keeps

\* interrupt marks the running calls and keeps requests and bills.
LEMMA InterruptKeeps ==
    ASSUME NEW b, NEW c, Keeps(b, c)
    PROVE  Keeps(b, interrupt(c))
<1> DEFINE mark == IF c.status = "cancelled" THEN "cancelled" ELSE "interrupted"
           calls == [k \in DOMAIN c.calls |-> IF c.calls[k].status # "started" THEN c.calls[k]
                                              ELSE [c.calls[k] EXCEPT !.status = mark]]
<1>1. interrupt(c) = [c EXCEPT !.calls = calls]
    BY DEF interrupt
<1>2. ASSUME NEW k \in DOMAIN c.calls
      PROVE  DOMAIN calls[k] = DOMAIN c.calls[k] /\ SameCall(c.calls[k], calls[k])
    BY DEF Keeps, Row, SameCall
<1> HIDE DEF calls
<1>3. calls = [k \in DOMAIN c.calls |-> calls[k]]
    BY DEF calls
<1> QED BY <1>1, <1>2, <1>3, CallsRewritten

\* One field of one call, other than its request and its bill.
LEMMA CallFieldKeeps ==
    ASSUME NEW b, NEW c, Keeps(b, c), NEW k, NEW x
    PROVE  /\ Keeps(b, [c EXCEPT !.calls[k].status = x])
           /\ Keeps(b, [c EXCEPT !.calls[k].usage = x])
<1>1. \A l \in DOMAIN c.calls : {"attempt", "phase", "actual"} \subseteq DOMAIN c.calls[l]
    BY DEF Keeps, Row
<1>2. ASSUME NEW f \in {"status", "usage"}
      PROVE  Keeps(b, [c EXCEPT !.calls = [c.calls EXCEPT ![k] = [c.calls[k] EXCEPT ![f] = x]]])
    <2> DEFINE calls == [c.calls EXCEPT ![k] = [c.calls[k] EXCEPT ![f] = x]]
    <2>1. ASSUME NEW l \in DOMAIN c.calls
          PROVE  DOMAIN calls[l] = DOMAIN c.calls[l] /\ SameCall(c.calls[l], calls[l])
        BY <1>1, <1>2 DEF SameCall
    <2>2. calls = [l \in DOMAIN c.calls |-> calls[l]]
        OBVIOUS
    <2> HIDE DEF calls
    <2>3. Keeps(b, [c EXCEPT !.calls = calls])
        BY <2>1, <2>2, CallsRewritten
    <2> QED BY <2>3 DEF calls
<1> QED BY <1>2

\* Statuses and errors written beside.
LEMMA StatusKeeps ==
    ASSUME NEW b, NEW c, Keeps(b, c), NEW s, NEW e
    PROVE  /\ Keeps(b, [c EXCEPT !.status = s]) /\ Keeps(b, [c EXCEPT !.error = e])
           /\ Keeps(b, [c EXCEPT !.status = s, !.error = e])
           /\ Keeps(b, [c EXCEPT !.snapshot = s]) /\ Keeps(b, [c EXCEPT !.expired = s])
           /\ Keeps(b, [c EXCEPT !.offpeak = s])
<1>1. {"ops", "calls"} \subseteq DOMAIN c
    BY DEF Keeps, Row
<1>2. Keeps(b, [c EXCEPT !.status = s]) /\ Keeps(b, [c EXCEPT !.error = e])
    BY <1>1, BesideKeeps
<1>3. Keeps(b, [c EXCEPT !.status = s, !.error = e])
    BY Zenon, <1>1, BesideKeeps
<1>4. Keeps(b, [c EXCEPT !.snapshot = s]) /\ Keeps(b, [c EXCEPT !.expired = s])
    BY <1>1, BesideKeeps
<1>5. Keeps(b, [c EXCEPT !.offpeak = s])
    BY <1>1, BesideKeeps
<1> QED BY <1>2, <1>3, <1>4, <1>5

\* update_claim keeps requests and bills.
LEMMA UpdateClaimKeeps ==
    ASSUME NEW b, NEW c, Keeps(b, c), NEW next, NEW content, NEW error
    PROVE  Keeps(b, update_claim(c, next, content, error))
<1> DEFINE ended == IF pending(next) THEN [c EXCEPT !.status = next]
                                     ELSE interrupt([c EXCEPT !.status = next])
           text == IF content = 0 THEN ended ELSE [ended EXCEPT !.msgs[Attempt(c)].content = content]
           done == write_progress(set_attempt([text EXCEPT !.error = error], message_status(next)),
                                  c.public)
<1>1. Keeps(b, ended)
    BY Zenon, StatusKeeps, InterruptKeeps
<1>2. Keeps(b, text)
    <2> HIDE DEF ended
    <2>1. {"ops", "calls"} \subseteq DOMAIN ended
        BY <1>1 DEF Keeps, Row
    <2>2. Keeps(b, [ended EXCEPT !.msgs[Attempt(c)].content = content])
        BY <1>1, <2>1, BesideKeeps
    <2> QED BY <1>1, <2>2
<1>3. Keeps(b, done)
    <2> HIDE DEF text
    <2> QED BY Zenon, <1>2, StatusKeeps, HelpersKeep
<1> HIDE DEF done
<1>4. Keeps(b, runnable_now(unlease(done)))
    BY <1>3, HelpersKeep
<1>5. update_claim(c, next, content, error) =
          IF next \in {"generating", "verifying"} THEN done ELSE runnable_now(unlease(done))
    BY DEF update_claim, done
<1> QED BY <1>3, <1>4, <1>5

\* Stop, a removed key and an expired lease end a chat in the same way.
LEMMA EndKeeps ==
    ASSUME NEW c, Row(c), NEW s, NEW e
    PROVE  /\ Keeps(c, write_record(set_attempt(interrupt([c EXCEPT !.status = s]), "interrupted")))
           /\ Keeps(c, write_record(set_attempt(interrupt([c EXCEPT !.status = s, !.error = e]),
                                                "interrupted")))
BY Zenon, KeepsSelf, StatusKeeps, InterruptKeeps, HelpersKeep

\* Recovery keeps requests and bills.
LEMMA RecoveredKeeps ==
    ASSUME NEW c, Row(c)
    PROVE  Keeps(c, recovered(c))
BY Zenon, KeepsSelf, EndKeeps DEF recovered

\* So does the publication of an unchecked draft.
LEMMA PublishUncheckedKeeps ==
    ASSUME NEW c, Row(c)
    PROVE  Keeps(c, publish_unchecked(c))
<1> DEFINE n == Attempt(c)
           done == [c EXCEPT !.msgs[n] = [status |-> "complete", content |-> c.ops[n].draft],
                             !.status = "completed", !.error = "none"]
<1>1. DOMAIN done = DOMAIN c /\ done.ops = c.ops /\ done.calls = c.calls
    BY DEF Row
<1> HIDE DEF done
<1>2. Keeps(c, done)
    BY <1>1, KeepsSelf, BesideKeeps
<1>3. publish_unchecked(c) = runnable_now(unlease(write_progress(done, c.public)))
    BY DEF publish_unchecked, done
<1> QED BY <1>2, <1>3, HelpersKeep

\* defer_chat keeps requests and bills.
LEMMA DeferKeeps ==
    ASSUME NEW c, Row(c), NEW error
    PROVE  Keeps(c, defer_chat(c, error))
<1> DEFINE waiting == set_attempt([c EXCEPT !.status = "queued", !.error = error], "pending")
           free == unlease(write_progress(waiting, c.public))
<1>1. Keeps(c, waiting)
    BY Zenon, KeepsSelf, StatusKeeps, HelpersKeep
<1> HIDE DEF waiting
<1>2. Keeps(c, free)
    BY <1>1, HelpersKeep
<1> HIDE DEF free
<1>3. defer_chat(c, error) = [free EXCEPT !.until = IF error = "budget" THEN day + 1 ELSE 0,
                                          !.offpeak = error = "paused" /\ peak]
    BY DEF defer_chat, free, waiting
<1>4. /\ DOMAIN defer_chat(c, error) = DOMAIN free
      /\ defer_chat(c, error).ops = free.ops /\ defer_chat(c, error).calls = free.calls
    BY <1>2, <1>3 DEF Keeps, Row
<1> QED BY <1>2, <1>4, BesideKeeps

\* The end of every call update keeps requests and bills.
LEMMA UpdateKeeps ==
    ASSUME NEW b, NEW c, Keeps(b, c), NEW w, NEW published
    PROVE  Keeps(b, update(w, c, published))
BY Zenon, StatusKeeps, HelpersKeep DEF update

\* The end of a call keeps requests and bills; its draft is kept in the operation.
LEMMA FinishedKeeps ==
    ASSUME NEW w, Row(Mine(w)), NEW status, NEW draft
    PROVE  Keeps(Mine(w), finished(w, status, draft))
<1> DEFINE n == worker[w].attempt
           c == [Mine(w) EXCEPT !.calls[worker[w].call].status = status]
           saved == [c EXCEPT !.ops[n].draft = draft]
<1>1. Keeps(Mine(w), c)
    BY Zenon, KeepsSelf, CallFieldKeeps
<1>2. finished(w, status, draft) =
          IF draft = 0 THEN update(w, c, c.public)
          ELSE update(w, saved, [c.public EXCEPT ![n] = draft])
    BY DEF finished
<1> HIDE DEF c
<1>3. Keeps(Mine(w), saved)
    <2> DEFINE ops == [c.ops EXCEPT ![n].draft = draft]
    <2>1. {"ops", "calls"} \subseteq DOMAIN c /\ Sequence(c.ops)
        BY <1>1 DEF Keeps, Row
    <2>2. Sequence(ops) /\ Len(ops) = Len(c.ops)
        BY <2>1, SamePositions
    <2>3. DOMAIN saved = DOMAIN c /\ saved.ops = ops /\ saved.calls = c.calls
        BY <2>1
    <2> HIDE DEF saved, ops
    <2> QED BY <1>1, <2>2, <2>3 DEF Keeps, Row, SameCalls
<1> HIDE DEF saved
<1> QED BY <1>1, <1>2, <1>3, UpdateKeeps

-----------------------------------------------------------------------------
(* Requests and bills.                                                     *)

\* No stage of an attempt has two calls.
Once(c) == \A k, l \in DOMAIN c.calls :
    c.calls[k].attempt = c.calls[l].attempt /\ c.calls[k].phase = c.calls[l].phase => k = l

Rows(cs) == \A c \in DOMAIN cs : Row(cs[c]) /\ Len(cs[c].ops) > 0 /\ Once(cs[c])

\* A request was sent when some call sent it.
LEMMA RequestSent ==
    ASSUME NEW cs, NEW r
    PROVE  r \in requestsSent(cs) <=>
               \E c \in DOMAIN cs : \E k \in DOMAIN cs[c].calls : r = Request(cs, c, k)
<1> DEFINE Of(c) == {Request(cs, c, k) : k \in DOMAIN cs[c].calls}
<1>1. requestsSent(cs) = UNION {Of(c) : c \in DOMAIN cs}
    BY DEF requestsSent
<1>2. ASSUME NEW c PROVE r \in Of(c) <=> \E k \in DOMAIN cs[c].calls : r = Request(cs, c, k)
    OBVIOUS
<1> HIDE DEF Of
<1>3. r \in UNION {Of(c) : c \in DOMAIN cs} <=> \E c \in DOMAIN cs : r \in Of(c)
    OBVIOUS
<1> QED BY <1>1, <1>2, <1>3

\* The bill of a request is the one of the only call that sent it.
LEMMA BillOfRequest ==
    ASSUME NEW cs, Rows(cs), NEW c \in DOMAIN cs, NEW k \in DOMAIN cs[c].calls
    PROVE  billOf(cs)[Request(cs, c, k)] = cs[c].calls[k].actual
<1> DEFINE r == Request(cs, c, k)
<1>1. r[1] = c
    BY DEF Request
<1>2. \A l \in DOMAIN cs[c].calls : Request(cs, c, l) = r => l = k
    BY DEF Rows, Once, Request
<1> HIDE DEF r
<1>3. CallOf(cs, r) \in DOMAIN cs[c].calls /\ Request(cs, c, CallOf(cs, r)) = r
    <2>1. \E l \in DOMAIN cs[r[1]].calls : Request(cs, r[1], l) = r
        BY <1>1 DEF r
    <2>2. CallOf(cs, r) \in DOMAIN cs[r[1]].calls /\ Request(cs, r[1], CallOf(cs, r)) = r
        BY <2>1, Zenon DEF CallOf
    <2> QED BY <1>1, <2>2
<1>4. CallOf(cs, r) = k
    BY <1>2, <1>3
<1>5. r \in requestsSent(cs)
    BY RequestSent DEF r
<1>6. billOf(cs)[r] = cs[r[1]].calls[CallOf(cs, r)].actual
    BY <1>5 DEF billOf
<1> QED BY <1>1, <1>4, <1>6 DEF r

\* The bills are known once every request and its price are.
LEMMA BillIs ==
    ASSUME NEW cs, Rows(cs), NEW f, f = [r \in requestsSent(cs) |-> f[r]],
           \A c \in DOMAIN cs : \A k \in DOMAIN cs[c].calls :
               f[Request(cs, c, k)] = cs[c].calls[k].actual
    PROVE  billOf(cs) = f
<1>1. ASSUME NEW r \in requestsSent(cs) PROVE billOf(cs)[r] = f[r]
    <2>1. PICK c \in DOMAIN cs : \E k \in DOMAIN cs[c].calls : r = Request(cs, c, k)
        BY RequestSent
    <2>2. PICK k \in DOMAIN cs[c].calls : r = Request(cs, c, k)
        BY <2>1
    <2> QED BY <2>2, BillOfRequest
<1>2. billOf(cs) = [r \in requestsSent(cs) |-> billOf(cs)[r]]
    BY DEF billOf
<1> QED BY <1>1, <1>2

\* All chats keep their attempts, requests and bills.
Silent(cs, ds) == /\ Sequence(ds) /\ DOMAIN ds = DOMAIN cs
                  /\ \A c \in DOMAIN cs : Keeps(cs[c], ds[c])

\* What a kept row is.
LEMMA KeepsRow ==
    ASSUME NEW b, NEW c, Keeps(b, c), Once(b), Len(b.ops) > 0
    PROVE  Row(c) /\ Len(c.ops) > 0 /\ Once(c)
BY DEF Keeps, SameCalls, SameCall, Once

\* Rows rewritten silently are rows.
LEMMA SilentRows ==
    ASSUME NEW cs, Rows(cs), NEW ds, Silent(cs, ds)
    PROVE  Rows(ds)
BY KeepsRow DEF Rows, Silent

\* The same calls ask and cost the same.
SameRequests(cs, ds) ==
    /\ \A c \in DOMAIN cs : \A k \in DOMAIN cs[c].calls :
           /\ c \in DOMAIN ds /\ k \in DOMAIN ds[c].calls
           /\ SameCall(cs[c].calls[k], ds[c].calls[k])
    /\ \A c \in DOMAIN ds : \A k \in DOMAIN ds[c].calls :
           c \in DOMAIN cs /\ k \in DOMAIN cs[c].calls

\* Requests and prices depend on the calls alone.
LEMMA SameMoney ==
    ASSUME NEW cs, Rows(cs), NEW ds, Rows(ds), SameRequests(cs, ds)
    PROVE  requestsSent(ds) = requestsSent(cs) /\ billOf(ds) = billOf(cs)
<1>1. ASSUME NEW c \in DOMAIN cs, NEW k \in DOMAIN cs[c].calls
      PROVE  /\ c \in DOMAIN ds /\ k \in DOMAIN ds[c].calls
             /\ Request(ds, c, k) = Request(cs, c, k)
             /\ ds[c].calls[k].actual = cs[c].calls[k].actual
    BY DEF SameRequests, SameCall, Request
<1>2. ASSUME NEW c \in DOMAIN ds, NEW k \in DOMAIN ds[c].calls
      PROVE  c \in DOMAIN cs /\ k \in DOMAIN cs[c].calls
    BY DEF SameRequests
<1>3. requestsSent(ds) = requestsSent(cs)
    <2>1. ASSUME NEW r PROVE r \in requestsSent(ds) <=> r \in requestsSent(cs)
        BY <1>1, <1>2, RequestSent
    <2> QED BY <2>1
<1>4. ASSUME NEW c \in DOMAIN ds, NEW k \in DOMAIN ds[c].calls
      PROVE  billOf(cs)[Request(ds, c, k)] = ds[c].calls[k].actual
    BY <1>1, <1>2, BillOfRequest
<1>5. billOf(cs) = [r \in requestsSent(ds) |-> billOf(cs)[r]]
    BY <1>3 DEF billOf
<1>6. billOf(ds) = billOf(cs)
    BY <1>4, <1>5, BillIs
<1> QED BY <1>3, <1>6

\* A silent step is no step of the money.
LEMMA SilentStutters ==
    ASSUME NEW cs, Rows(cs), NEW ds, Silent(cs, ds)
    PROVE  /\ attemptsMade(ds) = attemptsMade(cs)
           /\ requestsSent(ds) = requestsSent(cs)
           /\ billOf(ds) = billOf(cs)
<1>1. attemptsMade(ds) = attemptsMade(cs)
    BY DEF attemptsMade, Attempt, Silent, Keeps
<1>2. SameRequests(cs, ds)
    BY DEF Silent, Keeps, SameCalls, SameRequests
<1> QED BY <1>1, <1>2, SilentRows, SameMoney

\* A new attempt at chat c, which may be a new chat.
Opens(cs, ds, c) ==
    /\ Sequence(ds) /\ DOMAIN ds = DOMAIN cs \cup {c}
    /\ \A d \in DOMAIN cs \ {c} : ds[d] = cs[d]
    /\ Row(ds[c])
    /\ \/ /\ c \in DOMAIN cs
          /\ Len(ds[c].ops) = Len(cs[c].ops) + 1 /\ SameCalls(cs[c], ds[c])
       \/ /\ c \notin DOMAIN cs
          /\ Len(ds[c].ops) = 1 /\ DOMAIN ds[c].calls = {}

\* What opening an attempt is to the money.
LEMMA OpensMoney ==
    ASSUME NEW cs, Rows(cs), NEW c \in 1..MaxChats, NEW ds, Opens(cs, ds, c)
    PROVE  /\ Rows(ds) /\ SameRequests(cs, ds)
           /\ attemptsMade(ds) = [attemptsMade(cs) EXCEPT ![c] = @ + 1]
           /\ requestsSent(ds) = requestsSent(cs)
           /\ billOf(ds) = billOf(cs)
<1>1. c \in DOMAIN cs => Len(cs[c].ops) \in Nat
    BY SequenceFacts DEF Rows, Row
<1>2. Row(ds[c]) /\ Len(ds[c].ops) > 0 /\ Once(ds[c])
    BY <1>1 DEF Opens, Rows, Once, SameCalls, SameCall
<1>3. Rows(ds)
    BY <1>2 DEF Opens, Rows
<1>4. SameRequests(cs, ds)
    BY DEF Opens, SameRequests, SameCalls, SameCall
<1>5. attemptsMade(ds) = [attemptsMade(cs) EXCEPT ![c] = @ + 1]
    <2>1. attemptsMade(ds)[c] = attemptsMade(cs)[c] + 1
        <3>1. attemptsMade(ds)[c] = Len(ds[c].ops)
            BY DEF Opens, attemptsMade, Attempt
        <3>2. attemptsMade(cs)[c] = IF c \in DOMAIN cs THEN Len(cs[c].ops) ELSE 0
            BY DEF attemptsMade, Attempt
        <3>3. CASE c \in DOMAIN cs
            BY <3>1, <3>2, <3>3 DEF Opens
        <3>4. CASE c \notin DOMAIN cs
            BY <3>1, <3>2, <3>4 DEF Opens
        <3> QED BY <3>3, <3>4
    <2>2. ASSUME NEW d \in 1..MaxChats, d # c PROVE attemptsMade(ds)[d] = attemptsMade(cs)[d]
        BY <2>2 DEF Opens, attemptsMade, Attempt
    <2>3. /\ attemptsMade(ds) = [d \in 1..MaxChats |-> attemptsMade(ds)[d]]
          /\ attemptsMade(cs) = [d \in 1..MaxChats |-> attemptsMade(cs)[d]]
        BY DEF attemptsMade
    <2> QED BY Zenon, <2>1, <2>2, <2>3
<1> QED BY <1>3, <1>4, <1>5, SameMoney

\* A call of the newest attempt of c, for a stage that has none.
Buys(cs, ds, c, ph) ==
    LET n == Len(cs[c].calls) + 1 IN
    /\ Sequence(ds) /\ DOMAIN ds = DOMAIN cs /\ c \in DOMAIN cs
    /\ \A d \in DOMAIN cs \ {c} : ds[d] = cs[d]
    /\ Row(ds[c]) /\ Len(ds[c].ops) = Len(cs[c].ops)
    /\ DOMAIN ds[c].calls = DOMAIN cs[c].calls \cup {n}
    /\ \A k \in DOMAIN cs[c].calls : SameCall(cs[c].calls[k], ds[c].calls[k])
    /\ ds[c].calls[n].attempt = Len(cs[c].ops) /\ ds[c].calls[n].phase = ph
    /\ ds[c].calls[n].actual = Unknown
    /\ \A k \in DOMAIN cs[c].calls : cs[c].calls[k].attempt = Len(cs[c].ops) =>
                                         cs[c].calls[k].phase # ph

\* What recording a call is to the money: a request that was not sent before.
LEMMA BuysMoney ==
    ASSUME NEW cs, Rows(cs), NEW c \in 1..MaxChats, NEW ph, NEW ds, Buys(cs, ds, c, ph),
           NEW r, r = <<c, attemptsMade(cs)[c], ph>>
    PROVE  /\ Rows(ds)
           /\ attemptsMade(ds) = attemptsMade(cs) /\ attemptsMade(cs)[c] > 0
           /\ r \notin requestsSent(cs)
           /\ requestsSent(ds) = requestsSent(cs) \cup {r}
           /\ billOf(ds) = [q \in requestsSent(ds) |-> IF q = r THEN Unknown ELSE billOf(cs)[q]]
<1> DEFINE n == Len(cs[c].calls) + 1
<1>1. n \notin DOMAIN cs[c].calls
    BY SequenceFacts DEF Rows, Row, Buys
<1>2. Row(ds[c]) /\ Len(ds[c].ops) > 0 /\ Once(ds[c])
    BY <1>1 DEF Buys, Rows, Once, SameCall
<1>3. Rows(ds)
    BY <1>2 DEF Buys, Rows
<1>4. attemptsMade(ds) = attemptsMade(cs) /\ attemptsMade(cs)[c] = Len(cs[c].ops)
    BY DEF Buys, attemptsMade, Attempt
<1>5. r = Request(ds, c, n) /\ n \in DOMAIN ds[c].calls /\ ds[c].calls[n].actual = Unknown
    BY <1>4 DEF Buys, Request
<1>6. ASSUME NEW d \in DOMAIN cs, NEW k \in DOMAIN cs[d].calls
      PROVE  /\ k \in DOMAIN ds[d].calls
             /\ Request(ds, d, k) = Request(cs, d, k) /\ Request(cs, d, k) # r
             /\ ds[d].calls[k].actual = cs[d].calls[k].actual
    BY <1>4 DEF Buys, Request, SameCall
<1>7. ASSUME NEW d \in DOMAIN ds, NEW k \in DOMAIN ds[d].calls
      PROVE  d \in DOMAIN cs /\ (k \in DOMAIN cs[d].calls \/ (d = c /\ k = n))
    BY DEF Buys
<1>8. r \notin requestsSent(cs)
    BY <1>6, RequestSent
<1>9. DOMAIN ds = DOMAIN cs /\ c \in DOMAIN cs
    BY DEF Buys
<1> HIDE DEF n
<1>10. requestsSent(ds) = requestsSent(cs) \cup {r}
    <2>1. ASSUME NEW q PROVE q \in requestsSent(ds) <=> q \in requestsSent(cs) \/ q = r
        BY <1>5, <1>6, <1>7, <1>9, RequestSent
    <2> QED BY <2>1
<1>11. billOf(ds) = [q \in requestsSent(ds) |-> IF q = r THEN Unknown ELSE billOf(cs)[q]]
    <2> DEFINE f == [q \in requestsSent(ds) |-> IF q = r THEN Unknown ELSE billOf(cs)[q]]
    <2>1. ASSUME NEW d \in DOMAIN ds, NEW k \in DOMAIN ds[d].calls
          PROVE  f[Request(ds, d, k)] = ds[d].calls[k].actual
        <3>1. Request(ds, d, k) \in requestsSent(ds)
            BY RequestSent
        <3>2. CASE k \in DOMAIN cs[d].calls
            BY <1>6, <1>9, <3>1, <3>2, BillOfRequest
        <3>3. CASE d = c /\ k = n
            BY <1>5, <3>1, <3>3
        <3> QED BY <1>7, <3>2, <3>3
    <2>2. f = [q \in requestsSent(ds) |-> f[q]]
        OBVIOUS
    <2> HIDE DEF f
    <2>3. billOf(ds) = f
        BY <1>3, <2>1, <2>2, BillIs
    <2> QED BY <2>3 DEF f
<1> QED BY <1>3, <1>4, <1>8, <1>9, <1>10, <1>11 DEF Rows

\* The price a of call k of chat c becomes known.
Settles(cs, ds, c, k, a) ==
    /\ Sequence(ds) /\ DOMAIN ds = DOMAIN cs /\ c \in DOMAIN cs /\ k \in DOMAIN cs[c].calls
    /\ \A d \in DOMAIN cs \ {c} : ds[d] = cs[d]
    /\ Row(ds[c]) /\ ds[c].ops = cs[c].ops
    /\ DOMAIN ds[c].calls = DOMAIN cs[c].calls
    /\ \A l \in DOMAIN cs[c].calls \ {k} : ds[c].calls[l] = cs[c].calls[l]
    /\ ds[c].calls[k].attempt = cs[c].calls[k].attempt
    /\ ds[c].calls[k].phase = cs[c].calls[k].phase
    /\ ds[c].calls[k].actual = a

\* What settling a call is to the money: one price, of one request.
LEMMA SettlesMoney ==
    ASSUME NEW cs, Rows(cs), NEW c, NEW k, NEW a, NEW ds, Settles(cs, ds, c, k, a),
           NEW r, r = Request(cs, c, k)
    PROVE  /\ Rows(ds)
           /\ attemptsMade(ds) = attemptsMade(cs)
           /\ r \in requestsSent(cs) /\ requestsSent(ds) = requestsSent(cs)
           /\ billOf(ds) = [billOf(cs) EXCEPT ![r] = a]
           /\ billOf(cs)[r] = cs[c].calls[k].actual
<1>1. Row(ds[c]) /\ Len(ds[c].ops) > 0 /\ Once(ds[c])
    BY DEF Settles, Rows, Once
<1>2. Rows(ds)
    BY <1>1 DEF Settles, Rows
<1>3. attemptsMade(ds) = attemptsMade(cs)
    BY DEF Settles, attemptsMade, Attempt
<1>4. c \in DOMAIN cs /\ k \in DOMAIN cs[c].calls /\ DOMAIN ds = DOMAIN cs
    BY DEF Settles
<1>5. ASSUME NEW d \in DOMAIN cs
      PROVE  /\ DOMAIN ds[d].calls = DOMAIN cs[d].calls
             /\ \A l \in DOMAIN cs[d].calls : Request(ds, d, l) = Request(cs, d, l)
    BY DEF Settles, Request
<1>6. r \in requestsSent(cs) /\ billOf(cs)[r] = cs[c].calls[k].actual
    BY <1>4, RequestSent, BillOfRequest
<1>7. requestsSent(ds) = requestsSent(cs)
    <2>1. ASSUME NEW q PROVE q \in requestsSent(ds) <=> q \in requestsSent(cs)
        BY <1>4, <1>5, RequestSent
    <2> QED BY <2>1
<1>8. billOf(ds) = [billOf(cs) EXCEPT ![r] = a]
    <2> DEFINE f == [billOf(cs) EXCEPT ![r] = a]
    <2>1. ASSUME NEW d \in DOMAIN ds, NEW l \in DOMAIN ds[d].calls
          PROVE  f[Request(ds, d, l)] = ds[d].calls[l].actual
        <3>1. Request(ds, d, l) = Request(cs, d, l) /\ l \in DOMAIN cs[d].calls
            BY <1>4, <1>5
        <3>2. Request(cs, d, l) \in requestsSent(cs)
            BY <1>4, <3>1, RequestSent
        <3>3. DOMAIN billOf(cs) = requestsSent(cs)
            BY DEF billOf
        <3>4. CASE d = c /\ l = k
            BY <3>1, <3>2, <3>3, <3>4 DEF Settles
        <3>5. CASE ~(d = c /\ l = k)
            <4>1. Request(cs, d, l) # r
                BY <1>4, <3>1, <3>5 DEF Request, Rows, Once
            <4>2. ds[d].calls[l].actual = cs[d].calls[l].actual
                BY <1>4, <3>1, <3>5 DEF Settles
            <4> QED BY <1>4, <3>1, <3>2, <3>3, <4>1, <4>2, BillOfRequest
        <3> QED BY <3>4, <3>5
    <2>2. f = [q \in requestsSent(ds) |-> f[q]]
        BY Zenon, <1>7 DEF billOf
    <2>3. billOf(ds) = [q \in requestsSent(ds) |-> billOf(ds)[q]]
        BY DEF billOf
    <2> HIDE DEF f
    <2>4. ASSUME NEW q \in requestsSent(ds) PROVE billOf(ds)[q] = f[q]
        BY <1>2, <2>1, RequestSent, BillOfRequest
    <2>5. billOf(ds) = f
        BY <2>2, <2>3, <2>4
    <2> QED BY <2>5 DEF f
<1> QED BY <1>2, <1>3, <1>6, <1>7, <1>8

-----------------------------------------------------------------------------
(* The workers: which chat they hold and which call they are waiting for.  *)

Placed(x, cs) == {"pc", "chat", "call"} \subseteq DOMAIN x /\ x.chat \in DOMAIN cs

\* A call that is waited for has no bill yet.
Waits(x, cs) == x.pc = "asked" => /\ x.call \in DOMAIN cs[x.chat].calls
                                  /\ cs[x.chat].calls[x.call].actual = Unknown

Working(x, cs) == x = Idle \/ (Placed(x, cs) /\ Waits(x, cs))

\* Two workers never wait for one call.
Apart == \A v, w \in Workers :
    /\ v # w
    /\ worker[v].pc = "asked" /\ worker[w].pc = "asked"
    /\ worker[v].chat = worker[w].chat
    => worker[v].call # worker[w].call

IInv == /\ Sequence(chats) /\ Len(chats) <= MaxChats /\ Rows(chats)
        /\ DOMAIN worker = Workers
        /\ \A w \in Workers : Working(worker[w], chats)
        /\ Apart

\* The invariant holds before the first chat.
LEMMA InitIInv ==
    ASSUME Init
    PROVE  IInv
<1>1. Sequence(chats) /\ Len(chats) = 0 /\ DOMAIN chats = {}
    <2>1. chats \in Seq({}) /\ Len(chats) = 0
        BY DEF Init
    <2>2. Sequence(chats)
        BY Zenon, <2>1, IsSequence
    <2> QED BY <2>1, <2>2, SequenceFacts
<1>2. Rows(chats)
    BY <1>1 DEF Rows
<1>3. \A w \in Workers : worker[w] = Idle
    BY DEF Init
<1>4. Apart
    BY <1>3 DEF Apart, Idle
<1> QED BY <1>1, <1>2, <1>3, <1>4, AiChatAssumption DEF Init, IInv, Working

\* A worker stays, becomes idle, or goes on without waiting for a call.
Steady == /\ DOMAIN worker' = Workers
          /\ \A w \in Workers :
                 \/ worker'[w] = worker[w]
                 \/ worker'[w] = Idle
                 \/ Placed(worker'[w], chats) /\ worker'[w].pc # "asked"

\* Chats may be added, and rows rewritten, as long as no bill comes.
Unbilled(cs, ds) == /\ DOMAIN cs \subseteq DOMAIN ds
                    /\ \A c \in DOMAIN cs : \A k \in DOMAIN cs[c].calls :
                           /\ k \in DOMAIN ds[c].calls
                           /\ ds[c].calls[k].actual = cs[c].calls[k].actual

\* A silent step brings no bill.
LEMMA SilentUnbilled ==
    ASSUME NEW cs, NEW ds, Silent(cs, ds)
    PROVE  Unbilled(cs, ds)
BY DEF Silent, Unbilled, Keeps, SameCalls, SameCall

\* While no bill comes, nobody waits for a call that has one.
LEMMA SteadyWorkers ==
    ASSUME IInv, Steady, Unbilled(chats, chats')
    PROVE  /\ DOMAIN worker' = Workers
           /\ \A w \in Workers : Working(worker'[w], chats')
           /\ Apart'
<1>1. ASSUME NEW w \in Workers PROVE Working(worker'[w], chats')
    <2>1. CASE worker'[w] = worker[w]
        BY <2>1 DEF IInv, Working, Placed, Waits, Unbilled
    <2>2. CASE worker'[w] = Idle
        BY <2>2 DEF Working
    <2>3. CASE Placed(worker'[w], chats) /\ worker'[w].pc # "asked"
        BY <2>3 DEF Working, Placed, Waits, Unbilled
    <2> QED BY <2>1, <2>2, <2>3 DEF Steady
<1>2. ASSUME NEW w \in Workers, worker'[w].pc = "asked" PROVE worker'[w] = worker[w]
    BY <1>2 DEF Steady, Idle
<1>3. Apart'
    BY <1>2 DEF IInv, Apart
<1> QED BY <1>1, <1>3 DEF Steady

\* A quiet step keeps the invariant.
LEMMA QuietStep ==
    ASSUME IInv, Steady, Silent(chats, chats')
    PROVE  IInv'
<1>1. Rows(chats')
    BY SilentRows DEF IInv
<1>2. Sequence(chats') /\ Len(chats') = Len(chats)
    BY SamePositions, SequenceFacts DEF IInv, Silent
<1>3. /\ DOMAIN worker' = Workers
      /\ \A w \in Workers : Working(worker'[w], chats')
      /\ Apart'
    BY SilentUnbilled, SteadyWorkers
<1> QED BY <1>1, <1>2, <1>3 DEF IInv

\* What a worker does to itself at the end of a step.
LEMMA WorkerGoes ==
    ASSUME IInv, NEW w \in Workers, worker[w] # Idle,
           \/ Quit(w)
           \/ \E e : Fails(w, e)
           \/ \E pc : pc # "asked" /\ Goto(w, pc)
           \/ UNCHANGED worker
    PROVE  Steady
<1>1. Placed(worker[w], chats) /\ DOMAIN worker = Workers
    BY DEF IInv, Working
<1>2. CASE Quit(w)
    BY <1>1, <1>2 DEF Quit, Steady
<1>3. ASSUME NEW e, Fails(w, e) PROVE Steady
    BY Zenon, <1>1, <1>3 DEF Fails, Steady, Placed
<1>4. ASSUME NEW pc, pc # "asked", Goto(w, pc) PROVE Steady
    BY <1>1, <1>4 DEF Goto, Steady, Placed
<1>5. CASE UNCHANGED worker
    BY <1>1, <1>5 DEF Steady
<1> QED BY <1>2, <1>3, <1>4, <1>5

\* One chat is written, or none.
LEMMA OnePut ==
    ASSUME IInv, NEW c, NEW d, Put(c, d), c \in DOMAIN chats => Keeps(chats[c], d)
    PROVE  Silent(chats, chats')
<1>1. Sequence(chats)
    BY DEF IInv
<1>2. DOMAIN chats' = DOMAIN chats /\ chats' = [i \in DOMAIN chats |-> chats'[i]]
    BY Zenon DEF Put
<1>3. Sequence(chats')
    BY <1>1, <1>2, SamePositions
<1>4. ASSUME NEW i \in DOMAIN chats PROVE Keeps(chats[i], chats'[i])
    <2>1. Keeps(chats[i], chats[i])
        BY KeepsSelf DEF IInv, Rows
    <2> QED BY <2>1 DEF Put
<1> QED BY <1>2, <1>3, <1>4 DEF Silent

\* Chats that are left alone are rewritten silently.
LEMMA NoPut ==
    ASSUME IInv, UNCHANGED chats
    PROVE  Silent(chats, chats')
<1>1. ASSUME NEW i \in DOMAIN chats PROVE Keeps(chats[i], chats[i])
    BY KeepsSelf DEF IInv, Rows
<1> QED BY <1>1 DEF IInv, Silent

-----------------------------------------------------------------------------
(* The steps that neither open an attempt, nor buy, nor learn a price.     *)

Quiet == Silent(chats, chats') /\ Steady

\* A worker that is not idle holds a chat.
LEMMA HeldRow ==
    ASSUME IInv, NEW w \in Workers, worker[w] # Idle
    PROVE  worker[w].chat \in DOMAIN chats /\ Row(Mine(w)) /\ Keeps(Mine(w), Mine(w))
<1>1. worker[w].chat \in DOMAIN chats /\ Row(Mine(w))
    BY DEF IInv, Working, Placed, Rows, Mine
<1> QED BY <1>1, KeepsSelf

\* The chat of a worker is written or not, and the worker goes on.
LEMMA WorkerQuiet ==
    ASSUME IInv, NEW w \in Workers, worker[w] # Idle,
           UNCHANGED chats \/ (\E d : Keeps(Mine(w), d) /\ Put(worker[w].chat, d)),
           \/ Quit(w)
           \/ \E e : Fails(w, e)
           \/ \E pc : pc # "asked" /\ Goto(w, pc)
           \/ UNCHANGED worker
    PROVE  Quiet
<1>1. Steady
    BY Zenon, WorkerGoes
<1>2. Silent(chats, chats')
    <2>1. ASSUME NEW d, Keeps(Mine(w), d), Put(worker[w].chat, d) PROVE Silent(chats, chats')
        BY <2>1, OnePut DEF Mine
    <2> QED BY <2>1, NoPut
<1> QED BY <1>1, <1>2 DEF Quiet

\* resolve_snapshot pins the text and buys nothing.
LEMMA ResolveQuiet ==
    ASSUME IInv, NEW w \in Workers, resolve_snapshot(w)
    PROVE  Quiet
<1>1. worker[w] # Idle
    BY DEF resolve_snapshot, Idle
<1>2. Keeps(Mine(w), update_claim(Mine(w), "waiting_content", 0, "none"))
    BY <1>1, HeldRow, UpdateClaimKeeps
<1>3. Keeps(Mine(w), update_claim([Mine(w) EXCEPT !.snapshot = TRUE], "generating", 0, "none"))
    <2>1. Keeps(Mine(w), [Mine(w) EXCEPT !.snapshot = TRUE])
        BY Zenon, <1>1, HeldRow, StatusKeeps
    <2> QED BY <2>1, UpdateClaimKeeps
<1>4. Stage(LastOp(Mine(w))) # "asked"
    BY DEF Stage
<1>5. \/ UNCHANGED chats /\ (Fails(w, "fulltext") \/ Quit(w))
      \/ Put(worker[w].chat, update_claim(Mine(w), "waiting_content", 0, "none")) /\ Quit(w)
      \/ /\ Put(worker[w].chat, update_claim([Mine(w) EXCEPT !.snapshot = TRUE],
                                             "generating", 0, "none"))
         /\ Goto(w, Stage(LastOp(Mine(w))))
    BY Zenon DEF resolve_snapshot
<1> QED BY <1>1, <1>2, <1>3, <1>4, <1>5, WorkerQuiet, Zenon

\* What is shown while a call runs, and its answer, change no bill.
LEMMA PublishQuiet ==
    ASSUME IInv, NEW w \in Workers, publish(w) \/ publish_answer(w)
    PROVE  Quiet
<1>1. worker[w] # Idle
    BY DEF publish, publish_answer, Idle
<1>2. Keeps(Mine(w), update_claim(Mine(w), CallPhase(w), worker[w].call, "none"))
    BY <1>1, HeldRow, UpdateClaimKeeps
<1>3. /\ \/ UNCHANGED chats
         \/ Put(worker[w].chat, update_claim(Mine(w), CallPhase(w), worker[w].call, "none"))
      /\ UNCHANGED worker \/ Quit(w) \/ Goto(w, "finish")
    BY Zenon DEF publish, publish_answer
<1> QED BY <1>1, <1>2, <1>3, WorkerQuiet, Zenon

\* update_usage writes the usage beside the bill.
LEMMA UsageQuiet ==
    ASSUME IInv, NEW w \in Workers, update_usage(w)
    PROVE  Quiet
<1> DEFINE d == update(w, [Mine(w) EXCEPT !.calls[worker[w].call].usage = TRUE], Mine(w).public)
<1>1. worker[w] # Idle
    BY DEF update_usage, Idle
<1>2. Keeps(Mine(w), [Mine(w) EXCEPT !.calls[worker[w].call].usage = TRUE])
    BY Zenon, <1>1, HeldRow, CallFieldKeeps
<1>3. Keeps(Mine(w), d)
    BY <1>2, UpdateKeeps
<1>4. Put(worker[w].chat, d) /\ Goto(w, "answered")
    BY DEF update_usage
<1> HIDE DEF d
<1> QED BY <1>1, <1>3, <1>4, WorkerQuiet, Zenon

\* fail_call ends a call and keeps its bill.
LEMMA FailCallQuiet ==
    ASSUME IInv, NEW w \in Workers, fail_call(w)
    PROVE  Quiet
<1>1. worker[w] # Idle
    BY DEF fail_call, Idle
<1>2. \A s : Keeps(Mine(w), finished(w, s, 0))
    BY <1>1, HeldRow, FinishedKeeps
<1>3. /\ \E s : Put(worker[w].chat, finished(w, s, 0))
      /\ Fails(w, "provider") \/ Fails(w, "invalid") \/ Quit(w)
    BY Zenon DEF fail_call
<1> QED BY <1>1, <1>2, <1>3, WorkerQuiet, Zenon

\* finish_call keeps the bill and the draft.
LEMMA FinishCallQuiet ==
    ASSUME IInv, NEW w \in Workers, finish_call(w)
    PROVE  Quiet
<1> DEFINE k == worker[w].call
<1>1. worker[w] # Idle
    BY DEF finish_call, Idle
<1>2. \A draft : Keeps(Mine(w), finished(w, "completed", draft))
    BY <1>1, HeldRow, FinishedKeeps
<1>3. \/ /\ Put(worker[w].chat, finished(w, "completed", k))
         /\ worker' = [worker EXCEPT ![w].pc = "unchecked", ![w].draft = k]
      \/ Put(worker[w].chat, finished(w, "completed", 0)) /\ Goto(w, "complete")
    BY Zenon DEF finish_call
<1>4. CASE Put(worker[w].chat, finished(w, "completed", 0)) /\ Goto(w, "complete")
    BY <1>1, <1>2, <1>4, WorkerQuiet, Zenon
<1>5. CASE /\ Put(worker[w].chat, finished(w, "completed", k))
           /\ worker' = [worker EXCEPT ![w].pc = "unchecked", ![w].draft = k]
    <2>1. Keeps(chats[worker[w].chat], finished(w, "completed", k))
        BY <1>2 DEF Mine
    <2>2. Silent(chats, chats')
        BY <1>5, <2>1, OnePut
    <2>3. Placed(worker[w], chats) /\ DOMAIN worker = Workers
        BY <1>1 DEF IInv, Working
    <2>4. Steady
        BY <1>5, <2>3 DEF Steady, Placed
    <2> QED BY <2>2, <2>4 DEF Quiet
<1> QED BY <1>3, <1>4, <1>5

\* finish_unchecked buys nothing.
LEMMA UncheckedQuiet ==
    ASSUME IInv, NEW w \in Workers, finish_unchecked(w)
    PROVE  Quiet
<1>1. worker[w] # Idle
    BY DEF finish_unchecked, Idle
<1>2. Keeps(Mine(w), publish_unchecked(Mine(w)))
    BY <1>1, HeldRow, PublishUncheckedKeeps
<1>3. /\ UNCHANGED chats \/ Put(worker[w].chat, publish_unchecked(Mine(w)))
      /\ Fails(w, "context") \/ Quit(w) \/ Goto(w, "call") \/ Fails(w, "conflict")
    BY Zenon DEF finish_unchecked
<1> QED BY <1>1, <1>2, <1>3, WorkerQuiet, Zenon

\* Nor do the ends of a claim, deferred ones included.
LEMMA EndOfClaimQuiet ==
    ASSUME IInv, NEW w \in Workers, complete_claim(w) \/ fail_claim(w)
    PROVE  Quiet
<1>1. worker[w] # Idle
    BY DEF complete_claim, fail_claim, Idle
<1>2. \A next, e : /\ Keeps(Mine(w), update_claim(Mine(w), next, 0, e))
                   /\ Keeps(Mine(w), defer_chat(Mine(w), e))
    BY <1>1, HeldRow, UpdateClaimKeeps, DeferKeeps
<1>3. /\ \/ UNCHANGED chats
         \/ \E next, e : Put(worker[w].chat, update_claim(Mine(w), next, 0, e))
         \/ \E e : Put(worker[w].chat, defer_chat(Mine(w), e))
      /\ Quit(w) \/ Fails(w, "conflict")
    BY Zenon DEF complete_claim, fail_claim
<1> QED BY <1>1, <1>2, <1>3, WorkerQuiet, Zenon

\* Every chat is rewritten in place.
LEMMA AllPut ==
    ASSUME IInv, chats' = [c \in DOMAIN chats |-> chats'[c]],
           \A c \in DOMAIN chats : Keeps(chats[c], chats'[c])
    PROVE  Silent(chats, chats')
<1>1. Sequence(chats) /\ DOMAIN chats' = DOMAIN chats
    BY DEF IInv
<1>2. Sequence(chats')
    BY <1>1, SamePositions
<1> QED BY <1>1, <1>2 DEF Silent

\* claim recovers what a dead worker left and takes a chat, without a call.
LEMMA ClaimQuiet ==
    ASSUME IInv, NEW w \in Workers, claim(w)
    PROVE  Quiet
<1> DEFINE after == [c \in DOMAIN chats |-> recovered(chats[c])]
<1>1. ASSUME NEW c \in DOMAIN chats PROVE Keeps(chats[c], after[c])
    BY RecoveredKeeps DEF IInv, Rows
<1>2. DOMAIN after = DOMAIN chats /\ DOMAIN worker = Workers
    BY DEF IInv
<1>3. CASE chats' = after /\ UNCHANGED worker
    <2>1. Silent(chats, chats')
        BY <1>1, <1>3, AllPut
    <2> QED BY <1>2, <1>3, <2>1 DEF Quiet, Steady
<1>4. ASSUME NEW c \in DOMAIN after, NEW n, NEW x,
             chats' = [after EXCEPT ![c].lease = n, ![c].claims = n],
             worker' = [worker EXCEPT ![w] = x],
             {"pc", "chat", "call"} \subseteq DOMAIN x, x.pc # "asked", x.chat = c
      PROVE  Quiet
    <2>1. ASSUME NEW d \in DOMAIN chats PROVE Keeps(chats[d], chats'[d])
        <3>1. CASE d # c
            BY Zenon, <1>1, <1>4, <3>1
        <3>2. CASE d = c
            <4>1. {"ops", "calls"} \subseteq DOMAIN after[c]
                BY <1>1 DEF Keeps, Row
            <4>2. /\ DOMAIN chats'[c] = DOMAIN after[c]
                  /\ chats'[c].ops = after[c].ops /\ chats'[c].calls = after[c].calls
                BY <1>4, <4>1
            <4> QED BY <1>1, <3>2, <4>2, BesideKeeps
        <3> QED BY <3>1, <3>2
    <2>2. chats' = [d \in DOMAIN chats |-> chats'[d]]
        BY <1>4
    <2>3. Silent(chats, chats')
        BY <2>1, <2>2, AllPut
    <2>4. Steady
        BY <1>2, <1>4 DEF Steady, Placed
    <2> QED BY <2>3, <2>4 DEF Quiet
<1> DEFINE x(c, n) ==
        [pc |-> IF after[c].snapshot THEN Stage(LastOp(after[c])) ELSE "snapshot",
         chat |-> c, lease |-> n, attempt |-> Attempt(after[c]),
         task |-> LastOp(after[c]).task, draft |-> LastOp(after[c]).draft,
         call |-> 0, error |-> "none"]
<1>5. \/ \E c \in DOMAIN after :
             /\ chats' = [after EXCEPT ![c].lease = after[c].claims + 1,
                                       ![c].claims = after[c].claims + 1]
             /\ worker' = [worker EXCEPT ![w] = x(c, after[c].claims + 1)]
      \/ chats' = after /\ UNCHANGED worker
    BY Zenon DEF claim
<1> HIDE DEF after
<1>6. ASSUME NEW c, NEW n
      PROVE  {"pc", "chat", "call"} \subseteq DOMAIN x(c, n) /\ x(c, n).pc # "asked" /\ x(c, n).chat = c
    BY DEF Stage
<1> HIDE DEF x
<1>7. ASSUME NEW c \in DOMAIN after,
             chats' = [after EXCEPT ![c].lease = after[c].claims + 1,
                                    ![c].claims = after[c].claims + 1],
             worker' = [worker EXCEPT ![w] = x(c, after[c].claims + 1)]
      PROVE  Quiet
    <2> DEFINE n == after[c].claims + 1
               y == x(c, n)
    <2>1. {"pc", "chat", "call"} \subseteq DOMAIN y /\ y.pc # "asked" /\ y.chat = c
        BY <1>6
    <2>2. /\ chats' = [after EXCEPT ![c].lease = n, ![c].claims = n]
          /\ worker' = [worker EXCEPT ![w] = y]
        BY <1>7
    <2> HIDE DEF n, y
    <2> QED BY Zenon, <1>4, <2>1, <2>2
<1> QED BY Zenon, <1>3, <1>5, <1>7

\* Every way a call is not made.
LEMMA BeginQuiet ==
    ASSUME IInv, NEW w \in Workers, worker[w].pc = "call", UNCHANGED chats,
           Quit(w) \/ \E e : Fails(w, e)
    PROVE  Quiet
<1>1. worker[w] # Idle
    BY DEF Idle
<1> QED BY <1>1, WorkerQuiet, Zenon

\* A worker that dies leaves the rows.
LEMMA CrashQuiet ==
    ASSUME IInv, NEW w \in Workers, Crash(w)
    PROVE  Quiet
BY WorkerQuiet, Zenon DEF Crash

\* Workers that do nothing are steady.
LEMMA WorkersRest ==
    ASSUME IInv, UNCHANGED worker
    PROVE  Steady
BY DEF IInv, Steady

\* A lease that runs out changes no bill.
LEMMA LeaseQuiet ==
    ASSUME IInv, NEW c \in DOMAIN chats, LeaseExpires(c) \/ LeaseOverrun(c)
    PROVE  Quiet
<1>1. Put(c, [chats[c] EXCEPT !.expired = TRUE]) /\ UNCHANGED worker
    BY DEF LeaseExpires, LeaseOverrun, Expire
<1>2. Keeps(chats[c], [chats[c] EXCEPT !.expired = TRUE])
    BY Zenon, KeepsSelf, StatusKeeps DEF IInv, Rows
<1> QED BY <1>1, <1>2, OnePut, WorkersRest DEF Quiet

\* stop interrupts the running calls and keeps their bills.
LEMMA StopQuiet ==
    ASSUME IInv, NEW c \in DOMAIN chats, stop(c)
    PROVE  Quiet
<1> DEFINE d == write_record(set_attempt(interrupt([chats[c] EXCEPT !.status = "cancelled"]),
                                         "interrupted"))
<1>1. Keeps(chats[c], d)
    BY Zenon, EndKeeps DEF IInv, Rows
<1>2. Put(c, d) /\ UNCHANGED worker
    BY DEF stop
<1> HIDE DEF d
<1> QED BY <1>1, <1>2, OnePut, WorkersRest DEF Quiet

\* The latest chat is put first.
LEMMA PrioritizeQuiet ==
    ASSUME IInv, chats' = [chats EXCEPT ![Len(chats)] = prioritize(chats[Len(chats)])]
    PROVE  Silent(chats, chats')
<1>1. Len(chats) \in DOMAIN chats => Keeps(chats[Len(chats)], prioritize(chats[Len(chats)]))
    BY KeepsSelf, HelpersKeep DEF IInv, Rows
<1>2. Put(Len(chats), prioritize(chats[Len(chats)]))
    BY DEF Put
<1> QED BY Zenon, <1>1, <1>2, OnePut

\* open_chats only reorders the queue.
LEMMA OpenChatsQuiet ==
    ASSUME IInv, open_chats
    PROVE  Quiet
<1>1. chats' = [chats EXCEPT ![Len(chats)] = prioritize(chats[Len(chats)])] /\ UNCHANGED worker
    BY DEF open_chats
<1> QED BY <1>1, PrioritizeQuiet, WorkersRest DEF Quiet

\* Keys, preferences, the article and the calendar buy nothing.
LEMMA SettingQuiet ==
    ASSUME IInv, Setting
    PROVE  Quiet
<1>1. Steady
    BY Zenon, WorkersRest DEF Setting, save_credential, delete_credential, save_model_preferences,
           FullText, PeakBegins, PeakEnds, Midnight
<1>2. CASE UNCHANGED chats
    BY <1>1, <1>2, NoPut DEF Quiet
<1>3. \A c \in DOMAIN chats : Row(chats[c]) /\ Keeps(chats[c], chats[c])
    BY KeepsSelf DEF IInv, Rows
<1>4. CASE delete_credential
    <2> DEFINE d(c) == write_record(set_attempt(interrupt(
                    [chats[c] EXCEPT !.status = "cancelled", !.error = "missing_key"]),
                    "interrupted"))
    <2>1. \A c \in DOMAIN chats : Keeps(chats[c], d(c))
        BY Zenon, <1>3, EndKeeps
    <2>2. chats' = [c \in DOMAIN chats |-> IF ~pending(chats[c].status) THEN chats[c] ELSE d(c)]
        BY Zenon, <1>4 DEF delete_credential
    <2> HIDE DEF d
    <2>3. \A c \in DOMAIN chats : Keeps(chats[c], chats'[c])
        BY <1>3, <2>1, <2>2
    <2>4. chats' = [c \in DOMAIN chats |-> chats'[c]]
        BY <2>2
    <2> QED BY <1>1, <2>3, <2>4, AllPut DEF Quiet
<1>5. CASE save_model_preferences
    <2>1. \A c \in DOMAIN chats : Keeps(chats[c], runnable_now(chats[c]))
        BY <1>3, HelpersKeep
    <2>2. \A c \in DOMAIN chats : Keeps(chats[c], chats'[c])
        BY <1>3, <1>5, <2>1 DEF save_model_preferences
    <2>3. chats' = [c \in DOMAIN chats |-> chats'[c]]
        BY <1>5 DEF save_model_preferences
    <2> QED BY <1>1, <2>2, <2>3, AllPut DEF Quiet
<1>6. CASE PeakEnds
    <2>1. \A c \in DOMAIN chats : Keeps(chats[c], [chats[c] EXCEPT !.offpeak = FALSE])
        BY Zenon, <1>3, StatusKeeps
    <2>2. \A c \in DOMAIN chats : Keeps(chats[c], chats'[c])
        BY <1>6, <2>1 DEF PeakEnds
    <2>3. chats' = [c \in DOMAIN chats |-> chats'[c]]
        BY <1>6 DEF PeakEnds
    <2> QED BY <1>1, <2>2, <2>3, AllPut DEF Quiet
<1> QED BY <1>2, <1>4, <1>5, <1>6 DEF Setting, save_credential, FullText, PeakBegins, Midnight

-----------------------------------------------------------------------------
(* A command that opens an attempt.                                        *)

\* A new chat has one attempt and no call.
LEMMA NewChatRow ==
    ASSUME NEW op, NEW kind, NEW input, NEW automatic, NEW x, x = NewChat(op, kind, input, automatic)
    PROVE  Row(x) /\ Len(x.ops) = 1 /\ DOMAIN x.calls = {}
<1> DEFINE o == NewOp(op, kind, "summary", 0)
<1>1. x.ops = <<o>> /\ x.calls = <<>> /\ {"ops", "calls"} \subseteq DOMAIN x
    BY DEF NewChat
<1> HIDE DEF o
<1>2. <<o>> \in Seq({o}) /\ Len(<<o>>) = 1
    OBVIOUS
<1>3. <<>> \in Seq({}) /\ DOMAIN <<>> = {}
    OBVIOUS
<1>4. Sequence(<<o>>) /\ Sequence(<<>>)
    BY Zenon, <1>2, <1>3, IsSequence
<1> QED BY <1>1, <1>2, <1>3, <1>4 DEF Row

\* create_chat opens the first attempt of a new chat.
LEMMA CreateOpens ==
    ASSUME IInv, NEW x, Row(x), Len(x.ops) = 1, DOMAIN x.calls = {},
           \/ chats' = Append(chats, x)
           \/ LET cs == Append(chats, x)
              IN  chats' = [cs EXCEPT ![Len(cs)] = prioritize(cs[Len(cs)])]
    PROVE  Opens(chats, chats', Len(chats) + 1)
<1> DEFINE n == Len(chats) + 1
           cs == Append(chats, x)
<1>1. Sequence(chats) /\ Len(chats) \in Nat /\ DOMAIN chats = 1..Len(chats)
    BY SequenceFacts DEF IInv
<1>2. /\ Sequence(cs) /\ Len(cs) = n /\ DOMAIN cs = DOMAIN chats \cup {n}
      /\ \A i \in DOMAIN chats : cs[i] = chats[i]
      /\ cs[n] = x
    BY <1>1, Appended
<1>3. Keeps(x, x) /\ Keeps(x, prioritize(x))
    BY KeepsSelf, HelpersKeep
<1>4. chats' = cs \/ chats' = [cs EXCEPT ![n] = prioritize(x)]
    BY <1>2
<1>5. n \notin DOMAIN chats
    BY <1>1
<1> HIDE DEF n, cs
<1>6. chats' = [i \in DOMAIN cs |-> chats'[i]] /\ (chats'[n] = x \/ chats'[n] = prioritize(x))
    BY <1>2, <1>4
<1>7. Sequence(chats') /\ DOMAIN chats' = DOMAIN cs
    BY <1>2, <1>6, SamePositions
<1>8. \A i \in DOMAIN chats \ {n} : chats'[i] = chats[i]
    BY <1>2, <1>4
<1>9. Row(chats'[n]) /\ Len(chats'[n].ops) = 1 /\ DOMAIN chats'[n].calls = {}
    BY <1>3, <1>6 DEF Keeps, SameCalls
<1>10. Opens(chats, chats', n)
    BY <1>2, <1>5, <1>7, <1>8, <1>9 DEF Opens
<1> QED BY <1>10 DEF n

\* append opens one more attempt of its chat.
LEMMA AppendOpens ==
    ASSUME IInv, NEW c \in DOMAIN chats, NEW b, NEW d, NEW o,
           DOMAIN b = DOMAIN chats[c], b.ops = Append(chats[c].ops, o), b.calls = chats[c].calls,
           d = unlease(write_record(b)), Put(c, d)
    PROVE  Opens(chats, chats', c)
<1>1. Sequence(chats) /\ Row(chats[c])
    BY DEF IInv, Rows
<1>2. Sequence(b.ops) /\ Len(b.ops) = Len(chats[c].ops) + 1
    BY <1>1, Appended DEF Row
<1>3. Row(b)
    BY <1>1, <1>2 DEF Row
<1>4. Keeps(b, d)
    BY <1>3, KeepsSelf, HelpersKeep
<1>5. /\ chats' = [i \in DOMAIN chats |-> chats'[i]] /\ chats'[c] = d
      /\ \A i \in DOMAIN chats \ {c} : chats'[i] = chats[i]
    BY Zenon DEF Put
<1>6. Sequence(chats') /\ DOMAIN chats' = DOMAIN chats
    BY <1>1, <1>5, SamePositions
<1>7. SameCalls(chats[c], d)
    BY <1>4 DEF Keeps, SameCalls, SameCall
<1> QED BY Zenon, <1>2, <1>4, <1>5, <1>6, <1>7 DEF Opens, Keeps

\* A step that opens an attempt is Open of PaidWork.
LEMMA OpenStep ==
    ASSUME IInv, NEW c \in 1..MaxChats, Opens(chats, chats', c), UNCHANGED worker
    PROVE  IInv' /\ Money!Open(c)
<1>1. Rows(chats)
    BY DEF IInv
<1>2. /\ Rows(chats') /\ SameRequests(chats, chats')
      /\ attemptsMade(chats') = [attemptsMade(chats) EXCEPT ![c] = @ + 1]
      /\ requestsSent(chats') = requestsSent(chats)
      /\ billOf(chats') = billOf(chats)
    BY <1>1, OpensMoney
<1>3. Unbilled(chats, chats')
    BY <1>2 DEF SameRequests, SameCall, Unbilled, Opens
<1>4. /\ DOMAIN worker' = Workers
      /\ \A w \in Workers : Working(worker'[w], chats')
      /\ Apart'
    BY <1>3, WorkersRest, SteadyWorkers
<1>5. Sequence(chats') /\ DOMAIN chats' = DOMAIN chats \cup {c}
    BY DEF Opens
<1>6. Len(chats') <= MaxChats
    <2>1. /\ Len(chats) \in Nat /\ DOMAIN chats = 1..Len(chats) /\ Len(chats) <= MaxChats
          /\ Len(chats') \in Nat /\ DOMAIN chats' = 1..Len(chats')
        BY <1>5, SequenceFacts DEF IInv
    <2> QED BY <1>5, <2>1, AiChatAssumption
<1> QED BY <1>2, <1>4, <1>5, <1>6 DEF IInv, Money!Open

\* A delivered command opens one attempt or none.
LEMMA ExecuteStep ==
    ASSUME IInv, NEW op, Execute(op)
    PROVE  IInv' /\ (Quiet \/ \E c \in 1..MaxChats : Money!Open(c))
<1> DEFINE r == sent[op]
           x == NewChat(op, r.kind, r.input, r.automatic)
<1>1. UNCHANGED worker /\ Steady
    BY WorkersRest DEF Execute
<1>2. Sequence(chats) /\ Len(chats) \in Nat /\ DOMAIN chats = 1..Len(chats) /\ Len(chats) <= MaxChats
    BY SequenceFacts DEF IInv
<1>3. CASE create_chat(op)
    <2>1. Row(x) /\ Len(x.ops) = 1 /\ DOMAIN x.calls = {}
        BY NewChatRow
    <2>2. \/ UNCHANGED chats
          \/ chats' = [chats EXCEPT ![Len(chats)] = prioritize(chats[Len(chats)])]
          \/ /\ Len(chats) < MaxChats
             /\ \/ chats' = Append(chats, x)
                \/ LET cs == Append(chats, x)
                   IN  chats' = [cs EXCEPT ![Len(cs)] = prioritize(cs[Len(cs)])]
        BY <1>3 DEF create_chat
    <2> HIDE DEF x, r
    <2>3. CASE UNCHANGED chats
        BY <1>1, <2>3, NoPut, QuietStep DEF Quiet
    <2>4. CASE chats' = [chats EXCEPT ![Len(chats)] = prioritize(chats[Len(chats)])]
        BY <1>1, <2>4, PrioritizeQuiet, QuietStep DEF Quiet
    <2>5. CASE /\ Len(chats) < MaxChats
               /\ \/ chats' = Append(chats, x)
                  \/ LET cs == Append(chats, x)
                     IN  chats' = [cs EXCEPT ![Len(cs)] = prioritize(cs[Len(cs)])]
        <3>1. Opens(chats, chats', Len(chats) + 1)
            BY <2>1, <2>5, CreateOpens
        <3>2. Len(chats) + 1 \in 1..MaxChats
            BY <1>2, <2>5, AiChatAssumption
        <3> QED BY <1>1, <3>1, <3>2, OpenStep
    <2> QED BY <2>2, <2>3, <2>4, <2>5
<1>4. CASE append(op)
    <2> DEFINE c == chats[r.chat]
               task == IF r.kind = "message" THEN [task |-> "reply", draft |-> 0] ELSE retried(c)
               o == NewOp(op, r.kind, task.task, task.draft)
               b == [c EXCEPT !.ops = Append(@, o), !.msgs = Append(@, NewMsg),
                              !.status = IF c.snapshot THEN "queued" ELSE "waiting_content",
                              !.error = "none", !.automatic = FALSE]
               d == unlease(write_record(b))
    <2>1. Put(r.chat, d)
        BY <1>4 DEF append
    <2>2. CASE r.chat \in DOMAIN chats
        <3>1. Row(c)
            BY <2>2 DEF IInv, Rows
        <3>2. DOMAIN b = DOMAIN c /\ b.ops = Append(c.ops, o) /\ b.calls = c.calls
            BY <3>1 DEF Row
        <3> HIDE DEF b, o
        <3>3. Opens(chats, chats', r.chat)
            BY <2>1, <2>2, <3>2, AppendOpens
        <3>4. r.chat \in 1..MaxChats
            BY <1>2, <2>2, AiChatAssumption
        <3> QED BY <1>1, <3>3, <3>4, OpenStep
    <2>3. CASE r.chat \notin DOMAIN chats
        <3> HIDE DEF d
        <3> QED BY <1>1, <2>1, <2>3, OnePut, QuietStep DEF Quiet
    <2> QED BY <2>2, <2>3
<1> QED BY <1>3, <1>4 DEF Execute

-----------------------------------------------------------------------------
(* A call that is bought, and its price.                                   *)

\* begin records one call, for a stage the attempt has not called yet.
LEMMA BeginBuys ==
    ASSUME IInv, NEW w \in Workers, worker[w] # Idle, startable(w),
           Put(worker[w].chat, begin(Mine(w), CallPhase(w)))
    PROVE  Buys(chats, chats', worker[w].chat, CallPhase(w))
<1> DEFINE c == Mine(w)
           ph == CallPhase(w)
           n == Len(c.calls) + 1
           started == [attempt |-> Attempt(c), phase |-> ph, status |-> "started",
                       usage |-> FALSE, day |-> day, actual |-> Unknown]
           b == [c EXCEPT !.calls = Append(@, started), !.status = ph, !.error = "none"]
           d == begin(c, ph)
<1>1. worker[w].chat \in DOMAIN chats /\ Row(c)
    BY HeldRow
<1>2. /\ {"attempt", "phase", "actual"} \subseteq DOMAIN started
      /\ started.attempt = Len(c.ops) /\ started.phase = ph /\ started.actual = Unknown
    BY DEF Attempt
<1>3. DOMAIN b = DOMAIN c /\ b.ops = c.ops /\ b.calls = Append(c.calls, started)
    BY <1>1 DEF Row
<1>4. d = write_progress(set_attempt(b, "streaming"), c.public)
    BY DEF begin
<1>5. \A k \in DOMAIN c.calls : c.calls[k].attempt = Len(c.ops) => c.calls[k].phase # ph
    BY DEF startable, Attempt
<1>6. c = chats[worker[w].chat]
    BY DEF Mine
<1> HIDE DEF c, ph, started, b, d
<1>7. /\ Sequence(b.calls) /\ DOMAIN b.calls = DOMAIN c.calls \cup {n}
      /\ \A k \in DOMAIN c.calls : b.calls[k] = c.calls[k]
      /\ b.calls[n] = started
    BY <1>1, <1>3, Appended DEF Row
<1>8. Row(b)
    BY <1>1, <1>2, <1>3, <1>7 DEF Row
<1>9. Keeps(b, set_attempt(b, "streaming"))
    BY <1>8, KeepsSelf, HelpersKeep
<1>10. Keeps(b, d)
    BY <1>4, <1>9, HelpersKeep
<1>11. Put(worker[w].chat, d)
    BY DEF d, c, ph
<1>12. /\ chats' = [i \in DOMAIN chats |-> chats'[i]] /\ chats'[worker[w].chat] = d
       /\ \A i \in DOMAIN chats \ {worker[w].chat} : chats'[i] = chats[i]
    BY Zenon, <1>1, <1>11 DEF Put
<1>13. Sequence(chats') /\ DOMAIN chats' = DOMAIN chats
    BY <1>12, SamePositions DEF IInv
<1>14. /\ Row(d) /\ Len(d.ops) = Len(c.ops) /\ DOMAIN d.calls = DOMAIN c.calls \cup {n}
       /\ \A k \in DOMAIN c.calls : SameCall(c.calls[k], d.calls[k])
       /\ d.calls[n].attempt = Len(c.ops) /\ d.calls[n].phase = ph /\ d.calls[n].actual = Unknown
    BY <1>2, <1>3, <1>7, <1>10 DEF Keeps, SameCalls, SameCall
<1>15. Buys(chats, chats', worker[w].chat, ph)
    BY Zenon, <1>1, <1>5, <1>6, <1>12, <1>13, <1>14 DEF Buys
<1> QED BY <1>15 DEF ph

\* That is Buy of PaidWork, and its worker waits for a call of its own.
LEMMA BuyStep ==
    ASSUME IInv, NEW w \in Workers, worker[w] # Idle, startable(w),
           Put(worker[w].chat, begin(Mine(w), CallPhase(w))),
           worker' = [worker EXCEPT ![w].pc = "asked", ![w].call = Len(Mine(w).calls) + 1]
    PROVE  /\ IInv'
           /\ \E c \in 1..MaxChats, s \in {"generating", "verifying"} : Money!Buy(c, s)
<1> DEFINE c == worker[w].chat
           ph == CallPhase(w)
           n == Len(Mine(w).calls) + 1
           r == <<c, attemptsMade(chats)[c], ph>>
<1>1. Buys(chats, chats', c, ph)
    BY BeginBuys
<1>2. c \in DOMAIN chats /\ Placed(worker[w], chats) /\ DOMAIN worker = Workers /\ Mine(w) = chats[c]
    BY HeldRow DEF IInv, Working, Mine
<1>3. Sequence(chats) /\ Len(chats) \in Nat /\ DOMAIN chats = 1..Len(chats) /\ Len(chats) <= MaxChats
    BY SequenceFacts DEF IInv
<1>4. c \in 1..MaxChats
    BY <1>2, <1>3, AiChatAssumption
<1>5. ph \in {"generating", "verifying"}
    BY DEF CallPhase
<1>6. /\ DOMAIN worker' = Workers
      /\ DOMAIN worker'[w] = DOMAIN worker[w] /\ worker'[w].chat = c
      /\ worker'[w].pc = "asked" /\ worker'[w].call = n
      /\ \A v \in Workers \ {w} : worker'[v] = worker[v]
    BY <1>2 DEF Placed
<1> HIDE DEF ph, c, n
<1>7. /\ Rows(chats')
      /\ attemptsMade(chats') = attemptsMade(chats) /\ attemptsMade(chats)[c] > 0
      /\ r \notin requestsSent(chats)
      /\ requestsSent(chats') = requestsSent(chats) \cup {r}
      /\ billOf(chats') = [q \in requestsSent(chats') |->
                               IF q = r THEN Unknown ELSE billOf(chats)[q]]
    BY <1>1, <1>4, BuysMoney DEF IInv
<1>8. Money!Buy(c, ph)
    BY <1>7 DEF Money!Buy
<1>9. Unbilled(chats, chats')
    BY <1>1 DEF Buys, Unbilled, SameCall
<1>10. n \notin DOMAIN chats[c].calls
    BY <1>2, SequenceFacts DEF IInv, Rows, Row, n
<1>11. n \in DOMAIN chats'[c].calls /\ chats'[c].calls[n].actual = Unknown /\ c \in DOMAIN chats'
    BY <1>1, <1>2 DEF Buys, n
<1>12. ASSUME NEW v \in Workers PROVE Working(worker'[v], chats')
    <2>1. CASE v = w
        BY <1>2, <1>6, <1>11, <2>1 DEF Working, Placed, Waits
    <2>2. CASE v # w
        BY <1>6, <1>9, <2>2 DEF IInv, Working, Placed, Waits, Unbilled
    <2> QED BY <2>1, <2>2
<1>13. ASSUME NEW v \in Workers \ {w}, worker[v].pc = "asked", worker[v].chat = c
       PROVE  worker[v].call # n
    BY <1>10, <1>13 DEF IInv, Working, Waits, Idle
<1>14. Apart'
    BY <1>6, <1>13 DEF IInv, Apart
<1>15. Sequence(chats') /\ Len(chats') = Len(chats)
    <2>1. Sequence(chats') /\ DOMAIN chats' = DOMAIN chats
        BY <1>1 DEF Buys
    <2>2. Len(chats') \in Nat /\ DOMAIN chats' = 1..Len(chats')
        BY <2>1, SequenceFacts
    <2> QED BY <1>3, <2>1, <2>2
<1>16. IInv'
    BY <1>3, <1>6, <1>7, <1>12, <1>14, <1>15 DEF IInv
<1> QED BY <1>4, <1>5, <1>8, <1>16

\* run_call buys, or asks nothing.
LEMMA BeginStep ==
    ASSUME IInv, NEW w \in Workers, begin_call(w)
    PROVE  /\ IInv'
           /\ \/ Quiet
              \/ \E c \in 1..MaxChats, s \in {"generating", "verifying"} : Money!Buy(c, s)
<1>1. worker[w].pc = "call" /\ worker[w] # Idle
    BY DEF begin_call, Idle
<1>2. \/ UNCHANGED chats /\ (Quit(w) \/ \E e : Fails(w, e))
      \/ /\ startable(w)
         /\ Put(worker[w].chat, begin(Mine(w), CallPhase(w)))
         /\ worker' = [worker EXCEPT ![w].pc = "asked", ![w].call = Len(Mine(w).calls) + 1]
    BY DEF begin_call
<1>3. CASE UNCHANGED chats /\ (Quit(w) \/ \E e : Fails(w, e))
    BY <1>1, <1>3, BeginQuiet, QuietStep DEF Quiet
<1> QED BY <1>1, <1>2, <1>3, BuyStep

\* settle writes the bill of the call its worker waits for.
LEMMA SettleSettles ==
    ASSUME IInv, NEW w \in Workers, worker[w].pc = "asked", NEW a,
           Put(worker[w].chat, [Mine(w) EXCEPT !.calls[worker[w].call].actual = a])
    PROVE  Settles(chats, chats', worker[w].chat, worker[w].call, a)
<1> DEFINE c == Mine(w)
           k == worker[w].call
           calls == [c.calls EXCEPT ![k].actual = a]
           d == [c EXCEPT !.calls[k].actual = a]
<1>1. worker[w] # Idle
    BY DEF Idle
<1>2. worker[w].chat \in DOMAIN chats /\ Row(c) /\ c = chats[worker[w].chat]
    BY <1>1, HeldRow DEF Mine
<1>3. k \in DOMAIN c.calls
    BY <1>1 DEF IInv, Working, Waits, Mine
<1>4. DOMAIN d = DOMAIN c /\ d.ops = c.ops /\ d.calls = calls
    BY <1>2 DEF Row
<1>5. /\ calls = [l \in DOMAIN c.calls |-> calls[l]]
      /\ \A l \in DOMAIN c.calls \ {k} : calls[l] = c.calls[l]
      /\ calls[k] = [c.calls[k] EXCEPT !.actual = a]
    BY <1>3
<1>6. /\ DOMAIN calls[k] = DOMAIN c.calls[k] /\ calls[k].actual = a
      /\ calls[k].attempt = c.calls[k].attempt /\ calls[k].phase = c.calls[k].phase
    BY Zenon, <1>2, <1>3, <1>5 DEF Row
<1>7. Put(worker[w].chat, d)
    OBVIOUS
<1> HIDE DEF c, k, calls, d
<1>8. Sequence(calls) /\ DOMAIN calls = DOMAIN c.calls
    BY <1>2, <1>5, SamePositions DEF Row
<1>9. Row(d)
    <2>1. ASSUME NEW l \in DOMAIN c.calls
          PROVE  {"attempt", "phase", "actual"} \subseteq DOMAIN calls[l]
        <3>1. DOMAIN calls[l] = DOMAIN c.calls[l]
            BY <1>5, <1>6
        <3> QED BY <1>2, <3>1 DEF Row
    <2>2. {"ops", "calls"} \subseteq DOMAIN d /\ Sequence(d.ops)
        BY <1>2, <1>4 DEF Row
    <2> QED BY <1>4, <1>8, <2>1, <2>2 DEF Row
<1>10. /\ chats' = [i \in DOMAIN chats |-> chats'[i]] /\ chats'[worker[w].chat] = d
       /\ \A i \in DOMAIN chats \ {worker[w].chat} : chats'[i] = chats[i]
    BY Zenon, <1>2, <1>7 DEF Put
<1>11. Sequence(chats') /\ DOMAIN chats' = DOMAIN chats
    BY <1>10, SamePositions DEF IInv
<1>12. Settles(chats, chats', worker[w].chat, k, a)
    BY Zenon, <1>2, <1>3, <1>4, <1>5, <1>6, <1>8, <1>9, <1>10, <1>11 DEF Settles
<1> QED BY <1>12 DEF k

\* That is Learn of PaidWork: no other worker waits for the call, and it had no bill.
LEMMA LearnStep ==
    ASSUME IInv, NEW w \in Workers, settle(w)
    PROVE  IInv' /\ \E r \in requestsSent(chats) : Money!Learn(r)
<1> DEFINE c == worker[w].chat
           k == worker[w].call
           r == Request(chats, c, k)
<1>1. worker[w].pc = "asked" /\ worker[w] # Idle /\ Goto(w, "usage")
    BY DEF settle, Idle
<1>2. PICK a \in Actuals : Put(c, [Mine(w) EXCEPT !.calls[k].actual = a])
    BY DEF settle
<1>3. Settles(chats, chats', c, k, a)
    BY <1>1, <1>2, SettleSettles
<1>4. /\ c \in DOMAIN chats /\ k \in DOMAIN chats[c].calls /\ chats[c].calls[k].actual = Unknown
      /\ Placed(worker[w], chats) /\ DOMAIN worker = Workers
    BY <1>1 DEF IInv, Working, Placed, Waits
<1>5. a # Unknown
    BY AiChatAssumption
<1>6. /\ DOMAIN worker' = Workers
      /\ Placed(worker'[w], chats) /\ worker'[w].pc = "usage"
      /\ \A v \in Workers \ {w} : worker'[v] = worker[v]
    BY <1>1, <1>4 DEF Goto, Placed
<1>7. /\ Rows(chats')
      /\ attemptsMade(chats') = attemptsMade(chats)
      /\ r \in requestsSent(chats) /\ requestsSent(chats') = requestsSent(chats)
      /\ billOf(chats') = [billOf(chats) EXCEPT ![r] = a]
      /\ billOf(chats)[r] = Unknown
    <2>1. Rows(chats)
        BY DEF IInv
    <2> HIDE DEF c, k
    <2> QED BY <1>3, <1>4, <2>1, SettlesMoney
<1>8. Money!Learn(r)
    <2> HIDE DEF r
    <2>1. billOf(chats')[r] = a
        BY <1>7 DEF billOf
    <2> QED BY <1>5, <1>7, <2>1 DEF Money!Learn
<1>9. ASSUME NEW v \in Workers PROVE Working(worker'[v], chats')
    <2>1. DOMAIN chats' = DOMAIN chats
        BY <1>3 DEF Settles
    <2>2. CASE v = w
        BY <1>6, <2>1, <2>2 DEF Working, Placed, Waits
    <2>3. CASE v # w
        <3>1. worker'[v] = worker[v] /\ Working(worker[v], chats)
            BY <1>6, <2>3 DEF IInv
        <3>2. CASE worker[v].pc # "asked"
            BY <2>1, <3>1, <3>2 DEF Working, Placed, Waits
        <3>3. CASE worker[v].pc = "asked"
            <4>1. worker[v].chat = c => worker[v].call # k
                BY <1>1, <2>3, <3>3 DEF IInv, Apart
            <4>2. Placed(worker[v], chats) /\ Waits(worker[v], chats)
                BY <3>1, <3>3 DEF Working, Idle
            <4> DEFINE cv == worker[v].chat
                       kv == worker[v].call
            <4>3. /\ cv \in DOMAIN chats /\ kv \in DOMAIN chats[cv].calls
                  /\ chats[cv].calls[kv].actual = Unknown
                BY <3>3, <4>2 DEF Placed, Waits
            <4> HIDE DEF cv, kv
            <4>4. /\ kv \in DOMAIN chats'[cv].calls
                  /\ chats'[cv].calls[kv].actual = Unknown
                <5>1. CASE cv = c
                    BY <1>3, <4>1, <4>3, <5>1 DEF Settles, cv, kv
                <5>2. CASE cv # c
                    BY <1>3, <4>3, <5>2 DEF Settles
                <5> QED BY <5>1, <5>2
            <4> QED BY <2>1, <3>1, <4>2, <4>4 DEF Working, Placed, Waits, cv, kv
        <3> QED BY <3>2, <3>3
    <2> QED BY <2>2, <2>3
<1>10. Apart'
    BY <1>6 DEF IInv, Apart
<1>11. Sequence(chats') /\ Len(chats') = Len(chats)
    <2>1. Sequence(chats') /\ DOMAIN chats' = DOMAIN chats
        BY <1>3 DEF Settles
    <2> QED BY <2>1, SequenceFacts DEF IInv
<1>12. IInv'
    BY <1>6, <1>7, <1>9, <1>10, <1>11 DEF IInv
<1> QED BY <1>7, <1>8, <1>12

-----------------------------------------------------------------------------
(* The refinement.                                                         *)

\* What a step is to the money: nothing, an attempt, a purchase or a price.
Priced == \/ UNCHANGED <<attemptsMade(chats), requestsSent(chats), billOf(chats)>>
          \/ Money!Next

\* A quiet step is no step of the money.
LEMMA QuietPriced ==
    ASSUME IInv, Quiet
    PROVE  IInv' /\ Priced
<1>1. IInv'
    BY QuietStep DEF Quiet
<1>2. /\ attemptsMade(chats') = attemptsMade(chats)
      /\ requestsSent(chats') = requestsSent(chats)
      /\ billOf(chats') = billOf(chats)
    BY SilentStutters DEF Quiet, IInv
<1> QED BY <1>1, <1>2 DEF Priced

\* Commands open attempts or leave the money alone.
LEMMA CommandPriced ==
    ASSUME IInv, Command
    PROVE  IInv' /\ Priced
<1>1. ASSUME NEW op, NEW k, NEW a, check_start(op, k, a) PROVE Quiet
    BY <1>1, NoPut, WorkersRest DEF check_start, Quiet
<1>2. ASSUME NEW op, NEW k, NEW c, check_enqueue(op, k, c) PROVE Quiet
    BY <1>2, NoPut, WorkersRest DEF check_enqueue, Quiet
<1>3. ASSUME NEW op, Execute(op) PROVE IInv' /\ Priced
    <2>1. IInv' /\ (Quiet \/ \E c \in 1..MaxChats : Money!Open(c))
        BY <1>3, ExecuteStep
    <2>2. (\E c \in 1..MaxChats : Money!Open(c)) => Priced
        BY DEF Priced, Money!Next
    <2> QED BY <2>1, <2>2, QuietPriced
<1>4. ASSUME NEW c \in DOMAIN chats, stop(c) PROVE Quiet
    BY <1>4, StopQuiet
<1>5. CASE open_chats
    BY <1>5, OpenChatsQuiet, QuietPriced
<1> QED BY <1>1, <1>2, <1>3, <1>4, <1>5, QuietPriced DEF Command

\* Workers buy, learn a price, or leave the money alone.
LEMMA WorkPriced ==
    ASSUME IInv, NEW w \in Workers, Work(w) \/ publish(w) \/ Crash(w)
    PROVE  IInv' /\ Priced
<1>1. CASE begin_call(w)
    <2>1. /\ IInv'
          /\ \/ Quiet
             \/ \E c \in 1..MaxChats, s \in {"generating", "verifying"} : Money!Buy(c, s)
        BY <1>1, BeginStep
    <2>2. (\E c \in 1..MaxChats, s \in {"generating", "verifying"} : Money!Buy(c, s)) => Priced
        BY DEF Priced, Money!Next
    <2> QED BY <2>1, <2>2, QuietPriced
<1>2. CASE settle(w)
    <2>1. IInv' /\ \E r \in requestsSent(chats) : Money!Learn(r)
        BY <1>2, LearnStep
    <2> QED BY <2>1 DEF Priced, Money!Next
<1>3. CASE ~begin_call(w) /\ ~settle(w)
    BY <1>3, ClaimQuiet, ResolveQuiet, UsageQuiet, PublishQuiet, FinishCallQuiet, FailCallQuiet,
       UncheckedQuiet, EndOfClaimQuiet, CrashQuiet, QuietPriced DEF Work
<1> QED BY <1>1, <1>2, <1>3

\* Every step keeps the invariant and is a step of PaidWork or none.
LEMMA NextPriced ==
    ASSUME IInv, [Next]_vars
    PROVE  IInv' /\ Priced
<1>1. CASE Setting
    BY <1>1, SettingQuiet, QuietPriced
<1>2. ASSUME NEW c \in DOMAIN chats, LeaseExpires(c) \/ LeaseOverrun(c) PROVE IInv' /\ Priced
    BY <1>2, LeaseQuiet, QuietPriced
<1>3. CASE UNCHANGED vars
    BY <1>3, NoPut, WorkersRest, QuietPriced DEF vars, Quiet
<1> QED BY <1>1, <1>2, <1>3, CommandPriced, WorkPriced DEF Next

\* Before the first chat nothing is bought.
LEMMA InitPriced ==
    ASSUME Init
    PROVE  Money!Init
<1>1. DOMAIN chats = {}
    BY DEF Init
<1>2. attemptsMade(chats) = [c \in 1..MaxChats |-> 0]
    BY <1>1 DEF attemptsMade
<1>3. requestsSent(chats) = {}
    BY <1>1, RequestSent
<1>4. billOf(chats) = <<>>
    BY <1>3 DEF billOf
<1> QED BY <1>2, <1>3, <1>4 DEF Money!Init

\* begin and settle, however many workers, chats and commands there are: for
\* each attempt a command opened, the provider is asked for a draft and for a
\* check at most once, only for the newest attempt of a chat, and the price of
\* a request is written once and never changed, whatever the order of repeated
\* commands, claims, expired leases, deaths and late answers.
THEOREM EveryCallPaidOnce == Spec => PaidOnce
<1>1. Init => IInv
    BY InitIInv
<1>2. IInv /\ [Next]_vars => IInv' /\ Priced
    BY NextPriced
<1>3. Init => Money!Init
    BY InitPriced
<1>4. Priced => [Money!Next]_(Money!vars)
    BY DEF Priced, Money!vars
<1> QED BY <1>1, <1>2, <1>3, <1>4, PTL DEF Spec, PaidOnce, Money!Spec
=============================================================================
