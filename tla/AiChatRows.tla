----------------------------- MODULE AiChatRows -----------------------------
(***************************************************************************)
(* What the transactions leave of a chat's row: a row stays good, its      *)
(* projection exact, and workers that do not write it do not notice.       *)
(***************************************************************************)
EXTENDS AiChat, TLAPS

-----------------------------------------------------------------------------
(* Sequences whose elements have no common type.                           *)

Sequence(s) == s \in Seq({s[i] : i \in DOMAIN s})

\* The positions of a sequence.
LEMMA SequenceFacts ==
    ASSUME NEW s, Sequence(s)
    PROVE  Len(s) \in Nat /\ DOMAIN s = 1..Len(s)
BY DEF Sequence

\* A member of Seq(S), for any S, is a sequence.
LEMMA IsSequence ==
    ASSUME NEW S, NEW s \in Seq(S)
    PROVE  Sequence(s)
<1> DEFINE T == {s[i] : i \in DOMAIN s}
<1>1. Len(s) \in Nat /\ DOMAIN s = 1..Len(s) /\ s \in [1..Len(s) -> S]
    OBVIOUS
<1>2. s \in [1..Len(s) -> T]
    BY <1>1
<1> HIDE DEF T
<1>3. s \in Seq(T)
    BY <1>1, <1>2
<1> QED BY <1>3 DEF Sequence, T

\* A function on the positions of a sequence is a sequence of that length.
LEMMA SamePositions ==
    ASSUME NEW s, Sequence(s), NEW t, t = [i \in DOMAIN s |-> t[i]]
    PROVE  Sequence(t) /\ Len(t) = Len(s) /\ DOMAIN t = DOMAIN s
<1> DEFINE T == {t[i] : i \in DOMAIN t}
<1>1. Len(s) \in Nat /\ DOMAIN s = 1..Len(s)
    BY SequenceFacts
<1>2. DOMAIN t = 1..Len(s) /\ t \in [1..Len(s) -> T]
    BY <1>1
<1> HIDE DEF T
<1>3. t \in Seq(T)
    BY <1>1, <1>2
<1>4. Len(t) \in Nat /\ DOMAIN t = 1..Len(t)
    BY <1>3
<1>5. 1..Len(t) = 1..Len(s)
    BY <1>2, <1>4
<1>6. Len(t) = Len(s)
    BY <1>1, <1>4, <1>5
<1> QED BY <1>1, <1>2, <1>3, <1>6 DEF Sequence, T

\* What Append returns.
LEMMA Appended ==
    ASSUME NEW s, Sequence(s), NEW x
    PROVE  /\ Sequence(Append(s, x))
           /\ Len(Append(s, x)) = Len(s) + 1
           /\ DOMAIN Append(s, x) = DOMAIN s \cup {Len(s) + 1}
           /\ \A i \in DOMAIN s : Append(s, x)[i] = s[i]
           /\ Append(s, x)[Len(s) + 1] = x
<1> DEFINE S == {s[i] : i \in DOMAIN s} \cup {x}
<1>1. s \in Seq(S)
    BY DEF Sequence
<1>2. Len(s) \in Nat /\ DOMAIN s = 1..Len(s)
    BY SequenceFacts
<1>3. /\ Append(s, x) \in Seq(S)
      /\ Len(Append(s, x)) = Len(s) + 1
      /\ \A i \in 1..Len(s) : Append(s, x)[i] = s[i]
      /\ Append(s, x)[Len(s) + 1] = x
    BY <1>1
<1>4. Sequence(Append(s, x))
    BY Zenon, <1>3, IsSequence
<1>5. DOMAIN Append(s, x) = 1..(Len(s) + 1)
    BY <1>3, <1>4, SequenceFacts
<1> QED BY <1>2, <1>3, <1>4, <1>5

-----------------------------------------------------------------------------
(* The inductive invariant: the chats.                                     *)

ChatFields == {"status", "snapshot", "automatic", "error", "ops", "msgs", "public", "calls",
               "lease", "expired", "claims", "until", "offpeak"}
OpFields == {"id", "kind", "task", "draft"}
MsgFields == {"status", "content"}
CallFields == {"attempt", "phase", "status", "usage", "day", "actual"}

\* The shape of a chat record: one message and one shown text per operation.
Shaped(c) ==
    /\ DOMAIN c = ChatFields
    /\ Sequence(c.ops) /\ Len(c.ops) > 0 /\ Sequence(c.msgs) /\ Sequence(c.calls)
    /\ DOMAIN c.msgs = DOMAIN c.ops
    /\ \A i \in DOMAIN c.ops : DOMAIN c.ops[i] = OpFields /\ DOMAIN c.msgs[i] = MsgFields
    /\ \A k \in DOMAIN c.calls : DOMAIN c.calls[k] = CallFields
    /\ c.lease \in Nat /\ c.claims \in Nat

\* Call k completed.
Done(c, k) == k \in DOMAIN c.calls /\ c.calls[k].status = "completed"

\* A draft, and the text of a complete summary, come from calls that completed.
Sourced(c) ==
    \A i \in DOMAIN c.ops : c.ops[i].task = "summary" =>
        /\ c.ops[i].draft # 0 => Done(c, c.ops[i].draft)
        /\ c.msgs[i].status = "complete" /\ c.msgs[i].content # 0 => Done(c, c.msgs[i].content)

\* A chat whose newest message is complete is nobody's work.
Rested(c) == c.msgs[Len(c.ops)].status = "complete" => ~pending(c.status) /\ c.lease = 0

\* A completed call was accounted for.
Accounted(c) == \A k \in DOMAIN c.calls : c.calls[k].status = "completed" => c.calls[k].usage = TRUE

Exact(c) == c.public = into_public_view(c)

Good(c) == Shaped(c) /\ Sourced(c) /\ Rested(c) /\ Accounted(c) /\ Exact(c)

-----------------------------------------------------------------------------
(* What a transaction leaves of a chat.                                    *)

\* c is b with its newest message, and the marks of calls that did not
\* complete, written anew; the projection is left open.
Touched(b, c) ==
    /\ DOMAIN c = ChatFields /\ c.ops = b.ops /\ c.claims = b.claims
    /\ Sequence(c.msgs) /\ DOMAIN c.msgs = DOMAIN b.ops
    /\ \A i \in DOMAIN b.ops : /\ DOMAIN c.msgs[i] = MsgFields
                               /\ i # Len(b.ops) => c.msgs[i] = b.msgs[i]
    /\ Sequence(c.calls) /\ DOMAIN c.calls = DOMAIN b.calls
    /\ \A k \in DOMAIN b.calls :
           /\ DOMAIN c.calls[k] = CallFields
           /\ c.calls[k].status = "completed" <=> b.calls[k].status = "completed"
           /\ b.calls[k].usage = TRUE => c.calls[k].usage = TRUE

\* What a worker that did not write relies on: only the lease l is given up,
\* only attempt n gets a draft and only call k completes.
Spares(c, d, l, n, k) ==
    /\ DOMAIN c.ops \subseteq DOMAIN d.ops
    /\ \A i \in DOMAIN c.ops :
           /\ d.ops[i].id = c.ops[i].id /\ d.ops[i].task = c.ops[i].task
           /\ i # n \/ c.ops[i].draft # 0 => d.ops[i].draft = c.ops[i].draft
    /\ c.claims <= d.claims
    /\ DOMAIN d.ops = DOMAIN c.ops => d.lease = c.lease \/ c.lease \in {0, l}
    /\ \A j \in DOMAIN c.calls :
           /\ j \in DOMAIN d.calls
           /\ c.calls[j].usage = TRUE => d.calls[j].usage = TRUE
           /\ d.calls[j].status = "completed" => c.calls[j].status = "completed" \/ j = k

\* The positions of a chat.
LEMMA Newest ==
    ASSUME NEW c, Shaped(c)
    PROVE  Len(c.ops) \in DOMAIN c.ops /\ 0 \notin DOMAIN c.ops /\ 0 \notin DOMAIN c.calls
BY SequenceFacts DEF Shaped

\* A good chat is its own rewriting.
LEMMA TouchedSelf ==
    ASSUME NEW c, Good(c)
    PROVE  Touched(c, c)
BY DEF Good, Shaped, Touched

\* Nobody is disturbed when nothing changes.
LEMMA SparesSelf ==
    ASSUME NEW c, Good(c), NEW l, NEW n, NEW k
    PROVE  Spares(c, c, l, n, k)
BY DEF Good, Shaped, Spares

\* A rewriting is a good chat when its projection is exact and its newest
\* message, if complete, ends the work and comes from a completed call.
LEMMA TouchedGood ==
    ASSUME NEW b, Good(b), NEW d, Touched(b, d), Exact(d), d.lease \in {0, b.lease},
           d.msgs[Len(b.ops)].status = "complete" =>
               /\ ~pending(d.status) /\ d.lease = 0
               /\ \/ d.msgs[Len(b.ops)] = b.msgs[Len(b.ops)]
                  \/ b.ops[Len(b.ops)].task # "summary"
                  \/ Done(b, d.msgs[Len(b.ops)].content)
    PROVE  Good(d) /\ Spares(b, d, b.lease, 0, 0) /\ (d.lease = b.lease => Spares(b, d, 0, 0, 0))
<1>1. Shaped(d)
    BY DEF Good, Shaped, Touched
<1>2. \A k : Done(b, k) => Done(d, k)
    BY DEF Touched, Done
<1>3. Sourced(d)
    <2>1. ASSUME NEW i \in DOMAIN d.ops, d.ops[i].task = "summary"
          PROVE  /\ d.ops[i].draft # 0 => Done(b, d.ops[i].draft)
                 /\ d.msgs[i].status = "complete" /\ d.msgs[i].content # 0 => Done(b, d.msgs[i].content)
        BY <2>1 DEF Good, Sourced, Touched
    <2> QED BY <1>2, <2>1 DEF Sourced
<1>4. Rested(d) /\ Accounted(d)
    BY DEF Good, Rested, Accounted, Touched
<1>5. /\ Spares(b, d, b.lease, 0, 0)
      /\ d.lease = b.lease => Spares(b, d, 0, 0, 0)
    BY DEF Good, Shaped, Touched, Spares
<1> QED BY <1>1, <1>3, <1>4, <1>5 DEF Good

-----------------------------------------------------------------------------
(* The helpers that write one part of the record.                          *)

\* d is c but for the status, the lease and what no reader is shown.
Beside(c, d) == /\ DOMAIN d = ChatFields /\ d.ops = c.ops /\ d.msgs = c.msgs /\ d.public = c.public
                /\ d.calls = c.calls /\ d.claims = c.claims

\* The status and the error of a chat.
LEMMA StatusIs ==
    ASSUME NEW c, DOMAIN c = ChatFields, NEW s, NEW e
    PROVE  /\ Beside(c, [c EXCEPT !.status = s])
           /\ [c EXCEPT !.status = s].status = s /\ [c EXCEPT !.status = s].lease = c.lease
           /\ Beside(c, [c EXCEPT !.error = e])
           /\ [c EXCEPT !.error = e].status = c.status /\ [c EXCEPT !.error = e].lease = c.lease
           /\ Beside(c, [c EXCEPT !.status = s, !.error = e])
           /\ [c EXCEPT !.status = s, !.error = e].status = s
           /\ [c EXCEPT !.status = s, !.error = e].lease = c.lease
<1>1. /\ Beside(c, [c EXCEPT !.status = s])
      /\ [c EXCEPT !.status = s].status = s /\ [c EXCEPT !.status = s].lease = c.lease
    BY DEF Beside, ChatFields
<1>2. /\ Beside(c, [c EXCEPT !.error = e])
      /\ [c EXCEPT !.error = e].status = c.status /\ [c EXCEPT !.error = e].lease = c.lease
    BY DEF Beside, ChatFields
<1>3. /\ Beside(c, [c EXCEPT !.status = s, !.error = e])
      /\ [c EXCEPT !.status = s, !.error = e].status = s
      /\ [c EXCEPT !.status = s, !.error = e].lease = c.lease
    BY DEF Beside, ChatFields
<1> QED BY <1>1, <1>2, <1>3

\* d is c but for what no reader is shown.
Hidden(c, d) == Beside(c, d) /\ d.status = c.status /\ d.lease = c.lease

\* The schedule, the expiry and the snapshot are.
LEMMA HiddenIs ==
    ASSUME NEW c, DOMAIN c = ChatFields
    PROVE  /\ Hidden(c, runnable_now(c)) /\ Hidden(c, prioritize(c))
           /\ \A x : /\ Hidden(c, [c EXCEPT !.expired = x]) /\ Hidden(c, [c EXCEPT !.offpeak = x])
                    /\ Hidden(c, [c EXCEPT !.snapshot = x])
<1>1. Hidden(c, runnable_now(c))
    BY DEF Hidden, Beside, ChatFields, runnable_now
<1>2. Hidden(c, prioritize(c))
    BY DEF Hidden, Beside, ChatFields, runnable_now, prioritize
<1>3. ASSUME NEW x
      PROVE  /\ Hidden(c, [c EXCEPT !.expired = x]) /\ Hidden(c, [c EXCEPT !.offpeak = x])
             /\ Hidden(c, [c EXCEPT !.snapshot = x])
    BY DEF Hidden, Beside, ChatFields
<1> QED BY <1>1, <1>2, <1>3

\* The lease is given up.
LEMMA UnleaseIs ==
    ASSUME NEW c, DOMAIN c = ChatFields
    PROVE  Beside(c, unlease(c)) /\ unlease(c).status = c.status /\ unlease(c).lease = 0
BY DEF Beside, ChatFields, unlease

\* Nothing of this is seen by a reader or another worker.
LEMMA TouchedBeside ==
    ASSUME NEW b, NEW c, Touched(b, c), NEW d, Beside(c, d)
    PROVE  Touched(b, d)
BY DEF Touched, Beside

\* A good chat stays good beside.
LEMMA BesideGood ==
    ASSUME NEW c, Good(c), NEW d, Beside(c, d), d.status = c.status, d.lease = c.lease
    PROVE  Good(d) /\ Spares(c, d, 0, 0, 0) /\ d.ops = c.ops
<1>1. Touched(c, d)
    BY TouchedSelf, TouchedBeside
<1>2. Exact(d)
    BY DEF Good, Exact, into_public_view, Beside
<1> QED BY <1>1, <1>2, TouchedGood DEF Good, Rested, Beside

\* The newest message is written anew.
LEMMA MsgsTouch ==
    ASSUME NEW b, NEW c, Touched(b, c), NEW msgs, Sequence(msgs), DOMAIN msgs = DOMAIN b.ops,
           DOMAIN msgs[Len(b.ops)] = MsgFields,
           \A i \in DOMAIN b.ops : i # Len(b.ops) => msgs[i] = c.msgs[i],
           NEW d, d = [c EXCEPT !.msgs = msgs]
    PROVE  /\ Touched(b, d) /\ d.status = c.status /\ d.lease = c.lease /\ d.public = c.public
           /\ d.msgs = msgs
<1>1. /\ DOMAIN d = ChatFields /\ d.ops = c.ops /\ d.claims = c.claims /\ d.msgs = msgs
      /\ d.calls = c.calls /\ d.status = c.status /\ d.lease = c.lease /\ d.public = c.public
    BY DEF ChatFields, Touched
<1> QED BY <1>1 DEF Touched

\* It takes a status.
LEMMA SetAttemptTouches ==
    ASSUME NEW b, Shaped(b), NEW c, Touched(b, c), NEW s, NEW d, d = set_attempt(c, s)
    PROVE  /\ Touched(b, d) /\ d.status = c.status /\ d.lease = c.lease /\ d.public = c.public
           /\ d.msgs[Len(b.ops)].status = s
           /\ d.msgs[Len(b.ops)].content = c.msgs[Len(b.ops)].content
<1> DEFINE n == Len(b.ops)
           msgs == [c.msgs EXCEPT ![n] = [c.msgs[n] EXCEPT !.status = s]]
<1>1. DOMAIN c = ChatFields /\ c.ops = b.ops /\ DOMAIN c.msgs = DOMAIN b.ops /\ n \in DOMAIN b.ops
      /\ Sequence(c.msgs) /\ DOMAIN c.msgs[n] = MsgFields
    BY Newest DEF Touched
<1>2. d = [c EXCEPT !.msgs = msgs]
    BY <1>1 DEF set_attempt, Attempt
<1>3. Sequence(msgs) /\ DOMAIN msgs = DOMAIN b.ops
    BY <1>1, SamePositions
<1>4. /\ DOMAIN msgs[n] = MsgFields /\ msgs[n].status = s /\ msgs[n].content = c.msgs[n].content
      /\ \A i \in DOMAIN b.ops : i # n => msgs[i] = c.msgs[i]
    BY <1>1 DEF MsgFields
<1> HIDE DEF msgs
<1> QED BY <1>2, <1>3, <1>4, MsgsTouch

\* Running calls are marked; completed ones are not.
LEMMA InterruptTouches ==
    ASSUME NEW b, NEW c, Touched(b, c), NEW d, d = interrupt(c)
    PROVE  /\ Touched(b, d) /\ d.status = c.status /\ d.lease = c.lease /\ d.public = c.public
           /\ d.msgs = c.msgs
<1> DEFINE mark == IF c.status = "cancelled" THEN "cancelled" ELSE "interrupted"
           calls == [k \in DOMAIN c.calls |-> IF c.calls[k].status # "started" THEN c.calls[k]
                                              ELSE [c.calls[k] EXCEPT !.status = mark]]
<1>1. d = [c EXCEPT !.calls = calls]
    BY DEF interrupt
<1>2. DOMAIN c = ChatFields /\ Sequence(c.calls) /\ DOMAIN c.calls = DOMAIN b.calls
    BY DEF Touched
<1>3. Sequence(calls) /\ DOMAIN calls = DOMAIN b.calls
    BY <1>2, SamePositions
<1>4. ASSUME NEW k \in DOMAIN b.calls
      PROVE  /\ DOMAIN calls[k] = CallFields
             /\ calls[k].status = "completed" <=> c.calls[k].status = "completed"
             /\ calls[k].usage = c.calls[k].usage
    BY <1>2 DEF Touched, CallFields
<1> HIDE DEF calls
<1>5. /\ DOMAIN d = ChatFields /\ d.ops = c.ops /\ d.claims = c.claims /\ d.msgs = c.msgs
      /\ d.calls = calls /\ d.status = c.status /\ d.lease = c.lease /\ d.public = c.public
    BY <1>1, <1>2 DEF ChatFields
<1> QED BY <1>3, <1>4, <1>5 DEF Touched

\* A record written whole shows what it holds.
LEMMA RecordExact ==
    ASSUME NEW b, NEW c, Touched(b, c), NEW d, d = write_record(c)
    PROVE  /\ Touched(b, d) /\ d.status = c.status /\ d.lease = c.lease /\ d.msgs = c.msgs
           /\ Exact(d)
<1> DEFINE view == into_public_view(c)
<1>1. d = [c EXCEPT !.public = view] /\ DOMAIN c = ChatFields
    BY DEF write_record, Touched
<1> HIDE DEF view
<1>2. /\ DOMAIN d = ChatFields /\ d.ops = c.ops /\ d.claims = c.claims /\ d.msgs = c.msgs
      /\ d.calls = c.calls /\ d.status = c.status /\ d.lease = c.lease /\ d.public = view
    BY <1>1 DEF ChatFields
<1>3. Exact(d)
    BY <1>2 DEF Exact, into_public_view, view
<1> QED BY <1>2, <1>3 DEF Touched

\* Progress keeps the projection exact while no complete message is reopened.
LEMMA ProgressExact ==
    ASSUME NEW b, Good(b), NEW c, Touched(b, c), NEW d, d = write_progress(c, b.public),
           b.msgs[Len(b.ops)].status = "complete" => c.msgs[Len(b.ops)].status = "complete"
    PROVE  /\ Touched(b, d) /\ d.status = c.status /\ d.lease = c.lease /\ d.msgs = c.msgs
           /\ Exact(d)
<1> DEFINE view == [i \in DOMAIN c.msgs |->
                       IF c.ops[i].task = "summary" /\ c.msgs[i].status # "complete"
                       THEN b.public[i] ELSE c.msgs[i].content]
<1>1. d = [c EXCEPT !.public = view] /\ DOMAIN c = ChatFields
    BY DEF write_progress, Touched
<1>2. ASSUME NEW i \in DOMAIN c.msgs, c.ops[i].task = "summary", c.msgs[i].status # "complete"
      PROVE  b.public[i] = c.ops[i].draft
    <2>1. i \in DOMAIN b.msgs /\ b.ops = c.ops /\ b.msgs[i].status # "complete"
        BY <1>2 DEF Touched, Good, Shaped
    <2> QED BY <1>2, <2>1 DEF Good, Exact, into_public_view
<1>3. view = into_public_view(c)
    BY <1>2 DEF into_public_view
<1> HIDE DEF view
<1>4. /\ DOMAIN d = ChatFields /\ d.ops = c.ops /\ d.claims = c.claims /\ d.msgs = c.msgs
      /\ d.calls = c.calls /\ d.status = c.status /\ d.lease = c.lease /\ d.public = view
    BY <1>1 DEF ChatFields
<1>5. Exact(d)
    BY <1>3, <1>4 DEF Exact, into_public_view
<1> QED BY <1>4, <1>5 DEF Touched

-----------------------------------------------------------------------------
(* The transactions, row by row.                                           *)

\* d is a good chat in place of c: workers but the one that gives up lease l,
\* writes the draft of attempt n or completes call k do not notice.
Replaces(c, d, l, n, k) ==
    Good(d) /\ Spares(c, d, l, n, k) /\ DOMAIN d.ops = DOMAIN c.ops

\* A rewriting that is good replaces the chat.
LEMMA TouchedReplaces ==
    ASSUME NEW b, Good(b), NEW d, Touched(b, d), Exact(d), d.lease \in {0, b.lease},
           d.msgs[Len(b.ops)].status = "complete" =>
               /\ ~pending(d.status) /\ d.lease = 0
               /\ \/ d.msgs[Len(b.ops)] = b.msgs[Len(b.ops)]
                  \/ b.ops[Len(b.ops)].task # "summary"
                  \/ Done(b, d.msgs[Len(b.ops)].content)
    PROVE  /\ Replaces(b, d, b.lease, 0, 0)
           /\ d.lease = b.lease => Replaces(b, d, 0, 0, 0)
BY TouchedGood DEF Replaces, Touched

\* Stop, a removed key and an expired lease end a chat in the same way.
LEMMA EndReplaces ==
    ASSUME NEW c, Good(c), NEW a, Beside(c, a), a.lease = c.lease, ~pending(a.status),
           NEW d, d = write_record(set_attempt(interrupt(a), "interrupted"))
    PROVE  Replaces(c, d, 0, 0, 0)
<1>1. Touched(c, a) /\ Shaped(c)
    BY TouchedSelf, TouchedBeside DEF Good
<1>2. PICK e : e = interrupt(a)
    OBVIOUS
<1>3. Touched(c, e) /\ e.status = a.status /\ e.lease = a.lease
    BY <1>1, <1>2, InterruptTouches
<1>4. PICK f : f = set_attempt(e, "interrupted")
    OBVIOUS
<1>5. /\ Touched(c, f) /\ f.status = e.status /\ f.lease = e.lease
      /\ f.msgs[Len(c.ops)].status = "interrupted"
    BY <1>1, <1>3, <1>4, SetAttemptTouches
<1>6. d = write_record(f)
    BY <1>2, <1>4
<1>7. /\ Touched(c, d) /\ d.status = f.status /\ d.lease = f.lease /\ d.msgs = f.msgs
      /\ Exact(d)
    BY <1>5, <1>6, RecordExact
<1> QED BY <1>3, <1>5, <1>7, TouchedReplaces

\* What is shown stays exact beside.
LEMMA BesideExact ==
    ASSUME NEW c, Exact(c), NEW d, Beside(c, d)
    PROVE  Exact(d)
BY DEF Exact, into_public_view, Beside

\* The end of a claim: the lease is given up and the chat may run at once.
LEMMA FreedTouches ==
    ASSUME NEW b, NEW c, Touched(b, c), Exact(c), NEW d, d = runnable_now(unlease(c))
    PROVE  Touched(b, d) /\ Exact(d) /\ d.status = c.status /\ d.lease = 0 /\ d.msgs = c.msgs
<1>1. PICK e : e = unlease(c)
    OBVIOUS
<1>2. Beside(c, e) /\ e.status = c.status /\ e.lease = 0
    BY <1>1, UnleaseIs DEF Touched
<1>3. d = runnable_now(e) /\ DOMAIN e = ChatFields
    BY <1>1, <1>2 DEF Beside
<1>4. Beside(e, d) /\ d.status = e.status /\ d.lease = e.lease
    BY <1>3, HiddenIs DEF Hidden
<1>5. Beside(c, d)
    BY <1>2, <1>4 DEF Beside
<1> QED BY <1>2, <1>4, <1>5, TouchedBeside, BesideExact DEF Beside

\* Only a completed chat has a complete message.
LEMMA MessageStatus ==
    ASSUME NEW next \in {"generating", "verifying", "interrupted", "failed", "waiting_content",
                         "completed"}
    PROVE  message_status(next) = "complete" <=> next = "completed"
BY DEF message_status

\* What update_claim leaves of the chat of a claim.
LEMMA UpdateClaimTouches ==
    ASSUME NEW c, Good(c), pending(c.status), NEW a, Beside(c, a), a.lease = c.lease,
           NEW next, NEW content, NEW error, NEW d, d = update_claim(a, next, content, error)
    PROVE  /\ Touched(c, d) /\ Exact(d) /\ d.status = next
           /\ d.lease = IF next \in {"generating", "verifying"} THEN c.lease ELSE 0
           /\ d.msgs[Len(c.ops)].status = message_status(next)
           /\ content = 0 => d.msgs[Len(c.ops)].content = c.msgs[Len(c.ops)].content
<1> DEFINE n == Len(c.ops)
<1>1. /\ Touched(c, a) /\ Shaped(c) /\ Attempt(a) = n /\ a.public = c.public /\ a.msgs = c.msgs
      /\ c.msgs[n].status # "complete"
    BY TouchedSelf, TouchedBeside DEF Good, Rested, Attempt, Beside
<1>2. PICK s : s = [a EXCEPT !.status = next]
    OBVIOUS
<1>3. Touched(c, s) /\ s.status = next /\ s.lease = c.lease /\ s.msgs = c.msgs
    <2>1. Beside(a, s) /\ s.status = next /\ s.lease = a.lease
        BY <1>1, <1>2, StatusIs DEF Beside
    <2> QED BY <1>1, <2>1, TouchedBeside DEF Beside
<1>4. PICK e : e = IF pending(next) THEN s ELSE interrupt(s)
    OBVIOUS
<1>5. Touched(c, e) /\ e.status = next /\ e.lease = c.lease /\ e.msgs = c.msgs
    BY <1>3, <1>4, InterruptTouches
<1>6. PICK t : t = IF content = 0 THEN e ELSE [e EXCEPT !.msgs[n].content = content]
    OBVIOUS
<1>7. /\ Touched(c, t) /\ t.status = next /\ t.lease = c.lease
      /\ content = 0 => t.msgs = c.msgs
    <2>1. CASE content = 0
        BY <1>5, <1>6, <2>1
    <2>2. CASE content # 0
        <3> DEFINE msgs == [e.msgs EXCEPT ![n] = [e.msgs[n] EXCEPT !.content = content]]
        <3>1. /\ DOMAIN e.msgs = DOMAIN c.ops /\ n \in DOMAIN c.ops
              /\ Sequence(e.msgs) /\ DOMAIN e.msgs[n] = MsgFields
            BY <1>1, <1>5, Newest DEF Touched
        <3>2. t = [e EXCEPT !.msgs = msgs]
            BY <1>6, <2>2
        <3>3. /\ DOMAIN msgs[n] = MsgFields
              /\ \A i \in DOMAIN c.ops : i # n => msgs[i] = e.msgs[i]
            BY <3>1 DEF MsgFields
        <3>4. Sequence(msgs) /\ DOMAIN msgs = DOMAIN c.ops
            BY <3>1, SamePositions
        <3> HIDE DEF msgs
        <3>5. Touched(c, t) /\ t.status = e.status /\ t.lease = e.lease
            BY <1>5, <3>2, <3>3, <3>4, MsgsTouch
        <3> QED BY <1>5, <2>2, <3>5
    <2> QED BY <2>1, <2>2
<1>8. PICK f : f = [t EXCEPT !.error = error]
    OBVIOUS
<1>9. Touched(c, f) /\ f.status = next /\ f.lease = c.lease /\ f.msgs = t.msgs
    <2>1. Beside(t, f) /\ f.status = t.status /\ f.lease = t.lease
        <3>1. DOMAIN t = ChatFields
            BY <1>7 DEF Touched
        <3> QED BY Zenon, <1>8, <3>1, StatusIs
    <2> QED BY <1>7, <2>1, TouchedBeside DEF Beside
<1>10. PICK g : g = set_attempt(f, message_status(next))
    OBVIOUS
<1>11. /\ Touched(c, g) /\ g.status = next /\ g.lease = c.lease
       /\ g.msgs[n].status = message_status(next) /\ g.msgs[n].content = f.msgs[n].content
    BY <1>1, <1>9, <1>10, SetAttemptTouches
<1>12. PICK h : h = write_progress(g, c.public)
    OBVIOUS
<1>13. Touched(c, h) /\ Exact(h) /\ h.status = next /\ h.lease = c.lease /\ h.msgs = g.msgs
    BY <1>1, <1>11, <1>12, ProgressExact
<1>14. d = IF next \in {"generating", "verifying"} THEN h ELSE runnable_now(unlease(h))
    BY <1>1, <1>2, <1>4, <1>6, <1>8, <1>10, <1>12 DEF update_claim
<1>15. CASE next \in {"generating", "verifying"}
    BY <1>7, <1>9, <1>11, <1>13, <1>14, <1>15
<1>16. CASE next \notin {"generating", "verifying"}
    <2>1. Touched(c, d) /\ Exact(d) /\ d.status = h.status /\ d.lease = 0 /\ d.msgs = h.msgs
        BY <1>13, <1>14, <1>16, FreedTouches
    <2> QED BY <1>7, <1>9, <1>11, <1>13, <1>16, <2>1
<1> QED BY <1>15, <1>16

\* Progress and failures: no message is completed.
LEMMA UpdateClaimReplaces ==
    ASSUME NEW c, Good(c), pending(c.status), NEW a, Beside(c, a), a.lease = c.lease,
           NEW next \in {"generating", "verifying", "interrupted", "failed", "waiting_content"},
           NEW content, NEW error, NEW d, d = update_claim(a, next, content, error)
    PROVE  /\ Replaces(c, d, c.lease, 0, 0)
           /\ next \in {"generating", "verifying"} => Replaces(c, d, 0, 0, 0)
<1>1. /\ Touched(c, d) /\ Exact(d) /\ d.status = next
      /\ d.lease = IF next \in {"generating", "verifying"} THEN c.lease ELSE 0
      /\ d.msgs[Len(c.ops)].status = message_status(next)
    BY UpdateClaimTouches
<1>2. d.msgs[Len(c.ops)].status # "complete"
    BY <1>1, MessageStatus
<1> QED BY <1>1, <1>2, TouchedReplaces

\* The completion: the text shown is the one the check returned.
LEMMA CompletionReplaces ==
    ASSUME NEW c, Good(c), pending(c.status), completable(c),
           NEW d, d = update_claim(c, "completed", 0, "none")
    PROVE  Replaces(c, d, c.lease, 0, 0)
<1> DEFINE n == Len(c.ops)
<1>1. Beside(c, c)
    BY DEF Beside, Good, Shaped
<1>2. /\ Touched(c, d) /\ Exact(d) /\ d.status = "completed" /\ d.lease = 0
      /\ d.msgs[n].status = message_status("completed")
      /\ d.msgs[n].content = c.msgs[n].content
    BY <1>1, UpdateClaimTouches
<1>3. c.ops[n].task = "summary" => Done(c, c.msgs[n].content)
    BY DEF completable, Attempt, phase, Done
<1> QED BY <1>2, <1>3, TouchedReplaces DEF pending

\* A draft nobody wants checked becomes the answer.
LEMMA UncheckedReplaces ==
    ASSUME NEW c, Good(c), pending(c.status), phase(LastOp(c)) = "verifying",
           NEW d, d = publish_unchecked(c)
    PROVE  Replaces(c, d, c.lease, 0, 0)
<1> DEFINE n == Len(c.ops)
           m == [status |-> "complete", content |-> c.ops[n].draft]
           msgs == [c.msgs EXCEPT ![n] = m]
<1>1. /\ DOMAIN c = ChatFields /\ n \in DOMAIN c.ops /\ Sequence(c.msgs)
      /\ DOMAIN c.msgs = DOMAIN c.ops /\ c.msgs[n].status # "complete"
    BY Newest DEF Good, Shaped, Rested
<1>2. Sequence(msgs) /\ DOMAIN msgs = DOMAIN c.ops
    BY <1>1, SamePositions
<1>3. /\ DOMAIN m = MsgFields /\ m.status = "complete" /\ m.content = c.ops[n].draft
      /\ msgs[n] = m
      /\ \A i \in DOMAIN c.ops : i # n => msgs[i] = c.msgs[i]
    BY <1>1 DEF MsgFields
<1>4. Done(c, c.ops[n].draft)
    BY <1>1 DEF Good, Sourced, phase, LastOp
<1>5. PICK e : e = [c EXCEPT !.msgs = msgs, !.status = "completed", !.error = "none"]
    OBVIOUS
<1>6. d = runnable_now(unlease(write_progress(e, c.public)))
    BY <1>5 DEF publish_unchecked, Attempt
<1> HIDE DEF msgs, m
<1>7. /\ DOMAIN e = ChatFields /\ e.ops = c.ops /\ e.claims = c.claims /\ e.msgs = msgs
      /\ e.calls = c.calls /\ e.status = "completed" /\ e.lease = c.lease
    BY <1>1, <1>5 DEF ChatFields
<1>8. Touched(c, e)
    BY <1>2, <1>3, <1>7 DEF Touched, Good, Shaped
<1>9. PICK f : f = write_progress(e, c.public)
    OBVIOUS
<1>10. Touched(c, f) /\ Exact(f) /\ f.status = "completed" /\ f.lease = c.lease /\ f.msgs = msgs
    BY <1>1, <1>7, <1>8, <1>9, ProgressExact
<1>11. Touched(c, d) /\ Exact(d) /\ d.status = "completed" /\ d.lease = 0 /\ d.msgs = msgs
    BY <1>6, <1>9, <1>10, FreedTouches
<1> QED BY <1>3, <1>4, <1>11, TouchedReplaces DEF pending

\* A chat is put off by the worker that holds its lease.
LEMMA DeferReplaces ==
    ASSUME NEW c, Good(c), c.lease # 0, NEW error, NEW d, d = defer_chat(c, error)
    PROVE  Replaces(c, d, c.lease, 0, 0)
<1> DEFINE n == Len(c.ops)
<1>1. DOMAIN c = ChatFields /\ Touched(c, c) /\ Shaped(c) /\ c.msgs[n].status # "complete"
    BY TouchedSelf DEF Good, Shaped, Rested
<1>2. PICK a : a = [c EXCEPT !.status = "queued", !.error = error]
    OBVIOUS
<1>3. Beside(c, a) /\ a.lease = c.lease
    BY <1>1, <1>2 DEF Beside, ChatFields
<1>4. Touched(c, a)
    BY <1>1, <1>3, TouchedBeside
<1>5. PICK e : e = set_attempt(a, "pending")
    OBVIOUS
<1>6. Touched(c, e) /\ e.lease = c.lease /\ e.msgs[n].status = "pending"
    BY <1>1, <1>3, <1>4, <1>5, SetAttemptTouches
<1>7. PICK f : f = write_progress(e, c.public)
    OBVIOUS
<1>8. Touched(c, f) /\ Exact(f) /\ f.msgs = e.msgs
    BY <1>1, <1>6, <1>7, ProgressExact
<1>9. PICK g : g = unlease(f)
    OBVIOUS
<1>10. Beside(f, g) /\ g.lease = 0
    BY <1>8, <1>9, UnleaseIs DEF Touched
<1>11. d = [g EXCEPT !.until = IF error = "budget" THEN day + 1 ELSE 0,
                     !.offpeak = error = "paused" /\ peak]
    BY <1>2, <1>5, <1>7, <1>9 DEF defer_chat
<1>12. /\ DOMAIN d = ChatFields /\ d.ops = g.ops /\ d.claims = g.claims /\ d.msgs = g.msgs
       /\ d.calls = g.calls /\ d.public = g.public /\ d.lease = g.lease
    BY <1>10, <1>11 DEF ChatFields, Beside
<1>13. Beside(f, d) /\ d.lease = 0 /\ d.msgs = f.msgs
    BY <1>10, <1>12 DEF Beside
<1>14. Touched(c, d) /\ Exact(d)
    BY <1>8, <1>13, TouchedBeside, BesideExact
<1> QED BY <1>6, <1>8, <1>13, <1>14, TouchedReplaces

\* Two transactions, one after the other.
LEMMA ReplacedTwice ==
    ASSUME NEW c, Good(c), NEW l, NEW n, NEW k,
           NEW d, Replaces(c, d, l, n, k), NEW e, Replaces(d, e, l, n, k)
    PROVE  Replaces(c, e, l, n, k)
<1>1. c.claims \in Nat /\ d.claims \in Nat /\ e.claims \in Nat
    BY DEF Replaces, Good, Shaped
<1>2. c.claims <= e.claims
    BY <1>1 DEF Replaces, Spares
<1> QED BY <1>2 DEF Replaces, Spares

\* Whoever is spared by nobody is spared by somebody.
LEMMA ReplacedBy ==
    ASSUME NEW c, Good(c), NEW d, Replaces(c, d, 0, 0, 0) \/ Replaces(c, d, c.lease, 0, 0),
           NEW l, NEW n, NEW k, c.lease = l \/ Replaces(c, d, 0, 0, 0)
    PROVE  Replaces(c, d, l, n, k)
<1>1. 0 \notin DOMAIN c.ops /\ 0 \notin DOMAIN c.calls /\ c.lease \in Nat
    BY Newest DEF Good, Shaped
<1>2. CASE Replaces(c, d, 0, 0, 0)
    BY <1>1, <1>2 DEF Replaces, Spares
<1>3. CASE Replaces(c, d, c.lease, 0, 0) /\ c.lease = l
    BY <1>1, <1>3 DEF Replaces, Spares
<1> QED BY <1>2, <1>3

\* The calls of c rewritten in place: only k may complete, when accounted for.
Marks(c, calls, k) ==
    /\ Sequence(calls) /\ DOMAIN calls = DOMAIN c.calls
    /\ \A j \in DOMAIN calls :
           /\ DOMAIN calls[j] = CallFields
           /\ c.calls[j].usage = TRUE => calls[j].usage = TRUE
           /\ c.calls[j].status = "completed" => calls[j].status = "completed"
           /\ calls[j].status = "completed" =>
                  c.calls[j].status = "completed" \/ (j = k /\ calls[j].usage = TRUE)

\* d is c but for its calls.
CallsOnly(c, d) == /\ DOMAIN d = ChatFields /\ d.ops = c.ops /\ d.msgs = c.msgs /\ d.public = c.public
                   /\ d.status = c.status /\ d.lease = c.lease /\ d.claims = c.claims

\* Such calls replace the old ones.
LEMMA CallsReplace ==
    ASSUME NEW c, Good(c), NEW k, NEW d, CallsOnly(c, d), Marks(c, d.calls, k)
    PROVE  Replaces(c, d, 0, 0, k)
<1>1. /\ DOMAIN d = ChatFields /\ d.ops = c.ops /\ d.claims = c.claims /\ d.msgs = c.msgs
      /\ d.status = c.status /\ d.lease = c.lease /\ d.public = c.public
    BY DEF CallsOnly
<1>2. Shaped(d)
    BY <1>1 DEF Good, Shaped, Marks
<1>3. Sourced(d)
    <2>1. \A j : Done(c, j) => Done(d, j)
        BY <1>1 DEF Done, Marks
    <2> QED BY <1>1, <2>1 DEF Good, Sourced
<1>4. Rested(d) /\ Accounted(d)
    BY <1>1 DEF Good, Rested, Accounted, Marks
<1>5. Exact(d)
    BY <1>1 DEF Good, Exact, into_public_view
<1>6. Spares(c, d, 0, 0, k)
    BY <1>1, <1>2 DEF Spares, Shaped, Marks
<1> QED BY <1>1, <1>2, <1>3, <1>4, <1>5, <1>6 DEF Replaces, Good

\* The status of one call.
LEMMA CallStatusReplaces ==
    ASSUME NEW c, Good(c), NEW k \in DOMAIN c.calls, c.calls[k].status # "completed",
           NEW s, s = "completed" => c.calls[k].usage = TRUE,
           NEW d, d = [c EXCEPT !.calls[k].status = s]
    PROVE  /\ CallsOnly(c, d) /\ Replaces(c, d, 0, 0, k) /\ d.calls[k].status = s
           /\ s # "completed" => Replaces(c, d, 0, 0, 0)
<1> DEFINE calls == [c.calls EXCEPT ![k] = [c.calls[k] EXCEPT !.status = s]]
<1>1. DOMAIN c = ChatFields /\ Sequence(c.calls) /\ \A j \in DOMAIN c.calls : DOMAIN c.calls[j] = CallFields
    BY DEF Good, Shaped
<1>2. CallsOnly(c, d) /\ d.calls = calls
    BY <1>1 DEF CallsOnly, ChatFields
<1>3. Sequence(calls) /\ DOMAIN calls = DOMAIN c.calls
    BY <1>1, SamePositions
<1>4. /\ DOMAIN calls[k] = CallFields /\ calls[k].usage = c.calls[k].usage /\ calls[k].status = s
      /\ \A j \in DOMAIN calls : j # k => calls[j] = c.calls[j]
    BY <1>1 DEF CallFields
<1> HIDE DEF calls
<1>5. Replaces(c, d, 0, 0, k)
    <2>1. ASSUME NEW j \in DOMAIN calls
          PROVE  /\ DOMAIN calls[j] = CallFields
                 /\ c.calls[j].usage = TRUE => calls[j].usage = TRUE
                 /\ c.calls[j].status = "completed" => calls[j].status = "completed"
                 /\ calls[j].status = "completed" =>
                        c.calls[j].status = "completed" \/ (j = k /\ calls[j].usage = TRUE)
        <3>1. CASE j = k
            BY <1>4, <3>1
        <3>2. CASE j # k
            BY <1>1, <1>3, <1>4, <3>2
        <3> QED BY <3>1, <3>2
    <2>2. Marks(c, calls, k)
        BY <1>3, <2>1 DEF Marks
    <2> QED BY <1>2, <2>2, CallsReplace
<1>6. ASSUME s # "completed" PROVE Replaces(c, d, 0, 0, 0)
    BY <1>2, <1>4, <1>5, <1>6 DEF Replaces, Spares
<1> QED BY <1>2, <1>4, <1>5, <1>6

\* A call is accounted for, or its bill comes.
LEMMA CallBookReplaces ==
    ASSUME NEW c, Good(c), NEW k \in DOMAIN c.calls, NEW x, NEW d,
           \/ d = [c EXCEPT !.calls[k].usage = TRUE]
           \/ d = [c EXCEPT !.calls[k].actual = x]
    PROVE  /\ CallsOnly(c, d) /\ Replaces(c, d, 0, 0, 0)
           /\ d = [c EXCEPT !.calls[k].usage = TRUE] => d.calls[k].usage = TRUE
<1>1. DOMAIN c = ChatFields /\ Sequence(c.calls) /\ \A j \in DOMAIN c.calls : DOMAIN c.calls[j] = CallFields
    BY DEF Good, Shaped
<1>2. CASE d = [c EXCEPT !.calls[k].usage = TRUE]
    <2> DEFINE calls == [c.calls EXCEPT ![k] = [c.calls[k] EXCEPT !.usage = TRUE]]
    <2>1. CallsOnly(c, d) /\ d.calls = calls
        BY <1>1, <1>2 DEF CallsOnly, ChatFields
    <2>2. Sequence(calls) /\ DOMAIN calls = DOMAIN c.calls
        BY <1>1, SamePositions
    <2>3. /\ DOMAIN calls[k] = CallFields /\ calls[k].usage = TRUE
          /\ calls[k].status = c.calls[k].status
          /\ \A j \in DOMAIN calls : j # k => calls[j] = c.calls[j]
        BY <1>1 DEF CallFields
    <2> HIDE DEF calls
    <2>4. Marks(c, calls, 0)
        BY <1>1, <2>2, <2>3 DEF Marks
    <2> QED BY <2>1, <2>3, <2>4, CallsReplace
<1>3. CASE d = [c EXCEPT !.calls[k].actual = x]
    <2> DEFINE calls == [c.calls EXCEPT ![k] = [c.calls[k] EXCEPT !.actual = x]]
    <2>1. CallsOnly(c, d) /\ d.calls = calls
        BY <1>1, <1>3 DEF CallsOnly, ChatFields
    <2>2. Sequence(calls) /\ DOMAIN calls = DOMAIN c.calls
        BY <1>1, SamePositions
    <2>3. /\ DOMAIN calls[k] = CallFields /\ calls[k].usage = c.calls[k].usage
          /\ calls[k].status = c.calls[k].status
          /\ \A j \in DOMAIN calls : j # k => calls[j] = c.calls[j]
        BY <1>1 DEF CallFields
    <2> HIDE DEF calls
    <2>4. Marks(c, calls, 0)
        BY <1>1, <2>2, <2>3 DEF Marks
    <2>5. Replaces(c, d, 0, 0, 0)
        BY <2>1, <2>4, CallsReplace
    <2> QED BY <1>2, <1>3, <2>1, <2>5
<1> QED BY <1>2, <1>3

\* The status the end of a call update may set.
Verifying(w, c) == Attempt(c) = worker[w].attempt /\ phase(LastOp(c)) = "verifying" /\ fenced(w)

\* The end of a call update that saves no draft.
LEMMA UpdateReplaces ==
    ASSUME NEW w, NEW c, Good(c), fenced(w) => pending(c.status),
           NEW d, d = update(w, c, c.public)
    PROVE  Replaces(c, d, 0, 0, 0) /\ d.ops = c.ops
<1> DEFINE n == Len(c.ops)
<1>1. PICK e : e = IF Verifying(w, c) THEN [c EXCEPT !.status = "verifying"] ELSE c
    OBVIOUS
<1>2. Touched(c, c) /\ DOMAIN c = ChatFields
    BY TouchedSelf DEF Good, Shaped
<1>3. /\ Touched(c, e) /\ e.msgs = c.msgs /\ e.lease = c.lease
      /\ ~pending(c.status) => e.status = c.status
    <2>1. CASE Verifying(w, c)
        <3>1. Beside(c, e) /\ e.lease = c.lease /\ pending(c.status)
            BY <1>1, <1>2, <2>1 DEF Beside, ChatFields, Verifying
        <3> QED BY <1>2, <3>1, TouchedBeside DEF Beside
    <2>2. CASE ~Verifying(w, c)
        BY <1>1, <1>2, <2>2
    <2> QED BY <2>1, <2>2
<1>4. d = write_progress(e, c.public)
    BY <1>1 DEF update, Verifying
<1>5. Touched(c, d) /\ Exact(d) /\ d.status = e.status /\ d.lease = e.lease /\ d.msgs = e.msgs
    BY <1>3, <1>4, ProgressExact
<1>6. d.msgs[n].status = "complete" => ~pending(d.status) /\ d.lease = 0
    BY <1>3, <1>5 DEF Good, Rested
<1> QED BY <1>3, <1>5, <1>6, TouchedReplaces DEF Touched

\* What is shown depends on the operations and the messages only.
LEMMA ExactAs ==
    ASSUME NEW e, NEW d, d.ops = e.ops, d.msgs = e.msgs, d.public = into_public_view(e)
    PROVE  Exact(d)
BY DEF Exact, into_public_view

\* The end of a call that saves a draft in attempt n.
LEMMA DraftReplaces ==
    ASSUME NEW w, NEW c, Good(c), fenced(w) => pending(c.status),
           NEW n \in DOMAIN c.ops, c.ops[n].draft = 0, NEW k, Done(c, k),
           NEW d, d = update(w, [c EXCEPT !.ops[n].draft = k], [c.public EXCEPT ![n] = k])
    PROVE  Replaces(c, d, 0, n, 0) /\ d.ops[n].draft = k
<1> DEFINE ops == [c.ops EXCEPT ![n] = [c.ops[n] EXCEPT !.draft = k]]
<1>1. /\ DOMAIN c = ChatFields /\ Sequence(c.ops) /\ DOMAIN c.msgs = DOMAIN c.ops
      /\ DOMAIN c.public = DOMAIN c.ops
      /\ \A i \in DOMAIN c.ops : DOMAIN c.ops[i] = OpFields
    BY DEF Good, Shaped, Exact, into_public_view
<1>2. Sequence(ops) /\ DOMAIN ops = DOMAIN c.ops /\ Len(ops) = Len(c.ops)
    BY <1>1, SamePositions
<1>3. /\ DOMAIN ops[n] = OpFields /\ ops[n].draft = k /\ ops[n].task = c.ops[n].task
      /\ ops[n].id = c.ops[n].id
      /\ \A i \in DOMAIN c.ops : i # n => ops[i] = c.ops[i]
    BY <1>1 DEF OpFields
<1>4. PICK a : a = [c EXCEPT !.ops[n].draft = k]
    OBVIOUS
<1>5. /\ DOMAIN a = ChatFields /\ a.ops = ops /\ a.msgs = c.msgs /\ a.calls = c.calls
      /\ a.lease = c.lease /\ a.claims = c.claims /\ a.status = c.status
    BY <1>1, <1>4 DEF ChatFields
<1> HIDE DEF ops
<1>6. PICK e : e = IF Verifying(w, a) THEN [a EXCEPT !.status = "verifying"] ELSE a
    OBVIOUS
<1>7. /\ DOMAIN e = ChatFields /\ e.ops = ops /\ e.msgs = c.msgs /\ e.calls = c.calls
      /\ e.lease = c.lease /\ e.claims = c.claims
      /\ ~pending(c.status) => e.status = c.status
    <2>1. CASE Verifying(w, a)
        BY <1>5, <1>6, <2>1 DEF ChatFields, Verifying
    <2>2. CASE ~Verifying(w, a)
        BY <1>5, <1>6, <2>2
    <2> QED BY <2>1, <2>2
<1>8. PICK published : published = [c.public EXCEPT ![n] = k]
    OBVIOUS
<1>9. d = write_progress(e, published)
    BY <1>4, <1>6, <1>8 DEF update, Verifying
<1> DEFINE view == [i \in DOMAIN e.msgs |->
                       IF e.ops[i].task = "summary" /\ e.msgs[i].status # "complete"
                       THEN published[i] ELSE e.msgs[i].content]
<1>10. view = into_public_view(e)
    <2>1. ASSUME NEW i \in DOMAIN c.ops, ops[i].task = "summary", c.msgs[i].status # "complete"
          PROVE  published[i] = ops[i].draft
        <3>1. CASE i = n
            BY <1>1, <1>3, <1>8, <3>1
        <3>2. CASE i # n
            BY <1>1, <1>3, <1>8, <2>1, <3>2 DEF Good, Exact, into_public_view
        <3> QED BY <3>1, <3>2
    <2> QED BY <1>1, <1>7, <2>1 DEF into_public_view
<1>11. d = [e EXCEPT !.public = view]
    BY <1>9 DEF write_progress
<1> HIDE DEF view
<1>12. /\ DOMAIN d = ChatFields /\ d.ops = ops /\ d.msgs = c.msgs /\ d.calls = c.calls
       /\ d.lease = c.lease /\ d.claims = c.claims /\ d.status = e.status /\ d.public = view
    BY <1>7, <1>11 DEF ChatFields
<1>13. Exact(d)
    <2>1. d.ops = e.ops /\ d.msgs = e.msgs /\ d.public = into_public_view(e)
        BY <1>7, <1>10, <1>12
    <2> QED BY <2>1, ExactAs
<1>14. Shaped(d)
    <2>1. ASSUME NEW i \in DOMAIN ops PROVE DOMAIN ops[i] = OpFields
        BY <1>1, <1>2, <1>3
    <2>2. Sequence(d.ops) /\ Len(d.ops) > 0 /\ \A i \in DOMAIN d.ops : DOMAIN d.ops[i] = OpFields
        BY <1>2, <1>12, <2>1 DEF Good, Shaped
    <2> QED BY <1>2, <1>12, <2>2 DEF Good, Shaped
<1>15. Sourced(d)
    <2>1. \A j : Done(c, j) => Done(d, j)
        BY <1>12 DEF Done
    <2>2. ASSUME NEW i \in DOMAIN c.ops, ops[i].task = "summary"
          PROVE  /\ ops[i].draft # 0 => Done(c, ops[i].draft)
                 /\ c.msgs[i].status = "complete" /\ c.msgs[i].content # 0 => Done(c, c.msgs[i].content)
        <3>1. CASE i = n
            BY <1>3, <2>2, <3>1 DEF Good, Sourced
        <3>2. CASE i # n
            BY <1>3, <2>2, <3>2 DEF Good, Sourced
        <3> QED BY <3>1, <3>2
    <2> QED BY <1>2, <1>12, <2>1, <2>2 DEF Sourced
<1>16. Rested(d) /\ Accounted(d)
    BY <1>2, <1>7, <1>12 DEF Good, Rested, Accounted
<1>17. Spares(c, d, 0, n, 0)
    <2>1. ASSUME NEW i \in DOMAIN c.ops
          PROVE  /\ ops[i].id = c.ops[i].id /\ ops[i].task = c.ops[i].task
                 /\ (i # n \/ c.ops[i].draft # 0) => ops[i].draft = c.ops[i].draft
        BY <1>3
    <2>2. c.claims <= d.claims
        BY <1>12, <1>14 DEF Shaped
    <2> QED BY <1>2, <1>12, <2>1, <2>2 DEF Spares
<1> QED BY <1>2, <1>3, <1>12, <1>13, <1>14, <1>15, <1>16, <1>17 DEF Replaces, Good

\* A call is begun: recorded as running, after all the others.
LEMMA BeginReplaces ==
    ASSUME NEW c, Good(c), pending(c.status), NEW ph \in {"generating", "verifying"},
           NEW d, d = begin(c, ph)
    PROVE  /\ Replaces(c, d, 0, 0, 0)
           /\ Len(c.calls) + 1 \in DOMAIN d.calls \ DOMAIN c.calls
           /\ d.calls[Len(c.calls) + 1].status # "completed"
<1> DEFINE n == Len(c.ops)
           k == Len(c.calls) + 1
<1>1. PICK started : started = [attempt |-> Attempt(c), phase |-> ph, status |-> "started",
                                usage |-> FALSE, day |-> day, actual |-> Unknown]
    OBVIOUS
<1>2. DOMAIN started = CallFields /\ started.status = "started"
    BY <1>1 DEF CallFields
<1>3. /\ DOMAIN c = ChatFields /\ Sequence(c.calls) /\ c.msgs[n].status # "complete"
      /\ \A j \in DOMAIN c.calls : DOMAIN c.calls[j] = CallFields
      /\ c.claims \in Nat /\ Shaped(c)
    BY DEF Good, Shaped, Rested
<1>4. PICK calls : calls = Append(c.calls, started)
    OBVIOUS
<1>5. /\ Sequence(calls) /\ DOMAIN calls = DOMAIN c.calls \cup {k}
      /\ \A j \in DOMAIN c.calls : calls[j] = c.calls[j]
      /\ calls[k] = started
    BY <1>3, <1>4, Appended
<1>6. k \notin DOMAIN c.calls
    BY <1>3, SequenceFacts
<1>7. PICK b : b = [c EXCEPT !.calls = calls]
    OBVIOUS
<1>8. CallsOnly(c, b) /\ b.calls = calls
    BY <1>3, <1>7 DEF CallsOnly, ChatFields
<1>9. Good(b)
    <2>1. \A j \in DOMAIN calls : DOMAIN calls[j] = CallFields
        BY <1>2, <1>3, <1>5
    <2>2. Shaped(b)
        BY <1>5, <1>8, <2>1 DEF Good, Shaped, CallsOnly
    <2>3. \A j : Done(c, j) => Done(b, j)
        BY <1>5, <1>8 DEF Done
    <2>4. Sourced(b)
        BY <1>8, <2>3 DEF Good, Sourced, CallsOnly
    <2>5. Rested(b) /\ Accounted(b)
        BY <1>2, <1>5, <1>8 DEF Good, Rested, Accounted, CallsOnly
    <2>6. Exact(b)
        BY <1>8 DEF Good, Exact, into_public_view, CallsOnly
    <2> QED BY <2>2, <2>4, <2>5, <2>6 DEF Good
<1>10. Replaces(c, b, 0, 0, 0)
    BY <1>3, <1>5, <1>8, <1>9 DEF Replaces, Spares, CallsOnly
<1>11. PICK a : a = [c EXCEPT !.calls = calls, !.status = ph, !.error = "none"]
    OBVIOUS
<1>12. Beside(b, a) /\ a.status = ph /\ a.lease = b.lease
    BY <1>3, <1>8, <1>11 DEF Beside, CallsOnly, ChatFields
<1>13. Touched(b, a) /\ Shaped(b) /\ b.public = c.public /\ b.ops = c.ops /\ b.msgs = c.msgs
    BY <1>8, <1>9, <1>12, TouchedSelf, TouchedBeside DEF Good, CallsOnly
<1>14. PICK e : e = set_attempt(a, "streaming")
    OBVIOUS
<1>15. Touched(b, e) /\ e.lease = b.lease /\ e.msgs[n].status = "streaming"
    BY <1>12, <1>13, <1>14, SetAttemptTouches
<1>16. d = write_progress(e, b.public)
    BY <1>1, <1>4, <1>11, <1>13, <1>14 DEF begin
<1>17. Touched(b, d) /\ Exact(d) /\ d.lease = b.lease /\ d.msgs[n].status = "streaming"
    BY <1>3, <1>9, <1>13, <1>15, <1>16, ProgressExact
<1>18. Replaces(b, d, 0, 0, 0)
    BY <1>9, <1>13, <1>17, TouchedReplaces
<1>19. Replaces(c, d, 0, 0, 0)
    BY <1>10, <1>18, ReplacedTwice
<1>20. k \in DOMAIN d.calls /\ d.calls[k].status # "completed"
    BY <1>2, <1>5, <1>8, <1>17 DEF Touched
<1> QED BY <1>6, <1>19, <1>20

\* The attempt a command opens.
Opened(c, op, kind, task, draft) ==
    unlease(write_record(
        [c EXCEPT !.ops = Append(@, NewOp(op, kind, task, draft)),
                  !.msgs = Append(@, NewMsg),
                  !.status = IF c.snapshot THEN "queued" ELSE "waiting_content",
                  !.error = "none", !.automatic = FALSE]))

\* d is c with one attempt more, that of operation op.
Extends(c, d, op) ==
    /\ Good(d) /\ Spares(c, d, 0, 0, 0)
    /\ Len(d.ops) = Len(c.ops) + 1 /\ DOMAIN d.ops = DOMAIN c.ops \cup {Len(c.ops) + 1}
    /\ d.ops[Len(c.ops) + 1].id = op

\* A new attempt, with a draft that was paid for or with none.
LEMMA OpenedExtends ==
    ASSUME NEW c, Good(c), NEW op, NEW kind, NEW task, NEW draft,
           task = "summary" /\ draft # 0 => Done(c, draft),
           NEW d, d = Opened(c, op, kind, task, draft)
    PROVE  /\ Extends(c, d, op)
           /\ LastOp(d).task = task /\ LastOp(d).draft = draft
<1> DEFINE n == Len(c.ops) + 1
<1>1. /\ DOMAIN c = ChatFields /\ Sequence(c.ops) /\ Sequence(c.msgs) /\ Len(c.msgs) = Len(c.ops)
      /\ DOMAIN c.msgs = DOMAIN c.ops /\ n \notin DOMAIN c.ops /\ Len(c.ops) \in Nat
      /\ c.claims \in Nat
      /\ \A i \in DOMAIN c.ops : DOMAIN c.ops[i] = OpFields /\ DOMAIN c.msgs[i] = MsgFields
    <2>1. Sequence(c.ops) /\ Sequence(c.msgs) /\ DOMAIN c.msgs = DOMAIN c.ops
        BY DEF Good, Shaped
    <2>2. Len(c.ops) \in Nat /\ Len(c.msgs) \in Nat /\ 1..Len(c.msgs) = 1..Len(c.ops) /\ DOMAIN c.ops = 1..Len(c.ops)
        BY <2>1, SequenceFacts
    <2>3. Len(c.msgs) = Len(c.ops) /\ n \notin DOMAIN c.ops
        BY <2>2
    <2> QED BY <2>1, <2>2, <2>3 DEF Good, Shaped
<1>2. PICK o : o = NewOp(op, kind, task, draft)
    OBVIOUS
<1>3. DOMAIN o = OpFields /\ o.id = op /\ o.task = task /\ o.draft = draft
    BY <1>2 DEF NewOp, OpFields
<1>4. DOMAIN NewMsg = MsgFields /\ NewMsg.status = "pending"
    BY DEF NewMsg, MsgFields
<1>5. PICK ops : ops = Append(c.ops, o)
    OBVIOUS
<1>6. PICK msgs : msgs = Append(c.msgs, NewMsg)
    OBVIOUS
<1>7. /\ Sequence(ops) /\ Len(ops) = n /\ DOMAIN ops = DOMAIN c.ops \cup {n}
      /\ \A i \in DOMAIN c.ops : ops[i] = c.ops[i]
      /\ ops[n] = o
    BY <1>1, <1>5, Appended
<1>8. /\ Sequence(msgs) /\ DOMAIN msgs = DOMAIN c.ops \cup {n}
      /\ \A i \in DOMAIN c.ops : msgs[i] = c.msgs[i]
      /\ msgs[n] = NewMsg
    <2>1. /\ Sequence(msgs) /\ DOMAIN msgs = DOMAIN c.msgs \cup {Len(c.msgs) + 1}
          /\ \A i \in DOMAIN c.msgs : msgs[i] = c.msgs[i]
          /\ msgs[Len(c.msgs) + 1] = NewMsg
        BY <1>1, <1>6, Appended
    <2> QED BY <1>1, <2>1
<1>9. PICK e : e = [c EXCEPT !.ops = ops, !.msgs = msgs,
                             !.status = IF c.snapshot THEN "queued" ELSE "waiting_content",
                             !.error = "none", !.automatic = FALSE]
    OBVIOUS
<1>10. /\ DOMAIN e = ChatFields /\ e.ops = ops /\ e.msgs = msgs /\ e.calls = c.calls
       /\ e.claims = c.claims
    BY <1>1, <1>9 DEF ChatFields
<1>11. d = unlease(write_record(e))
    BY <1>2, <1>5, <1>6, <1>9 DEF Opened
<1>12. PICK view : view = into_public_view(e)
    OBVIOUS
<1>13. /\ DOMAIN d = ChatFields /\ d.ops = ops /\ d.msgs = msgs /\ d.calls = c.calls
       /\ d.claims = c.claims /\ d.lease = 0 /\ d.public = view
    BY <1>10, <1>11, <1>12 DEF unlease, write_record, ChatFields
<1>14. Exact(d)
    BY <1>10, <1>12, <1>13, ExactAs
<1>15. Shaped(d)
    <2>1. \A i \in DOMAIN ops : DOMAIN ops[i] = OpFields /\ DOMAIN msgs[i] = MsgFields
        BY <1>1, <1>3, <1>4, <1>7, <1>8
    <2>2. n > 0
        BY <1>1
    <2>3. Sequence(c.calls) /\ \A k \in DOMAIN c.calls : DOMAIN c.calls[k] = CallFields
        BY DEF Good, Shaped
    <2>4. /\ Sequence(d.ops) /\ Len(d.ops) > 0 /\ Sequence(d.msgs) /\ DOMAIN d.msgs = DOMAIN d.ops
          /\ \A i \in DOMAIN d.ops : DOMAIN d.ops[i] = OpFields /\ DOMAIN d.msgs[i] = MsgFields
        BY <1>7, <1>8, <1>13, <2>1, <2>2
    <2> QED BY <1>1, <1>13, <2>3, <2>4 DEF Shaped
<1>16. Sourced(d)
    <2>1. \A j : Done(c, j) <=> Done(d, j)
        BY <1>13 DEF Done
    <2>2. ASSUME NEW i \in DOMAIN c.ops \cup {n}, ops[i].task = "summary"
          PROVE  /\ ops[i].draft # 0 => Done(c, ops[i].draft)
                 /\ msgs[i].status = "complete" /\ msgs[i].content # 0 => Done(c, msgs[i].content)
        <3>1. CASE i = n
            BY <1>3, <1>4, <1>7, <1>8, <2>2, <3>1
        <3>2. CASE i \in DOMAIN c.ops
            BY <1>7, <1>8, <2>2, <3>2 DEF Good, Sourced
        <3> QED BY <3>1, <3>2
    <2> QED BY <1>7, <1>13, <2>1, <2>2 DEF Sourced
<1>17. Rested(d) /\ Accounted(d)
    BY <1>4, <1>7, <1>8, <1>13 DEF Good, Rested, Accounted
<1>18. Spares(c, d, 0, 0, 0)
    <2>1. c.claims <= d.claims /\ DOMAIN d.ops # DOMAIN c.ops
        BY <1>1, <1>7, <1>13
    <2> QED BY <1>7, <1>13, <2>1 DEF Spares
<1> QED BY <1>3, <1>7, <1>13, <1>14, <1>15, <1>16, <1>17, <1>18 DEF Good, Extends, LastOp

\* A new chat.
LEMMA NewChatGood ==
    ASSUME NEW op, NEW kind, NEW input, NEW automatic, NEW d, d = NewChat(op, kind, input, automatic)
    PROVE  Good(d) /\ DOMAIN d.ops = {1} /\ d.ops[1].id = op
<1>1. /\ DOMAIN d = ChatFields /\ d.ops = <<NewOp(op, kind, "summary", 0)>> /\ d.msgs = <<NewMsg>>
      /\ d.public = <<0>> /\ d.calls = <<>> /\ d.lease = 0 /\ d.claims = 0
    BY DEF NewChat, ChatFields
<1>2. /\ Sequence(d.ops) /\ Sequence(d.msgs) /\ Sequence(d.calls)
      /\ Len(d.ops) = 1 /\ DOMAIN d.ops = {1} /\ DOMAIN d.msgs = {1} /\ DOMAIN d.calls = {}
    <2>1. d.ops \in Seq({d.ops[1]}) /\ d.msgs \in Seq({d.msgs[1]}) /\ d.calls \in Seq({})
        BY <1>1
    <2>2. Sequence(d.ops) /\ Sequence(d.msgs) /\ Sequence(d.calls)
        BY Zenon, <2>1, IsSequence
    <2> QED BY <1>1, <2>2
<1>3. /\ DOMAIN d.ops[1] = OpFields /\ d.ops[1].id = op /\ d.ops[1].draft = 0 /\ d.ops[1].task = "summary"
      /\ DOMAIN d.msgs[1] = MsgFields /\ d.msgs[1].status = "pending" /\ d.msgs[1].content = 0
    BY <1>1 DEF NewOp, NewMsg, OpFields, MsgFields
<1>4. Shaped(d)
    BY <1>1, <1>2, <1>3 DEF Shaped
<1>5. Exact(d)
    <2>1. into_public_view(d) = [i \in {1} |-> 0]
        BY <1>2, <1>3 DEF into_public_view
    <2> QED BY <1>1, <2>1 DEF Exact
<1> QED BY <1>2, <1>3, <1>4, <1>5 DEF Good, Sourced, Rested, Accounted

\* A claim takes the lease of a chat that waits.
LEMMA ClaimReplaces ==
    ASSUME NEW c, Good(c), c.status \in {"queued", "waiting_content"}, c.lease = 0,
           NEW d, d = [c EXCEPT !.lease = c.claims + 1, !.claims = c.claims + 1]
    PROVE  /\ Replaces(c, d, 0, 0, 0) /\ d.ops = c.ops
           /\ d.lease = c.claims + 1 /\ d.claims = c.claims + 1
<1>1. /\ DOMAIN c = ChatFields /\ c.claims \in Nat /\ c.msgs[Len(c.ops)].status # "complete"
    BY DEF Good, Shaped, Rested, pending
<1>2. /\ DOMAIN d = ChatFields /\ d.ops = c.ops /\ d.msgs = c.msgs /\ d.calls = c.calls
      /\ d.public = c.public /\ d.lease = c.claims + 1 /\ d.claims = c.claims + 1
    BY <1>1 DEF ChatFields
<1>3. Shaped(d) /\ Rested(d) /\ Accounted(d)
    BY <1>1, <1>2 DEF Good, Shaped, Rested, Accounted
<1>4. Sourced(d) /\ Exact(d)
    BY <1>2 DEF Good, Sourced, Done, Exact, into_public_view
<1>5. Spares(c, d, 0, 0, 0)
    BY <1>1, <1>2 DEF Spares
<1> QED BY <1>2, <1>3, <1>4, <1>5 DEF Replaces, Good

\* Recovery of a chat whose lease expired.
LEMMA RecoveredReplaces ==
    ASSUME NEW c, Good(c), NEW d, d = recovered(c)
    PROVE  Replaces(c, d, 0, 0, 0)
<1>1. CASE c.expired /\ pending(c.status)
    <2>1. PICK a : a = [c EXCEPT !.status = "interrupted", !.error = "interrupted"]
        OBVIOUS
    <2>2. Beside(c, a) /\ a.lease = c.lease /\ ~pending(a.status)
        BY <2>1 DEF Good, Shaped, Beside, ChatFields, pending
    <2>3. d = write_record(set_attempt(interrupt(a), "interrupted"))
        BY <1>1, <2>1 DEF recovered
    <2> QED BY <2>2, <2>3, EndReplaces
<1>2. CASE ~(c.expired /\ pending(c.status))
    BY <1>2, SparesSelf DEF recovered, Replaces
<1> QED BY <1>1, <1>2

-----------------------------------------------------------------------------
(* The inductive invariant: the workers and the operations.                *)

\* The places in which a worker has a call of its own.
Calling == {"asked", "usage", "answered", "finish"}

WorkerFields == {"pc", "chat", "lease", "attempt", "task", "draft", "call", "error"}

\* What a worker knows of the chat it claimed: the newest attempt is its own only
\* under its lease, and its task and draft are the ones of its attempt.
Knows(x, c) ==
    /\ x.lease \in Nat /\ 0 < x.lease /\ x.lease <= c.claims
    /\ x.attempt \in DOMAIN c.ops
    /\ x.attempt = Len(c.ops) => c.lease = x.lease
    /\ x.task = c.ops[x.attempt].task /\ x.draft = c.ops[x.attempt].draft
    /\ x.pc \in Calling => x.call \in DOMAIN c.calls /\ c.calls[x.call].status # "completed"
    /\ x.pc \in {"answered", "finish"} => c.calls[x.call].usage = TRUE

Informed(x, cs) == x # Idle => /\ DOMAIN x = WorkerFields
                               /\ x.chat \in DOMAIN cs
                               /\ Knows(x, cs[x.chat])

\* Two workers at one chat have two leases, two attempts and two calls.
Distinct(x, y) ==
    x # Idle /\ y # Idle /\ x.chat = y.chat =>
        /\ x.attempt # y.attempt /\ x.lease # y.lease
        /\ x.pc \in Calling /\ y.pc \in Calling => x.call # y.call

\* Every operation of a chat was saved.
Saved(cs, os) == \A c \in DOMAIN cs : \A i \in DOMAIN cs[c].ops : \E o \in os : o.op = cs[c].ops[i].id

\* An operation opens one attempt.
Unique(cs) == \A c, d \in DOMAIN cs : \A i \in DOMAIN cs[c].ops : \A j \in DOMAIN cs[d].ops :
                  cs[c].ops[i].id = cs[d].ops[j].id => c = d /\ i = j

SInv == /\ \A c \in DOMAIN chats : Good(chats[c])
        /\ DOMAIN worker = Workers
        /\ \A w \in Workers : Informed(worker[w], chats)
        /\ \A v, w \in Workers : v # w => Distinct(worker[v], worker[w])
        /\ Saved(chats, operations)
        /\ Unique(chats)

\* The invariant says what is shown.
LEMMA ShownFromInvariant ==
    ASSUME SInv
    PROVE  ShownExact
<1>1. PublicViewExact
    BY DEF PublicViewExact, SInv, Good, Exact
<1>2. OnlyFinishedShown
    <2> SUFFICES ASSUME NEW c \in DOMAIN chats, NEW i \in DOMAIN chats[c].ops,
                        chats[c].ops[i].task = "summary", chats[c].public[i] # 0
                 PROVE  /\ chats[c].calls[chats[c].public[i]].status = "completed"
                        /\ chats[c].calls[chats[c].public[i]].usage
        BY DEF OnlyFinishedShown
    <2> DEFINE r == chats[c]
               k == r.public[i]
    <2>1. Good(r) /\ i \in DOMAIN r.msgs
        BY DEF SInv, Good, Shaped
    <2>2. k = IF r.msgs[i].status # "complete" THEN r.ops[i].draft ELSE r.msgs[i].content
        BY <2>1 DEF Good, Exact, into_public_view
    <2>3. Done(r, k)
        BY <2>1, <2>2 DEF Good, Sourced
    <2>4. r.calls[k].usage = TRUE
        BY <2>1, <2>3 DEF Good, Accounted, Done
    <2> QED BY <2>3, <2>4 DEF Done
<1>3. OperationOnce
    <2> SUFFICES ASSUME NEW p \in UNION {{c} \X DOMAIN chats[c].ops : c \in DOMAIN chats},
                        NEW q \in UNION {{c} \X DOMAIN chats[c].ops : c \in DOMAIN chats},
                        chats[p[1]].ops[p[2]].id = chats[q[1]].ops[q[2]].id
                 PROVE  p = q
        BY DEF OperationOnce
    <2>1. PICK c \in DOMAIN chats : p \in {c} \X DOMAIN chats[c].ops
        OBVIOUS
    <2>2. PICK d \in DOMAIN chats : q \in {d} \X DOMAIN chats[d].ops
        OBVIOUS
    <2>3. p = <<c, p[2]>> /\ p[1] = c /\ p[2] \in DOMAIN chats[c].ops
        BY <2>1
    <2>4. q = <<d, q[2]>> /\ q[1] = d /\ q[2] \in DOMAIN chats[d].ops
        BY <2>2
    <2>5. c = d /\ p[2] = q[2]
        BY <2>3, <2>4 DEF SInv, Unique
    <2> QED BY <2>3, <2>4, <2>5
<1> QED BY <1>1, <1>2, <1>3 DEF ShownExact

\* Before the first chat.
LEMMA InitSInv ==
    ASSUME Init
    PROVE  Sequence(chats) /\ SInv
<1>1. DOMAIN chats = {} /\ worker = [w \in Workers |-> Idle]
    BY DEF Init
<1>2. chats \in Seq({})
    BY DEF Init
<1>3. Sequence(chats)
    BY Zenon, <1>2, IsSequence
<1> QED BY <1>1, <1>3 DEF SInv, Informed, Distinct, Saved, Unique

-----------------------------------------------------------------------------
(* Who notices a transaction.                                              *)

\* Leases, attempts and calls are counted from one.
LEMMA KnowsPositive ==
    ASSUME NEW c, Good(c), NEW x, Knows(x, c)
    PROVE  x.lease # 0 /\ x.attempt # 0 /\ (x.pc \in Calling => x.call # 0)
<1>1. 0 \notin DOMAIN c.ops /\ 0 \notin DOMAIN c.calls
    BY Newest DEF Good
<1> QED BY <1>1 DEF Knows

\* A worker that is not the one that writes still knows its chat.
LEMMA Bystander ==
    ASSUME NEW c, Good(c), NEW d, Good(d), NEW l, NEW n, NEW k, Spares(c, d, l, n, k),
           NEW x, Knows(x, c), x.lease # l, x.attempt # n, x.pc \in Calling => x.call # k
    PROVE  Knows(x, d)
<1>1. x.lease \in Nat /\ 0 < x.lease /\ x.lease <= d.claims /\ x.attempt \in DOMAIN d.ops
    <2>1. c.claims \in Nat /\ d.claims \in Nat
        BY DEF Good, Shaped
    <2> QED BY <2>1 DEF Knows, Spares
<1>2. ASSUME x.attempt = Len(d.ops) PROVE d.lease = x.lease
    <2>1. DOMAIN c.ops = 1..Len(c.ops) /\ DOMAIN d.ops = 1..Len(d.ops) /\ Len(c.ops) \in Nat /\ Len(d.ops) \in Nat
        BY SequenceFacts DEF Good, Shaped
    <2>2. x.attempt \in 1..Len(c.ops) /\ 1..Len(c.ops) \subseteq 1..Len(d.ops)
        BY <2>1 DEF Knows, Spares
    <2>3. x.attempt = Len(c.ops)
        <3>1. Len(d.ops) \in 1..Len(c.ops)
            BY <1>2, <2>2
        <3>2. Len(c.ops) \in 1..Len(c.ops)
            BY <2>1, <3>1
        <3>3. Len(c.ops) \in 1..Len(d.ops)
            BY <2>2, <3>2
        <3> QED BY <1>2, <2>1, <3>1, <3>3
    <2>4. DOMAIN c.ops = DOMAIN d.ops
        BY <1>2, <2>1, <2>3
    <2> QED BY <1>1, <2>3, <2>4 DEF Knows, Spares
<1>3. x.task = d.ops[x.attempt].task /\ x.draft = d.ops[x.attempt].draft
    BY DEF Knows, Spares
<1>4. /\ x.pc \in Calling => x.call \in DOMAIN d.calls /\ d.calls[x.call].status # "completed"
      /\ x.pc \in {"answered", "finish"} => d.calls[x.call].usage = TRUE
    BY DEF Knows, Spares, Calling
<1> QED BY <1>1, <1>2, <1>3, <1>4 DEF Knows

\* A command or a setting: no lease is given up, no draft saved, no call completed.
Grows(cs, ds) == /\ DOMAIN cs \subseteq DOMAIN ds
                 /\ \A c \in DOMAIN ds : Good(ds[c])
                 /\ \A c \in DOMAIN cs : Spares(cs[c], ds[c], 0, 0, 0)

\* The operations of ds are those of cs, and perhaps one new operation op.
NewIds(cs, ds, os, qs, op) ==
    /\ os \subseteq qs
    /\ \E c0, i0 : \A c \in DOMAIN ds : \A i \in DOMAIN ds[c].ops :
           \/ /\ c \in DOMAIN cs /\ i \in DOMAIN cs[c].ops
              /\ ds[c].ops[i].id = cs[c].ops[i].id
           \/ /\ c = c0 /\ i = i0 /\ ds[c].ops[i].id = op
              /\ ~ \E o \in os : o.op = op
              /\ \E o \in qs : o.op = op

\* An operation id is used once.
LEMMA IdsKept ==
    ASSUME NEW cs, NEW ds, NEW os, NEW qs, NEW op, NewIds(cs, ds, os, qs, op),
           Saved(cs, os), Unique(cs)
    PROVE  Saved(ds, qs) /\ Unique(ds)
<1>1. PICK c0, i0 : \A c \in DOMAIN ds : \A i \in DOMAIN ds[c].ops :
          \/ /\ c \in DOMAIN cs /\ i \in DOMAIN cs[c].ops
             /\ ds[c].ops[i].id = cs[c].ops[i].id
          \/ /\ c = c0 /\ i = i0 /\ ds[c].ops[i].id = op
             /\ ~ \E o \in os : o.op = op
             /\ \E o \in qs : o.op = op
    BY DEF NewIds
<1>2. Saved(ds, qs)
    BY <1>1 DEF Saved, NewIds
<1>3. ASSUME NEW c \in DOMAIN ds, NEW d \in DOMAIN ds, NEW i \in DOMAIN ds[c].ops,
             NEW j \in DOMAIN ds[d].ops, ds[c].ops[i].id = ds[d].ops[j].id
      PROVE  c = d /\ i = j
    <2>1. CASE c \in DOMAIN cs /\ i \in DOMAIN cs[c].ops /\ ds[c].ops[i].id = cs[c].ops[i].id
        <3>1. \E o \in os : o.op = ds[c].ops[i].id
            BY <2>1 DEF Saved
        <3>2. d \in DOMAIN cs /\ j \in DOMAIN cs[d].ops /\ ds[d].ops[j].id = cs[d].ops[j].id
            BY <1>1, <1>3, <3>1
        <3>3. cs[c].ops[i].id = cs[d].ops[j].id
            BY <1>3, <2>1, <3>2
        <3> QED BY <2>1, <3>2, <3>3 DEF Unique
    <2>2. CASE /\ c = c0 /\ i = i0 /\ ds[c].ops[i].id = op
               /\ ~ \E o \in os : o.op = op
        <3>1. ~(d \in DOMAIN cs /\ j \in DOMAIN cs[d].ops /\ ds[d].ops[j].id = cs[d].ops[j].id)
            BY <1>3, <2>2 DEF Saved
        <3> QED BY <1>1, <2>2, <3>1
    <2> QED BY <1>1, <2>1, <2>2
<1> QED BY <1>2, <1>3 DEF Unique

\* Every worker still knows its chat after a command.
LEMMA CommandKeeps ==
    ASSUME SInv, worker' = worker, Grows(chats, chats'),
           NEW op, NewIds(chats, chats', operations, operations', op)
    PROVE  SInv'
<1>1. ASSUME NEW v \in Workers PROVE Informed(worker[v], chats')
    <2> SUFFICES ASSUME worker[v] # Idle
                 PROVE  /\ DOMAIN worker[v] = WorkerFields /\ worker[v].chat \in DOMAIN chats'
                        /\ Knows(worker[v], chats'[worker[v].chat])
        BY DEF Informed
    <2> DEFINE x == worker[v]
               c == x.chat
    <2>1. DOMAIN x = WorkerFields /\ c \in DOMAIN chats /\ Knows(x, chats[c])
        BY DEF SInv, Informed
    <2>2. Good(chats[c]) /\ c \in DOMAIN chats' /\ Good(chats'[c]) /\ Spares(chats[c], chats'[c], 0, 0, 0)
        BY <2>1 DEF SInv, Grows
    <2> HIDE DEF x, c
    <2>3. x.lease # 0 /\ x.attempt # 0 /\ (x.pc \in Calling => x.call # 0)
        BY <2>1, <2>2, KnowsPositive
    <2>4. Knows(x, chats'[c])
        BY <2>1, <2>2, <2>3, Bystander
    <2> QED BY <2>1, <2>2, <2>4 DEF x, c
<1>2. Saved(chats', operations') /\ Unique(chats')
    BY IdsKept DEF SInv
<1> QED BY <1>1, <1>2 DEF SInv, Grows

\* The draft of the newest attempt, as PaidDraftKept has it.
Kept == \A c \in DOMAIN chats :
            LastOp(chats[c]).draft # 0 =>
                \/ LastOp(chats'[c]).task = "reply"
                \/ LastOp(chats'[c]).draft = LastOp(chats[c]).draft

\* A draft that is there is not written again.
LEMMA DraftStays ==
    ASSUME NEW c, Good(c), NEW d, NEW l, NEW n, NEW k, Replaces(c, d, l, n, k), LastOp(c).draft # 0
    PROVE  LastOp(d).draft = LastOp(c).draft
<1>1. Len(c.ops) \in DOMAIN c.ops
    BY Newest DEF Good
<1>2. Len(d.ops) = Len(c.ops)
    <2>1. /\ DOMAIN c.ops = 1..Len(c.ops) /\ DOMAIN d.ops = 1..Len(d.ops)
          /\ Len(c.ops) \in Nat /\ Len(d.ops) \in Nat
        BY SequenceFacts DEF Good, Shaped, Replaces
    <2>2. 1..Len(c.ops) = 1..Len(d.ops)
        BY <2>1 DEF Replaces
    <2> QED BY <2>1, <2>2
<1> QED BY <1>1, <1>2 DEF LastOp, Replaces, Spares

\* Every chat is replaced.
Still == /\ DOMAIN chats' = DOMAIN chats
         /\ \A c \in DOMAIN chats : Replaces(chats[c], chats'[c], 0, 0, 0)

\* A command or a setting that opens no attempt.
LEMMA StillKeeps ==
    ASSUME SInv, Still, worker' = worker, operations \subseteq operations'
    PROVE  SInv' /\ Kept
<1>1. Grows(chats, chats')
    BY DEF Still, Grows, Replaces
<1>2. NewIds(chats, chats', operations, operations', 0)
    BY DEF NewIds, Still, Replaces, Spares
<1>3. Kept
    BY DraftStays DEF Kept, Still, SInv
<1> QED BY <1>1, <1>2, <1>3, CommandKeeps

\* The call a worker is at, if any.
Own(x) == IF x.pc \in Calling THEN x.call ELSE 0

\* Every chat is replaced, that of worker w under its own lease, attempt and call.
Rewrites(w) ==
    /\ DOMAIN chats' = DOMAIN chats
    /\ \A c \in DOMAIN chats :
           \/ Replaces(chats[c], chats'[c], 0, 0, 0)
           \/ /\ worker[w] # Idle /\ c = worker[w].chat
              /\ Replaces(chats[c], chats'[c], worker[w].lease, worker[w].attempt, Own(worker[w]))

\* The other workers still know their chats.
LEMMA OthersInformed ==
    ASSUME SInv, NEW w \in Workers, Rewrites(w), NEW v \in Workers, v # w
    PROVE  Informed(worker[v], chats')
<1> SUFFICES ASSUME worker[v] # Idle
             PROVE  /\ DOMAIN worker[v] = WorkerFields /\ worker[v].chat \in DOMAIN chats'
                    /\ Knows(worker[v], chats'[worker[v].chat])
    BY DEF Informed
<1> DEFINE x == worker[v]
           c == x.chat
<1>1. DOMAIN x = WorkerFields /\ c \in DOMAIN chats /\ Knows(x, chats[c])
    BY DEF SInv, Informed
<1>2. Good(chats[c]) /\ c \in DOMAIN chats'
    BY <1>1 DEF SInv, Rewrites
<1> HIDE DEF x, c
<1>3. x.lease # 0 /\ x.attempt # 0 /\ (x.pc \in Calling => x.call # 0)
    BY <1>1, <1>2, KnowsPositive
<1>4. CASE Replaces(chats[c], chats'[c], 0, 0, 0)
    <2>1. Knows(x, chats'[c])
        BY <1>1, <1>2, <1>3, <1>4, Bystander DEF Replaces
    <2> QED BY <1>1, <1>2, <2>1 DEF x, c
<1>5. CASE /\ worker[w] # Idle /\ c = worker[w].chat
           /\ Replaces(chats[c], chats'[c], worker[w].lease, worker[w].attempt, Own(worker[w]))
    <2> DEFINE y == worker[w]
    <2>1. Distinct(y, x)
        BY DEF SInv, x
    <2>2. /\ x.lease # y.lease /\ x.attempt # y.attempt
          /\ x.pc \in Calling => x.call # Own(y)
        BY <1>3, <1>5, <2>1 DEF Distinct, Own, x, c
    <2>3. Good(chats'[c]) /\ Spares(chats[c], chats'[c], y.lease, y.attempt, Own(y))
        BY <1>5 DEF Replaces
    <2> HIDE DEF y
    <2>4. Knows(x, chats'[c])
        BY <1>1, <1>2, <2>2, <2>3, Bystander
    <2> QED BY <1>1, <1>2, <2>4 DEF x, c
<1> QED BY <1>1, <1>4, <1>5 DEF Rewrites

\* A step of a worker that still knows its chat afterwards.
LEMMA WorkerKeeps ==
    ASSUME SInv, NEW w \in Workers, Rewrites(w), operations' = operations,
           DOMAIN worker' = Workers, \A v \in Workers : v # w => worker'[v] = worker[v],
           Informed(worker'[w], chats'),
           \A v \in Workers : v # w => Distinct(worker'[w], worker[v])
    PROVE  SInv' /\ Kept
<1>1. ASSUME NEW c \in DOMAIN chats
      PROVE  /\ c \in DOMAIN chats' /\ Good(chats[c]) /\ Good(chats'[c])
             /\ \E l, n, k : Replaces(chats[c], chats'[c], l, n, k)
    BY DEF SInv, Rewrites, Replaces
<1>2. NewIds(chats, chats', operations, operations', 0)
    <2>1. ASSUME NEW c \in DOMAIN chats
          PROVE  /\ DOMAIN chats'[c].ops = DOMAIN chats[c].ops
                 /\ \A i \in DOMAIN chats[c].ops : chats'[c].ops[i].id = chats[c].ops[i].id
        BY <1>1 DEF Replaces, Spares
    <2> QED BY <2>1 DEF NewIds, Rewrites
<1>3. Saved(chats', operations') /\ Unique(chats')
    BY <1>2, IdsKept DEF SInv
<1>4. Kept
    BY <1>1, DraftStays DEF Kept
<1>5. \A v \in Workers : Informed(worker'[v], chats')
    BY OthersInformed
<1>6. ASSUME NEW u \in Workers, NEW v \in Workers, u # v PROVE Distinct(worker'[u], worker'[v])
    <2>1. CASE u = w
        BY <1>6, <2>1
    <2>2. CASE v = w
        BY <1>6, <2>2 DEF Distinct
    <2>3. CASE u # w /\ v # w
        BY <1>6, <2>3 DEF SInv
    <2> QED BY <2>1, <2>2, <2>3
<1> QED BY <1>1, <1>3, <1>4, <1>5, <1>6 DEF SInv, Rewrites

=============================================================================
