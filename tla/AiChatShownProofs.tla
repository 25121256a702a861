-------------------------- MODULE AiChatShownProofs --------------------------
(***************************************************************************)
(* What a reader is shown of a chat is what the chat holds, and a draft    *)
(* that was paid for is kept, for any number of workers, chats and         *)
(* commands.                                                               *)
(***************************************************************************)
EXTENDS AiChatRows

-----------------------------------------------------------------------------
(* Commands, settings and time.                                            *)

\* A chat that is not written.
LEMMA UnwrittenReplaces ==
    ASSUME NEW c, Good(c)
    PROVE  Replaces(c, c, 0, 0, 0)
BY SparesSelf DEF Replaces

\* What no reader is shown is written.
LEMMA HiddenReplaces ==
    ASSUME NEW c, Good(c)
    PROVE  /\ Replaces(c, runnable_now(c), 0, 0, 0) /\ Replaces(c, prioritize(c), 0, 0, 0)
           /\ \A x : Replaces(c, [c EXCEPT !.expired = x], 0, 0, 0)
           /\ \A x : Replaces(c, [c EXCEPT !.offpeak = x], 0, 0, 0)
<1>1. DOMAIN c = ChatFields
    BY DEF Good, Shaped
<1>2. ASSUME NEW d, Hidden(c, d) PROVE Replaces(c, d, 0, 0, 0)
    BY <1>2, BesideGood DEF Replaces, Hidden
<1> QED BY Zenon, <1>1, <1>2, HiddenIs

\* One chat is written.
LEMMA OneReplaced ==
    ASSUME SInv, NEW c \in DOMAIN chats, NEW d, Put(c, d), Replaces(chats[c], d, 0, 0, 0)
    PROVE  Still
<1>1. ASSUME NEW b \in DOMAIN chats PROVE Replaces(chats[b], chats'[b], 0, 0, 0)
    <2>1. CASE b = c
        BY <2>1 DEF Put
    <2>2. CASE b # c
        <3>1. Good(chats[b]) /\ chats'[b] = chats[b]
            BY <2>2 DEF Put, SInv
        <3> QED BY <3>1, UnwrittenReplaces
    <2> QED BY <2>1, <2>2
<1> QED BY <1>1 DEF Still, Put

\* No chat is written.
LEMMA NoneReplaced ==
    ASSUME SInv, chats' = chats
    PROVE  Still
BY UnwrittenReplaces DEF Still, SInv

\* Stop.
LEMMA StopShown ==
    ASSUME SInv, NEW c \in DOMAIN chats, stop(c)
    PROVE  SInv' /\ Kept
<1>1. PICK a : a = [chats[c] EXCEPT !.status = "cancelled"]
    OBVIOUS
<1>2. PICK d : d = write_record(set_attempt(interrupt(a), "interrupted"))
    OBVIOUS
<1>3. Put(c, d)
    BY <1>1, <1>2 DEF stop
<1>4. Good(chats[c])
    BY DEF SInv
<1>5. Beside(chats[c], a) /\ a.lease = chats[c].lease /\ ~pending(a.status)
    BY <1>1, <1>4 DEF Good, Shaped, Beside, ChatFields, pending
<1>6. Still
    BY <1>2, <1>3, <1>4, <1>5, EndReplaces, OneReplaced
<1> QED BY <1>6, StillKeeps DEF stop

\* Opening the article.
LEMMA OpenChatsShown ==
    ASSUME SInv, open_chats
    PROVE  SInv' /\ Kept
<1>1. ASSUME NEW c \in DOMAIN chats PROVE Replaces(chats[c], chats'[c], 0, 0, 0)
    <2>1. Good(chats[c]) /\ chats'[c] \in {chats[c], prioritize(chats[c])}
        BY DEF SInv, open_chats
    <2> QED BY <2>1, UnwrittenReplaces, HiddenReplaces
<1>2. Still
    BY <1>1 DEF Still, open_chats
<1> QED BY <1>2, StillKeeps DEF open_chats

\* A key is removed.
LEMMA DeleteCredentialShown ==
    ASSUME SInv, delete_credential
    PROVE  SInv' /\ Kept
<1>1. ASSUME NEW c \in DOMAIN chats PROVE Replaces(chats[c], chats'[c], 0, 0, 0)
    <2>1. Good(chats[c])
        BY DEF SInv
    <2>2. CASE ~pending(chats[c].status)
        <3>1. chats'[c] = chats[c]
            BY <2>2 DEF delete_credential
        <3> QED BY <2>1, <3>1, UnwrittenReplaces
    <2>3. CASE pending(chats[c].status)
        <3>1. PICK a : a = [chats[c] EXCEPT !.status = "cancelled", !.error = "missing_key"]
            OBVIOUS
        <3>2. Beside(chats[c], a) /\ a.lease = chats[c].lease /\ ~pending(a.status)
            BY <2>1, <3>1 DEF Good, Shaped, Beside, ChatFields, pending
        <3>3. chats'[c] = write_record(set_attempt(interrupt(a), "interrupted"))
            BY <2>3, <3>1 DEF delete_credential
        <3> QED BY <2>1, <3>2, <3>3, EndReplaces
    <2> QED BY <2>2, <2>3
<1>2. Still
    BY <1>1 DEF Still, delete_credential
<1> QED BY <1>2, StillKeeps DEF delete_credential

\* The other settings, the full text and the time.
LEMMA SettingShown ==
    ASSUME SInv, Setting
    PROVE  SInv' /\ Kept
<1>1. CASE save_model_preferences \/ PeakEnds
    <2>1. ASSUME NEW c \in DOMAIN chats PROVE Replaces(chats[c], chats'[c], 0, 0, 0)
        <3>1. /\ Good(chats[c])
              /\ chats'[c] \in {chats[c], runnable_now(chats[c]), [chats[c] EXCEPT !.offpeak = FALSE]}
            BY <1>1 DEF SInv, save_model_preferences, PeakEnds
        <3>2. CASE chats'[c] = chats[c]
            BY <3>1, <3>2, UnwrittenReplaces
        <3>3. CASE chats'[c] \in {runnable_now(chats[c]), [chats[c] EXCEPT !.offpeak = FALSE]}
            BY <3>1, <3>3, HiddenReplaces
        <3> QED BY <3>1, <3>2, <3>3
    <2>2. Still /\ worker' = worker /\ operations' = operations
        BY <1>1, <2>1 DEF Still, save_model_preferences, PeakEnds
    <2> QED BY <2>2, StillKeeps
<1>2. CASE save_credential \/ (\E r \in {"ready", "failed"} : FullText(r)) \/ PeakBegins \/ Midnight
    <2>1. chats' = chats /\ worker' = worker /\ operations' = operations
        BY <1>2 DEF save_credential, FullText, PeakBegins, Midnight
    <2> QED BY <2>1, NoneReplaced, StillKeeps
<1> QED BY <1>1, <1>2, DeleteCredentialShown DEF Setting

\* A lease runs out.
LEMMA LeaseShown ==
    ASSUME SInv, NEW c \in DOMAIN chats, LeaseExpires(c) \/ LeaseOverrun(c)
    PROVE  SInv' /\ Kept
<1>1. PICK d : d = [chats[c] EXCEPT !.expired = TRUE]
    OBVIOUS
<1>2. Put(c, d) /\ worker' = worker /\ operations' = operations
    BY <1>1 DEF LeaseExpires, LeaseOverrun, Expire
<1>3. Good(chats[c])
    BY DEF SInv
<1>4. Replaces(chats[c], d, 0, 0, 0)
    BY <1>1, <1>3, HiddenReplaces
<1> QED BY <1>2, <1>4, OneReplaced, StillKeeps

\* A message or a retry opens an attempt.
LEMMA AppendShown ==
    ASSUME SInv, NEW op, sent[op].chat \in DOMAIN chats, append(op), worker' = worker
    PROVE  SInv' /\ Kept
<1> DEFINE r == sent[op]
           c == chats[r.chat]
           task == IF r.kind = "message" THEN [task |-> "reply", draft |-> 0] ELSE retried(c)
<1>1. Good(c)
    BY DEF SInv
<1>2. PICK d : d = Opened(c, op, r.kind, task.task, task.draft)
    OBVIOUS
<1>3. /\ appendable(op, c, r.kind) /\ Put(r.chat, d)
      /\ operations' = operations \cup {[op |-> op, chat |-> r.chat, kind |-> r.kind]}
    BY <1>2 DEF append, Opened
<1>4. task.task = "reply" \/ (task.task = LastOp(c).task /\ task.draft = LastOp(c).draft)
    BY DEF retried
<1>5. task.task = "summary" /\ task.draft # 0 => Done(c, task.draft)
    BY <1>1, <1>4, Newest DEF Good, Sourced, LastOp
<1> HIDE DEF task
<1>6. Extends(c, d, op) /\ LastOp(d).task = task.task /\ LastOp(d).draft = task.draft
    BY <1>1, <1>2, <1>5, OpenedExtends
<1>7. /\ DOMAIN chats' = DOMAIN chats /\ chats'[r.chat] = d
      /\ \A b \in DOMAIN chats : b # r.chat => chats'[b] = chats[b]
    BY <1>3 DEF Put
<1>8. Grows(chats, chats')
    BY <1>6, <1>7, SparesSelf DEF Grows, Extends, SInv
<1>9. NewIds(chats, chats', operations, operations', op)
    <2>1. /\ operations \subseteq operations' /\ ~ \E o \in operations : o.op = op
          /\ \E o \in operations' : o.op = op
        <3>1. PICK o : o = [op |-> op, chat |-> r.chat, kind |-> r.kind]
            OBVIOUS
        <3>2. o.op = op /\ operations' = operations \cup {o}
            BY <1>3, <3>1
        <3> QED BY <1>3, <3>2 DEF appendable, prior_operation
    <2>2. ASSUME NEW b \in DOMAIN chats', NEW i \in DOMAIN chats'[b].ops
          PROVE  \/ /\ b \in DOMAIN chats /\ i \in DOMAIN chats[b].ops
                    /\ chats'[b].ops[i].id = chats[b].ops[i].id
                 \/ b = r.chat /\ i = Len(c.ops) + 1 /\ chats'[b].ops[i].id = op
        <3>1. CASE b = r.chat
            BY <1>6, <1>7, <3>1 DEF Extends, Spares
        <3>2. CASE b # r.chat
            BY <1>7, <3>2
        <3> QED BY <3>1, <3>2
    <2> QED BY <2>1, <2>2 DEF NewIds
<1>10. SInv'
    BY <1>8, <1>9, CommandKeeps
<1>11. Kept
    BY <1>4, <1>6, <1>7 DEF Kept
<1> QED BY <1>10, <1>11

\* A chat x is added, with one attempt.
LEMMA AddedShown ==
    ASSUME SInv, worker' = worker, NEW op, NEW x, Good(x), DOMAIN x.ops = {1}, x.ops[1].id = op,
           NEW n, n \notin DOMAIN chats, DOMAIN chats' = DOMAIN chats \cup {n}, chats'[n] = x,
           \A c \in DOMAIN chats : chats'[c] = chats[c],
           prior_operation(op) = {}, NEW o, o.op = op, operations' = operations \cup {o}
    PROVE  SInv' /\ Kept
<1>1. Grows(chats, chats')
    BY SparesSelf DEF Grows, SInv
<1>2. /\ operations \subseteq operations' /\ ~ \E q \in operations : q.op = op
      /\ \E q \in operations' : q.op = op
    BY DEF prior_operation
<1>3. ASSUME NEW c \in DOMAIN chats', NEW i \in DOMAIN chats'[c].ops
      PROVE  \/ /\ c \in DOMAIN chats /\ i \in DOMAIN chats[c].ops
                /\ chats'[c].ops[i].id = chats[c].ops[i].id
             \/ c = n /\ i = 1 /\ chats'[c].ops[i].id = op
    BY <1>3
<1>4. NewIds(chats, chats', operations, operations', op)
    BY <1>2, <1>3 DEF NewIds
<1>5. Kept
    BY DEF Kept
<1> QED BY <1>1, <1>4, <1>5, CommandKeeps

\* A chat is created, or the one that is there is put first.
LEMMA CreateShown ==
    ASSUME SInv, Sequence(chats), NEW op, create_chat(op), worker' = worker
    PROVE  SInv' /\ Kept
<1> DEFINE r == sent[op]
           x == NewChat(op, r.kind, r.input, r.automatic)
           n == Len(chats) + 1
           cs == Append(chats, x)
<1>1. \/ /\ \/ chats' = chats
            \/ chats' = [chats EXCEPT ![Len(chats)] = prioritize(chats[Len(chats)])]
         /\ operations \subseteq operations'
      \/ /\ \/ chats' = cs
            \/ chats' = [cs EXCEPT ![Len(cs)] = prioritize(cs[Len(cs)])]
         /\ operations' = operations \cup {[op |-> op, chat |-> n, kind |-> r.kind]}
         /\ prior_operation(op) = {}
    BY DEF create_chat
<1>2. Good(x) /\ DOMAIN x.ops = {1} /\ x.ops[1].id = op
    BY NewChatGood
<1> HIDE DEF x
<1>3. ASSUME \/ chats' = chats
             \/ chats' = [chats EXCEPT ![Len(chats)] = prioritize(chats[Len(chats)])]
      PROVE  Still
    <2>1. ASSUME NEW c \in DOMAIN chats PROVE Replaces(chats[c], chats'[c], 0, 0, 0)
        <3>1. Good(chats[c]) /\ chats'[c] \in {chats[c], prioritize(chats[c])}
            BY <1>3 DEF SInv
        <3> QED BY <3>1, UnwrittenReplaces, HiddenReplaces
    <2> QED BY <1>3, <2>1 DEF Still
<1>4. /\ Len(cs) = n /\ DOMAIN cs = DOMAIN chats \cup {n} /\ cs[n] = x /\ n \notin DOMAIN chats
      /\ \A c \in DOMAIN chats : cs[c] = chats[c]
    BY Appended, SequenceFacts
<1> HIDE DEF cs, n
<1>5. ASSUME \/ chats' = cs
             \/ chats' = [cs EXCEPT ![Len(cs)] = prioritize(cs[Len(cs)])]
      PROVE  /\ DOMAIN chats' = DOMAIN chats \cup {n} /\ chats'[n] \in {x, prioritize(x)}
             /\ \A c \in DOMAIN chats : chats'[c] = chats[c]
    BY <1>4, <1>5
<1>6. Good(prioritize(x)) /\ prioritize(x).ops = x.ops
    <2>1. DOMAIN x = ChatFields
        BY <1>2 DEF Good, Shaped
    <2> QED BY <1>2, <2>1, HiddenReplaces, HiddenIs DEF Replaces, Hidden, Beside
<1>7. CASE /\ \/ chats' = chats
              \/ chats' = [chats EXCEPT ![Len(chats)] = prioritize(chats[Len(chats)])]
           /\ operations \subseteq operations'
    BY <1>3, <1>7, StillKeeps
<1>8. CASE /\ \/ chats' = cs
              \/ chats' = [cs EXCEPT ![Len(cs)] = prioritize(cs[Len(cs)])]
           /\ operations' = operations \cup {[op |-> op, chat |-> n, kind |-> r.kind]}
           /\ prior_operation(op) = {}
    <2>1. PICK o : o = [op |-> op, chat |-> n, kind |-> r.kind]
        OBVIOUS
    <2>2. o.op = op /\ operations' = operations \cup {o}
        BY <1>8, <2>1
    <2>3. PICK y : y = chats'[n]
        OBVIOUS
    <2>4. Good(y) /\ DOMAIN y.ops = {1} /\ y.ops[1].id = op
        BY <1>2, <1>5, <1>6, <1>8, <2>3
    <2> QED BY <1>4, <1>5, <1>8, <2>2, <2>3, <2>4, AddedShown
<1> QED BY <1>1, <1>7, <1>8

\* The commands of the reader.
LEMMA CommandShown ==
    ASSUME Sequence(chats), SInv, Command
    PROVE  SInv' /\ Kept
<1>1. ASSUME NEW op, Execute(op) PROVE SInv' /\ Kept
    <2>1. worker' = worker /\ (create_chat(op) \/ append(op))
        BY <1>1 DEF Execute
    <2>2. CASE create_chat(op)
        BY <2>1, <2>2, CreateShown
    <2>3. CASE append(op) /\ sent[op].chat \in DOMAIN chats
        BY <2>1, <2>3, AppendShown
    <2>4. CASE append(op) /\ sent[op].chat \notin DOMAIN chats
        <3>1. PICK d : Put(sent[op].chat, d) /\ operations \subseteq operations'
            BY <2>4 DEF append
        <3>2. DOMAIN chats' = DOMAIN chats /\ \A c \in DOMAIN chats : chats'[c] = chats[c]
            BY <2>4, <3>1 DEF Put
        <3>3. Still
            BY <3>2, UnwrittenReplaces DEF Still, SInv
        <3> QED BY <2>1, <3>1, <3>3, StillKeeps
    <2> QED BY <2>1, <2>2, <2>3, <2>4
<1>2. ASSUME \/ \E op \in Ops, k \in {"start", "new"}, a \in BOOLEAN : check_start(op, k, a)
             \/ \E op \in Ops, k \in {"message", "retry"}, c \in DOMAIN chats : check_enqueue(op, k, c)
      PROVE  SInv' /\ Kept
    <2>1. chats' = chats /\ worker' = worker /\ operations' = operations
        BY <1>2 DEF check_start, check_enqueue
    <2> QED BY <2>1, NoneReplaced, StillKeeps
<1> QED BY <1>1, <1>2, StopShown, OpenChatsShown DEF Command

-----------------------------------------------------------------------------
(* The steps of a worker.                                                  *)

\* Worker w goes on as y, in a chat it still knows, at its own call or at a new one.
Continues(w, y) ==
    LET x == worker[w] IN
    /\ DOMAIN y = WorkerFields
    /\ y.chat = x.chat /\ y.lease = x.lease /\ y.attempt = x.attempt
    /\ Knows(y, chats'[x.chat])
    /\ y.pc \in Calling => \/ x.pc \in Calling /\ y.call = x.call
                           \/ y.call \notin DOMAIN chats[x.chat].calls

\* A worker that becomes idle or goes on is no trouble to the others.
LEMMA GoesOn ==
    ASSUME SInv, NEW w \in Workers, worker[w] # Idle, Rewrites(w), operations' = operations,
           NEW y, worker' = [worker EXCEPT ![w] = y], y = Idle \/ Continues(w, y)
    PROVE  SInv' /\ Kept
<1>1. /\ DOMAIN worker' = Workers /\ worker'[w] = y
      /\ \A v \in Workers : v # w => worker'[v] = worker[v]
    BY DEF SInv
<1>2. Informed(worker[w], chats) /\ DOMAIN chats' = DOMAIN chats
    BY DEF SInv, Rewrites
<1>3. Informed(y, chats')
    BY <1>2 DEF Informed, Continues
<1>4. ASSUME NEW v \in Workers, v # w PROVE Distinct(y, worker[v])
    <2>1. Distinct(worker[w], worker[v]) /\ Informed(worker[v], chats)
        BY <1>4 DEF SInv
    <2>2. worker[v] # Idle /\ worker[v].pc \in Calling =>
              worker[v].call \in DOMAIN chats[worker[v].chat].calls
        BY <2>1 DEF Informed, Knows
    <2> QED BY <2>1, <2>2 DEF Distinct, Continues
<1> QED BY <1>1, <1>3, <1>4, WorkerKeeps

\* The worker writes its own chat, or none.
LEMMA OwnRewritten ==
    ASSUME SInv, NEW w \in Workers, worker[w] # Idle,
           \/ chats' = chats
           \/ \E d : /\ Put(worker[w].chat, d)
                     /\ \/ Replaces(Mine(w), d, 0, 0, 0)
                        \/ Replaces(Mine(w), d, worker[w].lease, worker[w].attempt, Own(worker[w]))
    PROVE  Rewrites(w)
<1>1. CASE chats' = chats
    BY <1>1, UnwrittenReplaces DEF Rewrites, SInv
<1>2. ASSUME NEW d, Put(worker[w].chat, d),
             \/ Replaces(Mine(w), d, 0, 0, 0)
             \/ Replaces(Mine(w), d, worker[w].lease, worker[w].attempt, Own(worker[w]))
      PROVE  Rewrites(w)
    <2>1. /\ DOMAIN chats' = DOMAIN chats
          /\ \A c \in DOMAIN chats : chats'[c] = IF c = worker[w].chat THEN d ELSE chats[c]
        BY <1>2 DEF Put
    <2>2. ASSUME NEW c \in DOMAIN chats, c # worker[w].chat PROVE Replaces(chats[c], chats'[c], 0, 0, 0)
        BY <2>1, <2>2, UnwrittenReplaces DEF SInv
    <2> QED BY <1>2, <2>1, <2>2 DEF Rewrites, Mine
<1> QED BY <1>1, <1>2

\* What a worker starts from.
LEMMA AtWork ==
    ASSUME SInv, NEW w \in Workers, worker[w] # Idle
    PROVE  /\ DOMAIN worker[w] = WorkerFields /\ worker[w].chat \in DOMAIN chats
           /\ Good(Mine(w)) /\ Knows(worker[w], Mine(w))
           /\ worker[w].lease # 0
<1>1. Informed(worker[w], chats)
    BY DEF SInv
<1>2. /\ DOMAIN worker[w] = WorkerFields /\ worker[w].chat \in DOMAIN chats
      /\ Knows(worker[w], Mine(w))
    BY <1>1 DEF Informed, Mine
<1>3. Good(Mine(w))
    BY <1>2 DEF SInv, Mine
<1> QED BY <1>2, <1>3, KnowsPositive

\* The worker stops.
LEMMA Quits ==
    ASSUME SInv, NEW w \in Workers, worker[w] # Idle, Rewrites(w), operations' = operations, Quit(w)
    PROVE  SInv' /\ Kept
BY GoesOn DEF Quit

\* The worker moves to a place without a call, or on with an answer; no chat is written.
LEMMA Moves ==
    ASSUME SInv, NEW w \in Workers, worker[w] # Idle, chats' = chats, operations' = operations,
           NEW s, s \notin Calling \/ (worker[w].pc = "answered" /\ s = "finish"),
           Goto(w, s) \/ \E e : s = "failing" /\ Fails(w, e)
    PROVE  SInv' /\ Kept
<1> DEFINE x == worker[w]
           y == worker'[w]
<1>1. DOMAIN x = WorkerFields /\ x.chat \in DOMAIN chats /\ Knows(x, chats[x.chat])
    BY AtWork DEF Mine
<1>2. /\ worker' = [worker EXCEPT ![w] = y] /\ DOMAIN y = WorkerFields /\ y.pc = s
      /\ y.chat = x.chat /\ y.lease = x.lease /\ y.attempt = x.attempt
      /\ y.task = x.task /\ y.draft = x.draft /\ y.call = x.call
    BY <1>1 DEF Goto, Fails, SInv, WorkerFields
<1>3. Knows(y, chats[x.chat])
    BY <1>1, <1>2 DEF Knows, Calling
<1>4. Continues(w, y) /\ Rewrites(w)
    BY <1>1, <1>2, <1>3, OwnRewritten DEF Continues, Calling
<1> QED BY <1>2, <1>4, GoesOn

\* The worker writes its chat and goes on as y.
LEMMA WritesOn ==
    ASSUME SInv, NEW w \in Workers, worker[w] # Idle, operations' = operations,
           NEW d, Put(worker[w].chat, d),
           \/ Replaces(Mine(w), d, 0, 0, 0)
           \/ Replaces(Mine(w), d, worker[w].lease, worker[w].attempt, Own(worker[w])),
           NEW y, worker' = [worker EXCEPT ![w] = y], DOMAIN y = WorkerFields,
           y.chat = worker[w].chat, y.lease = worker[w].lease, y.attempt = worker[w].attempt,
           Knows(y, d),
           y.pc \in Calling => \/ worker[w].pc \in Calling /\ y.call = worker[w].call
                               \/ y.call \notin DOMAIN Mine(w).calls
    PROVE  SInv' /\ Kept
<1>1. Rewrites(w)
    BY OwnRewritten
<1>2. chats'[worker[w].chat] = d
    BY AtWork DEF Put
<1>3. Continues(w, y)
    BY <1>2 DEF Continues, Mine
<1> QED BY <1>1, <1>3, GoesOn

\* The worker writes its chat under its lease, gives the lease up and stops.
LEMMA WritesLast ==
    ASSUME SInv, NEW w \in Workers, worker[w] # Idle, operations' = operations,
           NEW d, Put(worker[w].chat, d), Mine(w).lease = worker[w].lease,
           Replaces(Mine(w), d, Mine(w).lease, 0, 0), Quit(w)
    PROVE  SInv' /\ Kept
<1>1. Good(Mine(w))
    BY AtWork
<1>2. Replaces(Mine(w), d, worker[w].lease, worker[w].attempt, Own(worker[w]))
    BY <1>1, ReplacedBy
<1>3. Rewrites(w)
    BY <1>2, OwnRewritten
<1> QED BY <1>3, Quits

\* A worker x that goes on as y knows the chat that was written.
LEMMA StillKnows ==
    ASSUME NEW c, Good(c), NEW x, Knows(x, c), NEW k, NEW d, Replaces(c, d, 0, 0, k),
           NEW y, y.lease = x.lease, y.attempt = x.attempt, y.task = x.task, y.draft = x.draft,
           y.pc \in Calling => y.call \in DOMAIN d.calls /\ d.calls[y.call].status # "completed",
           y.pc \in {"answered", "finish"} => d.calls[y.call].usage = TRUE
    PROVE  Knows(y, d)
<1>1. PICK z : z = [lease |-> x.lease, attempt |-> x.attempt, task |-> x.task, draft |-> x.draft,
                    pc |-> "idle"]
    OBVIOUS
<1>2. /\ z.lease = x.lease /\ z.attempt = x.attempt /\ z.task = x.task /\ z.draft = x.draft
      /\ z.pc = "idle" /\ z.pc \notin Calling
    BY <1>1 DEF Calling
<1>3. Knows(z, c)
    BY <1>2 DEF Knows
<1>4. Knows(z, d)
    BY <1>2, <1>3, KnowsPositive, Bystander DEF Replaces
<1> QED BY <1>2, <1>4 DEF Knows

\* Its call is still running when no call completed.
LEMMA StillRuns ==
    ASSUME NEW c, Good(c), NEW d, Replaces(c, d, 0, 0, 0),
           NEW k \in DOMAIN c.calls, c.calls[k].status # "completed"
    PROVE  /\ k \in DOMAIN d.calls /\ d.calls[k].status # "completed"
           /\ c.calls[k].usage = TRUE => d.calls[k].usage = TRUE
BY Newest DEF Good, Replaces, Spares

\* The worker writes its chat, completes nothing and moves.
LEMMA WritesMoves ==
    ASSUME SInv, NEW w \in Workers, worker[w] # Idle, operations' = operations,
           NEW d, Put(worker[w].chat, d), Replaces(Mine(w), d, 0, 0, 0),
           NEW s, Goto(w, s) \/ \E e : s = "failing" /\ Fails(w, e),
           s \in Calling => worker[w].pc \in Calling,
           s \in {"answered", "finish"} => d.calls[worker[w].call].usage = TRUE
    PROVE  SInv' /\ Kept
<1> DEFINE x == worker[w]
           y == worker'[w]
<1>1. DOMAIN x = WorkerFields /\ Good(Mine(w)) /\ Knows(x, Mine(w))
    BY AtWork
<1>2. /\ worker' = [worker EXCEPT ![w] = y] /\ DOMAIN y = WorkerFields /\ y.pc = s
      /\ y.chat = x.chat /\ y.lease = x.lease /\ y.attempt = x.attempt
      /\ y.task = x.task /\ y.draft = x.draft /\ y.call = x.call
    BY <1>1 DEF Goto, Fails, SInv, WorkerFields
<1>3. s \in Calling => x.call \in DOMAIN d.calls /\ d.calls[x.call].status # "completed"
    <2>1. PICK c, k : c = Mine(w) /\ k = x.call
        OBVIOUS
    <2>2. s \in Calling => k \in DOMAIN c.calls /\ c.calls[k].status # "completed"
        BY <1>1, <2>1 DEF Knows
    <2> QED BY <1>1, <2>1, <2>2, StillRuns
<1>4. Knows(y, d)
    BY <1>1, <1>2, <1>3, StillKnows
<1> HIDE DEF y
<1> QED BY <1>2, <1>4, WritesOn

\* A claim that is still good writes progress, or an end.
LEMMA FencedWrites ==
    ASSUME SInv, NEW w \in Workers, worker[w] # Idle, fenced(w), NEW a, a = Mine(w) \/ Hidden(Mine(w), a),
           NEW next \in {"generating", "verifying", "interrupted", "failed", "waiting_content"},
           NEW content, NEW error, NEW d, d = update_claim(a, next, content, error)
    PROVE  /\ Mine(w).lease = worker[w].lease
           /\ Replaces(Mine(w), d, Mine(w).lease, 0, 0)
           /\ next \in {"generating", "verifying"} => Replaces(Mine(w), d, 0, 0, 0)
<1>1. Good(Mine(w)) /\ pending(Mine(w).status) /\ Mine(w).lease = worker[w].lease
    BY AtWork DEF fenced
<1>2. Beside(Mine(w), a) /\ a.lease = Mine(w).lease
    BY <1>1 DEF Good, Shaped, Beside, Hidden
<1> QED BY <1>1, <1>2, UpdateClaimReplaces

\* The full text is pinned.
LEMMA ResolveShown ==
    ASSUME SInv, NEW w \in Workers, resolve_snapshot(w)
    PROVE  SInv' /\ Kept
<1>1. worker[w] # Idle /\ operations' = operations
    <2>1. worker[w].pc = "snapshot" /\ Rest
        BY DEF resolve_snapshot
    <2> QED BY <2>1 DEF Idle, Rest
<1>2. CASE Fails(w, "fulltext") /\ UNCHANGED chats
    BY <1>1, <1>2, Moves DEF Calling
<1>3. CASE Quit(w) /\ UNCHANGED chats
    BY <1>1, <1>3, OwnRewritten, Quits
<1>4. CASE fenced(w) /\ Put(worker[w].chat, update_claim(Mine(w), "waiting_content", 0, "none")) /\ Quit(w)
    <2>1. PICK d : d = update_claim(Mine(w), "waiting_content", 0, "none")
        OBVIOUS
    <2>2. Mine(w).lease = worker[w].lease /\ Replaces(Mine(w), d, Mine(w).lease, 0, 0)
        BY <1>1, <1>4, <2>1, FencedWrites
    <2> QED BY <1>1, <1>4, <2>1, <2>2, WritesLast
<1>5. CASE /\ fenced(w) /\ Goto(w, Stage(LastOp(Mine(w))))
           /\ Put(worker[w].chat, update_claim([Mine(w) EXCEPT !.snapshot = TRUE], "generating", 0, "none"))
    <2>1. PICK a, d : a = [Mine(w) EXCEPT !.snapshot = TRUE] /\ d = update_claim(a, "generating", 0, "none")
        OBVIOUS
    <2>2. Hidden(Mine(w), a)
        BY <1>1, <2>1, AtWork, HiddenIs DEF Good, Shaped
    <2>3. Replaces(Mine(w), d, 0, 0, 0)
        BY <1>1, <1>5, <2>1, <2>2, FencedWrites
    <2>4. PICK s : s = Stage(LastOp(Mine(w))) /\ s \notin Calling /\ s \notin {"answered", "finish"}
        BY DEF Stage, Calling
    <2> QED BY <1>1, <1>5, <2>1, <2>3, <2>4, WritesMoves
<1> QED BY <1>2, <1>3, <1>4, <1>5 DEF resolve_snapshot

\* A call begins.
LEMMA BeginShown ==
    ASSUME SInv, NEW w \in Workers, begin_call(w)
    PROVE  SInv' /\ Kept
<1>1. worker[w] # Idle /\ worker[w].pc = "call" /\ operations' = operations
    <2>1. worker[w].pc = "call" /\ Rest
        BY DEF begin_call
    <2> QED BY <2>1 DEF Idle, Rest
<1>2. ASSUME NEW e, Fails(w, e), UNCHANGED chats PROVE SInv' /\ Kept
    BY <1>1, <1>2, Moves DEF Calling
<1>3. CASE Quit(w) /\ UNCHANGED chats
    BY <1>1, <1>3, OwnRewritten, Quits
<1>4. CASE /\ fenced(w) /\ Put(worker[w].chat, begin(Mine(w), CallPhase(w)))
           /\ worker' = [worker EXCEPT ![w].pc = "asked", ![w].call = Len(Mine(w).calls) + 1]
    <2> DEFINE x == worker[w]
               y == worker'[w]
    <2>1. PICK c, d, ph, k : /\ c = Mine(w) /\ ph = CallPhase(w) /\ d = begin(c, ph)
                             /\ k = Len(c.calls) + 1
        OBVIOUS
    <2>2. DOMAIN x = WorkerFields /\ Good(c) /\ Knows(x, c) /\ pending(c.status)
        BY <1>1, <1>4, <2>1, AtWork DEF fenced
    <2>3. ph \in {"generating", "verifying"}
        BY <2>1 DEF CallPhase
    <2>4. /\ Replaces(c, d, 0, 0, 0) /\ k \in DOMAIN d.calls /\ k \notin DOMAIN c.calls
          /\ d.calls[k].status # "completed"
        BY <2>1, <2>2, <2>3, BeginReplaces
    <2>5. /\ worker' = [worker EXCEPT ![w] = y] /\ DOMAIN y = WorkerFields /\ y.pc = "asked"
          /\ y.chat = x.chat /\ y.lease = x.lease /\ y.attempt = x.attempt
          /\ y.task = x.task /\ y.draft = x.draft /\ y.call = k
        BY <1>4, <2>1, <2>2 DEF SInv, WorkerFields
    <2> HIDE DEF x, y
    <2>6. Knows(y, d)
        BY <2>2, <2>4, <2>5, StillKnows
    <2> USE DEF x
    <2> QED BY <1>1, <1>4, <2>1, <2>4, <2>5, <2>6, WritesOn
<1> QED BY <1>2, <1>3, <1>4 DEF begin_call

\* A text that streams is published.
LEMMA PublishShown ==
    ASSUME SInv, NEW w \in Workers, publish(w)
    PROVE  SInv' /\ Kept
<1>1. /\ worker[w] # Idle /\ operations' = operations /\ worker' = worker /\ fenced(w)
      /\ Put(worker[w].chat, update_claim(Mine(w), CallPhase(w), worker[w].call, "none"))
    BY DEF publish, Idle, Rest, active
<1>2. PICK next, d : /\ next = CallPhase(w) /\ next \in {"generating", "verifying"}
                     /\ d = update_claim(Mine(w), next, worker[w].call, "none")
    BY DEF CallPhase
<1>3. Replaces(Mine(w), d, 0, 0, 0)
    BY <1>1, <1>2, FencedWrites
<1>4. worker[w].chat \in DOMAIN chats
    BY <1>1, AtWork
<1>5. Still
    BY <1>1, <1>2, <1>3, <1>4, OneReplaced DEF Mine
<1> QED BY <1>1, <1>5, StillKeeps

\* The bill comes.
LEMMA SettleShown ==
    ASSUME SInv, NEW w \in Workers, settle(w)
    PROVE  SInv' /\ Kept
<1>1. worker[w] # Idle /\ worker[w].pc = "asked" /\ operations' = operations /\ Goto(w, "usage")
    <2>1. worker[w].pc = "asked" /\ Rest /\ Goto(w, "usage")
        BY DEF settle
    <2> QED BY <2>1 DEF Idle, Rest
<1>2. PICK a, d : d = [Mine(w) EXCEPT !.calls[worker[w].call].actual = a] /\ Put(worker[w].chat, d)
    BY DEF settle
<1>3. Good(Mine(w)) /\ worker[w].call \in DOMAIN Mine(w).calls
    BY <1>1, AtWork DEF Knows, Calling
<1>4. Replaces(Mine(w), d, 0, 0, 0)
    BY <1>2, <1>3, CallBookReplaces
<1>5. PICK s : s = "usage" /\ s \notin {"answered", "finish"}
    OBVIOUS
<1> QED BY <1>1, <1>2, <1>4, <1>5, WritesMoves DEF Calling

\* A worker whose call ended, or was accounted for, writes the end of the update.
LEMMA UpdateAfter ==
    ASSUME SInv, NEW w \in Workers, worker[w] # Idle, NEW k, NEW a, CallsOnly(Mine(w), a),
           Replaces(Mine(w), a, 0, 0, k), NEW d, d = update(w, a, a.public)
    PROVE  Replaces(Mine(w), d, 0, 0, k) /\ Replaces(a, d, 0, 0, 0) /\ d.ops = Mine(w).ops
<1>1. Good(Mine(w)) /\ Good(a)
    BY AtWork DEF Replaces
<1>2. fenced(w) => pending(a.status)
    BY DEF fenced, CallsOnly
<1>3. Replaces(a, d, 0, 0, 0) /\ d.ops = a.ops
    BY <1>1, <1>2, UpdateReplaces
<1>4. Replaces(a, d, 0, 0, k)
    BY <1>1, <1>3, ReplacedBy
<1>5. Replaces(Mine(w), d, 0, 0, k)
    BY <1>1, <1>4, ReplacedTwice
<1> QED BY <1>3, <1>5 DEF CallsOnly

\* The usage of a call is saved.
LEMMA UsageShown ==
    ASSUME SInv, NEW w \in Workers, update_usage(w)
    PROVE  SInv' /\ Kept
<1>1. worker[w] # Idle /\ worker[w].pc = "usage" /\ operations' = operations /\ Goto(w, "answered")
    <2>1. worker[w].pc = "usage" /\ Rest /\ Goto(w, "answered")
        BY DEF update_usage
    <2> QED BY <2>1 DEF Idle, Rest
<1>2. PICK c, k, a, d : /\ c = Mine(w) /\ k = worker[w].call /\ a = [c EXCEPT !.calls[k].usage = TRUE]
                        /\ d = update(w, a, c.public)
    OBVIOUS
<1>3. Put(worker[w].chat, d)
    BY <1>2 DEF update_usage
<1>4. Good(c) /\ k \in DOMAIN c.calls /\ c.calls[k].status # "completed"
    BY <1>1, <1>2, AtWork DEF Knows, Calling
<1>5. CallsOnly(c, a) /\ Replaces(c, a, 0, 0, 0) /\ a.calls[k].usage = TRUE
    BY <1>2, <1>4, CallBookReplaces
<1>6. d = update(w, a, a.public)
    BY <1>2, <1>5 DEF CallsOnly
<1>7. Replaces(c, d, 0, 0, 0) /\ Replaces(a, d, 0, 0, 0)
    BY <1>1, <1>2, <1>5, <1>6, UpdateAfter
<1>8. d.calls[k].usage = TRUE
    BY <1>4, <1>5, <1>7 DEF Replaces, Spares
<1> QED BY <1>1, <1>2, <1>3, <1>7, <1>8, WritesMoves DEF Calling

\* A complete answer is published.
LEMMA AnswerShown ==
    ASSUME SInv, NEW w \in Workers, publish_answer(w)
    PROVE  SInv' /\ Kept
<1>1. worker[w] # Idle /\ worker[w].pc = "answered" /\ operations' = operations
    <2>1. worker[w].pc = "answered" /\ Rest
        BY DEF publish_answer
    <2> QED BY <2>1 DEF Idle, Rest
<1>2. PICK c, k : c = Mine(w) /\ k = worker[w].call
    OBVIOUS
<1>3. /\ Good(c) /\ k \in DOMAIN c.calls /\ c.calls[k].status # "completed"
      /\ c.calls[k].usage = TRUE /\ worker[w].chat \in DOMAIN chats
    BY <1>1, <1>2, AtWork DEF Knows, Calling
<1>4. CASE Quit(w) /\ UNCHANGED chats
    BY <1>1, <1>4, OwnRewritten, Quits
<1>5. ASSUME Goto(w, "finish"), NEW d, Put(worker[w].chat, d), Replaces(c, d, 0, 0, 0)
      PROVE  SInv' /\ Kept
    <2>1. d.calls[k].usage = TRUE
        BY <1>3, <1>5, StillRuns
    <2> QED BY <1>1, <1>2, <1>5, <2>1, WritesMoves DEF Calling
<1>6. CASE Goto(w, "finish") /\ UNCHANGED chats
    BY <1>1, <1>6, Moves
<1>7. CASE /\ active(w) /\ Goto(w, "finish")
           /\ Put(worker[w].chat, update_claim(Mine(w), CallPhase(w), worker[w].call, "none"))
    <2>1. PICK next, d : /\ next = CallPhase(w) /\ next \in {"generating", "verifying"}
                         /\ d = update_claim(Mine(w), next, worker[w].call, "none")
        BY DEF CallPhase
    <2>2. Replaces(Mine(w), d, 0, 0, 0)
        BY <1>1, <1>7, <2>1, FencedWrites DEF active
    <2> QED BY <1>2, <1>5, <1>7, <2>1, <2>2
<1> QED BY <1>4, <1>6, <1>7 DEF publish_answer

\* What a lesser writing does not disturb, a greater one may.
LEMMA Weaken ==
    ASSUME NEW c, Good(c), NEW d, NEW n, NEW k, Replaces(c, d, 0, n, k),
           NEW l, NEW m, m = n \/ n = 0, NEW j, j = k \/ k = 0
    PROVE  Replaces(c, d, l, m, j)
<1>1. 0 \notin DOMAIN c.ops /\ 0 \notin DOMAIN c.calls
    BY Newest DEF Good
<1> QED BY <1>1 DEF Replaces, Spares

\* A worker knows the draft it saved.
LEMMA KnowsDraft ==
    ASSUME NEW c, Good(c), NEW x, Knows(x, c), NEW k, NEW d, Replaces(c, d, 0, x.attempt, k),
           d.ops[x.attempt].draft = k, NEW y, y.lease = x.lease, y.attempt = x.attempt,
           y.task = x.task, y.draft = k, y.pc = "unchecked"
    PROVE  Knows(y, d)
<1>1. /\ DOMAIN c.ops = 1..Len(c.ops) /\ DOMAIN d.ops = 1..Len(d.ops) /\ DOMAIN d.ops = DOMAIN c.ops
      /\ Len(c.ops) \in Nat /\ Len(d.ops) \in Nat /\ c.claims \in Nat /\ d.claims \in Nat
    BY SequenceFacts DEF Good, Shaped, Replaces
<1>2. Len(d.ops) = Len(c.ops)
    BY <1>1
<1>3. x.lease \in Nat /\ 0 < x.lease /\ x.lease <= d.claims
    BY <1>1 DEF Knows, Replaces, Spares
<1>4. x.attempt \in DOMAIN d.ops /\ x.task = d.ops[x.attempt].task
    BY <1>1 DEF Knows, Replaces, Spares
<1>5. x.attempt = Len(d.ops) => d.lease = x.lease
    BY <1>1, <1>2, <1>3 DEF Knows, Replaces, Spares
<1> QED BY <1>3, <1>4, <1>5 DEF Knows, Calling

\* A call ends for worker w: the chat with its new status.
LEMMA CallEnds ==
    ASSUME SInv, NEW w \in Workers, worker[w] # Idle, worker[w].pc \in Calling,
           NEW s, s = "completed" => worker[w].pc = "finish",
           NEW a, a = [Mine(w) EXCEPT !.calls[worker[w].call].status = s]
    PROVE  /\ CallsOnly(Mine(w), a) /\ Replaces(Mine(w), a, 0, 0, worker[w].call)
           /\ a.calls[worker[w].call].status = s
           /\ worker[w].call \in DOMAIN a.calls
           /\ s # "completed" => Replaces(Mine(w), a, 0, 0, 0)
<1>1. PICK c, k : c = Mine(w) /\ k = worker[w].call
    OBVIOUS
<1>2. /\ Good(c) /\ k \in DOMAIN c.calls /\ c.calls[k].status # "completed"
      /\ s = "completed" => c.calls[k].usage = TRUE
    BY <1>1, AtWork DEF Knows
<1>3. /\ CallsOnly(c, a) /\ Replaces(c, a, 0, 0, k) /\ a.calls[k].status = s
      /\ s # "completed" => Replaces(c, a, 0, 0, 0)
    <2>1. a = [c EXCEPT !.calls[k].status = s]
        BY <1>1
    <2> QED BY <1>2, <2>1, CallStatusReplaces
<1>4. k \in DOMAIN a.calls
    BY <1>2, <1>3 DEF Replaces, Spares
<1> QED BY <1>1, <1>3, <1>4

\* A finished call: the answer, or the draft, is there.
LEMMA FinishShown ==
    ASSUME SInv, NEW w \in Workers, finish_call(w)
    PROVE  SInv' /\ Kept
<1> DEFINE x == worker[w]
           y == worker'[w]
           c == Mine(w)
           k == x.call
           n == x.attempt
<1>1. x # Idle /\ x.pc = "finish" /\ x.pc \in Calling /\ operations' = operations
    BY DEF finish_call, Idle, Rest, Calling
<1>2. DOMAIN x = WorkerFields /\ Good(c) /\ Knows(x, c)
    BY <1>1, AtWork
<1>3. PICK a : a = [c EXCEPT !.calls[k].status = "completed"]
    OBVIOUS
<1>4. CallsOnly(c, a) /\ Replaces(c, a, 0, 0, k) /\ Done(a, k)
    BY <1>1, <1>3, CallEnds DEF Done
<1>5. CASE CallPhase(w) = "generating" /\ x.task = "summary"
    <2>1. PICK d : d = update(w, [a EXCEPT !.ops[n].draft = k], [a.public EXCEPT ![n] = k])
        OBVIOUS
    <2>2. worker' = [worker EXCEPT ![w].pc = "unchecked", ![w].draft = k]
        BY <1>5 DEF finish_call
    <2>3. Put(x.chat, finished(w, "completed", k))
        BY <1>5 DEF finish_call
    <2>4. k # 0
        BY <1>1, <1>2, Newest DEF Knows, Good
    <2>5. Put(x.chat, d)
        BY <1>3, <2>1, <2>3, <2>4 DEF finished
    <2>6. n \in DOMAIN a.ops /\ a.ops[n].draft = 0
        BY <1>2, <1>4, <1>5 DEF Knows, CallsOnly, CallPhase
    <2>7. Good(a) /\ (fenced(w) => pending(a.status))
        BY <1>4 DEF Replaces, CallsOnly, fenced
    <2> HIDE DEF k, n
    <2>8. Replaces(a, d, 0, n, 0) /\ d.ops[n].draft = k
        BY <1>4, <2>1, <2>6, <2>7, DraftReplaces
    <2>9. Replaces(c, a, 0, n, k) /\ Replaces(a, d, 0, n, k)
        BY <1>2, <1>4, <2>7, <2>8, Weaken
    <2>10. Replaces(c, d, 0, n, k)
        BY <1>2, <2>9, ReplacedTwice
    <2>11. Replaces(c, d, x.lease, n, Own(x))
        BY <1>1, <1>2, <2>10, Weaken DEF Own, k
    <2>12. /\ worker' = [worker EXCEPT ![w] = y] /\ DOMAIN y = WorkerFields /\ y.pc = "unchecked"
           /\ y.chat = x.chat /\ y.lease = x.lease /\ y.attempt = n /\ y.task = x.task /\ y.draft = k
        BY <1>2, <2>2 DEF SInv, WorkerFields, n
    <2> HIDE DEF y, x, c
    <2>13. Knows(y, d)
        BY <1>2, <2>8, <2>10, <2>12, KnowsDraft DEF n
    <2> QED BY <1>1, <2>5, <2>11, <2>12, <2>13, WritesOn DEF Calling, x, c, n
<1>6. CASE ~(CallPhase(w) = "generating" /\ x.task = "summary")
    <2>1. PICK d : d = update(w, a, a.public)
        OBVIOUS
    <2>2. Put(x.chat, d) /\ Goto(w, "complete")
        BY <1>3, <1>6, <2>1 DEF finish_call, finished
    <2>3. Replaces(c, d, 0, 0, k)
        BY <1>1, <1>4, <2>1, UpdateAfter
    <2>4. Replaces(c, d, x.lease, n, Own(x))
        BY <1>1, <1>2, <2>3, Weaken DEF Own
    <2>5. /\ worker' = [worker EXCEPT ![w] = y] /\ DOMAIN y = WorkerFields /\ y.pc = "complete"
          /\ y.chat = x.chat /\ y.lease = x.lease /\ y.attempt = n /\ y.task = x.task /\ y.draft = x.draft
        BY <1>2, <2>2 DEF SInv, WorkerFields, Goto
    <2> HIDE DEF y, x, c, k, n
    <2>6. Knows(y, d)
        BY <1>2, <2>3, <2>5, StillKnows DEF n, Calling
    <2> QED BY <1>1, <2>2, <2>4, <2>5, <2>6, WritesOn DEF Calling, x, c, n
<1> QED BY <1>5, <1>6

\* A failed call.
LEMMA FailCallShown ==
    ASSUME SInv, NEW w \in Workers, fail_call(w)
    PROVE  SInv' /\ Kept
<1>1. worker[w] # Idle /\ worker[w].pc = "asked" /\ operations' = operations
    <2>1. worker[w].pc = "asked" /\ Rest
        BY DEF fail_call
    <2> QED BY <2>1 DEF Idle, Rest
<1>2. PICK s : /\ s # "completed" /\ Put(worker[w].chat, finished(w, s, 0))
               /\ Quit(w) \/ \E e : Fails(w, e)
    BY DEF fail_call
<1>3. PICK a, d : /\ a = [Mine(w) EXCEPT !.calls[worker[w].call].status = s]
                  /\ d = update(w, a, a.public)
    OBVIOUS
<1>4. Put(worker[w].chat, d)
    BY <1>2, <1>3 DEF finished
<1>5. CallsOnly(Mine(w), a) /\ Replaces(Mine(w), a, 0, 0, 0)
    BY <1>1, <1>2, <1>3, CallEnds DEF Calling
<1>6. Replaces(Mine(w), d, 0, 0, 0)
    BY <1>1, <1>3, <1>5, UpdateAfter
<1>7. CASE Quit(w)
    <2>1. Rewrites(w)
        BY <1>1, <1>4, <1>6, OwnRewritten
    <2> QED BY <1>1, <1>7, <2>1, Quits
<1>8. CASE \E e : Fails(w, e)
    <2>1. PICK q : q = "failing" /\ q \notin Calling /\ q \notin {"answered", "finish"}
        BY DEF Calling
    <2> QED BY <1>1, <1>4, <1>6, <1>8, <2>1, WritesMoves
<1> QED BY <1>2, <1>7, <1>8

\* A draft that needs no check becomes the answer.
LEMMA UncheckedShown ==
    ASSUME SInv, NEW w \in Workers, finish_unchecked(w)
    PROVE  SInv' /\ Kept
<1>1. worker[w] # Idle /\ operations' = operations
    <2>1. worker[w].pc = "unchecked" /\ Rest
        BY DEF finish_unchecked
    <2> QED BY <2>1 DEF Idle, Rest
<1>2. ASSUME NEW e, Fails(w, e), UNCHANGED chats PROVE SInv' /\ Kept
    BY <1>1, <1>2, Moves DEF Calling
<1>3. CASE Goto(w, "call") /\ UNCHANGED chats
    BY <1>1, <1>3, Moves DEF Calling
<1>4. CASE Quit(w) /\ UNCHANGED chats
    BY <1>1, <1>4, OwnRewritten, Quits
<1>5. CASE fenced(w) /\ draft_ready(w) /\ Put(worker[w].chat, publish_unchecked(Mine(w))) /\ Quit(w)
    <2>1. PICK d : d = publish_unchecked(Mine(w))
        OBVIOUS
    <2>2. Good(Mine(w)) /\ pending(Mine(w).status) /\ Mine(w).lease = worker[w].lease
        BY <1>1, <1>5, AtWork DEF fenced
    <2>3. phase(LastOp(Mine(w))) = "verifying"
        BY <1>5 DEF draft_ready, LastOp, Attempt
    <2>4. Replaces(Mine(w), d, Mine(w).lease, 0, 0)
        BY <2>1, <2>2, <2>3, UncheckedReplaces
    <2> QED BY <1>1, <1>5, <2>1, <2>2, <2>4, WritesLast
<1> QED BY <1>2, <1>3, <1>4, <1>5 DEF finish_unchecked

\* A claim is completed.
LEMMA CompleteShown ==
    ASSUME SInv, NEW w \in Workers, complete_claim(w)
    PROVE  SInv' /\ Kept
<1>1. worker[w] # Idle /\ operations' = operations
    <2>1. worker[w].pc = "complete" /\ Rest
        BY DEF complete_claim
    <2> QED BY <2>1 DEF Idle, Rest
<1>2. ASSUME NEW e, Fails(w, e), UNCHANGED chats PROVE SInv' /\ Kept
    BY <1>1, <1>2, Moves DEF Calling
<1>3. CASE Quit(w) /\ UNCHANGED chats
    BY <1>1, <1>3, OwnRewritten, Quits
<1>4. CASE /\ fenced(w) /\ completable(Mine(w)) /\ Quit(w)
           /\ Put(worker[w].chat, update_claim(Mine(w), "completed", 0, "none"))
    <2>1. PICK d : d = update_claim(Mine(w), "completed", 0, "none")
        OBVIOUS
    <2>2. Good(Mine(w)) /\ pending(Mine(w).status) /\ Mine(w).lease = worker[w].lease
        BY <1>1, <1>4, AtWork DEF fenced
    <2>3. Replaces(Mine(w), d, Mine(w).lease, 0, 0)
        BY <1>4, <2>1, <2>2, CompletionReplaces
    <2> QED BY <1>1, <1>4, <2>1, <2>2, <2>3, WritesLast
<1> QED BY <1>2, <1>3, <1>4 DEF complete_claim

\* A claim fails, or is put off.
LEMMA FailClaimShown ==
    ASSUME SInv, NEW w \in Workers, fail_claim(w)
    PROVE  SInv' /\ Kept
<1>1. worker[w] # Idle /\ operations' = operations /\ Quit(w)
    <2>1. worker[w].pc = "failing" /\ Rest /\ Quit(w)
        BY DEF fail_claim
    <2> QED BY <2>1 DEF Idle, Rest
<1>2. CASE UNCHANGED chats
    BY <1>1, <1>2, OwnRewritten, Quits
<1>3. ASSUME Mine(w).lease = worker[w].lease, NEW e, Put(worker[w].chat, defer_chat(Mine(w), e))
      PROVE  SInv' /\ Kept
    <2>1. PICK d : d = defer_chat(Mine(w), e)
        OBVIOUS
    <2>2. Good(Mine(w)) /\ Mine(w).lease # 0
        BY <1>1, <1>3, AtWork
    <2>3. Replaces(Mine(w), d, Mine(w).lease, 0, 0)
        BY <2>1, <2>2, DeferReplaces
    <2> QED BY <1>1, <1>3, <2>1, <2>3, WritesLast
<1>4. ASSUME fenced(w), NEW e, NEW next \in {"interrupted", "failed"},
             Put(worker[w].chat, update_claim(Mine(w), next, 0, e))
      PROVE  SInv' /\ Kept
    <2>1. PICK d : d = update_claim(Mine(w), next, 0, e)
        OBVIOUS
    <2>2. Mine(w).lease = worker[w].lease /\ Replaces(Mine(w), d, Mine(w).lease, 0, 0)
        BY <1>1, <1>4, <2>1, FencedWrites
    <2> QED BY <1>1, <1>4, <2>1, <2>2, WritesLast
<1> QED BY <1>2, <1>3, <1>4 DEF fail_claim

\* A chat is claimed, after expired claims were recovered.
LEMMA ClaimShown ==
    ASSUME SInv, NEW w \in Workers, claim(w)
    PROVE  SInv' /\ Kept
<1> DEFINE after == [c \in DOMAIN chats |-> recovered(chats[c])]
<1>1. operations' = operations /\ worker[w] = Idle
    BY DEF claim, Rest
<1>2. ASSUME NEW c \in DOMAIN chats
      PROVE  Good(chats[c]) /\ Good(after[c]) /\ Replaces(chats[c], after[c], 0, 0, 0)
    BY RecoveredReplaces DEF SInv, Replaces
<1>3. CASE chats' = after /\ UNCHANGED worker
    <2>1. Still
        BY <1>2, <1>3 DEF Still
    <2> QED BY <1>1, <1>3, <2>1, StillKeeps
<1> DEFINE Lease(c) == after[c].claims + 1
           Claimed(c) == [pc |-> IF after[c].snapshot THEN Stage(LastOp(after[c])) ELSE "snapshot",
                          chat |-> c, lease |-> Lease(c), attempt |-> Attempt(after[c]),
                          task |-> LastOp(after[c]).task, draft |-> LastOp(after[c]).draft,
                          call |-> 0, error |-> "none"]
<1>4. ASSUME NEW c \in DOMAIN chats, claimable(after[c]),
             chats' = [after EXCEPT ![c].lease = Lease(c), ![c].claims = Lease(c)],
             worker' = [worker EXCEPT ![w] = Claimed(c)]
      PROVE  SInv' /\ Kept
    <2>1. PICK a, d, n, y : /\ a = after[c] /\ n = a.claims + 1 /\ y = Claimed(c)
                            /\ d = [a EXCEPT !.lease = n, !.claims = n]
        OBVIOUS
    <2>2. /\ DOMAIN chats' = DOMAIN chats /\ chats'[c] = d
          /\ \A b \in DOMAIN chats : b # c => chats'[b] = after[b]
        BY <1>4, <2>1
    <2>3. /\ Good(chats[c]) /\ Good(a) /\ Replaces(chats[c], a, 0, 0, 0) /\ n = a.claims + 1
          /\ a.lease = 0 /\ a.status \in {"queued", "waiting_content"} /\ a.claims \in Nat
        BY <1>2, <1>4, <2>1 DEF claimable, Good, Shaped
    <2>4. /\ y.chat = c /\ y.lease = n /\ y.attempt = Len(a.ops) /\ y.task = a.ops[Len(a.ops)].task
          /\ y.draft = a.ops[Len(a.ops)].draft /\ DOMAIN y = WorkerFields
          /\ y.pc \notin Calling /\ y.pc \notin {"answered", "finish"}
        BY <2>1 DEF WorkerFields, Attempt, LastOp, Stage, Calling
    <2> HIDE DEF after, Claimed, Lease
    <2>5. Replaces(a, d, 0, 0, 0) /\ d.ops = a.ops /\ d.lease = n /\ d.claims = n
        <3>1. d = [a EXCEPT !.lease = a.claims + 1, !.claims = a.claims + 1]
            BY <2>1
        <3> QED BY <2>3, <3>1, ClaimReplaces
    <2>6. Replaces(chats[c], d, 0, 0, 0)
        BY <2>3, <2>5, ReplacedTwice
    <2>7. Rewrites(w)
        BY <1>2, <2>2, <2>6 DEF Rewrites
    <2>8. Knows(y, d)
        <3>1. Len(a.ops) \in DOMAIN a.ops /\ n \in Nat /\ 0 < n
            BY <2>3, Newest DEF Good
        <3> QED BY <2>4, <2>5, <3>1 DEF Knows
    <2>9. Informed(y, chats')
        BY <2>2, <2>4, <2>8 DEF Informed
    <2>10. ASSUME NEW v \in Workers, v # w PROVE Distinct(y, worker[v])
        <3> SUFFICES ASSUME worker[v] # Idle, worker[v].chat = c
                     PROVE  Len(a.ops) # worker[v].attempt /\ n # worker[v].lease
            BY <2>4 DEF Distinct
        <3>1. PICK x : x = worker[v]
            OBVIOUS
        <3>2. Knows(x, chats[c])
            BY <3>1 DEF SInv, Informed
        <3>3. x.lease # 0 /\ x.attempt # 0 /\ (x.pc \in Calling => x.call # 0)
            BY <2>3, <3>2, KnowsPositive
        <3>4. Knows(x, a)
            BY <2>3, <3>2, <3>3, Bystander DEF Replaces
        <3> QED BY <2>3, <3>1, <3>3, <3>4 DEF Knows
    <2>11. /\ DOMAIN worker' = Workers /\ worker'[w] = y
           /\ \A v \in Workers : v # w => worker'[v] = worker[v]
        BY <1>4, <2>1 DEF SInv
    <2> QED BY <1>1, <2>7, <2>9, <2>10, <2>11, WorkerKeeps
<1> QED BY <1>3, <1>4 DEF claim

-----------------------------------------------------------------------------
(* The theorems.                                                           *)

\* Chats are only added at the end.
LEMMA NextSequence ==
    ASSUME Sequence(chats), [Next]_vars
    PROVE  Sequence(chats')
<1>1. ASSUME chats' = [c \in DOMAIN chats |-> chats'[c]] PROVE Sequence(chats')
    BY <1>1, SamePositions
<1>2. ASSUME NEW c, NEW d, Put(c, d) PROVE Sequence(chats')
    BY <1>1, <1>2 DEF Put
<1>3. CASE Setting
    BY <1>1, <1>3 DEF Setting, save_credential, delete_credential, save_model_preferences, FullText,
       PeakBegins, PeakEnds, Midnight
<1>4. ASSUME NEW op, create_chat(op) PROVE Sequence(chats')
    <2>1. PICK x : \/ chats' = chats
                   \/ chats' = [chats EXCEPT ![Len(chats)] = prioritize(chats[Len(chats)])]
                   \/ chats' = Append(chats, x)
                   \/ LET cs == Append(chats, x)
                      IN  chats' = [cs EXCEPT ![Len(cs)] = prioritize(cs[Len(cs)])]
        BY <1>4 DEF create_chat
    <2>2. PICK cs : cs = Append(chats, x) /\ Sequence(cs)
        BY Appended
    <2>3. ASSUME NEW n, NEW d, chats' = [cs EXCEPT ![n] = d] PROVE Sequence(chats')
        <3>1. PICK t : t = [cs EXCEPT ![n] = d] /\ t = [i \in DOMAIN cs |-> t[i]]
            OBVIOUS
        <3> QED BY <2>2, <2>3, <3>1, SamePositions
    <2> QED BY <1>1, <2>1, <2>2, <2>3
<1>5. CASE Command
    BY <1>2, <1>4, <1>5 DEF Command, Execute, check_start, check_enqueue, append, stop, open_chats, Put
<1>6. ASSUME NEW w, Work(w) \/ publish(w) \/ Crash(w) PROVE Sequence(chats')
    <2>1. CASE claim(w)
        BY <1>1, <2>1 DEF claim
    <2>2. CASE resolve_snapshot(w) \/ begin_call(w) \/ settle(w) \/ update_usage(w)
        BY <1>2, <2>2 DEF resolve_snapshot, begin_call, settle, update_usage
    <2>3. CASE publish_answer(w) \/ finish_call(w) \/ fail_call(w) \/ publish(w) \/ Crash(w)
        BY <1>2, <2>3 DEF publish_answer, finish_call, fail_call, publish, Crash
    <2>4. CASE finish_unchecked(w) \/ complete_claim(w) \/ fail_claim(w)
        BY <1>2, <2>4 DEF finish_unchecked, complete_claim, fail_claim
    <2> QED BY <1>6, <2>1, <2>2, <2>3, <2>4 DEF Work
<1>7. ASSUME NEW c, LeaseExpires(c) \/ LeaseOverrun(c) PROVE Sequence(chats')
    BY <1>2, <1>7 DEF LeaseExpires, LeaseOverrun, Expire
<1>8. CASE UNCHANGED vars
    BY <1>8 DEF vars
<1> QED BY <1>3, <1>5, <1>6, <1>7, <1>8 DEF Next

\* Every step keeps the invariant, and every draft that was paid for.
LEMMA NextShown ==
    ASSUME Sequence(chats), SInv, [Next]_vars
    PROVE  SInv' /\ Kept
<1>1. ASSUME NEW w \in Workers, Work(w) PROVE SInv' /\ Kept
    BY <1>1, ClaimShown, ResolveShown, BeginShown, SettleShown, UsageShown, AnswerShown, FinishShown,
       FailCallShown, UncheckedShown, CompleteShown, FailClaimShown DEF Work
<1>2. ASSUME NEW w \in Workers, Crash(w) PROVE SInv' /\ Kept
    <2>1. worker[w] # Idle /\ Quit(w) /\ chats' = chats /\ operations' = operations
        BY <1>2 DEF Crash
    <2> QED BY <2>1, OwnRewritten, Quits
<1>3. CASE UNCHANGED vars
    <2>1. chats' = chats /\ worker' = worker /\ operations' = operations
        BY <1>3 DEF vars
    <2> QED BY <2>1, NoneReplaced, StillKeeps
<1> QED BY <1>1, <1>2, <1>3, CommandShown, SettingShown, PublishShown, LeaseShown DEF Next

\* The conversation a reader is shown is the one the chat holds, with finished texts only and
\* every command once, for any number of workers, commands, chats, faults and days.
THEOREM ShownIsHeld == Spec => []ShownExact
<1>1. Init => Sequence(chats) /\ SInv
    BY InitSInv
<1>2. Sequence(chats) /\ SInv /\ [Next]_vars => (Sequence(chats) /\ SInv)'
    BY NextSequence, NextShown
<1>3. SInv => ShownExact
    BY ShownFromInvariant
<1> QED BY <1>1, <1>2, <1>3, PTL DEF Spec

\* A draft that was paid for is the draft of every later attempt at the summary: no step, a
\* worker's late write included, replaces or forgets it.
THEOREM DraftPaidOnce == Spec => PaidDraftKept
<1>1. Init => Sequence(chats) /\ SInv
    BY InitSInv
<1>2. Sequence(chats) /\ SInv /\ [Next]_vars => (Sequence(chats) /\ SInv)'
    BY NextSequence, NextShown
<1>3. Kept => \A c \in DOMAIN chats : LET old == LastOp(chats[c])
                                          new == LastOp(chats'[c])
                                      IN  old.draft # 0 => new.task = "reply" \/ new.draft = old.draft
    BY DEF Kept
<1>4. Sequence(chats) /\ SInv /\ [Next]_vars =>
          [\A c \in DOMAIN chats : LET old == LastOp(chats[c])
                                       new == LastOp(chats'[c])
                                   IN  old.draft # 0 => new.task = "reply" \/ new.draft = old.draft]_vars
    BY <1>3, NextShown
<1> QED BY <1>1, <1>2, <1>4, PTL DEF Spec, PaidDraftKept

=============================================================================
