---------------------------- MODULE AccountsProofs ---------------------------
(***************************************************************************)
(* The account of a username, proved for any number of concurrent calls,   *)
(* tokens, passwords and sessions.                                         *)
(***************************************************************************)
EXTENDS Accounts, FiniteSetTheorems, TLAPS

Account == [live : BOOLEAN, rev : Nat, auth : Nat, pw : Passwords \cup {0}]
Attempt == [id : Nat, at : Nat]

Accepting == [op : {"accept"}, token : Invites, pw : Passwords]
Creating == [op : {"create"}, pw : Passwords]
SigningIn == [op : {"session"}, auth : Nat, pw : Passwords]
Changing == [op : {"change"}, doc : Account, rev : Nat, current : Passwords \cup {0}]
Resetting == [op : {"reset"}, token : Resets]
Consuming == [op : {"consume"}, token : Resets, doc : Account, rev : Nat]

Call == {Idle} \cup Accepting \cup Creating \cup SigningIn \cup Changing
            \cup Resetting \cup Consuming

\* What a constant may be: the two kinds of token live in tables of their own.
Setting == Limit \in Nat /\ Minute \in Nat /\ Invites \cap Resets = {}

TypeOK ==
    /\ account \in Account
    /\ tokens \in [Tokens -> {"unissued", "open", "consumed", "expired"}]
    /\ sessions \subseteq [auth : Nat, pw : Passwords]
    /\ attempts \subseteq Attempt /\ signins \subseteq Attempt
    /\ now \in Nat /\ opened \in Nat
    /\ pend \in [Calls -> Call]
    /\ used \in [Tokens -> Nat]

\* A session, written or about to be, under the present auth_revision was opened
\* with the present password; none is ahead of the account.
Credential(s) == /\ account.live
                 /\ s.auth <= account.auth
                 /\ s.auth = account.auth => s.pw = account.pw

\* A document computed from the present revision ends the present auth_revision;
\* one computed from a former revision is refused.
Document(q) ==
    /\ account.live
    /\ q.rev <= account.rev
    /\ q.rev = account.rev => /\ q.doc.live
                              /\ q.doc.auth = account.auth + 1
                              /\ q.doc.rev = account.rev + 1
                              /\ q.op = "change" => q.current = account.pw

\* What a call still knows of the account it has read.
Sound(q) == /\ q.op = "session" => Credential(q)
            /\ q.op \in {"change", "consume"} => Document(q)
            /\ q.op = "reset" => account.live

SessionsSound == \A s \in sessions : Credential(s)
CallsSound == \A c \in Calls : Sound(pend[c])

\* A token that was used stays consumed; a reset is issued for a live account.
TokensSound ==
    /\ \A t \in Tokens : used[t] <= 1 /\ (used[t] = 1 => tokens[t] = "consumed")
    /\ \A t \in Resets : tokens[t] = "open" => account.live

\* Every sign-in of the last minute is still among the attempts.
AttemptsSound ==
    /\ IsFiniteSet(attempts)
    /\ Cardinality(retained) <= Limit
    /\ \A a \in signins : a.at + Minute > now => a \in attempts

IInv == TypeOK /\ SessionsSound /\ CallsSound /\ TokensSound /\ AttemptsSound

-----------------------------------------------------------------------------
\* The invariant holds of an empty database.
LEMMA InitIInv ==
    ASSUME Setting, Init
    PROVE  IInv
<1>1. TypeOK
    BY DEF Init, TypeOK, Account, NoAccount, Call
<1>2. SessionsSound /\ CallsSound /\ TokensSound
    BY DEF Init, SessionsSound, CallsSound, Sound, Idle, TokensSound, Tokens
<1>3. AttemptsSound
    <2>1. retained = {}
        BY DEF Init, retained
    <2> QED BY <2>1, FS_EmptySet DEF Init, AttemptsSound, Setting
<1> QED BY <1>1, <1>2, <1>3 DEF IInv

\* The attempts are only touched by sign_in and by time.
LEMMA AttemptsKept ==
    ASSUME IInv, UNCHANGED <<attempts, signins, now>>
    PROVE  AttemptsSound'
BY DEF IInv, AttemptsSound, retained

\* A step that leaves the account alone leaves what is known of it.
LEMMA KnowledgeKept ==
    ASSUME UNCHANGED account, NEW q
    PROVE  /\ Credential(q) => Credential(q)'
           /\ Sound(q) => Sound(q)'
BY DEF Credential, Sound, Document

\* A call moves on to another, typed and sound; the account stays.
LEMMA CallMoves ==
    ASSUME IInv, NEW c \in Calls, NEW q \in Call, Sound(q),
           pend' = [pend EXCEPT ![c] = q], UNCHANGED account
    PROVE  CallsSound' /\ pend' \in [Calls -> Call]
<1>1. pend' \in [Calls -> Call]
    BY DEF IInv, TypeOK
<1>2. ASSUME NEW d \in Calls PROVE Sound(pend[d])' 
    <2>1. pend'[d] = IF d = c THEN q ELSE pend[d]
        BY DEF IInv, TypeOK
    <2>2. Sound(pend'[d])
        BY <2>1 DEF IInv, CallsSound
    <2> QED BY <2>2 DEF Sound, Credential, Document
<1> QED BY <1>1, <1>2 DEF CallsSound

\* A call that ended leaves nothing to be sound about.
LEMMA IdleSound == Idle \in Call /\ Sound(Idle)
BY DEF Idle, Call, Sound

\* A call that only reads.
LEMMA ReadStep ==
    ASSUME IInv, NEW c \in Calls, NEW q \in Call, Sound(q), reads(c, q)
    PROVE  IInv'
<1>1. CallsSound' /\ pend' \in [Calls -> Call]
    BY CallMoves DEF reads
<1>2. TypeOK'
    BY <1>1 DEF IInv, TypeOK, reads
<1>3. SessionsSound' /\ TokensSound'
    BY DEF IInv, SessionsSound, Credential, TokensSound, reads
<1>4. AttemptsSound'
    BY AttemptsKept DEF reads
<1> QED BY <1>1, <1>2, <1>3, <1>4 DEF IInv

\* A call that is refused changes nothing but itself.
LEMMA RefuseStep ==
    ASSUME IInv, NEW c \in Calls, refuse(c)
    PROVE  IInv'
BY ReadStep, IdleSound DEF refuse

-----------------------------------------------------------------------------
(* The calls that read.                                                    *)

\* accept_invite and bootstrap_admin hash a password before they write.
LEMMA ReadingSteps ==
    ASSUME IInv, NEW c \in Calls, NEW p \in Passwords,
           (\E t \in Invites : accept_invite(c, t, p)) \/ bootstrap_admin(c, p)
    PROVE  IInv'
<1>1. ASSUME NEW t \in Invites, accept_invite(c, t, p) PROVE IInv'
    <2> DEFINE q == [op |-> "accept", token |-> t, pw |-> p]
    <2>1. q \in Call /\ Sound(q)
        BY DEF Call, Accepting, Sound
    <2> QED BY <1>1, <2>1, ReadStep DEF accept_invite
<1>2. ASSUME bootstrap_admin(c, p) PROVE IInv'
    <2> DEFINE q == [op |-> "create", pw |-> p]
    <2>1. q \in Call /\ Sound(q)
        BY DEF Call, Creating, Sound
    <2> QED BY <1>2, <2>1, ReadStep DEF bootstrap_admin
<1> QED BY <1>1, <1>2

\* reset_password finds an open reset, which only a live account has.
LEMMA ResetTokenStep ==
    ASSUME IInv, NEW c \in Calls, NEW t \in Resets, reset_password(c, t)
    PROVE  IInv'
<1> DEFINE q == [op |-> "reset", token |-> t]
<1>1. q \in Call
    BY DEF Call, Resetting
<1>2. Sound(q)
    BY DEF Sound, reset_password, IInv, TokensSound
<1> QED BY <1>1, <1>2, ReadStep DEF reset_password

\* The document both ways of changing a password save.
LEMMA ChangedDocument ==
    ASSUME IInv, account.live, NEW p \in Passwords
    PROVE  /\ changed(account, p) \in Account
           /\ changed(account, p).live
           /\ changed(account, p).auth = account.auth + 1
           /\ changed(account, p).rev = account.rev + 1
           /\ changed(account, p).pw = p
           /\ account.rev \in Nat /\ account.pw \in Passwords \cup {0}
<1>1. account \in Account
    BY DEF IInv, TypeOK
<1>2. /\ changed(account, p).live = account.live
      /\ changed(account, p).auth = account.auth + 1
      /\ changed(account, p).rev = account.rev + 1
      /\ changed(account, p).pw = p
      /\ DOMAIN changed(account, p) = DOMAIN account
    BY <1>1 DEF Account, changed
<1>3. /\ account.live \in BOOLEAN
      /\ account.auth \in Nat /\ account.rev \in Nat /\ account.pw \in Passwords \cup {0}
    BY <1>1 DEF Account
<1>4. /\ changed(account, p).live \in BOOLEAN
      /\ changed(account, p).auth \in Nat /\ changed(account, p).rev \in Nat
      /\ changed(account, p).pw \in Passwords
    BY <1>2, <1>3
<1>5. changed(account, p) \in Account
    BY <1>1, <1>2, <1>4 DEF Account, changed
<1> QED BY <1>2, <1>3, <1>5

\* change_password read the document it will replace.
LEMMA ChangeReads ==
    ASSUME IInv, NEW c \in Calls, NEW p \in Passwords, NEW s \in sessions,
           change_password(c, s, p)
    PROVE  IInv'
<1> DEFINE d == changed(account, p)
           q == [op |-> "change", doc |-> d, rev |-> account.rev, current |-> account.pw]
<1>1. account.live
    BY DEF change_password, authenticate
<1>2. q \in Call
    BY <1>1, ChangedDocument DEF Call, Changing
<1>3. Sound(q)
    BY <1>1, ChangedDocument DEF Sound, Document
<1> QED BY <1>2, <1>3, ReadStep DEF change_password

\* A reset reads the document it will replace.
LEMMA ResetReads ==
    ASSUME IInv, NEW c \in Calls, NEW p \in Passwords, reset_reads_account(c, p)
    PROVE  IInv'
<1> DEFINE d == changed(account, p)
           q == [op |-> "consume", token |-> pend[c].token, doc |-> d, rev |-> account.rev]
<1>1. pend[c] \in Resetting
    BY DEF reset_reads_account, IInv, TypeOK, Call, Idle, Accepting, Creating, SigningIn,
           Changing, Consuming
<1>2. account.live
    BY DEF reset_reads_account, IInv, CallsSound, Sound
<1>3. q \in Call
    BY <1>1, <1>2, ChangedDocument DEF Call, Consuming, Resetting
<1>4. Sound(q)
    BY <1>2, ChangedDocument DEF Sound, Document
<1> QED BY <1>3, <1>4, ReadStep DEF reset_reads_account

-----------------------------------------------------------------------------
(* The steps that leave the account alone.                                 *)

\* Tokens are issued unused, and resets for a live account only.
LEMMA TokenSteps ==
    ASSUME Setting, IInv, NEW t \in Tokens,
           create_invite(t) \/ create_password_reset(t) \/ token_expires(t)
    PROVE  IInv'
<1>1. /\ UNCHANGED <<account, sessions, attempts, now, pend, opened, used, signins>>
      /\ \/ tokens' = [tokens EXCEPT ![t] = "open"]
         \/ tokens' = [tokens EXCEPT ![t] = "expired"]
    BY DEF create_invite, create_password_reset, token_expires
<1>2. TypeOK'
    BY <1>1 DEF IInv, TypeOK
<1>3. SessionsSound' /\ CallsSound'
    BY <1>1 DEF IInv, SessionsSound, CallsSound, Sound, Credential, Document
<1>4. tokens[t] # "consumed"
    BY DEF create_invite, create_password_reset, token_expires
<1>5. \A u \in Tokens : used'[u] <= 1 /\ (used'[u] = 1 => tokens'[u] = "consumed")
    BY <1>1, <1>4 DEF IInv, TypeOK, TokensSound
<1>6. t \in Resets /\ tokens'[t] = "open" => account.live
    BY DEF IInv, TypeOK, Tokens, Setting, create_invite, create_password_reset, token_expires
<1>7. \A u \in Resets : tokens'[u] = "open" => account.live
    BY <1>1, <1>6 DEF IInv, TypeOK, TokensSound, Tokens
<1>8. TokensSound'
    BY <1>1, <1>5, <1>7 DEF TokensSound
<1>9. AttemptsSound'
    BY <1>1, AttemptsKept
<1> QED BY <1>2, <1>3, <1>8, <1>9 DEF IInv

\* save_session writes the credentials its call was checked against.
LEMMA SaveSessionStep ==
    ASSUME IInv, NEW c \in Calls, save_session(c)
    PROVE  IInv'
<1> DEFINE s == [auth |-> pend[c].auth, pw |-> pend[c].pw]
<1>1. pend[c] \in SigningIn
    BY DEF save_session, IInv, TypeOK, Call, Idle, Accepting, Creating, Changing, Resetting,
           Consuming
<1>2. s \in [auth : Nat, pw : Passwords]
    BY <1>1 DEF SigningIn
<1>3. Credential(s)
    BY DEF save_session, IInv, CallsSound, Sound, Credential
<1>4. CallsSound' /\ pend' \in [Calls -> Call]
    BY CallMoves, IdleSound DEF save_session
<1>5. TypeOK'
    BY <1>2, <1>4 DEF IInv, TypeOK, save_session
<1>6. SessionsSound'
    BY <1>3 DEF IInv, SessionsSound, Credential, save_session
<1>7. TokensSound' /\ AttemptsSound'
    BY AttemptsKept DEF IInv, TokensSound, save_session
<1> QED BY <1>4, <1>5, <1>6, <1>7 DEF IInv

\* Signing out and expiry only remove rows.
LEMMA SessionEnds ==
    ASSUME IInv, NEW s \in sessions, sign_out(s) \/ session_expires(s)
    PROVE  IInv'
<1>1. /\ sessions' = sessions \ {s}
      /\ UNCHANGED <<account, tokens, attempts, now, pend, opened, used, signins>>
    BY DEF sign_out, session_expires
<1>2. TypeOK'
    BY <1>1 DEF IInv, TypeOK
<1>3. SessionsSound' /\ CallsSound' /\ TokensSound'
    BY <1>1 DEF IInv, SessionsSound, CallsSound, Sound, Credential, Document, TokensSound
<1>4. AttemptsSound'
    BY <1>1, AttemptsKept
<1> QED BY <1>2, <1>3, <1>4 DEF IInv

-----------------------------------------------------------------------------
(* Signing in and time.                                                    *)

\* Counting attempts: a subset has no more, one more adds at most one.
LEMMA Fewer ==
    ASSUME NEW S, NEW T, IsFiniteSet(T), S \subseteq T, NEW n \in Nat, Cardinality(T) <= n
    PROVE  IsFiniteSet(S) /\ Cardinality(S) <= n
BY FS_Subset, FS_CardinalityType

\* A finite set grows by one element, its cardinality by at most one.
LEMMA OneMore ==
    ASSUME NEW S, IsFiniteSet(S), NEW x, NEW n \in Nat, Cardinality(S) < n
    PROVE  IsFiniteSet(S \cup {x}) /\ Cardinality(S \cup {x}) <= n
<1>1. Cardinality(S) \in Nat
    BY FS_CardinalityType
<1>2. /\ IsFiniteSet(S \cup {x})
      /\ Cardinality(S \cup {x}) \in {Cardinality(S), Cardinality(S) + 1}
    BY FS_AddElement
<1> QED BY <1>1, <1>2

\* An admitted attempt fits in the limit of its minute.
LEMMA SignInAttempts ==
    ASSUME Setting, IInv, NEW c, NEW p, sign_in(c, p)
    PROVE  AttemptsSound'
<1> DEFINE x == [id |-> opened, at |-> now]
<1>1. /\ Cardinality(retained) < Limit
      /\ attempts' = retained \cup {x}
      /\ signins' = signins \cup {x}
      /\ now' = now
    BY DEF sign_in
<1>2. IsFiniteSet(retained)
    BY FS_Subset DEF IInv, AttemptsSound, retained
<1>3. IsFiniteSet(attempts') /\ Cardinality(attempts') <= Limit
    BY <1>1, <1>2, OneMore DEF Setting
<1>4. retained' \subseteq attempts'
    BY DEF retained
<1>5. Cardinality(retained') <= Limit
    BY <1>3, <1>4, Fewer DEF Setting
<1>6. \A a \in signins' : a.at + Minute > now' => a \in attempts'
    BY <1>1 DEF IInv, AttemptsSound, retained
<1> QED BY <1>3, <1>5, <1>6 DEF AttemptsSound

\* sign_in counts its attempt and keeps the credentials it checked.
LEMMA SignInStep ==
    ASSUME Setting, IInv, NEW c \in Calls, NEW p \in Passwords, sign_in(c, p)
    PROVE  IInv'
<1> DEFINE q == [op |-> "session", auth |-> account.auth, pw |-> p]
<1>1. CallsSound' /\ pend' \in [Calls -> Call]
    <2>1. CASE account.live /\ account.pw = p
        <3>1. q \in Call
            BY DEF Call, SigningIn, IInv, TypeOK, Account
        <3>2. Sound(q)
            BY <2>1 DEF Sound, Credential, IInv, TypeOK, Account
        <3> QED BY <2>1, <3>1, <3>2, CallMoves DEF sign_in
    <2>2. CASE ~(account.live /\ account.pw = p)
        <3>1. UNCHANGED <<pend, account>>
            BY <2>2 DEF sign_in
        <3> QED BY <3>1 DEF IInv, TypeOK, CallsSound, Sound, Credential, Document
    <2> QED BY <2>1, <2>2
<1>2. attempts' \subseteq Attempt /\ signins' \subseteq Attempt /\ opened' \in Nat
    BY DEF IInv, TypeOK, Attempt, sign_in, retained
<1>3. TypeOK'
    BY <1>1, <1>2 DEF IInv, TypeOK, sign_in
<1>4. SessionsSound' /\ TokensSound'
    BY DEF IInv, SessionsSound, Credential, TokensSound, sign_in
<1> QED BY <1>1, <1>3, <1>4, SignInAttempts DEF IInv

\* Time only forgets attempts.
LEMMA TickStep ==
    ASSUME Setting, IInv, tick
    PROVE  IInv'
<1>1. TypeOK'
    BY DEF IInv, TypeOK, tick
<1>2. SessionsSound' /\ CallsSound' /\ TokensSound'
    BY DEF IInv, SessionsSound, CallsSound, Sound, Credential, Document, TokensSound, tick
<1>3. \A a \in Attempt : a.at + Minute > now' => a.at + Minute > now
    BY DEF Attempt, Setting, IInv, TypeOK, tick
<1>4. retained' \subseteq retained
    BY <1>3 DEF retained, IInv, TypeOK, tick
<1>5. IsFiniteSet(retained)
    BY FS_Subset DEF IInv, AttemptsSound, retained
<1>6. Cardinality(retained') <= Limit
    BY <1>4, <1>5, Fewer DEF IInv, AttemptsSound, Setting
<1>7. AttemptsSound'
    BY <1>3, <1>6 DEF IInv, TypeOK, AttemptsSound, tick
<1> QED BY <1>1, <1>2, <1>7 DEF IInv

-----------------------------------------------------------------------------
(* The account is created or changed.                                      *)

\* The only calls that hold nothing of the account, while there is none.
LEMMA CreateStep ==
    ASSUME IInv, NEW c \in Calls, NEW p \in Passwords, ~account.live,
           account' = new_account(p),
           pend' = [pend EXCEPT ![c] = Idle],
           UNCHANGED <<sessions, attempts, now, opened, signins>>
    PROVE  CallsSound' /\ SessionsSound' /\ AttemptsSound' /\ account' \in Account
           /\ account'.live /\ pend' \in [Calls -> Call]
<1>1. account' \in Account /\ account'.live
    BY DEF new_account, Account
<1>2. pend' \in [Calls -> Call]
    BY IdleSound DEF IInv, TypeOK
<1>3. SessionsSound'
    BY DEF IInv, SessionsSound, Credential
<1>4. ASSUME NEW d \in Calls PROVE pend'[d].op \notin {"session", "change", "consume"}
    <2>1. pend'[d] = Idle \/ pend'[d] = pend[d]
        BY DEF IInv, TypeOK
    <2>2. Sound(pend[d])
        BY DEF IInv, CallsSound
    <2> QED BY <2>1, <2>2 DEF Idle, Sound, Credential, Document
<1>5. CallsSound'
    BY <1>1, <1>4 DEF CallsSound, Sound
<1>6. AttemptsSound'
    BY AttemptsKept
<1> QED BY <1>1, <1>2, <1>3, <1>5, <1>6

\* A token is consumed by the one call that finds it unused.
LEMMA Consumed ==
    ASSUME IInv, NEW t \in Tokens, token_unused(t),
           tokens' = [tokens EXCEPT ![t] = "consumed"],
           used' = [used EXCEPT ![t] = @ + 1],
           account'.live
    PROVE  /\ TokensSound'
           /\ tokens' \in [Tokens -> {"unissued", "open", "consumed", "expired"}]
           /\ used' \in [Tokens -> Nat]
<1>1. used[t] = 0
    BY DEF IInv, TypeOK, TokensSound, token_unused
<1>2. /\ tokens' \in [Tokens -> {"unissued", "open", "consumed", "expired"}]
      /\ used' \in [Tokens -> Nat]
    BY DEF IInv, TypeOK
<1>3. \A u \in Tokens : used'[u] <= 1 /\ (used'[u] = 1 => tokens'[u] = "consumed")
    BY <1>1 DEF IInv, TypeOK, TokensSound
<1> QED BY <1>2, <1>3 DEF TokensSound

\* consume_invite makes the account and consumes the invite in one transaction.
LEMMA ConsumeInviteStep ==
    ASSUME IInv, NEW c \in Calls, consume_invite(c)
    PROVE  IInv'
<1>1. pend[c] \in Accepting
    BY DEF consume_invite, IInv, TypeOK, Call, Idle, Creating, SigningIn, Changing, Resetting,
           Consuming
<1>2. CASE account.live \/ ~token_unused(pend[c].token)
    BY <1>2, RefuseStep DEF consume_invite
<1>3. CASE ~(account.live \/ ~token_unused(pend[c].token))
    <2>1. pend[c].pw \in Passwords /\ pend[c].token \in Tokens
        BY <1>1 DEF Accepting, Tokens
    <2>2. /\ CallsSound' /\ SessionsSound' /\ AttemptsSound'
          /\ account' \in Account /\ account'.live /\ pend' \in [Calls -> Call]
        BY <1>3, <2>1, CreateStep DEF consume_invite
    <2>3. /\ TokensSound'
          /\ tokens' \in [Tokens -> {"unissued", "open", "consumed", "expired"}]
          /\ used' \in [Tokens -> Nat]
        BY <1>3, <2>1, <2>2, Consumed DEF consume_invite
    <2>4. TypeOK'
        BY <1>3, <2>2, <2>3 DEF IInv, TypeOK, consume_invite
    <2> QED BY <2>2, <2>3, <2>4 DEF IInv
<1> QED BY <1>2, <1>3

\* create_account_and_workspace makes the first account.
LEMMA CreateAccountStep ==
    ASSUME IInv, NEW c \in Calls, create_account_and_workspace(c)
    PROVE  IInv'
<1>1. pend[c] \in Creating
    BY DEF create_account_and_workspace, IInv, TypeOK, Call, Idle, Accepting, SigningIn,
           Changing, Resetting, Consuming
<1>2. CASE account.live
    BY <1>2, RefuseStep DEF create_account_and_workspace
<1>3. CASE ~account.live
    <2>1. pend[c].pw \in Passwords
        BY <1>1 DEF Creating
    <2>2. /\ CallsSound' /\ SessionsSound' /\ AttemptsSound'
          /\ account' \in Account /\ account'.live /\ pend' \in [Calls -> Call]
        BY <1>3, <2>1, CreateStep DEF create_account_and_workspace
    <2>3. TokensSound'
        BY <1>3, <2>2 DEF create_account_and_workspace, IInv, TokensSound
    <2>4. TypeOK'
        BY <1>3, <2>2 DEF IInv, TypeOK, create_account_and_workspace
    <2> QED BY <2>2, <2>3, <2>4 DEF IInv
<1> QED BY <1>2, <1>3

\* Saving a document computed from the present revision ends every session and
\* outdates every other document.
LEMMA ChangeStep ==
    ASSUME IInv, NEW c \in Calls, pend[c] \in Changing \cup Consuming,
           unchanged_since(pend[c].rev),
           account' = pend[c].doc,
           pend' = [pend EXCEPT ![c] = Idle],
           UNCHANGED <<sessions, attempts, now, opened, signins>>
    PROVE  CallsSound' /\ SessionsSound' /\ AttemptsSound' /\ account' \in Account
           /\ account'.live /\ pend' \in [Calls -> Call]
<1>1. Document(pend[c])
    BY DEF IInv, CallsSound, Sound, Changing, Consuming
<1>2. account' \in Account
    BY DEF Changing, Consuming
<1>3. account'.live /\ account'.auth = account.auth + 1 /\ account'.rev = account.rev + 1
    BY <1>1 DEF Document, unchanged_since
<1>4. account.auth \in Nat /\ account.rev \in Nat
    BY DEF IInv, TypeOK, Account
<1>5. pend' \in [Calls -> Call]
    BY IdleSound DEF IInv, TypeOK
<1>6. SessionsSound'
    <2>1. ASSUME NEW s \in sessions PROVE s.auth \in Nat /\ s.auth <= account.auth
        BY DEF IInv, TypeOK, SessionsSound, Credential
    <2> QED BY <1>3, <1>4, <2>1 DEF SessionsSound, Credential
<1>7. ASSUME NEW d \in Calls PROVE Sound(pend[d])'
    <2>1. pend'[d] = Idle \/ pend'[d] = pend[d]
        BY DEF IInv, TypeOK
    <2>2. CASE pend'[d] = Idle
        BY <2>2 DEF Idle, Sound
    <2>3. CASE pend'[d] = pend[d]
        <3>1. Sound(pend[d])
            BY DEF IInv, CallsSound
        <3>2. /\ pend[d].op = "session" => pend[d].auth \in Nat
              /\ pend[d].op \in {"change", "consume"} => pend[d].rev \in Nat
            BY DEF IInv, TypeOK, Call, Idle, Accepting, Creating, SigningIn, Changing,
                   Resetting, Consuming
        <3>3. pend'[d].op = "session" => Credential(pend[d])'
            BY <1>3, <1>4, <2>3, <3>1, <3>2 DEF Sound, Credential
        <3>4. pend'[d].op \in {"change", "consume"} => Document(pend[d])'
            BY <1>3, <1>4, <2>3, <3>1, <3>2 DEF Sound, Document
        <3> QED BY <1>3, <3>3, <3>4 DEF Sound
    <2> QED BY <2>1, <2>2, <2>3
<1>8. CallsSound'
    BY <1>7 DEF CallsSound
<1>9. AttemptsSound'
    BY AttemptsKept
<1> QED BY <1>2, <1>3, <1>5, <1>6, <1>8, <1>9

\* save_account replaces the document its call read, at the same revision.
LEMMA SaveAccountStep ==
    ASSUME IInv, NEW c \in Calls, save_account(c)
    PROVE  IInv'
<1>1. pend[c] \in Changing
    BY DEF save_account, IInv, TypeOK, Call, Idle, Accepting, Creating, SigningIn, Resetting,
           Consuming
<1>2. CASE ~unchanged_since(pend[c].rev)
    BY <1>2, RefuseStep DEF save_account
<1>3. CASE unchanged_since(pend[c].rev)
    <2>1. /\ CallsSound' /\ SessionsSound' /\ AttemptsSound'
          /\ account' \in Account /\ account'.live /\ pend' \in [Calls -> Call]
        BY <1>1, <1>3, ChangeStep DEF save_account
    <2>2. TokensSound'
        BY <1>3, <2>1 DEF save_account, IInv, TokensSound
    <2>3. TypeOK'
        BY <1>3, <2>1 DEF IInv, TypeOK, save_account
    <2> QED BY <2>1, <2>2, <2>3 DEF IInv
<1> QED BY <1>2, <1>3

\* consume_reset replaces the document and consumes the token in one transaction.
LEMMA ConsumeResetStep ==
    ASSUME IInv, NEW c \in Calls, consume_reset(c)
    PROVE  IInv'
<1>1. pend[c] \in Consuming
    BY DEF consume_reset, IInv, TypeOK, Call, Idle, Accepting, Creating, SigningIn, Changing,
           Resetting
<1>2. CASE ~token_unused(pend[c].token) \/ ~unchanged_since(pend[c].rev)
    BY <1>2, RefuseStep DEF consume_reset
<1>3. CASE ~(~token_unused(pend[c].token) \/ ~unchanged_since(pend[c].rev))
    <2>1. /\ CallsSound' /\ SessionsSound' /\ AttemptsSound'
          /\ account' \in Account /\ account'.live /\ pend' \in [Calls -> Call]
        BY <1>1, <1>3, ChangeStep DEF consume_reset
    <2>2. pend[c].token \in Tokens
        BY <1>1 DEF Consuming, Tokens
    <2>3. /\ TokensSound'
          /\ tokens' \in [Tokens -> {"unissued", "open", "consumed", "expired"}]
          /\ used' \in [Tokens -> Nat]
        BY <1>3, <2>1, <2>2, Consumed DEF consume_reset
    <2>4. TypeOK'
        BY <1>3, <2>1, <2>3 DEF IInv, TypeOK, consume_reset
    <2> QED BY <2>1, <2>3, <2>4 DEF IInv
<1> QED BY <1>2, <1>3

-----------------------------------------------------------------------------
\* A call of the service is one of the steps above.
LEMMA CallSteps ==
    ASSUME Setting, IInv, NEW c \in Calls,
           \/ \E p \in Passwords :
                 \/ \E t \in Invites : accept_invite(c, t, p)
                 \/ bootstrap_admin(c, p)
                 \/ sign_in(c, p)
                 \/ \E s \in sessions : change_password(c, s, p)
                 \/ reset_reads_account(c, p)
           \/ \E t \in Resets : reset_password(c, t)
           \/ consume_invite(c) \/ create_account_and_workspace(c) \/ save_session(c)
           \/ save_account(c) \/ consume_reset(c)
    PROVE  IInv'
<1>1. ASSUME NEW p \in Passwords,
             \/ \E t \in Invites : accept_invite(c, t, p)
             \/ bootstrap_admin(c, p)
      PROVE  IInv'
    BY <1>1, ReadingSteps
<1>2. ASSUME NEW p \in Passwords, sign_in(c, p) PROVE IInv'
    BY <1>2, SignInStep
<1>3. ASSUME NEW p \in Passwords, NEW s \in sessions, change_password(c, s, p) PROVE IInv'
    BY <1>3, ChangeReads
<1>4. ASSUME NEW p \in Passwords, reset_reads_account(c, p) PROVE IInv'
    BY <1>4, ResetReads
<1>5. ASSUME NEW t \in Resets, reset_password(c, t) PROVE IInv'
    BY <1>5, ResetTokenStep
<1>6. CASE consume_invite(c)
    BY <1>6, ConsumeInviteStep
<1>7. CASE create_account_and_workspace(c)
    BY <1>7, CreateAccountStep
<1>8. CASE save_session(c)
    BY <1>8, SaveSessionStep
<1>9. CASE save_account(c)
    BY <1>9, SaveAccountStep
<1>10. CASE consume_reset(c)
    BY <1>10, ConsumeResetStep
<1> QED BY <1>1, <1>2, <1>3, <1>4, <1>5, <1>6, <1>7, <1>8, <1>9, <1>10

\* The invariant speaks of no other variable.
LEMMA StutterStep ==
    ASSUME IInv, UNCHANGED avars
    PROVE  IInv'
<1>1. TypeOK' /\ TokensSound'
    BY DEF IInv, TypeOK, TokensSound, avars
<1>2. SessionsSound' /\ CallsSound'
    BY DEF IInv, SessionsSound, CallsSound, Sound, Credential, Document, avars
<1>3. AttemptsSound'
    BY AttemptsKept DEF avars
<1> QED BY <1>1, <1>2, <1>3 DEF IInv

\* Every step keeps the invariant.
LEMMA NextIInv ==
    ASSUME Setting, IInv, [Next]_avars
    PROVE  IInv'
<1>1. ASSUME NEW t \in Tokens,
             create_invite(t) \/ create_password_reset(t) \/ token_expires(t)
      PROVE  IInv'
    BY <1>1, TokenSteps
<1>2. ASSUME NEW s \in sessions, sign_out(s) \/ session_expires(s) PROVE IInv'
    BY <1>2, SessionEnds
<1> QED BY <1>1, <1>2, CallSteps, TickStep, StutterStep DEF Next

\* The inductive invariant holds of every state that accounts and sessions reach.
LEMMA Invariance ==
    ASSUME Setting
    PROVE  Spec => []IInv
<1>1. Init => IInv
    BY InitIInv
<1>2. IInv /\ [Next]_avars => IInv'
    BY NextIInv
<1> QED BY <1>1, <1>2, PTL DEF Spec

\* Signing in stays tied to the present credentials, however calls interleave
\* between what they read and what they commit: a session that authenticates was
\* opened with the present password, an invite or a reset takes effect once, and
\* a minute has at most Limit sign-ins.
THEOREM SignInsSound ==
    ASSUME Setting
    PROVE  Spec => []SignInSound
<1>1. ASSUME IInv PROVE SignInSound
    <2>1. SessionsOfPassword
        BY <1>1 DEF IInv, SessionsSound, Credential, SessionsOfPassword, authenticate
    <2>2. TokenOnce
        BY <1>1 DEF IInv, TokensSound, TokenOnce
    <2>3. {a \in signins : a.at + Minute > now} \subseteq retained
        BY <1>1 DEF IInv, AttemptsSound, retained
    <2>4. IsFiniteSet(retained)
        BY <1>1, FS_Subset DEF IInv, AttemptsSound, retained
    <2>5. AttemptsBounded
        BY <1>1, <2>3, <2>4, Fewer DEF IInv, AttemptsSound, AttemptsBounded, Setting
    <2> QED BY <2>1, <2>2, <2>5 DEF SignInSound
<1> QED BY <1>1, Invariance, PTL

\* save_account: a password change takes effect only over the password that it
\* has verified.
THEOREM ChangesVerified ==
    ASSUME Setting
    PROVE  Spec => [][ChangeVerified]_avars
<1>1. ASSUME IInv, [Next]_avars PROVE [ChangeVerified]_avars
    <2>1. SUFFICES ASSUME NEW c \in Calls, pend[c].op = "change", pend'[c] = Idle,
                          account' # account
                   PROVE  pend[c].current = account.pw
        BY DEF ChangeVerified
    <2>2. PICK d \in Calls : \/ consume_invite(d) \/ create_account_and_workspace(d)
                             \/ save_account(d) \/ consume_reset(d)
        BY <1>1, <2>1 DEF Next, avars, create_invite, create_password_reset, token_expires,
              accept_invite, bootstrap_admin, sign_in, change_password, reset_reads_account,
              reset_password, save_session, sign_out, session_expires, tick, reads
    <2>3. pend' = [pend EXCEPT ![d] = Idle]
        BY <2>2 DEF consume_invite, create_account_and_workspace, save_account, consume_reset,
                    refuse, reads
    <2>4. pend[c] # Idle
        BY <2>1 DEF Idle
    <2>5. d = c
        BY <1>1, <2>1, <2>3, <2>4 DEF IInv, TypeOK
    <2>6. save_account(c)
        BY <2>1, <2>2, <2>5 DEF consume_invite, create_account_and_workspace, consume_reset
    <2>7. unchanged_since(pend[c].rev)
        BY <2>1, <2>6 DEF save_account, refuse, reads
    <2>8. Document(pend[c])
        BY <1>1, <2>1 DEF IInv, CallsSound, Sound
    <2> QED BY <2>1, <2>7, <2>8 DEF Document, unchanged_since
<1> QED BY <1>1, Invariance, PTL DEF Spec
=============================================================================
