------------------------------- MODULE Accounts -------------------------------
(***************************************************************************)
(* The account of one username: AuthService over IdentityRepository.       *)
(* Every service call reads rows, spends time on password hashing and then *)
(* commits one transaction guarded by the revisions it has read, so other  *)
(* calls commit in between.  pend holds what a call has read.              *)
(*                                                                         *)
(* A password is a value of Passwords: its hash verifies that value only.  *)
(***************************************************************************)
EXTENDS Naturals, FiniteSets

CONSTANTS
    Calls,        \* concurrent service calls
    Passwords,    \* acceptable passwords
    Invites,      \* invite tokens issued for the username
    Resets,       \* password reset tokens
    MaxAuth,      \* password changes
    MaxSessions,  \* sign-ins that are not rate limited
    Limit,        \* login_attempts_per_minute
    Minute,       \* ticks of a minute
    MaxNow        \* ticks

VARIABLES
    account,   \* the row of accounts: rev, auth (auth_revision), pw; live once created
    tokens,    \* invite or reset token -> "unissued", "open", "consumed" or "expired"
    sessions,  \* rows of sessions: the auth_revision and, as a ghost, the password
    attempts,  \* login_attempts.timestamps: a set of [id, at], their order is never used
    now,
    pend,      \* call -> what it has read
    opened,    \* sign-ins so far, which number the attempts
    used,      \* ghost: token -> times it took effect
    signins    \* ghost: every attempt that was not rate limited

avars == <<account, tokens, sessions, attempts, now, pend, opened, used, signins>>

Idle == [op |-> "none"]

NoAccount == [live |-> FALSE, rev |-> 0, auth |-> 0, pw |-> 0]

Tokens == Invites \cup Resets

Init ==
    /\ account = NoAccount
    /\ tokens = [t \in Tokens |-> "unissued"]
    /\ sessions = {} /\ attempts = {} /\ now = 0
    /\ pend = [c \in Calls |-> Idle]
    /\ opened = 0
    /\ used = [t \in Tokens |-> 0] /\ signins = {}

reads(c, call) ==
    /\ pend' = [pend EXCEPT ![c] = call]
    /\ UNCHANGED <<account, tokens, sessions, attempts, now, opened, used, signins>>

refuse(c) == reads(c, Idle)

\* AccountRecord of a new account
new_account(p) == [live |-> TRUE, rev |-> 0, auth |-> 0, pw |-> p]

\* A change that leaves the sessions of the account valid.
changed_silently(a, p) == [a EXCEPT !.pw = p, !.rev = @ + 1]

\* change_password and reset_password: the document they save
changed(a, p) == [a EXCEPT !.pw = p, !.auth = @ + 1, !.rev = @ + 1]

\* create_invite
create_invite(t) ==
    /\ tokens[t] = "unissued" /\ t \in Invites
    /\ ~ account.live
    /\ tokens' = [tokens EXCEPT ![t] = "open"]
    /\ UNCHANGED <<account, sessions, attempts, now, pend, opened, used, signins>>

\* create_password_reset
create_password_reset(t) ==
    /\ tokens[t] = "unissued" /\ t \in Resets
    /\ account.live
    /\ tokens' = [tokens EXCEPT ![t] = "open"]
    /\ UNCHANGED <<account, sessions, attempts, now, pend, opened, used, signins>>

\* expires_at <= now is seen by calls that read the token afterwards.
token_expires(t) ==
    /\ tokens[t] = "open"
    /\ tokens' = [tokens EXCEPT ![t] = "expired"]
    /\ UNCHANGED <<account, sessions, attempts, now, pend, opened, used, signins>>

\* accept_invite up to its transaction
accept_invite(c, t, p) ==
    /\ pend[c] = Idle
    /\ t \in Invites /\ tokens[t] = "open"
    /\ ~ account.live
    /\ reads(c, [op |-> "accept", token |-> t, pw |-> p])

\* The row of the token is as it was read: only its use changes its revision.
token_unused(t) == tokens[t] # "consumed"

\* consume_invite_create_account_and_workspace
consume_invite(c) ==
    /\ pend[c].op = "accept"
    /\ IF account.live \/ ~ token_unused(pend[c].token)
       THEN refuse(c)
       ELSE /\ account' = new_account(pend[c].pw)
            /\ tokens' = [tokens EXCEPT ![pend[c].token] = "consumed"]
            /\ used' = [used EXCEPT ![pend[c].token] = @ + 1]
            /\ pend' = [pend EXCEPT ![c] = Idle]
            /\ UNCHANGED <<sessions, attempts, now, opened, signins>>

\* bootstrap_admin up to its transaction
bootstrap_admin(c, p) ==
    /\ pend[c] = Idle
    /\ ~ account.live
    /\ reads(c, [op |-> "create", pw |-> p])

\* create_account_and_workspace: the username is reserved by its primary key.
create_account_and_workspace(c) ==
    /\ pend[c].op = "create"
    /\ IF account.live
       THEN refuse(c)
       ELSE /\ account' = new_account(pend[c].pw)
            /\ pend' = [pend EXCEPT ![c] = Idle]
            /\ UNCHANGED <<tokens, sessions, attempts, now, opened, used, signins>>

\* The attempts still inside the minute
retained == {a \in attempts : a.at + Minute > now}

\* record_login_attempt under the lock of its row, then sign_in up to its write:
\* the password is verified against the account read here.
sign_in(c, p) ==
    /\ pend[c] = Idle
    /\ opened < MaxSessions
    /\ Cardinality(retained) < Limit
    /\ attempts' = retained \cup {[id |-> opened, at |-> now]}
    /\ signins' = signins \cup {[id |-> opened, at |-> now]}
    /\ opened' = opened + 1
    /\ pend' = IF account.live /\ account.pw = p
               THEN [pend EXCEPT ![c] = [op |-> "session", auth |-> account.auth, pw |-> p]]
               ELSE pend
    /\ UNCHANGED <<account, tokens, sessions, now, used>>

\* save_session(None, record)
save_session(c) ==
    /\ pend[c].op = "session"
    /\ sessions' = sessions \cup {[auth |-> pend[c].auth, pw |-> pend[c].pw]}
    /\ pend' = [pend EXCEPT ![c] = Idle]
    /\ UNCHANGED <<account, tokens, attempts, now, opened, used, signins>>

\* authenticate, for an unexpired session
authenticate(s) == account.live /\ s.auth = account.auth

\* sign_out of an authenticated session; delete_session
sign_out(s) ==
    /\ authenticate(s)
    /\ sessions' = sessions \ {s}
    /\ UNCHANGED <<account, tokens, attempts, now, pend, opened, used, signins>>

session_expires(s) ==
    /\ sessions' = sessions \ {s}
    /\ UNCHANGED <<account, tokens, attempts, now, pend, opened, used, signins>>

\* cas_tx on accounts: the revision that was read
unchanged_since(rev) == account.live /\ account.rev = rev

\* change_password up to its write, in an authenticated session
change_password(c, s, p) ==
    /\ pend[c] = Idle
    /\ authenticate(s)
    /\ account.auth < MaxAuth
    /\ reads(c, [op |-> "change", doc |-> changed(account, p), rev |-> account.rev,
                 current |-> account.pw])

\* save_account(Some(expected), account)
save_account(c) ==
    /\ pend[c].op = "change"
    /\ IF ~ unchanged_since(pend[c].rev)
       THEN refuse(c)
       ELSE /\ account' = pend[c].doc
            /\ pend' = [pend EXCEPT ![c] = Idle]
            /\ UNCHANGED <<tokens, sessions, attempts, now, opened, used, signins>>

\* reset_password: the reset is read and checked first
reset_password(c, t) ==
    /\ pend[c] = Idle
    /\ t \in Resets /\ tokens[t] = "open"
    /\ reads(c, [op |-> "reset", token |-> t])

\* reset_password: then the account, and the new password is hashed
reset_reads_account(c, p) ==
    /\ pend[c].op = "reset"
    /\ account.auth < MaxAuth
    /\ reads(c, [op |-> "consume", token |-> pend[c].token, doc |-> changed(account, p),
                 rev |-> account.rev])

\* consume_reset_and_update_account: both rows are as they were read
consume_reset(c) ==
    /\ pend[c].op = "consume"
    /\ IF ~ token_unused(pend[c].token) \/ ~ unchanged_since(pend[c].rev)
       THEN refuse(c)
       ELSE /\ account' = pend[c].doc
            /\ tokens' = [tokens EXCEPT ![pend[c].token] = "consumed"]
            /\ used' = [used EXCEPT ![pend[c].token] = @ + 1]
            /\ pend' = [pend EXCEPT ![c] = Idle]
            /\ UNCHANGED <<sessions, attempts, now, opened, signins>>

tick ==
    /\ now < MaxNow
    /\ now' = now + 1
    /\ UNCHANGED <<account, tokens, sessions, attempts, pend, opened, used, signins>>

Next ==
    \/ \E t \in Tokens : create_invite(t) \/ create_password_reset(t) \/ token_expires(t)
    \/ \E c \in Calls :
          \/ \E p \in Passwords :
                \/ \E t \in Invites : accept_invite(c, t, p)
                \/ bootstrap_admin(c, p)
                \/ sign_in(c, p)
                \/ \E s \in sessions : change_password(c, s, p)
                \/ reset_reads_account(c, p)
          \/ \E t \in Resets : reset_password(c, t)
          \/ consume_invite(c) \/ create_account_and_workspace(c) \/ save_session(c)
          \/ save_account(c) \/ consume_reset(c)
    \/ \E s \in sessions : sign_out(s) \/ session_expires(s)
    \/ tick

Spec == Init /\ [][Next]_avars

\* A session that authenticates was opened with the password the account has now:
\* one opened while the password was being changed is refused, also when its row
\* is written after the change.
SessionsOfPassword ==
    \A s \in sessions : authenticate(s) => s.pw = account.pw

\* A password change takes effect only over the password it has verified: one
\* that verified the old password while a reset was under way is refused.
ChangeVerified ==
    \A c \in Calls :
          pend[c].op = "change" /\ pend'[c] = Idle /\ account' # account
          => pend[c].current = account.pw

\* An invite or a reset token takes effect once, also when two calls have both
\* read it before either commits.
TokenOnce == \A t \in Tokens : used[t] <= 1

\* In any minute at most Limit sign-ins of a username reach the password check.
AttemptsBounded ==
    Cardinality({a \in signins : a.at + Minute > now}) <= Limit

\* Signing in stays tied to the present credentials.
SignInSound == SessionsOfPassword /\ TokenOnce /\ AttemptsBounded
===============================================================================
