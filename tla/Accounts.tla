------------------------------ MODULE Accounts ------------------------------
(***************************************************************************)
(* Accounts, sessions, API tokens and invitations (internal/store/users.go,*)
(* sessions.go, api_tokens.go, invitations.go) and the requests that use   *)
(* them (internal/api/auth.go, auth_middleware.go, admin.go,               *)
(* invitations.go).                                                        *)
(*                                                                         *)
(* A transaction is one action.  A handler that makes several, or that     *)
(* acts on a row it read earlier, is a request that goes through several   *)
(* places and may end at each of them: the client goes away and its        *)
(* context is cancelled, or the store fails.  The name of an account stands*)
(* for its id; whether a client knows a password is its own choice.        *)
(***************************************************************************)
EXTENDS FiniteSets

CONSTANTS
    User,      \* accounts there may be
    Root,      \* the bootstrap administrator, id 1
    Password,
    Sentinel,  \* SetupSentinelHash: matches no password
    Session, Token, Invitation,  \* rows there may be
    Nobody,
    Request

ASSUME AccountsAssumption ==
    /\ Root \in User /\ Nobody \notin User
    /\ Sentinel \notin Password
    /\ Session \cap Token = {}

VARIABLES
    users,     \* account -> its row
    sessions,  \* row -> whose it is
    tokens,    \* row -> whose it is
    invites,   \* row -> its state and, once used, by whom
    reqs       \* request -> where it is and what it carries

vars == <<users, sessions, tokens, invites, reqs>>

UserRow == [exists: BOOLEAN, pw: Password \cup {Sentinel}, admin: BOOLEAN, disabled: BOOLEAN]

InviteRow == [state: {"none", "open", "expired", "used"}, by: User \cup {Nobody}]

\* user: whom it acts as, logs in or patches; flag: is_admin of the row the
\* middleware read, or the is_disabled a patch asks for; pw: what was verified.
RequestRow ==
    [at: {"idle", "setup", "rehash", "start", "authed", "purge", "patch"},
     user: User, flag: BOOLEAN, pw: Password \cup {Sentinel}]

TypeOK ==
    /\ users \in [User -> UserRow]
    /\ sessions \in [Session -> User \cup {Nobody}]
    /\ tokens \in [Token -> User \cup {Nobody}]
    /\ invites \in [Invitation -> InviteRow]
    /\ reqs \in [Request -> RequestRow]

NoUser == [exists |-> FALSE, pw |-> Sentinel, admin |-> FALSE, disabled |-> FALSE]
Idle == [at |-> "idle", user |-> Root, flag |-> FALSE, pw |-> Sentinel]

Init ==
    /\ users = [u \in User |-> IF u = Root THEN [NoUser EXCEPT !.exists = TRUE, !.admin = TRUE] ELSE NoUser]
    /\ sessions = [s \in Session |-> Nobody]
    /\ tokens = [t \in Token |-> Nobody]
    /\ invites = [i \in Invitation |-> [state |-> "none", by |-> Nobody]]
    /\ reqs = [r \in Request |-> Idle]

At(r, place) == reqs[r].at = place

Goes(r, place, u, flag, pw) ==
    reqs' = [reqs EXCEPT ![r] = [at |-> place, user |-> u, flag |-> flag, pw |-> pw]]

Ends(r) == reqs' = [reqs EXCEPT ![r] = Idle]

----------------------------------------------------------------------------
(* Credentials: the two lookups join the account and want it enabled.      *)

Enabled(u) == users[u].exists /\ ~users[u].disabled

\* What GetSessionByTokenHash and GetAPITokenByHash join to the credential.
Owner(c) == IF c \in Session THEN sessions[c] ELSE tokens[c]

\* A lookup without the join on is_disabled.
ActsAsMut(c) == Owner(c)

\* authenticateToken and authenticateSession.
ActsAs(c) == IF Owner(c) # Nobody /\ Enabled(Owner(c)) THEN Owner(c) ELSE Nobody

\* authMiddleware: the handler gets the row as it is now.  A session that is
\* accepted was not idle, so touching it changes nothing told apart here.
Authenticate(r, c) ==
    /\ At(r, "idle") /\ ActsAs(c) # Nobody
    /\ Goes(r, "authed", ActsAs(c), users[ActsAs(c)].admin, Sentinel)
    /\ UNCHANGED <<users, sessions, tokens, invites>>

\* A session passes its expiry, or is not used for sessionIdleTimeout: it is
\* refused from then on, so it is never touched again, and whether its row
\* is still there until DeleteExpiredSessions takes it makes no difference.
SessionExpires(s) ==
    /\ sessions[s] # Nobody
    /\ sessions' = [sessions EXCEPT ![s] = Nobody]
    /\ UNCHANGED <<users, tokens, invites, reqs>>

----------------------------------------------------------------------------
(* Setup and login                                                         *)

\* handleAuthSetup up to the hashing: setup is pending.
SetupCheck(r) ==
    /\ At(r, "idle") /\ users[Root].pw = Sentinel
    /\ Goes(r, "setup", Root, FALSE, Sentinel)
    /\ UNCHANGED <<users, sessions, tokens, invites>>

\* store.CompleteSetup: only while the sentinel is still there.
CompleteSetup(r, p) ==
    /\ At(r, "setup") /\ users[Root].pw = Sentinel
    /\ users' = [users EXCEPT ![Root].pw = p]
    /\ Goes(r, "start", Root, FALSE, Sentinel)
    /\ UNCHANGED <<sessions, tokens, invites>>

\* handleAuthLogin up to the check of the password against the row it read.
\* The hash may have been made with weaker parameters than today's.
LoginCheck(r, u, rehash) ==
    /\ At(r, "idle") /\ Enabled(u) /\ users[u].pw # Sentinel
    /\ Goes(r, IF rehash THEN "rehash" ELSE "start", u, FALSE,
            IF rehash THEN users[u].pw ELSE Sentinel)
    /\ UNCHANGED <<users, sessions, tokens, invites>>

UpdateUserPassword(u, p) == users' = [users EXCEPT ![u].pw = p]

\* The password that was verified is hashed again and written back; the login
\* goes on whether or not that succeeds.
Rehash(r) ==
    /\ At(r, "rehash")
    /\ UpdateUserPassword(reqs[r].user, reqs[r].pw) \/ UNCHANGED users
    /\ Goes(r, "start", reqs[r].user, FALSE, Sentinel)
    /\ UNCHANGED <<sessions, tokens, invites>>

\* startSession after setup, login or an accepted invitation; the account is
\* not looked at again before the row is made.
StartSession(r, s) ==
    /\ At(r, "start") /\ sessions[s] = Nobody
    /\ sessions' = [sessions EXCEPT ![s] = reqs[r].user]
    /\ Ends(r)
    /\ UNCHANGED <<users, tokens, invites>>

----------------------------------------------------------------------------
(* Requests of a user                                                      *)

\* DELETE FROM sessions WHERE user_id = u
WithoutSessionsOf(u) == [s \in Session |-> IF sessions[s] = u THEN Nobody ELSE sessions[s]]

\* handleAuthLogout: the row of the cookie that was sent.
Logout(s) ==
    /\ ActsAs(s) # Nobody
    /\ sessions' = [sessions EXCEPT ![s] = Nobody]
    /\ UNCHANGED <<users, tokens, invites, reqs>>

\* handleAuthChangePassword: the current password is verified against the row
\* the middleware read, the new one is written whatever the row holds now.
ChangePassword(r, p) ==
    /\ At(r, "authed")
    /\ UpdateUserPassword(reqs[r].user, p)
    /\ Goes(r, "purge", reqs[r].user, FALSE, Sentinel)
    /\ UNCHANGED <<sessions, tokens, invites>>

\* Only the session of the request itself is deleted.
DeleteAllSessionsForUserMut(r) ==
    /\ At(r, "purge")
    /\ \E s \in Session :
          /\ sessions[s] = reqs[r].user
          /\ sessions' = [sessions EXCEPT ![s] = Nobody]
    /\ Ends(r)
    /\ UNCHANGED <<users, tokens, invites>>

\* ... and in a second transaction the sessions go, the request's own too.
DeleteAllSessionsForUser(r) ==
    /\ At(r, "purge")
    /\ sessions' = WithoutSessionsOf(reqs[r].user)
    /\ Ends(r)
    /\ UNCHANGED <<users, tokens, invites>>

CreateAPIToken(r, t) ==
    /\ At(r, "authed") /\ tokens[t] = Nobody
    /\ tokens' = [tokens EXCEPT ![t] = reqs[r].user]
    /\ Ends(r)
    /\ UNCHANGED <<users, sessions, invites>>

\* Scoped to the caller: the id of someone else's token is not found.
DeleteAPIToken(r, t) ==
    /\ At(r, "authed") /\ tokens[t] = reqs[r].user
    /\ tokens' = [tokens EXCEPT ![t] = Nobody]
    /\ Ends(r)
    /\ UNCHANGED <<users, sessions, invites>>

----------------------------------------------------------------------------
(* Requests of an administrator, as the middleware saw the row             *)

RequireAdmin(r) == At(r, "authed") /\ reqs[r].flag

Joined(u, p, admin) ==
    [users EXCEPT ![u] = [exists |-> TRUE, pw |-> p, admin |-> admin, disabled |-> FALSE]]

CreateUser(r, u, p, admin) ==
    /\ RequireAdmin(r) /\ ~users[u].exists
    /\ users' = Joined(u, p, admin)
    /\ Ends(r)
    /\ UNCHANGED <<sessions, tokens, invites>>

\* A count that includes disabled administrators.
EnsureNotLastAdminMut(u) == \E v \in User \ {u} : users[v].exists /\ users[v].admin

\* otherAdmins > 0
EnsureNotLastAdmin(u) ==
    \E v \in User \ {u} : users[v].exists /\ users[v].admin /\ ~users[v].disabled

SetUserAdmin(u, admin) ==
    /\ users[u].exists
    /\ ~admin => EnsureNotLastAdmin(u)
    /\ users' = [users EXCEPT ![u].admin = admin]

\* The account and, when it is disabled, its sessions in one transaction.
SetUserDisabled(u, disabled) ==
    /\ users[u].exists
    /\ disabled /\ users[u].admin => EnsureNotLastAdmin(u)
    /\ users' = [users EXCEPT ![u].disabled = disabled]
    /\ sessions' = IF disabled THEN WithoutSessionsOf(u) ELSE sessions

\* handleAdminPatchUser: is_admin first, and is_disabled, when the body has
\* it too, in a transaction of its own.
PatchAdmin(r, u, admin) ==
    /\ RequireAdmin(r)
    /\ SetUserAdmin(u, admin)
    /\ \/ Ends(r)
       \/ \E disabled \in BOOLEAN : Goes(r, "patch", u, disabled, Sentinel)
    /\ UNCHANGED <<sessions, tokens, invites>>

PatchDisabled(r, u, disabled) ==
    /\ \/ RequireAdmin(r)
       \/ At(r, "patch") /\ u = reqs[r].user /\ disabled = reqs[r].flag
    /\ SetUserDisabled(u, disabled)
    /\ Ends(r)
    /\ UNCHANGED <<tokens, invites>>

CreateInvitation(r, i) ==
    /\ RequireAdmin(r) /\ invites[i].state = "none"
    /\ invites' = [invites EXCEPT ![i].state = "open"]
    /\ Ends(r)
    /\ UNCHANGED <<users, sessions, tokens>>

----------------------------------------------------------------------------
(* Invitations                                                             *)

InvitationExpires(i) ==
    /\ invites[i].state = "open"
    /\ invites' = [invites EXCEPT ![i].state = "expired"]
    /\ UNCHANGED <<users, sessions, tokens, reqs>>

\* A check of the expiry alone.
RedeemableMut(i) == invites[i].state \in {"open", "used"}

\* Neither used nor expired: what CheckInvitation answers and what
\* AcceptInvitation looks at again.
Redeemable(i) == invites[i].state = "open"

\* handleAcceptInvitation: one transaction makes the account and uses the
\* invitation up; then the new user is logged in.
AcceptInvitation(r, i, u, p) ==
    /\ At(r, "idle") /\ Redeemable(i) /\ ~users[u].exists
    /\ users' = Joined(u, p, FALSE)
    /\ invites' = [invites EXCEPT ![i] = [state |-> "used", by |-> u]]
    /\ Goes(r, "start", u, FALSE, Sentinel)
    /\ UNCHANGED <<sessions, tokens>>

----------------------------------------------------------------------------

\* The request ends where it is: another endpoint, an error answer, a client
\* that went away, a restart of the process.
Abandon(r) ==
    /\ ~At(r, "idle")
    /\ Ends(r)
    /\ UNCHANGED <<users, sessions, tokens, invites>>

LoginStep(r) ==
    \/ SetupCheck(r)
    \/ \E p \in Password : CompleteSetup(r, p)
    \/ \E u \in User, rehash \in BOOLEAN : LoginCheck(r, u, rehash)
    \/ Rehash(r)
    \/ \E s \in Session : StartSession(r, s)
    \/ \E i \in Invitation, u \in User, p \in Password : AcceptInvitation(r, i, u, p)

UserStep(r) ==
    \/ \E c \in Session \cup Token : Authenticate(r, c)
    \/ \E p \in Password : ChangePassword(r, p)
    \/ DeleteAllSessionsForUser(r)
    \/ \E t \in Token : CreateAPIToken(r, t) \/ DeleteAPIToken(r, t)
    \/ Abandon(r)

AdminStep(r) ==
    \E u \in User :
        \/ \E p \in Password, admin \in BOOLEAN : CreateUser(r, u, p, admin)
        \/ \E admin \in BOOLEAN : PatchAdmin(r, u, admin)
        \/ \E disabled \in BOOLEAN : PatchDisabled(r, u, disabled)

Next ==
    \/ \E r \in Request :
          \/ LoginStep(r) \/ UserStep(r) \/ AdminStep(r)
          \/ \E i \in Invitation : CreateInvitation(r, i)
    \/ \E s \in Session : SessionExpires(s) \/ Logout(s)
    \/ \E i \in Invitation : InvitationExpires(i)

Spec == Init /\ [][Next]_vars

----------------------------------------------------------------------------
(* Properties                                                              *)

EnabledAdmins == {u \in User : Enabled(u) /\ users[u].admin}

\* The comment at SetUserAdmin: the instance can never end up with nobody
\* able to reach the admin endpoints, whatever administrators demote or
\* disable each other at the same time, in requests admitted earlier too.
AdminAlwaysLeft == EnabledAdmins # {}

\* The tables implement the abstract specification: an account takes part
\* while it exists and is enabled, a credential acts while the middleware
\* would let it through.
Abstract == INSTANCE Access WITH
    Person <- User, Founder <- Root, Credential <- Session \cup Token, Nobody <- Nobody,
    members <- {u \in User : Enabled(u)},
    admins <- EnabledAdmins,
    acts <- [c \in Session \cup Token |-> ActsAs(c)]

AccessKept == Abstract!Spec

\* An account that comes without an administrator's request comes through an
\* invitation that was still open, and what one account has used stays its
\* own: a token is never redeemed twice.
InvitationOnce ==
    [][/\ \A u \in User :
             ~users[u].exists /\ users'[u].exists
                 => \/ \E r \in Request : RequireAdmin(r) /\ reqs'[r] # reqs[r]
                    \/ \E i \in Invitation : invites[i].state = "open" /\ invites'[i].by = u
       /\ \A i \in Invitation : invites[i].state = "used" => invites'[i] = invites[i]]_vars
====
