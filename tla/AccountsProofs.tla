--------------------------- MODULE AccountsProofs ---------------------------
(***************************************************************************)
(* For any accounts, credentials, invitations and requests: the types, the *)
(* administrator who is always left, invitations that are used once, that  *)
(* the tables implement the abstract specification Access, and that no     *)
(* session outlives a change of password or the disabling of its account.  *)
(***************************************************************************)
EXTENDS AccountsHistory, TLAPS

\* The inductive invariant.
AccountsInv == TypeOK /\ AdminAlwaysLeft

\* Only passwords, if anything, change in the users table.
SameStanding ==
    \A u \in User :
        /\ users'[u].exists = users[u].exists
        /\ users'[u].admin = users[u].admin
        /\ users'[u].disabled = users[u].disabled

----------------------------------------------------------------------------
(* Types                                                                   *)

LEMMA InitType == Init => TypeOK
<1> SUFFICES ASSUME Init PROVE TypeOK
  OBVIOUS
<1>1. NoUser \in UserRow /\ [NoUser EXCEPT !.exists = TRUE, !.admin = TRUE] \in UserRow
  BY DEF NoUser, UserRow
<1>2. users \in [User -> UserRow]
  BY <1>1 DEF Init
<1>3. Idle \in RequestRow
  BY AccountsAssumption DEF Idle, RequestRow
<1> QED
  BY <1>2, <1>3 DEF Init, TypeOK, InviteRow

\* A request that goes somewhere or ends stays a request.
LEMMA GoesType ==
    ASSUME TypeOK, NEW r \in Request,
           NEW place \in {"idle", "setup", "rehash", "start", "authed", "purge", "patch"},
           NEW u \in User, NEW flag \in BOOLEAN, NEW pw \in Password \cup {Sentinel},
           Goes(r, place, u, flag, pw)
    PROVE  reqs' \in [Request -> RequestRow]
BY DEF TypeOK, Goes, RequestRow

LEMMA EndsType ==
    ASSUME TypeOK, NEW r \in Request, Ends(r)
    PROVE  reqs' \in [Request -> RequestRow]
BY AccountsAssumption DEF TypeOK, Ends, Idle, RequestRow

\* What the middleware makes of a credential is an account or nobody.
LEMMA ActsAsType ==
    ASSUME TypeOK, NEW c \in Session \cup Token
    PROVE  ActsAs(c) \in User \cup {Nobody}
BY DEF TypeOK, ActsAs, Owner

LEMMA LoginType ==
    ASSUME TypeOK, NEW r \in Request, LoginStep(r)
    PROVE  TypeOK'
<1>1. CASE SetupCheck(r)
  BY <1>1, AccountsAssumption, GoesType DEF SetupCheck, TypeOK
<1>2. ASSUME NEW p \in Password, CompleteSetup(r, p) PROVE TypeOK'
  <2>1. reqs' \in [Request -> RequestRow]
    BY <1>2, AccountsAssumption, GoesType DEF CompleteSetup
  <2> QED
    BY <1>2, <2>1 DEF CompleteSetup, TypeOK, UserRow
<1>3. ASSUME NEW u \in User, NEW rehash \in BOOLEAN, LoginCheck(r, u, rehash) PROVE TypeOK'
  <2>1. users[u].pw \in Password \cup {Sentinel}
    BY DEF TypeOK, UserRow
  <2>2. reqs' \in [Request -> RequestRow]
    BY <1>3, <2>1, GoesType DEF LoginCheck
  <2> QED
    BY <1>3, <2>2 DEF LoginCheck, TypeOK
<1>4. CASE Rehash(r)
  <2>1. reqs[r].user \in User /\ reqs[r].pw \in Password \cup {Sentinel}
    BY DEF TypeOK, RequestRow
  <2>2. reqs' \in [Request -> RequestRow]
    BY <1>4, <2>1, GoesType DEF Rehash
  <2> QED
    BY <1>4, <2>1, <2>2 DEF Rehash, UpdateUserPassword, TypeOK, UserRow
<1>5. ASSUME NEW s \in Session, StartSession(r, s) PROVE TypeOK'
  <2>1. reqs[r].user \in User
    BY DEF TypeOK, RequestRow
  <2> QED
    BY <1>5, <2>1, EndsType DEF StartSession, TypeOK
<1>6. ASSUME NEW i \in Invitation, NEW u \in User, NEW p \in Password, AcceptInvitation(r, i, u, p)
      PROVE TypeOK'
  <2>1. reqs' \in [Request -> RequestRow]
    BY <1>6, GoesType DEF AcceptInvitation
  <2>2. users' \in [User -> UserRow]
    BY <1>6 DEF AcceptInvitation, Joined, TypeOK, UserRow
  <2>3. invites' \in [Invitation -> InviteRow]
    BY <1>6 DEF AcceptInvitation, TypeOK, InviteRow
  <2> QED
    BY <1>6, <2>1, <2>2, <2>3 DEF AcceptInvitation, TypeOK
<1> QED
  BY <1>1, <1>2, <1>3, <1>4, <1>5, <1>6 DEF LoginStep

LEMMA UserType ==
    ASSUME TypeOK, NEW r \in Request, UserStep(r)
    PROVE  TypeOK'
<1>0. reqs[r].user \in User
  BY DEF TypeOK, RequestRow
<1>1. ASSUME NEW c \in Session \cup Token, Authenticate(r, c) PROVE TypeOK'
  <2>1. ActsAs(c) \in User
    BY <1>1, ActsAsType DEF Authenticate
  <2>2. users[ActsAs(c)].admin \in BOOLEAN
    BY <2>1 DEF TypeOK, UserRow
  <2>3. reqs' \in [Request -> RequestRow]
    BY <1>1, <2>1, <2>2, GoesType DEF Authenticate
  <2> QED
    BY <1>1, <2>3 DEF Authenticate, TypeOK
<1>2. ASSUME NEW p \in Password, ChangePassword(r, p) PROVE TypeOK'
  <2>1. reqs' \in [Request -> RequestRow]
    BY <1>0, <1>2, GoesType DEF ChangePassword
  <2> QED
    BY <1>0, <1>2, <2>1 DEF ChangePassword, UpdateUserPassword, TypeOK, UserRow
<1>3. CASE DeleteAllSessionsForUser(r)
  BY <1>3, EndsType DEF DeleteAllSessionsForUser, WithoutSessionsOf, TypeOK
<1>4. ASSUME NEW t \in Token, CreateAPIToken(r, t) PROVE TypeOK'
  BY <1>0, <1>4, EndsType DEF CreateAPIToken, TypeOK
<1>5. ASSUME NEW t \in Token, DeleteAPIToken(r, t) PROVE TypeOK'
  BY <1>5, EndsType DEF DeleteAPIToken, TypeOK
<1>6. CASE Abandon(r)
  BY <1>6, EndsType DEF Abandon, TypeOK
<1> QED
  BY <1>1, <1>2, <1>3, <1>4, <1>5, <1>6 DEF UserStep

LEMMA AdminType ==
    ASSUME TypeOK, NEW r \in Request, AdminStep(r)
    PROVE  TypeOK'
<1>1. ASSUME NEW u \in User, NEW p \in Password, NEW admin \in BOOLEAN, CreateUser(r, u, p, admin)
      PROVE TypeOK'
  <2>1. users' \in [User -> UserRow]
    BY <1>1 DEF CreateUser, Joined, TypeOK, UserRow
  <2> QED
    BY <1>1, <2>1, EndsType DEF CreateUser, TypeOK
<1>2. ASSUME NEW u \in User, NEW admin \in BOOLEAN, PatchAdmin(r, u, admin) PROVE TypeOK'
  <2>1. users' \in [User -> UserRow]
    BY <1>2 DEF PatchAdmin, SetUserAdmin, TypeOK, UserRow
  <2>2. reqs' \in [Request -> RequestRow]
    BY <1>2, EndsType, GoesType DEF PatchAdmin
  <2> QED
    BY <1>2, <2>1, <2>2 DEF PatchAdmin, TypeOK
<1>3. ASSUME NEW u \in User, NEW disabled \in BOOLEAN, PatchDisabled(r, u, disabled) PROVE TypeOK'
  <2>1. users' \in [User -> UserRow]
    BY <1>3 DEF PatchDisabled, SetUserDisabled, TypeOK, UserRow
  <2>2. sessions' \in [Session -> User \cup {Nobody}]
    BY <1>3 DEF PatchDisabled, SetUserDisabled, WithoutSessionsOf, TypeOK
  <2> QED
    BY <1>3, <2>1, <2>2, EndsType DEF PatchDisabled, TypeOK
<1> QED
  BY <1>1, <1>2, <1>3 DEF AdminStep

LEMMA NextType == TypeOK /\ [Next]_vars => TypeOK'
<1> SUFFICES ASSUME TypeOK, [Next]_vars PROVE TypeOK'
  OBVIOUS
<1>1. ASSUME NEW r \in Request, NEW i \in Invitation, CreateInvitation(r, i) PROVE TypeOK'
  BY <1>1, EndsType DEF CreateInvitation, TypeOK, InviteRow
<1>2. ASSUME NEW s \in Session, SessionExpires(s) \/ Logout(s) PROVE TypeOK'
  BY <1>2 DEF SessionExpires, Logout, TypeOK
<1>3. ASSUME NEW i \in Invitation, InvitationExpires(i) PROVE TypeOK'
  BY <1>3 DEF InvitationExpires, TypeOK, InviteRow
<1>4. CASE UNCHANGED vars
  BY <1>4 DEF vars, TypeOK
<1> QED
  BY <1>1, <1>2, <1>3, <1>4, LoginType, UserType, AdminType DEF Next

----------------------------------------------------------------------------
(* The administrator who is left                                           *)

\* Whoever keeps their standing keeps taking part.
LEMMA SameAdmins ==
    ASSUME SameStanding
    PROVE  EnabledAdmins' = EnabledAdmins
BY DEF SameStanding, EnabledAdmins, Enabled

\* A new password leaves everyone's standing alone.
LEMMA PasswordOnly ==
    ASSUME TypeOK, NEW u \in User, NEW p, users' = [users EXCEPT ![u].pw = p]
    PROVE  SameStanding
BY DEF TypeOK, UserRow, SameStanding

\* A new account leaves the others alone.
LEMMA JoinedAdmins ==
    ASSUME TypeOK, NEW u \in User, NEW p, NEW admin \in BOOLEAN,
           ~users[u].exists, users' = Joined(u, p, admin)
    PROVE  /\ EnabledAdmins' = EnabledAdmins \cup (IF admin THEN {u} ELSE {})
           /\ \A v \in User : Enabled(v)' <=> Enabled(v) \/ v = u
BY DEF TypeOK, Joined, EnabledAdmins, Enabled

\* Demoting or disabling goes through only when another one is left.
LEMMA RankAdmins ==
    ASSUME TypeOK, NEW u \in User, NEW admin \in BOOLEAN, SetUserAdmin(u, admin)
    PROVE  /\ EnabledAdmins' = IF admin /\ Enabled(u) THEN EnabledAdmins \cup {u}
                               ELSE EnabledAdmins \ {u}
           /\ ~admin => EnabledAdmins \ {u} # {}
           /\ \A v \in User : Enabled(v)' <=> Enabled(v)
BY DEF TypeOK, UserRow, SetUserAdmin, EnsureNotLastAdmin, EnabledAdmins, Enabled

LEMMA DisabledAdmins ==
    ASSUME TypeOK, NEW u \in User, NEW disabled \in BOOLEAN, SetUserDisabled(u, disabled)
    PROVE  /\ EnabledAdmins' = IF ~disabled /\ users[u].admin THEN EnabledAdmins \cup {u}
                               ELSE EnabledAdmins \ {u}
           /\ disabled /\ users[u].admin => EnabledAdmins \ {u} # {}
           /\ ~users[u].admin => EnabledAdmins \ {u} = EnabledAdmins
           /\ \A v \in User : Enabled(v)' <=> (v # u /\ Enabled(v)) \/ (v = u /\ ~disabled)
BY DEF TypeOK, UserRow, SetUserDisabled, EnsureNotLastAdmin, EnabledAdmins, Enabled

LEMMA NextAdmin == AccountsInv /\ [Next]_vars => AdminAlwaysLeft'
<1> SUFFICES ASSUME TypeOK, AdminAlwaysLeft, [Next]_vars PROVE AdminAlwaysLeft'
  BY DEF AccountsInv
<1>0. ASSUME SameStanding PROVE AdminAlwaysLeft'
  BY <1>0, SameAdmins DEF AdminAlwaysLeft
<1>1. ASSUME NEW r \in Request, LoginStep(r) PROVE AdminAlwaysLeft'
  <2>0. reqs[r].user \in User
    BY DEF TypeOK, RequestRow
  <2>1. CASE SetupCheck(r)
    BY <1>0, <2>1 DEF SetupCheck, SameStanding
  <2>2. ASSUME NEW p \in Password, CompleteSetup(r, p) PROVE AdminAlwaysLeft'
    BY <1>0, <2>2, AccountsAssumption, PasswordOnly DEF CompleteSetup
  <2>3. ASSUME NEW u \in User, NEW rehash \in BOOLEAN, LoginCheck(r, u, rehash) PROVE AdminAlwaysLeft'
    BY <1>0, <2>3 DEF LoginCheck, SameStanding
  <2>4. CASE Rehash(r)
    BY <1>0, <2>0, <2>4, PasswordOnly DEF Rehash, UpdateUserPassword, SameStanding
  <2>5. ASSUME NEW x \in Session, StartSession(r, x) PROVE AdminAlwaysLeft'
    BY <1>0, <2>5 DEF StartSession, SameStanding
  <2>6. ASSUME NEW i \in Invitation, NEW u \in User, NEW p \in Password, AcceptInvitation(r, i, u, p)
        PROVE AdminAlwaysLeft'
    <3>1. EnabledAdmins \subseteq EnabledAdmins'
      BY <2>6, JoinedAdmins DEF AcceptInvitation
    <3> QED
      BY <3>1 DEF AdminAlwaysLeft
  <2> QED
    BY <1>1, <2>1, <2>2, <2>3, <2>4, <2>5, <2>6 DEF LoginStep
<1>2. ASSUME NEW r \in Request, UserStep(r) PROVE AdminAlwaysLeft'
  <2>0. reqs[r].user \in User
    BY DEF TypeOK, RequestRow
  <2>1. ASSUME NEW p \in Password, ChangePassword(r, p) PROVE AdminAlwaysLeft'
    BY <1>0, <2>0, <2>1, PasswordOnly DEF ChangePassword, UpdateUserPassword
  <2>2. CASE users' = users
    BY <1>0, <2>2 DEF SameStanding
  <2> QED
    BY <1>2, <2>1, <2>2 DEF UserStep, Authenticate, DeleteAllSessionsForUser, CreateAPIToken,
                            DeleteAPIToken, Abandon
<1>3. ASSUME NEW r \in Request, AdminStep(r) PROVE AdminAlwaysLeft'
  <2>1. ASSUME NEW u \in User, NEW p \in Password, NEW admin \in BOOLEAN, CreateUser(r, u, p, admin)
        PROVE AdminAlwaysLeft'
    <3>1. EnabledAdmins \subseteq EnabledAdmins'
      BY <2>1, JoinedAdmins DEF CreateUser
    <3> QED
      BY <3>1 DEF AdminAlwaysLeft
  <2>2. ASSUME NEW u \in User, NEW admin \in BOOLEAN, PatchAdmin(r, u, admin) PROVE AdminAlwaysLeft'
    <3>1. SetUserAdmin(u, admin)
      BY <2>2 DEF PatchAdmin
    <3>2. CASE ~admin
      BY <3>1, <3>2, RankAdmins DEF AdminAlwaysLeft
    <3>3. CASE admin
      <4>1. EnabledAdmins \subseteq EnabledAdmins'
        BY <3>1, <3>3 DEF TypeOK, UserRow, SetUserAdmin, EnabledAdmins, Enabled
      <4> QED
        BY <4>1 DEF AdminAlwaysLeft
    <3> QED
      BY <3>2, <3>3
  <2>3. ASSUME NEW u \in User, NEW disabled \in BOOLEAN, PatchDisabled(r, u, disabled)
        PROVE AdminAlwaysLeft'
    <3>1. SetUserDisabled(u, disabled)
      BY <2>3 DEF PatchDisabled
    <3>2. CASE disabled /\ users[u].admin
      BY <3>1, <3>2, DisabledAdmins DEF AdminAlwaysLeft
    <3>3. CASE ~(disabled /\ users[u].admin)
      <4>1. EnabledAdmins \subseteq EnabledAdmins'
        BY <3>1, <3>3, DisabledAdmins
      <4> QED
        BY <4>1 DEF AdminAlwaysLeft
    <3> QED
      BY <3>2, <3>3
  <2> QED
    BY <1>3, <2>1, <2>2, <2>3 DEF AdminStep
<1>4. CASE users' = users
  BY <1>0, <1>4 DEF SameStanding
<1> QED
  BY <1>1, <1>2, <1>3, <1>4 DEF Next, CreateInvitation, SessionExpires, Logout, InvitationExpires, vars

\* Types, and an enabled administrator, after every transaction.
THEOREM AccountsCorrect == Spec => []AccountsInv
<1>1. Init => AccountsInv
  <2>1. Init => AdminAlwaysLeft
    <3> SUFFICES ASSUME Init PROVE Root \in EnabledAdmins
      BY DEF AdminAlwaysLeft
    <3> QED
      BY AccountsAssumption DEF Init, EnabledAdmins, Enabled, NoUser
  <2> QED
    BY <2>1, InitType DEF AccountsInv
<1>2. AccountsInv /\ [Next]_vars => AccountsInv'
  BY NextType, NextAdmin DEF AccountsInv
<1> QED
  BY <1>1, <1>2, PTL DEF Spec

\* Whatever administrators do to each other at the same time, one who is
\* enabled is left, for any number of accounts and requests.
THEOREM AnAdministratorIsLeft == Spec => []AdminAlwaysLeft
<1>1. AccountsInv => AdminAlwaysLeft
  BY DEF AccountsInv
<1> QED
  BY <1>1, AccountsCorrect, PTL

----------------------------------------------------------------------------
(* Invitations                                                             *)

\* Only an accepted invitation or an administrator's request makes an
\* account, and a used invitation is left alone by every transaction.
THEOREM InvitationsUsedOnce == Spec => InvitationOnce
<1> DEFINE Once ==
      /\ \A u \in User :
            ~users[u].exists /\ users'[u].exists
                => \/ \E r \in Request : RequireAdmin(r) /\ reqs'[r] # reqs[r]
                   \/ \E i \in Invitation : invites[i].state = "open" /\ invites'[i].by = u
      /\ \A i \in Invitation : invites[i].state = "used" => invites'[i] = invites[i]
<1>1. AccountsInv /\ [Next]_vars => [Once]_vars
  <2> SUFFICES ASSUME TypeOK, Next PROVE Once
    BY DEF AccountsInv
  <2>0. ASSUME SameStanding, invites' = invites PROVE Once
    BY <2>0 DEF SameStanding
  <2>1. ASSUME NEW r \in Request, LoginStep(r) PROVE Once
    <3>0. reqs[r].user \in User
      BY DEF TypeOK, RequestRow
    <3>1. ASSUME NEW p \in Password, CompleteSetup(r, p) PROVE Once
      BY <2>0, <3>1, AccountsAssumption, PasswordOnly DEF CompleteSetup
    <3>2. CASE Rehash(r)
      BY <2>0, <3>0, <3>2, PasswordOnly DEF Rehash, UpdateUserPassword, SameStanding
    <3>3. ASSUME NEW i \in Invitation, NEW u \in User, NEW p \in Password, AcceptInvitation(r, i, u, p)
          PROVE Once
      <4>1. invites[i].state = "open" /\ invites' = [invites EXCEPT ![i] = [state |-> "used", by |-> u]]
        BY <3>3 DEF AcceptInvitation, Redeemable
      <4>2. invites'[i].by = u /\ \A j \in Invitation : j # i => invites'[j] = invites[j]
        BY <4>1 DEF TypeOK
      <4>3. \A v \in User : v # u => users'[v] = users[v]
        BY <3>3 DEF AcceptInvitation, Joined, TypeOK
      <4> QED
        BY <4>1, <4>2, <4>3
    <3>4. CASE users' = users /\ invites' = invites
      BY <2>0, <3>4 DEF SameStanding
    <3> QED
      BY <2>1, <3>1, <3>2, <3>3, <3>4 DEF LoginStep, SetupCheck, LoginCheck, StartSession
  <2>2. ASSUME NEW r \in Request, UserStep(r) PROVE Once
    <3>0. reqs[r].user \in User
      BY DEF TypeOK, RequestRow
    <3>1. ASSUME NEW p \in Password, ChangePassword(r, p) PROVE Once
      BY <2>0, <3>0, <3>1, PasswordOnly DEF ChangePassword, UpdateUserPassword
    <3>2. CASE users' = users /\ invites' = invites
      BY <2>0, <3>2 DEF SameStanding
    <3> QED
      BY <2>2, <3>1, <3>2 DEF UserStep, Authenticate, DeleteAllSessionsForUser, CreateAPIToken,
                              DeleteAPIToken, Abandon
  <2>3. ASSUME NEW r \in Request, AdminStep(r) PROVE Once
    <3>1. ASSUME NEW u \in User, NEW p \in Password, NEW admin \in BOOLEAN, CreateUser(r, u, p, admin)
          PROVE Once
      <4>1. RequireAdmin(r) /\ reqs'[r] = Idle /\ invites' = invites
        BY <3>1 DEF CreateUser, Ends, TypeOK
      <4>2. reqs'[r] # reqs[r]
        BY <4>1 DEF RequireAdmin, At, Idle
      <4> QED
        BY <4>1, <4>2
    <3>2. ASSUME NEW u \in User, NEW admin \in BOOLEAN, PatchAdmin(r, u, admin) PROVE Once
      <4>1. invites' = invites /\ \A v \in User : users'[v].exists => users[v].exists
        BY <3>2 DEF PatchAdmin, SetUserAdmin, TypeOK, UserRow
      <4> QED
        BY <4>1
    <3>3. ASSUME NEW u \in User, NEW disabled \in BOOLEAN, PatchDisabled(r, u, disabled) PROVE Once
      <4>1. invites' = invites /\ \A v \in User : users'[v].exists => users[v].exists
        BY <3>3 DEF PatchDisabled, SetUserDisabled, TypeOK, UserRow
      <4> QED
        BY <4>1
    <3> QED
      BY <2>3, <3>1, <3>2, <3>3 DEF AdminStep
  <2>4. ASSUME NEW r \in Request, NEW i \in Invitation, CreateInvitation(r, i) PROVE Once
    BY <2>4 DEF CreateInvitation, TypeOK, InviteRow
  <2>5. ASSUME NEW i \in Invitation, InvitationExpires(i) PROVE Once
    BY <2>5 DEF InvitationExpires, TypeOK, InviteRow
  <2>6. CASE users' = users /\ invites' = invites
    BY <2>0, <2>6 DEF SameStanding
  <2> QED
    BY <2>1, <2>2, <2>3, <2>4, <2>5, <2>6 DEF Next, SessionExpires, Logout
<1> QED
  BY <1>1, AccountsCorrect, PTL DEF Spec, InvitationOnce

----------------------------------------------------------------------------
(* The refinement                                                          *)

Creds == Session \cup Token

\* A credential acts as before when its row and its owner's standing stay.
LEMMA ActsSame ==
    ASSUME TypeOK, TypeOK', NEW c \in Creds, Owner(c)' = Owner(c),
           Owner(c) # Nobody => (Enabled(Owner(c))' <=> Enabled(Owner(c)))
    PROVE  ActsAs(c)' = ActsAs(c)
BY DEF ActsAs, Enabled

\* With the same standing and the same rows nothing happens abstractly.
LEMMA Stutter ==
    ASSUME TypeOK, TypeOK', SameStanding, sessions' = sessions, tokens' = tokens
    PROVE  UNCHANGED Abstract!vars
<1>1. \A v \in User : Enabled(v)' <=> Enabled(v)
  BY DEF SameStanding, Enabled
<1>2. \A c \in Creds : Owner(c) \in User \cup {Nobody} /\ Owner(c)' = Owner(c)
  BY DEF Owner, TypeOK, Creds
<1>3. \A c \in Creds : ActsAs(c)' = ActsAs(c)
  BY <1>1, <1>2, ActsSame
<1> QED
  BY <1>1, <1>3, SameAdmins DEF Abstract!vars, Creds

\* What the mapping makes of the credentials is of the abstract type.
LEMMA ActingType ==
    ASSUME TypeOK'
    PROVE  [c \in Creds |-> ActsAs(c)]' \in [Creds -> User \cup {Nobody}]
BY DEF TypeOK, ActsAs, Owner, Creds

LEMMA OwnerType ==
    ASSUME TypeOK
    PROVE  \A c \in Creds : Owner(c) \in User \cup {Nobody}
BY DEF TypeOK, Owner, Creds

\* A row that is made for an account: issued if the account is enabled, and
\* not to be seen if it has been disabled meanwhile.
LEMMA MadeOne ==
    ASSUME TypeOK, TypeOK', users' = users, NEW x \in Creds, NEW u \in User,
           Owner(x) = Nobody, Owner(x)' = u,
           \A c \in Creds : c # x => Owner(c)' = Owner(c)
    PROVE  Abstract!Issue(u) \/ UNCHANGED Abstract!vars
<1>1. \A v \in User : Enabled(v)' <=> Enabled(v)
  BY DEF Enabled
<1>2. EnabledAdmins' = EnabledAdmins
  BY SameAdmins DEF SameStanding
<1>3. \A c \in Creds : c # x => ActsAs(c)' = ActsAs(c)
  BY <1>1, OwnerType, ActsSame
<1>4. ActsAs(x) = Nobody /\ ActsAs(x)' = IF Enabled(u) THEN u ELSE Nobody
  BY <1>1, AccountsAssumption DEF ActsAs
<1>5. CASE Enabled(u)
  BY <1>1, <1>2, <1>3, <1>4, <1>5, ActingType
     DEF Abstract!Issue, Abstract!Gains, Abstract!Acting, Creds
<1>6. CASE ~Enabled(u)
  BY <1>1, <1>2, <1>3, <1>4, <1>6 DEF Abstract!vars, Creds
<1> QED
  BY <1>5, <1>6

\* Rows of one account that go.
LEMMA LostSome ==
    ASSUME TypeOK, TypeOK', users' = users, NEW u \in User,
           \A c \in Creds : Owner(c)' = Owner(c) \/ (Owner(c) = u /\ Owner(c)' = Nobody)
    PROVE  Abstract!Withdraw(u)
<1>1. \A v \in User : Enabled(v)' <=> Enabled(v)
  BY DEF Enabled
<1>2. EnabledAdmins' = EnabledAdmins
  BY SameAdmins DEF SameStanding
<1>3. \A c \in Creds : Owner(c)' = Owner(c) => ActsAs(c)' = ActsAs(c)
  BY <1>1, OwnerType, ActsSame
<1>4. \A c \in Creds : Owner(c) = u /\ Owner(c)' = Nobody
                          => ActsAs(c) \in {u, Nobody} /\ ActsAs(c)' = Nobody
  BY DEF ActsAs
<1>5. \A c \in Creds : ActsAs(c)' # ActsAs(c) => ActsAs(c) = u /\ ActsAs(c)' = Nobody
  BY <1>3, <1>4
<1> QED
  BY <1>1, <1>2, <1>5, ActingType DEF Abstract!Withdraw, Abstract!Loses, Abstract!Acting, Creds

\* An account that joins or is enabled again.
LEMMA Admitted ==
    ASSUME TypeOK, TypeOK', NEW u \in User, sessions' = sessions, tokens' = tokens, ~Enabled(u),
           \A v \in User : Enabled(v)' <=> Enabled(v) \/ v = u,
           EnabledAdmins' \in {EnabledAdmins, EnabledAdmins \cup {u}}
    PROVE  Abstract!Admit(u)
<1>1. \A c \in Creds : Owner(c) \in User \cup {Nobody} /\ Owner(c)' = Owner(c)
  BY DEF Owner, TypeOK, Creds
<1>2. \A c \in Creds : Owner(c) # u => ActsAs(c)' = ActsAs(c)
  BY <1>1, ActsSame
<1>3. \A c \in Creds : Owner(c) = u => ActsAs(c) = Nobody /\ ActsAs(c)' = u
  BY <1>1, AccountsAssumption DEF ActsAs
<1>4. {v \in User : Enabled(v)}' = {v \in User : Enabled(v)} \cup {u}
  OBVIOUS
<1>5. \A c \in Creds : ActsAs(c)' # ActsAs(c) => ActsAs(c) = Nobody /\ ActsAs(c)' = u
  BY <1>2, <1>3
<1> QED
  BY <1>4, <1>5, ActingType DEF Abstract!Admit, Abstract!Gains, Abstract!Acting, Creds

\* An account that is disabled with all of its credentials.
LEMMA Retired ==
    ASSUME TypeOK, TypeOK', AdminAlwaysLeft, NEW u \in User, tokens' = tokens,
           SetUserDisabled(u, TRUE)
    PROVE  Abstract!Retire(u) \/ UNCHANGED Abstract!vars
<1>1. \A v \in User : Enabled(v)' <=> v # u /\ Enabled(v)
  BY DisabledAdmins
<1>2. EnabledAdmins' = EnabledAdmins \ {u} /\ EnabledAdmins \ {u} # {}
  BY DisabledAdmins DEF AdminAlwaysLeft
<1>3. \A c \in Creds : Owner(c)' = Owner(c) \/ (Owner(c) = u /\ Owner(c)' = Nobody)
  BY DEF SetUserDisabled, WithoutSessionsOf, Owner, TypeOK, Creds
<1>4. \A c \in Creds : Owner(c) # u => ActsAs(c)' = ActsAs(c)
  BY <1>1, <1>3, OwnerType, ActsSame
<1>5. \A c \in Creds : Owner(c) = u =>
          /\ ActsAs(c) = IF Enabled(u) THEN u ELSE Nobody
          /\ ActsAs(c)' = Nobody
  BY <1>1, <1>3, AccountsAssumption DEF ActsAs
<1>6. CASE Enabled(u)
  <2>1. \A c \in Creds : ActsAs(c)' # ActsAs(c) => ActsAs(c) = u /\ ActsAs(c)' = Nobody
    BY <1>4, <1>5, <1>6
  <2>2. \A c \in Creds : ActsAs(c)' # u
    <3> SUFFICES ASSUME NEW c \in Creds PROVE ActsAs(c)' # u
      OBVIOUS
    <3>1. CASE Owner(c) = u
      BY <1>5, <3>1, AccountsAssumption
    <3>2. CASE Owner(c) # u
      BY <1>4, <3>2, AccountsAssumption DEF ActsAs
    <3> QED
      BY <3>1, <3>2
  <2>3. {v \in User : Enabled(v)}' = {v \in User : Enabled(v)} \ {u}
    BY <1>1
  <2> QED
    BY <1>2, <1>6, <2>1, <2>2, <2>3, ActingType
       DEF Abstract!Retire, Abstract!Loses, Abstract!Acting, Creds
<1>7. CASE ~Enabled(u)
  <2>1. EnabledAdmins' = EnabledAdmins
    BY <1>2, <1>7 DEF EnabledAdmins
  <2>2. {v \in User : Enabled(v)}' = {v \in User : Enabled(v)}
    BY <1>1, <1>7
  <2>3. \A c \in Creds : ActsAs(c)' = ActsAs(c)
    BY <1>4, <1>5, <1>7
  <2> QED
    BY <2>1, <2>2, <2>3 DEF Abstract!vars, Creds
<1> QED
  BY <1>6, <1>7

\* Every transaction is an abstract step or is not seen.
LEMMA StepRefines ==
    ASSUME TypeOK, TypeOK', AdminAlwaysLeft, [Next]_vars
    PROVE  [Abstract!Next]_(Abstract!vars)
<1>0. ASSUME SameStanding, sessions' = sessions, tokens' = tokens
      PROVE  [Abstract!Next]_(Abstract!vars)
  BY <1>0, Stutter
<1>1. ASSUME NEW r \in Request, LoginStep(r) PROVE [Abstract!Next]_(Abstract!vars)
  <2>0. reqs[r].user \in User
    BY DEF TypeOK, RequestRow
  <2>1. ASSUME NEW p \in Password, CompleteSetup(r, p) PROVE [Abstract!Next]_(Abstract!vars)
    BY <1>0, <2>1, AccountsAssumption, PasswordOnly DEF CompleteSetup
  <2>2. CASE Rehash(r)
    BY <1>0, <2>0, <2>2, PasswordOnly DEF Rehash, UpdateUserPassword, SameStanding
  <2>3. ASSUME NEW x \in Session, StartSession(r, x) PROVE [Abstract!Next]_(Abstract!vars)
    <3>1. /\ users' = users /\ x \in Creds /\ Owner(x) = Nobody /\ Owner(x)' = reqs[r].user
          /\ \A c \in Creds : c # x => Owner(c)' = Owner(c)
      BY <2>3 DEF StartSession, Owner, TypeOK, Creds
    <3> QED
      BY <2>0, <3>1, MadeOne DEF Abstract!Next
  <2>4. ASSUME NEW i \in Invitation, NEW u \in User, NEW p \in Password, AcceptInvitation(r, i, u, p)
        PROVE [Abstract!Next]_(Abstract!vars)
    <3>1. ~users[u].exists /\ users' = Joined(u, p, FALSE) /\ sessions' = sessions /\ tokens' = tokens
      BY <2>4 DEF AcceptInvitation
    <3>2. EnabledAdmins' = EnabledAdmins /\ \A v \in User : Enabled(v)' <=> Enabled(v) \/ v = u
      BY <3>1, JoinedAdmins
    <3>3. Abstract!Admit(u)
      BY <3>1, <3>2, Admitted DEF Enabled
    <3> QED
      BY <3>3 DEF Abstract!Next
  <2>5. CASE users' = users /\ sessions' = sessions /\ tokens' = tokens
    BY <1>0, <2>5 DEF SameStanding
  <2> QED
    BY <1>1, <2>1, <2>2, <2>3, <2>4, <2>5 DEF LoginStep, SetupCheck, LoginCheck
<1>2. ASSUME NEW r \in Request, UserStep(r) PROVE [Abstract!Next]_(Abstract!vars)
  <2>0. reqs[r].user \in User
    BY DEF TypeOK, RequestRow
  <2>1. ASSUME NEW p \in Password, ChangePassword(r, p) PROVE [Abstract!Next]_(Abstract!vars)
    BY <1>0, <2>0, <2>1, PasswordOnly DEF ChangePassword, UpdateUserPassword
  <2>2. CASE DeleteAllSessionsForUser(r)
    <3>1. /\ users' = users
          /\ \A c \in Creds : Owner(c)' = Owner(c) \/ (Owner(c) = reqs[r].user /\ Owner(c)' = Nobody)
      BY <2>2 DEF DeleteAllSessionsForUser, WithoutSessionsOf, Owner, TypeOK, Creds
    <3> QED
      BY <2>0, <3>1, LostSome DEF Abstract!Next
  <2>3. ASSUME NEW t \in Token, CreateAPIToken(r, t) PROVE [Abstract!Next]_(Abstract!vars)
    <3>1. /\ users' = users /\ t \in Creds /\ Owner(t) = Nobody /\ Owner(t)' = reqs[r].user
          /\ \A c \in Creds : c # t => Owner(c)' = Owner(c)
      BY <2>3, AccountsAssumption DEF CreateAPIToken, Owner, TypeOK, Creds
    <3> QED
      BY <2>0, <3>1, MadeOne DEF Abstract!Next
  <2>4. ASSUME NEW t \in Token, DeleteAPIToken(r, t) PROVE [Abstract!Next]_(Abstract!vars)
    <3>1. /\ users' = users
          /\ \A c \in Creds : Owner(c)' = Owner(c) \/ (Owner(c) = reqs[r].user /\ Owner(c)' = Nobody)
      BY <2>4, AccountsAssumption DEF DeleteAPIToken, Owner, TypeOK, Creds
    <3> QED
      BY <2>0, <3>1, LostSome DEF Abstract!Next
  <2>5. CASE users' = users /\ sessions' = sessions /\ tokens' = tokens
    BY <1>0, <2>5 DEF SameStanding
  <2> QED
    BY <1>2, <2>1, <2>2, <2>3, <2>4, <2>5 DEF UserStep, Authenticate, Abandon
<1>3. ASSUME NEW r \in Request, AdminStep(r) PROVE [Abstract!Next]_(Abstract!vars)
  <2>1. ASSUME NEW u \in User, NEW p \in Password, NEW admin \in BOOLEAN, CreateUser(r, u, p, admin)
        PROVE [Abstract!Next]_(Abstract!vars)
    <3>1. ~users[u].exists /\ users' = Joined(u, p, admin) /\ sessions' = sessions /\ tokens' = tokens
      BY <2>1 DEF CreateUser
    <3>2. /\ EnabledAdmins' \in {EnabledAdmins, EnabledAdmins \cup {u}}
          /\ \A v \in User : Enabled(v)' <=> Enabled(v) \/ v = u
      BY <3>1, JoinedAdmins
    <3>3. Abstract!Admit(u)
      BY <3>1, <3>2, Admitted DEF Enabled
    <3> QED
      BY <3>3 DEF Abstract!Next
  <2>2. ASSUME NEW u \in User, NEW admin \in BOOLEAN, PatchAdmin(r, u, admin)
        PROVE [Abstract!Next]_(Abstract!vars)
    <3>1. SetUserAdmin(u, admin) /\ sessions' = sessions /\ tokens' = tokens
      BY <2>2 DEF PatchAdmin
    <3>2. \A v \in User : Enabled(v)' <=> Enabled(v)
      BY <3>1, RankAdmins
    <3>3. \A c \in Creds : ActsAs(c)' = ActsAs(c)
      <4>1. \A c \in Creds : Owner(c)' = Owner(c)
        BY <3>1 DEF Owner
      <4> QED
        BY <3>2, <4>1, OwnerType, ActsSame
    <3>4. CASE ~admin
      <4>1. Abstract!Demote(u)
        BY <3>1, <3>2, <3>3, <3>4, RankAdmins DEF Abstract!Demote, Creds
      <4> QED
        BY <4>1 DEF Abstract!Next
    <3>5. CASE admin /\ Enabled(u)
      <4>1. Abstract!Promote(u)
        BY <3>1, <3>2, <3>3, <3>5, RankAdmins DEF Abstract!Promote, Creds
      <4> QED
        BY <4>1 DEF Abstract!Next
    <3>6. CASE admin /\ ~Enabled(u)
      <4>1. EnabledAdmins' = EnabledAdmins
        BY <3>1, <3>6, RankAdmins DEF EnabledAdmins
      <4> QED
        BY <3>2, <3>3, <4>1 DEF Abstract!vars, Creds
    <3> QED
      BY <3>4, <3>5, <3>6
  <2>3. ASSUME NEW u \in User, NEW disabled \in BOOLEAN, PatchDisabled(r, u, disabled)
        PROVE [Abstract!Next]_(Abstract!vars)
    <3>1. SetUserDisabled(u, disabled) /\ tokens' = tokens
      BY <2>3 DEF PatchDisabled
    <3>2. CASE disabled
      BY <3>1, <3>2, Retired DEF Abstract!Next
    <3>3. CASE ~disabled /\ ~Enabled(u)
      <4>1. Abstract!Admit(u)
        <5>1. sessions' = sessions
          BY <3>1, <3>3 DEF SetUserDisabled
        <5>2. EnabledAdmins' \in {EnabledAdmins, EnabledAdmins \cup {u}}
          BY <3>1, <3>3, DisabledAdmins
        <5>3. \A v \in User : Enabled(v)' <=> Enabled(v) \/ v = u
          BY <3>1, <3>3, DisabledAdmins
        <5> QED
          BY <3>1, <3>3, <5>1, <5>2, <5>3, Admitted
      <4> QED
        BY <4>1 DEF Abstract!Next
    <3>4. CASE ~disabled /\ Enabled(u)
      <4>1. SameStanding /\ sessions' = sessions
        BY <3>1, <3>4 DEF SetUserDisabled, SameStanding, Enabled, TypeOK, UserRow
      <4> QED
        BY <1>0, <3>1, <4>1
    <3> QED
      BY <3>2, <3>3, <3>4
  <2> QED
    BY <1>3, <2>1, <2>2, <2>3 DEF AdminStep
<1>4. ASSUME NEW x \in Session, SessionExpires(x) \/ Logout(x) PROVE [Abstract!Next]_(Abstract!vars)
  <2>1. sessions[x] \in User
    BY <1>4 DEF SessionExpires, Logout, ActsAs, Owner, TypeOK
  <2>2. /\ users' = users
        /\ \A c \in Creds : Owner(c)' = Owner(c) \/ (Owner(c) = sessions[x] /\ Owner(c)' = Nobody)
    BY <1>4 DEF SessionExpires, Logout, Owner, TypeOK, Creds
  <2> QED
    BY <2>1, <2>2, LostSome DEF Abstract!Next
<1>5. CASE users' = users /\ sessions' = sessions /\ tokens' = tokens
  BY <1>0, <1>5 DEF SameStanding
<1> QED
  BY <1>1, <1>2, <1>3, <1>4, <1>5 DEF Next, CreateInvitation, InvitationExpires, vars

\* The tables and the middleware implement Access for any accounts, rows and
\* requests: credentials act for their own account only, and only while it
\* takes part, and an administrator is always among those who do.
THEOREM ImplementsAccess == Spec => AccessKept
<1>1. Init => Abstract!Init
  <2> SUFFICES ASSUME Init PROVE Abstract!Init
    OBVIOUS
  <2>1. \A u \in User : Enabled(u) <=> u = Root
    BY DEF Init, Enabled, NoUser
  <2>2. users[Root].admin
    BY AccountsAssumption DEF Init, NoUser
  <2>3. \A c \in Session \cup Token : ActsAs(c) = Nobody
    BY DEF Init, ActsAs, Owner
  <2> QED
    BY <2>1, <2>2, <2>3, AccountsAssumption DEF Abstract!Init, EnabledAdmins
<1>2. AccountsInv /\ AccountsInv' /\ [Next]_vars => [Abstract!Next]_(Abstract!vars)
  BY StepRefines DEF AccountsInv
<1> QED
  BY <1>1, <1>2, AccountsCorrect, PTL DEF Spec, AccessKept, Abstract!Spec

----------------------------------------------------------------------------
(* Sessions from before a change                                           *)

\* A request comes to the purge of its user's sessions by a change of the
\* password alone, and leaves it with the purge done or given up.
LEMMA PurgeStep ==
    ASSUME TypeOK, Next, NEW r \in Request
    PROVE  \/ reqs'[r] = reqs[r]
           \/ ~At(r, "purge") /\ reqs'[r].at # "purge"
           \/ \E p \in Password : ChangePassword(r, p)
           \/ DeleteAllSessionsForUser(r)
           \/ Abandon(r)
<1> USE DEF At, Goes, Ends, Idle
<1>1. ASSUME NEW q \in Request, LoginStep(q)
      PROVE  reqs'[r] = reqs[r] \/ (~At(r, "purge") /\ reqs'[r].at # "purge")
  <2>1. /\ ~At(q, "purge")
        /\ \E x : reqs' = [reqs EXCEPT ![q] = x] /\ x.at # "purge"
    BY <1>1 DEF LoginStep, SetupCheck, CompleteSetup, LoginCheck, Rehash, StartSession, AcceptInvitation
  <2>2. QED
    BY <2>1 DEF TypeOK
<1>2. ASSUME NEW q \in Request, AdminStep(q)
      PROVE  reqs'[r] = reqs[r] \/ (~At(r, "purge") /\ reqs'[r].at # "purge")
  <2>1. /\ ~At(q, "purge")
        /\ \E x : reqs' = [reqs EXCEPT ![q] = x] /\ x.at # "purge"
    BY <1>2 DEF AdminStep, CreateUser, PatchAdmin, PatchDisabled, RequireAdmin
  <2>2. QED
    BY <2>1 DEF TypeOK
<1>3. ASSUME NEW q \in Request, NEW i \in Invitation, CreateInvitation(q, i)
      PROVE  reqs'[r] = reqs[r] \/ (~At(r, "purge") /\ reqs'[r].at # "purge")
  BY <1>3 DEF CreateInvitation, RequireAdmin, TypeOK
<1>4. ASSUME NEW q \in Request, UserStep(q)
      PROVE  \/ reqs'[r] = reqs[r]
             \/ ~At(r, "purge") /\ reqs'[r].at # "purge"
             \/ \E p \in Password : ChangePassword(r, p)
             \/ DeleteAllSessionsForUser(r)
             \/ Abandon(r)
  <2>1. CASE q = r
    <3>1. CASE \E c \in Session \cup Token : Authenticate(q, c)
      BY <2>1, <3>1 DEF Authenticate, TypeOK
    <3>2. CASE \E t \in Token : CreateAPIToken(q, t) \/ DeleteAPIToken(q, t)
      BY <2>1, <3>2 DEF CreateAPIToken, DeleteAPIToken, TypeOK
    <3>3. QED
      BY <1>4, <2>1, <3>1, <3>2 DEF UserStep
  <2>2. CASE q # r
    <3>1. \E x : reqs' = [reqs EXCEPT ![q] = x]
      BY <1>4 DEF UserStep, Authenticate, ChangePassword, DeleteAllSessionsForUser,
                  CreateAPIToken, DeleteAPIToken, Abandon
    <3>2. QED
      BY <2>2, <3>1 DEF TypeOK
  <2>3. QED
    BY <2>1, <2>2
<1>5. ASSUME reqs' = reqs PROVE reqs'[r] = reqs[r]
  BY <1>5
<1>6. CASE \/ \E s \in Session : SessionExpires(s) \/ Logout(s)
           \/ \E i \in Invitation : InvitationExpires(i)
  BY <1>5, <1>6 DEF SessionExpires, Logout, InvitationExpires
<1>7. QED
  BY <1>1, <1>2, <1>3, <1>4, <1>6 DEF Next

\* An account is disabled in the transaction that deletes its sessions.
LEMMA DisableStep ==
    ASSUME TypeOK, Next, NEW u \in User, Disabled(u)
    PROVE  sessions' = WithoutSessionsOf(u)
<1>1. ASSUME users' = users PROVE FALSE
  BY <1>1 DEF Disabled
<1>2. ASSUME NEW v \in User, NEW p, users' = [users EXCEPT ![v].pw = p] PROVE FALSE
  BY <1>2 DEF Disabled, TypeOK, UserRow
<1>3. ASSUME NEW v \in User, NEW p, NEW admin, users' = Joined(v, p, admin) PROVE FALSE
  BY <1>3 DEF Disabled, TypeOK, UserRow, Joined
<1>4. ASSUME NEW r \in Request, LoginStep(r) PROVE FALSE
  <2>1. \/ users' = users
        \/ \E v \in User, p \in Password \cup {Sentinel} : users' = [users EXCEPT ![v].pw = p]
        \/ \E v \in User, p \in Password : users' = Joined(v, p, FALSE)
    BY <1>4, AccountsAssumption
       DEF LoginStep, SetupCheck, CompleteSetup, LoginCheck, Rehash, StartSession,
           AcceptInvitation, UpdateUserPassword, TypeOK, RequestRow
  <2>2. QED
    BY <1>1, <1>2, <1>3, <2>1
<1>5. ASSUME NEW r \in Request, UserStep(r) PROVE FALSE
  <2>1. \/ users' = users
        \/ \E v \in User, p \in Password : users' = [users EXCEPT ![v].pw = p]
    BY <1>5 DEF UserStep, Authenticate, ChangePassword, DeleteAllSessionsForUser,
                CreateAPIToken, DeleteAPIToken, Abandon, UpdateUserPassword, TypeOK, RequestRow
  <2>2. QED
    BY <1>1, <1>2, <2>1
<1>6. ASSUME NEW r \in Request, AdminStep(r) PROVE sessions' = WithoutSessionsOf(u)
  <2>1. ASSUME NEW v \in User, NEW p \in Password, NEW admin \in BOOLEAN,
               CreateUser(r, v, p, admin)
        PROVE  FALSE
    BY <1>3, <2>1 DEF CreateUser
  <2>2. ASSUME NEW v \in User, NEW admin \in BOOLEAN, PatchAdmin(r, v, admin)
        PROVE  FALSE
    BY <2>2 DEF PatchAdmin, SetUserAdmin, Disabled, TypeOK, UserRow
  <2>3. ASSUME NEW v \in User, NEW disabled \in BOOLEAN, PatchDisabled(r, v, disabled)
        PROVE  sessions' = WithoutSessionsOf(u)
    <3>1. /\ users' = [users EXCEPT ![v].disabled = disabled]
          /\ disabled => sessions' = WithoutSessionsOf(v)
      BY <2>3 DEF PatchDisabled, SetUserDisabled
    <3>2. v = u /\ disabled
      BY <3>1 DEF Disabled, TypeOK, UserRow
    <3>3. QED
      BY <3>1, <3>2
  <2>4. QED
    BY <1>6, <2>1, <2>2, <2>3 DEF AdminStep
<1>7. QED
  BY <1>1, <1>4, <1>5, <1>6
     DEF Next, CreateInvitation, SessionExpires, Logout, InvitationExpires

\* The inductive invariant of the sessions from before a change.
EarlierInv == TypeOK /\ earlier \subseteq Session /\ EarlierSessionsEnd

\* A session from before a change is gone after the step, or some request
\* still has to delete it.
LEMMA NextEarlier ==
    ASSUME EarlierInv, HNext
    PROVE  EarlierSessionsEnd'
<1> SUFFICES ASSUME NEW s \in earlier'
             PROVE  \E r \in Request : reqs'[r].at = "purge" /\ reqs'[r].user = sessions'[s]
  BY DEF EarlierSessionsEnd, At
<1> DEFINE u == sessions[s]
<1>1. TypeOK /\ Next
  BY DEF EarlierInv, HNext
<1>2. /\ s \in Session /\ s \notin GivenUp
      /\ u # Nobody /\ sessions'[s] = u
      /\ s \in earlier \/ Rekeyed(u) \/ Disabled(u)
  BY DEF HNext, EarlierAfter
<1>3. u \in User
  BY <1>1, <1>2 DEF TypeOK
<1>4. sessions' # WithoutSessionsOf(u)
  BY <1>2 DEF WithoutSessionsOf
<1>5. CASE s \in earlier
  <2>1. PICK r \in Request : At(r, "purge") /\ reqs[r].user = u
    BY <1>5 DEF EarlierInv, EarlierSessionsEnd
  <2>2. ~DeleteAllSessionsForUser(r)
    BY <1>4, <2>1 DEF DeleteAllSessionsForUser
  <2>3. ~Abandon(r)
    <3>1. Abandon(r) => reqs'[r].at = "idle" /\ sessions' = sessions
      BY <1>1 DEF Abandon, Ends, Idle, TypeOK
    <3>2. QED
      BY <1>2, <2>1, <3>1 DEF GivenUp
  <2>4. \A p \in Password : ~ChangePassword(r, p)
    BY <2>1 DEF ChangePassword, At
  <2>5. reqs'[r] = reqs[r]
    BY <1>1, <2>1, <2>2, <2>3, <2>4, PurgeStep
  <2>6. QED
    BY <1>2, <2>1, <2>5 DEF At
<1>6. CASE Rekeyed(u)
  <2>1. PICK r \in Request : At(r, "authed") /\ reqs'[r].at = "purge" /\ reqs[r].user = u
    BY <1>6 DEF Rekeyed
  <2>2. ~DeleteAllSessionsForUser(r) /\ reqs'[r] # reqs[r]
    BY <2>1 DEF DeleteAllSessionsForUser, At
  <2>3. ~Abandon(r)
    BY <1>1, <2>1 DEF Abandon, Ends, Idle, TypeOK
  <2>4. PICK p \in Password : ChangePassword(r, p)
    BY <1>1, <2>1, <2>2, <2>3, PurgeStep
  <2>5. reqs'[r].user = u
    BY <1>1, <2>1, <2>4 DEF ChangePassword, Goes, TypeOK
  <2>6. QED
    BY <1>2, <2>1, <2>5
<1>7. CASE Disabled(u)
  BY <1>1, <1>3, <1>4, <1>7, DisableStep
<1>8. QED
  BY <1>2, <1>5, <1>6, <1>7

\* No session survives the change of its account's password, except while the
\* request that deletes it is on its way or after that request was cut off
\* between its two transactions, and none survives a disabled account.
THEOREM OldSessionsEnd == HSpec => []EarlierSessionsEnd
<1>1. HInit => EarlierInv
  BY InitType DEF HInit, EarlierInv, EarlierSessionsEnd
<1>2. EarlierInv /\ [HNext]_hvars => EarlierInv'
  <2> SUFFICES ASSUME EarlierInv, [HNext]_hvars PROVE EarlierInv'
    OBVIOUS
  <2>1. CASE HNext
    <3>1. TypeOK'
      BY <2>1, NextType DEF EarlierInv, HNext
    <3>2. earlier' \subseteq Session
      BY <2>1 DEF HNext, EarlierAfter
    <3>3. QED
      BY <2>1, <3>1, <3>2, NextEarlier DEF EarlierInv
  <2>2. CASE UNCHANGED hvars
    BY <2>2 DEF hvars, vars, EarlierInv, TypeOK, EarlierSessionsEnd, At
  <2>3. QED
    BY <2>1, <2>2
<1>3. EarlierInv => EarlierSessionsEnd
  BY DEF EarlierInv
<1>4. QED
  BY <1>1, <1>2, <1>3, PTL DEF HSpec
====
