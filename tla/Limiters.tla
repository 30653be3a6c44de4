------------------------------ MODULE Limiters ------------------------------
(***************************************************************************)
(* The limits kept in memory: LoginLimiter (a backoff per account, a fixed *)
(* window per address), ActionLimiter (a fixed window per user), and the   *)
(* one-time tokens of the page inspection, which the latter rations.       *)
(*                                                                         *)
(* Every method is one critical section; a request asks for permission in  *)
(* one and reports the outcome in another, after a slow password check or  *)
(* a slow fetch. The two halves share nothing but the clock, so that a     *)
(* behaviour exercises one of them.                                        *)
(***************************************************************************)
EXTENDS Integers, FiniteSets

CONSTANTS
    Request,   \* requests in flight at a time
    Ip, User,
    IpLimit, IpWindow, MaxBack,  \* NewLoginLimiter
    Limit, Window,               \* NewActionLimiter
    TTL,                         \* of an inspect token
    FetchTime,                   \* the longest fetch of an inspected page
    MaxTime                      \* bound: the clock

ASSUME LimitersAssumption ==
    /\ IsFiniteSet(Request)
    /\ {IpWindow, MaxBack, Window, TTL, FetchTime, MaxTime} \subseteq Nat
    /\ {IpLimit, Limit} \subseteq Nat \ {0}
    /\ TTL + FetchTime =< Window

VARIABLES
    scene,     \* the half this behaviour exercises
    now,
    accounts,  \* user -> failures and nextAllow, for those with failures
    ips,       \* address -> windowStart and count
    windows,   \* user -> start and count
    tokens,    \* token -> whose page, until when, for those held
    reqs       \* what each request is at

vars == <<scene, now, accounts, ips, windows, tokens, reqs>>

Idle == [at |-> "idle"]

Without(f, x) == [y \in DOMAIN f \ {x} |-> f[y]]

With(f, x, v) == [y \in DOMAIN f \cup {x} |-> IF y = x THEN v ELSE f[y]]

Empty == [x \in {} |-> 0]

Init ==
    /\ scene \in {"login", "inspect"}
    /\ now = 0
    /\ accounts = Empty /\ ips = Empty /\ windows = Empty /\ tokens = Empty
    /\ reqs = [r \in Request |-> Idle]

-----------------------------------------------------------------------------
(* Logging in. *)

\* A fixed window is renewed by the first call after its end.
Renewed(w, length) == IF now - w.start > length THEN [start |-> now, count |-> 0] ELSE w

Fresh == [start |-> now, count |-> 0]

AllowedMut(u, ip) == u \in DOMAIN accounts => now >= accounts[u].nextAllow

\* Allow: the address is renewed even if the account is then refused.
Allowed(u, ip) ==
    /\ ip \in DOMAIN ips => Renewed(ips[ip], IpWindow).count < IpLimit
    /\ u \in DOMAIN accounts => now >= accounts[u].nextAllow

LoginAllow(r, u, ip) ==
    /\ scene = "login" /\ reqs[r] = Idle
    /\ ips' = IF ip \in DOMAIN ips THEN With(ips, ip, Renewed(ips[ip], IpWindow)) ELSE ips
    /\ reqs' = IF Allowed(u, ip)
               THEN [reqs EXCEPT ![r] = [at |-> "checking", user |-> u, ip |-> ip]] ELSE reqs
    /\ UNCHANGED <<scene, now, accounts, windows, tokens>>

\* 1<<failures seconds, up to maxBack.
Backoff(failures) ==
    LET n == 2^(IF failures < 20 THEN failures ELSE 20) IN IF n < MaxBack THEN n ELSE MaxBack

RecordFailureMut(r) ==
    /\ reqs[r].at = "checking"
    /\ LET u == reqs[r].user
           ip == reqs[r].ip
           w == IF ip \in DOMAIN ips THEN Renewed(ips[ip], IpWindow) ELSE Fresh
       IN  /\ ips' = With(ips, ip, [w EXCEPT !.count = @ + 1])
           /\ accounts' = IF u \in DOMAIN accounts THEN [accounts EXCEPT ![u].failures = @ + 1]
                          ELSE With(accounts, u, [failures |-> 1, nextAllow |-> now + Backoff(1)])
    /\ reqs' = [reqs EXCEPT ![r] = Idle]
    /\ UNCHANGED <<scene, now, windows, tokens>>

\* An unknown name, a wrong password, a disabled account.
RecordFailure(r) ==
    /\ reqs[r].at = "checking"
    /\ LET u == reqs[r].user
           ip == reqs[r].ip
           w == IF ip \in DOMAIN ips THEN Renewed(ips[ip], IpWindow) ELSE Fresh
           n == 1 + (IF u \in DOMAIN accounts THEN accounts[u].failures ELSE 0)
       IN  /\ ips' = With(ips, ip, [w EXCEPT !.count = @ + 1])
           /\ accounts' = With(accounts, u, [failures |-> n, nextAllow |-> now + Backoff(n)])
    /\ reqs' = [reqs EXCEPT ![r] = Idle]
    /\ UNCHANGED <<scene, now, windows, tokens>>

\* The account is forgiven, the address is not.
RecordSuccess(r) ==
    /\ reqs[r].at = "checking"
    /\ accounts' = Without(accounts, reqs[r].user)
    /\ reqs' = [reqs EXCEPT ![r] = Idle]
    /\ UNCHANGED <<scene, now, ips, windows, tokens>>

-----------------------------------------------------------------------------
(* Inspecting a page. *)

\* ActionLimiter.Allow, by way of checkActionQuota: asks and counts at once.
ActionAllow(r, u) ==
    /\ scene = "inspect" /\ reqs[r] = Idle
    /\ LET w == Renewed(IF u \in DOMAIN windows THEN windows[u] ELSE Fresh, Window)
           ok == w.count < Limit
       IN  /\ windows' = With(windows, u, IF ok THEN [w EXCEPT !.count = @ + 1] ELSE w)
           /\ reqs' = IF ok THEN [reqs EXCEPT ![r] = [at |-> "fetching", user |-> u, from |-> now]]
                            ELSE reqs
    /\ UNCHANGED <<scene, now, accounts, ips, tokens>>

SweepLockedMut(ts) == ts

SweepLocked(ts) == [t \in {t \in DOMAIN ts : now =< ts[t].expireAt} |-> ts[t]]

\* A random string in the code, so one that is not held.
NewToken == CHOOSE t \in 0..Cardinality(DOMAIN tokens) : t \notin DOMAIN tokens

\* Issue, at the end of handleInspectScrapeSource.
Issue(r) ==
    /\ reqs[r].at = "fetching"
    /\ tokens' = With(SweepLocked(tokens), NewToken,
                      [user |-> reqs[r].user, expireAt |-> now + TTL])
    /\ reqs' = [reqs EXCEPT ![r] = Idle]
    /\ UNCHANGED <<scene, now, accounts, ips, windows>>

\* The page cannot be fetched, in time or at all.
FetchFails(r) ==
    /\ reqs[r].at = "fetching"
    /\ reqs' = [reqs EXCEPT ![r] = Idle]
    /\ UNCHANGED <<scene, now, accounts, ips, windows, tokens>>

\* handleInspectView: the token is gone whether or not the page is shown, and
\* the others are swept even if it was not there.
Consume(t) ==
    /\ tokens' = SweepLocked(Without(tokens, t))
    /\ UNCHANGED <<scene, now, accounts, ips, windows, reqs>>

-----------------------------------------------------------------------------

\* A password check takes any time, a fetch is cut off after FetchTime.
Tick ==
    /\ now < MaxTime
    /\ \A r \in Request : reqs[r].at = "fetching" => now < reqs[r].from + FetchTime
    /\ now' = now + 1
    /\ UNCHANGED <<scene, accounts, ips, windows, tokens, reqs>>

Next ==
    \/ Tick
    \/ \E r \in Request :
          \/ \E u \in User, ip \in Ip : LoginAllow(r, u, ip)
          \/ RecordFailure(r) \/ RecordSuccess(r)
          \/ \E u \in User : ActionAllow(r, u)
          \/ Issue(r) \/ FetchFails(r)
    \/ \E t \in DOMAIN tokens \cup {NewToken} : Consume(t)

Spec == Init /\ [][Next]_vars
====
