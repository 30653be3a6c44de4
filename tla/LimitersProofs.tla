--------------------------- MODULE LimitersProofs ---------------------------
(***************************************************************************)
(* What the limits of Limiters guarantee, for any number of requests,      *)
(* users and addresses, any limits and any length of the windows.          *)
(***************************************************************************)
EXTENDS LimitersHistory, FiniteSetTheorems, TLAPS

-----------------------------------------------------------------------------
(* What is where. *)

Windows == [start : Nat, count : Nat]

RequestStates ==
    {Idle} \cup [at : {"checking"}, user : User, ip : Ip]
           \cup [at : {"fetching"}, user : User, from : Nat]

LimitersType ==
    /\ now \in Nat
    /\ reqs \in [Request -> RequestStates]
    /\ \A u \in DOMAIN accounts : accounts[u] \in [failures : Nat, nextAllow : Nat]
    /\ \A ip \in DOMAIN ips : ips[ip] \in Windows
    /\ \A u \in DOMAIN windows : windows[u] \in Windows
    /\ \A t \in DOMAIN tokens : tokens[t] \in [user : User, expireAt : Nat]
    /\ IsFiniteSet(DOMAIN tokens)

\* The checks under way for an account, and from an address.
CheckingUser(u) == {r \in Request : reqs[r].at = "checking" /\ reqs[r].user = u}

CheckingIp(ip) == {r \in Request : reqs[r].at = "checking" /\ reqs[r].ip = ip}

LEMMA ConstantTypes ==
    /\ IsFiniteSet(Request)
    /\ IpWindow \in Nat /\ MaxBack \in Nat /\ Window \in Nat /\ TTL \in Nat
    /\ FetchTime \in Nat /\ MaxTime \in Nat
    /\ IpLimit \in Nat /\ IpLimit > 0 /\ Limit \in Nat /\ Limit > 0
    /\ TTL + FetchTime =< Window
    /\ Concurrent \in Nat
<1>1. IsFiniteSet(Request) /\ TTL + FetchTime =< Window
  BY LimitersAssumption DEF LimitersAssumption
<1>2. /\ IpWindow \in Nat /\ MaxBack \in Nat /\ Window \in Nat /\ TTL \in Nat
      /\ FetchTime \in Nat /\ MaxTime \in Nat
  BY LimitersAssumption DEF LimitersAssumption
<1>3. IpLimit \in Nat \ {0} /\ Limit \in Nat \ {0}
  BY LimitersAssumption DEF LimitersAssumption
<1>4. Concurrent \in Nat
  BY <1>1, FS_CardinalityType DEF Concurrent
<1> QED
  BY <1>1, <1>2, <1>3, <1>4

-----------------------------------------------------------------------------
(* Facts about finite sets, functions and the backoff. *)

LEMMA Fewer ==
    ASSUME NEW S, IsFiniteSet(S), NEW T, T \subseteq S
    PROVE  IsFiniteSet(T) /\ Cardinality(T) \in Nat /\ Cardinality(S) \in Nat
           /\ Cardinality(T) =< Cardinality(S)
BY FS_Subset, FS_CardinalityType

LEMMA OneLess ==
    ASSUME NEW S, IsFiniteSet(S), NEW x \in S, NEW T, T \subseteq S \ {x}
    PROVE  /\ IsFiniteSet(T) /\ Cardinality(T) \in Nat /\ Cardinality(S) \in Nat
           /\ Cardinality(T) =< Cardinality(S) - 1
<1>1. IsFiniteSet(S \ {x}) /\ Cardinality(S \ {x}) = Cardinality(S) - 1
  BY FS_RemoveElement
<1> QED
  BY <1>1, Fewer, FS_CardinalityType

LEMMA OneMore ==
    ASSUME NEW S, IsFiniteSet(S), NEW x, NEW T, T \subseteq S \cup {x}
    PROVE  /\ IsFiniteSet(T) /\ Cardinality(T) \in Nat /\ Cardinality(S) \in Nat
           /\ Cardinality(T) =< Cardinality(S) + 1
<1>1. Cardinality(S) \in Nat
  BY FS_CardinalityType
<1>2. IsFiniteSet(S \cup {x}) /\ Cardinality(S \cup {x}) =< Cardinality(S) + 1
  BY <1>1, FS_AddElement
<1> QED
  BY <1>1, <1>2, Fewer

LEMMA TwoParts ==
    ASSUME NEW S, IsFiniteSet(S), NEW T, IsFiniteSet(T), NEW U, U \subseteq S \cup T
    PROVE  /\ IsFiniteSet(U) /\ Cardinality(U) \in Nat
           /\ Cardinality(U) =< Cardinality(S) + Cardinality(T)
<1>1. /\ IsFiniteSet(S \cup T)
      /\ Cardinality(S \cup T) = Cardinality(S) + Cardinality(T) - Cardinality(S \cap T)
  BY FS_Union
<1>2. IsFiniteSet(S \cap T)
  BY FS_Subset
<1>3. /\ Cardinality(S \cap T) \in Nat /\ Cardinality(S) \in Nat /\ Cardinality(T) \in Nat
  BY <1>2, FS_CardinalityType
<1> QED
  BY <1>1, <1>3, Fewer

\* The powers of two the backoff goes through.
LEMMA Powers ==
    /\ \A k \in 0..20 : 2^k \in Nat
    /\ \A j, k \in 0..20 : j =< k => 2^j =< 2^k
<1> DEFINE p == [k \in 0..20 |-> 2^k]
<1>1. /\ p[0] = 1 /\ p[1] = 2 /\ p[2] = 4 /\ p[3] = 8 /\ p[4] = 16 /\ p[5] = 32
      /\ p[6] = 64 /\ p[7] = 128 /\ p[8] = 256 /\ p[9] = 512 /\ p[10] = 1024
      /\ p[11] = 2048 /\ p[12] = 4096 /\ p[13] = 8192 /\ p[14] = 16384
      /\ p[15] = 32768 /\ p[16] = 65536 /\ p[17] = 131072 /\ p[18] = 262144
      /\ p[19] = 524288 /\ p[20] = 1048576
  OBVIOUS
<1>2. \A k \in 0..20 : 2^k = p[k]
  OBVIOUS
<1> HIDE DEF p
<1>3. \A k \in 0..20 : p[k] \in Nat
  BY <1>1
<1>4. \A j, k \in 0..20 : j =< k => p[j] =< p[k]
  BY <1>1
<1> QED
  BY <1>2, <1>3, <1>4, Zenon

\* A longer run of failures never waits less.
LEMMA BackoffGrows ==
    /\ \A n \in Nat : Backoff(n) \in Nat
    /\ \A m, n \in Nat : m =< n => Backoff(m) =< Backoff(n)
<1> DEFINE c(n) == IF n < 20 THEN n ELSE 20
           q(n) == 2^c(n)
<1>1. \A n \in Nat : c(n) \in 0..20
  OBVIOUS
<1>2. \A m, n \in Nat : m =< n => c(m) =< c(n)
  OBVIOUS
<1> HIDE DEF c
<1>3. \A n \in Nat : q(n) \in Nat
  BY <1>1, Powers, Zenon
<1>4. \A m, n \in Nat : m =< n => q(m) =< q(n)
  BY <1>1, <1>2, Powers, Zenon
<1>5. \A n : Backoff(n) = IF q(n) < MaxBack THEN q(n) ELSE MaxBack
  BY Zenon DEF Backoff, c
<1> HIDE DEF q
<1> QED
  BY <1>3, <1>4, <1>5, ConstantTypes

-----------------------------------------------------------------------------
(* Types. *)

LEMMA RenewedType ==
    ASSUME LimitersType, NEW w \in Windows, NEW length \in Nat
    PROVE  /\ Renewed(w, length) \in Windows
           /\ [Renewed(w, length) EXCEPT !.count = @ + 1] \in Windows
           /\ Fresh \in Windows /\ [Fresh EXCEPT !.count = @ + 1] \in Windows
BY DEF Renewed, Fresh, Windows, LimitersType

LEMMA InitType == Init => LimitersType
<1> SUFFICES ASSUME Init PROVE LimitersType
  OBVIOUS
<1>1. now \in Nat
  BY DEF Init
<1>2. reqs \in [Request -> RequestStates]
  BY DEF Init, RequestStates
<1>3. DOMAIN accounts = {} /\ DOMAIN ips = {} /\ DOMAIN windows = {} /\ DOMAIN tokens = {}
  BY DEF Init, Empty
<1>4. IsFiniteSet(DOMAIN tokens)
  BY <1>3, FS_EmptySet
<1> QED
  BY <1>1, <1>2, <1>3, <1>4 DEF LimitersType

LEMMA LoginAllowType ==
    ASSUME LimitersType, NEW r \in Request, NEW u \in User, NEW ip \in Ip, LoginAllow(r, u, ip)
    PROVE  LimitersType'
<1>1. [at |-> "checking", user |-> u, ip |-> ip] \in RequestStates
  BY DEF RequestStates
<1>2. reqs' \in [Request -> RequestStates]
  BY <1>1 DEF LoginAllow, LimitersType
<1>3. \A i \in DOMAIN ips' : ips'[i] \in Windows
  <2>1. CASE ip \in DOMAIN ips
    <3>1. ips' = With(ips, ip, Renewed(ips[ip], IpWindow))
      BY <2>1 DEF LoginAllow
    <3>2. Renewed(ips[ip], IpWindow) \in Windows
      BY <2>1, RenewedType, ConstantTypes DEF LimitersType
    <3> QED
      BY <3>1, <3>2 DEF With, LimitersType
  <2>2. CASE ip \notin DOMAIN ips
    BY <2>2 DEF LoginAllow, LimitersType
  <2> QED
    BY <2>1, <2>2
<1>4. UNCHANGED <<now, accounts, windows, tokens>>
  BY DEF LoginAllow
<1> QED
  BY <1>2, <1>3, <1>4 DEF LimitersType

\* What a failed login writes.
LEMMA FailureWrites ==
    ASSUME LimitersType, NEW r \in Request, RecordFailure(r),
           NEW u, u = reqs[r].user, NEW ip, ip = reqs[r].ip
    PROVE  /\ u \in User /\ ip \in Ip /\ r \in CheckingUser(u) /\ r \in CheckingIp(ip)
           /\ \E w, n : 
                 /\ w \in Windows /\ n \in Nat
                 /\ w = IF ip \in DOMAIN ips THEN Renewed(ips[ip], IpWindow) ELSE Fresh
                 /\ n = 1 + (IF u \in DOMAIN accounts THEN accounts[u].failures ELSE 0)
                 /\ ips' = With(ips, ip, [w EXCEPT !.count = @ + 1])
                 /\ accounts' = With(accounts, u,
                                     [failures |-> n, nextAllow |-> now + Backoff(n)])
<1>1. reqs[r] \in RequestStates /\ reqs[r].at = "checking"
  BY DEF LimitersType, RecordFailure
<1>2. reqs[r] \in [at : {"checking"}, user : User, ip : Ip]
  BY <1>1 DEF RequestStates, Idle
<1>3. u \in User /\ ip \in Ip /\ r \in CheckingUser(u) /\ r \in CheckingIp(ip)
  BY <1>1, <1>2 DEF CheckingUser, CheckingIp
<1> DEFINE w == IF ip \in DOMAIN ips THEN Renewed(ips[ip], IpWindow) ELSE Fresh
           n == 1 + (IF u \in DOMAIN accounts THEN accounts[u].failures ELSE 0)
<1>4. n \in Nat
  BY DEF LimitersType
<1>5. w \in Windows
  <2>1. CASE ip \in DOMAIN ips
    BY <2>1, RenewedType, ConstantTypes DEF LimitersType
  <2>2. CASE ip \notin DOMAIN ips
    BY <2>2 DEF LimitersType, Fresh, Windows
  <2> QED
    BY <2>1, <2>2
<1>6. /\ ips' = With(ips, ip, [w EXCEPT !.count = @ + 1])
      /\ accounts' = With(accounts, u, [failures |-> n, nextAllow |-> now + Backoff(n)])
  BY DEF RecordFailure
<1> QED
  BY <1>3, <1>4, <1>5, <1>6

LEMMA RecordFailureType ==
    ASSUME LimitersType, NEW r \in Request, RecordFailure(r)
    PROVE  LimitersType'
<1> DEFINE u == reqs[r].user
           ip == reqs[r].ip
<1>1. PICK w, n :
         /\ w \in Windows /\ n \in Nat
         /\ ips' = With(ips, ip, [w EXCEPT !.count = @ + 1])
         /\ accounts' = With(accounts, u, [failures |-> n, nextAllow |-> now + Backoff(n)])
  BY FailureWrites
<1>2. [w EXCEPT !.count = @ + 1] \in Windows
  BY <1>1 DEF Windows
<1>3. [failures |-> n, nextAllow |-> now + Backoff(n)] \in [failures : Nat, nextAllow : Nat]
  BY <1>1, BackoffGrows DEF LimitersType
<1>4. \A i \in DOMAIN ips' : ips'[i] \in Windows
  BY <1>1, <1>2 DEF With, LimitersType
<1>5. \A v \in DOMAIN accounts' : accounts'[v] \in [failures : Nat, nextAllow : Nat]
  BY <1>1, <1>3 DEF With, LimitersType
<1>6. reqs' \in [Request -> RequestStates] /\ UNCHANGED <<now, windows, tokens>>
  BY DEF RecordFailure, LimitersType, RequestStates
<1> QED
  BY <1>4, <1>5, <1>6 DEF LimitersType

LEMMA RecordSuccessType ==
    ASSUME LimitersType, NEW r \in Request, RecordSuccess(r)
    PROVE  LimitersType'
<1>1. \A v \in DOMAIN accounts' : accounts'[v] \in [failures : Nat, nextAllow : Nat]
  BY DEF Without, RecordSuccess, LimitersType
<1>2. reqs' \in [Request -> RequestStates] /\ UNCHANGED <<now, ips, windows, tokens>>
  BY DEF RecordSuccess, LimitersType, RequestStates
<1> QED
  BY <1>1, <1>2 DEF LimitersType

\* The window ActionAllow counts in.
WindowOf(u) == Renewed(IF u \in DOMAIN windows THEN windows[u] ELSE Fresh, Window)

LEMMA ActionAllowWrites ==
    ASSUME LimitersType, NEW r \in Request, NEW u \in User, ActionAllow(r, u)
    PROVE  /\ WindowOf(u) \in Windows
           /\ \/ /\ WindowOf(u).count < Limit
                 /\ windows' = With(windows, u, [WindowOf(u) EXCEPT !.count = @ + 1])
                 /\ reqs' = [reqs EXCEPT ![r] = [at |-> "fetching", user |-> u, from |-> now]]
              \/ windows' = With(windows, u, WindowOf(u)) /\ reqs' = reqs
<1>1. WindowOf(u) \in Windows
  <2>1. CASE u \in DOMAIN windows
    BY <2>1, RenewedType, ConstantTypes DEF LimitersType, WindowOf
  <2>2. CASE u \notin DOMAIN windows
    <3>1. Fresh \in Windows
      BY DEF LimitersType, Fresh, Windows
    <3> QED
      BY <2>2, <3>1, RenewedType, ConstantTypes DEF WindowOf
  <2> QED
    BY <2>1, <2>2
<1> QED
  BY <1>1 DEF ActionAllow, WindowOf

LEMMA ActionAllowType ==
    ASSUME LimitersType, NEW r \in Request, NEW u \in User, ActionAllow(r, u)
    PROVE  LimitersType'
<1>1. [at |-> "fetching", user |-> u, from |-> now] \in RequestStates
  BY DEF RequestStates, LimitersType
<1>2. reqs' \in [Request -> RequestStates]
  BY <1>1, ActionAllowWrites DEF LimitersType
<1>3. WindowOf(u) \in Windows /\ [WindowOf(u) EXCEPT !.count = @ + 1] \in Windows
  BY ActionAllowWrites DEF Windows
<1>4. PICK w \in Windows : windows' = With(windows, u, w)
  BY <1>3, ActionAllowWrites
<1>5. \A v \in DOMAIN windows' : windows'[v] \in Windows
  BY <1>4 DEF With, LimitersType
<1>6. UNCHANGED <<now, accounts, ips, tokens>>
  BY DEF ActionAllow
<1> QED
  BY <1>2, <1>5, <1>6 DEF LimitersType

LEMMA IssueType ==
    ASSUME LimitersType, NEW r \in Request, Issue(r)
    PROVE  LimitersType'
<1> DEFINE new == [user |-> reqs[r].user, expireAt |-> now + TTL]
<1>1. reqs[r] \in RequestStates /\ reqs[r].at = "fetching"
  BY DEF LimitersType, Issue
<1>2. reqs[r].user \in User
  BY <1>1 DEF RequestStates, Idle
<1>3. new \in [user : User, expireAt : Nat]
  BY <1>2, ConstantTypes DEF LimitersType
<1> HIDE DEF new
<1>4. tokens' = With(SweepLocked(tokens), NewToken, new)
  BY DEF Issue, new
<1>5. \A t \in DOMAIN tokens' : tokens'[t] \in [user : User, expireAt : Nat]
  BY <1>3, <1>4 DEF With, SweepLocked, LimitersType
<1>6. DOMAIN tokens' \subseteq DOMAIN tokens \cup {NewToken}
  BY <1>4 DEF With, SweepLocked
<1>7. IsFiniteSet(DOMAIN tokens')
  BY <1>6, OneMore DEF LimitersType
<1>8. reqs' \in [Request -> RequestStates] /\ UNCHANGED <<now, accounts, ips, windows>>
  BY DEF Issue, LimitersType, RequestStates
<1> QED
  BY <1>5, <1>7, <1>8 DEF LimitersType

LEMMA ConsumeType ==
    ASSUME LimitersType, NEW t, Consume(t)
    PROVE  LimitersType'
<1>1. tokens' = SweepLocked(Without(tokens, t))
  BY DEF Consume
<1>2. \A x \in DOMAIN tokens' : x \in DOMAIN tokens /\ tokens'[x] = tokens[x]
  BY <1>1 DEF Without, SweepLocked
<1>3. IsFiniteSet(DOMAIN tokens')
  BY <1>2, Fewer DEF LimitersType
<1>4. UNCHANGED <<now, accounts, ips, windows, reqs>>
  BY DEF Consume
<1> QED
  BY <1>2, <1>3, <1>4 DEF LimitersType

LEMMA NextType == LimitersType /\ [Next]_vars => LimitersType'
<1> SUFFICES ASSUME LimitersType, [Next]_vars PROVE LimitersType'
  OBVIOUS
<1>1. CASE Tick
  BY <1>1 DEF Tick, LimitersType
<1>2. ASSUME NEW r \in Request, NEW u \in User, NEW ip \in Ip, LoginAllow(r, u, ip)
      PROVE  LimitersType'
  BY <1>2, LoginAllowType
<1>3. ASSUME NEW r \in Request, RecordFailure(r) \/ RecordSuccess(r) \/ Issue(r) \/ FetchFails(r)
      PROVE  LimitersType'
  <2>1. CASE FetchFails(r)
    BY <2>1 DEF FetchFails, LimitersType, RequestStates
  <2> QED
    BY <1>3, <2>1, RecordFailureType, RecordSuccessType, IssueType
<1>4. ASSUME NEW r \in Request, NEW u \in User, ActionAllow(r, u)
      PROVE  LimitersType'
  BY <1>4, ActionAllowType
<1>5. ASSUME NEW t, Consume(t)
      PROVE  LimitersType'
  BY <1>5, ConsumeType
<1>6. CASE UNCHANGED vars
  BY <1>6 DEF vars, LimitersType
<1> QED
  BY <1>1, <1>2, <1>3, <1>4, <1>5, <1>6 DEF Next

-----------------------------------------------------------------------------
(* The backoff of an account. *)

\* A check under way was allowed by the failures then on record, and those
\* may have grown since by no more than the checks that ended: what has been
\* waited is what n failures cost, less those that were let in together, and
\* the checks still under way count as such.
BackoffInv ==
    /\ DOMAIN first = DOMAIN accounts
    /\ \A u \in DOMAIN accounts :
          /\ first[u] \in Nat /\ first[u] =< now
          /\ accounts[u].nextAllow >= first[u] + Backoff(accounts[u].failures)
          /\ LET n == accounts[u].failures - (Concurrent - Cardinality(CheckingUser(u)))
             IN  n > 0 => now >= first[u] + Backoff(n)

LEMMA Counted ==
    /\ \A u : /\ IsFiniteSet(CheckingUser(u)) /\ Cardinality(CheckingUser(u)) \in Nat
              /\ Cardinality(CheckingUser(u)) =< Concurrent
    /\ \A ip : /\ IsFiniteSet(CheckingIp(ip)) /\ Cardinality(CheckingIp(ip)) \in Nat
               /\ Cardinality(CheckingIp(ip)) =< Concurrent
<1>1. \A u : CheckingUser(u) \subseteq Request
  BY DEF CheckingUser
<1>2. \A ip : CheckingIp(ip) \subseteq Request
  BY DEF CheckingIp
<1> QED
  BY <1>1, <1>2, Fewer, ConstantTypes DEF Concurrent

\* How the history follows the accounts.
FirstFollows == first' = [u \in DOMAIN accounts' |-> IF u \in DOMAIN first THEN first[u] ELSE now]

\* Accounts forgotten, checks ended and time passed.
LEMMA BackoffShrinks ==
    ASSUME LimitersType, LimitersType', BackoffInv, FirstFollows,
           \A u \in DOMAIN accounts' :
               /\ u \in DOMAIN accounts /\ accounts'[u] = accounts[u]
               /\ CheckingUser(u)' \subseteq CheckingUser(u),
           now' >= now
    PROVE  BackoffInv'
<1>1. DOMAIN first' = DOMAIN accounts'
  BY DEF FirstFollows
<1> SUFFICES ASSUME NEW u \in DOMAIN accounts'
             PROVE  /\ first'[u] \in Nat /\ first'[u] =< now'
                    /\ accounts'[u].nextAllow >= first'[u] + Backoff(accounts'[u].failures)
                    /\ LET n == accounts'[u].failures
                                - (Concurrent - Cardinality(CheckingUser(u)'))
                       IN  n > 0 => now' >= first'[u] + Backoff(n)
  BY <1>1 DEF BackoffInv
<1>2. u \in DOMAIN accounts /\ accounts'[u] = accounts[u] /\ first'[u] = first[u]
  BY DEF FirstFollows, BackoffInv
<1>3. /\ Cardinality(CheckingUser(u)') \in Nat /\ Cardinality(CheckingUser(u)) \in Nat
      /\ Cardinality(CheckingUser(u)') =< Cardinality(CheckingUser(u))
  BY Fewer, Counted
<1>4. accounts[u].failures \in Nat /\ now \in Nat /\ now' \in Nat
  BY <1>2 DEF LimitersType
<1>5. /\ first[u] \in Nat /\ first[u] =< now
      /\ accounts[u].nextAllow >= first[u] + Backoff(accounts[u].failures)
      /\ LET n == accounts[u].failures - (Concurrent - Cardinality(CheckingUser(u)))
         IN  n > 0 => now >= first[u] + Backoff(n)
  BY <1>2 DEF BackoffInv
<1> QED
  BY <1>2, <1>3, <1>4, <1>5, BackoffGrows, ConstantTypes

LEMMA BackoffAllow ==
    ASSUME LimitersType, LimitersType', BackoffInv, FirstFollows,
           NEW r \in Request, NEW u \in User, NEW ip \in Ip, LoginAllow(r, u, ip),
           reqs' = [reqs EXCEPT ![r] = [at |-> "checking", user |-> u, ip |-> ip]], Allowed(u, ip)
    PROVE  BackoffInv'
<1>1. /\ UNCHANGED <<now, accounts>> /\ DOMAIN first' = DOMAIN accounts
      /\ \A v \in DOMAIN accounts : first'[v] = first[v]
  BY DEF LoginAllow, FirstFollows, BackoffInv
<1>2. \A v \in DOMAIN accounts :
          /\ first[v] \in Nat /\ first[v] =< now
          /\ accounts[v].failures \in Nat /\ accounts[v].nextAllow \in Nat
          /\ accounts[v].nextAllow >= first[v] + Backoff(accounts[v].failures)
  BY DEF BackoffInv, LimitersType
<1> SUFFICES ASSUME NEW v \in DOMAIN accounts,
                    NEW n, n = accounts[v].failures - (Concurrent - Cardinality(CheckingUser(v)')),
                    n > 0
             PROVE  now >= first[v] + Backoff(n)
  BY <1>1, <1>2 DEF BackoffInv
<1>3. CASE v = u
  <2>1. now >= accounts[u].nextAllow
    BY <1>3 DEF Allowed
  <2>2. CheckingUser(v)' \subseteq Request
    BY DEF CheckingUser
  <2>3. Cardinality(CheckingUser(v)') \in Nat /\ Cardinality(CheckingUser(v)') =< Concurrent
    BY <2>2, Fewer, ConstantTypes DEF Concurrent
  <2>4. n \in Nat /\ n =< accounts[v].failures
    BY <1>2, <2>3, ConstantTypes
  <2>5. Backoff(n) =< Backoff(accounts[v].failures) /\ Backoff(n) \in Nat
        /\ Backoff(accounts[v].failures) \in Nat
    BY <1>2, <2>4, BackoffGrows
  <2> QED
    BY <1>2, <1>3, <2>1, <2>5 DEF LimitersType
<1>4. CASE v # u
  <2>1. CheckingUser(v)' = CheckingUser(v)
    BY <1>4 DEF CheckingUser, LoginAllow, LimitersType, Idle
  <2> QED
    BY <2>1 DEF BackoffInv
<1> QED
  BY <1>3, <1>4

LEMMA BackoffFailure ==
    ASSUME LimitersType, LimitersType', BackoffInv, FirstFollows,
           NEW r \in Request, RecordFailure(r)
    PROVE  BackoffInv'
<1>0. PICK u, ip : u = reqs[r].user /\ ip = reqs[r].ip
  OBVIOUS
<1>1. PICK n \in Nat :
         /\ n = 1 + (IF u \in DOMAIN accounts THEN accounts[u].failures ELSE 0)
         /\ accounts' = With(accounts, u, [failures |-> n, nextAllow |-> now + Backoff(n)])
  BY <1>0, FailureWrites
<1>2. r \in CheckingUser(u) /\ now' = now /\ reqs' = [reqs EXCEPT ![r] = Idle]
  BY <1>0, FailureWrites DEF RecordFailure
<1>3. \A v : CheckingUser(v)' \subseteq CheckingUser(v) \ {r}
  BY <1>2 DEF CheckingUser, LimitersType, Idle
<1>4. DOMAIN accounts' = DOMAIN accounts \cup {u} /\ DOMAIN first' = DOMAIN accounts'
  BY <1>1 DEF With, FirstFollows
<1>5. /\ accounts'[u].failures = n /\ accounts'[u].nextAllow = now + Backoff(n)
      /\ \A v \in DOMAIN accounts : v # u => accounts'[v] = accounts[v]
  BY <1>1 DEF With
<1>6. \A v \in DOMAIN accounts' : first'[v] = IF v \in DOMAIN accounts THEN first[v] ELSE now
  BY DEF FirstFollows, BackoffInv
<1> SUFFICES ASSUME NEW v \in DOMAIN accounts'
             PROVE  /\ first'[v] \in Nat /\ first'[v] =< now'
                    /\ accounts'[v].nextAllow >= first'[v] + Backoff(accounts'[v].failures)
                    /\ LET m == accounts'[v].failures
                                - (Concurrent - Cardinality(CheckingUser(v)'))
                       IN  m > 0 => now' >= first'[v] + Backoff(m)
  BY <1>4 DEF BackoffInv
<1>7. now \in Nat /\ now' = now /\ Backoff(n) \in Nat
  BY <1>2, BackoffGrows DEF LimitersType
<1>8. first'[v] \in Nat /\ first'[v] =< now
  BY <1>4, <1>6, <1>7 DEF BackoffInv
<1>9. CASE v = u
  <2>1. /\ Cardinality(CheckingUser(u)') \in Nat /\ Cardinality(CheckingUser(u)) \in Nat
        /\ Cardinality(CheckingUser(u)') =< Cardinality(CheckingUser(u)) - 1
        /\ Cardinality(CheckingUser(u)) =< Concurrent
    BY <1>2, <1>3, Counted, OneLess
  <2> DEFINE m == n - (Concurrent - Cardinality(CheckingUser(u)'))
  <2>2. ASSUME m > 0 PROVE now >= first'[u] + Backoff(m)
    <3>1. CASE u \in DOMAIN accounts
      <4> DEFINE k == accounts[u].failures - (Concurrent - Cardinality(CheckingUser(u)))
      <4>1. accounts[u].failures \in Nat /\ n = 1 + accounts[u].failures
        BY <1>1, <3>1 DEF LimitersType
      <4>2. m \in Nat /\ k \in Nat /\ m =< k
        BY <2>1, <2>2, <4>1, ConstantTypes
      <4>3. k > 0 => now >= first[u] + Backoff(k)
        BY <3>1 DEF BackoffInv
      <4> HIDE DEF m, k
      <4>4. Backoff(m) =< Backoff(k) /\ Backoff(m) \in Nat /\ Backoff(k) \in Nat
        BY <4>2, BackoffGrows
      <4>5. first'[u] = first[u] /\ first[u] \in Nat
        BY <1>6, <1>8, <1>9, <3>1
      <4> QED
        BY <1>7, <2>2, <4>2, <4>3, <4>4, <4>5
    <3>2. CASE u \notin DOMAIN accounts
      <4>1. n = 1
        BY <1>1, <3>2
      <4> QED
        BY <2>1, <2>2, <4>1, ConstantTypes
    <3> QED
      BY <3>1, <3>2
  <2>3. accounts'[v].nextAllow >= first'[v] + Backoff(accounts'[v].failures)
    BY <1>5, <1>7, <1>8, <1>9
  <2> QED
    BY <1>5, <1>7, <1>8, <1>9, <2>2, <2>3
<1>10. CASE v # u
  <2>1. v \in DOMAIN accounts /\ accounts'[v] = accounts[v] /\ first'[v] = first[v]
    BY <1>4, <1>5, <1>6, <1>10
  <2>2. /\ Cardinality(CheckingUser(v)') \in Nat /\ Cardinality(CheckingUser(v)) \in Nat
        /\ Cardinality(CheckingUser(v)') =< Cardinality(CheckingUser(v))
    BY <1>3, Fewer, Counted
  <2>3. /\ accounts[v].nextAllow >= first[v] + Backoff(accounts[v].failures)
        /\ LET m == accounts[v].failures - (Concurrent - Cardinality(CheckingUser(v)))
           IN  m > 0 => now >= first[v] + Backoff(m)
        /\ accounts[v].failures \in Nat
    BY <2>1 DEF BackoffInv, LimitersType
  <2> QED
    BY <1>7, <1>8, <2>1, <2>2, <2>3, BackoffGrows, ConstantTypes
<1> QED
  BY <1>9, <1>10

LEMMA BackoffStep ==
    ASSUME LimitersType, LimitersType', BackoffInv, [HNext]_hvars
    PROVE  BackoffInv'
<1>1. CASE UNCHANGED hvars
  BY <1>1 DEF hvars, vars, BackoffInv, CheckingUser
<1> SUFFICES ASSUME HNext PROVE BackoffInv'
  BY <1>1
<1>2. FirstFollows /\ Next
  BY DEF HNext, FirstFollows
<1>3. ASSUME NEW r \in Request, RecordFailure(r) PROVE BackoffInv'
  BY <1>2, <1>3, BackoffFailure
<1>4. ASSUME NEW r \in Request, NEW u \in User, NEW ip \in Ip, LoginAllow(r, u, ip)
      PROVE  BackoffInv'
  <2>1. CASE Allowed(u, ip)
    BY <1>2, <1>4, <2>1, BackoffAllow DEF LoginAllow
  <2>2. CASE ~Allowed(u, ip)
    <3>1. UNCHANGED <<now, accounts, reqs>>
      BY <1>4, <2>2 DEF LoginAllow
    <3> QED
      BY <1>2, <3>1, BackoffShrinks DEF CheckingUser, LimitersType
  <2> QED
    BY <2>1, <2>2
<1>5. ASSUME now' >= now,
             \A u \in DOMAIN accounts' : u \in DOMAIN accounts /\ accounts'[u] = accounts[u],
             \A r \in Request : reqs'[r].at = "checking" => reqs'[r] = reqs[r]
      PROVE  BackoffInv'
  <2>1. \A u : CheckingUser(u)' \subseteq CheckingUser(u)
    BY <1>5 DEF CheckingUser
  <2> QED
    BY <1>2, <1>5, <2>1, BackoffShrinks
<1>6. CASE Tick
  BY <1>5, <1>6 DEF Tick, LimitersType
<1>7. ASSUME NEW r \in Request, RecordSuccess(r) PROVE BackoffInv'
  BY <1>5, <1>7 DEF RecordSuccess, Without, LimitersType, Idle
<1>8. ASSUME NEW r \in Request, NEW u \in User, ActionAllow(r, u) PROVE BackoffInv'
  BY <1>5, <1>8, ActionAllowWrites DEF ActionAllow, LimitersType
<1>9. ASSUME NEW r \in Request, Issue(r) \/ FetchFails(r) PROVE BackoffInv'
  BY <1>5, <1>9 DEF Issue, FetchFails, LimitersType, Idle
<1>10. ASSUME NEW t, Consume(t) PROVE BackoffInv'
  BY <1>5, <1>10 DEF Consume, LimitersType
<1> QED
  BY <1>2, <1>3, <1>4, <1>6, <1>7, <1>8, <1>9, <1>10 DEF Next

\* LoginLimiter's backoff holds against attempts let in together: n failures
\* on record have taken the time of n less the number of requests there can be
\* at once, for any accounts and however the checks and the records interleave.
THEOREM BackoffIsServed == HSpec => []BackoffHolds
<1>1. HInit => LimitersType /\ BackoffInv
  BY InitType DEF HInit, Init, BackoffInv, Empty
<1>2. LimitersType /\ BackoffInv /\ [HNext]_hvars => (LimitersType /\ BackoffInv)'
  <2>1. [HNext]_hvars => [Next]_vars
    BY DEF HNext, hvars
  <2> QED
    BY <2>1, NextType, BackoffStep
<1>3. LimitersType /\ BackoffInv => BackoffHolds
  <2> SUFFICES ASSUME LimitersType, BackoffInv, NEW u \in DOMAIN accounts,
                      NEW n, n = accounts[u].failures - Concurrent, n > 0
               PROVE  now - first[u] >= Backoff(n)
    BY DEF BackoffHolds
  <2> DEFINE m == accounts[u].failures - (Concurrent - Cardinality(CheckingUser(u)))
  <2>1. accounts[u].failures \in Nat /\ now \in Nat /\ first[u] \in Nat
        /\ Cardinality(CheckingUser(u)) \in Nat
    BY Counted DEF LimitersType, BackoffInv
  <2>2. n \in Nat /\ m \in Nat /\ n =< m
    BY <2>1, ConstantTypes
  <2>3. m > 0 => now >= first[u] + Backoff(m)
    BY DEF BackoffInv
  <2> HIDE DEF m
  <2>4. Backoff(n) =< Backoff(m) /\ Backoff(n) \in Nat /\ Backoff(m) \in Nat
    BY <2>2, BackoffGrows
  <2> QED
    BY <2>1, <2>2, <2>3, <2>4
<1> QED
  BY <1>1, <1>2, <1>3, PTL DEF HSpec

-----------------------------------------------------------------------------
(* The wrong guesses from an address. *)

\* What one window lets in: the limit, and what passed before it was reached.
WindowBound == IpLimit - 1 + Concurrent

\* The guesses G remembered for an address belong to its window w or to the
\* one before, and no window holds more than its bound.
Balanced(G, w) ==
    /\ \A g \in G : g[1] =< w.start + IpWindow
    /\ Cardinality({g \in G : g[1] < w.start}) =< WindowBound
    /\ Cardinality({g \in G : g[1] >= w.start}) =< w.count

Recent(G) == \A g \in G : g[1] \in Nat /\ now =< g[1] + IpWindow

GuessesOf(ip) ==
    /\ IsFiniteSet(guesses[ip]) /\ Recent(guesses[ip])
    /\ ip \notin DOMAIN ips => guesses[ip] = {}
    /\ ip \in DOMAIN ips =>
          /\ ips[ip].start =< now
          /\ Balanced(guesses[ip], ips[ip])
          /\ ips[ip].count + Cardinality(CheckingIp(ip)) =< WindowBound

GuessesInv == \A ip \in Ip : GuessesOf(ip)

LEMMA BoundType == WindowBound \in Nat /\ Concurrent =< WindowBound
BY ConstantTypes DEF WindowBound

\* Fewer guesses balance as well.
LEMMA BalancedSubset ==
    ASSUME NEW G, IsFiniteSet(G), NEW w \in Windows, Balanced(G, w), NEW H, H \subseteq G
    PROVE  IsFiniteSet(H) /\ Balanced(H, w)
<1>1. IsFiniteSet(H)
  BY Fewer
<1>2. /\ IsFiniteSet({g \in G : g[1] < w.start}) /\ IsFiniteSet({g \in G : g[1] >= w.start})
  BY FS_Subset
<1>3. /\ {g \in H : g[1] < w.start} \subseteq {g \in G : g[1] < w.start}
      /\ {g \in H : g[1] >= w.start} \subseteq {g \in G : g[1] >= w.start}
  OBVIOUS
<1> DEFINE A == {g \in G : g[1] < w.start}
           B == {g \in G : g[1] >= w.start}
           C == {g \in H : g[1] < w.start}
           D == {g \in H : g[1] >= w.start}
<1>4. Cardinality(A) =< WindowBound /\ Cardinality(B) =< w.count
      /\ \A g \in H : g[1] =< w.start + IpWindow
  BY DEF Balanced
<1> HIDE DEF A, B, C, D
<1>5. /\ Cardinality(C) \in Nat /\ Cardinality(A) \in Nat /\ Cardinality(C) =< Cardinality(A)
      /\ Cardinality(D) \in Nat /\ Cardinality(B) \in Nat /\ Cardinality(D) =< Cardinality(B)
  BY <1>2, <1>3, Fewer DEF A, B, C, D
<1>6. Cardinality(C) =< WindowBound /\ Cardinality(D) =< w.count
  BY <1>4, <1>5, BoundType DEF Windows
<1> QED
  BY <1>1, <1>4, <1>6 DEF Balanced, C, D

\* When a window is renewed, the guesses of the one before it have aged out.
LEMMA RenewedBalances ==
    ASSUME LimitersType, NEW G, IsFiniteSet(G), Recent(G), NEW w \in Windows,
           Balanced(G, w), w.count =< WindowBound, w.start =< now
    PROVE  LET v == Renewed(w, IpWindow)
           IN  /\ v \in Windows /\ v.count =< w.count /\ v.start =< now
               /\ now =< v.start + IpWindow /\ Balanced(G, v)
<1>1. /\ now \in Nat /\ IpWindow \in Nat /\ w.start \in Nat /\ w.count \in Nat
  BY ConstantTypes DEF LimitersType, Windows
<1>2. CASE now - w.start > IpWindow
  <2> DEFINE v == [start |-> now, count |-> 0]
  <2>1. Renewed(w, IpWindow) = v
    BY <1>2 DEF Renewed
  <2>2. {g \in G : g[1] >= now} = {}
    BY <1>1, <1>2 DEF Recent, Balanced
  <2>3. {g \in G : g[1] < now} \subseteq {g \in G : g[1] >= w.start}
    BY <1>1, <1>2 DEF Recent
  <2>4. IsFiniteSet({g \in G : g[1] >= w.start})
    BY FS_Subset
  <2>5. Cardinality({g \in G : g[1] < now}) =< Cardinality({g \in G : g[1] >= w.start})
        /\ Cardinality({g \in G : g[1] < now}) \in Nat
        /\ Cardinality({g \in G : g[1] >= w.start}) \in Nat
    BY <2>3, <2>4, Fewer
  <2>6. Cardinality({g \in G : g[1] >= w.start}) =< w.count
    BY DEF Balanced
  <2>7. Cardinality({g \in G : g[1] < now}) =< WindowBound
    BY <1>1, <2>5, <2>6, BoundType
  <2>8. Cardinality({g \in G : g[1] >= now}) = 0
    BY <2>2, FS_EmptySet
  <2>9. \A g \in G : g[1] =< now + IpWindow
    BY <1>1, <1>2 DEF Recent, Balanced
  <2>10. Balanced(G, v)
    BY <2>7, <2>8, <2>9 DEF Balanced
  <2> QED
    BY <1>1, <2>1, <2>10 DEF Windows
<1>3. CASE ~(now - w.start > IpWindow)
  BY <1>1, <1>3 DEF Renewed
<1> QED
  BY <1>2, <1>3

\* One more guess, made now, in the window.
LEMMA GuessBalances ==
    ASSUME LimitersType, NEW G, IsFiniteSet(G), NEW w \in Windows, Balanced(G, w), Recent(G),
           w.start =< now, now =< w.start + IpWindow, NEW k
    PROVE  /\ IsFiniteSet(G \cup {<<now, k>>}) /\ Recent(G \cup {<<now, k>>})
           /\ Balanced(G \cup {<<now, k>>}, [w EXCEPT !.count = @ + 1])
<1> DEFINE H == G \cup {<<now, k>>}
           v == [w EXCEPT !.count = @ + 1]
<1>1. /\ now \in Nat /\ IpWindow \in Nat /\ w.start \in Nat /\ w.count \in Nat
  BY ConstantTypes DEF LimitersType, Windows
<1>2. v.start = w.start /\ v.count = w.count + 1
  BY DEF Windows
<1>3. IsFiniteSet(H) /\ Recent(H)
  <2>1. IsFiniteSet(H)
    BY FS_AddElement
  <2>2. \A g \in H : g \in G \/ g[1] = now
    OBVIOUS
  <2> HIDE DEF H
  <2> QED
    BY <1>1, <2>1, <2>2 DEF Recent
<1>4. \A g \in H : g[1] =< v.start + IpWindow
  BY <1>2 DEF Balanced
<1>5. {g \in H : g[1] < v.start} = {g \in G : g[1] < w.start}
  BY <1>1, <1>2
<1>6. {g \in H : g[1] >= v.start} \subseteq {g \in G : g[1] >= w.start} \cup {<<now, k>>}
  BY <1>2
<1>7. IsFiniteSet({g \in G : g[1] >= w.start})
  BY FS_Subset
<1>8. /\ Cardinality({g \in H : g[1] >= v.start})
            =< Cardinality({g \in G : g[1] >= w.start}) + 1
      /\ Cardinality({g \in H : g[1] >= v.start}) \in Nat
      /\ Cardinality({g \in G : g[1] >= w.start}) \in Nat
  BY <1>6, <1>7, OneMore
<1>9. Cardinality({g \in G : g[1] >= w.start}) =< w.count
      /\ Cardinality({g \in G : g[1] < w.start}) =< WindowBound
  BY DEF Balanced
<1>10. Cardinality({g \in H : g[1] >= v.start}) =< v.count
  BY <1>1, <1>2, <1>8, <1>9
<1>11. Cardinality({g \in H : g[1] < v.start}) =< WindowBound
  BY <1>5, <1>9
<1> HIDE DEF H, v
<1>12. Balanced(H, v)
  BY <1>4, <1>10, <1>11 DEF Balanced
<1> QED
  BY <1>3, <1>12 DEF H, v

\* How the history follows the guesses.
GuessesFollow ==
    guesses' = [ip \in Ip |->
          {g \in guesses[ip] : g[1] + IpWindow >= now'}
          \cup (IF FailedAt(ip) THEN {NewGuess(ip)} ELSE {})]

\* Nothing recorded, perhaps checks ended and time passed.
LEMMA GuessesKept ==
    ASSUME LimitersType, LimitersType', NEW ip \in Ip, GuessesOf(ip),
           guesses'[ip] = {g \in guesses[ip] : g[1] + IpWindow >= now'}, now' >= now,
           ip \in DOMAIN ips' <=> ip \in DOMAIN ips,
           ip \in DOMAIN ips => ips'[ip] = ips[ip],
           CheckingIp(ip)' \subseteq CheckingIp(ip)
    PROVE  GuessesOf(ip)'
<1>1. IsFiniteSet(guesses'[ip]) /\ guesses'[ip] \subseteq guesses[ip]
  BY Fewer DEF GuessesOf
<1>2. Recent(guesses[ip])'
  BY DEF GuessesOf, Recent
<1>3. ASSUME ip \in DOMAIN ips
      PROVE  /\ ips[ip].start =< now' /\ Balanced(guesses'[ip], ips[ip])
             /\ ips[ip].count + Cardinality(CheckingIp(ip)') =< WindowBound
  <2>1. ips[ip] \in Windows /\ ips[ip].count \in Nat /\ ips[ip].start \in Nat
        /\ now \in Nat /\ now' \in Nat
    BY <1>3 DEF LimitersType, Windows
  <2>2. Balanced(guesses'[ip], ips[ip])
    BY <1>1, <1>3, <2>1, BalancedSubset DEF GuessesOf
  <2>3. /\ Cardinality(CheckingIp(ip)') \in Nat /\ Cardinality(CheckingIp(ip)) \in Nat
        /\ Cardinality(CheckingIp(ip)') =< Cardinality(CheckingIp(ip))
    BY Fewer, Counted
  <2>4. ips[ip].start =< now /\ ips[ip].count + Cardinality(CheckingIp(ip)) =< WindowBound
    BY <1>3 DEF GuessesOf
  <2> QED
    BY <2>1, <2>2, <2>3, <2>4, BoundType
<1>4. ip \notin DOMAIN ips => guesses'[ip] = {}
  BY <1>1 DEF GuessesOf
<1>5. ASSUME ip \in DOMAIN ips' PROVE Balanced(guesses[ip], ips[ip])'
  BY <1>3, <1>5 DEF Balanced, WindowBound, Concurrent
<1> QED
  BY <1>1, <1>2, <1>3, <1>4, <1>5 DEF GuessesOf, WindowBound, Concurrent

\* The address of an attempt is renewed, and perhaps one more check begins.
LEMMA GuessesAllow ==
    ASSUME LimitersType, LimitersType', GuessesInv, GuessesFollow,
           NEW r \in Request, NEW u \in User, NEW ip \in Ip, LoginAllow(r, u, ip)
    PROVE  GuessesInv'
<1>1. now' = now /\ reqs[r] = Idle /\ \A x \in Request : x # r => reqs'[x] = reqs[x]
  BY DEF LoginAllow, LimitersType
<1>2. \A i \in Ip : ~FailedAt(i)
  BY <1>1 DEF FailedAt, Idle
<1>3. \A i \in Ip : guesses'[i] = {g \in guesses[i] : g[1] + IpWindow >= now'}
  BY <1>2 DEF GuessesFollow
<1>4. ASSUME NEW i \in Ip, i # ip \/ ip \notin DOMAIN ips PROVE GuessesOf(i)'
  <2>1. (i \in DOMAIN ips' <=> i \in DOMAIN ips) /\ (i \in DOMAIN ips => ips'[i] = ips[i])
    BY <1>4 DEF LoginAllow, With
  <2>2. CASE i \in DOMAIN ips
    <3>1. CheckingIp(i)' \subseteq CheckingIp(i)
      BY <1>1, <1>4, <2>2 DEF LoginAllow, CheckingIp, LimitersType
    <3> QED
      BY <1>1, <1>3, <2>1, <3>1, GuessesKept DEF GuessesInv, LimitersType
  <2>3. CASE i \notin DOMAIN ips
    <3>1. guesses'[i] = {}
      BY <1>3, <2>3 DEF GuessesInv, GuessesOf
    <3> QED
      BY <2>1, <2>3, <3>1, FS_EmptySet DEF GuessesOf, Recent
  <2> QED
    BY <2>2, <2>3
<1>5. ASSUME ip \in DOMAIN ips PROVE GuessesOf(ip)'
  <2> DEFINE v == Renewed(ips[ip], IpWindow)
  <2>1. ips[ip] \in Windows /\ ips[ip].count \in Nat
    BY <1>5 DEF LimitersType, Windows
  <2>2. /\ IsFiniteSet(guesses[ip]) /\ Recent(guesses[ip]) /\ ips[ip].start =< now
        /\ Balanced(guesses[ip], ips[ip])
        /\ ips[ip].count + Cardinality(CheckingIp(ip)) =< WindowBound
    BY <1>5 DEF GuessesInv, GuessesOf
  <2>3. ips[ip].count =< WindowBound
    BY <2>1, <2>2, Counted, BoundType
  <2>4. v \in Windows /\ v.count =< ips[ip].count /\ v.start =< now /\ Balanced(guesses[ip], v)
    BY <2>1, <2>2, <2>3, RenewedBalances
  <2>5. ips' = With(ips, ip, v) /\ ip \in DOMAIN ips' /\ ips'[ip] = v
    BY <1>5 DEF LoginAllow, With
  <2>6. guesses'[ip] = guesses[ip]
    BY <1>1, <1>3, <2>2, ConstantTypes DEF Recent, LimitersType
  <2>7. v.count + Cardinality(CheckingIp(ip)') =< WindowBound
    <3>1. v.count \in Nat
      BY <2>4 DEF Windows
    <3>2. CASE Allowed(u, ip)
      <4>1. v.count < IpLimit
        BY <1>5, <3>2 DEF Allowed
      <4>2. CheckingIp(ip)' \subseteq Request
        BY DEF CheckingIp
      <4>3. Cardinality(CheckingIp(ip)') \in Nat /\ Cardinality(CheckingIp(ip)') =< Concurrent
        BY <4>2, Fewer, ConstantTypes DEF Concurrent
      <4> HIDE DEF v
      <4> QED
        BY <3>1, <4>1, <4>3, ConstantTypes DEF WindowBound
    <3>3. CASE ~Allowed(u, ip)
      <4>1. reqs' = reqs
        BY <3>3 DEF LoginAllow
      <4>2. CheckingIp(ip)' = CheckingIp(ip)
        BY <4>1 DEF CheckingIp
      <4>3. Cardinality(CheckingIp(ip)) \in Nat
        BY Counted
      <4> HIDE DEF v
      <4> QED
        BY <2>1, <2>2, <2>4, <3>1, <4>2, <4>3, BoundType
    <3> QED
      BY <3>2, <3>3
  <2> HIDE DEF v
  <2>8. Balanced(guesses[ip], ips[ip])'
    BY <2>4, <2>5, <2>6 DEF Balanced, WindowBound, Concurrent
  <2>9. Recent(guesses[ip])'
    BY <1>1, <2>2, <2>6 DEF Recent
  <2> QED
    BY <1>1, <2>2, <2>4, <2>5, <2>6, <2>7, <2>8, <2>9 DEF GuessesOf, WindowBound, Concurrent
<1> QED
  BY <1>4, <1>5 DEF GuessesInv

\* A wrong guess is counted in the window of its address.
LEMMA GuessesFailure ==
    ASSUME LimitersType, LimitersType', GuessesInv, GuessesFollow,
           NEW r \in Request, RecordFailure(r)
    PROVE  GuessesInv'
<1>0. PICK u, ip : u = reqs[r].user /\ ip = reqs[r].ip
  OBVIOUS
<1>1. PICK w \in Windows :
         /\ w = IF ip \in DOMAIN ips THEN Renewed(ips[ip], IpWindow) ELSE Fresh
         /\ ips' = With(ips, ip, [w EXCEPT !.count = @ + 1])
  BY <1>0, FailureWrites
<1>2. r \in CheckingIp(ip) /\ ip \in Ip /\ now' = now /\ reqs' = [reqs EXCEPT ![r] = Idle]
  BY <1>0, FailureWrites DEF RecordFailure
<1>3. \A i : CheckingIp(i)' \subseteq CheckingIp(i) \ {r}
  BY <1>2 DEF CheckingIp, LimitersType, Idle
<1>4. ASSUME NEW i \in Ip, i # ip PROVE GuessesOf(i)'
  <2>1. ~FailedAt(i)
    BY <1>0, <1>2, <1>4 DEF FailedAt, LimitersType, Idle
  <2>2. guesses'[i] = {g \in guesses[i] : g[1] + IpWindow >= now'}
    BY <2>1 DEF GuessesFollow
  <2>3. (i \in DOMAIN ips' <=> i \in DOMAIN ips) /\ (i \in DOMAIN ips => ips'[i] = ips[i])
    BY <1>1, <1>4 DEF With
  <2> QED
    BY <1>2, <1>3, <2>2, <2>3, GuessesKept DEF GuessesInv, LimitersType
<1>5. GuessesOf(ip)'
  <2> DEFINE G == guesses[ip]
             v == [w EXCEPT !.count = @ + 1]
  <2>1. /\ Cardinality(CheckingIp(ip)') \in Nat /\ Cardinality(CheckingIp(ip)) \in Nat
        /\ Cardinality(CheckingIp(ip)') =< Cardinality(CheckingIp(ip)) - 1
        /\ Cardinality(CheckingIp(ip)) =< Concurrent
    BY <1>2, <1>3, OneLess, Counted
  <2>2. /\ IsFiniteSet(G) /\ Recent(G) /\ Balanced(G, w)
        /\ w.start =< now /\ now =< w.start + IpWindow
        /\ w.count + Cardinality(CheckingIp(ip)) =< WindowBound
    <3>1. CASE ip \in DOMAIN ips
      <4>1. ips[ip] \in Windows /\ ips[ip].count \in Nat
        BY <3>1 DEF LimitersType, Windows
      <4>2. /\ IsFiniteSet(G) /\ Recent(G) /\ ips[ip].start =< now /\ Balanced(G, ips[ip])
            /\ ips[ip].count + Cardinality(CheckingIp(ip)) =< WindowBound
        BY <1>2, <3>1 DEF GuessesInv, GuessesOf
      <4>3. ips[ip].count =< WindowBound
        BY <2>1, <4>1, <4>2, BoundType
      <4>4. w = Renewed(ips[ip], IpWindow)
        BY <1>1, <3>1
      <4>5. /\ w.count =< ips[ip].count /\ w.start =< now /\ now =< w.start + IpWindow
            /\ Balanced(G, w)
        BY <4>1, <4>2, <4>3, <4>4, RenewedBalances
      <4>6. w.count \in Nat
        BY DEF Windows
      <4> QED
        BY <2>1, <4>1, <4>2, <4>5, <4>6, BoundType
    <3>2. CASE ip \notin DOMAIN ips
      <4>1. G = {} /\ w = [start |-> now, count |-> 0]
        BY <1>1, <1>2, <3>2 DEF GuessesInv, GuessesOf, Fresh
      <4>2. Balanced(G, w)
        <5>1. {g \in G : g[1] < w.start} = {} /\ {g \in G : g[1] >= w.start} = {}
          BY <4>1
        <5> QED
          BY <4>1, <5>1, FS_EmptySet, BoundType DEF Balanced
      <4> QED
        BY <2>1, <4>1, <4>2, FS_EmptySet, ConstantTypes, BoundType DEF Recent, LimitersType
    <3> QED
      BY <3>1, <3>2
  <2>3. PICK k : NewGuess(ip) = <<now, k>>
    BY DEF NewGuess
  <2>4. guesses'[ip] \subseteq G \cup {<<now, k>>}
    BY <1>2, <2>3 DEF GuessesFollow
  <2>5. /\ IsFiniteSet(G \cup {<<now, k>>}) /\ Recent(G \cup {<<now, k>>})
        /\ Balanced(G \cup {<<now, k>>}, v)
    BY <2>2, GuessBalances
  <2>6. v \in Windows /\ v.count = w.count + 1 /\ v.start = w.start /\ w.count \in Nat
    BY DEF Windows
  <2>7. ip \in DOMAIN ips' /\ ips'[ip] = v
    BY <1>1 DEF With
  <2> HIDE DEF v
  <2>8. IsFiniteSet(guesses'[ip]) /\ Balanced(guesses'[ip], v)
    BY <2>4, <2>5, <2>6, BalancedSubset
  <2>9. Recent(guesses[ip])'
    BY <1>2, <2>4, <2>5 DEF Recent
  <2>10. Balanced(guesses[ip], ips[ip])'
    BY <2>7, <2>8 DEF Balanced, WindowBound, Concurrent
  <2>11. v.count + Cardinality(CheckingIp(ip)') =< WindowBound
    BY <2>1, <2>2, <2>6, BoundType
  <2> QED
    BY <1>2, <2>2, <2>6, <2>7, <2>8, <2>9, <2>10, <2>11 DEF GuessesOf, WindowBound, Concurrent
<1> QED
  BY <1>4, <1>5 DEF GuessesInv

LEMMA GuessesStep ==
    ASSUME LimitersType, LimitersType', GuessesInv, [HNext]_hvars
    PROVE  GuessesInv'
<1>1. CASE UNCHANGED hvars
  <2>1. UNCHANGED <<now, ips, reqs, guesses>>
    BY <1>1 DEF hvars, vars
  <2>2. \A ip \in Ip : GuessesOf(ip)' = GuessesOf(ip)
    BY <2>1 DEF GuessesOf, Recent, Balanced, CheckingIp, WindowBound, Concurrent
  <2> QED
    BY <2>2 DEF GuessesInv
<1> SUFFICES ASSUME HNext PROVE GuessesInv'
  BY <1>1
<1>2. GuessesFollow /\ Next
  BY DEF HNext, GuessesFollow
<1>3. ASSUME NEW r \in Request, RecordFailure(r) PROVE GuessesInv'
  BY <1>2, <1>3, GuessesFailure
<1>4. ASSUME NEW r \in Request, NEW u \in User, NEW ip \in Ip, LoginAllow(r, u, ip)
      PROVE  GuessesInv'
  BY <1>2, <1>4, GuessesAllow
<1>5. ASSUME now' >= now, ips' = ips,
             \A r \in Request : reqs'[r].at = "checking" => reqs'[r] = reqs[r]
      PROVE  GuessesInv'
  <2>1. \A i \in Ip : ~FailedAt(i)
    BY <1>5 DEF FailedAt
  <2>2. \A i \in Ip : guesses'[i] = {g \in guesses[i] : g[1] + IpWindow >= now'}
    BY <1>2, <2>1 DEF GuessesFollow
  <2>3. \A i : CheckingIp(i)' \subseteq CheckingIp(i)
    BY <1>5 DEF CheckingIp
  <2> QED
    BY <1>5, <2>2, <2>3, GuessesKept DEF GuessesInv
<1>6. CASE Tick
  BY <1>5, <1>6 DEF Tick, LimitersType
<1>7. ASSUME NEW r \in Request, RecordSuccess(r) PROVE GuessesInv'
  BY <1>5, <1>7 DEF RecordSuccess, LimitersType, Idle
<1>8. ASSUME NEW r \in Request, NEW u \in User, ActionAllow(r, u) PROVE GuessesInv'
  BY <1>5, <1>8, ActionAllowWrites DEF ActionAllow, LimitersType
<1>9. ASSUME NEW r \in Request, Issue(r) \/ FetchFails(r) PROVE GuessesInv'
  BY <1>5, <1>9 DEF Issue, FetchFails, LimitersType, Idle
<1>10. ASSUME NEW t, Consume(t) PROVE GuessesInv'
  BY <1>5, <1>10 DEF Consume, LimitersType
<1> QED
  BY <1>2, <1>3, <1>4, <1>6, <1>7, <1>8, <1>9, <1>10 DEF Next

\* From one address, LoginLimiter lets no more wrong guesses through in any
\* IpWindow than twice the limit and what was in flight, for any limits and
\* requests, however many names are tried and wherever the windows fall.
THEOREM GuessesAreBounded == HSpec => []GuessesPerWindow
<1>1. HInit => LimitersType /\ GuessesInv
  <2> SUFFICES ASSUME HInit PROVE LimitersType /\ GuessesInv
    OBVIOUS
  <2>1. DOMAIN ips = {} /\ \A ip \in Ip : guesses[ip] = {}
    BY DEF HInit, Init, Empty
  <2>2. \A ip \in Ip : GuessesOf(ip)
    BY <2>1, FS_EmptySet DEF GuessesOf, Recent
  <2> QED
    BY <2>2, InitType DEF HInit, GuessesInv
<1>2. LimitersType /\ GuessesInv /\ [HNext]_hvars => (LimitersType /\ GuessesInv)'
  <2>1. [HNext]_hvars => [Next]_vars
    BY DEF HNext, hvars
  <2> QED
    BY <2>1, NextType, GuessesStep
<1>3. LimitersType /\ GuessesInv => GuessesPerWindow
  <2> SUFFICES ASSUME LimitersType, GuessesInv, NEW ip \in Ip
               PROVE  Cardinality(guesses[ip]) =< 2 * WindowBound
    BY DEF GuessesPerWindow, WindowBound
  <2>1. GuessesOf(ip)
    BY DEF GuessesInv
  <2>2. CASE ip \notin DOMAIN ips
    BY <2>1, <2>2, FS_EmptySet, BoundType DEF GuessesOf
  <2>3. CASE ip \in DOMAIN ips
    <3> DEFINE G == guesses[ip]
               A == {g \in G : g[1] < ips[ip].start}
               B == {g \in G : g[1] >= ips[ip].start}
    <3>1. IsFiniteSet(G) /\ Recent(G) /\ Balanced(G, ips[ip])
          /\ ips[ip].count + Cardinality(CheckingIp(ip)) =< WindowBound
      BY <2>1, <2>3 DEF GuessesOf
    <3>2. ips[ip].count \in Nat /\ ips[ip].start \in Nat
      BY <2>3 DEF LimitersType, Windows
    <3>3. G \subseteq A \cup B
      BY <3>1, <3>2 DEF Recent
    <3>4. IsFiniteSet(A) /\ IsFiniteSet(B) /\ Cardinality(A) \in Nat /\ Cardinality(B) \in Nat
      BY <3>1, FS_Subset, FS_CardinalityType
    <3>5. Cardinality(A) =< WindowBound /\ Cardinality(B) =< ips[ip].count
      BY <3>1 DEF Balanced
    <3> HIDE DEF G, A, B
    <3>6. Cardinality(G) \in Nat /\ Cardinality(G) =< Cardinality(A) + Cardinality(B)
      BY <3>3, <3>4, TwoParts
    <3>7. Cardinality(CheckingIp(ip)) \in Nat
      BY Counted
    <3>8. Cardinality(G) =< 2 * WindowBound
      BY <3>1, <3>2, <3>4, <3>5, <3>6, <3>7, BoundType
    <3> QED
      BY <3>8 DEF G
  <2> QED
    BY <2>2, <2>3
<1> QED
  BY <1>1, <1>2, <1>3, PTL DEF HSpec

-----------------------------------------------------------------------------
(* The pages held for a user. *)

Held(u) == {t \in DOMAIN tokens : tokens[t].user = u}

Fetching(u) == {r \in Request : reqs[r].at = "fetching" /\ reqs[r].user = u}

\* The pages held and the fetches under way, born[t] being when the fetch of
\* page t was allowed, of the user's window and of those before it; of the
\* latter, only the pages that have not expired.
HeldNow(u, born, from) == {t \in Held(u) : born[t] >= from}

FetchNow(u, from) == {r \in Fetching(u) : reqs[r].from >= from}

HeldOld(u, born, from) ==
    {t \in Held(u) : born[t] < from /\ now =< tokens[t].expireAt}

FetchOld(u, from) == {r \in Fetching(u) : reqs[r].from < from}

\* No window lets in more than its limit, and those before the last one have
\* expired. Pages that have expired may be held still, but were not there when
\* the last page came.
HeldOf(u, born) ==
    /\ Cardinality(Held(u)) =< 2 * Limit
    /\ u \notin DOMAIN windows => Held(u) = {} /\ Fetching(u) = {}
    /\ u \in DOMAIN windows =>
          LET w == windows[u]
          IN  /\ w.count =< Limit /\ w.start =< now
              /\ \A t \in Held(u) : born[t] =< w.start + Window
              /\ \A r \in Fetching(u) : reqs[r].from =< w.start + Window
              /\ Cardinality(HeldNow(u, born, w.start)) + Cardinality(FetchNow(u, w.start))
                    =< w.count
              /\ Cardinality(HeldOld(u, born, w.start)) + Cardinality(FetchOld(u, w.start))
                    =< Limit

Births(born) ==
    /\ born \in [DOMAIN tokens -> Nat]
    /\ \A t \in DOMAIN tokens : tokens[t].expireAt =< born[t] + Window
    /\ \A u \in User : HeldOf(u, born)

HeldInv ==
    /\ \A r \in Request : reqs[r].at = "fetching" =>
          reqs[r].from =< now /\ now =< reqs[r].from + FetchTime
    /\ \E born : Births(born)

\* All these sets are finite.
LEMMA PagesFinite ==
    ASSUME LimitersType, NEW u, NEW born, NEW from
    PROVE  /\ IsFiniteSet(Held(u)) /\ Cardinality(Held(u)) \in Nat
           /\ IsFiniteSet(HeldNow(u, born, from)) /\ Cardinality(HeldNow(u, born, from)) \in Nat
           /\ IsFiniteSet(HeldOld(u, born, from)) /\ Cardinality(HeldOld(u, born, from)) \in Nat
           /\ IsFiniteSet(FetchNow(u, from)) /\ Cardinality(FetchNow(u, from)) \in Nat
           /\ IsFiniteSet(FetchOld(u, from)) /\ Cardinality(FetchOld(u, from)) \in Nat
<1>1. IsFiniteSet(DOMAIN tokens) /\ IsFiniteSet(Request)
  BY ConstantTypes DEF LimitersType
<1>2. /\ Held(u) \subseteq DOMAIN tokens /\ HeldNow(u, born, from) \subseteq DOMAIN tokens
      /\ HeldOld(u, born, from) \subseteq DOMAIN tokens
  BY DEF Held, HeldNow, HeldOld
<1>3. FetchNow(u, from) \subseteq Request /\ FetchOld(u, from) \subseteq Request
  BY DEF Fetching, FetchNow, FetchOld
<1> QED
  BY <1>1, <1>2, <1>3, Fewer

LEMMA FetchingType ==
    ASSUME LimitersType, NEW r \in Request, reqs[r].at = "fetching"
    PROVE  reqs[r].user \in User /\ reqs[r].from \in Nat
<1>1. reqs[r] \in RequestStates
  BY DEF LimitersType
<1> QED
  BY <1>1 DEF RequestStates, Idle

\* Pages dropped, fetches ended and time passed, for one user.
LEMMA HeldShrinks ==
    ASSUME LimitersType, LimitersType', NEW u \in User, NEW born, HeldOf(u, born),
           NEW left, left \in [DOMAIN tokens' -> Nat],
           Held(u)' \subseteq Held(u),
           \A t \in Held(u)' : left[t] = born[t] /\ tokens'[t] = tokens[t],
           Fetching(u)' \subseteq Fetching(u),
           \A r \in Fetching(u)' : reqs'[r] = reqs[r],
           u \in DOMAIN windows' <=> u \in DOMAIN windows,
           u \in DOMAIN windows => windows'[u] = windows[u], now' >= now
    PROVE  HeldOf(u, left)'
<1>1. Cardinality(Held(u)') \in Nat /\ Cardinality(Held(u)') =< 2 * Limit
  <2>1. /\ Cardinality(Held(u)') \in Nat /\ Cardinality(Held(u)) \in Nat
        /\ Cardinality(Held(u)') =< Cardinality(Held(u))
    BY PagesFinite, Fewer
  <2> QED
    BY <2>1, ConstantTypes DEF HeldOf
<1>2. u \notin DOMAIN windows => Held(u)' = {} /\ Fetching(u)' = {}
  BY DEF HeldOf
<1>3. ASSUME u \in DOMAIN windows, NEW w, w = windows[u]
      PROVE  /\ w.count =< Limit /\ w.start =< now'
             /\ \A t \in Held(u)' : left[t] =< w.start + Window
             /\ \A r \in Fetching(u)' : reqs'[r].from =< w.start + Window
             /\ Cardinality(HeldNow(u, left, w.start)') + Cardinality(FetchNow(u, w.start)')
                   =< w.count
             /\ Cardinality(HeldOld(u, left, w.start)') + Cardinality(FetchOld(u, w.start)')
                   =< Limit
  <2>1. /\ w.count =< Limit /\ w.start =< now
        /\ \A t \in Held(u) : born[t] =< w.start + Window
        /\ \A r \in Fetching(u) : reqs[r].from =< w.start + Window
        /\ Cardinality(HeldNow(u, born, w.start)) + Cardinality(FetchNow(u, w.start)) =< w.count
        /\ Cardinality(HeldOld(u, born, w.start)) + Cardinality(FetchOld(u, w.start)) =< Limit
        /\ w.start \in Nat /\ w.count \in Nat
    BY <1>3 DEF HeldOf, LimitersType, Windows
  <2>2. HeldNow(u, left, w.start)' \subseteq HeldNow(u, born, w.start)
    BY DEF HeldNow
  <2>3. HeldOld(u, left, w.start)' \subseteq HeldOld(u, born, w.start)
    BY DEF HeldOld, LimitersType, Held
  <2>4. FetchNow(u, w.start)' \subseteq FetchNow(u, w.start)
    BY DEF FetchNow
  <2>5. FetchOld(u, w.start)' \subseteq FetchOld(u, w.start)
    BY DEF FetchOld
  <2>6. /\ Cardinality(HeldNow(u, left, w.start)') \in Nat
        /\ Cardinality(HeldNow(u, born, w.start)) \in Nat
        /\ Cardinality(HeldNow(u, left, w.start)') =< Cardinality(HeldNow(u, born, w.start))
    BY <2>2, PagesFinite, Fewer
  <2>7. /\ Cardinality(HeldOld(u, left, w.start)') \in Nat
        /\ Cardinality(HeldOld(u, born, w.start)) \in Nat
        /\ Cardinality(HeldOld(u, left, w.start)') =< Cardinality(HeldOld(u, born, w.start))
    BY <2>3, PagesFinite, Fewer
  <2>8. /\ Cardinality(FetchNow(u, w.start)') \in Nat
        /\ Cardinality(FetchNow(u, w.start)) \in Nat
        /\ Cardinality(FetchNow(u, w.start)') =< Cardinality(FetchNow(u, w.start))
    BY <2>4, PagesFinite, Fewer
  <2>9. /\ Cardinality(FetchOld(u, w.start)') \in Nat
        /\ Cardinality(FetchOld(u, w.start)) \in Nat
        /\ Cardinality(FetchOld(u, w.start)') =< Cardinality(FetchOld(u, w.start))
    BY <2>5, PagesFinite, Fewer
  <2>10. /\ \A t \in Held(u)' : left[t] =< w.start + Window
         /\ \A r \in Fetching(u)' : reqs'[r].from =< w.start + Window
    BY <2>1
  <2> QED
    BY <2>1, <2>6, <2>7, <2>8, <2>9, <2>10, ConstantTypes DEF LimitersType
<1> QED
  BY <1>1, <1>2, <1>3 DEF HeldOf

\* Renewing the user's window: what was in it is old, what was old has expired.
LEMMA RenewedHolds ==
    ASSUME LimitersType, NEW u \in User, NEW born, Births(born),
           \A r \in Request : reqs[r].at = "fetching" => now =< reqs[r].from + FetchTime
    PROVE  LET w == WindowOf(u)
           IN  /\ w.count =< Limit /\ w.start =< now /\ now =< w.start + Window
               /\ \A t \in Held(u) : born[t] =< w.start + Window
               /\ \A r \in Fetching(u) : reqs[r].from =< w.start + Window
               /\ Cardinality(HeldNow(u, born, w.start)) + Cardinality(FetchNow(u, w.start))
                     =< w.count
               /\ Cardinality(HeldOld(u, born, w.start)) + Cardinality(FetchOld(u, w.start))
                     =< Limit
<1>1. /\ now \in Nat /\ Window \in Nat /\ FetchTime \in Nat /\ TTL \in Nat
      /\ TTL + FetchTime =< Window /\ Limit \in Nat
  BY ConstantTypes DEF LimitersType
<1>2. /\ \A t \in Held(u) : born[t] \in Nat /\ tokens[t].expireAt \in Nat
                            /\ tokens[t].expireAt =< born[t] + Window
      /\ \A r \in Fetching(u) : reqs[r].from \in Nat /\ now =< reqs[r].from + FetchTime
  BY FetchingType DEF Births, Held, Fetching, LimitersType
<1>3. HeldOf(u, born)
  BY DEF Births
<1>4. CASE u \in DOMAIN windows
  <2> DEFINE v == windows[u]
  <2>1. v.start \in Nat /\ v.count \in Nat
    BY <1>4 DEF LimitersType, Windows
  <2>2. /\ v.count =< Limit /\ v.start =< now
        /\ \A t \in Held(u) : born[t] =< v.start + Window
        /\ \A r \in Fetching(u) : reqs[r].from =< v.start + Window
        /\ Cardinality(HeldNow(u, born, v.start)) + Cardinality(FetchNow(u, v.start)) =< v.count
        /\ Cardinality(HeldOld(u, born, v.start)) + Cardinality(FetchOld(u, v.start)) =< Limit
    BY <1>3, <1>4 DEF HeldOf
  <2>3. WindowOf(u) = IF now - v.start > Window THEN [start |-> now, count |-> 0] ELSE v
    BY <1>4 DEF WindowOf, Renewed
  <2> HIDE DEF v
  <2>4. CASE now - v.start > Window
    <3>1. WindowOf(u).start = now /\ WindowOf(u).count = 0
      BY <2>3, <2>4
    <3>2. HeldNow(u, born, now) = {} /\ FetchNow(u, now) = {}
      BY <1>1, <1>2, <2>1, <2>2, <2>4 DEF HeldNow, FetchNow
    <3>3. HeldOld(u, born, now) \subseteq HeldNow(u, born, v.start)
      BY <1>1, <1>2, <2>1, <2>4 DEF HeldOld, HeldNow
    <3>4. FetchOld(u, now) \subseteq FetchNow(u, v.start)
      BY <1>1, <1>2, <2>1, <2>4 DEF FetchOld, FetchNow
    <3>5. /\ Cardinality(HeldOld(u, born, now)) \in Nat
          /\ Cardinality(HeldNow(u, born, v.start)) \in Nat
          /\ Cardinality(HeldOld(u, born, now)) =< Cardinality(HeldNow(u, born, v.start))
      BY <3>3, PagesFinite, Fewer
    <3>6. /\ Cardinality(FetchOld(u, now)) \in Nat
          /\ Cardinality(FetchNow(u, v.start)) \in Nat
          /\ Cardinality(FetchOld(u, now)) =< Cardinality(FetchNow(u, v.start))
      BY <3>4, PagesFinite, Fewer
    <3>7. Cardinality(HeldOld(u, born, now)) + Cardinality(FetchOld(u, now)) =< Limit
      BY <1>1, <2>1, <2>2, <3>5, <3>6
    <3>8. Cardinality(HeldNow(u, born, now)) + Cardinality(FetchNow(u, now)) =< 0
      BY <3>2, FS_EmptySet
    <3>9. /\ \A t \in Held(u) : born[t] =< now + Window
          /\ \A r \in Fetching(u) : reqs[r].from =< now + Window
      BY <1>1, <1>2, <2>1, <2>2, <2>4
    <3> QED
      BY <1>1, <3>1, <3>7, <3>8, <3>9
  <2>5. CASE ~(now - v.start > Window)
    <3>1. WindowOf(u) = v /\ now =< v.start + Window
      BY <1>1, <2>1, <2>3, <2>5
    <3> QED
      BY <2>2, <3>1
  <2> QED
    BY <2>4, <2>5
<1>5. CASE u \notin DOMAIN windows
  <2>1. WindowOf(u).start = now /\ WindowOf(u).count = 0
    BY <1>1, <1>5 DEF WindowOf, Renewed, Fresh
  <2>2. Held(u) = {} /\ Fetching(u) = {}
    BY <1>3, <1>5 DEF HeldOf
  <2>3. /\ HeldNow(u, born, now) = {} /\ HeldOld(u, born, now) = {}
        /\ FetchNow(u, now) = {} /\ FetchOld(u, now) = {}
    BY <2>2 DEF HeldNow, HeldOld, FetchNow, FetchOld
  <2> QED
    BY <1>1, <2>1, <2>2, <2>3, FS_EmptySet
<1> QED
  BY <1>4, <1>5

LEMMA HeldAllow ==
    ASSUME LimitersType, LimitersType', HeldInv,
           NEW r \in Request, NEW u \in User, ActionAllow(r, u)
    PROVE  HeldInv'
<1>1. PICK born : Births(born)
  BY DEF HeldInv
<1> DEFINE new == [at |-> "fetching", user |-> u, from |-> now]
<1>2. /\ UNCHANGED <<now, tokens>> /\ reqs[r] = Idle
      /\ \A x \in Request : x # r => reqs'[x] = reqs[x]
      /\ reqs'[r] = Idle \/ reqs'[r] = new
  BY ActionAllowWrites DEF ActionAllow, LimitersType
<1>3. \A x \in Request : reqs'[x].at = "fetching" =>
          reqs'[x].from =< now' /\ now' =< reqs'[x].from + FetchTime
  <2> SUFFICES ASSUME NEW x \in Request, reqs'[x].at = "fetching"
               PROVE  reqs'[x].from =< now /\ now =< reqs'[x].from + FetchTime
    BY <1>2
  <2>1. CASE x # r
    BY <1>2, <2>1 DEF HeldInv
  <2>2. CASE x = r
    BY <1>2, <2>2, ConstantTypes DEF LimitersType, Idle
  <2> QED
    BY <2>1, <2>2
<1>4. ASSUME NEW v \in User, v # u PROVE HeldOf(v, born)'
  <2>1. Held(v)' = Held(v)
    BY <1>2 DEF Held
  <2>2. \A x \in Fetching(v)' : x \in Fetching(v) /\ reqs'[x] = reqs[x]
    <3> SUFFICES ASSUME NEW x \in Request, reqs'[x].at = "fetching", reqs'[x].user = v
                 PROVE  x \in Fetching(v) /\ reqs'[x] = reqs[x]
      BY DEF Fetching
    <3>1. x # r
      BY <1>2, <1>4 DEF Idle
    <3> QED
      BY <1>2, <3>1 DEF Fetching
  <2>3. (v \in DOMAIN windows' <=> v \in DOMAIN windows)
        /\ (v \in DOMAIN windows => windows'[v] = windows[v])
    BY <1>4 DEF ActionAllow, With
  <2>4. born \in [DOMAIN tokens' -> Nat] /\ HeldOf(v, born) /\ tokens' = tokens /\ now' >= now
    BY <1>1, <1>2 DEF Births, LimitersType
  <2> QED
    BY <2>1, <2>2, <2>3, <2>4, HeldShrinks
<1>5. HeldOf(u, born)'
  <2>1. PICK w : w = WindowOf(u)
    OBVIOUS
  <2>2. /\ w.count =< Limit /\ w.start =< now /\ now =< w.start + Window
        /\ \A t \in Held(u) : born[t] =< w.start + Window
        /\ \A x \in Fetching(u) : reqs[x].from =< w.start + Window
        /\ Cardinality(HeldNow(u, born, w.start)) + Cardinality(FetchNow(u, w.start)) =< w.count
        /\ Cardinality(HeldOld(u, born, w.start)) + Cardinality(FetchOld(u, w.start)) =< Limit
    BY <1>1, <2>1, RenewedHolds DEF HeldInv
  <2>3. w \in Windows /\ w.start \in Nat /\ w.count \in Nat
    BY <2>1, ActionAllowWrites DEF Windows
  <2>4. /\ Held(u)' = Held(u) /\ HeldNow(u, born, w.start)' = HeldNow(u, born, w.start)
        /\ HeldOld(u, born, w.start)' = HeldOld(u, born, w.start)
    BY <1>2 DEF Held, HeldNow, HeldOld
  <2>5. Cardinality(Held(u)) =< 2 * Limit
    BY <1>1 DEF Births, HeldOf
  <2>6. /\ Cardinality(HeldNow(u, born, w.start)) \in Nat
        /\ Cardinality(HeldOld(u, born, w.start)) \in Nat
        /\ IsFiniteSet(FetchNow(u, w.start)) /\ Cardinality(FetchNow(u, w.start)) \in Nat
        /\ IsFiniteSet(FetchOld(u, w.start)) /\ Cardinality(FetchOld(u, w.start)) \in Nat
    BY PagesFinite
  <2>7. ASSUME NEW x \in Fetching(u)'
        PROVE  /\ reqs'[x].from =< w.start + Window
               /\ (x \in Fetching(u) /\ reqs'[x] = reqs[x]) \/ (x = r /\ reqs'[x].from = now)
    <3>1. x \in Request /\ reqs'[x].at = "fetching" /\ reqs'[x].user = u
      BY <2>7 DEF Fetching
    <3>2. CASE x = r
      BY <1>2, <2>2, <3>1, <3>2 DEF Idle
    <3>3. CASE x # r
      <4>1. x \in Fetching(u) /\ reqs'[x] = reqs[x]
        BY <1>2, <3>1, <3>3 DEF Fetching
      <4> QED
        BY <2>2, <4>1
    <3> QED
      BY <3>2, <3>3
  <2>8. FetchOld(u, w.start)' \subseteq FetchOld(u, w.start)
    BY <2>2, <2>3, <2>7 DEF FetchOld, LimitersType
  <2>9. FetchNow(u, w.start)' \subseteq FetchNow(u, w.start) \cup {r}
    BY <2>7 DEF FetchNow
  <2>10. /\ Cardinality(FetchOld(u, w.start)') \in Nat
         /\ Cardinality(FetchOld(u, w.start)') =< Cardinality(FetchOld(u, w.start))
    BY <2>6, <2>8, Fewer
  <2>11. Cardinality(HeldOld(u, born, w.start)) + Cardinality(FetchOld(u, w.start)')
            =< Limit
    BY <2>2, <2>6, <2>10, ConstantTypes
  <2>12. PICK v : /\ windows' = With(windows, u, v) /\ v.start = w.start
                  /\ v.count \in Nat /\ v.count =< Limit
                  /\ Cardinality(HeldNow(u, born, w.start)) + Cardinality(FetchNow(u, w.start)')
                        =< v.count
    <3>1. CASE /\ w.count < Limit
               /\ windows' = With(windows, u, [w EXCEPT !.count = @ + 1])
      <4> DEFINE v == [w EXCEPT !.count = @ + 1]
      <4>1. v.start = w.start /\ v.count = w.count + 1
        BY <2>3 DEF Windows
      <4>2. /\ Cardinality(FetchNow(u, w.start)') \in Nat
            /\ Cardinality(FetchNow(u, w.start)') =< Cardinality(FetchNow(u, w.start)) + 1
        BY <2>6, <2>9, OneMore
      <4> HIDE DEF v
      <4>3. /\ v.count \in Nat /\ v.count =< Limit
            /\ Cardinality(HeldNow(u, born, w.start)) + Cardinality(FetchNow(u, w.start)')
                  =< v.count
        BY <2>2, <2>3, <2>6, <3>1, <4>1, <4>2, ConstantTypes
      <4>4. windows' = With(windows, u, v)
        BY <3>1 DEF v
      <4> QED
        BY <4>1, <4>3, <4>4
    <3>2. CASE windows' = With(windows, u, w) /\ reqs' = reqs
      <4>1. FetchNow(u, w.start)' = FetchNow(u, w.start)
        BY <3>2 DEF FetchNow, Fetching
      <4> QED
        BY <2>2, <2>3, <3>2, <4>1
    <3> QED
      BY <2>1, <3>1, <3>2, ActionAllowWrites
  <2>13. u \in DOMAIN windows' /\ windows'[u] = v
    BY <2>12 DEF With
  <2> QED
    BY <1>2, <2>2, <2>4, <2>5, <2>7, <2>11, <2>12, <2>13 DEF HeldOf
<1>6. Births(born)'
  BY <1>1, <1>2, <1>4, <1>5 DEF Births
<1> QED
  BY <1>3, <1>6 DEF HeldInv

\* A page comes, all that has expired is dropped.
LEMMA HeldIssue ==
    ASSUME LimitersType, LimitersType', HeldInv, NEW r \in Request, Issue(r)
    PROVE  HeldInv'
<1>1. PICK born : Births(born)
  BY DEF HeldInv
<1>2. PICK u, from, new : u = reqs[r].user /\ from = reqs[r].from /\ new = NewToken
  OBVIOUS
<1>3. /\ UNCHANGED <<now, windows>> /\ reqs[r].at = "fetching" /\ reqs'[r] = Idle
      /\ \A x \in Request : x # r => reqs'[x] = reqs[x]
      /\ tokens' = With(SweepLocked(tokens), new, [user |-> u, expireAt |-> now + TTL])
  BY <1>2 DEF Issue, LimitersType
<1>4. u \in User /\ from \in Nat /\ r \in Fetching(u)
  BY <1>2, <1>3, FetchingType DEF Fetching
<1>5. /\ now \in Nat /\ TTL \in Nat /\ FetchTime \in Nat /\ Window \in Nat /\ Limit \in Nat
      /\ TTL + FetchTime =< Window /\ from =< now /\ now =< from + FetchTime
  BY <1>2, <1>3, ConstantTypes DEF HeldInv, LimitersType
<1>6. /\ new \in DOMAIN tokens' /\ tokens'[new] = [user |-> u, expireAt |-> now + TTL]
      /\ \A t \in DOMAIN tokens' : t # new =>
            t \in DOMAIN tokens /\ tokens'[t] = tokens[t] /\ now =< tokens[t].expireAt
  BY <1>3 DEF With, SweepLocked
<1>7. tokens'[new].user = u /\ tokens'[new].expireAt = now + TTL
  BY <1>6
<1> DEFINE left == [t \in DOMAIN tokens' |-> IF t = new THEN from ELSE born[t]]
<1>8. PICK late : late = left
  OBVIOUS
<1>9. /\ late \in [DOMAIN tokens' -> Nat] /\ late[new] = from
      /\ \A t \in DOMAIN tokens' : t # new => late[t] = born[t]
  BY <1>1, <1>4, <1>6, <1>8 DEF Births
<1> HIDE DEF left
<1>10. \A t \in DOMAIN tokens' : tokens'[t].expireAt =< late[t] + Window
  <2> SUFFICES ASSUME NEW t \in DOMAIN tokens' PROVE tokens'[t].expireAt =< late[t] + Window
    OBVIOUS
  <2>1. CASE t = new
    BY <1>4, <1>5, <1>7, <1>9, <2>1
  <2>2. CASE t # new
    BY <1>1, <1>6, <1>9, <2>2 DEF Births
  <2> QED
    BY <2>1, <2>2
<1>11. ASSUME NEW v \in User, v # u PROVE HeldOf(v, late)'
  <2>1. \A t \in Held(v)' : t \in Held(v) /\ late[t] = born[t] /\ tokens'[t] = tokens[t]
    BY <1>6, <1>7, <1>9, <1>11 DEF Held
  <2>2. \A x \in Fetching(v)' : x \in Fetching(v) /\ reqs'[x] = reqs[x]
    BY <1>3 DEF Fetching, Idle
  <2> QED
    BY <1>1, <1>3, <1>5, <1>9, <2>1, <2>2, HeldShrinks DEF Births
<1>12. HeldOf(u, late)'
  <2>1. HeldOf(u, born)
    BY <1>1, <1>4 DEF Births
  <2>2. u \in DOMAIN windows
    BY <1>4, <2>1 DEF HeldOf
  <2>3. PICK w : w = windows[u]
    OBVIOUS
  <2>4. w.start \in Nat /\ w.count \in Nat
    BY <2>2, <2>3 DEF LimitersType, Windows
  <2>5. /\ w.count =< Limit /\ w.start =< now
        /\ \A t \in Held(u) : born[t] =< w.start + Window
        /\ \A x \in Fetching(u) : reqs[x].from =< w.start + Window
        /\ Cardinality(HeldNow(u, born, w.start)) + Cardinality(FetchNow(u, w.start)) =< w.count
        /\ Cardinality(HeldOld(u, born, w.start)) + Cardinality(FetchOld(u, w.start)) =< Limit
    BY <2>1, <2>2, <2>3 DEF HeldOf
  <2>6. from =< w.start + Window
    BY <1>2, <1>4, <2>5
  <2>7. ASSUME NEW t \in Held(u)'
        PROVE  /\ late[t] =< w.start + Window /\ late[t] \in Nat /\ now =< tokens'[t].expireAt
               /\ t # new => t \in Held(u) /\ late[t] = born[t] /\ now =< tokens[t].expireAt
    <3>1. t \in DOMAIN tokens' /\ tokens'[t].user = u
      BY <2>7 DEF Held
    <3>2. CASE t = new
      BY <1>4, <1>5, <1>7, <1>9, <2>6, <3>2
    <3>3. CASE t # new
      <4>1. t \in Held(u) /\ late[t] = born[t] /\ tokens'[t] = tokens[t] /\ now =< tokens[t].expireAt
        BY <1>6, <1>9, <3>1, <3>3 DEF Held
      <4> QED
        BY <1>9, <2>5, <3>1, <4>1
    <3> QED
      BY <3>2, <3>3
  <2>8. \A x \in Fetching(u)' : x \in Fetching(u) \ {r} /\ reqs'[x] = reqs[x]
    BY <1>3 DEF Fetching, Idle
  <2>9. /\ IsFiniteSet(HeldNow(u, born, w.start)) /\ IsFiniteSet(HeldOld(u, born, w.start))
        /\ Cardinality(HeldNow(u, born, w.start)) \in Nat
        /\ Cardinality(HeldOld(u, born, w.start)) \in Nat
        /\ IsFiniteSet(FetchNow(u, w.start)) /\ Cardinality(FetchNow(u, w.start)) \in Nat
        /\ IsFiniteSet(FetchOld(u, w.start)) /\ Cardinality(FetchOld(u, w.start)) \in Nat
    BY PagesFinite
  <2>10. /\ Cardinality(HeldNow(u, late, w.start)') \in Nat
         /\ Cardinality(HeldOld(u, late, w.start)') \in Nat
         /\ Cardinality(FetchNow(u, w.start)') \in Nat
         /\ Cardinality(FetchOld(u, w.start)') \in Nat
         /\ Cardinality(HeldNow(u, late, w.start)') + Cardinality(FetchNow(u, w.start)')
               =< w.count
         /\ Cardinality(HeldOld(u, late, w.start)') + Cardinality(FetchOld(u, w.start)')
               =< Limit
    <3>1. CASE from >= w.start
      <4>1. HeldNow(u, late, w.start)' \subseteq HeldNow(u, born, w.start) \cup {new}
        BY <2>7 DEF HeldNow
      <4>2. HeldOld(u, late, w.start)' \subseteq HeldOld(u, born, w.start)
        BY <1>4, <1>9, <2>4, <2>7, <3>1 DEF HeldOld
      <4>3. FetchNow(u, w.start)' \subseteq FetchNow(u, w.start) \ {r} /\ r \in FetchNow(u, w.start)
        BY <1>2, <1>4, <2>8, <3>1 DEF FetchNow
      <4>4. FetchOld(u, w.start)' \subseteq FetchOld(u, w.start)
        BY <2>8 DEF FetchOld
      <4>5. /\ Cardinality(HeldNow(u, late, w.start)') \in Nat
            /\ Cardinality(HeldNow(u, late, w.start)')
                  =< Cardinality(HeldNow(u, born, w.start)) + 1
        BY <2>9, <4>1, OneMore
      <4>6. /\ Cardinality(HeldOld(u, late, w.start)') \in Nat
            /\ Cardinality(HeldOld(u, late, w.start)') =< Cardinality(HeldOld(u, born, w.start))
        BY <2>9, <4>2, Fewer
      <4>7. /\ Cardinality(FetchNow(u, w.start)') \in Nat
            /\ Cardinality(FetchNow(u, w.start)') =< Cardinality(FetchNow(u, w.start)) - 1
        BY <2>9, <4>3, OneLess
      <4>8. /\ Cardinality(FetchOld(u, w.start)') \in Nat
            /\ Cardinality(FetchOld(u, w.start)') =< Cardinality(FetchOld(u, w.start))
        BY <2>9, <4>4, Fewer
      <4> QED
        BY <1>5, <2>4, <2>5, <2>9, <4>5, <4>6, <4>7, <4>8
    <3>2. CASE from < w.start
      <4>1. HeldNow(u, late, w.start)' \subseteq HeldNow(u, born, w.start)
        BY <1>4, <1>9, <2>4, <2>7, <3>2 DEF HeldNow
      <4>2. HeldOld(u, late, w.start)' \subseteq HeldOld(u, born, w.start) \cup {new}
        BY <2>7 DEF HeldOld
      <4>3. FetchNow(u, w.start)' \subseteq FetchNow(u, w.start)
        BY <2>8 DEF FetchNow
      <4>4. FetchOld(u, w.start)' \subseteq FetchOld(u, w.start) \ {r} /\ r \in FetchOld(u, w.start)
        BY <1>2, <1>4, <2>8, <3>2 DEF FetchOld
      <4>5. /\ Cardinality(HeldNow(u, late, w.start)') \in Nat
            /\ Cardinality(HeldNow(u, late, w.start)') =< Cardinality(HeldNow(u, born, w.start))
        BY <2>9, <4>1, Fewer
      <4>6. /\ Cardinality(HeldOld(u, late, w.start)') \in Nat
            /\ Cardinality(HeldOld(u, late, w.start)')
                  =< Cardinality(HeldOld(u, born, w.start)) + 1
        BY <2>9, <4>2, OneMore
      <4>7. /\ Cardinality(FetchNow(u, w.start)') \in Nat
            /\ Cardinality(FetchNow(u, w.start)') =< Cardinality(FetchNow(u, w.start))
        BY <2>9, <4>3, Fewer
      <4>8. /\ Cardinality(FetchOld(u, w.start)') \in Nat
            /\ Cardinality(FetchOld(u, w.start)') =< Cardinality(FetchOld(u, w.start)) - 1
        BY <2>9, <4>4, OneLess
      <4> QED
        BY <1>5, <2>4, <2>5, <2>9, <4>5, <4>6, <4>7, <4>8
    <3> QED
      BY <1>4, <2>4, <3>1, <3>2
  <2>11. Cardinality(Held(u)') =< 2 * Limit
    <3>1. Held(u)' \subseteq HeldNow(u, late, w.start)' \cup HeldOld(u, late, w.start)'
      BY <1>3, <2>4, <2>7 DEF HeldNow, HeldOld
    <3>2. IsFiniteSet(HeldNow(u, late, w.start)') /\ IsFiniteSet(HeldOld(u, late, w.start)')
      <4>1. IsFiniteSet(DOMAIN tokens')
        BY DEF LimitersType
      <4>2. HeldNow(u, late, w.start)' \subseteq DOMAIN tokens'
            /\ HeldOld(u, late, w.start)' \subseteq DOMAIN tokens'
        BY DEF HeldNow, HeldOld, Held
      <4> QED
        BY <4>1, <4>2, Fewer
    <3>3. /\ Cardinality(Held(u)') \in Nat
          /\ Cardinality(Held(u)') =< Cardinality(HeldNow(u, late, w.start)')
                                      + Cardinality(HeldOld(u, late, w.start)')
      BY <3>1, <3>2, TwoParts
    <3> QED
      BY <1>5, <2>4, <2>5, <2>10, <3>3
  <2>12. \A x \in Fetching(u)' : reqs'[x].from =< w.start + Window
    BY <2>5, <2>8
  <2> QED
    BY <1>3, <2>2, <2>3, <2>5, <2>7, <2>10, <2>11, <2>12 DEF HeldOf
<1>13. Births(late)'
  BY <1>9, <1>10, <1>11, <1>12 DEF Births
<1>14. \A x \in Request : reqs'[x].at = "fetching" =>
          reqs'[x].from =< now' /\ now' =< reqs'[x].from + FetchTime
  BY <1>3 DEF HeldInv, Idle
<1> QED
  BY <1>13, <1>14 DEF HeldInv

LEMMA HeldStep ==
    ASSUME LimitersType, LimitersType', HeldInv, [Next]_vars
    PROVE  HeldInv'
<1>1. ASSUME NEW r \in Request, Issue(r) PROVE HeldInv'
  BY <1>1, HeldIssue
<1>2. ASSUME NEW r \in Request, NEW u \in User, ActionAllow(r, u) PROVE HeldInv'
  BY <1>2, HeldAllow
<1>3. ASSUME now' >= now, windows' = windows,
             \A t \in DOMAIN tokens' : t \in DOMAIN tokens /\ tokens'[t] = tokens[t],
             \A r \in Request : reqs'[r].at = "fetching" =>
                 reqs'[r] = reqs[r] /\ now' =< reqs[r].from + FetchTime
      PROVE  HeldInv'
  <2>1. PICK born : Births(born)
    BY DEF HeldInv
  <2>2. PICK left : left = [t \in DOMAIN tokens' |-> born[t]]
    OBVIOUS
  <2>3. left \in [DOMAIN tokens' -> Nat] /\ \A t \in DOMAIN tokens' : left[t] = born[t]
    BY <1>3, <2>1, <2>2 DEF Births
  <2>4. \A t \in DOMAIN tokens' : tokens'[t].expireAt =< left[t] + Window
    BY <1>3, <2>1, <2>3 DEF Births
  <2>5. ASSUME NEW u \in User PROVE HeldOf(u, left)'
    <3>1. \A t \in Held(u)' : t \in Held(u) /\ left[t] = born[t] /\ tokens'[t] = tokens[t]
      BY <1>3, <2>3 DEF Held
    <3>2. \A x \in Fetching(u)' : x \in Fetching(u) /\ reqs'[x] = reqs[x]
      BY <1>3 DEF Fetching
    <3> QED
      BY <1>3, <2>1, <2>3, <3>1, <3>2, HeldShrinks DEF Births
  <2>6. Births(left)'
    BY <2>3, <2>4, <2>5 DEF Births
  <2>7. \A r \in Request : reqs'[r].at = "fetching" =>
            reqs'[r].from =< now' /\ now' =< reqs'[r].from + FetchTime
    <3> SUFFICES ASSUME NEW r \in Request, reqs'[r].at = "fetching"
                 PROVE  reqs'[r].from =< now' /\ now' =< reqs'[r].from + FetchTime
      OBVIOUS
    <3>1. reqs'[r] = reqs[r] /\ reqs[r].at = "fetching" /\ now' =< reqs[r].from + FetchTime
      BY <1>3
    <3>2. reqs[r].from \in Nat /\ reqs[r].from =< now
      BY <3>1, FetchingType DEF HeldInv
    <3> QED
      BY <1>3, <3>1, <3>2 DEF LimitersType
  <2> QED
    BY <2>6, <2>7 DEF HeldInv
<1>4. CASE Tick
  <2>1. \A r \in Request : reqs'[r].at = "fetching" =>
            reqs'[r] = reqs[r] /\ now' =< reqs[r].from + FetchTime
    BY <1>4, FetchingType, ConstantTypes DEF Tick, LimitersType
  <2> QED
    BY <1>3, <1>4, <2>1 DEF Tick, LimitersType
<1>5. ASSUME now' = now, windows' = windows,
             \A t \in DOMAIN tokens' : t \in DOMAIN tokens /\ tokens'[t] = tokens[t],
             \A r \in Request : reqs'[r].at = "fetching" => reqs'[r] = reqs[r]
      PROVE  HeldInv'
  BY <1>3, <1>5 DEF HeldInv, LimitersType
<1>6. ASSUME NEW r \in Request, NEW u \in User, NEW ip \in Ip, LoginAllow(r, u, ip)
      PROVE  HeldInv'
  <2>1. \A x \in Request : reqs'[x].at = "fetching" => reqs'[x] = reqs[x]
    BY <1>6 DEF LoginAllow, LimitersType
  <2> QED
    BY <1>5, <1>6, <2>1 DEF LoginAllow
<1>7. ASSUME NEW r \in Request, RecordFailure(r) \/ RecordSuccess(r) \/ FetchFails(r)
      PROVE  HeldInv'
  <2>1. reqs' = [reqs EXCEPT ![r] = Idle] /\ UNCHANGED <<now, windows, tokens>>
    BY <1>7 DEF RecordFailure, RecordSuccess, FetchFails
  <2>2. \A x \in Request : reqs'[x].at = "fetching" => reqs'[x] = reqs[x]
    BY <2>1 DEF LimitersType, Idle
  <2> QED
    BY <1>5, <2>1, <2>2
<1>8. ASSUME NEW t, Consume(t) PROVE HeldInv'
  BY <1>5, <1>8 DEF Consume, SweepLocked, Without
<1>9. CASE UNCHANGED vars
  BY <1>5, <1>9 DEF vars
<1> QED
  BY <1>1, <1>2, <1>4, <1>6, <1>7, <1>8, <1>9 DEF Next

\* The pages TokenStore holds for a user never exceed twice the quota of
\* inspections, for any quota, window and lifetime with the room for a fetch,
\* although expired pages are only dropped when the next token comes or goes.
THEOREM HeldPagesAreFew == HSpec => []HeldPagesBounded
<1>1. HInit => LimitersType /\ HeldInv
  <2> SUFFICES ASSUME HInit PROVE LimitersType /\ HeldInv
    OBVIOUS
  <2>1. /\ DOMAIN tokens = {} /\ DOMAIN windows = {} /\ reqs = [r \in Request |-> Idle]
        /\ tokens = Empty
    BY DEF HInit, Init, Empty
  <2>2. ASSUME NEW u \in User PROVE HeldOf(u, Empty)
    <3>1. Held(u) = {} /\ Fetching(u) = {}
      BY <2>1 DEF Held, Fetching, Idle
    <3> QED
      BY <2>1, <3>1, FS_EmptySet, ConstantTypes DEF HeldOf
  <2>3. Births(Empty)
    BY <2>1, <2>2 DEF Births, Empty
  <2>4. \A r \in Request : reqs[r].at # "fetching"
    BY <2>1 DEF Idle
  <2> QED
    BY <2>3, <2>4, InitType DEF HInit, HeldInv
<1>2. LimitersType /\ HeldInv /\ [HNext]_hvars => (LimitersType /\ HeldInv)'
  <2>1. [HNext]_hvars => [Next]_vars
    BY DEF HNext, hvars
  <2> QED
    BY <2>1, NextType, HeldStep
<1>3. HeldInv => HeldPagesBounded
  BY DEF HeldInv, Births, HeldOf, Held, HeldPagesBounded
<1> QED
  BY <1>1, <1>2, <1>3, PTL DEF HSpec
====
