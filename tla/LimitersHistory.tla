-------------------------- MODULE LimitersHistory --------------------------
(***************************************************************************)
(* Limiters, with the wrong guesses remembered.                            *)
(***************************************************************************)
EXTENDS Limiters, TLC

VARIABLES
    first,   \* user -> when the failures on record began
    guesses  \* address -> the wrong guesses of the last IpWindow: <<when, number>>

hvars == <<vars, first, guesses>>

\* A step in which a guess from this address turns out wrong.
FailedAt(ip) ==
    \E r \in Request : /\ reqs[r].at = "checking" /\ reqs'[r] = Idle
                       /\ reqs[r].ip = ip /\ ips' # ips

\* The guesses of one moment are told apart by their number.
NewGuess(ip) == <<now, Cardinality({g \in guesses[ip] : g[1] = now})>>

HInit == Init /\ first = Empty /\ guesses = [ip \in Ip |-> {}]

HNext ==
    /\ Next
    /\ first' = [u \in DOMAIN accounts' |-> IF u \in DOMAIN first THEN first[u] ELSE now]
    /\ guesses' = [ip \in Ip |->
          {g \in guesses[ip] : g[1] + IpWindow >= now'}
          \cup (IF FailedAt(ip) THEN {NewGuess(ip)} ELSE {})]

HSpec == HInit /\ [][HNext]_hvars

Symmetry == Permutations(Request) \cup Permutations(User)

Concurrent == Cardinality(Request)

-----------------------------------------------------------------------------

\* Permission and record are separate, so that as many guesses as there are
\* requests get by each time; but no more: from one address, any IpWindow sees
\* at most twice the limit and what was in flight, however many names are
\* tried and however the windows fall.
GuessesPerWindow ==
    \A ip \in Ip : Cardinality(guesses[ip]) =< 2 * (IpLimit - 1 + Concurrent)

\* The backoff holds against concurrent attempts: n failures on record in a
\* row have taken the time that n less the requests in flight cost.
BackoffHolds ==
    \A u \in DOMAIN accounts :
        LET n == accounts[u].failures - Concurrent
        IN  n > 0 => now - first[u] >= Backoff(n)

\* Expired pages are only dropped when the next token is issued or used, yet
\* the pages held for one user never exceed twice the hourly quota: a page
\* lives no longer than a window, and a window lets Limit of them in.
HeldPagesBounded ==
    \A u \in User : Cardinality({t \in DOMAIN tokens : tokens[t].user = u}) =< 2 * Limit
====
