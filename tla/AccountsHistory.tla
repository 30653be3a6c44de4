-------------------------- MODULE AccountsHistory --------------------------
(***************************************************************************)
(* Accounts, with the sessions remembered that were open when the password *)
(* of their account was changed or the account was disabled.               *)
(***************************************************************************)
EXTENDS Accounts, Naturals, TLC

CONSTANT MaxCredentials  \* bound: sessions and tokens at the same time

VARIABLE earlier  \* sessions from before the last such change

hvars == <<vars, earlier>>

\* The account whose password a request changes in this step, if any.
Rekeyed(u) == \E r \in Request : At(r, "authed") /\ reqs'[r].at = "purge" /\ reqs[r].user = u

Disabled(u) == ~users[u].disabled /\ users'[u].disabled

EarlierAfter ==
    {s \in Session :
        LET u == sessions[s]
        IN  /\ u # Nobody /\ sessions'[s] = u
            /\ s \in earlier \/ Rekeyed(u) \/ Disabled(u)}

\* A change that ends between its two transactions leaves the sessions; they
\* are no longer anybody's to end.
GivenUp ==
    {s \in Session : \E r \in Request :
        /\ At(r, "purge") /\ reqs'[r].at = "idle" /\ sessions' = sessions
        /\ Abandon(r) /\ sessions[s] = reqs[r].user}

HInit == Init /\ earlier = {}

HNext == Next /\ earlier' = EarlierAfter \ GivenUp

HSpec == HInit /\ [][HNext]_hvars

Symmetry == Permutations(User \ {Root}) \cup Permutations(Password)
                \cup Permutations(Session) \cup Permutations(Request)

Bounded ==
    Cardinality({s \in Session : sessions[s] # Nobody})
        + Cardinality({t \in Token : tokens[t] # Nobody}) =< MaxCredentials

\* handleAuthChangePassword: a changed password ends every existing session.
\* A session from before the change is there only while a request still has
\* to delete it, and none outlives the disabling of its account, so none can
\* come back to life when the account is enabled again.
EarlierSessionsEnd ==
    \A s \in earlier : \E r \in Request : At(r, "purge") /\ reqs[r].user = sessions[s]
====
