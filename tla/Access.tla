------------------------------- MODULE Access -------------------------------
(***************************************************************************)
(* What the accounts of feedla promise, without tables, requests or        *)
(* passwords: who takes part, who administers, and as whom a credential (a *)
(* session cookie or an API token) acts.  There is always an administrator *)
(* who takes part; a step concerns one account; a credential never passes  *)
(* from one account to another and acts only while its account takes part; *)
(* when the account leaves, all of its credentials stop at once.           *)
(***************************************************************************)
CONSTANTS Person, Founder, Credential, Nobody

VARIABLES
    members,  \* the accounts that take part
    admins,   \* those of them that administer
    acts      \* credential -> the account it acts as, or Nobody

vars == <<members, admins, acts>>

Acting == [Credential -> Person \cup {Nobody}]

\* In this step credentials that acted as nobody begin to act as u, ...
Gains(u) ==
    /\ acts' \in Acting
    /\ \A c \in Credential : acts'[c] # acts[c] => acts[c] = Nobody /\ acts'[c] = u

\* ... or credentials of u stop, the others stay.
Loses(u) ==
    /\ acts' \in Acting
    /\ \A c \in Credential : acts'[c] # acts[c] => acts[c] = u /\ acts'[c] = Nobody

Init ==
    /\ members = {Founder} /\ admins = {Founder}
    /\ acts = [c \in Credential |-> Nobody]

\* An account joins or comes back; what comes to life with it is its own.
Admit(u) ==
    /\ u \notin members
    /\ members' = members \cup {u}
    /\ admins' \in {admins, admins \cup {u}}
    /\ Gains(u)

Promote(u) ==
    /\ u \in members
    /\ admins' = admins \cup {u}
    /\ UNCHANGED <<members, acts>>

Demote(u) ==
    /\ admins \ {u} # {}
    /\ admins' = admins \ {u}
    /\ UNCHANGED <<members, acts>>

Retire(u) ==
    /\ u \in members /\ admins \ {u} # {}
    /\ members' = members \ {u} /\ admins' = admins \ {u}
    /\ Loses(u) /\ \A c \in Credential : acts'[c] # u

Issue(u) ==
    /\ u \in members /\ Gains(u)
    /\ UNCHANGED <<members, admins>>

\* Expiry, logging out, revoking: credentials of one account stop acting.
Withdraw(u) ==
    /\ Loses(u)
    /\ UNCHANGED <<members, admins>>

Next ==
    \E u \in Person :
        Admit(u) \/ Promote(u) \/ Demote(u) \/ Retire(u) \/ Issue(u) \/ Withdraw(u)

Spec == Init /\ [][Next]_vars
====
