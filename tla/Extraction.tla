----------------------------- MODULE Extraction -----------------------------
(***************************************************************************)
(* What the two ways of following a site without a feed have in common:    *)
(* the states that are none, the answer that leaves the stored state       *)
(* alone, and the loops that copy some elements of a slice to another.     *)
(***************************************************************************)
EXTENDS Integers, FiniteSets, SequencesExt

CONSTANTS
    Absent,      \* no state stored yet
    Unreadable,  \* a state this version of the program cannot use
    Keep         \* no state returned: leave the stored one alone

\* The k-th smallest element of a set of positions.
Kth(S, k) == CHOOSE i \in S : Cardinality({j \in S : j =< i}) = k

\* The elements of a sequence at some positions, in their order.
Pick(s, S) == [k \in 1..Cardinality(S) |-> s[Kth(S, k)]]

First(s, n) == Pick(s, {i \in DOMAIN s : i =< n})

Without(s, gone) == Pick(s, {i \in DOMAIN s : s[i] \notin gone})

\* Each element where it occurs first.
Once(s) == Pick(s, {i \in DOMAIN s : \A j \in 1..(i - 1) : s[j] # s[i]})
====
