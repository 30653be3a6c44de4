-------------------------- MODULE FeedStoreHistory --------------------------
(***************************************************************************)
(* FeedStore with history variables, for the promises that relate a flag   *)
(* to the texts and words it was computed from, and an item of a feed to   *)
(* what its readers have done with it under whatever rowid.  Track selects *)
(* what a run remembers.                                                   *)
(***************************************************************************)
EXTENDS FeedStore, TLC

CONSTANT Track  \* a subset of {"stale", "items"}

VARIABLES
    stale,     \* user -> rows whose ignored flag was computed from a text or
               \*         a word list that has changed since
    known      \* user -> items of subscribed feeds that the user has read, and
               \*         whose entry no collection has taken since

hvars == <<vars, stale, known>>

HInit ==
    /\ Init
    /\ stale = [u \in User |-> {}]
    /\ known = [u \in User |-> {}]

\* The rows of u whose ignored flag this step leaves out of date.
StaleAfter(u) ==
    IF RecomputeIgnored(u) THEN {}
    ELSE {e \in DOMAIN ues'[u] :
            \/ e \in stale[u]
            \/ /\ e \in DOMAIN ues[u]
               /\ words'[u] # words[u] \/ entries'[e].text # entries[e].text}

\* What the publisher takes for one item: a guid of a feed.
Item(e) == <<entries[e].feed, entries[e].guid>>

ReadItems(u) == {Item(e) : e \in {d \in DOMAIN ues[u] : ues[u][d].read}}

TakenItems == {Item(e) : e \in DOMAIN entries \ DOMAIN entries'}

KnownAfter(u) ==
    {i \in (known[u] \ TakenItems) \cup ReadItems(u)' : i[1] \in DOMAIN subs'[u]}

HNext ==
    /\ Next
    /\ stale' = IF "stale" \in Track
                THEN [u \in User |-> StaleAfter(u)] ELSE stale
    /\ known' = IF "items" \in Track
                THEN [u \in User |-> KnownAfter(u)] ELSE known

HSpec == HInit /\ [][HNext]_hvars

Symmetry == Permutations(User) \cup Permutations(FeedId)
                \cup Permutations(Guid) \cup Permutations(Word)

----------------------------------------------------------------------------

\* The ignored flag of a row is right unless a crawl has rewritten the entry
\* or a word was added or removed after it was computed and no recompute has
\* committed since: rows inserted by a crawl or a subscription that runs
\* between a word change and its recompute are already right, and a recompute
\* that was overtaken by another request still repairs every row.
FlagsAccountedFor ==
    \A u \in User : \A e \in DOMAIN ues[u] \ stale[u] :
        ues[u][e].ignored = Matches(u, entries[e].text)

\* An item that a user has read is read whenever it is there, whatever documents
\* its feed serves, whatever rowid its entry has and however often the feed is
\* subscribed to again, as long as the user does not unsubscribe and no collection
\* takes the entry.
ReadUnlessCollected ==
    \A u \in User : \A e \in DOMAIN ues[u] :
        Item(e) \in known[u] => ues[u][e].read
====
