--------------------------- MODULE ReaderHistory ---------------------------
(***************************************************************************)
(* Reader, with what its user remembers.                                   *)
(***************************************************************************)
EXTENDS Reader, TLC

VARIABLES
    marked,   \* the articles this user has marked
    dropped,  \* marks handed to the browser for good, which lost them
    known,    \* what the server knew as read when the newest list was asked for
    excused   \* the newest list cannot come: its request has failed, or its
              \* target was replaced when the folder's name came in

hvars == <<vars, marked, dropped, known, excused>>

HInit == Init /\ marked = {} /\ dropped = {} /\ known = {} /\ excused = FALSE

NewestFails == \E l \in loads : l.token = loadToken /\ LoadFails(l)

NewestDisowned ==
    FoldersLoaded /\ sel' # sel /\ \E l \in loads : l.token = loadToken /\ l.view = sel

HNext ==
    /\ Next
    /\ marked' = marked \cup pending'
    /\ dropped' = dropped \cup UNION {posts[p].ids : p \in {q \in Post : BeaconLost(q)}}
    /\ known' = IF loadToken' # loadToken \/ Reload THEN read ELSE known
    /\ excused' = IF loadToken' # loadToken \/ Reload THEN FALSE
                  ELSE excused \/ NewestFails \/ NewestDisowned

HSpec == HInit /\ [][HNext]_hvars

\* A timer that is armed fires when there is a free slot, a batch under way
\* comes to an end, and one that is sent again and again arrives sometime.
Fairness ==
    /\ WF_vars(Timer)
    /\ \A p \in Post : /\ WF_vars(PostAnswered(p) \/ PostFails(p) \/ BeaconLost(p))
                       /\ SF_vars(posts[p].kind = "fetch" /\ PostArrives(p))

HFairSpec == HSpec /\ Fairness

-----------------------------------------------------------------------------

Settled == \A l \in loads : l.token # loadToken

\* The list on display is one of the selected feed, group or search, however
\* the selection has moved while answers were under way; a request that has
\* failed leaves the list of the selection before.
ShowsSelection == Settled /\ ~excused /\ sel # Home => DOMAIN entries \subseteq Belongs(sel)

\* Once the newest list is there, nothing the server knew as read when it was
\* asked for is shown as unread: no older answer, prefetched or late, has
\* taken its place.
NoStaleList == Settled /\ ~excused /\ sel # Home => known \cap Unseen(entries) = {}

\* The spinner turns only as long as the newest request is under way.
NoStuckSpinner == loading => ~Settled

\* A mark is on the server, in the queue, or in a batch under way, through
\* failures, retries, hidden tabs and reloads; only what is handed over when
\* the page goes away may be lost.
MarksKept ==
    marked \subseteq read \cup pending \cup dropped
                     \cup UNION {posts[p].ids : p \in {q \in Post : posts[q] # Free}}

\* And sooner or later every mark reaches the server.
MarksDelivered == \A e \in Entry : (e \in marked) ~> (e \in read \cup dropped)

-----------------------------------------------------------------------------
(* The instance: an article in a feed in a folder, and a feed without any. *)

CONSTANTS f1, f2, e1, q1

MCFeedOf == e1 :> f1
MCMatches == q1 :> {e1}
====
