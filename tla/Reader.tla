------------------------------- MODULE Reader -------------------------------
(***************************************************************************)
(* The state of the single-page reader: what is selected, the list on      *)
(* display and the requests that fill it, and the marks of read articles   *)
(* on their way to the server.                                             *)
(*                                                                         *)
(* JavaScript runs one handler at a time, up to its next await; answers    *)
(* come in any order, late, or not at all.  The server is external: a set  *)
(* of subscriptions and of articles that have been read.                   *)
(***************************************************************************)
EXTENDS Integers, FiniteSets, Functions

CONSTANTS
    Feed, Entry, Query,
    FeedOf,     \* entry -> the feed it is in
    Grouped,    \* the feeds of the one sidebar group
    Matches,    \* query -> the entries it finds
    Post,       \* bound: batches of read marks under way at a time
    MaxLoads,   \* bound: list requests in the life of a page
    MaxInFlight \* bound: requests under way at a time, other than of marks

\* A search with nothing to search for yet.
NoQuery == "none"

ASSUME ReaderAssumption ==
    /\ FeedOf \in [Entry -> Feed]
    /\ Grouped \subseteq Feed
    /\ Matches \in [Query -> SUBSET Entry]
    /\ {MaxLoads, MaxInFlight} \subseteq Nat
    /\ NoQuery \notin Query

VARIABLES
    read, subs,  \* of the server
    sel,         \* selectedFeedId, groupTarget, searchMode, feedManagerMode
    folders,     \* have the folders' names been loaded?
    entries,     \* the list on display: entry -> is it shown as read?
    cache,       \* prefetchCache: feed -> list
    loadToken, loading,
    loads,       \* the list requests under way
    pending,     \* pendingReadIds
    timer,       \* is idleTimer or maxTimer armed?
    posts,       \* the batches of marks under way
    calls        \* refresh, read-all and unsubscribe requests under way

server == <<read, subs>>
marks == <<pending, timer, posts>>
pane == <<entries, cache, loadToken, loading, loads>>
vars == <<server, sel, folders, pane, marks, calls>>

FeedView(f) == [kind |-> "feed", feed |-> f]

\* A target is compared by identity; what tells two targets of this one group
\* apart is the label, once it is put right.
GroupView(label) == [kind |-> "group", label |-> label]

SearchView(q) == [kind |-> "search", query |-> q]

\* The subscription list, or feed management: no list of entries on display.
Home == [kind |-> "home"]

Blank == [e \in {} |-> FALSE]

Free == [kind |-> "free"]

Belongs(view) ==
    {e \in Entry :
        \/ view.kind = "feed" /\ FeedOf[e] = view.feed
        \/ view.kind = "group" /\ FeedOf[e] \in Grouped
        \/ view.kind = "search" /\ view.query # NoQuery /\ e \in Matches[view.query]}

\* The sidebar: the folders come together with the subscriptions.
Listed == IF folders THEN subs ELSE {}

HasList(view) == view.kind \in {"feed", "group"} \/ (view.kind = "search" /\ view.query # NoQuery)

\* The server's answer: search finds the articles that have been read, too.
Answer(l) == LET es == {e \in Belongs(l.view) : FeedOf[e] \in subs /\ (l.unread => e \notin read)}
             IN  [e \in es |-> e \in read]

-----------------------------------------------------------------------------
(* Marks. *)

\* seen is what this handler has added to the pending marks.
WithPendingReadsApplied(list, seen) == [e \in DOMAIN list |-> list[e] \/ e \in pending \cup seen]

Unseen(list) == {e \in DOMAIN list : ~list[e]}

\* markReadOptimistic of every entry in es.
MarkReadOptimistic(es) ==
    /\ es \subseteq Unseen(entries)
    /\ pending' = pending \cup es
    /\ timer' = (timer \/ es # {})

Marked(es) == [e \in DOMAIN entries |-> entries[e] \/ e \in es]

MoveFocus(e) ==
    /\ e \in Unseen(entries)
    /\ MarkReadOptimistic({e})
    /\ entries' = Marked({e})
    /\ UNCHANGED <<server, sel, folders, cache, loadToken, loading, loads, posts, calls>>

Batch(kind) == [kind |-> kind, ids |-> pending, arrived |-> FALSE]

\* The marks leave the queue before they are known to have arrived.
Send(kind) ==
    /\ pending' = {}
    /\ IF pending = {} THEN posts' = posts
       ELSE \E p \in Post : posts[p] = Free /\ posts' = [posts EXCEPT ![p] = Batch(kind)]

FlushPendingReads == Send("fetch") /\ timer' = FALSE

Timer ==
    /\ timer
    /\ FlushPendingReads
    /\ UNCHANGED <<server, sel, folders, pane, calls>>

\* The answer to a beacon interests no one.
PostArrives(p) ==
    /\ posts[p] # Free /\ ~posts[p].arrived
    /\ read' = read \cup posts[p].ids
    /\ posts' = [posts EXCEPT ![p] = IF @.kind = "beacon" THEN Free ELSE [@ EXCEPT !.arrived = TRUE]]
    /\ UNCHANGED <<subs, sel, folders, pane, pending, timer, calls>>

PostAnswered(p) ==
    /\ posts[p] # Free /\ posts[p].arrived
    /\ posts' = [posts EXCEPT ![p] = Free]
    /\ UNCHANGED <<server, sel, folders, pane, pending, timer, calls>>

PutBackMut(ids) == pending' = pending /\ timer' = TRUE

PutBackUnarmed(ids) == pending' = pending \cup ids /\ timer' = timer

\* The catch of flushPendingReads.
PutBack(ids) == pending' = pending \cup ids /\ timer' = TRUE

\* The request or its answer is lost.
PostFails(p) ==
    /\ posts[p].kind = "fetch"
    /\ PutBack(posts[p].ids)
    /\ posts' = [posts EXCEPT ![p] = Free]
    /\ UNCHANGED <<server, sel, folders, pane, calls>>

\* And nobody hears of it.
BeaconLost(p) ==
    /\ posts[p].kind = "beacon"
    /\ posts' = [posts EXCEPT ![p] = Free]
    /\ UNCHANGED <<server, sel, folders, pane, pending, timer, calls>>

\* flushOnUnload, when the tab is hidden: the page lives on.
Hide ==
    /\ pending # {}
    /\ Send("beacon")
    /\ UNCHANGED <<server, sel, folders, pane, timer, calls>>

-----------------------------------------------------------------------------
(* Lists. *)

Request(view, token, unread, prefetch) ==
    [view |-> view, token |-> token, unread |-> unread, prefetch |-> prefetch,
     sent |-> TRUE, answer |-> Blank]

\* loadEntries, loadGroupEntries, loadSearchEntries up to their first await,
\* with the entries in seen just marked.
Load(view, seen, prefetch) ==
    LET cached == view.kind = "feed" /\ view.feed \in DOMAIN cache
    IN  /\ loadToken < MaxLoads
        /\ loadToken' = loadToken + 1
        /\ loads' = loads \cup
              {Request(view, loadToken', view.kind # "search", prefetch)}
        /\ entries' = IF cached THEN WithPendingReadsApplied(cache[view.feed], seen) ELSE Marked(seen)
        /\ cache' = IF cached THEN Restrict(cache, DOMAIN cache \ {view.feed}) ELSE cache
        /\ loading' = (loading \/ ~cached)

\* loadDataForRoute.
LoadDataForRoute(view) ==
    IF HasList(view) THEN Load(view, {}, FALSE)
    ELSE /\ entries' = IF view.kind = "search" THEN Blank ELSE entries
         /\ UNCHANGED <<cache, loadToken, loading, loads>>

\* selectAndLoadFeed: the articles in full view are taken for read, except by
\* the key that goes back.
SelectFeed(f, seen) ==
    /\ f \in Listed
    /\ sel = FeedView(f) => seen = {}
    /\ MarkReadOptimistic(seen)
    /\ sel' = FeedView(f)
    /\ Load(sel', seen, TRUE)
    /\ UNCHANGED <<server, folders, posts, calls>>

SelectGroup(seen) ==
    /\ folders
    /\ sel.kind = "group" => seen = {}
    /\ MarkReadOptimistic(seen)
    /\ sel' = GroupView("name")
    /\ Load(sel', seen, FALSE)
    /\ UNCHANGED <<server, folders, posts, calls>>

OpenSearch(seen) ==
    /\ sel.kind # "search"
    /\ MarkReadOptimistic(seen)
    /\ sel' = SearchView(NoQuery)
    /\ entries' = Blank
    /\ UNCHANGED <<server, folders, cache, loadToken, loading, loads, posts, calls>>

RunSearch(q, seen) ==
    /\ MarkReadOptimistic(seen)
    /\ sel' = SearchView(q)
    /\ Load(sel', seen, FALSE)
    /\ UNCHANGED <<server, folders, posts, calls>>

OpenFeedManager(seen) ==
    /\ MarkReadOptimistic(seen)
    /\ sel' = Home
    /\ entries' = Marked(seen)
    /\ UNCHANGED <<server, folders, cache, loadToken, loading, loads, posts, calls>>

GuessedLabel == IF folders THEN "name" ELSE "guess"

Routes == {FeedView(f) : f \in subs} \cup {GroupView(GuessedLabel), Home}
              \cup {SearchView(q) : q \in Query \cup {NoQuery}}

\* clearSelectedFeed, and the browser's back and forward.
PopState(view) ==
    /\ view \in Routes
    /\ sel' = view
    /\ LoadDataForRoute(view)
    /\ UNCHANGED <<server, folders, marks, calls>>

\* loadSubscriptions ends; the effect of startUrlSync corrects the label.
FoldersLoaded ==
    /\ ~folders
    /\ folders' = TRUE
    /\ sel' = IF sel.kind = "group" THEN GroupView("name") ELSE sel
    /\ UNCHANGED <<server, pane, marks, calls>>

Replies(l) ==
    /\ l.sent
    /\ loads' = (loads \ {l}) \cup {[l EXCEPT !.sent = FALSE, !.answer = Answer(l)]}
    /\ UNCHANGED <<server, sel, folders, entries, cache, loadToken, loading, marks, calls>>

CurrentMut(l) == sel = l.view

CurrentAnyView(l) == l.token = loadToken

\* May this answer be shown?
Current(l) == l.token = loadToken /\ sel = l.view

LoadingAfterMut(l) == IF Current(l) THEN FALSE ELSE loading

\* The finally of the loaders.
LoadingAfter(l) == IF l.token = loadToken THEN FALSE ELSE loading

\* prefetchNext asks for a feed that has unread articles by the sidebar's count,
\* which may be out of date.  A bound: not for the selected one itself, which it
\* finds when it heads the sidebar and r has just made the scan start there.
Prefetches ==
    {{}} \cup {{Request(FeedView(f), 0, TRUE, FALSE)} :
                  f \in {g \in Listed \ DOMAIN cache : FeedView(g) # sel /\ Belongs(FeedView(g)) # {}}}

LoadDone(l) ==
    /\ ~l.sent /\ l.token > 0
    /\ IF Current(l) /\ l.view.kind = "feed" /\ l.unread /\ l.answer = Blank
       THEN /\ loads' = (loads \ {l}) \cup {Request(l.view, l.token, FALSE, l.prefetch)}
            /\ UNCHANGED <<entries, loading>>
       ELSE /\ \E more \in IF l.prefetch THEN Prefetches ELSE {{}} :
                  loads' = (loads \ {l}) \cup more
            /\ entries' = IF Current(l) THEN WithPendingReadsApplied(l.answer, {}) ELSE entries
            /\ loading' = LoadingAfter(l)
    /\ UNCHANGED <<server, sel, folders, cache, loadToken, marks, calls>>

PrefetchDone(l) ==
    /\ ~l.sent /\ l.token = 0
    /\ loads' = loads \ {l}
    /\ cache' = [f \in DOMAIN cache \cup {l.view.feed} |->
                    IF f = l.view.feed THEN l.answer ELSE cache[f]]
    /\ UNCHANGED <<server, sel, folders, entries, loadToken, loading, marks, calls>>

LoadFails(l) ==
    /\ loads' = loads \ {l}
    /\ loading' = LoadingAfter(l)
    /\ UNCHANGED <<server, sel, folders, entries, cache, loadToken, marks, calls>>

-----------------------------------------------------------------------------
(* Requests that change the list once they are answered. *)

Call(c) == calls' = calls \cup {c}

\* refreshFeed lands the marks first; that it waits for them is left out,
\* which only lets more happen.
RefreshFeed(f) ==
    /\ f \in Listed
    /\ Call([kind |-> "refresh", feed |-> f, selected |-> FALSE])
    /\ FlushPendingReads
    /\ UNCHANGED <<server, sel, folders, pane>>

\* unsubscribeFeed: whether the feed is selected is asked before the await.
\* The last subscription stays, a bound.
UnsubscribeFeed(f) ==
    /\ f \in Listed /\ Listed # {f}
    /\ Call([kind |-> "unsubscribe", feed |-> f, selected |-> sel = FeedView(f)])
    /\ UNCHANGED <<server, sel, folders, pane, marks>>

MarkFeedReadAll(f) ==
    /\ f \in Listed
    /\ Call([kind |-> "readAll", feed |-> f, selected |-> FALSE])
    /\ UNCHANGED <<server, sel, folders, pane, marks>>

\* markAllRead, of the sidebar's menu.
MarkAllRead ==
    /\ Listed # {}
    /\ Call([kind |-> "allRead"])
    /\ UNCHANGED <<server, sel, folders, pane, marks>>

\* The server has done it and the answer is back.
CallDone(c) ==
    /\ calls' = calls \ {c}
    /\ \/ /\ c.kind = "refresh"
          /\ IF sel = FeedView(c.feed) THEN Load(sel, {}, FALSE) ELSE UNCHANGED pane
          /\ UNCHANGED <<server, sel>>
       \/ /\ c.kind = "unsubscribe"
          /\ subs' = subs \ {c.feed}
          /\ sel' = IF sel = FeedView(c.feed) THEN Home ELSE sel
          /\ entries' = IF c.selected THEN Blank ELSE entries
          /\ UNCHANGED <<read, cache, loadToken, loading, loads>>
       \/ /\ c.kind = "readAll"
          /\ read' = read \cup {e \in Entry : FeedOf[e] = c.feed}
          /\ entries' = IF sel = FeedView(c.feed) THEN Blank ELSE entries
          /\ UNCHANGED <<subs, sel, cache, loadToken, loading, loads>>
       \/ /\ c.kind = "allRead"
          /\ read' = read \cup {e \in Entry : FeedOf[e] \in subs}
          /\ entries' = IF sel.kind = "search" THEN entries ELSE Blank
          /\ UNCHANGED <<subs, sel, cache, loadToken, loading, loads>>
    /\ UNCHANGED <<folders, marks>>

CallFails(c) ==
    /\ calls' = calls \ {c}
    /\ UNCHANGED <<server, sel, folders, pane, marks>>

-----------------------------------------------------------------------------

\* The page as main.tsx mounts it at a given route.
Mount(view) ==
    /\ sel' = view
    /\ folders' = FALSE
    /\ loads' = IF HasList(view) THEN {Request(view, 1, view.kind # "search", FALSE)} ELSE {}
    /\ loadToken' = Cardinality(loads')
    /\ loading' = (loads' # {})
    /\ entries' = Blank /\ cache' = Blank

\* The page is left, with a beacon, and opened again where the URL says: no one
\* waits for the batches under way any more, which arrive or not.
Reload ==
    /\ pending' = {} /\ timer' = FALSE
    /\ LET orphaned == [p \in Post |-> IF posts[p] = Free \/ posts[p].arrived THEN Free
                                       ELSE [posts[p] EXCEPT !.kind = "beacon"]]
       IN  IF pending = {} THEN posts' = orphaned
           ELSE \E p \in Post : posts[p] = Free /\ posts' = [orphaned EXCEPT ![p] = Batch("beacon")]
    /\ Mount(IF sel.kind = "group" THEN GroupView("guess") ELSE sel)
    /\ calls' = {}
    /\ UNCHANGED server

Init ==
    /\ read = {} /\ subs = Feed
    /\ sel = Home /\ folders = FALSE
    /\ entries = Blank /\ cache = Blank
    /\ loadToken = 0 /\ loading = FALSE /\ loads = {}
    /\ pending = {} /\ timer = FALSE /\ posts = [p \in Post |-> Free]
    /\ calls = {}

Steps ==
    \/ \E e \in Entry : MoveFocus(e)
    \/ Timer \/ Hide \/ FoldersLoaded \/ Reload \/ MarkAllRead
    \/ \E p \in Post : PostArrives(p) \/ PostAnswered(p) \/ PostFails(p) \/ BeaconLost(p)
    \/ \E seen \in SUBSET Entry :
          \/ \E f \in Feed : SelectFeed(f, seen)
          \/ \E q \in Query : RunSearch(q, seen)
          \/ SelectGroup(seen) \/ OpenSearch(seen) \/ OpenFeedManager(seen)
    \/ \E view \in Routes : PopState(view)
    \/ \E l \in loads : Replies(l) \/ LoadDone(l) \/ PrefetchDone(l) \/ LoadFails(l)
    \/ \E f \in Feed : RefreshFeed(f) \/ UnsubscribeFeed(f) \/ MarkFeedReadAll(f)
    \/ \E c \in calls : CallDone(c) \/ CallFails(c)

Next == Steps /\ Cardinality(loads') + Cardinality(calls') =< MaxInFlight

Spec == Init /\ [][Next]_vars
====
