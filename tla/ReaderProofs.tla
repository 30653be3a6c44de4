---------------------------- MODULE ReaderProofs ----------------------------
(***************************************************************************)
(* For any feeds, articles, searches and numbers of requests: the list on  *)
(* display belongs to the selection and is not an older one, the spinner   *)
(* does not get stuck, and no mark is lost.                                *)
(***************************************************************************)
EXTENDS ReaderHistory, FiniteSetTheorems, TLAPS

-----------------------------------------------------------------------------
(* Marks. *)

BatchRecord == [kind: {"fetch", "beacon"}, ids: SUBSET Entry, arrived: BOOLEAN]

\* A batch is let go of only after it has arrived, been put back, or been
\* handed over for good: what has arrived is on the server.
MarksInv ==
    /\ posts \in [Post -> {Free} \cup BatchRecord]
    /\ pending \subseteq Entry
    /\ \A p \in Post : posts[p] # Free /\ posts[p].arrived => posts[p].ids \subseteq read
    /\ MarksKept

LEMMA FreeIsNoBatch == Free \notin BatchRecord /\ \A b \in BatchRecord : b.kind # Free.kind
BY DEF Free, BatchRecord

\* How a step may treat marks: the ones in the queue, in the batches and on
\* the server are still there afterwards, or have been dropped.
LEMMA MarksCarriedOver ==
    ASSUME MarksInv, marked' = marked \cup pending',
           read \subseteq read', dropped \subseteq dropped',
           pending \subseteq read' \cup pending' \cup dropped'
                       \cup UNION {posts'[p].ids : p \in {q \in Post : posts'[q] # Free}},
           \A p \in Post : posts[p] # Free =>
               posts[p].ids \subseteq read' \cup pending' \cup dropped'
                       \cup UNION {posts'[q].ids : q \in {q \in Post : posts'[q] # Free}}
    PROVE  MarksKept'
BY DEF MarksInv, MarksKept

\* What a history step remembers of marks.
LEMMA MarksRemembered ==
    ASSUME HNext
    PROVE  marked' = marked \cup pending' /\ dropped \subseteq dropped'
BY DEF HNext

\* Most handlers leave the batches alone, and only add to the rest.
LEMMA MarksGrow ==
    ASSUME MarksInv, marked' = marked \cup pending', dropped \subseteq dropped',
           posts' = posts, pending \subseteq pending', pending' \subseteq Entry, read \subseteq read'
    PROVE  MarksInv'
<1>1. MarksKept'
  BY DEF MarksInv, MarksKept
<1> QED
  BY <1>1 DEF MarksInv

\* The queue goes into a free slot.
LEMMA SendKeepsMarks ==
    ASSUME MarksInv, marked' = marked \cup pending', dropped \subseteq dropped',
           NEW kind \in {"fetch", "beacon"}, Send(kind), read' = read
    PROVE  MarksInv'
<1>1. CASE pending = {}
  BY <1>1, MarksGrow DEF Send, MarksInv
<1>2. CASE pending # {}
  <2>1. PICK p \in Post : posts[p] = Free /\ posts' = [posts EXCEPT ![p] = Batch(kind)]
    BY <1>2 DEF Send
  <2>2. Batch(kind) \in BatchRecord /\ Batch(kind).ids = pending /\ ~Batch(kind).arrived
    BY DEF Batch, BatchRecord, MarksInv
  <2>3. posts' \in [Post -> {Free} \cup BatchRecord] /\ posts'[p] = Batch(kind)
        /\ \A q \in Post \ {p} : posts'[q] = posts[q]
    BY <2>1, <2>2 DEF MarksInv
  <2>4. posts'[p] # Free
    BY <2>2, <2>3, FreeIsNoBatch
  <2>5. MarksKept'
    BY <2>1, <2>2, <2>3, <2>4, MarksCarriedOver DEF Send
  <2>6. pending' \subseteq Entry
    BY DEF Send
  <2> QED
    BY <2>1, <2>2, <2>3, <2>5, <2>6 DEF MarksInv
<1> QED
  BY <1>1, <1>2

\* A slot becomes free.
LEMMA SlotFreed ==
    ASSUME MarksInv, marked' = marked \cup pending', dropped \subseteq dropped',
           NEW p \in Post, posts' = [posts EXCEPT ![p] = Free], read \subseteq read',
           pending \subseteq pending', pending' \subseteq Entry,
           posts[p] # Free => posts[p].ids \subseteq read' \cup pending' \cup dropped'
    PROVE  MarksInv'
<1>1. posts' \in [Post -> {Free} \cup BatchRecord] /\ posts'[p] = Free
      /\ \A q \in Post \ {p} : posts'[q] = posts[q]
  BY DEF MarksInv
<1>2. MarksKept'
  BY <1>1, MarksCarriedOver
<1> QED
  BY <1>1, <1>2 DEF MarksInv

\* One step per kind of action.
LEMMA MarksStep == MarksInv /\ [HNext]_hvars => MarksInv'
<1> SUFFICES ASSUME MarksInv, [HNext]_hvars PROVE MarksInv'
  OBVIOUS
<1>1. CASE UNCHANGED hvars
  BY <1>1 DEF MarksInv, MarksKept, hvars, vars, server, marks
<1>2. CASE HNext
  <2>0. marked' = marked \cup pending' /\ dropped \subseteq dropped' /\ Steps
    BY <1>2, MarksRemembered DEF HNext, Next
  <2>1. ASSUME NEW e \in Entry, MoveFocus(e) PROVE MarksInv'
    BY <2>0, <2>1, MarksGrow DEF MoveFocus, MarkReadOptimistic, server, MarksInv
  <2>2. CASE Timer
    BY <2>0, <2>2, SendKeepsMarks DEF Timer, FlushPendingReads, server
  <2>3. CASE Hide
    BY <2>0, <2>3, SendKeepsMarks DEF Hide, server
  <2>4. CASE FoldersLoaded \/ MarkAllRead
    BY <2>0, <2>4, MarksGrow DEF FoldersLoaded, MarkAllRead, marks, server, MarksInv
  <2>5. CASE Reload
    <3> DEFINE orphaned == [p \in Post |-> IF posts[p] = Free \/ posts[p].arrived THEN Free
                                           ELSE [posts[p] EXCEPT !.kind = "beacon"]]
    <3>1. orphaned \in [Post -> {Free} \cup BatchRecord]
      BY DEF MarksInv, BatchRecord
    <3>2. \A p \in Post : posts[p] # Free /\ ~posts[p].arrived =>
              orphaned[p] # Free /\ orphaned[p].ids = posts[p].ids /\ ~orphaned[p].arrived
      BY FreeIsNoBatch DEF MarksInv, BatchRecord, Free
    <3>3. read' = read /\ pending' = {}
      BY <2>5 DEF Reload, server
    <3>4. CASE pending = {}
      <4>1. posts' = orphaned
        BY <2>5, <3>4 DEF Reload
      <4>2. MarksKept'
        BY <2>0, <3>1, <3>2, <3>3, <3>4, <4>1, MarksCarriedOver DEF MarksInv
      <4>3. \A p \in Post : posts'[p] # Free => ~posts'[p].arrived
        BY <3>2, <4>1
      <4> QED
        BY <3>1, <3>3, <4>1, <4>2, <4>3 DEF MarksInv
    <3>5. CASE pending # {}
      <4>1. PICK p \in Post : posts[p] = Free /\ posts' = [orphaned EXCEPT ![p] = Batch("beacon")]
        BY <2>5, <3>5 DEF Reload
      <4>2. Batch("beacon") \in BatchRecord /\ Batch("beacon").ids = pending /\ ~Batch("beacon").arrived
        BY DEF Batch, BatchRecord, MarksInv
      <4>3. posts' \in [Post -> {Free} \cup BatchRecord] /\ posts'[p] = Batch("beacon")
            /\ \A q \in Post \ {p} : posts'[q] = orphaned[q]
        BY <3>1, <4>1, <4>2
      <4>4. posts'[p] # Free
        BY <4>2, <4>3, FreeIsNoBatch
      <4>5. MarksKept'
        BY <2>0, <3>2, <3>3, <4>1, <4>2, <4>3, <4>4, MarksCarriedOver DEF MarksInv
      <4>6. \A q \in Post : posts'[q] # Free => ~posts'[q].arrived
        BY <3>2, <4>2, <4>3
      <4> QED
        BY <3>3, <4>3, <4>5, <4>6 DEF MarksInv
    <3> QED
      BY <3>4, <3>5
  <2>6. ASSUME NEW p \in Post, PostArrives(p) PROVE MarksInv'
    <3>1. posts[p] \in BatchRecord /\ read' = read \cup posts[p].ids /\ pending' = pending
      BY <2>6 DEF PostArrives, MarksInv
    <3>2. CASE posts[p].kind = "beacon"
      <4>1. posts' = [posts EXCEPT ![p] = Free]
        BY <2>6, <3>2 DEF PostArrives
      <4> QED
        BY <2>0, <3>1, <4>1, SlotFreed DEF MarksInv
    <3>3. CASE posts[p].kind # "beacon"
      <4>1. posts' = [posts EXCEPT ![p] = [posts[p] EXCEPT !.arrived = TRUE]]
        BY <2>6, <3>3 DEF PostArrives
      <4>2. posts' \in [Post -> {Free} \cup BatchRecord] /\ posts'[p].ids = posts[p].ids
            /\ posts'[p] \in BatchRecord /\ \A q \in Post \ {p} : posts'[q] = posts[q]
        BY <3>1, <4>1 DEF MarksInv, BatchRecord
      <4>3. MarksKept'
        BY <2>0, <3>1, <4>2, FreeIsNoBatch, MarksCarriedOver
      <4> QED
        BY <3>1, <4>2, <4>3 DEF MarksInv
    <3> QED
      BY <3>2, <3>3
  <2>7. ASSUME NEW p \in Post, PostAnswered(p) PROVE MarksInv'
    BY <2>0, <2>7, SlotFreed DEF PostAnswered, server, MarksInv
  <2>8. ASSUME NEW p \in Post, PostFails(p) PROVE MarksInv'
    <3>1. posts[p] \in BatchRecord
      BY <2>8 DEF PostFails, MarksInv, Free
    <3>2. posts[p].ids \subseteq Entry
      BY <3>1 DEF BatchRecord
    <3> QED
      BY <2>0, <2>8, <3>2, SlotFreed DEF PostFails, PutBack, server, MarksInv
  <2>9. ASSUME NEW p \in Post, BeaconLost(p) PROVE MarksInv'
    <3>1. posts[p].ids \subseteq dropped'
      BY <1>2, <2>9 DEF HNext
    <3> QED
      BY <2>0, <2>9, <3>1, SlotFreed DEF BeaconLost, server, MarksInv
  <2>10. ASSUME NEW seen \in SUBSET Entry,
                \/ \E f \in Feed : SelectFeed(f, seen)
                \/ \E q \in Query : RunSearch(q, seen)
                \/ SelectGroup(seen) \/ OpenSearch(seen) \/ OpenFeedManager(seen)
         PROVE  MarksInv'
    <3>1. posts' = posts /\ read' = read /\ MarkReadOptimistic(seen)
      BY <2>10 DEF SelectFeed, RunSearch, SelectGroup, OpenSearch, OpenFeedManager, server
    <3> QED
      BY <2>0, <3>1, MarksGrow DEF MarkReadOptimistic, MarksInv
  <2>11. ASSUME NEW view \in Routes, PopState(view) PROVE MarksInv'
    BY <2>0, <2>11, MarksGrow DEF PopState, marks, server, MarksInv
  <2>12. ASSUME NEW l \in loads, Replies(l) \/ LoadDone(l) \/ PrefetchDone(l) \/ LoadFails(l)
         PROVE  MarksInv'
    BY <2>0, <2>12, MarksGrow DEF Replies, LoadDone, PrefetchDone, LoadFails, marks, server, MarksInv
  <2>13. ASSUME NEW f \in Feed, RefreshFeed(f) PROVE MarksInv'
    BY <2>0, <2>13, SendKeepsMarks DEF RefreshFeed, FlushPendingReads, server
  <2>14. ASSUME NEW f \in Feed, UnsubscribeFeed(f) \/ MarkFeedReadAll(f) PROVE MarksInv'
    BY <2>0, <2>14, MarksGrow DEF UnsubscribeFeed, MarkFeedReadAll, marks, server, MarksInv
  <2>15. ASSUME NEW c \in calls, CallDone(c) \/ CallFails(c) PROVE MarksInv'
    <3>1. posts' = posts /\ pending' = pending /\ read \subseteq read'
      BY <2>15 DEF CallDone, CallFails, marks, server
    <3> QED
      BY <2>0, <3>1, MarksGrow DEF MarksInv
  <2> QED
    BY <2>0, <2>1, <2>2, <2>3, <2>4, <2>5, <2>6, <2>7, <2>8, <2>9, <2>10, <2>11, <2>12,
       <2>13, <2>14, <2>15 DEF Steps
<1> QED
  BY <1>1, <1>2

\* No mark gets lost in this program: it is on the server, in the queue or in a
\* batch under way, through failures, retries, hidden tabs and reloads, for any
\* number of batches; only what the browser was given at the end may be gone.
THEOREM NoMarkLost == HSpec => []MarksKept
<1>1. HInit => MarksInv
  BY DEF HInit, Init, MarksInv, MarksKept
<1>2. MarksInv => MarksKept
  BY DEF MarksInv
<1> QED
  BY <1>1, <1>2, MarksStep, PTL DEF HSpec

-----------------------------------------------------------------------------
(* Lists. *)

View ==
    {FeedView(f) : f \in Feed} \cup {GroupView(label) : label \in {"name", "guess"}}
        \cup {SearchView(q) : q \in Query \cup {NoQuery}} \cup {Home}

List == UNION {[es -> BOOLEAN] : es \in SUBSET Entry}

LoadRecord ==
    [view: View, token: Nat, unread: BOOLEAN, prefetch: BOOLEAN, sent: BOOLEAN, answer: List]

ListTypes ==
    /\ sel \in View /\ subs \subseteq Feed
    /\ loadToken \in Nat /\ loads \subseteq LoadRecord

\* Requests carry the number of the page's count at their time, prefetches 0.
TokensInOrder == \A l \in loads : l.token =< loadToken /\ loadToken > 0

\* An answer is of what was asked for.
AnswersFit == \A l \in loads : DOMAIN l.answer \subseteq Belongs(l.view)

\* The newest request is for the selection, unless that shows no list or the
\* target was replaced; its answer is at least as new as the request.
NewestFits ==
    /\ known \subseteq read
    /\ \A l \in loads : l.token = loadToken =>
          /\ known \cap Unseen(l.answer) = {}
          /\ l.view = sel \/ ~HasList(sel) \/ excused

EmptySearchIsBlank == sel = SearchView(NoQuery) => DOMAIN entries = {}

\* The inductive invariant.
ListsInv ==
    /\ ListTypes /\ TokensInOrder /\ AnswersFit /\ NewestFits /\ EmptySearchIsBlank
    /\ ShowsSelection /\ NoStaleList /\ NoStuckSpinner

\* The kinds of views, and which of them show no list.
LEMMA Views ==
    /\ Home \in View /\ SearchView(NoQuery) \in View
    /\ GroupView("name") \in View /\ GroupView("guess") \in View
    /\ \A f \in Feed : FeedView(f) \in View
    /\ \A f : HasList(FeedView(f))
    /\ \A q \in Query : SearchView(q) \in View /\ HasList(SearchView(q))
    /\ HasList(GroupView("name")) /\ HasList(GroupView("guess"))
    /\ \A v \in View : ~HasList(v) => v = Home \/ v = SearchView(NoQuery)
    /\ ~HasList(Home) /\ ~HasList(SearchView(NoQuery)) /\ SearchView(NoQuery) # Home
<1>1. /\ Home \in View /\ SearchView(NoQuery) \in View
      /\ GroupView("name") \in View /\ GroupView("guess") \in View
      /\ \A f \in Feed : FeedView(f) \in View
      /\ \A q \in Query : SearchView(q) \in View
  BY DEF View
<1>2. /\ \A f : HasList(FeedView(f))
      /\ \A label : HasList(GroupView(label))
      /\ \A q : q # NoQuery => HasList(SearchView(q))
  BY DEF HasList, FeedView, GroupView, SearchView
<1>3. ~HasList(Home) /\ ~HasList(SearchView(NoQuery)) /\ SearchView(NoQuery) # Home
  BY DEF HasList, SearchView, Home
<1>4. \A v \in View : ~HasList(v) => v = Home \/ v = SearchView(NoQuery)
  BY <1>2 DEF View
<1> QED
  BY <1>1, <1>2, <1>3, <1>4, ReaderAssumption

\* The label of a group does not change what belongs to it.
LEMMA GroupsAlike ==
    ASSUME NEW v \in View, v.kind = "group"
    PROVE  Belongs(v) = Belongs(GroupView("name")) /\ HasList(v) /\ v # Home
BY DEF Belongs, GroupView, HasList, Home

LEMMA BlankIsList == Blank \in List /\ DOMAIN Blank = {} /\ Unseen(Blank) = {}
BY DEF Blank, List, Unseen

\* An answer shows what belongs to the view, and nothing as unread that the
\* server knows as read.
LEMMA AnswerFits ==
    ASSUME NEW l
    PROVE  /\ Answer(l) \in List
           /\ DOMAIN Answer(l) \subseteq Belongs(l.view)
           /\ read \cap Unseen(Answer(l)) = {}
<1> DEFINE es == {e \in Belongs(l.view) : FeedOf[e] \in subs /\ (l.unread => e \notin read)}
<1>1. Answer(l) = [e \in es |-> e \in read] /\ es \subseteq Entry
  BY DEF Answer, Belongs
<1>2. [e \in es |-> e \in read] \in [es -> BOOLEAN]
  OBVIOUS
<1> QED
  BY <1>1, <1>2 DEF List, Unseen

LEMMA RequestIsLoad ==
    ASSUME NEW v \in View, NEW t \in Nat, NEW u \in BOOLEAN, NEW p \in BOOLEAN
    PROVE  /\ Request(v, t, u, p) \in LoadRecord
           /\ Request(v, t, u, p).view = v /\ Request(v, t, u, p).token = t
           /\ Request(v, t, u, p).answer = Blank
BY BlankIsList DEF Request, LoadRecord

\* What a history step remembers of lists.
LEMMA ListsRemembered ==
    ASSUME HNext, known \subseteq read, read \subseteq read'
    PROVE  /\ known' \subseteq read'
           /\ loadToken' # loadToken \/ Reload => known' = read /\ excused' = FALSE
           /\ loadToken' = loadToken /\ ~Reload => known' = known /\ (excused => excused')
BY DEF HNext

\* A handler that sends a new request for the selection.
LEMMA LoadKeepsLists ==
    ASSUME ListsInv, HNext, NEW seen, NEW prefetch \in BOOLEAN,
           sel' \in View, HasList(sel'), Load(sel', seen, prefetch), read \subseteq read',
           subs' \subseteq Feed
    PROVE  ListsInv'
<1> DEFINE r == Request(sel', loadToken', sel'.kind # "search", prefetch)
<1>1. loadToken' = loadToken + 1 /\ loads' = loads \cup {r} /\ loadToken' \in Nat
  BY DEF Load, ListsInv, ListTypes
<1>2. r \in LoadRecord /\ r.view = sel' /\ r.token = loadToken' /\ r.answer = Blank
  <2>1. (sel'.kind # "search") \in BOOLEAN
    OBVIOUS
  <2> QED
    BY <1>1, <2>1, BlankIsList DEF Request, LoadRecord
<1>3. ListTypes'
  BY <1>1, <1>2 DEF ListsInv, ListTypes
<1>4. \A l \in loads : l.token < loadToken'
  BY <1>1 DEF ListsInv, ListTypes, TokensInOrder, LoadRecord
<1>5. TokensInOrder'
  BY <1>1, <1>2, <1>4 DEF ListsInv, ListTypes, TokensInOrder, LoadRecord
<1>6. AnswersFit'
  <2>1. \A l \in loads' : DOMAIN l.answer \subseteq Belongs(l.view)
    BY <1>1, <1>2, BlankIsList DEF ListsInv, AnswersFit
  <2> QED
    BY <2>1 DEF AnswersFit, Belongs
<1>7. known' \subseteq read' /\ known' = read
  <2>1. loadToken' # loadToken
    BY <1>1 DEF ListsInv, ListTypes
  <2>2. known \subseteq read
    BY DEF ListsInv, NewestFits
  <2> QED
    BY <2>1, <2>2, ListsRemembered
<1>8. \A l \in loads' : l.token = loadToken' => l = r
  BY <1>1, <1>4 DEF ListsInv, ListTypes, LoadRecord
<1>9. NewestFits'
  BY <1>2, <1>7, <1>8, BlankIsList DEF NewestFits, Unseen
<1>10. ~Settled'
  BY <1>1, <1>2 DEF Settled
<1>11. EmptySearchIsBlank'
  BY Views DEF EmptySearchIsBlank
<1> QED
  BY <1>3, <1>5, <1>6, <1>9, <1>10, <1>11 DEF ListsInv, ShowsSelection, NoStaleList, NoStuckSpinner

\* A handler that at most marks or clears the list on display.
LEMMA DisplayKept ==
    ASSUME ListsInv, HNext, ~Reload, read \subseteq read', subs' \subseteq Feed,
           sel' = sel, loads' = loads, loadToken' = loadToken, loading' = loading,
           DOMAIN entries' \subseteq DOMAIN entries, Unseen(entries') \subseteq Unseen(entries)
    PROVE  ListsInv'
<1>1. known' = known /\ known' \subseteq read' /\ (excused => excused')
  <2>1. known \subseteq read
    BY DEF ListsInv, NewestFits
  <2> QED
    BY <2>1, ListsRemembered
<1>2. ListTypes' /\ TokensInOrder' /\ AnswersFit'
  BY DEF ListsInv, ListTypes, TokensInOrder, AnswersFit, Belongs
<1>3. NewestFits'
  BY <1>1 DEF ListsInv, NewestFits, Unseen
<1>4. EmptySearchIsBlank' /\ NoStuckSpinner'
  BY DEF ListsInv, EmptySearchIsBlank, NoStuckSpinner, Settled
<1>5. ShowsSelection' /\ NoStaleList'
  <2> SUFFICES ASSUME Settled', ~excused', sel' # Home
               PROVE  DOMAIN entries' \subseteq Belongs(sel) /\ known' \cap Unseen(entries') = {}
    BY DEF ShowsSelection, NoStaleList, Unseen, Belongs
  <2>1. Settled /\ ~excused /\ sel # Home
    BY <1>1 DEF Settled
  <2> QED
    BY <1>1, <2>1 DEF ListsInv, ShowsSelection, NoStaleList
<1> QED
  BY <1>2, <1>3, <1>4, <1>5 DEF ListsInv

\* A handler that leaves for a view without a list.
LEMMA ListLeft ==
    ASSUME ListsInv, HNext, ~Reload, read \subseteq read', subs' \subseteq Feed,
           sel' \in {Home, SearchView(NoQuery)}, sel' # Home => entries' = Blank,
           loads' = loads, loadToken' = loadToken, loading' = loading
    PROVE  ListsInv'
<1>1. known' = known /\ known' \subseteq read'
  <2>1. known \subseteq read
    BY DEF ListsInv, NewestFits
  <2> QED
    BY <2>1, ListsRemembered
<1>2. ListTypes' /\ TokensInOrder' /\ AnswersFit'
  BY Views DEF ListsInv, ListTypes, TokensInOrder, AnswersFit, Belongs
<1>3. NewestFits'
  BY <1>1, Views DEF ListsInv, NewestFits, Unseen
<1>4. EmptySearchIsBlank' /\ NoStuckSpinner'
  BY Views, BlankIsList DEF ListsInv, EmptySearchIsBlank, NoStuckSpinner, Settled
<1>5. ShowsSelection' /\ NoStaleList'
  BY BlankIsList DEF ShowsSelection, NoStaleList, Unseen
<1> QED
  BY <1>2, <1>3, <1>4, <1>5 DEF ListsInv

\* A request leaves, and prefetches may take its place: what holds of the
\* requests under way still does.
LEMMA LoadLeaves ==
    ASSUME ListsInv, HNext, ~Reload, read' = read, subs' = subs, sel' = sel, loadToken' = loadToken,
           NEW l \in loads, NEW more \in SUBSET LoadRecord, loads' = (loads \ {l}) \cup more,
           \A m \in more : m.token = 0 /\ m.answer = Blank
    PROVE  /\ ListTypes' /\ TokensInOrder' /\ AnswersFit' /\ NewestFits'
           /\ known' = known /\ (excused => excused')
           /\ l.token # loadToken => Settled' = Settled
<1>1. known' = known /\ known' \subseteq read' /\ (excused => excused')
  <2>1. known \subseteq read
    BY DEF ListsInv, NewestFits
  <2> QED
    BY <2>1, ListsRemembered
<1>2. ListTypes'
  BY DEF ListsInv, ListTypes
<1>3. TokensInOrder' /\ loadToken > 0
  BY DEF ListsInv, ListTypes, TokensInOrder
<1>4. \A m \in loads' : DOMAIN m.answer \subseteq Belongs(m.view)
  BY BlankIsList DEF ListsInv, AnswersFit
<1>5. AnswersFit'
  BY <1>4 DEF AnswersFit, Belongs
<1>6. \A m \in loads' : m.token = loadToken => m \in loads
  BY <1>3 DEF ListsInv, ListTypes
<1>7. NewestFits'
  BY <1>1, <1>6 DEF ListsInv, NewestFits, Unseen
<1>8. l.token # loadToken => Settled' = Settled
  BY <1>3, <1>6 DEF Settled
<1> QED
  BY <1>1, <1>2, <1>3, <1>5, <1>7, <1>8

LEMMA PrefetchesAreLoads ==
    ASSUME ListsInv, NEW more \in Prefetches
    PROVE  more \subseteq LoadRecord /\ \A m \in more : m.token = 0 /\ m.answer = Blank
<1>1. Listed \subseteq Feed
  BY DEF Listed, ListsInv, ListTypes
<1>2. \A f \in Feed : LET m == Request(FeedView(f), 0, TRUE, FALSE)
                      IN  m \in LoadRecord /\ m.token = 0 /\ m.answer = Blank
  BY Views, RequestIsLoad
<1> QED
  BY <1>1, <1>2 DEF Prefetches

\* A request that is not the newest leaves, and the display stays.
LEMMA OldLoadLeaves ==
    ASSUME ListsInv, HNext, ~Reload, read' = read, subs' = subs, sel' = sel, loadToken' = loadToken,
           NEW l \in loads, NEW more \in SUBSET LoadRecord, loads' = (loads \ {l}) \cup more,
           \A m \in more : m.token = 0 /\ m.answer = Blank,
           l.token # loadToken, entries' = entries, loading' = loading
    PROVE  ListsInv'
<1>1. /\ ListTypes' /\ TokensInOrder' /\ AnswersFit' /\ NewestFits'
      /\ known' = known /\ (excused => excused') /\ Settled' = Settled
  BY LoadLeaves
<1>2. EmptySearchIsBlank' /\ NoStuckSpinner'
  BY <1>1 DEF ListsInv, EmptySearchIsBlank, NoStuckSpinner
<1>3. ShowsSelection' /\ NoStaleList'
  BY <1>1 DEF ListsInv, ShowsSelection, NoStaleList, Unseen, Belongs
<1> QED
  BY <1>1, <1>2, <1>3 DEF ListsInv

\* The page starts over with one request at most.
LEMMA ReloadKeepsLists ==
    ASSUME ListsInv, HNext, Reload
    PROVE  ListsInv'
<1> DEFINE v == IF sel.kind = "group" THEN GroupView("guess") ELSE sel
           r == Request(v, 1, v.kind # "search", FALSE)
<1>1. v \in View /\ subs' \subseteq Feed /\ read' = read
  BY Views DEF ListsInv, ListTypes, Reload, server
<1>2. known' = read /\ excused' = FALSE
  BY DEF HNext
<1>3. sel' = v /\ entries' = Blank /\ loadToken' = Cardinality(loads') /\ loading' = (loads' # {})
      /\ loads' = IF HasList(v) THEN {r} ELSE {}
  BY DEF Reload, Mount
<1>4. r \in LoadRecord /\ r.view = v /\ r.token = 1 /\ r.answer = Blank
  <2>1. (v.kind # "search") \in BOOLEAN
    OBVIOUS
  <2> QED
    BY <1>1, <2>1, BlankIsList DEF Request, LoadRecord
<1> HIDE DEF v, r
<1>5. CASE HasList(v)
  <2>1. loads' = {r} /\ loadToken' = 1
    BY <1>3, <1>5, FS_Singleton
  <2>2. ListTypes' /\ TokensInOrder'
    BY <1>1, <1>3, <1>4, <2>1 DEF ListTypes, TokensInOrder
  <2>3. AnswersFit'
    BY <1>4, <2>1, BlankIsList DEF AnswersFit
  <2>4. NewestFits'
    BY <1>1, <1>2, <1>3, <1>4, <2>1, BlankIsList DEF NewestFits, Unseen
  <2>5. ~Settled'
    BY <1>4, <2>1 DEF Settled
  <2> QED
    BY <1>3, <2>2, <2>3, <2>4, <2>5, BlankIsList
       DEF ListsInv, EmptySearchIsBlank, ShowsSelection, NoStaleList, NoStuckSpinner
<1>6. CASE ~HasList(v)
  <2>1. loads' = {} /\ loadToken' = 0 /\ loading' = FALSE
    BY <1>3, <1>6, FS_EmptySet
  <2>2. ListTypes' /\ TokensInOrder' /\ AnswersFit'
    BY <1>1, <1>3, <2>1 DEF ListTypes, TokensInOrder, AnswersFit
  <2>3. NewestFits'
    BY <1>1, <1>2, <2>1 DEF NewestFits
  <2> QED
    BY <1>3, <2>1, <2>2, <2>3, BlankIsList
       DEF ListsInv, EmptySearchIsBlank, ShowsSelection, NoStaleList, NoStuckSpinner, Unseen
<1> QED
  BY <1>5, <1>6

\* The group's target is replaced by one with the right label.
LEMMA FoldersLoadedKeepsLists ==
    ASSUME ListsInv, HNext, ~Reload, FoldersLoaded
    PROVE  ListsInv'
<1>1. /\ sel' = IF sel.kind = "group" THEN GroupView("name") ELSE sel
      /\ entries' = entries /\ loads' = loads /\ loadToken' = loadToken /\ loading' = loading
      /\ read' = read /\ subs' = subs
  BY DEF FoldersLoaded, server, pane
<1>2. sel \in View
  BY DEF ListsInv, ListTypes
<1>3. /\ sel' \in View /\ Belongs(sel') = Belongs(sel) /\ HasList(sel') = HasList(sel)
      /\ sel' # sel => HasList(sel) /\ sel # Home
  BY <1>1, <1>2, Views, GroupsAlike
<1>4. known' = known /\ (excused => excused')
  <2>1. known \subseteq read
    BY DEF ListsInv, NewestFits
  <2> QED
    BY <1>1, <2>1, ListsRemembered
<1>5. ListTypes' /\ TokensInOrder' /\ AnswersFit'
  BY <1>1, <1>3 DEF ListsInv, ListTypes, TokensInOrder, AnswersFit, Belongs
<1>6. NewestFits'
  <2>1. sel' # sel => excused' \/ ~\E l \in loads : l.token = loadToken /\ l.view = sel
    BY <1>1 DEF HNext, NewestDisowned
  <2>2. ASSUME NEW l \in loads, l.token = loadToken
        PROVE  l.view = sel' \/ ~HasList(sel') \/ excused'
    BY <1>3, <1>4, <2>1, <2>2 DEF ListsInv, NewestFits
  <2>3. \A l \in loads : l.token = loadToken => known \cap Unseen(l.answer) = {}
    BY DEF ListsInv, NewestFits
  <2>4. known \subseteq read
    BY DEF ListsInv, NewestFits
  <2> QED
    BY <1>1, <1>4, <2>2, <2>3, <2>4 DEF NewestFits, Unseen
<1>7. EmptySearchIsBlank' /\ NoStuckSpinner'
  BY <1>1, <1>3, Views DEF ListsInv, EmptySearchIsBlank, NoStuckSpinner, Settled
<1>8. ShowsSelection' /\ NoStaleList'
  <2> SUFFICES ASSUME Settled', ~excused', sel' # Home
               PROVE  DOMAIN entries \subseteq Belongs(sel') /\ known \cap Unseen(entries) = {}
    BY <1>1, <1>4 DEF ShowsSelection, NoStaleList, Unseen, Belongs
  <2>1. Settled /\ ~excused /\ sel # Home
    BY <1>1, <1>3, <1>4 DEF Settled
  <2> QED
    BY <1>3, <2>1 DEF ListsInv, ShowsSelection, NoStaleList
<1> QED
  BY <1>5, <1>6, <1>7, <1>8 DEF ListsInv

\* The server's answer to a request is on its way back.
LEMMA RepliesKeepsLists ==
    ASSUME ListsInv, HNext, ~Reload, NEW l \in loads, Replies(l)
    PROVE  ListsInv'
<1> DEFINE m == [l EXCEPT !.sent = FALSE, !.answer = Answer(l)]
<1>1. /\ loads' = (loads \ {l}) \cup {m}
      /\ sel' = sel /\ entries' = entries /\ loadToken' = loadToken /\ loading' = loading
      /\ read' = read /\ subs' = subs
  BY DEF Replies, server
<1>2. l \in LoadRecord
  BY DEF ListsInv, ListTypes
<1>3. m \in LoadRecord /\ m.view = l.view /\ m.token = l.token /\ m.answer = Answer(l)
  BY <1>2, AnswerFits DEF LoadRecord
<1>4. known' = known /\ (excused => excused') /\ known \subseteq read
  <2>1. known \subseteq read
    BY DEF ListsInv, NewestFits
  <2> QED
    BY <1>1, <2>1, ListsRemembered
<1>5. ListTypes' /\ TokensInOrder' /\ Settled' = Settled
  BY <1>1, <1>3 DEF ListsInv, ListTypes, TokensInOrder, Settled
<1>6. AnswersFit'
  <2>1. \A n \in loads' : DOMAIN n.answer \subseteq Belongs(n.view)
    BY <1>1, <1>3, AnswerFits DEF ListsInv, AnswersFit
  <2> QED
    BY <2>1 DEF AnswersFit, Belongs
<1>7. NewestFits'
  <2>1. known \cap Unseen(Answer(l)) = {}
    BY <1>4, AnswerFits
  <2>2. ASSUME NEW n \in loads', n.token = loadToken
        PROVE  known \cap Unseen(n.answer) = {} /\ (n.view = sel \/ ~HasList(sel) \/ excused)
    BY <1>1, <1>3, <2>1, <2>2 DEF ListsInv, NewestFits
  <2> QED
    BY <1>1, <1>4, <2>2 DEF NewestFits, Unseen
<1>8. EmptySearchIsBlank' /\ NoStuckSpinner'
  BY <1>1, <1>5 DEF ListsInv, EmptySearchIsBlank, NoStuckSpinner
<1>9. ShowsSelection' /\ NoStaleList'
  BY <1>1, <1>4, <1>5 DEF ListsInv, ShowsSelection, NoStaleList, Unseen, Belongs
<1> QED
  BY <1>5, <1>6, <1>7, <1>8, <1>9 DEF ListsInv

LEMMA PrefetchDoneKeepsLists ==
    ASSUME ListsInv, HNext, ~Reload, NEW l \in loads, PrefetchDone(l)
    PROVE  ListsInv'
<1>1. l.token # loadToken
  BY DEF ListsInv, ListTypes, TokensInOrder, PrefetchDone
<1>2. /\ loads' = (loads \ {l}) \cup {}
      /\ sel' = sel /\ entries' = entries /\ loadToken' = loadToken /\ loading' = loading
      /\ read' = read /\ subs' = subs
  BY DEF PrefetchDone, server
<1>3. {} \in SUBSET LoadRecord /\ \A m \in {} : m.token = 0 /\ m.answer = Blank
  OBVIOUS
<1> QED
  BY <1>1, <1>2, <1>3, OldLoadLeaves

LEMMA LoadFailsKeepsLists ==
    ASSUME ListsInv, HNext, ~Reload, NEW l \in loads, LoadFails(l)
    PROVE  ListsInv'
<1>1. /\ loads' = (loads \ {l}) \cup {}
      /\ sel' = sel /\ entries' = entries /\ loadToken' = loadToken
      /\ read' = read /\ subs' = subs /\ loading' = LoadingAfter(l)
  BY DEF LoadFails, server
<1>0. {} \in SUBSET LoadRecord /\ \A m \in {} : m.token = 0 /\ m.answer = Blank
  OBVIOUS
<1>2. CASE l.token # loadToken
  <2>1. loading' = loading
    BY <1>1, <1>2 DEF LoadingAfter
  <2> QED
    BY <1>0, <1>1, <1>2, <2>1, OldLoadLeaves
<1>3. CASE l.token = loadToken
  <2>1. excused' /\ ~loading'
    BY <1>1, <1>3 DEF HNext, NewestFails, LoadingAfter
  <2>2. ListTypes' /\ TokensInOrder' /\ AnswersFit' /\ NewestFits'
    BY <1>0, <1>1, LoadLeaves
  <2>3. EmptySearchIsBlank'
    BY <1>1 DEF ListsInv, EmptySearchIsBlank
  <2> QED
    BY <2>1, <2>2, <2>3 DEF ListsInv, ShowsSelection, NoStaleList, NoStuckSpinner
<1> QED
  BY <1>2, <1>3

LEMMA LoadDoneKeepsLists ==
    ASSUME ListsInv, HNext, ~Reload, NEW l \in loads, LoadDone(l)
    PROVE  ListsInv'
<1>1. sel' = sel /\ loadToken' = loadToken /\ read' = read /\ subs' = subs
  BY DEF LoadDone, server
<1>2. l \in LoadRecord
  BY DEF ListsInv, ListTypes
<1>3. CASE Current(l) /\ l.view.kind = "feed" /\ l.unread /\ l.answer = Blank
  <2> DEFINE r == Request(l.view, l.token, FALSE, l.prefetch)
  <2>1. loads' = (loads \ {l}) \cup {r} /\ entries' = entries /\ loading' = loading
    BY <1>3 DEF LoadDone
  <2>2. r \in LoadRecord /\ r.view = l.view /\ r.token = l.token /\ r.answer = Blank
    BY <1>2, BlankIsList DEF Request, LoadRecord
  <2>3. l.token = loadToken /\ l.view = sel
    BY <1>3 DEF Current
  <2>4. known' = known /\ (excused => excused') /\ known \subseteq read
    <3>1. known \subseteq read
      BY DEF ListsInv, NewestFits
    <3> QED
      BY <1>1, <3>1, ListsRemembered
  <2>5. ListTypes' /\ TokensInOrder'
    BY <1>1, <2>1, <2>2 DEF ListsInv, ListTypes, TokensInOrder
  <2>6. AnswersFit'
    <3>1. \A n \in loads' : DOMAIN n.answer \subseteq Belongs(n.view)
      BY <2>1, <2>2, BlankIsList DEF ListsInv, AnswersFit
    <3> QED
      BY <3>1 DEF AnswersFit, Belongs
  <2>7. NewestFits'
    BY <1>1, <2>1, <2>2, <2>3, <2>4, BlankIsList DEF ListsInv, NewestFits, Unseen
  <2>8. ~Settled'
    BY <1>1, <2>1, <2>2, <2>3 DEF Settled
  <2>9. EmptySearchIsBlank'
    BY <1>1, <2>1 DEF ListsInv, EmptySearchIsBlank
  <2> QED
    BY <2>5, <2>6, <2>7, <2>8, <2>9 DEF ListsInv, ShowsSelection, NoStaleList, NoStuckSpinner
<1>4. CASE ~(Current(l) /\ l.view.kind = "feed" /\ l.unread /\ l.answer = Blank)
  <2>1. PICK more \in SUBSET LoadRecord :
            /\ loads' = (loads \ {l}) \cup more
            /\ \A m \in more : m.token = 0 /\ m.answer = Blank
    <3>1. PICK more \in IF l.prefetch THEN Prefetches ELSE {{}} : loads' = (loads \ {l}) \cup more
      BY <1>4 DEF LoadDone
    <3>2. more \subseteq LoadRecord /\ \A m \in more : m.token = 0 /\ m.answer = Blank
      BY <3>1, PrefetchesAreLoads
    <3> QED
      BY <3>1, <3>2
  <2>2. /\ entries' = IF Current(l) THEN WithPendingReadsApplied(l.answer, {}) ELSE entries
        /\ loading' = LoadingAfter(l)
    BY <1>4 DEF LoadDone
  <2>3. CASE l.token # loadToken
    <3>1. entries' = entries /\ loading' = loading
      BY <2>2, <2>3 DEF Current, LoadingAfter
    <3> QED
      BY <1>1, <2>1, <2>3, <3>1, OldLoadLeaves
  <2>4. CASE l.token = loadToken
    <3>1. /\ ListTypes' /\ TokensInOrder' /\ AnswersFit' /\ NewestFits'
          /\ known' = known /\ (excused => excused')
      BY <1>1, <2>1, LoadLeaves
    <3>2. ~loading'
      BY <2>2, <2>4 DEF LoadingAfter
    <3>3. CASE Current(l)
      <4>1. entries' = WithPendingReadsApplied(l.answer, {}) /\ l.view = sel
        BY <2>2, <3>3 DEF Current
      <4>2. DOMAIN entries' = DOMAIN l.answer /\ Unseen(entries') \subseteq Unseen(l.answer)
        BY <4>1 DEF WithPendingReadsApplied, Unseen
      <4>3. DOMAIN entries' \subseteq Belongs(sel) /\ known \cap Unseen(entries') = {}
        BY <2>4, <4>1, <4>2 DEF ListsInv, AnswersFit, NewestFits
      <4>4. ShowsSelection' /\ NoStaleList'
        BY <1>1, <3>1, <4>3 DEF ShowsSelection, NoStaleList, Belongs, Unseen
      <4>5. EmptySearchIsBlank'
        <5>1. Belongs(SearchView(NoQuery)) = {}
          BY DEF Belongs, SearchView
        <5> QED
          BY <1>1, <4>3, <5>1 DEF EmptySearchIsBlank
      <4> QED
        BY <3>1, <3>2, <4>4, <4>5 DEF ListsInv, NoStuckSpinner
    <3>4. CASE ~Current(l)
      <4>1. entries' = entries /\ l.view # sel
        BY <2>2, <2>4, <3>4 DEF Current
      <4>2. ~HasList(sel) \/ excused
        BY <2>4, <4>1 DEF ListsInv, NewestFits
      <4>3. sel = Home \/ sel = SearchView(NoQuery) \/ excused
        BY <4>2, Views DEF ListsInv, ListTypes
      <4>4. EmptySearchIsBlank'
        BY <1>1, <4>1 DEF ListsInv, EmptySearchIsBlank
      <4>5. sel = SearchView(NoQuery) => DOMAIN entries = {}
        BY DEF ListsInv, EmptySearchIsBlank
      <4>6. ShowsSelection' /\ NoStaleList'
        BY <1>1, <3>1, <4>1, <4>3, <4>5 DEF ShowsSelection, NoStaleList, Unseen
      <4> QED
        BY <3>1, <3>2, <4>4, <4>6 DEF ListsInv, NoStuckSpinner
    <3> QED
      BY <3>3, <3>4
  <2> QED
    BY <2>3, <2>4
<1> QED
  BY <1>3, <1>4

\* Marks and clearings of the display only take away from it.
LEMMA DisplayShrinks ==
    /\ \A es : DOMAIN Marked(es) \subseteq DOMAIN entries /\ Unseen(Marked(es)) \subseteq Unseen(entries)
    /\ DOMAIN Blank \subseteq DOMAIN entries /\ Unseen(Blank) \subseteq Unseen(entries)
BY BlankIsList DEF Marked, Unseen

\* One step per kind of action.
LEMMA ListsStep == ListsInv /\ [HNext]_hvars => ListsInv'
<1> SUFFICES ASSUME ListsInv, [HNext]_hvars PROVE ListsInv'
  OBVIOUS
<1>1. CASE UNCHANGED hvars
  BY <1>1 DEF ListsInv, ListTypes, TokensInOrder, AnswersFit, NewestFits, EmptySearchIsBlank, Belongs,
              Unseen, ShowsSelection, NoStaleList, NoStuckSpinner, Settled, hvars, vars, server, pane
<1>2. CASE HNext /\ Reload
  BY <1>2, ReloadKeepsLists
<1>3. CASE HNext /\ ~Reload
  <2>0. Steps /\ subs \subseteq Feed /\ sel \in View
    BY <1>3 DEF HNext, Next, ListsInv, ListTypes
  <2>1. ASSUME NEW e \in Entry, MoveFocus(e) PROVE ListsInv'
    <3>1. /\ entries' = Marked({e}) /\ sel' = sel /\ loads' = loads /\ loadToken' = loadToken
          /\ loading' = loading /\ read' = read /\ subs' = subs
      BY <2>1 DEF MoveFocus, server
    <3> QED
      BY <1>3, <2>0, <3>1, DisplayKept, DisplayShrinks
  <2>2. ASSUME \/ Timer \/ Hide \/ MarkAllRead
               \/ \E p \in Post : PostArrives(p) \/ PostAnswered(p) \/ PostFails(p) \/ BeaconLost(p)
               \/ \E f \in Feed : RefreshFeed(f) \/ UnsubscribeFeed(f) \/ MarkFeedReadAll(f)
               \/ \E c \in calls : CallFails(c)
        PROVE  ListsInv'
    <3>1. UNCHANGED <<sel, pane, subs>> /\ read \subseteq read'
      BY <2>2 DEF Timer, Hide, MarkAllRead, PostArrives, PostAnswered, PostFails, BeaconLost,
                  RefreshFeed, UnsubscribeFeed, MarkFeedReadAll, CallFails, server
    <3> QED
      BY <1>3, <2>0, <3>1, DisplayKept DEF pane
  <2>3. CASE FoldersLoaded
    BY <1>3, <2>3, FoldersLoadedKeepsLists
  <2>4. ASSUME NEW seen \in SUBSET Entry, NEW f \in Feed, SelectFeed(f, seen) PROVE ListsInv'
    <3>1. sel' = FeedView(f) /\ Load(sel', seen, TRUE) /\ read' = read /\ subs' = subs
      BY <2>4 DEF SelectFeed, server
    <3> QED
      BY <1>3, <2>0, <3>1, Views, LoadKeepsLists
  <2>5. ASSUME NEW seen \in SUBSET Entry, NEW q \in Query, RunSearch(q, seen) PROVE ListsInv'
    <3>1. sel' = SearchView(q) /\ Load(sel', seen, FALSE) /\ read' = read /\ subs' = subs
      BY <2>5 DEF RunSearch, server
    <3> QED
      BY <1>3, <2>0, <3>1, Views, LoadKeepsLists
  <2>6. ASSUME NEW seen \in SUBSET Entry, SelectGroup(seen) PROVE ListsInv'
    <3>1. sel' = GroupView("name") /\ Load(sel', seen, FALSE) /\ read' = read /\ subs' = subs
      BY <2>6 DEF SelectGroup, server
    <3> QED
      BY <1>3, <2>0, <3>1, Views, LoadKeepsLists
  <2>7. ASSUME NEW seen \in SUBSET Entry, OpenSearch(seen) \/ OpenFeedManager(seen) PROVE ListsInv'
    <3>1. /\ sel' \in {Home, SearchView(NoQuery)} /\ (sel' # Home => entries' = Blank)
          /\ loads' = loads /\ loadToken' = loadToken /\ loading' = loading
          /\ read' = read /\ subs' = subs
      BY <2>7 DEF OpenSearch, OpenFeedManager, server
    <3> QED
      BY <1>3, <2>0, <3>1, ListLeft
  <2>8. ASSUME NEW view \in Routes, PopState(view) PROVE ListsInv'
    <3>1. sel' = view /\ LoadDataForRoute(view) /\ read' = read /\ subs' = subs
      BY <2>8 DEF PopState, server
    <3>2. view \in View
      BY <2>0, Views DEF Routes, GuessedLabel, View
    <3>3. CASE HasList(view)
      <4>1. Load(sel', {}, FALSE)
        BY <3>1, <3>3 DEF LoadDataForRoute
      <4> QED
        BY <1>3, <2>0, <3>1, <3>2, <3>3, <4>1, LoadKeepsLists
    <3>4. CASE ~HasList(view)
      <4>1. sel' \in {Home, SearchView(NoQuery)}
        BY <3>1, <3>2, <3>4, Views
      <4>2. loads' = loads /\ loadToken' = loadToken /\ loading' = loading
        BY <3>1, <3>4 DEF LoadDataForRoute
      <4>3. sel' # Home => entries' = Blank
        BY <3>1, <3>4, <4>1 DEF LoadDataForRoute, SearchView
      <4> QED
        BY <1>3, <2>0, <3>1, <4>1, <4>2, <4>3, ListLeft
    <3> QED
      BY <3>3, <3>4
  <2>9. ASSUME NEW l \in loads, Replies(l) \/ LoadDone(l) \/ PrefetchDone(l) \/ LoadFails(l)
        PROVE  ListsInv'
    BY <1>3, <2>9, RepliesKeepsLists, LoadDoneKeepsLists, PrefetchDoneKeepsLists, LoadFailsKeepsLists
  <2>10. ASSUME NEW c \in calls, CallDone(c) PROVE ListsInv'
    <3>1. CASE c.kind = "refresh"
      <4>1. sel' = sel /\ read' = read /\ subs' = subs
            /\ IF sel = FeedView(c.feed) THEN Load(sel, {}, FALSE) ELSE UNCHANGED pane
        BY <2>10, <3>1 DEF CallDone, server
      <4>2. CASE sel = FeedView(c.feed)
        <5>1. HasList(sel)
          BY <4>2, Views
        <5>2. Load(sel', {}, FALSE)
          BY <4>1, <4>2 DEF Load
        <5> QED
          BY <1>3, <2>0, <4>1, <5>1, <5>2, LoadKeepsLists
      <4>3. CASE sel # FeedView(c.feed)
        BY <1>3, <2>0, <4>1, <4>3, DisplayKept DEF pane
      <4> QED
        BY <4>2, <4>3
    <3>2. CASE c.kind = "unsubscribe"
      <4>1. /\ subs' \subseteq Feed /\ read' = read
            /\ sel' = Home \/ (sel' = sel /\ entries' \in {Blank, entries})
            /\ loads' = loads /\ loadToken' = loadToken /\ loading' = loading
        BY <2>0, <2>10, <3>2 DEF CallDone
      <4>2. CASE sel' = Home
        BY <1>3, <4>1, <4>2, ListLeft
      <4>3. CASE sel' = sel /\ entries' \in {Blank, entries}
        BY <1>3, <4>1, <4>3, DisplayKept, DisplayShrinks
      <4> QED
        BY <4>1, <4>2, <4>3
    <3>3. CASE c.kind \in {"readAll", "allRead"}
      <4>1. /\ subs' = subs /\ read \subseteq read' /\ sel' = sel /\ entries' \in {Blank, entries}
            /\ loads' = loads /\ loadToken' = loadToken /\ loading' = loading
        BY <2>10, <3>3 DEF CallDone
      <4> QED
        BY <1>3, <2>0, <4>1, DisplayKept, DisplayShrinks
    <3> QED
      BY <2>10, <3>1, <3>2, <3>3 DEF CallDone
  <2> QED
    BY <1>3, <2>0, <2>1, <2>2, <2>3, <2>4, <2>5, <2>6, <2>7, <2>8, <2>9, <2>10 DEF Steps
<1> QED
  BY <1>1, <1>2, <1>3

LEMMA ListsInvariant == HSpec => []ListsInv
<1>1. HInit => ListsInv
  BY Views DEF HInit, Init, ListsInv, ListTypes, TokensInOrder, AnswersFit, NewestFits,
               EmptySearchIsBlank, ShowsSelection, NoStaleList, NoStuckSpinner
<1> QED
  BY <1>1, ListsStep, PTL DEF HSpec

\* However many answers are under way and in whichever order they arrive, the
\* list on display is one of the selection once the newest request has ended.
THEOREM SelectionIsShown == HSpec => []ShowsSelection
<1>1. ListsInv => ShowsSelection
  BY DEF ListsInv
<1> QED
  BY <1>1, ListsInvariant, PTL

\* And it is not older than the request for it: nothing is shown as unread that
\* the server knew as read by then.
THEOREM NoOldListIsShown == HSpec => []NoStaleList
<1>1. ListsInv => NoStaleList
  BY DEF ListsInv
<1> QED
  BY <1>1, ListsInvariant, PTL

\* The spinner turns only while the newest request is under way.
THEOREM SpinnerStops == HSpec => []NoStuckSpinner
<1>1. ListsInv => NoStuckSpinner
  BY DEF ListsInv
<1> QED
  BY <1>1, ListsInvariant, PTL
====
