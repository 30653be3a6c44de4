---------------------------- MODULE CrawlProofs ----------------------------
(***************************************************************************)
(* For any feeds, requests, commands, intervals and Retry-After values: no *)
(* feed is put off beyond the greatest interval, none that was just        *)
(* created is collected, error counts are exact however crawls overlap,    *)
(* scheduled crawls of a feed keep their distance, and a due feed is not   *)
(* kept waiting while the server runs.                                     *)
(***************************************************************************)
EXTENDS CrawlHistory, FiniteSetTheorems, TLAPS

----------------------------------------------------------------------------
(* Intervals.                                                              *)

LEMMA Intervals ==
    /\ LeastInterval \in Nat \ {0} /\ Horizon \in Nat /\ TickInterval \in Nat \ {0}
    /\ \A i \in {MinInterval, MaxInterval, MaxErrInterval, DefaultInterval, ScrapeInterval} :
          i \in Nat \ {0} /\ LeastInterval =< i /\ i =< Horizon
BY ScheduleAssumption DEF LeastInterval, Horizon, Smaller, Larger

LEMMA PowersOfTwo == \A k \in 0..8 : 2 ^ k \in Nat
<1> SUFFICES ASSUME NEW k \in 0..8 PROVE 2 ^ k \in Nat
  OBVIOUS
<1>1. {2 ^ 0, 2 ^ 1, 2 ^ 2, 2 ^ 3, 2 ^ 4, 2 ^ 5, 2 ^ 6, 2 ^ 7, 2 ^ 8} \subseteq Nat
  OBVIOUS
<1>2. k \in {0, 1, 2, 3, 4, 5, 6, 7, 8}
  OBVIOUS
<1> QED
  BY <1>1, <1>2, Zenon

\* A success leaves the interval within [least, greatest], whichever of the
\* bounds it is clamped to is the smaller one.
LEMMA SuccessInterval ==
    ASSUME NEW current \in Nat, NEW new \in BOOLEAN
    PROVE  NextIntervalOnSuccess(current, new) \in LeastInterval..Horizon
<1>1. OrMin(current) \in Nat
  BY ScheduleAssumption DEF OrMin
<1>2. (OrMin(current) * (IF new THEN 7 ELSE 13)) \div 10 \in Int
  BY <1>1
<1> QED
  BY <1>2, Intervals DEF NextIntervalOnSuccess, ClampDuration, Smaller

\* So does a failure, or it leaves the interval at a Retry-After.
LEMMA ErrorInterval ==
    ASSUME NEW current \in Nat, NEW errors \in Nat, NEW after \in RetryAfters \cup {0}
    PROVE  LET i == NextIntervalOnError(current, errors, after)
           IN  i \in Nat /\ i =< Horizon /\ (i >= LeastInterval \/ i \in RetryAfters)
<1>1. CASE after = 0
  <2>1. OrMin(current) \in Nat /\ Smaller(errors, 8) \in 0..8
    BY ScheduleAssumption DEF OrMin, Smaller
  <2>2. 2 ^ Smaller(errors, 8) \in Nat
    BY <2>1, PowersOfTwo
  <2>3. OrMin(current) * 2 ^ Smaller(errors, 8) \in Int
    BY <2>1, <2>2
  <2>4. NextIntervalOnError(current, errors, after)
            = ClampDuration(OrMin(current) * 2 ^ Smaller(errors, 8), MinInterval, MaxErrInterval)
    BY <1>1 DEF NextIntervalOnError
  <2> QED
    BY <2>3, <2>4, Intervals DEF ClampDuration, Smaller
<1>2. CASE after # 0
  <2>1. after \in RetryAfters /\ after \in Nat /\ after > 0
    BY <1>2, ScheduleAssumption
  <2>2. NextIntervalOnError(current, errors, after) = Smaller(after, MaxErrInterval)
    BY <2>1 DEF NextIntervalOnError, ClampDuration
  <2> QED
    BY <2>1, <2>2, Intervals DEF Smaller
<1> QED
  BY <1>1, <1>2

----------------------------------------------------------------------------
(* The table and what is in flight.                                        *)

\* A feed that a client in flight has created has been active recently: its
\* idle time is what the request has taken, or what a crawl that has been
\* booked since took, and grows with the client's age from there.
FreshFeedsActive ==
    \A r \in Client : crawls[r].stage = "upserted" /\ crawls[r].created =>
        /\ crawls[r].feed \in DOMAIN row
        /\ row[crawls[r].feed].idle =< crawls[r].age + CrawlTime

\* The inductive invariant.
CrawlInv == TypeOK /\ SchedulingHorizon /\ FreshFeedsActive

\* What may be stored as an interval.
GoodInterval(i) == i \in Nat /\ i =< Horizon /\ (i >= LeastInterval \/ i \in RetryAfters)

ClockOK == serving \in BOOLEAN /\ fired \in BOOLEAN /\ timer \in 1..TickInterval

\* The ticker of a server that starts or stops.
LEMMA TickerWound ==
    ASSUME serving' \in BOOLEAN, fired' = FALSE, timer' = TickInterval
    PROVE  ClockOK'
<1>1. timer' \in 1..TickInterval
  BY Intervals
<1>2. fired' \in BOOLEAN
  BY Zenon
<1> QED
  BY <1>1, <1>2 DEF ClockOK

LEMMA Kinds ==
    /\ Idle \notin Crawl /\ Idle \notin Waiting /\ Idle.stage = "idle"
    /\ \A c \in Crawl : c.stage \in {"fetching", "written"}
    /\ \A c \in Waiting : c.stage \in {"upserted", "ready"}
BY DEF Idle, Crawl, Waiting

LEMMA StartedIsCrawl ==
    ASSUME NEW f \in Feed, NEW columns \in Row
    PROVE  StartedCrawl(f, columns) \in Crawl
BY ScheduleAssumption DEF StartedCrawl, Crawl, Row

\* A step that leaves the table alone, and no client's creation behind.
LEMMA TableKept ==
    ASSUME CrawlInv, row' = row, subscribed' \subseteq DOMAIN row, ClockOK',
           crawls' \in [Slot -> {Idle} \cup Crawl \cup Waiting],
           \A r \in Client : crawls'[r].stage = "upserted" /\ crawls'[r].created => crawls'[r] = crawls[r]
    PROVE  CrawlInv'
<1>1. TypeOK'
  BY DEF CrawlInv, TypeOK, ClockOK
<1>2. SchedulingHorizon'
  BY DEF CrawlInv, SchedulingHorizon
<1>3. FreshFeedsActive'
  BY DEF CrawlInv, FreshFeedsActive
<1> QED
  BY <1>1, <1>2, <1>3 DEF CrawlInv

\* A slot becomes idle.
LEMMA SlotEnds ==
    ASSUME CrawlInv, NEW s \in Slot, crawls' = [crawls EXCEPT ![s] = Idle]
    PROVE  /\ crawls' \in [Slot -> {Idle} \cup Crawl \cup Waiting]
           /\ \A t \in Slot : crawls'[t].stage \in {"upserted", "fetching", "written", "ready"}
                  => crawls'[t] = crawls[t]
BY Kinds DEF CrawlInv, TypeOK

\* What UpdateFeedAfterFetch writes.
LEMMA FetchedKeeps ==
    ASSUME CrawlInv, NEW s \in Slot, crawls[s].stage \in {"fetching", "written"},
           NEW interval, GoodInterval(interval), NEW errors \in Nat,
           row' = Fetched(crawls[s], interval, errors), Ends(s)
    PROVE  CrawlInv'
<1>1. crawls[s] \in Crawl /\ crawls[s].age \in 0..CrawlTime
  BY Kinds DEF CrawlInv, TypeOK, Crawl
<1>2. DOMAIN row' = DOMAIN row /\ \A f \in DOMAIN row : f # crawls[s].feed => row'[f] = row[f]
  BY DEF Fetched
<1>3. \A f \in DOMAIN row : f = crawls[s].feed =>
          /\ row'[f] \in Row /\ row'[f].interval = interval /\ row'[f].due = interval - crawls[s].age
          /\ row'[f].idle =< crawls[s].age
  BY <1>1, ScheduleAssumption DEF Fetched, Row, GoodInterval, Smaller
<1>4. /\ subscribed' = subscribed /\ serving' = serving /\ timer' = timer /\ fired' = fired
      /\ crawls' = [crawls EXCEPT ![s] = Idle]
  BY DEF Ends
<1>5. TypeOK'
  <2>1. row' = [f \in DOMAIN row |-> row'[f]]
    BY DEF Fetched
  <2>2. \A f \in DOMAIN row : row'[f] \in Row
    BY <1>2, <1>3 DEF CrawlInv, TypeOK
  <2>3. row' \in [DOMAIN row -> Row]
    BY <2>1, <2>2
  <2> QED
    BY <1>2, <1>4, <2>3, SlotEnds DEF CrawlInv, TypeOK
<1>6. SchedulingHorizon'
  <2> SUFFICES ASSUME NEW f \in DOMAIN row
               PROVE  /\ row'[f].due =< Horizon
                      /\ row'[f].interval =< Horizon
                      /\ row'[f].interval >= LeastInterval \/ row'[f].interval \in RetryAfters
    BY <1>2 DEF SchedulingHorizon
  <2>1. CASE f = crawls[s].feed
    BY <1>1, <1>3, <2>1, ScheduleAssumption, Intervals DEF GoodInterval
  <2>2. CASE f # crawls[s].feed
    BY <1>2, <2>2 DEF CrawlInv, SchedulingHorizon
  <2> QED
    BY <2>1, <2>2
<1>7. FreshFeedsActive'
  <2> SUFFICES ASSUME NEW r \in Client, crawls'[r].stage = "upserted", crawls'[r].created
               PROVE  /\ crawls'[r].feed \in DOMAIN row'
                      /\ row'[crawls'[r].feed].idle =< crawls'[r].age + CrawlTime
    BY DEF FreshFeedsActive
  <2>1. crawls'[r] = crawls[r]
    BY <1>4, SlotEnds DEF Slot
  <2>2. crawls[r] \in Waiting
    BY <2>1, Kinds DEF CrawlInv, TypeOK, Slot
  <2>3. crawls[r].age \in Nat /\ crawls[r].feed \in DOMAIN row
        /\ row[crawls[r].feed].idle =< crawls[r].age + CrawlTime
    BY <2>1, <2>2, ScheduleAssumption DEF CrawlInv, FreshFeedsActive, Waiting
  <2>4. CASE crawls[r].feed = crawls[s].feed
    <3>1. row'[crawls[r].feed].idle \in Nat /\ row'[crawls[r].feed].idle =< crawls[s].age
      BY <1>3, <2>3, <2>4 DEF Row
    <3> QED
      BY <1>1, <1>2, <2>1, <2>3, <3>1, ScheduleAssumption
  <2>5. CASE crawls[r].feed # crawls[s].feed
    BY <1>2, <2>1, <2>3, <2>5
  <2> QED
    BY <2>4, <2>5
<1> QED
  BY <1>5, <1>6, <1>7 DEF CrawlInv

\* What a crawl in flight holds, and the interval it would store.
LEMMA CrawlInFlight ==
    ASSUME CrawlInv, NEW s \in Slot, crawls[s].stage \in {"fetching", "written"}
    PROVE  /\ crawls[s] \in Crawl /\ crawls[s].new \in BOOLEAN
           /\ \A after \in RetryAfters \cup {0} :
                 GoodInterval(NextIntervalOnError(crawls[s].interval, crawls[s].errors + 1, after))
           /\ \A new \in BOOLEAN : GoodInterval(NextIntervalOnSuccess(crawls[s].interval, new))
           /\ ErrorCount(crawls[s]) \in Nat
<1>1. crawls[s] \in Crawl
  BY Kinds DEF CrawlInv, TypeOK
<1>2. crawls[s].interval \in Nat /\ crawls[s].errors + 1 \in Nat /\ crawls[s].new \in BOOLEAN
  BY <1>1 DEF Crawl
<1>3. \A after \in RetryAfters \cup {0} :
          GoodInterval(NextIntervalOnError(crawls[s].interval, crawls[s].errors + 1, after))
  BY <1>2, ErrorInterval DEF GoodInterval
<1>4. \A new \in BOOLEAN : GoodInterval(NextIntervalOnSuccess(crawls[s].interval, new))
  <2> SUFFICES ASSUME NEW new \in BOOLEAN
               PROVE  GoodInterval(NextIntervalOnSuccess(crawls[s].interval, new))
    OBVIOUS
  <2>1. NextIntervalOnSuccess(crawls[s].interval, new) \in LeastInterval..Horizon
    BY <1>2, SuccessInterval
  <2> QED
    BY <2>1, Intervals DEF GoodInterval
<1>5. ErrorCount(crawls[s]) \in Nat
  BY DEF ErrorCount, CrawlInv, TypeOK, Row
<1> QED
  BY <1>1, <1>2, <1>3, <1>4, <1>5

LEMMA CrawlStepKeeps ==
    ASSUME CrawlInv, NEW s \in Slot, CrawlStep(s)
    PROVE  CrawlInv'
<1>1. ASSUME NEW after \in RetryAfters \cup {0}, crawls[s].stage = "fetching", Booked(s, after)
      PROVE  CrawlInv'
  <2>1. Smaller(ErrorCount(crawls[s]) + 1, StopCount) \in Nat
    BY <1>1, CrawlInFlight, ScheduleAssumption DEF Smaller
  <2> QED
    BY <1>1, <2>1, CrawlInFlight, FetchedKeeps DEF Booked
<1>2. CASE Gone(s)
  <2>1. StopCount \in Nat /\ 0 \in RetryAfters \cup {0}
    BY ScheduleAssumption
  <2> QED
    BY <1>2, <2>1, CrawlInFlight, FetchedKeeps DEF Gone
<1>3. CASE NotModified(s)
  BY <1>3, CrawlInFlight, FetchedKeeps DEF NotModified
<1>4. ASSUME NEW new \in BOOLEAN, UpsertEntries(s, new) PROVE CrawlInv'
  <2>1. crawls[s] \in Crawl
    BY <1>4, CrawlInFlight DEF UpsertEntries
  <2>2. crawls' = [crawls EXCEPT ![s] = [crawls[s] EXCEPT !.stage = "written", !.new = new]]
    BY <1>4 DEF UpsertEntries, CrawlInv, TypeOK
  <2>3. [crawls[s] EXCEPT !.stage = "written", !.new = new] \in Crawl
    BY <2>1 DEF Crawl
  <2>4. crawls' \in [Slot -> {Idle} \cup Crawl \cup Waiting] /\ crawls'[s] \in Crawl
        /\ \A t \in Slot \ {s} : crawls'[t] = crawls[t]
    BY <2>2, <2>3 DEF CrawlInv, TypeOK
  <2>5. \A r \in Client : crawls'[r].stage = "upserted" => crawls'[r] = crawls[r]
    BY <2>4, Kinds DEF Slot
  <2>6. row' = row /\ subscribed' \subseteq DOMAIN row /\ ClockOK'
    BY <1>4 DEF UpsertEntries, CrawlInv, TypeOK, ClockOK
  <2> QED
    BY <2>4, <2>5, <2>6, TableKept
<1>5. CASE RecordSuccess(s)
  BY <1>5, CrawlInFlight, FetchedKeeps DEF RecordSuccess
<1>6. CASE InternalError(s)
  <2>1. row' = row /\ subscribed' \subseteq DOMAIN row /\ ClockOK'
        /\ crawls' = [crawls EXCEPT ![s] = Idle]
    BY <1>6 DEF InternalError, Ends, CrawlInv, TypeOK, ClockOK
  <2> QED
    BY <2>1, SlotEnds, TableKept DEF Slot
<1> QED
  BY <1>1, <1>2, <1>3, <1>4, <1>5, <1>6 DEF CrawlStep, Fail, ExtractionFails

\* What a claim writes, whoever makes it.
LEMMA RowsClaimed ==
    ASSUME CrawlInv, NEW batch \in SUBSET Due, row' = ClaimedRows(batch)
    PROVE  /\ DOMAIN row' = DOMAIN row /\ row' \in [DOMAIN row -> Row]
           /\ \A f \in DOMAIN row :
                 /\ row'[f].interval = row[f].interval /\ row'[f].idle = row[f].idle
                 /\ row'[f].errors = row[f].errors
                 /\ row'[f].due = IF f \in batch THEN row[f].interval ELSE row[f].due
           /\ \A f \in batch : f \in DOMAIN row /\ row[f].due =< 0 /\ GoodInterval(row[f].interval)
           /\ SchedulingHorizon'
<1>1. batch \subseteq DOMAIN row /\ \A f \in batch : row[f].due =< 0
  BY DEF Due
<1>2. /\ DOMAIN row' = DOMAIN row /\ row' = [f \in DOMAIN row |-> row'[f]]
      /\ \A f \in DOMAIN row : row'[f] = IF f \in batch THEN Claimed(row[f]) ELSE row[f]
  BY DEF ClaimedRows
<1>3. \A f \in DOMAIN row :
          /\ row'[f] \in Row /\ row'[f].interval = row[f].interval /\ row'[f].idle = row[f].idle
          /\ row'[f].errors = row[f].errors
          /\ row'[f].due = IF f \in batch THEN row[f].interval ELSE row[f].due
  BY <1>2 DEF Claimed, CrawlInv, TypeOK, Row
<1>4. row' \in [DOMAIN row -> Row]
  BY <1>2, <1>3
<1>5. SchedulingHorizon'
  BY <1>2, <1>3 DEF CrawlInv, SchedulingHorizon
<1>6. \A f \in DOMAIN row : GoodInterval(row[f].interval)
  BY DEF GoodInterval, CrawlInv, TypeOK, Row, SchedulingHorizon
<1> QED
  BY <1>1, <1>2, <1>3, <1>4, <1>5, <1>6

\* A claim that starts crawls, of which none is a client's on its way.
LEMMA ClaimedKeeps ==
    ASSUME CrawlInv, NEW batch \in SUBSET Due, row' = ClaimedRows(batch),
           subscribed' = subscribed, ClockOK',
           crawls' \in [Slot -> {Idle} \cup Crawl \cup Waiting],
           \A r \in Client : crawls'[r].stage = "upserted" => crawls'[r] = crawls[r]
    PROVE  CrawlInv'
<1>1. TypeOK'
  BY RowsClaimed DEF CrawlInv, TypeOK, ClockOK
<1>2. FreshFeedsActive'
  BY RowsClaimed DEF CrawlInv, FreshFeedsActive
<1> QED
  BY <1>1, <1>2, RowsClaimed DEF CrawlInv

LEMMA ClaimKeeps ==
    ASSUME CrawlInv, NEW batch \in SUBSET Feed, ClaimDueFeeds(batch) \/ ClaimFails(batch)
    PROVE  CrawlInv'
<1>1. batch \subseteq Due /\ subscribed' = subscribed /\ ClockOK'
  BY DEF ClaimDueFeeds, ClaimFails, TakesTick, OldestFirst, CrawlInv, TypeOK, ClockOK
<1>2. CASE ClaimDueFeeds(batch)
  <2>1. row' = ClaimedRows(batch)
        /\ crawls' = [s \in Slot |-> IF s \in batch THEN StartedCrawl(s, row'[s]) ELSE crawls[s]]
    BY <1>2 DEF ClaimDueFeeds
  <2>2. \A f \in batch : StartedCrawl(f, row'[f]) \in Crawl
    BY <1>1, <2>1, RowsClaimed, StartedIsCrawl
  <2>3. crawls' \in [Slot -> {Idle} \cup Crawl \cup Waiting]
    BY <2>1, <2>2 DEF CrawlInv, TypeOK
  <2>4. \A r \in Client : crawls'[r] = crawls[r]
    BY <2>1, ScheduleAssumption DEF Slot, Client
  <2> QED
    BY <1>1, <2>1, <2>3, <2>4, ClaimedKeeps
<1>3. CASE ClaimFails(batch)
  <2>1. row' \in {row, ClaimedRows(batch)} /\ crawls' = crawls
        /\ crawls \in [Slot -> {Idle} \cup Crawl \cup Waiting] /\ subscribed' \subseteq DOMAIN row
    BY <1>1, <1>3 DEF ClaimFails, CrawlInv, TypeOK
  <2> QED
    BY <1>1, <2>1, ClaimedKeeps, TableKept
<1> QED
  BY <1>2, <1>3

LEMMA UpsertFeedKeeps ==
    ASSUME CrawlInv, NEW r \in Client, NEW f \in Feed,
           NEW interval \in {DefaultInterval, ScrapeInterval}, NEW jitter \in 0..(interval - 1),
           UpsertFeed(r, f, interval, jitter)
    PROVE  CrawlInv'
<1> DEFINE columns == [interval |-> interval, due |-> jitter, errors |-> 0, idle |-> 0]
           w == [stage |-> "upserted", feed |-> f, age |-> 0, created |-> f \notin DOMAIN row]
<1>1. columns \in Row
  BY Intervals DEF Row
<1>2. w \in Waiting
  <2>1. (f \notin DOMAIN row) \in BOOLEAN
    OBVIOUS
  <2> QED
    BY <2>1, ScheduleAssumption DEF Waiting
<1>3. /\ row' = [g \in DOMAIN row \cup {f} |-> IF g \in DOMAIN row THEN row[g] ELSE columns]
      /\ crawls' = [crawls EXCEPT ![r] = w] /\ subscribed' = subscribed
      /\ serving' = serving /\ timer' = timer /\ fired' = fired
  BY DEF UpsertFeed
<1>4. row' \in [DOMAIN row \cup {f} -> Row]
  BY <1>1, <1>3 DEF CrawlInv, TypeOK
<1>5. TypeOK'
  BY <1>2, <1>3, <1>4 DEF CrawlInv, TypeOK
<1>6. SchedulingHorizon'
  <2>1. \A g \in DOMAIN row : row'[g] = row[g]
    BY <1>3
  <2>2. f \notin DOMAIN row => row'[f].due = jitter /\ row'[f].interval = interval
    BY <1>3
  <2>3. DOMAIN row' = DOMAIN row \cup {f}
    BY <1>3
  <2> QED
    BY <2>1, <2>2, <2>3, Intervals DEF CrawlInv, SchedulingHorizon
<1>7. FreshFeedsActive'
  <2> SUFFICES ASSUME NEW q \in Client, crawls'[q].stage = "upserted", crawls'[q].created
               PROVE  /\ crawls'[q].feed \in DOMAIN row'
                      /\ row'[crawls'[q].feed].idle =< crawls'[q].age + CrawlTime
    BY DEF FreshFeedsActive
  <2>1. CASE q = r
    <3>1. crawls'[q] = w /\ f \notin DOMAIN row
      BY <1>3, <2>1 DEF CrawlInv, TypeOK, Slot
    <3>2. row'[f].idle = 0 /\ f \in DOMAIN row'
      BY <1>3, <3>1
    <3> QED
      BY <3>1, <3>2, ScheduleAssumption
  <2>2. CASE q # r
    <3>1. crawls'[q] = crawls[q]
      BY <1>3, <2>2 DEF CrawlInv, TypeOK, Slot
    <3>2. crawls[q].feed \in DOMAIN row /\ row[crawls[q].feed].idle =< crawls[q].age + CrawlTime
      BY <3>1 DEF CrawlInv, FreshFeedsActive
    <3> QED
      BY <1>3, <3>1, <3>2
  <2> QED
    BY <2>1, <2>2
<1> QED
  BY <1>5, <1>6, <1>7 DEF CrawlInv

\* The client in slot r goes over to what w holds, which is no new feed.
LEMMA ClientMoves ==
    ASSUME CrawlInv, NEW r \in Client, NEW w \in {Idle} \cup Crawl \cup Waiting, w.stage # "upserted",
           crawls' = [crawls EXCEPT ![r] = w],
           row' = row, subscribed' \subseteq DOMAIN row, UNCHANGED <<serving, timer, fired>>
    PROVE  CrawlInv'
<1>1. crawls' \in [Slot -> {Idle} \cup Crawl \cup Waiting]
      /\ \A q \in Client : crawls'[q] = IF q = r THEN w ELSE crawls[q]
  BY DEF CrawlInv, TypeOK, Slot
<1>2. ClockOK'
  BY DEF CrawlInv, TypeOK, ClockOK
<1> QED
  BY <1>1, <1>2, TableKept

LEMMA SubscribeStepKeeps ==
    ASSUME CrawlInv, NEW r \in Client, SubscribeStep(r)
    PROVE  CrawlInv'
<1>0. crawls[r] \in {Idle} \cup Crawl \cup Waiting /\ subscribed \subseteq DOMAIN row
      /\ DOMAIN row \subseteq Feed /\ \A f \in DOMAIN row : row[f] \in Row
  BY DEF CrawlInv, TypeOK, Slot
<1>1. ASSUME NEW f \in Feed, NEW interval \in {DefaultInterval, ScrapeInterval},
             NEW jitter \in 0..(interval - 1), UpsertFeed(r, f, interval, jitter)
      PROVE  CrawlInv'
  BY <1>1, UpsertFeedKeeps
<1>2. CASE UpsertSubscription(r)
  <2>1. crawls[r] \in Waiting
    BY <1>0, <1>2, Kinds DEF UpsertSubscription
  <2>2. CASE crawls[r].feed \in DOMAIN row
    <3>1. crawls' = [crawls EXCEPT ![r] = [crawls[r] EXCEPT !.stage = "ready"]]
          /\ subscribed' \subseteq DOMAIN row /\ row' = row /\ UNCHANGED <<serving, timer, fired>>
      BY <1>0, <1>2, <2>2 DEF UpsertSubscription, CrawlInv, TypeOK, Slot
    <3>2. [crawls[r] EXCEPT !.stage = "ready"] \in Waiting
          /\ [crawls[r] EXCEPT !.stage = "ready"].stage # "upserted"
      BY <2>1 DEF Waiting
    <3> QED
      BY <3>1, <3>2, ClientMoves
  <2>3. CASE crawls[r].feed \notin DOMAIN row
    BY <1>0, <1>2, <2>3, Kinds, ClientMoves DEF UpsertSubscription
  <2> QED
    BY <2>2, <2>3
<1>3. CASE RequestEnds(r)
  BY <1>0, <1>3, Kinds, ClientMoves DEF RequestEnds
<1> QED
  BY <1>1, <1>2, <1>3 DEF SubscribeStep

LEMMA RequestStepKeeps ==
    ASSUME CrawlInv, NEW r \in Request, RequestStep(r)
    PROVE  CrawlInv'
<1>0. subscribed \subseteq DOMAIN row /\ DOMAIN row \subseteq Feed /\ r \in Client
      /\ \A f \in DOMAIN row : row[f] \in Row
  BY DEF CrawlInv, TypeOK, Client
<1>1. ASSUME NEW f \in Feed, RefreshFeed(r, f) PROVE CrawlInv'
  <2> DEFINE w == [stage |-> "ready", feed |-> f, age |-> 0, created |-> FALSE]
  <2>1. w \in Waiting /\ w.stage # "upserted"
    BY ScheduleAssumption DEF Waiting
  <2>2. crawls' = [crawls EXCEPT ![r] = w] /\ row' = row /\ subscribed' = subscribed
        /\ UNCHANGED <<serving, timer, fired>>
    BY <1>1 DEF RefreshFeed
  <2> HIDE DEF w
  <2> QED
    BY <1>0, <2>1, <2>2, ClientMoves
<1>2. CASE CrawlFeed(r)
  <2> DEFINE w == IF crawls[r].feed \in DOMAIN row
                  THEN StartedCrawl(crawls[r].feed, row[crawls[r].feed]) ELSE Idle
  <2>1. w \in {Idle} \cup Crawl
    BY <1>0, StartedIsCrawl
  <2>2. crawls' = [crawls EXCEPT ![r] = w] /\ row' = row /\ subscribed' = subscribed
        /\ UNCHANGED <<serving, timer, fired>>
    BY <1>2 DEF CrawlFeed
  <2> HIDE DEF w
  <2>3. w.stage # "upserted"
    BY <2>1, Kinds
  <2> QED
    BY <1>0, <2>1, <2>2, <2>3, ClientMoves
<1> QED
  BY <1>1, <1>2 DEF RequestStep

LEMMA CommandStepKeeps ==
    ASSUME CrawlInv, NEW r \in Command, CommandStep(r)
    PROVE  CrawlInv'
<1>0. subscribed \subseteq DOMAIN row /\ DOMAIN row \subseteq Feed /\ r \in Client /\ r \in Slot
      /\ \A f \in DOMAIN row : row[f] \in Row
  BY DEF CrawlInv, TypeOK, Client, Slot
<1>1. ASSUME NEW f \in Feed, CrawlAll(r, f) PROVE CrawlInv'
  <2>1. StartedCrawl(f, row[f]) \in Crawl
    BY <1>0, <1>1, StartedIsCrawl DEF CrawlAll
  <2>2. crawls' = [crawls EXCEPT ![r] = StartedCrawl(f, row[f])]
        /\ row' = row /\ subscribed' = subscribed /\ UNCHANGED <<serving, timer, fired>>
    BY <1>1 DEF CrawlAll
  <2> QED
    BY <1>0, <2>1, <2>2, Kinds, ClientMoves
<1>2. ASSUME NEW f \in Feed, CrawlDue(r, f) PROVE CrawlInv'
  <2>1. /\ {f} \in SUBSET Due /\ f \in DOMAIN row /\ row' = ClaimedRows({f})
        /\ crawls' = [crawls EXCEPT ![r] = StartedCrawl(f, row'[f])] /\ subscribed' = subscribed
    BY <1>2 DEF CrawlDue, Due
  <2>2. StartedCrawl(f, row'[f]) \in Crawl
    BY <2>1, RowsClaimed, StartedIsCrawl
  <2>3. crawls' \in [Slot -> {Idle} \cup Crawl \cup Waiting] /\ crawls'[r] \in Crawl
        /\ \A q \in Client \ {r} : crawls'[q] = crawls[q]
    BY <1>0, <2>1, <2>2 DEF CrawlInv, TypeOK, Slot
  <2>4. ClockOK'
    BY <1>2 DEF CrawlDue, CrawlInv, TypeOK, ClockOK
  <2> QED
    BY <2>1, <2>3, <2>4, Kinds, ClaimedKeeps
<1> QED
  BY <1>1, <1>2 DEF CommandStep

\* A feed just created is not idle long enough to be an orphan.
LEMMA FreshIsNoOrphan ==
    ASSUME CrawlInv, NEW r \in Client, crawls[r].stage = "upserted", crawls[r].created
    PROVE  crawls[r].feed \in DOMAIN row \ Orphans
<1>1. crawls[r] \in Waiting
  BY Kinds DEF CrawlInv, TypeOK, Slot
<1>2. crawls[r].age \in 0..CrawlTime
  BY <1>1 DEF Waiting
<1>3. crawls[r].feed \in DOMAIN row /\ row[crawls[r].feed].idle =< crawls[r].age + CrawlTime
  BY DEF CrawlInv, FreshFeedsActive
<1>4. row[crawls[r].feed].idle \in Nat
  BY <1>3 DEF CrawlInv, TypeOK, Row
<1>5. ~(row[crawls[r].feed].idle > OrphanGrace)
  BY <1>2, <1>3, <1>4, ScheduleAssumption
<1> QED
  BY <1>3, <1>5 DEF Orphans

LEMMA DeleteKeeps ==
    ASSUME CrawlInv, DeleteOrphanFeeds
    PROVE  CrawlInv'
<1>1. /\ row' = [f \in DOMAIN row \ Orphans |-> row[f]]
      /\ subscribed' = subscribed /\ crawls' = crawls
      /\ serving' = serving /\ timer' = timer /\ fired' = fired
  BY DEF DeleteOrphanFeeds
<1>2. subscribed \cap Orphans = {}
  BY DEF Orphans
<1>3. TypeOK'
  BY <1>1, <1>2 DEF CrawlInv, TypeOK
<1>4. SchedulingHorizon'
  BY <1>1 DEF CrawlInv, SchedulingHorizon
<1>5. FreshFeedsActive'
  <2> SUFFICES ASSUME NEW r \in Client, crawls[r].stage = "upserted", crawls[r].created
               PROVE  /\ crawls[r].feed \in DOMAIN row'
                      /\ row'[crawls[r].feed].idle =< crawls[r].age + CrawlTime
    BY <1>1 DEF FreshFeedsActive
  <2>1. crawls[r].feed \in DOMAIN row \ Orphans
    BY FreshIsNoOrphan
  <2> QED
    BY <1>1, <2>1 DEF CrawlInv, FreshFeedsActive
<1> QED
  BY <1>3, <1>4, <1>5 DEF CrawlInv

\* A unit of time for a row.
LEMMA RowAdvances ==
    ASSUME CrawlInv, Advance
    PROVE  /\ DOMAIN row' = DOMAIN row /\ row' \in [DOMAIN row -> Row]
           /\ \A f \in DOMAIN row :
                 /\ row'[f].interval = row[f].interval /\ row'[f].errors = row[f].errors
                 /\ row'[f].due = IF MovesOn(f) THEN row[f].due - 1 ELSE row[f].due
                 /\ row'[f].due >= row[f].due - 1 /\ row'[f].due =< row[f].due
                 /\ row'[f].idle =< row[f].idle + 1
<1> DEFINE later(f) == [row[f] EXCEPT !.due = IF MovesOn(f) THEN @ - 1 ELSE @,
                                      !.idle = Smaller(@ + 1, OrphanGrace + 1)]
<1>1. row' = [f \in DOMAIN row |-> later(f)]
  BY DEF Advance
<1>2. \A f \in DOMAIN row : row[f] \in Row
  BY DEF CrawlInv, TypeOK
<1>3. \A f \in DOMAIN row :
          /\ later(f).interval = row[f].interval /\ later(f).errors = row[f].errors
          /\ later(f).due = IF MovesOn(f) THEN row[f].due - 1 ELSE row[f].due
          /\ later(f).idle = Smaller(row[f].idle + 1, OrphanGrace + 1)
  BY <1>2 DEF Row
<1>4. \A f \in DOMAIN row : row[f].due \in Int
          /\ Smaller(row[f].idle + 1, OrphanGrace + 1) \in Nat
          /\ Smaller(row[f].idle + 1, OrphanGrace + 1) =< row[f].idle + 1
  BY <1>2, ScheduleAssumption DEF Row, Smaller
<1>5. ASSUME NEW f \in DOMAIN row PROVE later(f) \in Row
  <2>1. \A due \in Int, idle \in Nat : [row[f] EXCEPT !.due = due, !.idle = idle] \in Row
    BY <1>2 DEF Row
  <2>2. (IF MovesOn(f) THEN row[f].due - 1 ELSE row[f].due) \in Int
    BY <1>4
  <2>3. later(f) = [row[f] EXCEPT !.due = IF MovesOn(f) THEN row[f].due - 1 ELSE row[f].due,
                                  !.idle = Smaller(row[f].idle + 1, OrphanGrace + 1)]
    BY <1>2, Zenon DEF Row
  <2> QED
    BY <1>4, <2>1, <2>2, <2>3
<1> HIDE DEF later
<1>6. DOMAIN row' = DOMAIN row /\ row' \in [DOMAIN row -> Row]
      /\ \A f \in DOMAIN row : row'[f] = later(f)
  BY <1>1, <1>5
<1> QED
  BY <1>3, <1>4, <1>6

\* Time leaves the order of the feeds alone: where one does not move on, the
\* place behind it is free.
LEMMA OrderKept ==
    ASSUME CrawlInv, Advance, NEW f \in DOMAIN row, NEW g \in DOMAIN row, row[f].due < row[g].due
    PROVE  row'[f].due < row'[g].due
<1>1. row[f].due \in Int /\ row[g].due \in Int /\ CrawlTime \in Nat
  BY ScheduleAssumption DEF CrawlInv, TypeOK, Row
<1>2. CASE MovesOn(f)
  BY <1>1, <1>2, RowAdvances
<1>3. CASE ~MovesOn(f) /\ row[f].due + 1 < row[g].due
  BY <1>1, <1>3, RowAdvances
<1>4. CASE ~MovesOn(f) /\ row[f].due + 1 = row[g].due
  <2>1. PICK due \in row[f].due..(-CrawlTime) : \A h \in DOMAIN row : row[h].due # due
    BY <1>4 DEF MovesOn
  <2>2. due \in Int /\ due # row[f].due
    BY <1>1, <2>1
  <2>3. due \in row[g].due..(-CrawlTime)
    BY <1>1, <1>4, <2>1, <2>2
  <2>4. ~MovesOn(g)
    BY <2>1, <2>3 DEF MovesOn
  <2> QED
    BY <1>1, <1>4, <2>4, RowAdvances
<1> QED
  BY <1>1, <1>2, <1>3, <1>4

LEMMA SlotAdvances ==
    ASSUME CrawlInv, Advance, NEW s \in Slot, crawls[s] # Idle
    PROVE  /\ crawls[s].age \in 0..CrawlTime /\ crawls[s].age < CrawlTime
           /\ crawls'[s] \in Crawl \cup Waiting
           /\ crawls[s] \in Waiting => crawls'[s] \in Waiting
           /\ crawls'[s].stage = crawls[s].stage /\ crawls'[s].feed = crawls[s].feed
           /\ crawls'[s].age = crawls[s].age + 1
           /\ crawls[s] \in Waiting => crawls'[s].created = crawls[s].created
<1>1. crawls'[s] = [crawls[s] EXCEPT !.age = @ + 1] /\ crawls[s].age < CrawlTime
  BY DEF Advance
<1>2. CASE crawls[s] \in Crawl
  <2>1. crawls[s].age \in 0..CrawlTime /\ crawls[s].age + 1 \in 0..CrawlTime
    BY <1>1, <1>2, ScheduleAssumption DEF Crawl
  <2>2. crawls[s] \notin Waiting
    BY <1>2, Kinds
  <2> QED
    BY <1>1, <1>2, <2>1, <2>2 DEF Crawl
<1>3. CASE crawls[s] \in Waiting
  <2>1. crawls[s].age \in 0..CrawlTime /\ crawls[s].age + 1 \in 0..CrawlTime
    BY <1>1, <1>3, ScheduleAssumption DEF Waiting
  <2> QED
    BY <1>1, <1>3, <2>1 DEF Waiting
<1> QED
  BY <1>2, <1>3 DEF CrawlInv, TypeOK

LEMMA AdvanceKeeps ==
    ASSUME CrawlInv, Advance
    PROVE  CrawlInv'
<1>1. crawls' = [s \in Slot |-> IF crawls[s] = Idle THEN Idle ELSE [crawls[s] EXCEPT !.age = @ + 1]]
      /\ subscribed' = subscribed
      /\ \A s \in Slot : crawls[s] # Idle => crawls[s].age < CrawlTime
  BY DEF Advance
<1>2. ASSUME NEW s \in Slot, crawls[s] # Idle
      PROVE  /\ crawls'[s] \in Crawl \cup Waiting
             /\ crawls[s] \in Waiting => crawls'[s] \in Waiting
             /\ crawls'[s].stage = crawls[s].stage /\ crawls'[s].feed = crawls[s].feed
             /\ crawls'[s].age = crawls[s].age + 1
             /\ crawls[s] \in Waiting => crawls'[s].created = crawls[s].created
  BY <1>2, SlotAdvances
<1>3. TypeOK'
  <2>1. crawls' \in [Slot -> {Idle} \cup Crawl \cup Waiting]
    BY <1>1, <1>2
  <2>2. timer \in 1..TickInterval /\ timer' \in 1..TickInterval
    <3>1. timer \in 1..TickInterval
          /\ timer' = IF ~serving THEN timer ELSE IF timer = 1 THEN TickInterval ELSE timer - 1
      BY DEF Advance, CrawlInv, TypeOK
    <3> QED
      BY <3>1, Intervals
  <2>3. serving \in BOOLEAN /\ serving' \in BOOLEAN /\ fired \in BOOLEAN
    BY DEF Advance, CrawlInv, TypeOK
  <2>4. fired' = (fired \/ (serving /\ timer = 1))
    BY DEF Advance
  <2>5. fired' \in BOOLEAN
    BY <2>4, Zenon
  <2> QED
    BY <1>1, <2>1, <2>2, <2>3, <2>5, RowAdvances DEF CrawlInv, TypeOK
<1>4. SchedulingHorizon'
  <2>1. \A f \in DOMAIN row : row[f].due \in Int /\ row'[f].due \in Int
    BY RowAdvances DEF CrawlInv, TypeOK, Row
  <2> QED
    BY <2>1, RowAdvances, Intervals DEF CrawlInv, SchedulingHorizon
<1>5. FreshFeedsActive'
  <2> SUFFICES ASSUME NEW r \in Client, crawls'[r].stage = "upserted", crawls'[r].created
               PROVE  /\ crawls'[r].feed \in DOMAIN row'
                      /\ row'[crawls'[r].feed].idle =< crawls'[r].age + CrawlTime
    BY DEF FreshFeedsActive
  <2>1. r \in Slot /\ crawls[r] # Idle
    BY <1>1, Kinds DEF Slot
  <2>2. crawls[r] \in Waiting /\ crawls[r].stage = "upserted" /\ crawls[r].created
    BY <1>2, <2>1, Kinds DEF CrawlInv, TypeOK
  <2>3. crawls[r].feed \in DOMAIN row /\ row[crawls[r].feed].idle =< crawls[r].age + CrawlTime
    BY <2>2 DEF CrawlInv, FreshFeedsActive
  <2>4. crawls[r].age \in Nat /\ row[crawls[r].feed].idle \in Nat /\ row'[crawls[r].feed].idle \in Nat
    BY <2>2, <2>3, RowAdvances DEF Waiting, Row, CrawlInv, TypeOK
  <2> QED
    BY <1>2, <2>1, <2>3, <2>4, RowAdvances, ScheduleAssumption
<1> QED
  BY <1>3, <1>4, <1>5 DEF CrawlInv

LEMMA CrawlInit == Init => CrawlInv
<1> SUFFICES ASSUME Init PROVE CrawlInv
  OBVIOUS
<1>1. /\ row = [f \in {} |-> f] /\ subscribed = {} /\ crawls = [s \in Slot |-> Idle]
      /\ timer \in 1..TickInterval
  BY Intervals DEF Init
<1>2. serving \in BOOLEAN /\ fired \in BOOLEAN
  BY Zenon DEF Init
<1>3. row \in [DOMAIN row -> Row] /\ DOMAIN row = {}
  BY <1>1
<1>4. \A r \in Client : crawls[r].stage = "idle"
  BY <1>1, Kinds DEF Slot
<1> QED
  BY <1>1, <1>2, <1>3, <1>4 DEF CrawlInv, TypeOK, SchedulingHorizon, FreshFeedsActive

\* One step per action.
LEMMA CrawlNext == CrawlInv /\ [Next]_vars => CrawlInv'
<1> SUFFICES ASSUME CrawlInv, [Next]_vars PROVE CrawlInv'
  OBVIOUS
<1>0. DOMAIN row \subseteq Feed /\ subscribed \subseteq DOMAIN row /\ ClockOK
      /\ crawls \in [Slot -> {Idle} \cup Crawl \cup Waiting]
  BY DEF CrawlInv, TypeOK, ClockOK
<1>1. CASE UNCHANGED vars
  BY <1>0, <1>1, TableKept DEF vars, ClockOK
<1>2. ASSUME NEW batch \in SUBSET Feed, ClaimDueFeeds(batch) \/ ClaimFails(batch) PROVE CrawlInv'
  BY <1>2, ClaimKeeps
<1>3. ASSUME NEW s \in Slot, CrawlStep(s) PROVE CrawlInv'
  BY <1>3, CrawlStepKeeps
<1>4. ASSUME NEW r \in Client, SubscribeStep(r) PROVE CrawlInv'
  BY <1>4, SubscribeStepKeeps
<1>5. ASSUME NEW r \in Request, RequestStep(r) PROVE CrawlInv'
  BY <1>5, RequestStepKeeps
<1>6. ASSUME NEW r \in Command, CommandStep(r) PROVE CrawlInv'
  BY <1>6, CommandStepKeeps
<1>7. ASSUME NEW f \in Feed, Unsubscribe(f) PROVE CrawlInv'
  BY <1>0, <1>7, TableKept DEF Unsubscribe, ClockOK
<1>8. CASE Stop
  <2>1. row' = row /\ subscribed' \subseteq DOMAIN row
        /\ crawls' = [s \in Slot |-> IF s \in Command THEN crawls[s] ELSE Idle]
    BY <1>0, <1>8 DEF Stop
  <2>2. ClockOK'
    <3>1. serving' \in BOOLEAN /\ fired' = FALSE /\ timer' = TickInterval
      BY <1>8, Zenon DEF Stop
    <3> QED
      BY <3>1, TickerWound
  <2>3. crawls' \in [Slot -> {Idle} \cup Crawl \cup Waiting]
        /\ \A r \in Client : crawls'[r].stage = "upserted" => crawls'[r] = crawls[r]
    BY <1>0, <2>1, Kinds DEF Slot
  <2> QED
    BY <2>1, <2>2, <2>3, TableKept
<1>9. CASE Start
  <2>1. row' = row /\ subscribed' \subseteq DOMAIN row /\ crawls' = crawls
    BY <1>0, <1>9 DEF Start
  <2>2. ClockOK'
    <3>1. serving' \in BOOLEAN /\ fired' = FALSE /\ timer' = TickInterval
      BY <1>9, Zenon DEF Start
    <3> QED
      BY <3>1, TickerWound
  <2> QED
    BY <1>0, <2>1, <2>2, TableKept
<1>10. CASE DeleteOrphanFeeds
  BY <1>10, DeleteKeeps
<1>11. CASE Advance
  BY <1>11, AdvanceKeeps
<1> QED
  BY <1>1, <1>2, <1>3, <1>4, <1>5, <1>6, <1>7, <1>8, <1>9, <1>10, <1>11 DEF Next

\* Types, horizon and the activity of new feeds together are inductive.
THEOREM ScheduleCorrect == Spec => []CrawlInv
BY CrawlInit, CrawlNext, PTL DEF Spec

\* Whichever of two overlapping crawls writes last, no feed is put off beyond
\* the greatest interval and no stored interval falls below the least one or a
\* Retry-After, for any intervals in any order and any Retry-After.
THEOREM HorizonHolds == Spec => []SchedulingHorizon
<1>1. CrawlInv => SchedulingHorizon
  BY DEF CrawlInv
<1> QED
  BY <1>1, ScheduleCorrect, PTL

\* No feed is collected between its creation and the subscription that is to
\* follow from the same client, as long as the grace period is twice as long as
\* anything is in flight.
THEOREM FreshFeedsSurvive == Spec => []FreshFeedSurvives
<1>1. CrawlInv => FreshFeedSurvives
  BY DEF CrawlInv, FreshFeedsActive, FreshFeedSurvives
<1> QED
  BY <1>1, ScheduleCorrect, PTL

----------------------------------------------------------------------------
(* Failures.                                                               *)

\* The inductive invariant.
FailureInv ==
    /\ failures \in [Feed -> 0..StopCount] /\ FailuresCounted
    /\ \A f \in Feed \ DOMAIN row : failures[f] = 0

\* Fetched only writes the feed of the crawl.
LEMMA FetchedErrors ==
    ASSUME NEW c, NEW interval, NEW errors, row' = Fetched(c, interval, errors)
    PROVE  /\ DOMAIN row' = DOMAIN row
           /\ \A f \in DOMAIN row : row'[f].errors = IF f = c.feed THEN errors ELSE row[f].errors
BY DEF Fetched

LEMMA SuccessClears ==
    ASSUME NEW f \in DOMAIN row', SucceededNow(f)
    PROVE  row'[f].errors = 0
<1>1. PICK s \in Slot : Answers(s, f) /\ (NotModified(s) \/ RecordSuccess(s))
  BY DEF SucceededNow
<1>2. crawls[s].feed = f
  BY <1>1 DEF Answers
<1>3. CASE NotModified(s)
  <2>1. PICK i : row' = Fetched(crawls[s], i, 0)
    BY <1>3 DEF NotModified
  <2> QED
    BY <1>2, <2>1, FetchedErrors
<1>4. CASE RecordSuccess(s)
  <2>1. row' = Fetched(crawls[s], NextIntervalOnSuccess(crawls[s].interval, crawls[s].new), 0)
    BY <1>4 DEF RecordSuccess
  <2> QED
    BY <1>2, <2>1, FetchedErrors
<1> QED
  BY <1>1, <1>3, <1>4

LEMMA FailureCounts ==
    ASSUME NEW f \in DOMAIN row', FailedNow(f)
    PROVE  f \in DOMAIN row /\ row'[f].errors = Smaller(row[f].errors + 1, StopCount)
<1>1. PICK s \in Slot, after \in RetryAfters \cup {0} : Answers(s, f) /\ Booked(s, after)
  BY DEF FailedNow, Fail, ExtractionFails
<1>2. crawls[s].feed = f
  BY <1>1 DEF Answers
<1>3. row' = Fetched(crawls[s], NextIntervalOnError(crawls[s].interval, crawls[s].errors + 1, after),
                     Smaller(ErrorCount(crawls[s]) + 1, StopCount))
  BY <1>1 DEF Booked
<1>4. f \in DOMAIN row /\ row'[f].errors = Smaller(ErrorCount(crawls[s]) + 1, StopCount)
  BY <1>2, <1>3, FetchedErrors
<1> QED
  BY <1>2, <1>4 DEF ErrorCount

\* A crawl that ends with an answer is seen to.
LEMMA AnswerIsSeen ==
    ASSUME CrawlInv, NEW s \in Slot, crawls[s].stage \in {"fetching", "written"}, Ends(s)
    PROVE  Answers(s, crawls[s].feed)
BY Kinds DEF Answers, Ends, CrawlInv, TypeOK

\* All that clients do to the table: they insert a feed, or claim one.
LEMMA ClientRows ==
    ASSUME NEW r \in Client, SubscribeStep(r) \/ RequestStep(r) \/ CommandStep(r)
    PROVE  \/ row' = row
           \/ \E f \in Feed, interval \in {DefaultInterval, ScrapeInterval} :
                 \E jitter \in 0..(interval - 1) : UpsertFeed(r, f, interval, jitter)
           \/ \E f \in Due : row' = ClaimedRows({f})
BY DEF SubscribeStep, RequestStep, CommandStep, UpsertSubscription, RefreshFeed, CrawlAll, CrawlFeed,
       CrawlDue, RequestEnds

\* error_count of a feed that no answer was booked on stays, or starts at 0
\* with the feed.
LEMMA ErrorsOtherwiseKept ==
    ASSUME CrawlInv, Next, NEW f \in DOMAIN row',
           ~SucceededNow(f), ~GoneNow(f), ~FailedNow(f)
    PROVE  IF f \in DOMAIN row THEN row'[f].errors = row[f].errors ELSE row'[f].errors = 0
<1>1. ASSUME NEW batch \in SUBSET Due, row' = ClaimedRows(batch)
      PROVE  f \in DOMAIN row /\ row'[f].errors = row[f].errors
  BY <1>1, RowsClaimed
<1>2. ASSUME NEW s \in Slot, CrawlStep(s)
      PROVE  f \in DOMAIN row /\ row'[f].errors = row[f].errors
  <2>1. ASSUME NEW after \in RetryAfters \cup {0}, Fail(s, after) \/ (ExtractionFails(s) /\ after = 0)
        PROVE  f \in DOMAIN row /\ row'[f].errors = row[f].errors
    <3>1. crawls[s].stage = "fetching" /\ Booked(s, after)
      BY <2>1 DEF Fail, ExtractionFails
    <3>2. crawls[s].feed # f
      BY <2>1, <3>1, AnswerIsSeen DEF Booked, FailedNow
    <3> QED
      BY <3>1, <3>2, FetchedErrors DEF Booked
  <2>2. ASSUME Gone(s)
        PROVE  f \in DOMAIN row /\ row'[f].errors = row[f].errors
    <3>1. crawls[s].feed # f
      BY <2>2, AnswerIsSeen DEF Gone, GoneNow
    <3> QED
      BY <2>2, <3>1, FetchedErrors DEF Gone
  <2>3. ASSUME NotModified(s)
        PROVE  f \in DOMAIN row /\ row'[f].errors = row[f].errors
    <3>1. crawls[s].feed # f
      BY <2>3, AnswerIsSeen DEF NotModified, SucceededNow
    <3> QED
      BY <2>3, <3>1, FetchedErrors DEF NotModified
  <2>4. ASSUME RecordSuccess(s)
        PROVE  f \in DOMAIN row /\ row'[f].errors = row[f].errors
    <3>1. crawls[s].feed # f
      BY <2>4, AnswerIsSeen DEF RecordSuccess, SucceededNow
    <3> QED
      BY <2>4, <3>1, FetchedErrors DEF RecordSuccess
  <2>5. ASSUME InternalError(s) \/ \E new \in BOOLEAN : UpsertEntries(s, new)
        PROVE  f \in DOMAIN row /\ row'[f].errors = row[f].errors
    BY <2>5 DEF InternalError, UpsertEntries
  <2> QED
    BY <1>2, <2>1, <2>2, <2>3, <2>4, <2>5 DEF CrawlStep
<1>3. ASSUME NEW r \in Client, NEW g \in Feed, NEW interval, NEW jitter, UpsertFeed(r, g, interval, jitter)
      PROVE  IF f \in DOMAIN row THEN row'[f].errors = row[f].errors ELSE row'[f].errors = 0
  BY <1>3 DEF UpsertFeed
<1>4. CASE row' = row
  BY <1>4
<1>5. ASSUME NEW batch \in SUBSET Feed, ClaimDueFeeds(batch) \/ ClaimFails(batch)
      PROVE  row' = row \/ (batch \in SUBSET Due /\ row' = ClaimedRows(batch))
  BY <1>5 DEF ClaimDueFeeds, ClaimFails, OldestFirst
<1>6. ASSUME NEW r \in Client, SubscribeStep(r) \/ RequestStep(r) \/ CommandStep(r)
      PROVE  IF f \in DOMAIN row THEN row'[f].errors = row[f].errors ELSE row'[f].errors = 0
  BY <1>1, <1>3, <1>4, <1>6, ClientRows
<1>7. CASE DeleteOrphanFeeds
  BY <1>7 DEF DeleteOrphanFeeds
<1>8. CASE Advance
  BY <1>8, RowAdvances
<1>9. ASSUME Stop \/ Start \/ \E g \in Feed : Unsubscribe(g) PROVE row' = row
  BY <1>9 DEF Stop, Start, Unsubscribe
<1> QED
  BY <1>1, <1>2, <1>4, <1>5, <1>6, <1>7, <1>8, <1>9 DEF Next, Client

LEMMA FailureStep ==
    ASSUME "failures" \in Track
    PROVE  CrawlInv /\ CrawlInv' /\ FailureInv /\ [HNext]_hvars => FailureInv'
<1> SUFFICES ASSUME CrawlInv, CrawlInv', FailureInv, [HNext]_hvars PROVE FailureInv'
  OBVIOUS
<1>1. CASE UNCHANGED hvars
  BY <1>1 DEF FailureInv, FailuresCounted, hvars, vars
<1>2. CASE HNext
  <2>1. Next /\ failures' = [f \in Feed |-> FailuresAfter(f)]
    BY <1>2 DEF HNext, Remember
  <2>2. \A f \in Feed : failures[f] \in 0..StopCount /\ StopCount \in Nat
    BY ScheduleAssumption DEF FailureInv
  <2>3. \A f \in Feed : FailuresAfter(f) \in 0..StopCount
    BY <2>2 DEF FailuresAfter, Smaller
  <2>4. failures' \in [Feed -> 0..StopCount]
    BY <2>1, <2>3
  <2>5. ASSUME NEW f \in DOMAIN row' PROVE row'[f].errors = failures'[f]
    <3>1. f \in Feed
      BY DEF CrawlInv, TypeOK
    <3>2. failures'[f] = FailuresAfter(f)
      BY <2>1, <3>1
    <3>3. f \in DOMAIN row => row[f].errors = failures[f]
      BY DEF FailureInv, FailuresCounted
    <3>4. CASE SucceededNow(f)
      BY <3>2, <3>4, SuccessClears DEF FailuresAfter
    <3>5. CASE ~SucceededNow(f) /\ GoneNow(f)
      <4>1. failures'[f] = StopCount
        BY <3>2, <3>5 DEF FailuresAfter
      <4>2. PICK s \in Slot : Answers(s, f) /\ Gone(s)
        BY <3>5 DEF GoneNow
      <4>3. row'[f].errors = StopCount
        BY <4>2, FetchedErrors DEF Gone, Answers
      <4> QED
        BY <4>1, <4>3
    <3>6. CASE ~SucceededNow(f) /\ ~GoneNow(f) /\ FailedNow(f)
      <4>1. failures'[f] = Smaller(failures[f] + 1, StopCount)
        BY <3>2, <3>6 DEF FailuresAfter
      <4>2. f \in DOMAIN row /\ row'[f].errors = Smaller(row[f].errors + 1, StopCount)
        BY <3>6, FailureCounts
      <4> QED
        BY <3>3, <4>1, <4>2
    <3>7. CASE ~SucceededNow(f) /\ ~GoneNow(f) /\ ~FailedNow(f)
      <4>1. failures'[f] = failures[f]
        BY <3>2, <3>7 DEF FailuresAfter
      <4>2. IF f \in DOMAIN row THEN row'[f].errors = row[f].errors ELSE row'[f].errors = 0
        BY <2>1, <3>7, ErrorsOtherwiseKept
      <4>3. f \notin DOMAIN row => failures[f] = 0
        BY <3>1 DEF FailureInv
      <4> QED
        BY <3>3, <4>1, <4>2, <4>3
    <3> QED
      BY <3>4, <3>5, <3>6, <3>7
  <2>6. \A f \in Feed \ DOMAIN row' : failures'[f] = 0
    BY <2>1 DEF FailuresAfter
  <2> QED
    BY <2>4, <2>5, <2>6 DEF FailureInv, FailuresCounted
<1> QED
  BY <1>1, <1>2

LEMMA HistoryTypes == HSpec => []CrawlInv
<1>1. HInit => CrawlInv
  BY CrawlInit DEF HInit
<1>2. CrawlInv /\ [HNext]_hvars => CrawlInv'
  BY CrawlNext DEF HNext, hvars
<1> QED
  BY <1>1, <1>2, PTL DEF HSpec

\* A feed is given up after exactly StopCount failed fetches or extractions in
\* a row, or because the publisher said so: no failed write counts, no crawl
\* that overlaps takes one back, for any overlap of crawls.
THEOREM FailuresAreCounted ==
    ASSUME "failures" \in Track
    PROVE  HSpec => []FailuresCounted
<1>1. HInit => FailureInv
  BY ScheduleAssumption DEF HInit, Init, FailureInv, FailuresCounted
<1>2. CrawlInv /\ CrawlInv' /\ FailureInv /\ [HNext]_hvars => FailureInv'
  BY FailureStep
<1>3. FailureInv => FailuresCounted
  BY DEF FailureInv
<1> QED
  BY <1>1, <1>2, <1>3, HistoryTypes, PTL DEF HSpec

----------------------------------------------------------------------------
(* Gaps.                                                                   *)

\* No interval is stored that is shorter.
Gaps == {gap \in 0..LeastInterval : \A after \in RetryAfters : gap =< after}

\* The inductive invariant: what is left until a feed is due makes up for what
\* has not passed since its last claim, but for the time of one crawl.
GapInv ==
    /\ since \in [Feed -> 0..LeastInterval]
    /\ \A f \in Feed \ DOMAIN row : since[f] = LeastInterval
    /\ \A f \in DOMAIN row, gap \in Gaps :
          since[f] < LeastInterval => row[f].due >= gap - CrawlTime - since[f]

LEMMA GapsBelow ==
    ASSUME NEW gap \in Gaps, NEW i, GoodInterval(i)
    PROVE  gap \in 0..LeastInterval /\ i \in Nat /\ i >= gap
BY Intervals, ScheduleAssumption DEF Gaps, GoodInterval

\* A step of a crawl ends it or writes its entries.
LEMMA StepOfCrawl ==
    ASSUME NEW s, CrawlStep(s)
    PROVE  /\ crawls[s].stage \in {"fetching", "written"}
           /\ Ends(s) \/ \E new \in BOOLEAN : UpsertEntries(s, new)
BY DEF CrawlStep, Fail, ExtractionFails, Booked, Gone, NotModified, UpsertEntries, RecordSuccess,
       InternalError

\* A step of a client leaves the other slots and the clock alone.
LEMMA OneClientMoves ==
    ASSUME CrawlInv, NEW r \in Client, SubscribeStep(r) \/ RequestStep(r) \/ CommandStep(r)
    PROVE  UNCHANGED <<serving, timer, fired>> /\ \A t \in Slot \ {r} : crawls'[t] = crawls[t]
BY DEF SubscribeStep, RequestStep, CommandStep, UpsertFeed, UpsertSubscription, RefreshFeed, CrawlAll,
       CrawlFeed, CrawlDue, RequestEnds, CrawlInv, TypeOK

\* Only the Scheduler starts a crawl in a feed's slot, and only when it is due.
LEMMA OnlyClaimsStart ==
    ASSUME CrawlInv, Next, NEW f \in Feed, ClaimedNow(f)
    PROVE  \E batch \in SUBSET Feed : ClaimDueFeeds(batch) /\ f \in batch
<1>0. f \in Slot /\ crawls[f] = Idle /\ crawls'[f] # Idle /\ f \notin Client /\ f \notin Command
      /\ crawls \in [Slot -> {Idle} \cup Crawl \cup Waiting]
  BY ScheduleAssumption DEF ClaimedNow, Slot, Client, CrawlInv, TypeOK
<1>1. ASSUME NEW batch \in SUBSET Feed, ClaimDueFeeds(batch) PROVE f \in batch
  BY <1>0, <1>1 DEF ClaimDueFeeds
<1>2. ASSUME NEW s \in Slot, CrawlStep(s) PROVE FALSE
  <2>1. crawls[s].stage \in {"fetching", "written"}
    BY <1>2, StepOfCrawl
  <2>2. s # f
    BY <1>0, <2>1, Kinds
  <2>3. \A t \in Slot \ {s} : crawls'[t] = crawls[t]
    <3>1. Ends(s) \/ \E new \in BOOLEAN : UpsertEntries(s, new)
      BY <1>2, StepOfCrawl
    <3>2. CASE Ends(s)
      BY <1>0, <3>2 DEF Ends
    <3>3. ASSUME NEW new \in BOOLEAN, UpsertEntries(s, new)
          PROVE  \A t \in Slot \ {s} : crawls'[t] = crawls[t]
      BY <1>0, <3>3 DEF UpsertEntries
    <3> QED
      BY <3>1, <3>2, <3>3
  <2> QED
    BY <1>0, <2>2, <2>3
<1>3. ASSUME NEW r \in Client, SubscribeStep(r) \/ RequestStep(r) \/ CommandStep(r) PROVE FALSE
  <2>1. \A t \in Slot \ {r} : crawls'[t] = crawls[t]
    BY <1>3, OneClientMoves
  <2> QED
    BY <1>0, <1>3, <2>1
<1>4. ASSUME \/ Stop \/ Start \/ DeleteOrphanFeeds \/ Advance \/ \E g \in Feed : Unsubscribe(g)
             \/ \E batch \in SUBSET Feed : ClaimFails(batch)
      PROVE  FALSE
  BY <1>0, <1>4 DEF Stop, Start, DeleteOrphanFeeds, Advance, Unsubscribe, ClaimFails
<1> QED
  BY <1>1, <1>2, <1>3, <1>4 DEF Next, Client

\* A claim puts a feed off by its interval.
LEMMA ClaimPutsOff ==
    ASSUME CrawlInv, NEW batch \in SUBSET Feed, ClaimDueFeeds(batch), NEW f \in batch
    PROVE  /\ f \in DOMAIN row /\ row[f].due =< 0
           /\ GoodInterval(row[f].interval) /\ row'[f].due = row[f].interval
<1>1. batch \in SUBSET Due /\ row' = ClaimedRows(batch)
  BY DEF ClaimDueFeeds, OldestFirst
<1> QED
  BY <1>1, RowsClaimed

\* Between two units of time a feed stays due when it was, unless it is claimed
\* or a crawl of it ends.
LEMMA DueOtherwiseKept ==
    ASSUME CrawlInv, Next, ~Advance, NEW f \in DOMAIN row'
    PROVE  \/ f \notin DOMAIN row
           \/ f \in DOMAIN row /\ row'[f].due = row[f].due
           \/ \E i, age : GoodInterval(i) /\ age \in 0..CrawlTime /\ row'[f].due = i - age
<1>1. ASSUME NEW batch \in SUBSET Due, row' = ClaimedRows(batch)
      PROVE  \/ f \in DOMAIN row /\ row'[f].due = row[f].due
             \/ \E i, age : GoodInterval(i) /\ age \in 0..CrawlTime /\ row'[f].due = i - age
  <2>1. CASE f \in batch
    <3>1. GoodInterval(row[f].interval) /\ row'[f].due = row[f].interval
      BY <1>1, <2>1, RowsClaimed
    <3>2. row'[f].due = row[f].interval - 0 /\ 0 \in 0..CrawlTime
      BY <3>1, ScheduleAssumption DEF GoodInterval
    <3> QED
      BY <3>1, <3>2
  <2>2. CASE f \notin batch
    BY <1>1, <2>2, RowsClaimed
  <2> QED
    BY <2>1, <2>2
<1>2. ASSUME NEW s \in Slot, crawls[s].stage \in {"fetching", "written"},
             NEW i, NEW errors, GoodInterval(i), row' = Fetched(crawls[s], i, errors)
      PROVE  \/ f \in DOMAIN row /\ row'[f].due = row[f].due
             \/ \E j, age : GoodInterval(j) /\ age \in 0..CrawlTime /\ row'[f].due = j - age
  <2>1. crawls[s].age \in 0..CrawlTime
    BY <1>2, CrawlInFlight DEF Crawl
  <2>2. f \in DOMAIN row /\ (f # crawls[s].feed => row'[f] = row[f])
        /\ (f = crawls[s].feed => row'[f].due = i - crawls[s].age)
    BY <1>2 DEF Fetched
  <2> QED
    BY <1>2, <2>1, <2>2
<1>3. ASSUME NEW s \in Slot, CrawlStep(s)
      PROVE  \/ row' = row
             \/ /\ crawls[s].stage \in {"fetching", "written"}
                /\ \E i, errors : GoodInterval(i) /\ row' = Fetched(crawls[s], i, errors)
  <2>1. ASSUME NEW after \in RetryAfters \cup {0}, crawls[s].stage = "fetching", Booked(s, after)
        PROVE  /\ crawls[s].stage \in {"fetching", "written"}
               /\ \E i, errors : GoodInterval(i) /\ row' = Fetched(crawls[s], i, errors)
    BY <2>1, CrawlInFlight DEF Booked
  <2>2. ASSUME Gone(s)
        PROVE  /\ crawls[s].stage \in {"fetching", "written"}
               /\ \E i, errors : GoodInterval(i) /\ row' = Fetched(crawls[s], i, errors)
    BY <2>2, CrawlInFlight DEF Gone
  <2>3. ASSUME NotModified(s) \/ RecordSuccess(s)
        PROVE  /\ crawls[s].stage \in {"fetching", "written"}
               /\ \E i, errors : GoodInterval(i) /\ row' = Fetched(crawls[s], i, errors)
    BY <2>3, CrawlInFlight DEF NotModified, RecordSuccess
  <2> QED
    BY <1>3, <2>1, <2>2, <2>3 DEF CrawlStep, Fail, ExtractionFails, UpsertEntries, InternalError
<1>4. ASSUME NEW r \in Client, NEW g \in Feed, NEW interval, NEW jitter, UpsertFeed(r, g, interval, jitter)
      PROVE  f \notin DOMAIN row \/ (f \in DOMAIN row /\ row'[f].due = row[f].due)
  BY <1>4 DEF UpsertFeed
<1>5. ASSUME NEW r \in Client, SubscribeStep(r) \/ RequestStep(r) \/ CommandStep(r)
      PROVE  \/ f \notin DOMAIN row
             \/ f \in DOMAIN row /\ row'[f].due = row[f].due
             \/ \E i, age : GoodInterval(i) /\ age \in 0..CrawlTime /\ row'[f].due = i - age
  <2>1. ASSUME NEW g \in Due, row' = ClaimedRows({g})
        PROVE  \/ f \in DOMAIN row /\ row'[f].due = row[f].due
               \/ \E i, age : GoodInterval(i) /\ age \in 0..CrawlTime /\ row'[f].due = i - age
    <3>1. {g} \in SUBSET Due
      OBVIOUS
    <3> QED
      BY <1>1, <2>1, <3>1
  <2> QED
    BY <1>4, <1>5, <2>1, ClientRows
<1>6. ASSUME DeleteOrphanFeeds PROVE f \in DOMAIN row /\ row'[f].due = row[f].due
  BY <1>6 DEF DeleteOrphanFeeds
<1>7. ASSUME Stop \/ Start \/ \E g \in Feed : Unsubscribe(g) PROVE row' = row
  BY <1>7 DEF Stop, Start, Unsubscribe
<1>8. ASSUME NEW batch \in SUBSET Feed, ClaimDueFeeds(batch) \/ ClaimFails(batch)
      PROVE  row' = row \/ (batch \in SUBSET Due /\ row' = ClaimedRows(batch))
  BY <1>8 DEF ClaimDueFeeds, ClaimFails, OldestFirst
<1>9. CASE row' = row
  BY <1>9
<1> QED
  BY <1>1, <1>2, <1>3, <1>5, <1>6, <1>7, <1>8, <1>9 DEF Next, Client

LEMMA GapStep ==
    ASSUME "since" \in Track
    PROVE  CrawlInv /\ CrawlInv' /\ GapInv /\ [HNext]_hvars => GapInv'
<1> SUFFICES ASSUME CrawlInv, CrawlInv', GapInv, [HNext]_hvars PROVE GapInv'
  OBVIOUS
<1>1. CASE UNCHANGED hvars
  BY <1>1 DEF GapInv, hvars, vars
<1>2. CASE HNext
  <2>1. Next /\ since' = [f \in Feed |-> SinceAfter(f)]
    BY <1>2 DEF HNext, Remember
  <2>2. LeastInterval \in Nat /\ CrawlTime \in Nat /\ \A f \in Feed : since[f] \in 0..LeastInterval
    BY Intervals, ScheduleAssumption DEF GapInv
  <2>3. \A f \in Feed : SinceAfter(f) \in 0..LeastInterval
    BY <2>2 DEF SinceAfter, Smaller
  <2>4. since' \in [Feed -> 0..LeastInterval]
    BY <2>1, <2>3
  <2>5. \A f \in Feed \ DOMAIN row' : since'[f] = LeastInterval
    BY <2>1 DEF SinceAfter
  <2>6. ASSUME NEW f \in DOMAIN row', NEW gap \in Gaps, since'[f] < LeastInterval
        PROVE  row'[f].due >= gap - CrawlTime - since'[f]
    <3>1. f \in Feed /\ row'[f].due \in Int /\ since'[f] = SinceAfter(f) /\ since'[f] \in 0..LeastInterval
          /\ since[f] \in 0..LeastInterval
      BY <2>1, <2>2, <2>4 DEF CrawlInv, TypeOK, Row
    <3>2. gap \in 0..LeastInterval
      BY DEF Gaps
    <3>3. f \in DOMAIN row /\ since[f] < LeastInterval =>
              row[f].due \in Int /\ row[f].due >= gap - CrawlTime - since[f]
      BY DEF GapInv, CrawlInv, TypeOK, Row
    <3>4. ASSUME NEW i, NEW age \in 0..CrawlTime, GoodInterval(i), row'[f].due = i - age
          PROVE  row'[f].due >= gap - CrawlTime - since'[f]
      <4>1. i \in Nat /\ i >= gap
        BY <3>4, GapsBelow
      <4> QED
        BY <2>2, <3>1, <3>2, <3>4, <4>1
    <3>5. CASE ClaimedNow(f)
      <4>1. PICK batch \in SUBSET Feed : ClaimDueFeeds(batch) /\ f \in batch
        BY <2>1, <3>1, <3>5, OnlyClaimsStart
      <4>2. GoodInterval(row[f].interval) /\ row'[f].due = row[f].interval
        BY <4>1, ClaimPutsOff
      <4>3. row'[f].due = row[f].interval - 0 /\ 0 \in 0..CrawlTime
        BY <2>2, <4>2 DEF GoodInterval
      <4> QED
        BY <3>4, <4>2, <4>3
    <3>6. CASE ~ClaimedNow(f) /\ Advance
      <4>1. since'[f] = Smaller(since[f] + 1, LeastInterval)
        BY <3>1, <3>6 DEF SinceAfter
      <4>2. since'[f] = since[f] + 1 /\ since[f] < LeastInterval
        BY <2>2, <2>6, <3>1, <4>1 DEF Smaller
      <4>3. f \in DOMAIN row /\ row'[f].due >= row[f].due - 1
        BY <3>6, RowAdvances
      <4> QED
        BY <2>2, <3>1, <3>2, <3>3, <4>2, <4>3
    <3>7. CASE ~ClaimedNow(f) /\ ~Advance
      <4>1. since'[f] = since[f]
        BY <3>1, <3>7 DEF SinceAfter
      <4>2. CASE f \notin DOMAIN row
        BY <2>6, <3>1, <4>1, <4>2, <2>2 DEF GapInv
      <4>3. CASE f \in DOMAIN row /\ row'[f].due = row[f].due
        BY <2>6, <3>3, <4>1, <4>3
      <4> QED
        BY <2>1, <3>4, <3>7, <4>2, <4>3, DueOtherwiseKept
    <3> QED
      BY <3>5, <3>6, <3>7
  <2> QED
    BY <2>4, <2>5, <2>6 DEF GapInv
<1> QED
  BY <1>1, <1>2

\* Scheduled crawls of one feed keep the distance that every interval leaves,
\* less the time of a crawl, whatever requests and the command line do: for any
\* number of feeds and requests, any intervals in any order and any Retry-After.
THEOREM CrawlsKeepTheirDistance ==
    ASSUME "since" \in Track
    PROVE  HSpec => ClaimGap
<1>1. HInit => GapInv
  BY Intervals DEF HInit, Init, GapInv
<1>2. CrawlInv /\ CrawlInv' /\ GapInv /\ [HNext]_hvars => GapInv'
  BY GapStep
<1>3. CrawlInv /\ GapInv /\ [HNext]_hvars =>
          [\A f \in Feed, gap \in 0..LeastInterval :
              ClaimedNow(f) /\ (\A after \in RetryAfters : gap =< after)
                  => since[f] >= gap - CrawlTime]_hvars
  <2> SUFFICES ASSUME CrawlInv, GapInv, HNext, NEW f \in Feed, NEW gap \in 0..LeastInterval,
                      ClaimedNow(f), \A after \in RetryAfters : gap =< after
               PROVE  since[f] >= gap - CrawlTime
    OBVIOUS
  <2>1. PICK batch \in SUBSET Feed : ClaimDueFeeds(batch) /\ f \in batch
    BY OnlyClaimsStart DEF HNext
  <2>2. f \in DOMAIN row /\ row[f].due =< 0 /\ row[f].due \in Int
    BY <2>1, ClaimPutsOff DEF CrawlInv, TypeOK, Row
  <2>3. gap \in Gaps /\ since[f] \in 0..LeastInterval
    BY DEF Gaps, GapInv
  <2>4. since[f] < LeastInterval => row[f].due >= gap - CrawlTime - since[f]
    BY <2>2, <2>3 DEF GapInv
  <2> QED
    BY <2>2, <2>3, <2>4, Intervals, ScheduleAssumption
<1> QED
  BY <1>1, <1>2, <1>3, HistoryTypes, PTL DEF HSpec, ClaimGap

----------------------------------------------------------------------------
(* Delays.                                                                 *)

\* n is enough time for the ticker to fire and the crawls of the tick before
\* to end.
EnoughTime(n) ==
    /\ n \in 0..LongestTick
    /\ ~fired => timer =< n
    /\ \A f \in Feed : crawls[f] # Idle => CrawlTime - crawls[f].age =< n

\* The feeds that may still be claimed before f is.
Ahead(f) == {g \in DOMAIN row \ {f} : row[g].due =< row[f].due}

\* How far a feed that has waited for a while is behind, at least: behind what
\* is still to be written once it has waited as long as crawls take.
Behind(waited) == Smaller(waited, CrawlTime + 1)

\* The inductive invariant: what a feed has waited, the time to the next tick,
\* and the ticks that the feeds ahead of it can fill make no more than WorstDelay.
LateInv ==
    /\ late \in [Feed -> Nat]
    /\ \A f \in Feed : f \notin Due \/ ~serving => late[f] = 0
    /\ \A f \in Due : row[f].due =< -Behind(late[f])
    /\ \A f \in Feed : late[f] >= LongestTick =>
          \E n \in Nat :
             /\ EnoughTime(n)
             /\ late[f] + n + LongestTick * (Cardinality(Ahead(f)) \div BatchLimit)
                    =< WorstDelay

LEMMA MoreIsLonger ==
    ASSUME NEW t \in Nat, NEW a \in Nat, NEW b \in Nat, a =< b
    PROVE  t * a \in Nat /\ t * b \in Nat /\ t * a =< t * b
<1>1. PICK d \in Nat : b = a + d
  <2>1. b - a \in Nat /\ b = a + (b - a)
    OBVIOUS
  <2> QED
    BY <2>1
<1>2. t * b = t * a + t * d /\ t * d \in Nat /\ t * a \in Nat
  BY <1>1
<1> QED
  BY <1>2

LEMMA DivisionWithRest ==
    ASSUME NEW m \in Nat, NEW b \in Nat \ {0}
    PROVE  /\ m \div b \in Nat /\ m % b \in 0..(b - 1)
           /\ m = b * (m \div b) + (m % b)
OBVIOUS

\* Batches are filled one after the other.
LEMMA FewerBatches ==
    ASSUME NEW m \in Nat, NEW k \in Nat, NEW b \in Nat \ {0}, k =< m
    PROVE  /\ k \div b \in Nat /\ m \div b \in Nat /\ k \div b =< m \div b
           /\ k + b =< m => (k \div b) + 1 =< m \div b
<1> DEFINE p == k \div b
           q == m \div b
<1>1. p \in Nat /\ q \in Nat /\ k % b \in 0..(b - 1) /\ m % b \in 0..(b - 1)
      /\ k = b * p + (k % b) /\ m = b * q + (m % b)
  BY DivisionWithRest
<1>2. \A r \in Nat : b * (r + 1) = b * r + b /\ b * r \in Nat
  OBVIOUS
<1>3. ASSUME NEW r \in Nat, q + 1 =< r PROVE m < b * r
  <2>1. b * (q + 1) =< b * r
    BY <1>1, <1>3, MoreIsLonger
  <2> QED
    BY <1>1, <1>2, <1>3, <2>1
<1>4. b * p =< k /\ b * (p + 1) =< k + b
  BY <1>1, <1>2
<1>5. ~(q + 1 =< p)
  BY <1>1, <1>2, <1>3, <1>4
<1>6. k + b =< m => ~(q + 1 =< p + 1)
  BY <1>1, <1>2, <1>3, <1>4
<1> QED
  BY <1>1, <1>5, <1>6

LEMMA TickFacts ==
    /\ LongestTick \in Nat \ {0} /\ CrawlTime \in Nat /\ CrawlTime =< LongestTick
    /\ TickInterval =< LongestTick /\ BatchLimit \in Nat \ {0}
BY ScheduleAssumption, Intervals DEF LongestTick, Larger

\* A feed that has waited for a tick is due, and behind what is still to be
\* written.
LEMMA LongWait ==
    ASSUME CrawlInv, LateInv, NEW f \in Feed, late[f] >= LongestTick
    PROVE  /\ serving /\ f \in Due /\ f \in DOMAIN row /\ row[f].due \in Int
           /\ row[f].due =< -1 /\ row[f].due =< -CrawlTime
<1>1. late[f] \in Nat /\ late[f] >= 1 /\ late[f] >= CrawlTime /\ CrawlTime \in Nat
  BY TickFacts DEF LateInv
<1>2. serving /\ f \in Due
  BY <1>1 DEF LateInv
<1>3. f \in DOMAIN row /\ row[f].due \in Int /\ row[f].due =< -Behind(late[f])
  BY <1>2 DEF LateInv, Due, CrawlInv, TypeOK, Row
<1>4. Behind(late[f]) \in Nat /\ Behind(late[f]) >= 1 /\ Behind(late[f]) >= CrawlTime
  BY <1>1 DEF Behind, Smaller
<1> QED
  BY <1>1, <1>2, <1>3, <1>4

\* Few enough feeds ahead is few enough time.
LEMMA AheadFits ==
    ASSUME NEW S, S \subseteq Feed, NEW k \in Nat, Cardinality(S) =< k
    PROVE  /\ Cardinality(S) \in Nat
           /\ LongestTick * (Cardinality(S) \div BatchLimit) \in Nat
           /\ LongestTick * (k \div BatchLimit) \in Nat
           /\ LongestTick * (Cardinality(S) \div BatchLimit) =< LongestTick * (k \div BatchLimit)
           /\ Cardinality(S) + BatchLimit =< k =>
                 LongestTick * (Cardinality(S) \div BatchLimit) + LongestTick
                     =< LongestTick * (k \div BatchLimit)
<1>1. Cardinality(S) \in Nat
  BY HistoryAssumption, FS_Subset, FS_CardinalityType
<1> DEFINE p == Cardinality(S) \div BatchLimit
           q == k \div BatchLimit
<1>2. p \in Nat /\ q \in Nat /\ p =< q /\ (Cardinality(S) + BatchLimit =< k => p + 1 =< q)
  BY <1>1, TickFacts, FewerBatches
<1>3. LongestTick * p \in Nat /\ LongestTick * q \in Nat /\ LongestTick * p =< LongestTick * q
  BY <1>2, TickFacts, MoreIsLonger
<1>4. p + 1 =< q => LongestTick * (p + 1) =< LongestTick * q
  BY <1>2, TickFacts, MoreIsLonger
<1>5. LongestTick * (p + 1) = LongestTick * p + LongestTick
  BY <1>2, TickFacts
<1> HIDE DEF p, q
<1>6. p + 1 =< q => LongestTick * p + LongestTick =< LongestTick * q
  BY <1>4, <1>5
<1> QED
  BY <1>1, <1>2, <1>3, <1>6 DEF p, q

\* The other feeds are what WorstDelay allows for.
LEMMA OthersFit ==
    ASSUME NEW f \in Feed, NEW S, S \subseteq Feed \ {f}
    PROVE  /\ WorstDelay \in Nat /\ WorstDelay >= 2 * LongestTick - 1
           /\ 2 * LongestTick - 1 + LongestTick * (Cardinality(S) \div BatchLimit) =< WorstDelay
<1>1. IsFiniteSet(Feed) /\ Cardinality(Feed) \in Nat
      /\ IsFiniteSet(Feed \ {f}) /\ Cardinality(Feed \ {f}) = Cardinality(Feed) - 1
  BY HistoryAssumption, FS_CardinalityType, FS_RemoveElement
<1>2. Cardinality(Feed) - 1 \in Nat
  BY <1>1, FS_CardinalityType
<1>3. Cardinality(S) =< Cardinality(Feed) - 1
  BY <1>1, FS_Subset
<1>4. S \subseteq Feed
  OBVIOUS
<1>5. LongestTick * (Cardinality(S) \div BatchLimit) \in Nat
      /\ LongestTick * ((Cardinality(Feed) - 1) \div BatchLimit) \in Nat
      /\ LongestTick * (Cardinality(S) \div BatchLimit)
            =< LongestTick * ((Cardinality(Feed) - 1) \div BatchLimit)
  BY <1>2, <1>3, <1>4, AheadFits
<1> QED
  BY <1>5, TickFacts DEF WorstDelay

\* The Scheduler alone begins crawls in the feeds' slots, so that no step but a
\* claim takes time away from the tick while the server runs.
LEMMA TickTimeKept ==
    ASSUME CrawlInv, Next, ~Advance, serving, serving',
           \A batch \in SUBSET Feed : ~ClaimDueFeeds(batch) /\ ~ClaimFails(batch),
           NEW n, EnoughTime(n)
    PROVE  EnoughTime(n)'
<1>1. n \in 0..LongestTick /\ (~fired => timer =< n)
      /\ \A f \in Feed : crawls[f] # Idle => CrawlTime - crawls[f].age =< n
  BY DEF EnoughTime
<1>2. Feed \subseteq Slot /\ Feed \cap Client = {} /\ crawls \in [Slot -> {Idle} \cup Crawl \cup Waiting]
  BY ScheduleAssumption DEF Slot, Client, CrawlInv, TypeOK
<1>3. /\ timer' = timer /\ fired' = fired
      /\ \A f \in Feed : crawls'[f] # Idle => crawls[f] # Idle /\ crawls'[f].age = crawls[f].age
  <2>1. ASSUME NEW s \in Slot, CrawlStep(s)
        PROVE  /\ timer' = timer /\ fired' = fired
               /\ \A f \in Feed : crawls'[f] # Idle => crawls[f] # Idle /\ crawls'[f].age = crawls[f].age
    <3>1. CASE Ends(s)
      BY <1>2, <3>1 DEF Ends
    <3>2. ASSUME NEW new \in BOOLEAN, UpsertEntries(s, new)
          PROVE  /\ timer' = timer /\ fired' = fired
                 /\ \A f \in Feed : crawls'[f] # Idle => crawls[f] # Idle /\ crawls'[f].age = crawls[f].age
      <4>1. crawls[s] \in Crawl /\ crawls[s] # Idle
        BY <3>2, Kinds, CrawlInFlight DEF UpsertEntries
      <4>2. crawls' = [crawls EXCEPT ![s] = [crawls[s] EXCEPT !.stage = "written", !.new = new]]
            /\ timer' = timer /\ fired' = fired
        BY <1>2, <3>2 DEF UpsertEntries
      <4>3. [crawls[s] EXCEPT !.stage = "written", !.new = new].age = crawls[s].age
        BY <4>1 DEF Crawl
      <4> QED
        BY <1>2, <4>1, <4>2, <4>3
    <3> QED
      BY <2>1, <3>1, <3>2, StepOfCrawl
  <2>2. ASSUME NEW r \in Client, SubscribeStep(r) \/ RequestStep(r) \/ CommandStep(r)
        PROVE  timer' = timer /\ fired' = fired /\ \A t \in Slot \ {r} : crawls'[t] = crawls[t]
    BY <2>2, OneClientMoves
  <2>3. ASSUME Stop \/ Start PROVE FALSE
    BY <2>3 DEF Stop, Start
  <2>4. ASSUME DeleteOrphanFeeds \/ \E g \in Feed : Unsubscribe(g)
        PROVE  timer' = timer /\ fired' = fired /\ crawls' = crawls
    BY <2>4 DEF DeleteOrphanFeeds, Unsubscribe
  <2>5. ASSUME NEW r \in Client, SubscribeStep(r) \/ RequestStep(r) \/ CommandStep(r)
        PROVE  /\ timer' = timer /\ fired' = fired
               /\ \A f \in Feed : crawls'[f] # Idle => crawls[f] # Idle /\ crawls'[f].age = crawls[f].age
    BY <1>2, <2>2, <2>5
  <2> QED
    BY <2>1, <2>3, <2>4, <2>5 DEF Next, Client
<1>4. LongestTick' = LongestTick
  BY DEF LongestTick, Larger
<1> QED
  BY <1>1, <1>3, <1>4 DEF EnoughTime

\* Time that passes is taken from the tick, which is not over.
LEMMA TickTimePasses ==
    ASSUME CrawlInv, Advance, serving, NEW n, EnoughTime(n)
    PROVE  n >= 1 /\ EnoughTime(n - 1)'
<1>1. n \in 0..LongestTick /\ (~fired => timer =< n)
      /\ \A f \in Feed : crawls[f] # Idle => CrawlTime - crawls[f].age =< n
  BY DEF EnoughTime
<1>2. Feed \subseteq Slot /\ CrawlTime \in Nat /\ LongestTick \in Nat
      /\ fired \in BOOLEAN /\ timer \in 1..TickInterval /\ TickInterval \in Nat
  BY TickFacts, Intervals DEF Slot, CrawlInv, TypeOK
<1>3. /\ SchedulerBusy \/ ~fired
      /\ \A s \in Slot : crawls[s] = Idle => crawls'[s] = Idle
      /\ ~fired' => ~fired /\ timer # 1 /\ timer' = timer - 1
  BY DEF Advance
<1>4. \A f \in Feed : crawls[f] # Idle =>
          crawls[f].age \in 0..CrawlTime /\ crawls[f].age < CrawlTime /\ crawls'[f].age = crawls[f].age + 1
  BY <1>2, SlotAdvances
<1>5. n >= 1
  <2>1. CASE ~fired
    BY <1>1, <1>2, <2>1
  <2>2. CASE SchedulerBusy
    BY <1>1, <1>2, <1>4, <2>2 DEF SchedulerBusy
  <2> QED
    BY <1>3, <2>1, <2>2
<1>6. LongestTick' = LongestTick
  BY DEF LongestTick, Larger
<1>7. \A f \in Feed : crawls'[f] # Idle => CrawlTime - crawls'[f].age =< n - 1
  BY <1>1, <1>2, <1>3, <1>4
<1>8. ~fired' => timer' =< n - 1
  BY <1>1, <1>2, <1>3
<1> QED
  BY <1>1, <1>2, <1>5, <1>6, <1>7, <1>8 DEF EnoughTime

\* A whole tick is always enough.
LEMMA TickIsEnough ==
    ASSUME TypeOK
    PROVE  EnoughTime(LongestTick)
<1>1. \A f \in Feed : crawls[f] # Idle => crawls[f].age \in 0..CrawlTime
  BY DEF TypeOK, Slot, Crawl, Waiting
<1>2. timer \in Nat /\ timer =< LongestTick
  BY TickFacts, Intervals DEF TypeOK
<1> QED
  BY <1>1, <1>2, TickFacts DEF EnoughTime

\* A feed is new to the table only when it is inserted, and not overdue then.
LEMMA NewFeedsDue ==
    ASSUME CrawlInv, Next, NEW g \in DOMAIN row' \ DOMAIN row
    PROVE  row'[g].due \in Nat
<1>1. ASSUME NEW r \in Client, NEW f \in Feed, NEW interval \in {DefaultInterval, ScrapeInterval},
             NEW jitter \in 0..(interval - 1), UpsertFeed(r, f, interval, jitter)
      PROVE  row'[g].due \in Nat
  BY <1>1, Intervals DEF UpsertFeed
<1>2. ASSUME NEW r \in Client, SubscribeStep(r) \/ RequestStep(r) \/ CommandStep(r)
      PROVE  row'[g].due \in Nat
  BY <1>1, <1>2, ClientRows DEF ClaimedRows
<1>3. ASSUME NEW s \in Slot, CrawlStep(s) PROVE FALSE
  BY <1>3 DEF CrawlStep, Fail, ExtractionFails, Booked, Gone, NotModified, UpsertEntries, RecordSuccess,
              InternalError, Fetched
<1>4. ASSUME NEW batch \in SUBSET Feed, ClaimDueFeeds(batch) \/ ClaimFails(batch) PROVE FALSE
  BY <1>4 DEF ClaimDueFeeds, ClaimFails, ClaimedRows
<1>5. ASSUME Stop \/ Start \/ DeleteOrphanFeeds \/ Advance \/ \E f \in Feed : Unsubscribe(f) PROVE FALSE
  BY <1>5 DEF Stop, Start, DeleteOrphanFeeds, Advance, Unsubscribe
<1> QED
  BY <1>2, <1>3, <1>4, <1>5 DEF Next, Client

\* What is recorded when f has waited longer than crawls take, puts no other
\* feed ahead of f, and not f itself where it is any less late.
LEMMA NoneGetsAhead ==
    ASSUME CrawlInv, CrawlInv', Next, ~Advance, NEW f \in DOMAIN row, f \in DOMAIN row', row[f].due =< -1,
           row[f].due =< -CrawlTime, row'[f].due =< row[f].due
    PROVE  Ahead(f)' \subseteq Ahead(f)
<1>1. /\ CrawlTime \in Nat /\ \A g \in DOMAIN row : row[g].due \in Int
      /\ \A g \in DOMAIN row' : row'[g].due \in Int
  BY TickFacts DEF CrawlInv, TypeOK, Row
<1>2. ASSUME NEW g \in DOMAIN row', row'[g].due =< row[f].due
      PROVE  g \in DOMAIN row /\ row'[g].due = row[g].due
  <2>1. CASE g \notin DOMAIN row
    BY <1>1, <1>2, <2>1, NewFeedsDue
  <2>2. ASSUME NEW i, NEW age \in 0..CrawlTime, GoodInterval(i), row'[g].due = i - age
        PROVE  FALSE
    <3>1. i \in Nat /\ i >= 1
      BY <2>2, ScheduleAssumption, Intervals DEF GoodInterval
    <3> QED
      BY <1>1, <1>2, <2>2, <3>1
  <2> QED
    BY <2>1, <2>2, DueOtherwiseKept
<1>3. row'[f].due = row[f].due
  BY <1>2
<1> QED
  BY <1>2, <1>3 DEF Ahead

\* A tick that passes f over fills its batch with feeds that are ahead of it.
LEMMA PassedOver ==
    ASSUME CrawlInv, NEW batch \in SUBSET Feed, ClaimDueFeeds(batch), NEW f \in Due \ batch
    PROVE  /\ batch \subseteq Ahead(f) /\ Ahead(f)' \subseteq Ahead(f) \ batch
           /\ Cardinality(batch) = BatchLimit
<1>1. /\ batch \in SUBSET Due /\ Cardinality(batch) = Smaller(BatchLimit, Cardinality(Due))
      /\ \A g \in batch : row[g].due =< row[f].due
      /\ row' = ClaimedRows(batch)
  BY DEF ClaimDueFeeds, OldestFirst
<1>2. Due \subseteq DOMAIN row /\ DOMAIN row \subseteq Feed /\ row[f].due =< 0
      /\ \A g \in DOMAIN row : row[g].due \in Int
  BY DEF Due, CrawlInv, TypeOK, Row
<1>3. batch \subseteq Ahead(f)
  BY <1>1, <1>2 DEF Ahead
<1>4. Ahead(f)' \subseteq Ahead(f) \ batch
  <2> SUFFICES ASSUME NEW g \in DOMAIN row \ {f}, row'[g].due =< row'[f].due
               PROVE  g \in Ahead(f) /\ g \notin batch
    BY <1>1, RowsClaimed DEF Ahead
  <2>1. row'[f].due = row[f].due
    BY <1>1, <1>2, RowsClaimed
  <2>2. CASE g \in batch
    <3>1. GoodInterval(row[g].interval) /\ row'[g].due = row[g].interval
      BY <1>1, <2>2, RowsClaimed
    <3>2. row[g].interval \in Nat /\ row[g].interval >= 1
      BY <3>1, ScheduleAssumption, Intervals DEF GoodInterval
    <3> QED
      BY <1>2, <2>1, <3>1, <3>2
  <2>3. CASE g \notin batch
    BY <1>1, <2>1, <2>3, RowsClaimed DEF Ahead
  <2> QED
    BY <2>2, <2>3
<1>5. Cardinality(batch) = BatchLimit
  <2>1. IsFiniteSet(Due) /\ Cardinality(Due) \in Nat
    BY <1>2, HistoryAssumption, FS_Subset, FS_CardinalityType
  <2>2. Cardinality(batch) = Cardinality(Due) => batch = Due
    BY <1>1, <2>1, FS_Subset
  <2> QED
    BY <1>1, <2>1, <2>2, TickFacts DEF Smaller
<1> QED
  BY <1>3, <1>4, <1>5

LEMMA LateStep ==
    ASSUME "late" \in Track
    PROVE  CrawlInv /\ CrawlInv' /\ LateInv /\ [HNext]_hvars => LateInv'
<1> SUFFICES ASSUME CrawlInv, CrawlInv', LateInv, [HNext]_hvars PROVE LateInv'
  OBVIOUS
<1>1. CASE UNCHANGED hvars
  BY <1>1 DEF LateInv, EnoughTime, Ahead, Behind, Due, Live, LongestTick, Larger, Smaller, hvars, vars
<1>2. CASE HNext
  <2>1. Next /\ late' = [f \in Feed |-> LateAfter(f)]
    BY <1>2 DEF HNext, Remember
  <2>2. /\ LongestTick \in Nat \ {0} /\ CrawlTime \in Nat
        /\ \A f \in Feed : late[f] \in Nat
        /\ \A f \in Feed : WorstDelay \in Nat /\ WorstDelay >= 2 * LongestTick - 1
    BY TickFacts, OthersFit DEF LateInv
  <2>3. \A f \in Due : f \in DOMAIN row /\ f \in Feed /\ row[f].due \in Int /\ row[f].due =< 0
    BY DEF Due, CrawlInv, TypeOK, Row
  <2>4. \A f \in Due' : f \in DOMAIN row' /\ f \in Feed /\ row'[f].due \in Int /\ row'[f].due =< 0
    BY DEF Due, CrawlInv, TypeOK, Row
  \* A feed that was late and is not any less late.
  <2>5. ASSUME NEW f \in Feed, late'[f] # 0
        PROVE  /\ serving /\ serving' /\ \A batch \in SUBSET Feed : ~ClaimFails(batch)
               /\ f \in Due /\ f \in Due' /\ row'[f].due =< row[f].due
               /\ row[f].due =< -Behind(late[f])
               /\ Advance => late'[f] = Smaller(late[f] + 1, WorstDelay + 1)
               /\ ~Advance => late'[f] = late[f]
    <3>1. serving' /\ (\A batch \in SUBSET Feed : ~ClaimFails(batch))
          /\ f \in Due /\ f \in Due' /\ ~(row'[f].due > row[f].due)
          /\ late'[f] = IF Advance THEN Smaller(late[f] + 1, WorstDelay + 1) ELSE late[f]
      BY <2>1, <2>5 DEF LateAfter, ClaimFailed
    <3>2. CASE Advance
      <4>1. serving' = serving
        BY <3>2 DEF Advance
      <4> QED
        BY <2>3, <2>4, <3>1, <3>2, <4>1 DEF LateInv
    <3>3. CASE ~Advance
      BY <2>3, <2>4, <2>5, <3>1, <3>3 DEF LateInv
    <3> QED
      BY <3>2, <3>3
  <2>6. ASSUME NEW f \in Feed PROVE late'[f] \in Nat
    <3>1. Smaller(late[f] + 1, WorstDelay + 1) \in Nat
      BY <2>2 DEF Smaller
    <3> QED
      BY <2>1, <2>2, <3>1 DEF LateAfter
  <2>7. ASSUME NEW f \in Feed, late[f] >= LongestTick
        PROVE  \E n \in Nat :
                  /\ EnoughTime(n) /\ Ahead(f) \subseteq Feed \ {f}
                  /\ LongestTick * (Cardinality(Ahead(f)) \div BatchLimit) \in Nat
                  /\ late[f] + n + LongestTick * (Cardinality(Ahead(f)) \div BatchLimit)
                         =< WorstDelay
    <3>1. Ahead(f) \subseteq Feed \ {f}
      BY DEF Ahead, CrawlInv, TypeOK
    <3>2. IsFiniteSet(Ahead(f)) /\ Cardinality(Ahead(f)) \in Nat
      BY <3>1, HistoryAssumption, FS_Subset, FS_CardinalityType
    <3>3. LongestTick * (Cardinality(Ahead(f)) \div BatchLimit) \in Nat
      BY <3>1, <3>2, AheadFits
    <3> QED
      BY <2>7, <3>1, <3>3 DEF LateInv
  <2>8. ASSUME NEW f \in Feed, late'[f] # 0, Advance
        PROVE  /\ late'[f] = late[f] + 1 /\ late'[f] =< WorstDelay /\ row'[f].due =< -Behind(late'[f])
               /\ Ahead(f)' \subseteq Ahead(f)
    <3>1. late[f] + 1 =< WorstDelay
      <4>1. CASE late[f] >= LongestTick
        BY <2>2, <2>5, <2>7, <2>8, <4>1, TickTimePasses
      <4>2. CASE late[f] < LongestTick
        BY <2>2, <4>2
      <4> QED
        BY <2>2, <4>1, <4>2
    <3>2. late'[f] = late[f] + 1
      BY <2>2, <2>5, <2>8, <3>1 DEF Smaller
    <3>3. /\ row'[f].due = (IF MovesOn(f) THEN row[f].due - 1 ELSE row[f].due)
          /\ row[f].due =< -Behind(late[f]) /\ f \in DOMAIN row /\ row[f].due \in Int
      BY <2>3, <2>5, <2>8, RowAdvances
    <3>4. row[f].due >= -CrawlTime => MovesOn(f)
      BY <2>2, <3>3 DEF MovesOn
    <3>5. row'[f].due =< -Behind(late'[f])
      <4>1. CASE row[f].due >= -CrawlTime
        BY <2>2, <3>2, <3>3, <3>4, <4>1 DEF Behind, Smaller
      <4>2. CASE row[f].due < -CrawlTime
        BY <2>2, <3>2, <3>3, <4>2 DEF Behind, Smaller
      <4> QED
        BY <2>2, <3>3, <4>1, <4>2
    <3>6. Ahead(f)' \subseteq Ahead(f)
      <4> SUFFICES ASSUME NEW g \in DOMAIN row \ {f}, row'[g].due =< row'[f].due
                   PROVE  row[g].due =< row[f].due
        BY <2>8, RowAdvances DEF Ahead
      <4>1. row[g].due \in Int /\ row'[g].due \in Int /\ row'[f].due \in Int
        BY <2>8, <3>3, RowAdvances DEF CrawlInv, TypeOK, Row
      <4>2. row[f].due < row[g].due => row'[f].due < row'[g].due
        BY <2>8, <3>3, OrderKept
      <4> QED
        BY <3>3, <4>1, <4>2
    <3> QED
      BY <3>1, <3>2, <3>5, <3>6
  <2>9. \A f \in Feed : f \notin Due' \/ ~serving' => late'[f] = 0
    BY <2>5
  <2>10. ASSUME NEW f \in Due' PROVE row'[f].due =< -Behind(late'[f])
    <3>1. CASE late'[f] = 0
      BY <2>2, <2>4, <3>1 DEF Behind, Smaller
    <3>2. CASE late'[f] # 0 /\ Advance
      BY <2>4, <2>8, <3>2
    <3>3. CASE late'[f] # 0 /\ ~Advance
      <4>1. row'[f].due =< row[f].due /\ row[f].due =< -Behind(late'[f])
            /\ row[f].due \in Int /\ row'[f].due \in Int /\ late'[f] \in Nat
        BY <2>2, <2>3, <2>4, <2>5, <3>3
      <4>2. Behind(late'[f]) \in Nat
        BY <2>2, <4>1 DEF Behind, Smaller
      <4> QED
        BY <4>1, <4>2
    <3> QED
      BY <3>1, <3>2, <3>3
  <2>11. ASSUME NEW f \in Feed, late'[f] >= LongestTick
         PROVE  \E n \in Nat :
                   /\ EnoughTime(n)'
                   /\ late'[f] + n + LongestTick * (Cardinality(Ahead(f)') \div BatchLimit)
                          =< WorstDelay
    <3>1. late'[f] # 0 /\ late'[f] \in Nat
      BY <2>2, <2>6, <2>11
    <3>2. Ahead(f)' \subseteq Feed \ {f}
      BY DEF Ahead, CrawlInv, TypeOK
    <3>3. IsFiniteSet(Ahead(f)) /\ Cardinality(Ahead(f)) \in Nat /\ Ahead(f) \subseteq Feed
      <4>1. Ahead(f) \subseteq Feed
        BY DEF Ahead, CrawlInv, TypeOK
      <4> QED
        BY <4>1, HistoryAssumption, FS_Subset, FS_CardinalityType
    <3> DEFINE before == LongestTick * (Cardinality(Ahead(f)) \div BatchLimit)
               after == LongestTick * (Cardinality(Ahead(f)') \div BatchLimit)
    <3>4. after \in Nat /\ Cardinality(Ahead(f)') \in Nat
      <4>1. Ahead(f)' \subseteq Feed /\ Cardinality(Feed) \in Nat
            /\ IsFiniteSet(Ahead(f)') /\ Cardinality(Ahead(f)') \in Nat
        BY <3>2, HistoryAssumption, FS_Subset, FS_CardinalityType
      <4> QED
        BY <4>1, AheadFits
    <3>5. Ahead(f)' \subseteq Ahead(f) => after =< before
      <4>1. Ahead(f)' \subseteq Ahead(f) => Cardinality(Ahead(f)') =< Cardinality(Ahead(f))
        BY <3>3, FS_Subset
      <4> QED
        BY <3>2, <3>3, <4>1, AheadFits
    <3> HIDE DEF before, after
    \* Time passes: it is taken from the tick, or the feed has just begun to count.
    <3>6. CASE Advance
      <4>1. late'[f] = late[f] + 1 /\ Ahead(f)' \subseteq Ahead(f)
        BY <2>8, <3>1, <3>6
      <4>2. CASE late[f] >= LongestTick
        <5>1. PICK n \in Nat : EnoughTime(n) /\ before \in Nat /\ late[f] + n + before =< WorstDelay
          BY <2>7, <4>2 DEF before
        <5>2. n - 1 \in Nat /\ EnoughTime(n - 1)'
          BY <2>5, <3>1, <3>6, <5>1, TickTimePasses
        <5>3. late'[f] + (n - 1) + after =< WorstDelay
          BY <2>2, <3>4, <3>5, <4>1, <5>1, <5>2
        <5> QED
          BY <5>2, <5>3 DEF after
      <4>3. CASE late[f] < LongestTick
        <5>1. EnoughTime(LongestTick - 1)' /\ LongestTick - 1 \in Nat
          BY <2>2, <2>5, <3>1, <3>6, TickIsEnough, TickTimePasses DEF CrawlInv
        <5>2. 2 * LongestTick - 1 + after =< WorstDelay
          BY <3>2, OthersFit DEF after
        <5>3. late'[f] + (LongestTick - 1) + after =< WorstDelay
          BY <2>2, <2>11, <3>4, <4>1, <4>3, <5>2
        <5> QED
          BY <5>1, <5>3 DEF after
      <4> QED
        BY <2>2, <4>2, <4>3
    \* A tick passes the feed over: a batch of those ahead of it is gone.
    <3>7. ASSUME NEW batch \in SUBSET Feed, ClaimDueFeeds(batch), ~Advance
          PROVE  \E n \in Nat : EnoughTime(n)' /\ late'[f] + n + after =< WorstDelay
      <4>1. late'[f] = late[f] /\ f \in Due /\ row'[f].due =< row[f].due
        BY <2>5, <3>1, <3>7
      <4>2. f \notin batch
        <5>1. f \in batch => row'[f].due \in Nat \ {0} /\ row[f].due =< 0
          BY <3>7, ClaimPutsOff, ScheduleAssumption, Intervals DEF GoodInterval
        <5> QED
          BY <2>3, <4>1, <5>1
      <4>3. /\ batch \subseteq Ahead(f) /\ Ahead(f)' \subseteq Ahead(f) \ batch
            /\ Cardinality(batch) = BatchLimit
        BY <3>7, <4>1, <4>2, PassedOver
      <4>4. Cardinality(Ahead(f)') + BatchLimit =< Cardinality(Ahead(f))
        <5>1. IsFiniteSet(Ahead(f) \ batch) /\ IsFiniteSet(batch)
              /\ Cardinality(Ahead(f) \ batch) \in Nat
              /\ Cardinality(Ahead(f)') =< Cardinality(Ahead(f) \ batch)
          BY <3>3, <4>3, FS_Subset, FS_CardinalityType
        <5>2. Cardinality(Ahead(f) \ batch) = Cardinality(Ahead(f)) - Cardinality(Ahead(f) \cap batch)
          BY <3>3, FS_Difference
        <5>3. Ahead(f) \cap batch = batch
          BY <4>3
        <5>4. Cardinality(Ahead(f) \ batch) = Cardinality(Ahead(f)) - BatchLimit
          BY <4>3, <5>2, <5>3
        <5> QED
          BY <3>3, <3>4, <5>1, <5>4, TickFacts
      <4>5. after + LongestTick =< before
        <5>1. Ahead(f)' \subseteq Feed /\ Cardinality(Ahead(f)') =< Cardinality(Ahead(f))
          BY <3>2, <3>3, <3>4, <4>4, TickFacts
        <5> QED
          BY <3>3, <4>4, <5>1, AheadFits DEF after, before
      <4>6. PICK n \in Nat : before \in Nat /\ late[f] + n + before =< WorstDelay
        BY <2>7, <2>11, <4>1 DEF before
      <4>7. EnoughTime(LongestTick)'
        BY TickIsEnough, PTL DEF CrawlInv
      <4>8. late'[f] + LongestTick + after =< WorstDelay
        BY <2>2, <3>4, <4>1, <4>5, <4>6
      <4> QED
        BY <2>2, <4>7, <4>8
    \* Anything else gives the feed no more to wait for.
    <3>8. CASE ~Advance /\ \A batch \in SUBSET Feed : ~ClaimDueFeeds(batch)
      <4>1. late'[f] = late[f]
        BY <2>5, <3>1, <3>8
      <4>2. PICK n \in Nat : EnoughTime(n) /\ before \in Nat /\ late[f] + n + before =< WorstDelay
        BY <2>7, <2>11, <4>1 DEF before
      <4>3. EnoughTime(n)'
        BY <2>1, <2>5, <3>1, <3>8, <4>2, TickTimeKept
      <4>4. Ahead(f)' \subseteq Ahead(f)
        <5>1. f \in DOMAIN row /\ row[f].due =< -1 /\ row[f].due =< -CrawlTime
          BY <2>11, <4>1, LongWait
        <5>2. f \in DOMAIN row' /\ row'[f].due =< row[f].due
          BY <2>4, <2>5, <3>1
        <5> QED
          BY <2>1, <3>8, <5>1, <5>2, NoneGetsAhead
      <4>5. late'[f] + n + after =< WorstDelay
        BY <2>2, <3>4, <3>5, <4>1, <4>2, <4>4
      <4> QED
        BY <4>3, <4>5 DEF after
    <3> QED
      BY <3>6, <3>7, <3>8 DEF after
  <2>12. late' \in [Feed -> Nat] /\ LongestTick' = LongestTick /\ \A n : Behind(n)' = Behind(n)
    BY <2>1, <2>6 DEF LongestTick, Larger, Behind, Smaller
  <2> QED
    BY <2>9, <2>10, <2>11, <2>12 DEF LateInv
<1> QED
  BY <1>1, <1>2

LEMMA ImportedTypes == ImportedSpec => []CrawlInv
<1>1. ImportedInit => CrawlInv
  <2> SUFFICES ASSUME ImportedInit PROVE CrawlInv
    OBVIOUS
  <2>1. row \in [Feed -> Row] /\ \A f \in Feed : row[f].interval = DefaultInterval
                                              /\ row[f].due \in 0..(DefaultInterval - 1)
    BY Intervals DEF ImportedInit, Row
  <2>2. DOMAIN row = Feed /\ subscribed = Feed /\ crawls = [s \in Slot |-> Idle] /\ ClockOK
    <3>1. serving \in BOOLEAN /\ fired \in BOOLEAN
      BY Zenon DEF ImportedInit
    <3>2. timer \in 1..TickInterval
      BY Intervals DEF ImportedInit
    <3> QED
      BY <2>1, <3>1, <3>2 DEF ImportedInit, ClockOK
  <2>3. TypeOK
    BY <2>1, <2>2 DEF TypeOK, ClockOK
  <2>4. SchedulingHorizon
    BY <2>1, <2>2, Intervals DEF SchedulingHorizon
  <2>5. FreshFeedsActive
    BY <2>2, Kinds DEF FreshFeedsActive, Slot
  <2> QED
    BY <2>3, <2>4, <2>5 DEF CrawlInv
<1>2. CrawlInv /\ [HNext]_hvars => CrawlInv'
  BY CrawlNext DEF HNext, hvars, vars
<1> QED
  BY <1>1, <1>2, PTL DEF ImportedSpec

\* Oldest first, one batch at a time: while the server runs and no claim fails,
\* a subscribed feed that is due waits no longer than WorstDelay, for any number
\* of feeds and clients, any batch, any ticker, any intervals in any order and
\* any time crawls take, from an empty table as from an import of every feed,
\* and whatever stops, downtimes and failed claims there were before.
THEOREM DelaysAreBounded ==
    ASSUME "late" \in Track
    PROVE  (HSpec => []LiveFeedsKeepUp) /\ (ImportedSpec => []LiveFeedsKeepUp)
<1>1. HInit => LateInv
  <2>1. HInit => Due = {} /\ late = [f \in Feed |-> 0]
    BY DEF HInit, Init, Due
  <2> QED
    BY <2>1, TickFacts DEF LateInv, Behind, Smaller
<1>2. ImportedInit => LateInv
  <2> SUFFICES ASSUME ImportedInit PROVE LateInv
    OBVIOUS
  <2>1. late = [f \in Feed |-> 0] /\ \A f \in Feed : row[f].due >= 0
    BY DEF ImportedInit
  <2>2. \A f \in Due : row[f].due =< 0
    BY DEF Due
  <2>3. \A f \in Due : f \in Feed
    BY DEF Due, ImportedInit
  <2> QED
    BY <2>1, <2>2, <2>3, TickFacts DEF LateInv, Behind, Smaller
<1>3. CrawlInv /\ CrawlInv' /\ LateInv /\ [HNext]_hvars => LateInv'
  BY LateStep
<1>4. CrawlInv /\ LateInv => LiveFeedsKeepUp
  <2> SUFFICES ASSUME CrawlInv, LateInv, NEW f \in Feed PROVE late[f] =< WorstDelay
    BY DEF LiveFeedsKeepUp
  <2>1. Ahead(f) \subseteq Feed \ {f} /\ Ahead(f) \subseteq Feed
    BY DEF Ahead, CrawlInv, TypeOK
  <2>2. WorstDelay \in Nat /\ WorstDelay >= 2 * LongestTick - 1 /\ LongestTick \in Nat \ {0}
        /\ late[f] \in Nat
    BY <2>1, OthersFit, TickFacts DEF LateInv
  <2>3. Cardinality(Ahead(f)) \in Nat
    BY <2>1, HistoryAssumption, FS_Subset, FS_CardinalityType
  <2>4. LongestTick * (Cardinality(Ahead(f)) \div BatchLimit) \in Nat
    BY <2>1, <2>3, AheadFits
  <2>5. CASE late[f] >= LongestTick
    BY <2>2, <2>4, <2>5 DEF LateInv
  <2>6. CASE late[f] < LongestTick
    BY <2>2, <2>6
  <2> QED
    BY <2>2, <2>5, <2>6
<1> QED
  BY <1>1, <1>2, <1>3, <1>4, HistoryTypes, ImportedTypes, PTL DEF HSpec, ImportedSpec
====
