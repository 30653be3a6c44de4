--------------------------- MODULE CrawlSchedule ---------------------------
(***************************************************************************)
(* When feeds are fetched: the scheduling columns of the feeds table       *)
(* (internal/store/feeds.go), the Scheduler and its ticker that claim due  *)
(* feeds, crawls in flight (crawlOne) started by the Scheduler, by         *)
(* requests and by the command line, their adaptive interval and error     *)
(* backoff (backoff.go), the deletion of feeds nobody subscribes to, and   *)
(* the times when the server does not run.                                 *)
(*                                                                         *)
(* A crawl works from the feeds row it was handed when it started and      *)
(* writes back intervals computed from that snapshot, while the Scheduler  *)
(* and other crawls of the same feed go on writing the row.                *)
(*                                                                         *)
(* Time is relative: a row holds how far away next_fetch_at is and how     *)
(* long ago the last activity was, and Advance lets one unit pass for      *)
(* everything at once.  No clock value is ever stored, and of a feed that  *)
(* is long overdue only its place among the others is kept, so no bound on *)
(* the length of a behaviour is needed.                                    *)
(***************************************************************************)
EXTENDS Integers, FiniteSets

CONSTANTS
    Feed,             \* feeds.id
    Request,          \* API requests that add or crawl a feed
    Command,          \* import-opml and crawl processes of the command line
    MinInterval,      \* FR_FETCH_MIN_INTERVAL
    MaxInterval,      \* FR_FETCH_MAX_INTERVAL
    MaxErrInterval,   \* maxErrInterval
    DefaultInterval,  \* defaultFetchIntervalSec
    ScrapeInterval,   \* pagewatchDefaultIntervalSec
    RetryAfters,      \* the Retry-After values servers answer with
    StopCount,        \* the error_count at which a feed is given up (20)
    TickInterval,     \* period of the Scheduler's ticker
    BatchLimit,       \* feeds claimed per tick
    CrawlTime,        \* bound: the longest a crawl or request is in flight
    OrphanGrace       \* orphanFeedGraceDays

\* The configured intervals are at least one unit of time, in any order: the
\* code compares neither of them with the other or with its own constants.
ASSUME ScheduleAssumption ==
    /\ Feed \cap Request = {} /\ Feed \cap Command = {} /\ Request \cap Command = {}
    /\ {MinInterval, MaxInterval, MaxErrInterval, DefaultInterval, ScrapeInterval,
        TickInterval} \subseteq Nat \ {0}
    /\ RetryAfters \subseteq Nat \ {0}
    /\ StopCount \in Nat \ {0} /\ BatchLimit \in Nat \ {0}
    /\ CrawlTime \in Nat /\ OrphanGrace \in Nat
    /\ 2 * CrawlTime =< OrphanGrace  \* minutes against seven days

VARIABLES
    row,         \* feed -> its scheduling columns, for the feeds that exist
    subscribed,  \* the feeds with at least one row in subscriptions
    crawls,      \* slot -> what runs in it
    serving,     \* the serve process runs
    timer,       \* time until the ticker fires
    fired        \* the ticker's channel, with room for one, holds a tick

vars == <<row, subscribed, crawls, serving, timer, fired>>

\* Requests and commands.
Client == Request \cup Command

\* The Scheduler runs at most one crawl of a feed, in the feed's own slot.
Slot == Feed \cup Client

Row == [interval: Nat,     \* fetch_interval_sec
        due: Int,          \* next_fetch_at - now
        errors: Nat,       \* error_count
        idle: Nat]         \* now - COALESCE(last_fetched_at, created_at)

Idle == [stage |-> "idle"]

\* A crawl in flight: the snapshot of the row it works from, its age, and
\* whether the entries it has written included a new one.
Crawl == [stage: {"fetching", "written"}, feed: Feed, interval: Nat,
          errors: Nat, age: 0..CrawlTime, new: BOOLEAN]

\* A client on its way to a crawl: it has upserted the feed ("upserted";
\* created: the row was new), or found or made the subscription ("ready").
Waiting == [stage: {"upserted", "ready"}, feed: Feed, age: 0..CrawlTime,
            created: BOOLEAN]

TypeOK ==
    /\ DOMAIN row \subseteq Feed /\ row \in [DOMAIN row -> Row]
    /\ subscribed \subseteq DOMAIN row
    /\ crawls \in [Slot -> {Idle} \cup Crawl \cup Waiting]
    /\ serving \in BOOLEAN /\ fired \in BOOLEAN /\ timer \in 1..TickInterval

Init ==
    /\ row = [f \in {} |-> f]
    /\ subscribed = {}
    /\ crawls = [s \in Slot |-> Idle]
    /\ serving = FALSE /\ timer = TickInterval /\ fired = FALSE

----------------------------------------------------------------------------
(* backoff.go.                                                             *)

Smaller(a, b) == IF a < b THEN a ELSE b

Larger(a, b) == IF a < b THEN b ELSE a

ClampDuration(d, lo, hi) == IF d < lo THEN lo ELSE Smaller(d, hi)

OrMin(current) == IF current =< 0 THEN MinInterval ELSE current

\* An adaptive interval that is not clamped from below.
NextIntervalOnSuccessMut(current, new) ==
    Smaller((OrMin(current) * (IF new THEN 7 ELSE 13)) \div 10, MaxInterval)

NextIntervalOnSuccess(current, new) ==
    ClampDuration((OrMin(current) * (IF new THEN 7 ELSE 13)) \div 10,
                  MinInterval, MaxInterval)

\* A backoff without a ceiling.
NextIntervalOnErrorMut(current, errorCountAfter, retryAfter) ==
    IF retryAfter > 0 THEN ClampDuration(retryAfter, 0, MaxErrInterval)
    ELSE Larger(OrMin(current) * 2 ^ Smaller(errorCountAfter, 8), MinInterval)

\* The jitter of at most a minute is below the resolution of the model.
NextIntervalOnError(current, errorCountAfter, retryAfter) ==
    IF retryAfter > 0 THEN ClampDuration(retryAfter, 0, MaxErrInterval)
    ELSE ClampDuration(OrMin(current) * 2 ^ Smaller(errorCountAfter, 8),
                       MinInterval, MaxErrInterval)

\* The least of what an interval is clamped to or starts from, and the
\* greatest.
LeastInterval ==
    Smaller(Smaller(Smaller(MinInterval, MaxInterval), MaxErrInterval),
            Smaller(DefaultInterval, ScrapeInterval))

Horizon ==
    Larger(Larger(Larger(MinInterval, MaxInterval), MaxErrInterval),
           Larger(DefaultInterval, ScrapeInterval))

----------------------------------------------------------------------------
(* The Scheduler.                                                          *)

SchedulerBusy == \E f \in Feed : crawls[f] # Idle

Live(f) == f \in subscribed /\ row[f].errors < StopCount

Due == {f \in DOMAIN row : row[f].due =< 0 /\ Live(f)}

\* Any batch of due feeds will do.
OldestFirstMut(batch) ==
    /\ batch \subseteq Due
    /\ Cardinality(batch) = Smaller(BatchLimit, Cardinality(Due))

\* ORDER BY next_fetch_at LIMIT: the batch is filled with the longest due.
OldestFirst(batch) ==
    /\ batch \subseteq Due
    /\ Cardinality(batch) = Smaller(BatchLimit, Cardinality(Due))
    /\ \A f \in batch, g \in Due \ batch : row[f].due =< row[g].due

StartedCrawl(f, columns) ==
    [stage |-> "fetching", feed |-> f, interval |-> columns.interval,
     errors |-> columns.errors, age |-> 0, new |-> FALSE]

\* A claim that leaves next_fetch_at for the end of the crawl.
ClaimedMut(columns) == columns

Claimed(columns) == [columns EXCEPT !.due = columns.interval]

ClaimedRows(batch) ==
    [f \in DOMAIN row |-> IF f \in batch THEN Claimed(row[f]) ELSE row[f]]

\* The Scheduler takes the tick out of the ticker's channel.
TakesTick ==
    /\ serving /\ fired /\ ~SchedulerBusy
    /\ fired' = FALSE
    /\ UNCHANGED <<subscribed, serving, timer>>

\* Scheduler.tick, which does not return before its batch is done: the next
\* tick waits for every crawl of this one.
ClaimDueFeeds(batch) ==
    /\ TakesTick
    /\ OldestFirst(batch)
    /\ row' = ClaimedRows(batch)
    /\ crawls' = [s \in Slot |->
                    IF s \in batch THEN StartedCrawl(s, row'[s]) ELSE crawls[s]]

\* CrawlDue fails: the tick is over without a crawl, and the next one comes
\* when the ticker fires again.  The claim may have been written all the same
\* when it was reading its result that failed.
ClaimFails(batch) ==
    /\ TakesTick
    /\ OldestFirst(batch)
    /\ row' \in {row, ClaimedRows(batch)}
    /\ UNCHANGED crawls

\* crawl --due: the same claim, by another process with a limit of its own.
\* A batch is the sequence of its feeds, one slot each.
CrawlDue(r, f) ==
    /\ crawls[r] = Idle
    /\ f \in Due
    /\ \A g \in Due : row[f].due =< row[g].due
    /\ row' = ClaimedRows({f})
    /\ crawls' = [crawls EXCEPT ![r] = StartedCrawl(f, row'[f])]
    /\ UNCHANGED <<subscribed, serving, timer, fired>>

----------------------------------------------------------------------------
(* Clients: subscribing (handleCreateSubscription, ImportOPML, creating a  *)
(* scrape source), manual refresh (handleRefresh) and the crawl command.   *)

UpsertFeed(r, f, interval, jitter) ==
    /\ crawls[r] = Idle
    /\ r \in Request => serving
    /\ row' = [g \in DOMAIN row \cup {f} |->
                 IF g \in DOMAIN row THEN row[g]
                 ELSE [interval |-> interval, due |-> jitter,
                       errors |-> 0, idle |-> 0]]
    /\ crawls' = [crawls EXCEPT ![r] =
                    [stage |-> "upserted", feed |-> f, age |-> 0,
                     created |-> f \notin DOMAIN row]]
    /\ UNCHANGED <<subscribed, serving, timer, fired>>

\* The foreign key fails when the feed has been deleted in the meantime.
UpsertSubscription(r) ==
    /\ crawls[r].stage = "upserted"
    /\ IF crawls[r].feed \in DOMAIN row
       THEN /\ subscribed' = subscribed \cup {crawls[r].feed}
            /\ crawls' = [crawls EXCEPT ![r].stage = "ready"]
       ELSE /\ crawls' = [crawls EXCEPT ![r] = Idle]
            /\ UNCHANGED subscribed
    /\ UNCHANGED <<row, serving, timer, fired>>

\* handleRefresh has found the caller's subscription.
RefreshFeed(r, f) ==
    /\ serving /\ crawls[r] = Idle
    /\ f \in subscribed
    /\ crawls' = [crawls EXCEPT ![r] =
                    [stage |-> "ready", feed |-> f, age |-> 0, created |-> FALSE]]
    /\ UNCHANGED <<row, subscribed, serving, timer, fired>>

\* CrawlFeed: GetFeed, which may no longer find the row, and the crawl.
CrawlFeed(r) ==
    /\ crawls[r].stage = "ready"
    /\ crawls' = [crawls EXCEPT ![r] =
                    IF @.feed \in DOMAIN row THEN StartedCrawl(@.feed, row[@.feed])
                                             ELSE Idle]
    /\ UNCHANGED <<row, subscribed, serving, timer, fired>>

\* CrawlAll takes every feed, subscribed or not, stopped or not.
CrawlAll(r, f) ==
    /\ crawls[r] = Idle
    /\ f \in DOMAIN row
    /\ crawls' = [crawls EXCEPT ![r] = StartedCrawl(f, row[f])]
    /\ UNCHANGED <<row, subscribed, serving, timer, fired>>

\* An OPML import that does not crawl, or a client that disconnects.
RequestEnds(r) ==
    /\ crawls[r].stage \in {"upserted", "ready"}
    /\ crawls' = [crawls EXCEPT ![r] = Idle]
    /\ UNCHANGED <<row, subscribed, serving, timer, fired>>

\* The last subscriber of f leaves.
Unsubscribe(f) ==
    /\ serving /\ f \in subscribed
    /\ subscribed' = subscribed \ {f}
    /\ UNCHANGED <<row, crawls, serving, timer, fired>>

----------------------------------------------------------------------------
(* crawlOne: from the answer of the server to the end of the crawl.        *)

\* The row after UpdateFeedAfterFetch.  Both times are those of the start of
\* the crawl, and no row is no error.
Fetched(c, interval, errors) ==
    [f \in DOMAIN row |->
        IF f # c.feed THEN row[f]
        ELSE [interval |-> interval, due |-> interval - c.age,
              errors |-> errors, idle |-> Smaller(c.age, OrphanGrace + 1)]]

ErrorCount(c) == IF c.feed \in DOMAIN row THEN row[c.feed].errors ELSE 0

Ends(s) ==
    /\ crawls' = [crawls EXCEPT ![s] = Idle]
    /\ UNCHANGED <<subscribed, serving, timer, fired>>

\* An error count that is taken from the snapshot, too.
BookedMut(s, retryAfter) ==
    LET c == crawls[s]
    IN  /\ row' = Fetched(c, NextIntervalOnError(c.interval, c.errors + 1, retryAfter),
                          Smaller(c.errors + 1, StopCount))
        /\ Ends(s)

\* fail() books an error on the feed: error_count is incremented in the row,
\* up to the bound where it stops mattering, but the interval comes from the
\* snapshot.
Booked(s, retryAfter) ==
    LET c == crawls[s]
    IN  /\ row' = Fetched(c, NextIntervalOnError(c.interval, c.errors + 1, retryAfter),
                          Smaller(ErrorCount(c) + 1, StopCount))
        /\ Ends(s)

\* A network error, a status other than 200, or a body that does not parse.
Fail(s, retryAfter) ==
    /\ crawls[s].stage = "fetching"
    /\ Booked(s, retryAfter)

\* A page that is read but not extracted: whether the page, its configuration
\* or reading feedla's own scrape_sources row is at fault, fail() books it.
ExtractionFails(s) ==
    /\ crawls[s].stage = "fetching"
    /\ Booked(s, 0)

Gone(s) ==
    LET c == crawls[s]
    IN  /\ c.stage = "fetching"
        /\ row' = Fetched(c, NextIntervalOnError(c.interval, c.errors + 1, 0), StopCount)
        /\ Ends(s)

NotModified(s) ==
    LET c == crawls[s]
    IN  /\ c.stage = "fetching"
        /\ row' = Fetched(c, NextIntervalOnSuccess(c.interval, FALSE), 0)
        /\ Ends(s)

UpsertEntries(s, new) ==
    /\ crawls[s].stage = "fetching"
    /\ crawls[s].feed \in DOMAIN row
    /\ crawls' = [crawls EXCEPT ![s].stage = "written", ![s].new = new]
    /\ UNCHANGED <<row, subscribed, serving, timer, fired>>

RecordSuccess(s) ==
    LET c == crawls[s]
    IN  /\ c.stage = "written"
        /\ row' = Fetched(c, NextIntervalOnSuccess(c.interval, c.new), 0)
        /\ Ends(s)

\* A write to the store fails (UpsertEntries, the scrape state, or
\* UpdateFeedAfterFetch itself, after a success or an error): the feeds row
\* stays as it is.  So it does when the context of the crawl is cancelled or
\* its process is killed.
InternalError(s) ==
    /\ crawls[s].stage \in {"fetching", "written"}
    /\ Ends(s)
    /\ UNCHANGED row

\* The server stops, by a signal, a restore or a crash, and what it has in
\* flight is lost; commands are processes of their own.
Stop ==
    /\ serving
    /\ serving' = FALSE /\ timer' = TickInterval /\ fired' = FALSE
    /\ crawls' = [s \in Slot |-> IF s \in Command THEN crawls[s] ELSE Idle]
    /\ UNCHANGED <<row, subscribed>>

\* Scheduler.Run: the new ticker fires a full interval later for the first time.
Start ==
    /\ ~serving
    /\ serving' = TRUE /\ timer' = TickInterval /\ fired' = FALSE
    /\ UNCHANGED <<row, subscribed, crawls>>

----------------------------------------------------------------------------
(* Maintenance and time.                                                   *)

\* A grace period measured from last_fetched_at alone: a feed that was never
\* fetched has none.
OrphansMut ==
    {f \in DOMAIN row \ subscribed : row[f].idle >= 0}

Orphans == {f \in DOMAIN row \ subscribed : row[f].idle > OrphanGrace}

DeleteOrphanFeeds ==
    /\ serving /\ Orphans # {}
    /\ row' = [f \in DOMAIN row \ Orphans |-> row[f]]
    /\ UNCHANGED <<subscribed, crawls, serving, timer, fired>>

\* What is still to be written puts no feed further back than CrawlTime before
\* now.  Beyond that a feed counts by its place in ORDER BY next_fetch_at alone,
\* and time moves it on only to make room for one that comes after it.
MovesOn(f) ==
    \A due \in row[f].due..(-CrawlTime) : \E g \in DOMAIN row : row[g].due = due

\* An idle Scheduler takes a tick at once, a tick that finds the channel full
\* is dropped, and nothing stays in flight longer than CrawlTime.
Advance ==
    /\ serving /\ fired => SchedulerBusy
    /\ \A s \in Slot : crawls[s] # Idle => crawls[s].age < CrawlTime
    /\ row' = [f \in DOMAIN row |->
                 [row[f] EXCEPT !.due = IF MovesOn(f) THEN @ - 1 ELSE @,
                                !.idle = Smaller(@ + 1, OrphanGrace + 1)]]
    /\ crawls' = [s \in Slot |->
                    IF crawls[s] = Idle THEN Idle
                    ELSE [crawls[s] EXCEPT !.age = @ + 1]]
    /\ timer' = IF ~serving THEN timer ELSE IF timer = 1 THEN TickInterval ELSE timer - 1
    /\ fired' = (fired \/ (serving /\ timer = 1))
    /\ UNCHANGED <<subscribed, serving>>

----------------------------------------------------------------------------

CrawlStep(s) ==
    \/ \E after \in RetryAfters \cup {0} : Fail(s, after)
    \/ ExtractionFails(s)
    \/ Gone(s)
    \/ NotModified(s)
    \/ \E new \in BOOLEAN : UpsertEntries(s, new)
    \/ RecordSuccess(s)
    \/ InternalError(s)

SubscribeStep(r) ==
    \/ \E f \in Feed, interval \in {DefaultInterval, ScrapeInterval} :
          \E jitter \in 0..(interval - 1) : UpsertFeed(r, f, interval, jitter)
    \/ UpsertSubscription(r)
    \/ RequestEnds(r)

RequestStep(r) == CrawlFeed(r) \/ \E f \in Feed : RefreshFeed(r, f)

CommandStep(r) == \E f \in Feed : CrawlAll(r, f) \/ CrawlDue(r, f)

Next ==
    \/ \E batch \in SUBSET Feed : ClaimDueFeeds(batch) \/ ClaimFails(batch)
    \/ \E s \in Slot : CrawlStep(s)
    \/ \E r \in Client : SubscribeStep(r)
    \/ \E r \in Request : RequestStep(r)
    \/ \E r \in Command : CommandStep(r)
    \/ \E f \in Feed : Unsubscribe(f)
    \/ Stop
    \/ Start
    \/ DeleteOrphanFeeds
    \/ Advance

Spec == Init /\ [][Next]_vars

----------------------------------------------------------------------------
(* Properties.                                                             *)

\* No feed is ever put further away than the greatest of the configured and
\* built-in intervals (the error ceiling of a day, unless an interval is
\* configured beyond it), and no stored interval falls below the least of
\* them except for a Retry-After: whichever of two overlapping crawls writes
\* last, and although error intervals are stored and compounded by the next
\* error.
SchedulingHorizon ==
    \A f \in DOMAIN row :
        /\ row[f].due =< Horizon
        /\ row[f].interval =< Horizon
        /\ row[f].interval >= LeastInterval \/ row[f].interval \in RetryAfters

\* A feed that a subscribe request has just created is still there when the
\* request's second transaction subscribes to it: the orphan collection, for
\* which it is a feed without subscribers, runs on created_at.
FreshFeedSurvives ==
    \A r \in Client :
        crawls[r].stage = "upserted" /\ crawls[r].created
            => crawls[r].feed \in DOMAIN row
====
