---------------------------- MODULE CrawlHistory ----------------------------
(***************************************************************************)
(* CrawlSchedule with what an observer of the crawler remembers, for the   *)
(* promises about delays, gaps and error counts.  Track selects what a run *)
(* needs.                                                                  *)
(***************************************************************************)
EXTENDS CrawlSchedule, TLC

CONSTANT Track    \* a subset of {"late", "since", "failures"}

\* The longest time the clock may move on between two ticks of a Scheduler
\* that is not stopped, and before its first.
LongestTick == Larger(CrawlTime, TickInterval)

\* How long a due feed may have to wait: until crawls that were under way when
\* it became due no longer write rows, for the tick after that, and for as many
\* ticks as the other feeds can fill.
WorstDelay ==
    2 * LongestTick - 1 + LongestTick * ((Cardinality(Feed) - 1) \div BatchLimit)

ASSUME HistoryAssumption == IsFiniteSet(Feed)

VARIABLES
    late,      \* feed -> time it has been due unclaimed, since the server last
               \*         started or a claim failed, up to WorstDelay + 1
    since,     \* feed -> time since its last claim, up to LeastInterval
    failures   \* feed -> crawls that ended in a failed fetch or extraction
               \*         since the last success, up to StopCount

hvars == <<vars, late, since, failures>>

HInit ==
    /\ Init
    /\ late = [f \in Feed |-> 0]
    /\ since = [f \in Feed |-> LeastInterval]
    /\ failures = [f \in Feed |-> 0]

\* The state an OPML import of every feed leaves, whatever the jitter.
ImportedInit ==
    /\ row \in [Feed -> [interval: {DefaultInterval}, due: 0..(DefaultInterval - 1),
                         errors: {0}, idle: {0}]]
    /\ subscribed = Feed
    /\ crawls = [s \in Slot |-> Idle]
    /\ serving = FALSE /\ timer = TickInterval /\ fired = FALSE
    /\ late = [f \in Feed |-> 0]
    /\ since = [f \in Feed |-> LeastInterval]
    /\ failures = [f \in Feed |-> 0]

ClaimedNow(f) == crawls[f] = Idle /\ crawls'[f] # Idle

\* The crawl in slot s is one of f and has its answer recorded by this step.
Answers(s, f) == crawls[s] # Idle /\ crawls[s].feed = f /\ crawls'[s] = Idle

FailedNow(f) ==
    \E s \in Slot :
        /\ Answers(s, f)
        /\ ExtractionFails(s) \/ \E after \in RetryAfters \cup {0} : Fail(s, after)

GoneNow(f) == \E s \in Slot : Answers(s, f) /\ Gone(s)

SucceededNow(f) ==
    \E s \in Slot : Answers(s, f) /\ (NotModified(s) \/ RecordSuccess(s))

Remember(kind, old, new) == IF kind \in Track THEN new ELSE old

ClaimFailed == \E batch \in SUBSET Feed : ClaimFails(batch)

\* Being crawled by a request or a command counts as being served, too.
LateAfter(f) ==
    IF \/ ~serving' \/ ClaimFailed
       \/ f \notin Due \cap Due' \/ row'[f].due > row[f].due THEN 0
    ELSE IF Advance THEN Smaller(late[f] + 1, WorstDelay + 1) ELSE late[f]

SinceAfter(f) ==
    IF f \notin DOMAIN row' THEN LeastInterval
    ELSE IF ClaimedNow(f) THEN 0
    ELSE IF Advance THEN Smaller(since[f] + 1, LeastInterval) ELSE since[f]

FailuresAfter(f) ==
    IF f \notin DOMAIN row' \/ SucceededNow(f) THEN 0
    ELSE IF GoneNow(f) THEN StopCount
    ELSE IF FailedNow(f) THEN Smaller(failures[f] + 1, StopCount) ELSE failures[f]

HNext ==
    /\ Next
    /\ late' = [f \in Feed |-> Remember("late", late[f], LateAfter(f))]
    /\ since' = [f \in Feed |-> Remember("since", since[f], SinceAfter(f))]
    /\ failures' = [f \in Feed |-> Remember("failures", failures[f], FailuresAfter(f))]

HSpec == HInit /\ [][HNext]_hvars

ImportedSpec == ImportedInit /\ [][HNext]_hvars

\* Time passes, ticks are taken, every fetch comes to an end (the HTTP client
\* has a timeout and the store answers or fails), and the claim does not fail
\* for ever: whether it does has nothing to do with which feed comes first, so
\* one that would take a feed again and again succeeds sometime.  Nothing is
\* assumed of requests, commands or how often the server stops.
Fairness ==
    /\ WF_hvars((\E batch \in SUBSET Feed : ClaimDueFeeds(batch) \/ ClaimFails(batch)) /\ HNext)
    /\ \A f \in Feed :
          SF_hvars((\E batch \in SUBSET Feed : f \in batch /\ ClaimDueFeeds(batch)) /\ HNext)
    /\ WF_hvars(Advance /\ HNext)
    /\ \A s \in Slot : WF_hvars(CrawlStep(s) /\ HNext)

ImportedFairSpec == ImportedSpec /\ Fairness

Symmetry == Permutations(Feed) \cup Permutations(Request) \cup Permutations(Command)

----------------------------------------------------------------------------

\* ORDER BY next_fetch_at and one batch at a time: a subscribed feed that is
\* due is claimed before WorstDelay has passed since it became due, the server
\* started or a claim failed, whichever came last, although the batch is
\* smaller than what is due, crawls take time, and other feeds come back with a
\* short Retry-After.
LiveFeedsKeepUp == \A f \in Feed : late[f] =< WorstDelay

\* Politeness to the publisher: two scheduled crawls of a feed start at least
\* the least interval apart, or the shortest Retry-After if that is less, up
\* to the time a crawl may be in flight, which is what a slow manual refresh
\* that started before the claim can take back.
ClaimGap ==
    [][\A f \in Feed, gap \in 0..LeastInterval :
          ClaimedNow(f) /\ (\A after \in RetryAfters : gap =< after) => since[f] >= gap - CrawlTime]_hvars

\* error_count is what gives a feed up: it is exactly the number of crawls
\* since the last success that ended in a failed fetch or extraction, however
\* many overlap and whatever row they started from.  A failed write of
\* feedla's own never counts; a failed read or configuration of a scraped page
\* does, as the code books it.
FailuresCounted == \A f \in DOMAIN row : row[f].errors = failures[f]

\* The Scheduler waits for the whole batch before it looks at the table
\* again, claims at most BatchLimit feeds, and loses the crawls of a batch when
\* the server stops after the claim: once the server stays up, a feed that
\* stays subscribed and is not given up is crawled again and again all the
\* same.
LiveFeedsAreCrawled ==
    \A f \in Feed : <>[](serving /\ Live(f)) => []<>(crawls[f] # Idle)
====
