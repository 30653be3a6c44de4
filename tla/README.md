# A TLA+ development for feedla

feedla is a multi-user feed reader: one Go process with a SQLite database, a
crawler, a JSON API, a maintenance goroutine and a single-page client. This
directory holds specifications of its core written from the source, TLC
configurations that check them on small instances, and TLAPS proofs of what
matters most for every instance. `PROJECT.json` lists components, runs, mutants,
the correspondence between definitions and source lines, hazards, findings and
theorems.

    tlc -workers 2 -config FeedStoreGC.cfg FeedStoreHistory   # a run
    tlapm FeedStoreProofs.tla                                 # a proof module

## 1. The system

| Component | State | Operations | Interacts with |
|---|---|---|---|
| Store (`internal/store`) | SQLite tables: feeds, entries, subscriptions with a cached `unread_count`, `user_entry_state` (one row per subscriber and entry), pins, ignore words, users, sessions, ... | transactions through `Store.Write`, a pool of exactly one connection; queries through `Store.Read` | everything |
| Crawler (`internal/crawler`) | crawls in flight, each with the feeds row it was handed | `crawlOne`: fetch, `UpsertEntries`, `UpdateFeedAfterFetch` | store, host semaphore, publishers |
| Scheduler | a ticker | `ClaimDueFeeds`, then wait for the whole batch | crawler, store |
| Host semaphore | per host: a channel, `lastStart` | `Acquire`, `Release`, `GC` | every HTTP request |
| Requests (`internal/api`) | sessions, limiters | subscribe (upsert the feed, subscribe, crawl), refresh, read marks, pins, ignore words, setup, restore | store, crawler, serve command |
| Maintenance (`internal/maintenance`) | a ticker | three garbage collections, session expiry, the daily snapshot | store, backup files, bucket |
| Restore (`internal/restore`), remote backup | database file, staged file, snapshots on two sides | `IfMissing`, `Latest`, `Fetch`, `PromoteStaged`, `Store`, `prune` | serve command |
| Serve command (`cmd/feedla`) | the restart loop, `restoreCh`, `errCh` | boot, run, wind down, promote | all of the above |
| Accounts (`users.go`, `sessions.go`, `api_tokens.go`, `invitations.go`, `internal/api/auth*.go`) | users, sessions, API tokens, invitations | setup, login, password change, create, patch, invite, accept | every request, through the middleware |
| Limiters (`internal/auth`, `internal/inspect`) | per account, per address and per user counters; held pages, all in memory | allow, record; issue, consume | login and inspection requests |
| Scrape sources (`internal/extract`, `scrape_sources.go`, `crawler/scrape*.go`) | configuration and last state of a watched page or list | extract, commit; create, patch | crawler, publishers |
| Reader (`web/src/state`) | selection, list on display, load token, prefetched lists, pending read marks, timers | select, load, mark read optimistically, flush, unload, reload | API |

What is hard in it, component by component, and the properties that make it
correct:

* **Store.** `unread_count` is a cache which every write path has to keep
  exact; the fan-out table has to agree with subscriptions and entries at every
  commit; changing an ignore word is two transactions; collections must not
  take what a user pinned or has not read. → `StoreInv` (with `FanOutExact`,
  `UnreadCountExact`), `FlagsAccountedFor`, `ReadNeverReverts`,
  `ReadUnlessCollected`, `PinnedEntriesKept`, `UnreadLostOnlyToCap`.
* **Crawl schedule.** A crawl computes the next interval from a snapshot of the
  row taken when it started; claims, other crawls, stops of the server and orphan
  deletion go on meanwhile, and a claim can fail or lose its crawls. →
  `SchedulingHorizon`, `ClaimGap`, `FailuresCounted`, `FreshFeedSurvives`,
  `LiveFeedsKeepUp`, `LiveFeedsAreCrawled`.
* **Host semaphore.** Three critical sections with a send and a sleep between
  them, and a collector that drops channels. → `AtMostMaxPerHost`,
  `BurstBounded`, `EveryoneGetsThrough`.
* **Life of the database file.** Crashes between any two file operations, an
  unreachable bucket, a lost volume, restore requests that outlive the run they
  belong to. → `NothingTorn`, `NoEmptySnapshots`, `NoFreshStart`, `NewestKept`,
  `SnapshotsInOrder`, `CommitsAreBackedUp`.
* **Accounts.** Handlers act on rows the middleware read earlier, and make
  several transactions with others in between. → `AccessKept` (the refinement of
  `Access`), `AdminAlwaysLeft`, `EarlierSessionsEnd`, `InvitationOnce`.
* **Limiters.** Permission is asked for in one critical section and the outcome
  recorded in another; expired pages are dropped lazily. → `GuessesPerWindow`,
  `BackoffHolds`, `HeldPagesBounded`.
* **Scrape sources.** A diff of sequences with repeated and moved blocks by two
  algorithms; a state read early and written back whole; entries, state and
  validator in three transactions. → `DiffExact`, `NothingMissed`,
  `MemorySound`, `ListDrains`.
* **Reader.** Answers in any order, batches of marks that fail, tabs that are
  hidden, closed and reloaded. → `ShowsSelection`, `NoStaleList`,
  `NoStuckSpinner`, `MarksKept`, `MarksDelivered`.

## 2. The modules

### FeedStore (with FeedStoreHistory, FeedStoreProofs)

A table is a function from keys to rows: `feeds`, `entries`, `subs[user]` (the
feed's `unread_count`), `ues[user]` (`user_entry_state`), `pins`, `words`. Since
all writes share one connection, a transaction is one action: `UpsertFeed`,
`UpsertEntries` (insert, update, fan-out and count refresh of a whole document,
with repeated guids and missing dates), `UpdateFeedAfterFetch`,
`UpsertSubscription` with its backfill, `Unsubscribe`, `MarkEntriesRead`,
`MarkAllEntriesRead`, `MarkFeedReadBefore`, `AddPin`, `RemovePin`,
`AddIgnoreWord`/`RemoveIgnoreWord` followed by `RecomputeIgnored` (or by
`AbandonRecompute`: the request ends between the two), and the three
collections. The text of an entry is the set of ignore words in it. Rowids are
handed out as SQLite does without AUTOINCREMENT: the id of a deleted last row
comes back.

`FeedStoreHistory` remembers the rows whose flag is known to be out of date, the
items (a feed and a guid, whatever the rowid) that each user has read and no
collection has taken since. `Track` selects what a run pays for.

### CrawlSchedule (with CrawlHistory, CrawlProofs)

The scheduling columns of each feed, relative to the present: distance to
`next_fetch_at`, interval, `error_count`, time since the last activity.
`Advance` lets a unit pass for everything at once, so behaviours are unbounded
although the state is finite: of feeds that are overdue by more than a crawl can
take, only the order is kept (`MovesOn`), which is all the claim looks at.
Slots hold crawls: the Scheduler's (one per feed) and those of clients, each
carrying the row it started from and its age, at most `CrawlTime`. A client is a
request, which needs the server, or a process of the command line (`Command`:
`crawl`, `crawl --due`, `import-opml`), which does not.

The ticker is `timer`, the time until it fires, and `fired`, its channel with
room for one tick: a tick that finds it full is dropped, and an idle Scheduler
takes it out at once. `Start` is `Scheduler.Run`, whose first tick comes a full
`TickInterval` later; `Stop` ends the server with all it has in flight, for any
length of time. `ClaimDueFeeds` takes a tick and claims (oldest first, at most
`BatchLimit`, pushing `next_fetch_at` by the stored interval); `ClaimFails` is the
error path of `tick`, with the claim written or not, and loses the tick.

Every outcome of a crawl is an action: 304, success with or without a new entry,
410, and what ends in `fail()` and is booked on the feed (`Booked`): an error of the
network, the status or the body (`Fail`), and any failure while a page is
extracted (`ExtractionFails`), which includes a failed read of feedla's own
`scrape_sources` row or its configuration. `InternalError` is what the code does
not book: a write of entries, state or row that fails, or the end of the
crawl's context or process. Further actions are the three steps of a subscribe
request, refresh, unsubscribe and the orphan collection. A restore replaces the
table; that is BackupRestore's subject and not followed here.

`CrawlHistory` remembers what has passed since the last claim, the failed fetches
and extractions since the last success, and how long each feed has been due,
counted from when it became due, the server started or a claim failed.
`WorstDelay` is what a feed may then have to wait: until crawls under way when it
became due are over, for the tick after that, and for one more with every full
batch of other feeds.

### HostSemaphore (with SemaphoreHistory, HostSemaphoreProofs)

One host, any number of goroutines. `Acquire` is four steps (take the channel
from the map, send on it, read `lastStart` and compute the wait, write
`lastStart` and start), each of which can be cancelled where the code selects
on the context; `Release`; `GC`. Channels are numbered, so a goroutine can hold
one the map has already dropped. `SemaphoreHistory` remembers the starts of the
last gap.

### BackupRestore (with BackupHistory, BackupRestoreProofs)

A file is the number of the last user commit in it, or `NoFile`, `Torn`,
`Pending` (migrated, nobody has set it up). `phase` follows `cmdServe` and
`runServe`: boot with `IfMissing`, the select between a signal and `restoreCh`,
the shutdown that waits for maintenance but only ten seconds for requests,
`PromoteStaged` in its two steps, and the next run in the same process.
Maintenance is a goroutine of its own (startup check, tick, VACUUM INTO with
rename, local prune, upload, remote prune). Restore requests go through check,
`Latest`, copy, rename and send; one that outlives its run keeps the channel of
that run. Faults: the process dies anywhere, a write fails, the volume is lost
with or without the local snapshots; listing and uploading may fail at any time.
Two requests that copy at once leave either a whole or a torn file: the second
`os.Create` truncates what the first has written, the first goes on at its
offset.

`BackupHistory` remembers whether a restore has gone behind what existed: it
fell back to an older local snapshot because the bucket was unreachable, or
replaced a database that had been set up.

### Access, Accounts (with AccountsHistory, AccountsProofs)

`Access` is what accounts promise, without tables or requests: who takes part,
who administers, as whom a credential acts. A step concerns one account; a
credential never passes from one account to another, acts only while its
account takes part, and stops with it; an administrator is always left.

`Accounts` has the four tables and the requests under way. A handler that makes
one transaction is one action; login (`LoginCheck`, `Rehash`, `StartSession`),
setup, the password change (`ChangePassword`, `DeleteAllSessionsForUser`) and
the patch of an account (`PatchAdmin`, `PatchDisabled`) are requests that stop
at several places, carry what they read at the first, and may end at each
(`Abandon`). `Authenticate` is the middleware: it hands the handler the row as it
is then. What a session or a token acts as (`ActsAs`) is the join both lookups
make. `Abstract` is the refinement mapping: members are the accounts that exist
and are enabled, `acts` is `ActsAs` for every credential.

`AccountsHistory` remembers the sessions that were open when the password of
their account was changed or the account disabled.

### Extraction, PageWatch, Selector, ScrapeSources (with ScrapeHistory, ScrapeProofs)

`PageWatch` and `Selector` are the two extraction methods as operators, over
what they share in `Extraction`: the answers that are no state, and loops that
copy some elements of a slice to another, as picking by position. A block
is the set of the parts it is made of, a part being what an ignore pattern
matches or leaves alone; a key is what the patterns leave of it. `LcsDiffIdx` is
the table of the longest common subsequence (`LcsLengths`) and the walk through
it (`Aligned`) as recursive functions, `SetDiffIdx` the count that replaces it above `lcsBlockLimit`,
`CancelCommonKeys` what makes moved blocks disappear. A list page is the
sequence of the links of its items; `CommitState` is the five rules for the
memory of links.

`ScrapeSources` extends both with a row of `scrape_sources`, the validator of
the feed's row and the crawls under way: claim, fetch or 304, extraction from
the row as it is then, and the three writes, with `Abort` anywhere. Meanwhile
the page changes, the configuration is patched, and an upgrade makes the stored
state unreadable. `ScrapeHistory` remembers what crawls passed over on purpose
(a first look, hidden by a pattern, too small a change), so that `NothingMissed`
can say that the rest has an entry.

### Limiters (with LimitersHistory, LimitersProofs)

The login limiter, the action limiter and the inspection tokens with a clock.
Each method is an action; a request is between `Allow` and `RecordFailure` or
`RecordSuccess` for any time, and between the quota and `Issue` for at most the
time of a fetch. The tokens held are a function, as the map in the code is; a
new token is one that is not held. `LimitersHistory` remembers the wrong guesses
of the last window and when the failures of an account began.

### Reader (with ReaderHistory, ReaderProofs)

JavaScript handlers run to their next await, so an action is a handler up to
there. `sel` is what is selected, `entries` the list on display, `loads` the list
requests under way with the token they were started with, `pending`, `timer` and
`posts` the read marks on their way. The server is external: it may answer in
any order. A batch of marks may fail before or after it took effect; of the
other requests that change something (`calls`), effect and answer are one step,
and one that fails had none. `Hide` sends a
beacon and the page lives on; `Reload` sends one and starts over at the same
route. Targets of a group are compared by identity, which the label stands for.

`ReaderHistory` remembers what was marked, what a lost beacon dropped, and what
the server knew when the newest list was asked for.

## 3. The runs

| Run | Module, cfg | Bounds | Shows |
|---|---|---|---|
| `store_words` | FeedStoreHistory, FeedStoreWords.cfg | 1 user, 2 feeds, 2 words, 2 requests in flight | fan-out, counts and flags exact at every commit, with overlapping word changes; reads never revert |
| `store_gc` | FeedStoreHistory, FeedStoreGC.cfg | 2 users, 1 feed, 2 guids, 3 instants, cap 1 | the whole invariant with all collections on; pins kept; unread lost only to the cap; an item read stays read under any rowid until a collection takes its entry |
| `crawl_overlap` | CrawlHistory, CrawlOverlap.cfg | 1 feed, the Scheduler, a request and a command, a Retry-After below the least interval | intervals, gaps, error counts and the fresh feed with three overlapping writers of a row, through stops of the server and failed claims |
| `crawl_served` | CrawlHistory, CrawlServed.cfg | 2 imported feeds, batches of 1, ticks of 2 units, a minimum interval above the maximum | no due feed waits longer than `WorstDelay` while the server runs; every live feed is crawled again and again |
| `hostsem` | SemaphoreHistory, HostSemaphore.cfg | 3 goroutines, capacity 2, 2 channels | concurrency and burst bounds, progress |
| `backup` | BackupHistory, Backup.cfg | 1 request, 3 days, 2 generations, 2 commits, 2 faults | the six properties of the database's life |
| `accounts` | AccountsHistory, Accounts.cfg | 3 accounts, 2 sessions, 1 token, 1 invitation, 2 requests | the refinement of Access, the last administrator, ended sessions, invitations used once |
| `scrape` | ScrapeHistory, Scrape.cfg | 2 crawls; 3 pages and 2 configurations of each kind; 2 changes of a watched page, 1 of a list | exact diff, nothing missed, a sound memory, lists drain |
| `limiter` | LimitersHistory, Limiters.cfg | 3 requests, 2 users, 1 address, clock up to 7 | bounds on guesses, backoff and held pages |
| `reader` | ReaderHistory, Reader.cfg | 2 feeds, 1 group, 1 query, 1 article, 2 lists per page life, 2 requests in flight, 1 batch | the right list, never an older one, no stuck spinner, marks kept and delivered |
| `restore_twice` | BackupRestore, RestoreTwice.cfg | 2 requests | *violation*: two restore requests stage a torn file |
| `selector_backlog` | ScrapeHistory, SelectorBacklog.cfg | 1 crawl, a list on a server with validators | *violation*: articles put off are not taken up while the list stays as it is |

Each property of a passing run has a mutant: a plausible slip in one mapped
definition (a refresh forgotten, an unclamped interval, `ORDER BY` dropped, a
capacity check missing, a copy straight to its destination, an error taken for
"not found") under which TLC finds that property violated.

**Why the bounds are enough.** Counts and flags are per user and feed; two of
either give every interaction the SQL has (recount of the wrong feed, of the
wrong user, pins of one user against deletions for another). Two word requests
are the least that overtake each other. Three instants separate "before",
"at" and "after" a cutoff. In the crawl model the only cross-feed coupling is
the batch, for which two feeds and batches of one suffice; the cross-crawl
coupling is the row, for which three writers are checked, one of them outliving
the server. Ticks of two units in `crawl_served` tell the time a tick may take to
come from the time a crawl takes, and a full channel from an empty one. Three goroutines at
capacity two have one waiting; two channels are the least that GC can confuse.
Three days with two generations make pruning happen, and two faults allow a
crash and a lost volume in one behaviour. Three accounts allow two
administrators who act on each other and a bystander; one password is enough,
since no property tells passwords apart and a client may always know the right
one; the constraint on credentials only keeps all three from existing at once.
The pages of `scrape` have repeated, moved, hidden and text-less blocks on both
sides of every limit (3 blocks compared, 2 stored, 2 aligned), the lists a
foreign link, a repeated one, the list itself and an item without a link at
two candidates, two remembered links and two retries. In `limiter` the three
requests exceed every limit and the clock passes three windows of 2; the halves
do not interact, so a behaviour exercises one. In `reader` a single article
suffices for what a list shows, since lists are handled as wholes, and two list
requests are the least that overtake each other; the last subscription stays
(its bound is named in the module), a page makes two list requests between reloads, which are unbounded, and a
prefetch is never of the selected feed. (`adjacentFeedId` can return that one when
`r` has made it start from the top, `subscriptions.ts:513-520`; its list then waits
in the cache until the feed is selected again, as one does that was prefetched
from another feed. The bound, like the others, holds in the proofs too, which do
not use it.) In `store_gc` a third rowid is enough for an
item to come back under another one than it had, and for a rowid to name two
items in turn. `store_words`, `store_gc`,
`crawl_overlap`, `accounts` and `limiter` use symmetry over sets of model values, with safety and
action properties only.

**Fairness.** `crawl_served` assumes that time passes, that a Scheduler which
can take a tick does (WF), that every crawl ends (WF: the HTTP client has a
timeout and the store answers or fails), and that a claim which would take a
feed again and again succeeds sometime (SF), since whether the statement fails
has nothing to do with the feed that comes first. Stops are not fair, and the
property speaks of servers that stay up in the end; nothing is assumed of
requests or commands. `hostsem`
assumes that sleeping goroutines wake up and running requests end, and that a
goroutine blocked on a channel with room is let in again and again (Go's
channels are FIFO). `backup` assumes only that the maintenance goroutine keeps
running while its process does; crashes, signals and failed writes are not
fair, and the property speaks of servers that stay up. `scrape` assumes that the
Scheduler's crawl keeps being made, that none of its steps takes for ever and
that a step which is tried again and again succeeds sometime; overlapping
crawls, edits and upgrades are not fair, and edits are bounded, so that the
list is left alone in the end. `reader` assumes that an armed timer fires,
that a batch under way comes to an end, and that one which is sent again and
again arrives sometime; users, answers to lists and reloads are not fair. Both
are WF and SF of the steps named; for the extraction of `scrape`, whose many
outcomes make the action costly to evaluate, it is stated by the stages before
and after it, which amounts to the same. Deadlock checking is off in the backup
runs, since a server that has stopped on the last day may stay stopped, and in
`limiter`, whose clock is bounded.

## 4. The proofs

Eight modules hold the theorems, each about one component and its history
module, for every value of the constants that satisfies the named assumptions.

* **FeedStoreProofs.** `StoreConsistent`: `Spec => []StoreInv`, for any users,
  feeds, guids, words, limits and clock. `UnreadCountExact` alone is not
  inductive: a collection deletes rows of `entries` and relies on the
  `user_entry_state` copies of feed and date (`CopiesAgree`), on the fan-out
  being exact (`FanOutExact`), on feeds not disappearing under entries
  (`ForeignKeys`) and on one entry per item (`GuidUnique`). The proof has one
  lemma per action, and lemmas for what `Refreshed` recounts. From it follow
  `CountsExact`, `FanOutHolds`, `ReadIsStable` and `PinsAreKept`.
  `OnlyTheCapTakesUnread` (`UnreadLostOnlyToCap`) needs that `ROW_NUMBER()` over
  "newest first" leaves at least `cap` rows of a feed that are newer than a row it
  cuts. That is a statement about the cardinality of initial segments; it is proved
  by taking the least row number for which it fails (`LeastNumber`), since the
  library's induction theorems cannot be used here. `FlagsAreRight`
  (`FlagsAccountedFor`) is about runs that track stale flags: whatever the order of
  word changes, recounts, abandoned recounts and rewritten entries, a flag
  that differs from the words is one the history holds as stale.
  `ReadItemsStayRead` (`ReadUnlessCollected`) follows items instead of rows: its
  invariant `KnownInv` says that an item known to be read still has an entry in
  which it is read. A step needs that an entry keeps its
  item (`ItemsStay`) and the reader his row while he is subscribed
  (`FanOutExact`), and that no read row becomes unread (`ReadStep`); that
  no second entry can show the item again is `GuidUnique`.
* **CrawlProofs.** `CrawlInv` is inductive: types, `SchedulingHorizon` (no row
  has an interval or a due date beyond the greatest of the five intervals, nor an
  interval below the least of them unless it is a Retry-After, which the doubling
  `2 ^ k` of the backoff keeps, and which clamping keeps even where the lower
  bound lies above the upper one), and `FreshFeedsActive`, the strengthening of
  `FreshFeedSurvives`: a feed a subscribe request has just made has been idle no
  longer than the request has run since and one `CrawlTime`, and the grace period
  of the collection is at least two of these. This gives `ScheduleCorrect`,
  `HorizonHolds` and `FreshFeedsSurvive`. `FailuresAreCounted` (`FailuresCounted`)
  is an equality that holds because `error_count` is counted in the statement that
  writes the row, so that a crawl adds to what the others have left there and
  never to its own old copy; `FailureInv` adds that a feed without a row has no
  failures. `CrawlsKeepTheirDistance` (`ClaimGap`) rests on `GapInv`: for
  every gap no longer than what may be stored as an interval, what is left until
  a feed is due makes up for what is missing of the gap since its last claim, but
  for the `CrawlTime` of a crawl that is older than the claim.
  `DelaysAreBounded` (`LiveFeedsKeepUp`) holds with any number of feeds and
  overlapping clients, and whatever stops and failed claims there were before.
  Its invariant `LateInv` adds up, for a feed that is due, what it has waited,
  what may pass before the next claim (`EnoughTime`, from the timer, the channel
  and the ages of the crawls a Scheduler waits for), and a
  `LongestTick` for every batch that the feeds ahead of it (`Ahead`) can fill, and keeps
  the sum within `WorstDelay`. A claim takes the feed, or a whole batch of those
  ahead of it, which then are no longer ahead (`PassedOver`); and once a feed has
  waited as long as a crawl may take, whatever is written to another row has a
  due date behind it (`NoneGetsAhead`).
* **HostSemaphoreProofs.** `ChannelsBounded`: no channel, dropped or not, ever
  has more holders than its capacity; `ConcurrencyBounded`: as long as the host
  has had one channel, at most `maxPerHost` requests run. The set of workers is
  any finite set. With a second channel the bound is lost, which is what GC can
  do (see below). `BurstsBounded` (`BurstBounded`) is what holds of the gap: the
  invariant `BurstInv` counts, for each age *a*, the starts of the last *a* units
  together with the workers whose timers fire while those still count
  (`Due`); each of these held a slot when the first of the starts was made, and
  who reads `lastStart` later is not due.
* **BackupRestoreProofs.** `BackupInv` is inductive: every copy is in `Good`
  (never `Pending`; never `Torn` when there is at most one restore request), the
  maintenance goroutine runs exactly while the store is open, so that what it
  found set up still is when it takes the snapshot, and what is being copied is
  a snapshot. It gives `BackupTypes`, `NoEmptySnapshotsEver` for any number of
  requests, and `OneRestoreNothingTorn` for one. `FreshOnlyWithoutSnapshots`
  (`NoFreshStart`) and `NewestIsKept` (`NewestKept`) are action properties from the
  same invariant; the latter takes the last of finitely many days, again as a
  least counterexample. `LaterIsNewer` (`SnapshotsInOrder`) has an invariant of
  its own, `OrderInv`: snapshots bear no day after today (`StampsInv`), hold no
  commit after the last (`CommitsInv`), a pass in progress carries the day it
  began on (`PassInv`), and unless a restore went behind, the database is at least
  as new as every snapshot (`NewestInv`).
* **AccountsProofs.** `AccountsInv` (types and `AdminAlwaysLeft`) is inductive:
  the administrator who is left is the one `EnsureNotLastAdmin` found in the same
  transaction, which is why requests admitted long before cannot matter.
  `AnAdministratorIsLeft` and `InvitationsUsedOnce` follow, and `ImplementsAccess`
  proves the refinement: each action maps to one step of `Access` on one account
  or leaves its variables alone. It has a lemma per kind of step (only passwords
  change; a credential begins or stops; an account joins, changes its standing,
  retires), so that an action is one case that picks the lemma. `OldSessionsEnd`
  (`EarlierSessionsEnd`) follows a session that was open at a password change or
  at a disabling to the transaction that deletes it.
* **ReaderProofs.** Two invariants. `ListsInv` relates the load token to the
  requests under way: only the newest one may pass the comparison after its
  await, and it was asked for the current selection, unless that shows no list or
  a request has failed; its answer shows nothing as unread that the server knew
  as read when it was asked for; from it `SelectionIsShown` (`ShowsSelection`),
  `NoOldListIsShown` (`NoStaleList`) and `SpinnerStops` (`NoStuckSpinner`).
  `MarksInv` is `MarksKept` and the fact that what has arrived of a batch is on
  the server, so that letting go of it loses nothing; it gives `NoMarkLost`.
* **LimitersProofs.** One invariant for each bound, all over any finite set of
  requests. `BackoffIsServed` (`BackoffHolds`): `BackoffInv` gives each check under
  way the weight of a failure, so that neither letting one in nor recording its
  outcome changes what has to have been waited. `GuessesAreBounded`
  (`GuessesPerWindow`): `GuessesInv` splits the guesses of the last window into
  those of the current fixed window and of the one before; when a window is
  renewed, the second have aged out and the first take their place.
  `HeldPagesAreFew` (`HeldPagesBounded`): `HeldInv` says that there are times at
  which the fetches of the pages held were allowed (an existential quantifier
  where a history variable would do, so that the run does not pay for it), such
  that no window let in more than its limit and everything from before the last
  two has expired; a page that is issued sweeps the expired ones, so that only
  then the count can grow, and then it is that of two windows.
* **ScrapeProofs.** First what picking by position gives (`PickFacts`,
  `PickCounts`, `InitialSegment`): as many elements, in their order, as there are
  positions. `DiffStaysExact` (`DiffExact`) then has three steps. A pair of sets
  of indices is `Balanced` from two positions on when for every key the added ones
  less the removed ones are what the pages have more of it from there on. Every
  cell of the walk through the table is balanced (`AlignedBalanced`): the cell
  nearest to the end that is not would follow from the next ones
  (`FallsOutBalanced`), *whatever numbers the table holds*, so that the diff is
  exact even where the alignment is not the longest. That the recursive function
  of the walk exists at all is shown in the same way (`WalkExists`). The count above
  `lcsBlockLimit` is balanced too (`SetBalanced`), and cancelling turns a balanced
  pair into the exact surplus of each side (`CancelExact`). `ScrapeInv` is the
  inductive invariant of the crawls: a validator, a stored state, and what a crawl
  carries from one step to the next speak only of blocks and links that have an
  entry or were passed over; a result not yet written speaks also of its own items,
  and while there is one there is a row to write it to. `WatchOutFits` and
  `ListOutFits` show that an extraction yields such a result; the first uses
  `DiffCounts` once more, for a block whose key is not in the old state is always
  among the added. From the invariant follow `NothingEverMissed` (`NothingMissed`)
  and `MemoryStaysSound` (`MemorySound`); that `Evicted` keeps to `MaxSeen` needs
  that a page has at most `MaxCandidates =< MaxSeen` candidates, which are spared.

The assumptions are those named in the modules (`ConstantsAssumption`,
`ScheduleAssumption`, `SemaphoreAssumption`, `BackupAssumption`,
`AccountsAssumption`, `ReaderAssumption`, `LimitersAssumption`,
`ScrapeAssumption`, `HistoryAssumption`): types of the
constants; a capacity, a gap, a limit and a number of generations of at least
one (0 would disable pruning or rationing, and with it everything a property
could say of it); a gap no longer than the idle time; an orphan's grace longer
than two crawls (days against minutes); a quota's window with room for a fetch
and the life of a token (an hour against minutes); slots of feeds and of requests
that are different things, and a null query that is none of the queries; room in
the memory of a list for the candidates of one page (2000 against 500), and a
"no state" that is no state; finitely many feeds. The intervals of the crawler are
at least one unit each and in no order: `config.go:151-156` takes
`FR_FETCH_MIN_INTERVAL` and `FR_FETCH_MAX_INTERVAL` as they come, and compares them
neither with each other nor with the built-in 1800 s, 3600 s and 24 h. (Values
at or below zero are replaced in `crawler.New`; a positive duration below one
second, which would be stored as 0, is outside of the assumption.) Five
theorems are about behaviours that remember enough: `FailuresAreCounted`,
`CrawlsKeepTheirDistance`, `DelaysAreBounded`, `FlagsAreRight` and
`ReadItemsStayRead` assume that `Track` holds the name of
their history variable, as the runs that check the same properties do.

Only model-checked: everything with fairness (`LiveFeedsAreCrawled`,
`EveryoneGetsThrough`, `CommitsAreBackedUp`, `ListDrains`, `MarksDelivered`),
which is out of this prover's reach; that `LcsLengths` are the lengths of longest
common subsequences, on which no property depends.

## 5. Findings and observations

The two violation runs are described under "findings" in `PROJECT.json`.
Further points met while modelling, without a run of their own:

* `docs/DESIGN.md:345-346` says that an article that has been read does not
  become unread when it is fetched again. `DeleteOldReadEntries` (`gc.go:15`)
  deletes read entries by `fetched_at`, which a 304 (`crawler.go:304-319`) leaves
  alone: once a feed has not changed for the retention period they are gone, and
  the next document that still lists them inserts them again (`entries.go:86`),
  unread for every subscriber. `ReadUnlessCollected` says that nothing but a
  collection does this.
* `gc.go:107-108` says that "last activity < before" is equivalent to "orphaned
  for at least that long". A feed with 20 errors is not fetched while it still
  has subscribers (`feeds.go:138`); when the last one leaves, its last fetch is
  already older than the grace period and the next tick deletes it, pins
  included.
* `hostsem.go:15-16` promises at least minGap between the starts of two requests
  to a host. `lastStart` is read in one critical section (62-64) and written in
  another (76-78): two goroutines may compute the same wait and start together.
  `BurstBounded` states what does hold.
* `auth.go:166-168` says that the restore only works while setup is pending. The
  check is made once, before the snapshot is fetched; a setup that completes
  meanwhile is answered with a session and then replaced by `PromoteStaged`.
* Accounts: a rehash in flight (`auth.go:288-292`) can write an old password over
  one changed meanwhile; a login that has verified the old password makes its
  session after the change or the disabling; API tokens survive both; a patch
  with both flags applies `is_admin` even if `is_disabled` is then refused; a
  password change that ends between its transactions keeps the old sessions
  (`EarlierSessionsEnd` excepts it).
* Limiters: the comment at `ratelimit.go:10-11` has the backoff start at one
  second, the code at two; a restart forgets everything, as the comment says.
* Page watch: changes below `min_change_chars` are absorbed one by one, however
  many there are; a block without text is never in a diff; a crawl that ended
  between entries and state reports the same change again, in revision mode
  under a new guid; of two overlapping crawls the older one may write the state
  last, with the same effect; a patched configuration is applied only when the
  page changes, since an unchanged one is answered 304.
* Selector: rule 5 (`selector/state.go:138-141`) means not to evict a link that
  the list still shows, but `Candidates` holds the new links only, so a seen
  link that is still listed can be evicted and come back as new.
* robots.txt: `pathMatches` (`robots.go:208-232`) takes the first occurrence of
  each piece; with a trailing `$` the last piece has to be the last occurrence,
  so `/*.php$` does not match `/a.php/b.php`.
* Reader: `entries.ts:63-64` takes `pendingReadIds` for exactly the reads the
  server does not know yet; while a batch is under way they are in neither, and
  a list asked for before may show them unread again. When the name of a folder
  comes in while its list loads, `url.ts:353` replaces the target, the loader's
  comparison fails and the list is thrown away. `unsubscribeFeed` asks before the
  await whether the feed is selected (`actions.ts:221`) and may empty the list of
  another one. Marks in a batch under way are lost with the tab if the batch
  fails.
* `ignore_words.go:10-12` describes the flag as following the word list; the
  UPDATE branch of `UpsertEntries` does not recompute it for a rewritten entry.
  `FlagsAccountedFor` says precisely which flags can be stale.
* `maintenance.go:55-56` speaks of trimming read, unpinned entries;
  `TrimExcessEntries` (`gc.go:37-50`) trims unread ones too, which
  `UnreadLostOnlyToCap` bounds.
* The comment at `crawler.go:134-139` says that feedla-side failures are never
  recorded in `error_count`, "so a feedla-side hiccup doesn't get blamed on the
  feed". That holds of the writes. A read of `scrape_sources` that fails, or a
  configuration that does not parse (`scrape.go:90-96`,
  `scrape_selector.go:29-40`), is an error of the extraction like a page without
  content, goes through `fail()` (`crawler.go:349-356`) and is counted;
  `FailuresCounted` counts it too.
* With a minimum interval configured above the maximum, `clampDuration` returns
  the minimum where an interval is too short and the maximum where it is too
  long, so a feed alternates between the two; with a maximum above a day an
  error brings a feed nearer. `SchedulingHorizon` and `ClaimGap` are stated for the
  least and the greatest of all intervals.
* `crawler.go:365-367`: a crawl that fails inside feedla is "retried on the
  next scheduler tick"; the claim has already pushed `next_fetch_at` by the
  interval (`feeds.go:144`).
* `hostsem.go:87-97`: GC can drop an empty channel between `chanFor` and the
  send; two channels of a host are then in use, and `AtMostMaxPerHost` is
  stated for hosts that have had one.
* The README of the repository says that a boot looks for local snapshots
  first and for remote ones only if there is none; the code takes the newer of
  both (as `docs/DESIGN.md` says).
* When the bucket is unreachable and an older local snapshot is restored, the
  next backup of the day overwrites a good remote one; `SnapshotsInOrder`
  excepts it.
* A crash inside `PromoteStaged` between removing the database and its `-wal`
  leaves the WAL behind, and `IfMissing` does not remove it. `-wal` and `-shm`
  are not modelled.

## 6. Not modelled

Queries that only read (listing, search, statistics, metrics), string and DOM
processing (XML, HTML, charsets, sanitising, cutting pages into blocks,
full-text and boilerplate heuristics), transport
(TCP, TLS, compression), configuration, rendering. Power failures: a rename is
taken to be durable, since the code does not sync. OPML files are pruned and
uploaded like snapshots and nothing reads them back, so they are left out; that
exporting them can fail and end the pass is in `EndVacuum`. The remote side is
taken to be configured; a deployment without it behaves like one whose bucket
is empty.

## 7. Plan

1. **Done:** FeedStore, CrawlSchedule, HostSemaphore, BackupRestore; Accounts
   with Access; PageWatch, Selector and ScrapeSources; Limiters; Reader.
2. **Proofs, done:** every safety property of the passing runs, with the
   refinement of Access. Liveness stays with TLC.
3. **Robots**: the group selection and the longest match against a reference
   definition of the pattern language, and the cache two crawls fill at once.
4. **Fetcher**: redirects across hosts holding and releasing slots, composed
   with HostSemaphore; the full-text budget.
5. **Reader**: counts, ratings and pins with answers out of order; ids that the
   store hands out again.
