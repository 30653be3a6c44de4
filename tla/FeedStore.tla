----------------------------- MODULE FeedStore -----------------------------
(***************************************************************************)
(* The relational core of feedla's store (internal/store): feeds, entries, *)
(* subscriptions with their cached unread_count, the per-user fan-out      *)
(* table user_entry_state, pins and ignore words.                          *)
(*                                                                         *)
(* Every write goes through Store.Write, a pool of exactly one connection, *)
(* so a transaction is one step.  The one operation of this module that is *)
(* two transactions, changing an ignore word and recomputing the flags it  *)
(* governs, is two steps with a request in between.                        *)
(*                                                                         *)
(* A table is a function from the keys of its rows to the rows.  The text  *)
(* of an entry is the set of ignore words it contains, which is all the    *)
(* store ever asks of it.                                                  *)
(***************************************************************************)
EXTENDS Naturals, FiniteSets

CONSTANTS
    User,          \* users.id
    FeedId,        \* feeds.id
    Guid,          \* entries.guid, unique within a feed
    Word,          \* the ignore words users may register
    MaxEntryId,    \* bound: the largest rowid entries may reach
    MaxNow,        \* bound: the last instant of the clock
    MaxRequests,   \* bound: ignore-word requests one user has in flight
    RetentionDays, \* FR_RETENTION_DAYS in clock units, 0 disables
    PerFeedLimit,  \* FR_RETENTION_PER_FEED, 0 disables
    OrphanGrace    \* orphanFeedGraceDays in clock units

ASSUME ConstantsAssumption ==
    /\ MaxEntryId \in Nat
    /\ MaxNow \in Nat \ {0}
    /\ MaxRequests \in Nat
    /\ RetentionDays \in Nat
    /\ PerFeedLimit \in Nat
    /\ OrphanGrace \in Nat

VARIABLES
    now,      \* time.Now() in clock units
    feeds,    \* feed -> COALESCE(last_fetched_at, created_at)
    entries,  \* entry -> its row
    subs,     \* user -> (feed -> unread_count)
    ues,      \* user -> (entry -> user_entry_state row)
    pins,     \* user -> pinned entries
    words,    \* user -> registered ignore words
    pending   \* user -> ignore-word requests whose recompute has not run

vars == <<now, feeds, entries, subs, ues, pins, words, pending>>

Time == 1..MaxNow
EntryId == 1..MaxEntryId

EntryRow == [feed: FeedId, guid: Guid, text: SUBSET Word,
             pub: Time, fetched: Time, created: Time]

StateRow == [feed: FeedId, pub: Time, created: Time,
             read: BOOLEAN, ignored: BOOLEAN]

\* What the crawler hands to UpsertEntries for one item of a feed document.
EntryInput == [text: SUBSET Word, pub: Time, dateMissing: BOOLEAN]

IsTable(t, Keys, Row) == DOMAIN t \subseteq Keys /\ t \in [DOMAIN t -> Row]

TypeOK ==
    /\ now \in Time
    /\ IsTable(feeds, FeedId, Time)
    /\ IsTable(entries, EntryId, EntryRow)
    /\ subs = [u \in User |-> subs[u]]
    /\ \A u \in User : IsTable(subs[u], FeedId, Nat)
    /\ ues = [u \in User |-> ues[u]]
    /\ \A u \in User : IsTable(ues[u], EntryId, StateRow)
    /\ pins \in [User -> SUBSET EntryId]
    /\ words \in [User -> SUBSET Word]
    /\ pending \in [User -> 0..MaxRequests]

EmptyTable == [k \in {} |-> k]

\* The state migrate() leaves behind in a fresh database.
Init ==
    /\ now = 1
    /\ feeds = EmptyTable
    /\ entries = EmptyTable
    /\ subs = [u \in User |-> EmptyTable]
    /\ ues = [u \in User |-> EmptyTable]
    /\ pins = [u \in User |-> {}]
    /\ words = [u \in User |-> {}]
    /\ pending = [u \in User |-> 0]

----------------------------------------------------------------------------
(* Queries the write operations share.                                     *)

KeepRows(t, Keys) == [k \in DOMAIN t \cap Keys |-> t[k]]

EntriesOf(f) == {e \in DOMAIN entries : entries[e].feed = f}

Subscribers(f) == {u \in User : f \in DOMAIN subs[u]}

PinnedEntries == UNION {pins[u] : u \in User}

\* EXISTS(SELECT 1 FROM ignore_words ...): a registered word of u occurs.
Matches(u, text) == words[u] \cap text # {}

Counted(row) == ~row.read /\ ~row.ignored

UnreadRows(rows, f) == {e \in DOMAIN rows : rows[e].feed = f /\ Counted(rows[e])}

\* refreshUnreadCount: recount the feeds F for all of their subscribers.
Refreshed(subsTable, uesTable, F) ==
    [u \in User |->
        [f \in DOMAIN subsTable[u] |->
            IF f \in F THEN Cardinality(UnreadRows(uesTable[u], f))
                       ELSE subsTable[u][f]]]

\* The n rowids SQLite hands out next: the ones after the largest in use.
\* The rowid of a deleted last row is handed out again.
NextIds(n) ==
    LET free == {i \in EntryId : \A e \in DOMAIN entries : e < i}
    IN  {i \in free : Cardinality({j \in free : j =< i}) =< n}

----------------------------------------------------------------------------
(* Feeds.                                                                  *)

Tick ==
    /\ now < MaxNow
    /\ now' = now + 1
    /\ UNCHANGED <<feeds, entries, subs, ues, pins, words, pending>>

\* UpsertFeed, the insert; for a known feed_url no column kept here changes.
UpsertFeed(f) ==
    /\ f \notin DOMAIN feeds
    /\ feeds' = [g \in DOMAIN feeds \cup {f} |-> IF g = f THEN now ELSE feeds[g]]
    /\ UNCHANGED <<now, entries, subs, ues, pins, words, pending>>

\* UpdateFeedAfterFetch: whatever the outcome, last_fetched_at is set.
UpdateFeedAfterFetch(f) ==
    /\ f \in DOMAIN feeds
    /\ feeds' = [feeds EXCEPT ![f] = now]
    /\ UNCHANGED <<now, entries, subs, ues, pins, words, pending>>

----------------------------------------------------------------------------
(* UpsertEntries.  A batch maps the guids of one feed document to the      *)
(* items; "first" is the guid of the first item without a date, and ids    *)
(* are handed out in document order.  A document that repeats a guid is    *)
(* two batches of the same instant: the second occurrence takes the UPDATE *)
(* branch against the row the first has just inserted.                     *)

Batch == UNION {[G -> EntryInput] : G \in SUBSET Guid \ {{}}}

\* normalizeItem: an item without a date, or with one in the future, is
\* stamped with the crawl's time.  The hour of tolerance it grants a future
\* date is below the resolution of the clock, whose unit is a day.
WellDated(batch) ==
    \A g \in DOMAIN batch :
        /\ batch[g].pub =< now
        /\ batch[g].dateMissing => batch[g].pub = now

DateMissing(batch) == {g \in DOMAIN batch : batch[g].dateMissing}

\* An INSERT that does not look for the guid.
NewGuidsMut(f, batch) == DOMAIN batch

NewGuids(f, batch) ==
    {g \in DOMAIN batch : \A e \in EntriesOf(f) : entries[e].guid # g}

\* guidOf numbers the new guids with the next rowids, in document order.
Numbering(f, batch, first, guidOf) ==
    LET new == NewGuids(f, batch)
    IN  /\ guidOf \in [NextIds(Cardinality(new)) -> new]
        /\ \A g \in new : \E i \in DOMAIN guidOf : guidOf[i] = g
        /\ \A i, j \in DOMAIN guidOf : guidOf[i] = guidOf[j] => i = j
        /\ \A i, j \in DOMAIN guidOf :
              guidOf[i] = first /\ batch[guidOf[j]].dateMissing => i =< j

\* An UPDATE that also overwrites published_at.
RevisedEntryMut(row, input) ==
    [row EXCEPT !.text = input.text, !.fetched = now, !.pub = input.pub]

\* The UPDATE branch: text and fetched_at, and nothing else.
RevisedEntry(row, input) == [row EXCEPT !.text = input.text, !.fetched = now]

InsertedEntry(f, g, input) ==
    [feed |-> f, guid |-> g, text |-> input.text,
     pub |-> input.pub, fetched |-> now, created |-> now]

InsertedState(u, f, g, input, first) ==
    [feed |-> f, pub |-> input.pub, created |-> now,
     read |-> input.dateMissing /\ g # first,
     ignored |-> Matches(u, input.text)]

UpsertEntries(f, batch, first, guidOf) ==
    /\ f \in DOMAIN feeds
    /\ entries' =
         [e \in DOMAIN entries \cup DOMAIN guidOf |->
            IF e \in DOMAIN guidOf
            THEN InsertedEntry(f, guidOf[e], batch[guidOf[e]])
            ELSE IF entries[e].feed = f /\ entries[e].guid \in DOMAIN batch
            THEN RevisedEntry(entries[e], batch[entries[e].guid])
            ELSE entries[e]]
    /\ ues' =
         [u \in User |->
            IF u \in Subscribers(f)
            THEN [e \in DOMAIN ues[u] \cup DOMAIN guidOf |->
                    IF e \in DOMAIN guidOf
                    THEN InsertedState(u, f, guidOf[e], batch[guidOf[e]], first)
                    ELSE ues[u][e]]
            ELSE ues[u]]
    /\ subs' = Refreshed(subs, ues', IF DOMAIN guidOf = {} THEN {} ELSE {f})
    /\ UNCHANGED <<now, feeds, pins, words, pending>>

----------------------------------------------------------------------------
(* Subscriptions.                                                          *)

\* A backfill that leaves the ignored column to its default.
BackfilledStateMut(u, e) ==
    [feed |-> entries[e].feed, pub |-> entries[e].pub,
     created |-> entries[e].created, read |-> FALSE, ignored |-> FALSE]

\* The row a new subscriber gets for an entry the feed already has.
BackfilledState(u, e) ==
    [feed |-> entries[e].feed, pub |-> entries[e].pub,
     created |-> entries[e].created,
     read |-> FALSE, ignored |-> Matches(u, entries[e].text)]

\* A fan-out with ON CONFLICT DO UPDATE in the place of DO NOTHING.
FannedOutMut(u, f) ==
    [e \in DOMAIN ues[u] \cup EntriesOf(f) |->
        IF e \in EntriesOf(f) THEN BackfilledState(u, e) ELSE ues[u][e]]

\* INSERT ... SELECT FROM entries ... ON CONFLICT DO NOTHING.
FannedOut(u, f) ==
    [e \in DOMAIN ues[u] \cup EntriesOf(f) |->
        IF e \in DOMAIN ues[u] THEN ues[u][e] ELSE BackfilledState(u, e)]

UpsertSubscription(u, f) ==
    /\ f \in DOMAIN feeds
    /\ ues' = [ues EXCEPT ![u] = FannedOut(u, f)]
    /\ subs' = Refreshed(
                 [subs EXCEPT ![u] =
                    [g \in DOMAIN subs[u] \cup {f} |->
                        IF g \in DOMAIN subs[u] THEN subs[u][g] ELSE 0]],
                 ues', {f})
    /\ UNCHANGED <<now, feeds, entries, pins, words, pending>>

\* An Unsubscribe that leaves the user_entry_state rows of the feed behind.
UnsubscribeMut(u, f) ==
    /\ f \in DOMAIN subs[u]
    /\ subs' = [subs EXCEPT ![u] = KeepRows(subs[u], FeedId \ {f})]
    /\ UNCHANGED <<now, feeds, entries, ues, pins, words, pending>>

\* Pins stay: they outlive the subscription they were made under.
Unsubscribe(u, f) ==
    /\ f \in DOMAIN subs[u]
    /\ subs' = [subs EXCEPT ![u] = KeepRows(subs[u], FeedId \ {f})]
    /\ ues' = [ues EXCEPT ![u] =
                 KeepRows(ues[u], {e \in DOMAIN ues[u] : ues[u][e].feed # f})]
    /\ UNCHANGED <<now, feeds, entries, pins, words, pending>>

----------------------------------------------------------------------------
(* Reading.  The three operations differ in the rows they select.          *)

MarkRead(u, rows, refresh) ==
    /\ ues' = [ues EXCEPT ![u] =
                 [e \in DOMAIN ues[u] |->
                    IF e \in rows THEN [ues[u][e] EXCEPT !.read = TRUE]
                                  ELSE ues[u][e]]]
    /\ subs' = Refreshed(subs, ues', refresh)
    /\ UNCHANGED <<now, feeds, entries, pins, words, pending>>

UnreadOf(u) == {e \in DOMAIN ues[u] : ~ues[u][e].read}

FeedsOfRows(u, rows) == {ues[u][e].feed : e \in rows}

\* ids the user has no row for are skipped.
MarkEntriesRead(u, ids) ==
    LET rows == ids \cap UnreadOf(u)
    IN  MarkRead(u, rows, FeedsOfRows(u, rows))

MarkAllEntriesRead(u) == MarkRead(u, UnreadOf(u), FeedsOfRows(u, UnreadOf(u)))

\* "before" 0 selects every unread row of the feed.
MarkFeedReadBefore(u, f, before) ==
    LET rows == {e \in UnreadOf(u) :
                    /\ ues[u][e].feed = f
                    /\ before = 0 \/ ues[u][e].pub =< before}
    IN  MarkRead(u, rows, IF rows = {} THEN {} ELSE {f})

----------------------------------------------------------------------------
(* Pins.                                                                   *)

AddPin(u, e) ==
    /\ e \in DOMAIN ues[u]
    /\ pins' = [pins EXCEPT ![u] = @ \cup {e}]
    /\ UNCHANGED <<now, feeds, entries, subs, ues, words, pending>>

RemovePin(u, e) ==
    /\ e \in pins[u]
    /\ pins' = [pins EXCEPT ![u] = @ \ {e}]
    /\ UNCHANGED <<now, feeds, entries, subs, ues, words, pending>>

----------------------------------------------------------------------------
(* Ignore words.  The change of the word list commits on its own; the      *)
(* recompute is a second transaction of the same request, and the request  *)
(* may end in between (client gone, process killed, database busy).        *)

ChangeWords(u, newWords) ==
    /\ pending[u] < MaxRequests
    /\ words' = [words EXCEPT ![u] = newWords]
    /\ pending' = [pending EXCEPT ![u] = @ + 1]
    /\ UNCHANGED <<now, feeds, entries, subs, ues, pins>>

AddIgnoreWord(u, w) == ChangeWords(u, words[u] \cup {w})

RemoveIgnoreWord(u, w) ==
    /\ w \in words[u]
    /\ ChangeWords(u, words[u] \ {w})

\* A recompute that recounts before it has updated the flags.
RecomputeIgnoredMut(u) ==
    /\ pending[u] > 0
    /\ pending' = [pending EXCEPT ![u] = @ - 1]
    /\ ues' = [ues EXCEPT ![u] =
                 [e \in DOMAIN ues[u] |->
                    [ues[u][e] EXCEPT !.ignored = Matches(u, entries[e].text)]]]
    /\ subs' = [subs EXCEPT ![u] = Refreshed(subs, ues, DOMAIN subs[u])[u]]
    /\ UNCHANGED <<now, feeds, entries, pins, words>>

RecomputeIgnored(u) ==
    /\ pending[u] > 0
    /\ pending' = [pending EXCEPT ![u] = @ - 1]
    /\ ues' = [ues EXCEPT ![u] =
                 [e \in DOMAIN ues[u] |->
                    [ues[u][e] EXCEPT !.ignored = Matches(u, entries[e].text)]]]
    /\ subs' = [subs EXCEPT ![u] =
                 Refreshed(subs, ues', DOMAIN subs[u])[u]]
    /\ UNCHANGED <<now, feeds, entries, pins, words>>

AbandonRecompute(u) ==
    /\ pending[u] > 0
    /\ pending' = [pending EXCEPT ![u] = @ - 1]
    /\ UNCHANGED <<now, feeds, entries, subs, ues, pins, words>>

----------------------------------------------------------------------------
(* Maintenance (the first three steps of maintenance.Runner.tick).         *)

\* DELETE FROM entries ... RETURNING feed_id, its ON DELETE CASCADE to
\* user_entry_state and pins, and a recount of every feed it touched.
DeleteEntriesAndRefresh(gone) ==
    /\ entries' = KeepRows(entries, EntryId \ gone)
    /\ ues' = [u \in User |-> KeepRows(ues[u], EntryId \ gone)]
    /\ pins' = [u \in User |-> pins[u] \ gone]
    /\ subs' = Refreshed(subs, ues', {entries[e].feed : e \in gone})
    /\ UNCHANGED <<now, feeds, words, pending>>

NobodyHasUnread(e) == \A u \in User : e \notin UnreadOf(u)

\* A selection that forgets the pins.
OldReadEntriesMut ==
    {e \in DOMAIN entries :
        /\ entries[e].fetched + RetentionDays < now
        /\ NobodyHasUnread(e)}

OldReadEntries ==
    {e \in DOMAIN entries :
        /\ entries[e].fetched + RetentionDays < now
        /\ NobodyHasUnread(e)
        /\ e \notin PinnedEntries}

DeleteOldReadEntries ==
    /\ RetentionDays > 0
    /\ OldReadEntries # {}
    /\ DeleteEntriesAndRefresh(OldReadEntries)

\* ORDER BY published_at DESC, id DESC.
Newer(table, a, b) ==
    /\ table[a].feed = table[b].feed
    /\ \/ table[a].pub > table[b].pub
       \/ table[a].pub = table[b].pub /\ a > b

\* A cap that cuts one row too early.
RowNumberMut(e) == Cardinality({a \in DOMAIN entries : Newer(entries, a, e)}) + 2

\* ROW_NUMBER() OVER (PARTITION BY feed_id ...).
RowNumber(e) == Cardinality({a \in DOMAIN entries : Newer(entries, a, e)}) + 1

ExcessEntries ==
    {e \in DOMAIN entries : RowNumber(e) > PerFeedLimit} \ PinnedEntries

TrimExcessEntries ==
    /\ PerFeedLimit > 0
    /\ ExcessEntries # {}
    /\ DeleteEntriesAndRefresh(ExcessEntries)

OrphanFeeds ==
    {f \in DOMAIN feeds : Subscribers(f) = {} /\ feeds[f] + OrphanGrace < now}

\* The cascade takes the entries of the feeds, and with them every pin.
DeleteOrphanFeeds ==
    /\ OrphanFeeds # {}
    /\ LET gone == {e \in DOMAIN entries : entries[e].feed \in OrphanFeeds}
       IN  /\ feeds' = KeepRows(feeds, FeedId \ OrphanFeeds)
           /\ entries' = KeepRows(entries, EntryId \ gone)
           /\ ues' = [u \in User |-> KeepRows(ues[u], EntryId \ gone)]
           /\ pins' = [u \in User |-> pins[u] \ gone]
    /\ UNCHANGED <<now, subs, words, pending>>

----------------------------------------------------------------------------

FirstOf(batch) ==
    IF DateMissing(batch) = {} THEN DOMAIN batch ELSE DateMissing(batch)

UpsertSomeEntries(f) ==
    \E batch \in Batch :
        /\ WellDated(batch)
        /\ \E first \in FirstOf(batch) :
             \E guidOf \in [NextIds(Cardinality(NewGuids(f, batch)))
                                -> NewGuids(f, batch)] :
                /\ Numbering(f, batch, first, guidOf)
                /\ UpsertEntries(f, batch, first, guidOf)

CrawlerStep ==
    \E f \in FeedId : UpdateFeedAfterFetch(f) \/ UpsertSomeEntries(f)

UserStep(u) ==
    \/ \E f \in FeedId : UpsertSubscription(u, f) \/ Unsubscribe(u, f)
    \/ \E ids \in SUBSET EntryId \ {{}} : MarkEntriesRead(u, ids)
    \/ MarkAllEntriesRead(u)
    \/ \E f \in FeedId, before \in 0..MaxNow : MarkFeedReadBefore(u, f, before)
    \/ \E e \in EntryId : AddPin(u, e) \/ RemovePin(u, e)
    \/ \E w \in Word : AddIgnoreWord(u, w) \/ RemoveIgnoreWord(u, w)
    \/ RecomputeIgnored(u)
    \/ AbandonRecompute(u)

MaintenanceStep ==
    DeleteOldReadEntries \/ TrimExcessEntries \/ DeleteOrphanFeeds

Next ==
    \/ Tick
    \/ \E f \in FeedId : UpsertFeed(f)
    \/ CrawlerStep
    \/ \E u \in User : UserStep(u)
    \/ MaintenanceStep

Spec == Init /\ [][Next]_vars

----------------------------------------------------------------------------
(* Properties.                                                             *)

\* Fan-out on write: a user has a user_entry_state row for exactly the
\* entries of the feeds they subscribe to, however crawls, subscriptions,
\* unsubscriptions and the three garbage collections interleave.  AddPin,
\* MarkEntriesRead and every list query take the row for the subscription.
FanOutExact ==
    \A u \in User :
        DOMAIN ues[u] = {e \in DOMAIN entries : entries[e].feed \in DOMAIN subs[u]}

\* subscriptions.unread_count is a cache no query ever checks: after every
\* transaction it equals the number of unread, not ignored rows of the feed.
UnreadCountExact ==
    \A u \in User : \A f \in DOMAIN subs[u] :
        subs[u][f] = Cardinality(UnreadRows(ues[u], f))

\* feed_id, published_at and created_at are copied into user_entry_state so
\* that lists need no join; the copies never drift from the entry, although
\* entries are rewritten by later crawls and backfilled by subscriptions.
CopiesAgree ==
    \A u \in User : \A e \in DOMAIN ues[u] :
        /\ e \in DOMAIN entries
        /\ ues[u][e].feed = entries[e].feed
        /\ ues[u][e].pub = entries[e].pub
        /\ ues[u][e].created = entries[e].created

\* The declared REFERENCES hold: no subscription or entry without its feed,
\* no pin without its entry.
ForeignKeys ==
    /\ \A e \in DOMAIN entries : entries[e].feed \in DOMAIN feeds
    /\ \A u \in User : DOMAIN subs[u] \subseteq DOMAIN feeds
    /\ \A u \in User : pins[u] \subseteq DOMAIN entries

\* UNIQUE(feed_id, guid): one document never yields two entries for an item.
GuidUnique ==
    \A a, b \in DOMAIN entries :
        entries[a].feed = entries[b].feed /\ entries[a].guid = entries[b].guid
            => a = b

\* The inductive invariant of the store.
StoreInv ==
    /\ TypeOK
    /\ FanOutExact
    /\ UnreadCountExact
    /\ CopiesAgree
    /\ ForeignKeys
    /\ GuidUnique

\* No write, in particular no re-subscription of a feed the user already
\* follows and no rewrite of an entry, turns a read row unread again.
ReadStep ==
    \A u \in User : \A e \in DOMAIN ues[u] \cap DOMAIN ues'[u] :
        ues[u][e].read => ues'[u][e].read

ReadNeverReverts == [][ReadStep]_vars

\* Whoever pinned an entry keeps it: only the deletion of its whole feed,
\* after the last subscriber has left, takes a pinned entry away.
PinStep ==
    \A e \in DOMAIN entries \ DOMAIN entries' :
        e \in PinnedEntries => entries[e].feed \notin DOMAIN feeds'

PinnedEntriesKept == [][PinStep]_vars

\* An entry some subscriber has not read disappears only to the per-feed
\* cap, and then PerFeedLimit newer entries of the feed remain.
UnreadStep ==
    \A e \in DOMAIN entries \ DOMAIN entries' :
        \/ NobodyHasUnread(e)
        \/ Cardinality({a \in DOMAIN entries' :
              Newer(entries, a, e)}) >= PerFeedLimit

UnreadLostOnlyToCap == [][UnreadStep]_vars
====
