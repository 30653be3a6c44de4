--------------------------- MODULE ScrapeSources ---------------------------
(***************************************************************************)
(* A site without a feed, subscribed by watching its page or by following  *)
(* its list of articles: the row in scrape_sources, the validator in the   *)
(* row of the feed, and the crawls that read and write them.               *)
(*                                                                         *)
(* A crawl claims the feed, fetches the page, reads the row, extracts, and *)
(* then writes in three transactions: the entries, the state, the feed.    *)
(* Scheduled and requested crawls overlap, any of them may end early, and  *)
(* meanwhile the page changes, its owner edits the configuration and an    *)
(* upgrade of the program outdates the state.                              *)
(*                                                                         *)
(* A page stands for its own validator: a server that sends validators     *)
(* answers 304 exactly when the page is the one the validator came with.   *)
(***************************************************************************)
EXTENDS PageWatch, Selector

CONSTANTS
    Crawl,           \* crawls that can run at a time
    Scheduled,       \* the one the scheduler makes; others are on request
    WatchPages,      \* what a watched page can show
    WatchConfigs,    \* the configurations a page watch is given
    ListPages,       \* what a list page can show
    ListConfigs,     \* the configurations a selector source is given
    Servers,         \* kinds of source, and whether the server sends validators
    NoTag,           \* no validator
    NoSource         \* no row in scrape_sources

ASSUME ScrapeAssumption ==
    /\ Scheduled \in Crawl
    /\ Foreign \subseteq Url /\ Self \in Url /\ NoLink \notin Url
    /\ MaxCandidates \in Nat /\ MaxSeen \in Nat /\ MaxCandidates =< MaxSeen
    /\ MaxArticleRetries \in Nat \ {0}
    /\ Servers \subseteq {"pagewatch", "selector"} \X BOOLEAN
    /\ NoTag \notin WatchPages /\ NoTag \notin ListPages
    /\ \A p \in WatchPages : p \in Seq(ToSet(p))
    /\ \A p \in ListPages : p \in Seq(ToSet(p))
    /\ {MaxBlocks, MaxStateBlocks, LcsBlockLimit} \subseteq Nat
    /\ \A cfg \in WatchConfigs, p \in WatchPages :
          Keep # MarshalState(cfg.ignore, Comparable(cfg, p))

VARIABLES
    kind,     \* scrape_sources.kind, which the prefix of feed_url repeats
    tagged,   \* the server sends validators
    page,     \* the page as the server has it
    source,   \* config and state of the row in scrape_sources
    etag,     \* feeds.etag
    entries,  \* what entries have been written for: blocks, or articles
    crawls    \* the crawls under way

vars == <<kind, tagged, page, source, etag, entries, crawls>>

Pages == IF kind = "pagewatch" THEN WatchPages ELSE ListPages
Configs == IF kind = "pagewatch" THEN WatchConfigs ELSE ListConfigs

Tag(p) == IF tagged THEN p ELSE NoTag

Idle == [at |-> "idle"]

At(c, step) == crawls[c].at = step

Goes(c, r) == crawls' = [crawls EXCEPT ![c] = r]

Init ==
    /\ \E s \in Servers : kind = s[1] /\ tagged = s[2]
    /\ page \in Pages
    /\ source = NoSource
    /\ etag = NoTag
    /\ entries = {}
    /\ crawls = [c \in Crawl |-> Idle]

-----------------------------------------------------------------------------
(* The row. *)

\* The feed has a row of its own before, from UpsertFeed: a crawl may come
\* between the two.
CreateScrapeSource ==
    /\ source = NoSource
    /\ \E cfg \in Configs : source' = [config |-> cfg, state |-> Absent]
    /\ UNCHANGED <<kind, tagged, page, etag, entries, crawls>>

\* handlePatchScrapeSource: the kind is never changed, the state is left.
UpdateScrapeSourceConfig ==
    /\ source # NoSource
    /\ \E cfg \in Configs \ {source.config} : source' = [config |-> cfg, state |-> source.state]
    /\ UNCHANGED <<kind, tagged, page, etag, entries, crawls>>

\* A program with another version of the state, or of the rules it was made
\* by, takes over.
StateOutdated ==
    /\ source # NoSource
    /\ source.state \notin {Absent, Unreadable}
    /\ source' = [config |-> source.config, state |-> Unreadable]
    /\ crawls' = [c \in Crawl |-> Idle]
    /\ UNCHANGED <<kind, tagged, page, etag, entries>>

PageChanges ==
    /\ page' \in Pages \ {page}
    /\ UNCHANGED <<kind, tagged, source, etag, entries, crawls>>

-----------------------------------------------------------------------------
(* A crawl. *)

\* The crawler reads the row of the feed and with it the validator.
Claim(c) ==
    /\ At(c, "idle")
    /\ Goes(c, [at |-> "claimed", etag |-> etag])
    /\ UNCHANGED <<kind, tagged, page, source, etag, entries>>

Matches(c) == tagged /\ crawls[c].etag = Tag(page)

\* 304: the feed's row gets the validator of the answer, nothing else is done.
NotModified(c) ==
    /\ At(c, "claimed") /\ Matches(c)
    /\ etag' = Tag(page)
    /\ Goes(c, Idle)
    /\ UNCHANGED <<kind, tagged, page, source, entries>>

FetchOK(c) ==
    /\ At(c, "claimed") /\ ~Matches(c)
    /\ Goes(c, [at |-> "fetched", page |-> page])
    /\ UNCHANGED <<kind, tagged, page, source, etag, entries>>

\* The results the row and the fetched page can give; for a list of articles
\* any of the article pages may fail to load.
Extractions(p) ==
    IF kind = "pagewatch"
    THEN {Extract(source.config, source.state, p)}
    ELSE {ExtractSelectorPage(source.config, source.state, p, failed) :
            failed \in SUBSET ToSet(ToProcess(source.config, source.state, p))}

\* extractPage, extractSelectorPage: the row is read once, before the fetches
\* of the articles. Without a row, or with nothing found on the page, the
\* crawl ends with an error that is recorded on the feed.
ExtractPage(c) ==
    /\ At(c, "fetched")
    /\ LET p == crawls[c].page
       IN  IF source = NoSource \/ p = <<>> THEN Goes(c, Idle)
           ELSE \E out \in Extractions(p) :
                    Goes(c, [at |-> "extracted", page |-> p, out |-> out])
    /\ UNCHANGED <<kind, tagged, page, source, etag, entries>>

\* What the entries for the items show: the added blocks, or the articles.
Shown(items) ==
    IF kind = "pagewatch"
    THEN UNION {{b.html : b \in ToSet(i.added)} : i \in ToSet(items)}
    ELSE ToSet(items)

UpsertEntries(c) ==
    /\ At(c, "extracted")
    /\ entries' = entries \cup Shown(crawls[c].out.items)
    /\ Goes(c, [at |-> "written", page |-> crawls[c].page, state |-> crawls[c].out.state])
    /\ UNCHANGED <<kind, tagged, page, source, etag>>

\* No state means that the stored one is left alone.
Stored(state) ==
    [config |-> source.config, state |-> IF state = Keep THEN source.state ELSE state]

UpdateScrapeSourceStateMut(c) ==
    /\ At(c, "extracted")
    /\ source' = Stored(crawls[c].out.state)
    /\ Goes(c, [at |-> "saved", page |-> crawls[c].page])
    /\ UNCHANGED <<kind, tagged, page, etag, entries>>

\* The state is written back whole, whatever has become of the row since it
\* was read.
UpdateScrapeSourceState(c) ==
    /\ At(c, "written")
    /\ source' = Stored(crawls[c].state)
    /\ Goes(c, [at |-> "saved", page |-> crawls[c].page])
    /\ UNCHANGED <<kind, tagged, page, etag, entries>>

\* The validator is stored last; a fetch without one leaves the old one.
UpdateFeedAfterFetch(c) ==
    /\ At(c, "saved")
    /\ etag' = IF tagged THEN Tag(crawls[c].page) ELSE etag
    /\ Goes(c, Idle)
    /\ UNCHANGED <<kind, tagged, page, source, entries>>

\* A fetch or a write fails, the request is cancelled or the process ends.
Abort(c) ==
    /\ ~At(c, "idle")
    /\ Goes(c, Idle)
    /\ UNCHANGED <<kind, tagged, page, source, etag, entries>>

CrawlStep(c) ==
    \/ Claim(c) \/ NotModified(c) \/ FetchOK(c) \/ ExtractPage(c)
    \/ UpsertEntries(c) \/ UpdateScrapeSourceState(c) \/ UpdateFeedAfterFetch(c) \/ Abort(c)

Next ==
    \/ CreateScrapeSource \/ UpdateScrapeSourceConfig \/ StateOutdated \/ PageChanges
    \/ \E c \in Crawl : CrawlStep(c)

Spec == Init /\ [][Next]_vars

\* The scheduler keeps claiming the feed and no crawl stays at a step for ever;
\* a fetch or a write that is tried again and again succeeds again and again.
\* For the extraction this is stated by the stages before and after it, since
\* it is enabled exactly at the one and the only way to the other.
Extractable(c) == At(c, "fetched") /\ source # NoSource /\ crawls[c].page # <<>>

Fairness ==
    /\ WF_vars(Claim(Scheduled) \/ NotModified(Scheduled) \/ UpdateFeedAfterFetch(Scheduled))
    /\ SF_vars(FetchOK(Scheduled))
    /\ []<>~At(Scheduled, "fetched")
    /\ []<>Extractable(Scheduled) => []<>At(Scheduled, "extracted")
    /\ SF_vars(UpsertEntries(Scheduled))
    /\ SF_vars(UpdateScrapeSourceState(Scheduled))
====
