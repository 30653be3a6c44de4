--------------------------- MODULE ScrapeHistory ---------------------------
(***************************************************************************)
(* ScrapeSources, with what the crawls have passed over on purpose         *)
(* remembered, and the pages and configurations the runs use.              *)
(***************************************************************************)
EXTENDS ScrapeSources

CONSTANTS WatchEvents, ListEvents  \* bounds: changes of page, configuration, program

VARIABLES
    events,  \* how many of them there have been
    quiet,   \* per crawl: what its page shows and its entries need not
    sealed   \* what crawls that wrote their entries have passed over

hvars == <<vars, events, quiet, sealed>>

Blocks(p) == ToSet(p)

KeysOf(blocks) == {b.key : b \in ToSet(blocks)}

\* A page watch passes over what the patterns hide and the cap cuts off, and
\* what is as it was; and everything when it has nothing to compare with or
\* the change does not count.
WatchQuiet(cfg, stored, p, out) ==
    IF stored = Absent \/ ~Diffable(cfg, stored) \/ (out.items = <<>> /\ out.state # Keep)
    THEN Blocks(p)
    ELSE {h \in Blocks(p) : h \ cfg.ignore = {}
                            \/ h \ cfg.ignore \in KeysOf(PrevBlocks(cfg, stored))}
         \cup ToSet(SubSeq(p, MaxBlocks + 1, Len(p)))

\* The first crawl of a list, and one that starts over, pass over the rest.
ListQuiet(stored, out) ==
    IF stored \in {Absent, Unreadable} /\ out.state # Keep
    THEN ToSet(out.state.seen) \ ToSet(out.items) ELSE {}

QuietNow(c) ==
    LET now == crawls'[c]
    IN  IF kind = "pagewatch"
        THEN WatchQuiet(source.config, source.state, now.page, now.out)
        ELSE ListQuiet(source.state, now.out)

HInit == Init /\ events = 0 /\ quiet = [c \in Crawl |-> {}] /\ sealed = {}

HNext ==
    /\ \/ \E c \in Crawl : CrawlStep(c) /\ UNCHANGED events
       \/ CreateScrapeSource /\ UNCHANGED events
       \/ /\ events < (IF kind = "pagewatch" THEN WatchEvents ELSE ListEvents) /\ events' = events + 1
          /\ UpdateScrapeSourceConfig \/ StateOutdated \/ PageChanges
    /\ quiet' = [c \in Crawl |->
          IF crawls'[c].at # "extracted" THEN {}
          ELSE IF At(c, "extracted") THEN quiet[c]
          ELSE QuietNow(c)]
    /\ sealed' = (sealed \cup
          UNION {quiet[c] : c \in {d \in Crawl : At(d, "extracted") /\ crawls'[d].at = "written"}})
              \ entries'

HSpec == HInit /\ [][HNext]_hvars

HFairSpec == HSpec /\ Fairness

Known == entries \cup sealed

-----------------------------------------------------------------------------

\* The blocks a page watch reports are the ones there are more of than in the
\* stored state, each as often as there are more, and the ones there are fewer
\* of: a block that only moved is not reported, one that is there twice is
\* reported for its second copy. Aligned (lcsDiffIdx) or counted (setDiffIdx),
\* the outcome is the same (computeDiff).
DiffExact ==
    (kind = "pagewatch" /\ source # NoSource /\ Diffable(source.config, source.state)) =>
        \A p \in WatchPages \cup {Reverse(q) : q \in WatchPages} :
            LET prev == PrevBlocks(source.config, source.state)
                curr == Comparable(source.config, p)
                d == ComputeDiff(prev, curr)
                Count(bs, k) == Cardinality({i \in DOMAIN bs : bs[i].key = k})
                Surplus(n) == IF n > 0 THEN n ELSE 0
            IN  \A k \in KeysOf(prev) \cup KeysOf(curr) :
                    /\ Count(d.added, k) = Surplus(Count(curr, k) - Count(prev, k))
                    /\ Count(d.removed, k) = Surplus(Count(prev, k) - Count(curr, k))

\* Nothing is remembered as dealt with before its entry has been written: the
\* stored state only holds blocks that were reported or passed over on purpose,
\* or links of articles that became entries or were sealed; and a validator
\* only goes with a watched page all of whose blocks were. A crawl that ends
\* early, and one that overwrites the state of another, therefore lose nothing
\* (crawlOne: entries, then state, then feed).
NothingMissed ==
    /\ (source # NoSource /\ source.state \notin {Absent, Unreadable}) =>
          IF kind = "pagewatch"
          THEN \A k \in KeysOf(source.state.blocks) :
                  \E h \in Known : h \ source.state.ignore = k
          ELSE ToSet(source.state.seen) \subseteq Known
    /\ (kind = "pagewatch" /\ etag # NoTag) => Blocks(etag) \subseteq Known

\* The memory of a list stays within its bounds and makes sense: no more than
\* MaxSeen links, none of them twice, none of them also waiting for a retry,
\* and no retry beyond MaxArticleRetries (CommitState, giveUp).
MemorySound ==
    (kind = "selector" /\ source # NoSource /\ source.state \notin {Absent, Unreadable}) =>
        LET seen == source.state.seen
            pending == source.state.pending
        IN  /\ Len(seen) =< MaxSeen /\ Cardinality(ToSet(seen)) = Len(seen)
            /\ \A u \in DOMAIN pending :
                  u \notin ToSet(seen) /\ pending[u] \in 1..(MaxArticleRetries - 1)

\* The articles on the list that have neither become entries nor been sealed.
Outstanding ==
    IF source = NoSource \/ kind = "pagewatch" THEN {}
    ELSE ToSet(ExtractCandidates(source.config, page)) \ Known

\* Once a list is left alone, every article on it becomes an entry in the end,
\* although one crawl takes on only max_items_per_crawl of them and even if its
\* page never loads (giveUp): as long as the server sends no validators.
ListDrains == (~tagged /\ Outstanding # {}) ~> (Outstanding = {})

\* The design's promise for every server: what a crawl does not take on, or
\* could not load, is a new candidate again at the next crawl, so that it is
\* put off and not lost.
DeferredNotDropped == (Outstanding # {}) ~> (Outstanding = {})

-----------------------------------------------------------------------------
(* The instances: a and b are texts, n a note the second configuration hides. *)

MCServers == {<<"pagewatch", TRUE>>, <<"selector", FALSE>>}

MCTaggedList == {<<"selector", TRUE>>}

MCWatchPages ==
    LET a == {"a"}  an == {"a", "n"}  b == {"b"}
    IN  {<<an, b>>, <<b, a, b>>, <<{}, a, an, b>>}

MCWatchConfigs ==
    {[ignore |-> {}, minChange |-> 0, additionsOnly |-> FALSE],
     [ignore |-> {"n"}, minChange |-> 2, additionsOnly |-> TRUE]}

MCListPages ==
    {<<"u1", "u2">>, <<"u3", "u3", "u1">>, <<"none", "self">>}

MCListConfigs ==
    {[sameHostOnly |-> TRUE, fulltext |-> TRUE, maxItems |-> 1],
     [sameHostOnly |-> FALSE, fulltext |-> TRUE, maxItems |-> 2]}
====
