------------------------------ MODULE Selector ------------------------------
(***************************************************************************)
(* What the selector method (internal/extract/selector and the crawler's   *)
(* scrape_selector.go) makes of one fetched list page: the article links   *)
(* that are new, which of them become entries in this crawl, and the next  *)
(* memory of links seen and of failed fetches.                             *)
(*                                                                         *)
(* A list page is the sequence of its outermost item_selector matches, an  *)
(* item being the normalised link it carries or NoLink.                    *)
(***************************************************************************)
EXTENDS Extraction

CONSTANTS
    Url,                \* article links
    Foreign,            \* the links to another host
    Self,               \* the link to the list page itself
    NoLink,             \* an item without a usable link
    MaxCandidates,      \* items considered per crawl
    MaxSeen,            \* links remembered
    MaxArticleRetries   \* fetches of an article before it is given up

SelectorConfig == [sameHostOnly : BOOLEAN, fulltext : BOOLEAN, maxItems : Nat \ {0}]

-----------------------------------------------------------------------------
(* The candidates of a page. *)

Usable(cfg, item) ==
    /\ item # NoLink
    /\ cfg.sameHostOnly => item \notin Foreign
    /\ item # Self

\* extractCandidates: in document order, each link once.
ExtractCandidates(cfg, page) ==
    LET items == First(page, MaxCandidates)
    IN  Once(Pick(items, {i \in DOMAIN items : Usable(cfg, items[i])}))

State(seen, pending) == [seen |-> seen, pending |-> pending]

NoPending == [u \in {} |-> 0]

PrevState(stored) == IF stored \in {Absent, Unreadable} THEN State(<<>>, NoPending) ELSE stored

NewCandidates(cfg, stored, page) ==
    Without(ExtractCandidates(cfg, page), ToSet(PrevState(stored).seen))

\* The failed fetches of an article that are on record.
Failures(stored, u) ==
    LET pending == PrevState(stored).pending
    IN  IF u \in DOMAIN pending THEN pending[u] ELSE 0

-----------------------------------------------------------------------------
(* The articles of one crawl and the commit of its outcome. *)

ToProcessMut(cfg, stored, page) ==
    Without(First(ExtractCandidates(cfg, page), cfg.maxItems), ToSet(PrevState(stored).seen))

\* The links this crawl works on: the first max_items_per_crawl of the new.
ToProcess(cfg, stored, page) == First(NewCandidates(cfg, stored, page), cfg.maxItems)

GiveUpMut(prevFailures) == prevFailures > MaxArticleRetries

\* giveUp: the failure at hand is the last one that is waited for.
GiveUp(prevFailures) == prevFailures + 1 >= MaxArticleRetries

\* An article becomes an entry unless its fetch failed and is to be retried:
\* with its text, or with title and link only when there is no text to be
\* had (no fulltext wanted, robots.txt, not decodable, given up).
Retried(cfg, stored, u, failed) ==
    cfg.fulltext /\ u \in failed /\ ~GiveUp(Failures(stored, u))

\* Rule 5: over the cap, the oldest go that are not among the candidates.
Evicted(order, candidates) ==
    LET old(i) == {j \in 1..i : order[j] \notin candidates}
        goes(i) == order[i] \notin candidates /\ Cardinality(old(i)) =< Len(order) - MaxSeen
    IN  Pick(order, {i \in DOMAIN order : ~goes(i)})

\* CommitState, rules 1 to 5: what has been imported, and on the first crawl
\* what has not been tried, is added once to the links seen.
CommitState(stored, candidates, imported, fetchFailed, initial) ==
    LET prev == PrevState(stored)
        sealed == IF initial THEN Without(candidates, fetchFailed) ELSE <<>>
        order == Once(prev.seen \o imported \o sealed)
        waiting == ((DOMAIN prev.pending \cap ToSet(candidates)) \ ToSet(imported)) \cup fetchFailed
    IN  State(Evicted(order, ToSet(candidates)),
              [u \in waiting |->
                  Failures(stored, u) + (IF u \in fetchFailed THEN 1 ELSE 0)])

\* extractSelectorPage on a page with at least one match, when the fetches of
\* the articles in failed do not succeed: an unreadable state is replaced by
\* one that has seen everything, without a new candidate nothing is stored.
ExtractSelectorPage(cfg, stored, page, failed) ==
    LET candidates == NewCandidates(cfg, stored, page)
        todo == ToProcess(cfg, stored, page)
        fetchFailed == {u \in ToSet(todo) : Retried(cfg, stored, u, failed)}
        imported == Without(todo, fetchFailed)
    IN  IF stored = Unreadable
        THEN [items |-> <<>>,
              state |-> State(First(ExtractCandidates(cfg, page), MaxSeen), NoPending)]
        ELSE IF candidates = <<>> THEN [items |-> <<>>, state |-> Keep]
        ELSE [items |-> imported,
              state |-> CommitState(stored, candidates, imported, fetchFailed, stored = Absent)]
====
