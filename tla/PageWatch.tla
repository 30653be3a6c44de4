----------------------------- MODULE PageWatch -----------------------------
(***************************************************************************)
(* What the page watch (internal/extract/pagewatch) makes of one fetched   *)
(* page: the blocks that are new or gone since the stored state, and the   *)
(* state to store next.                                                    *)
(*                                                                         *)
(* A block is the display HTML of one piece of the page, here the set of   *)
(* the parts it is made of: a part is what an ignore pattern matches or    *)
(* leaves alone, and counts as one character of text. A block without      *)
(* parts has no text of its own (a picture). A page is a sequence of       *)
(* blocks in document order; the state's hash of the keys is the sequence  *)
(* of the keys.                                                            *)
(***************************************************************************)
EXTENDS Extraction

CONSTANTS
    MaxBlocks,      \* blocks of a page that are compared at all
    MaxStateBlocks, \* blocks whose display HTML fits MaxStateBytes
    LcsBlockLimit,  \* lcsBlockLimit: above it, no alignment is computed
    NoHTML          \* display HTML dropped for its size

\* config.go: the four options that matter to the comparison.
WatchConfig(Part) ==
    [ignore : SUBSET Part, minChange : Nat, additionsOnly : BOOLEAN]

Min2(a, b) == IF a < b THEN a ELSE b

-----------------------------------------------------------------------------
(* Blocks and the stored state. *)

ApplyIgnorePatterns(html, ignore) == html \ ignore

\* A comparable block keeps its display HTML and gets the masked key; one
\* that is masked to nothing takes no part in the comparison.
MaskAndFilter(blocks, ignore) ==
    LET keyed == [i \in DOMAIN blocks |->
                     [key |-> ApplyIgnorePatterns(blocks[i], ignore), html |-> blocks[i]]]
    IN  Pick(keyed, {i \in DOMAIN keyed : keyed[i].key # {}})

Keys(blocks) == [i \in DOMAIN blocks |-> blocks[i].key]

MarshalState(ignore, blocks) ==
    [ignore |-> ignore,
     blocks |-> IF Len(blocks) =< MaxStateBlocks THEN blocks
                ELSE [i \in DOMAIN blocks |-> [key |-> blocks[i].key, html |-> NoHTML]]]

Recomputable(blocks) == \A i \in DOMAIN blocks : blocks[i].html # NoHTML

RecomputeStateBlocks(blocks, ignore) ==
    MaskAndFilter([i \in DOMAIN blocks |-> blocks[i].html], ignore)

-----------------------------------------------------------------------------
(* The difference of two sequences of keys, as sets of indices. *)

Cells(prev, curr) == (1..(Len(prev) + 1)) \X (1..(Len(curr) + 1))

\* lcsDiffIdx: the table dp of the lengths of longest common subsequences from
\* two positions on.
LcsLengths(prev, curr) ==
    LET dp[c \in Cells(prev, curr)] ==
            LET i == c[1]
                j == c[2]
            IN  IF i > Len(prev) \/ j > Len(curr) THEN 0
                ELSE IF prev[i] = curr[j] THEN dp[<<i + 1, j + 1>>] + 1
                ELSE IF dp[<<i + 1, j>>] >= dp[<<i, j + 1>>]
                     THEN dp[<<i + 1, j>>] ELSE dp[<<i, j + 1>>]
    IN  dp

LeftOut(added, removed) == [added |-> added, removed |-> removed]

\* What falls out of the alignment from two positions on, when the walk
\* through the table is known from the next ones.
FallsOut(prev, curr, dp, walk, i, j) ==
    LET down == walk[<<i + 1, j>>]
        right == walk[<<i, j + 1>>]
    IN  IF i > Len(prev) \/ j > Len(curr) THEN LeftOut(j..Len(curr), i..Len(prev))
        ELSE IF prev[i] = curr[j] THEN walk[<<i + 1, j + 1>>]
        ELSE IF dp[<<i + 1, j>>] >= dp[<<i, j + 1>>]
             THEN LeftOut(down.added, down.removed \cup {i})
             ELSE LeftOut(right.added \cup {j}, right.removed)

Aligned(prev, curr, dp) ==
    LET walk[c \in Cells(prev, curr)] == FallsOut(prev, curr, dp, walk, c[1], c[2])
    IN  walk

LcsDiffIdx(prev, curr) == Aligned(prev, curr, LcsLengths(prev, curr))[<<1, 1>>]

Occurrences(keys, k, S) == Cardinality({i \in S : keys[i] = k})

\* setDiffIdx: the surplus of a key, the last ones of the new page, the
\* first ones of the old.
SetDiffIdx(prev, curr) ==
    LET Net(k) == Occurrences(curr, k, DOMAIN curr) - Occurrences(prev, k, DOMAIN prev)
    IN  LeftOut({j \in DOMAIN curr : Occurrences(curr, curr[j], j..Len(curr)) =< Net(curr[j])},
                {i \in DOMAIN prev : Occurrences(prev, prev[i], 1..i) =< -Net(prev[i])})

CancelCommonKeysMut(d, prev, curr) == d

\* cancelCommonKeys: a key on both sides is a block that moved.
CancelCommonKeys(d, prev, curr) ==
    LET Cancel(k) == Min2(Occurrences(curr, k, d.added), Occurrences(prev, k, d.removed))
        late(keys, S) == {i \in S : Occurrences(keys, keys[i], {x \in S : x =< i}) > Cancel(keys[i])}
    IN  LeftOut(late(curr, d.added), late(prev, d.removed))

\* computeDiff: the added and the removed blocks in document order.
ComputeDiff(prev, curr) ==
    LET p == Keys(prev)
        c == Keys(curr)
        d == IF Len(p) > LcsBlockLimit \/ Len(c) > LcsBlockLimit
             THEN SetDiffIdx(p, c) ELSE LcsDiffIdx(p, c)
        e == CancelCommonKeys(d, p, c)
    IN  [added |-> Pick(curr, e.added), removed |-> Pick(prev, e.removed)]

\* changeCharCount: a removed block whose HTML was dropped counts nothing.
Chars(b) == IF b.html = NoHTML THEN 0 ELSE Cardinality(b.html)

ChangeCharCount(d) ==
    FoldLeft(LAMBDA n, b : n + Chars(b), 0, d.added \o d.removed)

-----------------------------------------------------------------------------
(* Extract. *)

Comparable(cfg, page) ==
    MaskAndFilter(First(page, MaxBlocks), cfg.ignore)

\* The stored state can be compared with the page under this configuration.
Diffable(cfg, stored) ==
    /\ stored \notin {Absent, Unreadable}
    /\ stored.ignore = cfg.ignore \/ Recomputable(stored.blocks)

PrevBlocks(cfg, stored) ==
    IF stored.ignore = cfg.ignore THEN stored.blocks
    ELSE RecomputeStateBlocks(stored.blocks, cfg.ignore)

\* An item of the feed shows the blocks that are new and the ones that are
\* gone; the item that says that the watch has started shows neither.
Item(added, removed) == [added |-> added, removed |-> removed]

\* A page without any block is an error, which the caller tests for.
Extract(cfg, stored, page) ==
    LET comparable == Comparable(cfg, page)
        state == MarshalState(cfg.ignore, comparable)
        Quiet(next) == [items |-> <<>>, state |-> next]
        Report(item) == [items |-> <<item>>, state |-> state]
    IN  IF stored = Absent THEN Report(Item(<<>>, <<>>))
        ELSE IF ~Diffable(cfg, stored) THEN Quiet(state)
        ELSE LET prev == PrevBlocks(cfg, stored)
                 d == ComputeDiff(prev, comparable)
                 removed == IF cfg.additionsOnly THEN <<>> ELSE d.removed
             IN  IF Keys(prev) = Keys(comparable) THEN Quiet(Keep)
                 ELSE IF ChangeCharCount(d) < cfg.minChange THEN Quiet(state)
                 ELSE IF d.added = <<>> /\ removed = <<>> THEN Quiet(state)
                 ELSE Report(Item(d.added, removed))
====
