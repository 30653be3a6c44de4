--------------------------- MODULE FeedStoreProofs ---------------------------
(***************************************************************************)
(* StoreInv is an inductive invariant of FeedStore, for every set of       *)
(* users, feeds, guids and words and every value of the bounds and the     *)
(* retention settings; from it follow what no transaction does to a read,  *)
(* a pinned or an unread entry, and when an ignored flag is right.         *)
(***************************************************************************)
EXTENDS FeedStoreHistory, FiniteSetTheorems, WellFoundedInduction, TLAPS

\* A count over user_entry_state rows is a natural number.
LEMMA UnreadRowsCount ==
    ASSUME NEW rows, DOMAIN rows \subseteq EntryId, NEW f
    PROVE  Cardinality(UnreadRows(rows, f)) \in Nat
<1>1. IsFiniteSet(EntryId)
  BY FS_Interval, ConstantsAssumption DEF EntryId
<1>2. UnreadRows(rows, f) \subseteq EntryId
  BY DEF UnreadRows
<1>3. QED
  BY <1>1, <1>2, FS_Subset, FS_CardinalityType

\* refreshUnreadCount keeps the rows of subscriptions and their types.
LEMMA RefreshedType ==
    ASSUME NEW S, NEW T, NEW F,
           \A u \in User : IsTable(S[u], FeedId, Nat),
           \A u \in User : DOMAIN T[u] \subseteq EntryId
    PROVE  /\ Refreshed(S, T, F) = [u \in User |-> Refreshed(S, T, F)[u]]
           /\ \A u \in User :
                /\ DOMAIN Refreshed(S, T, F)[u] = DOMAIN S[u]
                /\ IsTable(Refreshed(S, T, F)[u], FeedId, Nat)
<1>1. ASSUME NEW u \in User
      PROVE  /\ DOMAIN Refreshed(S, T, F)[u] = DOMAIN S[u]
             /\ IsTable(Refreshed(S, T, F)[u], FeedId, Nat)
  <2>1. \A f \in DOMAIN S[u] : Cardinality(UnreadRows(T[u], f)) \in Nat
    BY UnreadRowsCount
  <2>2. \A f \in DOMAIN S[u] : S[u][f] \in Nat
    BY DEF IsTable
  <2>3. QED
    BY <2>1, <2>2 DEF Refreshed, IsTable
<1>2. QED
  BY <1>1 DEF Refreshed

\* After refreshUnreadCount over F the cache is exact, if it was exact for
\* the feeds outside F.
LEMMA RefreshedExact ==
    ASSUME NEW S, NEW T, NEW F,
           \A u \in User : \A f \in DOMAIN S[u] :
               f \notin F => S[u][f] = Cardinality(UnreadRows(T[u], f))
    PROVE  \A u \in User : \A f \in DOMAIN Refreshed(S, T, F)[u] :
               Refreshed(S, T, F)[u][f] = Cardinality(UnreadRows(T[u], f))
BY DEF Refreshed

----------------------------------------------------------------------------

\* The empty database migrate() leaves satisfies the invariant.
LEMMA InitStoreInv == Init => StoreInv
BY ConstantsAssumption
   DEF Init, StoreInv, TypeOK, FanOutExact, UnreadCountExact, CopiesAgree,
       ForeignKeys, GuidUnique, EmptyTable, IsTable, Time

----------------------------------------------------------------------------
(* The actions, one lemma each.                                            *)

\* Steps that touch neither entries nor user_entry_state nor subscriptions.
LEMMA QuietStep ==
    ASSUME StoreInv, UNCHANGED <<entries, subs, ues>>,
           TypeOK', ForeignKeys'
    PROVE  StoreInv'
<1>1. entries' = entries /\ subs' = subs /\ ues' = ues
  OBVIOUS
<1>2. FanOutExact' /\ CopiesAgree' /\ GuidUnique'
  BY <1>1 DEF StoreInv, FanOutExact, CopiesAgree, GuidUnique
<1>3. UnreadCountExact'
  BY <1>1 DEF StoreInv, UnreadCountExact
<1>4. QED
  BY <1>2, <1>3 DEF StoreInv

\* The clock touches no table.
LEMMA TickInv == StoreInv /\ Tick => StoreInv'
<1> SUFFICES ASSUME StoreInv, Tick PROVE StoreInv'
  OBVIOUS
<1>1. TypeOK' /\ ForeignKeys'
  BY ConstantsAssumption
     DEF StoreInv, TypeOK, ForeignKeys, Tick, Time
<1>2. QED
  BY <1>1, QuietStep DEF Tick

\* A new feed has no entries and no subscribers yet.
LEMMA UpsertFeedInv ==
    ASSUME NEW f \in FeedId, StoreInv, UpsertFeed(f)
    PROVE  StoreInv'
<1>1. TypeOK' /\ ForeignKeys'
  BY DEF StoreInv, TypeOK, ForeignKeys, UpsertFeed, IsTable
<1>2. QED
  BY <1>1, QuietStep DEF UpsertFeed

\* Recording a fetch writes the feeds row alone.
LEMMA UpdateFeedAfterFetchInv ==
    ASSUME NEW f \in FeedId, StoreInv, UpdateFeedAfterFetch(f)
    PROVE  StoreInv'
<1>1. TypeOK' /\ ForeignKeys'
  BY DEF StoreInv, TypeOK, ForeignKeys, UpdateFeedAfterFetch, IsTable
<1>2. QED
  BY <1>1, QuietStep DEF UpdateFeedAfterFetch

\* AddPin finds the user's row first, so the entry it pins exists.
LEMMA PinInv ==
    ASSUME NEW u \in User, NEW e \in EntryId, StoreInv,
           AddPin(u, e) \/ RemovePin(u, e)
    PROVE  StoreInv'
<1>1. TypeOK'
  BY DEF StoreInv, TypeOK, AddPin, RemovePin
<1>2. ForeignKeys'
  BY DEF StoreInv, TypeOK, ForeignKeys, CopiesAgree, AddPin, RemovePin
<1>3. QED
  BY <1>1, <1>2, QuietStep DEF AddPin, RemovePin

\* Changing the word list touches no flag and no count.
LEMMA ChangeWordsInv ==
    ASSUME NEW u \in User, NEW newWords \in SUBSET Word, StoreInv,
           ChangeWords(u, newWords)
    PROVE  StoreInv'
<1>1. TypeOK' /\ ForeignKeys'
  BY ConstantsAssumption DEF StoreInv, TypeOK, ForeignKeys, ChangeWords
<1>2. QED
  BY <1>1, QuietStep DEF ChangeWords

\* A request that ends before its recompute writes nothing.
LEMMA AbandonRecomputeInv ==
    ASSUME NEW u \in User, StoreInv, AbandonRecompute(u)
    PROVE  StoreInv'
<1>1. TypeOK' /\ ForeignKeys'
  BY ConstantsAssumption DEF StoreInv, TypeOK, ForeignKeys, AbandonRecompute
<1>2. QED
  BY <1>1, QuietStep DEF AbandonRecompute

\* An UPDATE of read_at or of ignored leaves the other columns alone.
LEMMA StateRowUpdate ==
    ASSUME NEW row \in StateRow
    PROVE  /\ [row EXCEPT !.read = TRUE] \in StateRow
           /\ [row EXCEPT !.read = TRUE].feed = row.feed
           /\ [row EXCEPT !.read = TRUE].pub = row.pub
           /\ [row EXCEPT !.read = TRUE].created = row.created
           /\ \A b \in BOOLEAN :
                /\ [row EXCEPT !.ignored = b] \in StateRow
                /\ [row EXCEPT !.ignored = b].feed = row.feed
                /\ [row EXCEPT !.ignored = b].pub = row.pub
                /\ [row EXCEPT !.ignored = b].created = row.created
BY DEF StateRow

\* Marking rows read: the recounted feeds are those of the marked rows.
LEMMA MarkReadInv ==
    ASSUME NEW u \in User, NEW rows \in SUBSET UnreadOf(u), NEW F,
           StoreInv, MarkRead(u, rows, F),
           \A e \in rows : ues[u][e].feed \in F
    PROVE  StoreInv'
<1> USE DEF StoreInv
<1>1. /\ \A v \in User : DOMAIN ues'[v] = DOMAIN ues[v]
      /\ ues' = [v \in User |-> ues'[v]]
      /\ \A v \in User : IsTable(ues'[v], EntryId, StateRow)
      /\ \A v \in User : \A e \in DOMAIN ues[v] :
            /\ ues'[v][e].feed = ues[v][e].feed
            /\ ues'[v][e].pub = ues[v][e].pub
            /\ ues'[v][e].created = ues[v][e].created
  <2>1. ues' = [v \in User |-> ues'[v]]
    BY DEF MarkRead, TypeOK
  <2>2. ASSUME NEW v \in User, v # u
        PROVE  ues'[v] = ues[v]
    BY <2>2 DEF MarkRead, TypeOK
  <2>3. ues'[u] = [e \in DOMAIN ues[u] |->
                     IF e \in rows THEN [ues[u][e] EXCEPT !.read = TRUE]
                                   ELSE ues[u][e]]
    BY DEF MarkRead, TypeOK
  <2>4. \A e \in DOMAIN ues[u] : ues[u][e] \in StateRow
    BY DEF TypeOK, IsTable
  <2>5. \A e \in DOMAIN ues[u] :
            /\ ues'[u][e] \in StateRow
            /\ ues'[u][e].feed = ues[u][e].feed
            /\ ues'[u][e].pub = ues[u][e].pub
            /\ ues'[u][e].created = ues[u][e].created
    <3>1. ASSUME NEW e \in DOMAIN ues[u], e \in rows
          PROVE  ues'[u][e] = [ues[u][e] EXCEPT !.read = TRUE]
      BY <3>1, <2>3
    <3>2. ASSUME NEW e \in DOMAIN ues[u], e \notin rows
          PROVE  ues'[u][e] = ues[u][e]
      BY <3>2, <2>3
    <3>3. QED
      BY <3>1, <3>2, <2>4, StateRowUpdate
  <2>6. DOMAIN ues'[u] = DOMAIN ues[u] /\ IsTable(ues'[u], EntryId, StateRow)
    BY <2>3, <2>5 DEF TypeOK, IsTable
  <2>7. ASSUME NEW v \in User
        PROVE  /\ DOMAIN ues'[v] = DOMAIN ues[v]
               /\ IsTable(ues'[v], EntryId, StateRow)
               /\ \A e \in DOMAIN ues[v] :
                    /\ ues'[v][e].feed = ues[v][e].feed
                    /\ ues'[v][e].pub = ues[v][e].pub
                    /\ ues'[v][e].created = ues[v][e].created
    <3>1. CASE v = u
      BY <3>1, <2>5, <2>6
    <3>2. CASE v # u
      BY <3>2, <2>2 DEF TypeOK
    <3>3. QED
      BY <3>1, <3>2
  <2>8. QED
    BY <2>1, <2>7
<1>2. /\ subs' = [v \in User |-> subs'[v]]
      /\ \A v \in User : /\ DOMAIN subs'[v] = DOMAIN subs[v]
                         /\ IsTable(subs'[v], FeedId, Nat)
  <2>1. /\ \A v \in User : IsTable(subs[v], FeedId, Nat)
        /\ \A v \in User : DOMAIN ues'[v] \subseteq EntryId
    BY <1>1 DEF TypeOK, IsTable
  <2>2. subs' = Refreshed(subs, ues', F)
    BY DEF MarkRead
  <2>3. QED
    BY <2>1, <2>2, RefreshedType
<1>3. TypeOK'
  BY <1>1, <1>2 DEF TypeOK, MarkRead
<1>4. FanOutExact' /\ CopiesAgree' /\ ForeignKeys' /\ GuidUnique'
  BY <1>1, <1>2 DEF FanOutExact, CopiesAgree, ForeignKeys, GuidUnique, MarkRead
<1>5. UnreadCountExact'
  <2>1. ASSUME NEW v \in User, NEW f \in DOMAIN subs[v], f \notin F
        PROVE  UnreadRows(ues'[v], f) = UnreadRows(ues[v], f)
    BY <1>1, <2>1 DEF UnreadRows, Counted, MarkRead, TypeOK, IsTable, StateRow
  <2>2. \A v \in User : \A f \in DOMAIN subs[v] :
            f \notin F => subs[v][f] = Cardinality(UnreadRows(ues'[v], f))
    BY <2>1 DEF UnreadCountExact
  <2>3. \A v \in User : \A f \in DOMAIN Refreshed(subs, ues', F)[v] :
            Refreshed(subs, ues', F)[v][f] = Cardinality(UnreadRows(ues'[v], f))
    BY <2>2, RefreshedExact
  <2>4. QED
    BY <2>3 DEF UnreadCountExact, MarkRead
<1>6. QED
  BY <1>3, <1>4, <1>5

\* The feeds of the marked ids are all recounted.
LEMMA MarkEntriesReadInv ==
    ASSUME NEW u \in User, NEW ids, StoreInv, MarkEntriesRead(u, ids)
    PROVE  StoreInv'
BY MarkReadInv DEF MarkEntriesRead, FeedsOfRows

\* The feeds with an unread row are all recounted.
LEMMA MarkAllEntriesReadInv ==
    ASSUME NEW u \in User, StoreInv, MarkAllEntriesRead(u)
    PROVE  StoreInv'
BY MarkReadInv DEF MarkAllEntriesRead, FeedsOfRows

\* One feed is marked and the same feed recounted.
LEMMA MarkFeedReadBeforeInv ==
    ASSUME NEW u \in User, NEW f \in FeedId, NEW before,
           StoreInv, MarkFeedReadBefore(u, f, before)
    PROVE  StoreInv'
<1> DEFINE rows == {e \in UnreadOf(u) :
                      /\ ues[u][e].feed = f
                      /\ before = 0 \/ ues[u][e].pub =< before}
           F == IF rows = {} THEN {} ELSE {f}
<1>1. MarkRead(u, rows, F)
  BY DEF MarkFeedReadBefore
<1>2. rows \in SUBSET UnreadOf(u) /\ \A e \in rows : ues[u][e].feed \in F
  OBVIOUS
<1> HIDE DEF rows, F
<1>3. QED
  BY <1>1, <1>2, MarkReadInv

\* Flags of one user change, and every feed of that user is recounted.
LEMMA RecomputeIgnoredInv ==
    ASSUME NEW u \in User, StoreInv, RecomputeIgnored(u)
    PROVE  StoreInv'
<1> USE DEF StoreInv
<1>1. ASSUME NEW v \in User, v # u
      PROVE  ues'[v] = ues[v] /\ subs'[v] = subs[v]
  BY <1>1 DEF RecomputeIgnored, TypeOK
<1>2. /\ DOMAIN ues'[u] = DOMAIN ues[u]
      /\ \A e \in DOMAIN ues[u] :
            ues'[u][e] = [ues[u][e] EXCEPT !.ignored = Matches(u, entries[e].text)]
  BY DEF RecomputeIgnored, TypeOK
<1>3. ASSUME NEW e \in DOMAIN ues[u]
      PROVE  /\ ues'[u][e] \in StateRow
             /\ ues'[u][e].feed = ues[u][e].feed
             /\ ues'[u][e].pub = ues[u][e].pub
             /\ ues'[u][e].created = ues[u][e].created
  <2>1. Matches(u, entries[e].text) \in BOOLEAN
    BY DEF Matches
  <2>2. ues[u][e] \in StateRow
    BY DEF TypeOK, IsTable
  <2>3. PICK b \in BOOLEAN : b = Matches(u, entries[e].text)
    BY <2>1
  <2>4. ues'[u][e] = [ues[u][e] EXCEPT !.ignored = b]
    BY <1>2, <2>3
  <2>5. /\ [ues[u][e] EXCEPT !.ignored = b] \in StateRow
        /\ [ues[u][e] EXCEPT !.ignored = b].feed = ues[u][e].feed
        /\ [ues[u][e] EXCEPT !.ignored = b].pub = ues[u][e].pub
        /\ [ues[u][e] EXCEPT !.ignored = b].created = ues[u][e].created
    BY <2>2, StateRowUpdate
  <2>6. QED
    BY <2>4, <2>5, Zenon
<1>4. /\ ues' = [v \in User |-> ues'[v]]
      /\ \A v \in User : IsTable(ues'[v], EntryId, StateRow)
  <2>1. ues' = [v \in User |-> ues'[v]]
    BY DEF RecomputeIgnored, TypeOK
  <2>2. DOMAIN ues'[u] \subseteq EntryId
    BY <1>2 DEF TypeOK, IsTable
  <2>3. ues'[u] \in [DOMAIN ues'[u] -> StateRow]
    <3>1. ues'[u] = [e \in DOMAIN ues[u] |->
                [ues[u][e] EXCEPT !.ignored = Matches(u, entries[e].text)]]
      BY DEF RecomputeIgnored, TypeOK
    <3>2. ues'[u] = [e \in DOMAIN ues'[u] |-> ues'[u][e]]
      BY <3>1
    <3>3. QED
      BY <3>2, <1>2, <1>3
  <2>4. \A v \in User : v # u => IsTable(ues'[v], EntryId, StateRow)
    BY <1>1 DEF TypeOK
  <2>5. QED
    BY <2>1, <2>2, <2>3, <2>4 DEF IsTable
<1> DEFINE R == Refreshed(subs, ues', DOMAIN subs[u])
<1>5. subs'[u] = R[u] /\ subs' = [v \in User |-> subs'[v]]
  BY DEF RecomputeIgnored, TypeOK
<1>6. /\ DOMAIN subs'[u] = DOMAIN subs[u]
      /\ IsTable(subs'[u], FeedId, Nat)
  <2>1. /\ \A v \in User : IsTable(subs[v], FeedId, Nat)
        /\ \A v \in User : DOMAIN ues'[v] \subseteq EntryId
    BY <1>4 DEF TypeOK, IsTable
  <2>2. DOMAIN R[u] = DOMAIN subs[u] /\ IsTable(R[u], FeedId, Nat)
    BY <2>1, RefreshedType
  <2>3. QED
    BY <1>5, <2>2
<1>7. TypeOK'
  <2>1. \A v \in User : IsTable(subs'[v], FeedId, Nat)
    BY <1>1, <1>6 DEF TypeOK
  <2>2. pending' \in [User -> 0..MaxRequests]
    BY ConstantsAssumption DEF TypeOK, RecomputeIgnored
  <2>3. QED
    BY <2>1, <2>2, <1>4, <1>5 DEF TypeOK, RecomputeIgnored
<1>8. FanOutExact' /\ CopiesAgree' /\ ForeignKeys' /\ GuidUnique'
  <2>1. \A v \in User : /\ DOMAIN ues'[v] = DOMAIN ues[v]
                        /\ DOMAIN subs'[v] = DOMAIN subs[v]
    BY <1>1, <1>2, <1>6
  <2>2. \A v \in User : \A e \in DOMAIN ues[v] :
            /\ ues'[v][e].feed = ues[v][e].feed
            /\ ues'[v][e].pub = ues[v][e].pub
            /\ ues'[v][e].created = ues[v][e].created
    BY <1>1, <1>3
  <2>3. UNCHANGED <<feeds, entries, pins>>
    BY DEF RecomputeIgnored
  <2>4. QED
    BY <2>1, <2>2, <2>3 DEF FanOutExact, CopiesAgree, ForeignKeys, GuidUnique
<1>9. UnreadCountExact'
  <2>1. \A f \in DOMAIN subs'[u] :
            subs'[u][f] = Cardinality(UnreadRows(ues'[u], f))
    BY <1>5, <1>6 DEF Refreshed
  <2>2. QED
    BY <1>1, <2>1 DEF UnreadCountExact
<1>10. QED
  BY <1>7, <1>8, <1>9

\* Deleting rows of a table leaves a table, with the other rows as they were.
LEMMA KeepRowsTable ==
    ASSUME NEW t, NEW K, NEW Keys, NEW Row, IsTable(t, Keys, Row)
    PROVE  /\ DOMAIN KeepRows(t, K) = DOMAIN t \cap K
           /\ \A k \in DOMAIN t \cap K : KeepRows(t, K)[k] = t[k]
           /\ IsTable(KeepRows(t, K), Keys, Row)
<1>1. \A k \in DOMAIN t : t[k] \in Row
  BY DEF IsTable
<1>2. DOMAIN t \subseteq Keys
  BY DEF IsTable
<1>3. KeepRows(t, K) = [k \in DOMAIN t \cap K |-> t[k]]
  BY DEF KeepRows
<1>4. KeepRows(t, K) \in [DOMAIN t \cap K -> Row]
  BY <1>1, <1>3
<1>5. QED
  BY <1>2, <1>3, <1>4 DEF IsTable

\* The count of a feed depends on the rows of that feed alone.
LEMMA SameUnreadRows ==
    ASSUME NEW r, NEW s, NEW f,
           \A e : e \in DOMAIN r /\ r[e].feed = f
                    <=> e \in DOMAIN s /\ s[e].feed = f,
           \A e \in DOMAIN r : r[e].feed = f => r[e] = s[e]
    PROVE  UnreadRows(r, f) = UnreadRows(s, f)
BY DEF UnreadRows

\* The row a subscription backfills is a row of the table.
LEMMA BackfilledStateType ==
    ASSUME NEW u \in User, NEW e \in DOMAIN entries, TypeOK
    PROVE  /\ BackfilledState(u, e) \in StateRow
           /\ BackfilledState(u, e).feed = entries[e].feed
           /\ BackfilledState(u, e).pub = entries[e].pub
           /\ BackfilledState(u, e).created = entries[e].created
<1>1. entries[e] \in EntryRow
  BY DEF TypeOK, IsTable
<1>2. QED
  BY <1>1 DEF BackfilledState, StateRow, EntryRow, Matches

\* Subscribing adds exactly the missing rows of the feed and recounts it.
LEMMA UpsertSubscriptionInv ==
    ASSUME NEW u \in User, NEW f \in FeedId, StoreInv, UpsertSubscription(u, f)
    PROVE  StoreInv'
<1> USE DEF StoreInv
<1> DEFINE S == [subs EXCEPT ![u] =
                   [g \in DOMAIN subs[u] \cup {f} |->
                      IF g \in DOMAIN subs[u] THEN subs[u][g] ELSE 0]]
<1>1. /\ \A v \in User : v # u => S[v] = subs[v]
      /\ DOMAIN S[u] = DOMAIN subs[u] \cup {f}
      /\ \A g \in DOMAIN subs[u] : S[u][g] = subs[u][g]
      /\ \A v \in User : IsTable(S[v], FeedId, Nat)
  BY DEF TypeOK, IsTable
<1>2. ASSUME NEW v \in User, v # u
      PROVE  ues'[v] = ues[v]
  BY <1>2 DEF UpsertSubscription, TypeOK
<1>3. ues'[u] = FannedOut(u, f) /\ ues' = [v \in User |-> ues'[v]]
  BY DEF UpsertSubscription, TypeOK
<1>4. /\ DOMAIN ues'[u] = DOMAIN ues[u] \cup EntriesOf(f)
      /\ \A e \in DOMAIN ues[u] : ues'[u][e] = ues[u][e]
      /\ \A e \in DOMAIN ues'[u] \ DOMAIN ues[u] :
            e \in DOMAIN entries /\ ues'[u][e] = BackfilledState(u, e)
  BY <1>3 DEF FannedOut, EntriesOf
<1>5. ASSUME NEW e \in DOMAIN ues'[u]
      PROVE  /\ e \in DOMAIN entries
             /\ ues'[u][e] \in StateRow
             /\ ues'[u][e].feed = entries[e].feed
             /\ ues'[u][e].pub = entries[e].pub
             /\ ues'[u][e].created = entries[e].created
  <2>1. CASE e \in DOMAIN ues[u]
    BY <2>1, <1>4 DEF TypeOK, IsTable, CopiesAgree
  <2>2. CASE e \notin DOMAIN ues[u]
    BY <2>2, <1>4, BackfilledStateType
  <2>3. QED
    BY <2>1, <2>2
<1>6. \A v \in User : IsTable(ues'[v], EntryId, StateRow)
  <2>1. ues'[u] = [e \in DOMAIN ues'[u] |-> ues'[u][e]]
    BY <1>3 DEF FannedOut
  <2>2. DOMAIN ues'[u] \subseteq EntryId
    BY <1>5 DEF TypeOK, IsTable
  <2>3. IsTable(ues'[u], EntryId, StateRow)
    BY <2>1, <2>2, <1>5 DEF IsTable
  <2>4. QED
    BY <2>3, <1>2 DEF TypeOK
<1>7. subs' = Refreshed(S, ues', {f})
  BY DEF UpsertSubscription
<1> HIDE DEF S
<1>8. /\ subs' = [v \in User |-> subs'[v]]
      /\ \A v \in User : /\ DOMAIN subs'[v] = DOMAIN S[v]
                         /\ IsTable(subs'[v], FeedId, Nat)
  <2>1. \A v \in User : DOMAIN ues'[v] \subseteq EntryId
    BY <1>6 DEF IsTable
  <2>2. \A v \in User : IsTable(S[v], FeedId, Nat)
    BY <1>1
  <2>3. /\ Refreshed(S, ues', {f}) = [v \in User |-> Refreshed(S, ues', {f})[v]]
        /\ \A v \in User :
             /\ DOMAIN Refreshed(S, ues', {f})[v] = DOMAIN S[v]
             /\ IsTable(Refreshed(S, ues', {f})[v], FeedId, Nat)
    BY <2>1, <2>2, RefreshedType
  <2>4. QED
    BY <2>3, <1>7
<1>9. TypeOK'
  BY <1>3, <1>6, <1>8 DEF TypeOK, UpsertSubscription
<1>10. UNCHANGED <<feeds, entries, pins>> /\ f \in DOMAIN feeds
  BY DEF UpsertSubscription
<1>11. FanOutExact'
  <2>1. \A v \in User : v # u => DOMAIN ues'[v] =
            {e \in DOMAIN entries : entries[e].feed \in DOMAIN subs'[v]}
    <3>1. ASSUME NEW v \in User, v # u
          PROVE  DOMAIN subs'[v] = DOMAIN subs[v] /\ ues'[v] = ues[v]
      BY <3>1, <1>1, <1>2, <1>8
    <3>2. QED
      BY <3>1 DEF FanOutExact
  <2>2. DOMAIN ues'[u] =
            {e \in DOMAIN entries : entries[e].feed \in DOMAIN subs'[u]}
    BY <1>1, <1>4, <1>8 DEF FanOutExact, EntriesOf
  <2>3. QED
    BY <2>1, <2>2, <1>10 DEF FanOutExact
<1>12. CopiesAgree'
  BY <1>2, <1>5, <1>10 DEF CopiesAgree
<1>13. ForeignKeys' /\ GuidUnique'
  BY <1>1, <1>8, <1>10 DEF ForeignKeys, GuidUnique
<1>14. UnreadCountExact'
  <2>1. ASSUME NEW v \in User, NEW g \in DOMAIN S[v], g # f
        PROVE  S[v][g] = Cardinality(UnreadRows(ues'[v], g))
    <3>1. g \in DOMAIN subs[v] /\ S[v][g] = subs[v][g]
      BY <1>1, <2>1
    <3>2. UnreadRows(ues'[v], g) = UnreadRows(ues[v], g)
      <4>1. CASE v # u
        BY <4>1, <1>2
      <4>2. CASE v = u
        <5>1. \A e \in DOMAIN ues'[u] : ues'[u][e].feed = g => e \in DOMAIN ues[u]
          BY <1>4, <1>5, <2>1 DEF EntriesOf
        <5>2. QED
          BY <4>2, <5>1, <1>4, SameUnreadRows
      <4>3. QED
        BY <4>1, <4>2
    <3>3. QED
      BY <3>1, <3>2 DEF UnreadCountExact
  <2>2. \A v \in User : \A g \in DOMAIN S[v] :
            g \notin {f} => S[v][g] = Cardinality(UnreadRows(ues'[v], g))
    BY <2>1
  <2>3. \A v \in User : \A g \in DOMAIN Refreshed(S, ues', {f})[v] :
            Refreshed(S, ues', {f})[v][g] = Cardinality(UnreadRows(ues'[v], g))
    BY <2>2, RefreshedExact
  <2>4. QED
    BY <2>3, <1>7 DEF UnreadCountExact
<1>15. QED
  BY <1>9, <1>11, <1>12, <1>13, <1>14

\* Unsubscribing removes the feed's rows with the subscription.
LEMMA UnsubscribeInv ==
    ASSUME NEW u \in User, NEW f \in FeedId, StoreInv, Unsubscribe(u, f)
    PROVE  StoreInv'
<1> USE DEF StoreInv
<1>1. ASSUME NEW v \in User, v # u
      PROVE  ues'[v] = ues[v] /\ subs'[v] = subs[v]
  BY <1>1 DEF Unsubscribe, TypeOK
<1>2. /\ DOMAIN subs'[u] = DOMAIN subs[u] \ {f}
      /\ \A g \in DOMAIN subs'[u] : subs'[u][g] = subs[u][g]
      /\ IsTable(subs'[u], FeedId, Nat)
      /\ subs' = [v \in User |-> subs'[v]]
  <2>1. /\ subs'[u] = KeepRows(subs[u], FeedId \ {f})
        /\ subs' = [v \in User |-> subs'[v]]
    <3>1. subs' = [subs EXCEPT ![u] = KeepRows(subs[u], FeedId \ {f})]
      BY DEF Unsubscribe
    <3>2. subs = [v \in User |-> subs[v]]
      BY DEF TypeOK
    <3>3. QED
      BY <3>1, <3>2
  <2>2. IsTable(subs[u], FeedId, Nat)
    BY DEF TypeOK
  <2>3. DOMAIN subs[u] \cap (FeedId \ {f}) = DOMAIN subs[u] \ {f}
    BY <2>2 DEF IsTable
  <2>4. LET t == KeepRows(subs[u], FeedId \ {f})
        IN  /\ DOMAIN t = DOMAIN subs[u] \cap (FeedId \ {f})
            /\ \A k \in DOMAIN subs[u] \cap (FeedId \ {f}) : t[k] = subs[u][k]
            /\ IsTable(t, FeedId, Nat)
    BY <2>2, KeepRowsTable
  <2>5. QED
    BY <2>1, <2>3, <2>4
<1>3. /\ DOMAIN ues'[u] = {e \in DOMAIN ues[u] : ues[u][e].feed # f}
      /\ \A e \in DOMAIN ues'[u] : ues'[u][e] = ues[u][e]
      /\ IsTable(ues'[u], EntryId, StateRow)
      /\ ues' = [v \in User |-> ues'[v]]
  <2> DEFINE kept == {e \in DOMAIN ues[u] : ues[u][e].feed # f}
  <2>1. /\ ues'[u] = KeepRows(ues[u], kept)
        /\ ues' = [v \in User |-> ues'[v]]
    <3>1. ues' = [ues EXCEPT ![u] = KeepRows(ues[u], kept)]
      BY DEF Unsubscribe
    <3>2. ues = [v \in User |-> ues[v]]
      BY DEF TypeOK
    <3>3. QED
      BY <3>1, <3>2
  <2>2. IsTable(ues[u], EntryId, StateRow)
    BY DEF TypeOK
  <2>3. DOMAIN ues[u] \cap kept = kept
    OBVIOUS
  <2> HIDE DEF kept
  <2>4. LET t == KeepRows(ues[u], kept)
        IN  /\ DOMAIN t = DOMAIN ues[u] \cap kept
            /\ \A e \in DOMAIN ues[u] \cap kept : t[e] = ues[u][e]
            /\ IsTable(t, EntryId, StateRow)
    BY <2>2, KeepRowsTable
  <2>5. QED
    BY <2>1, <2>3, <2>4 DEF kept
<1>4. UNCHANGED <<now, feeds, entries, pins, words, pending>>
  BY DEF Unsubscribe
<1>5. TypeOK'
  BY <1>1, <1>2, <1>3, <1>4 DEF TypeOK
<1>6. FanOutExact'
  <2>1. DOMAIN ues'[u] =
            {e \in DOMAIN entries : entries[e].feed \in DOMAIN subs'[u]}
    BY <1>2, <1>3 DEF FanOutExact, CopiesAgree
  <2>2. QED
    BY <2>1, <1>1, <1>4 DEF FanOutExact
<1>7. CopiesAgree' /\ ForeignKeys' /\ GuidUnique'
  BY <1>1, <1>2, <1>3, <1>4 DEF CopiesAgree, ForeignKeys, GuidUnique
<1>8. UnreadCountExact'
  <2>1. ASSUME NEW g \in DOMAIN subs'[u]
        PROVE  UnreadRows(ues'[u], g) = UnreadRows(ues[u], g)
    BY <1>2, <1>3, SameUnreadRows
  <2>2. \A g \in DOMAIN subs'[u] :
            subs'[u][g] = Cardinality(UnreadRows(ues'[u], g))
    BY <2>1, <1>2 DEF UnreadCountExact
  <2>3. QED
    BY <2>2, <1>1 DEF UnreadCountExact
<1>9. QED
  BY <1>5, <1>6, <1>7, <1>8

\* What a DELETE FROM entries and its cascade do to the tables.
LEMMA EntriesDeleted ==
    ASSUME NEW gone \in SUBSET DOMAIN entries, StoreInv,
           entries' = KeepRows(entries, EntryId \ gone),
           ues' = [u \in User |-> KeepRows(ues[u], EntryId \ gone)],
           pins' = [u \in User |-> pins[u] \ gone]
    PROVE  /\ DOMAIN entries' = DOMAIN entries \ gone
           /\ \A e \in DOMAIN entries' : entries'[e] = entries[e]
           /\ IsTable(entries', EntryId, EntryRow)
           /\ ues' = [u \in User |-> ues'[u]]
           /\ \A u \in User :
                /\ DOMAIN ues'[u] = DOMAIN ues[u] \ gone
                /\ \A e \in DOMAIN ues'[u] : ues'[u][e] = ues[u][e]
                /\ IsTable(ues'[u], EntryId, StateRow)
           /\ pins' \in [User -> SUBSET EntryId]
           /\ \A u \in User : pins'[u] \subseteq pins[u] \ gone
<1> USE DEF StoreInv
<1>1. IsTable(entries, EntryId, EntryRow)
  BY DEF TypeOK
<1>2. /\ DOMAIN entries' = DOMAIN entries \ gone
      /\ \A e \in DOMAIN entries' : entries'[e] = entries[e]
      /\ IsTable(entries', EntryId, EntryRow)
  <2>1. LET t == KeepRows(entries, EntryId \ gone)
        IN  /\ DOMAIN t = DOMAIN entries \cap (EntryId \ gone)
            /\ \A e \in DOMAIN entries \cap (EntryId \ gone) : t[e] = entries[e]
            /\ IsTable(t, EntryId, EntryRow)
    BY <1>1, KeepRowsTable
  <2>2. DOMAIN entries \cap (EntryId \ gone) = DOMAIN entries \ gone
    BY <1>1 DEF IsTable
  <2>3. QED
    BY <2>1, <2>2
<1>3. ASSUME NEW u \in User
      PROVE  /\ DOMAIN ues'[u] = DOMAIN ues[u] \ gone
             /\ \A e \in DOMAIN ues'[u] : ues'[u][e] = ues[u][e]
             /\ IsTable(ues'[u], EntryId, StateRow)
  <2>1. IsTable(ues[u], EntryId, StateRow) /\ ues'[u] = KeepRows(ues[u], EntryId \ gone)
    BY DEF TypeOK
  <2>2. LET t == KeepRows(ues[u], EntryId \ gone)
        IN  /\ DOMAIN t = DOMAIN ues[u] \cap (EntryId \ gone)
            /\ \A e \in DOMAIN ues[u] \cap (EntryId \ gone) : t[e] = ues[u][e]
            /\ IsTable(t, EntryId, StateRow)
    BY <2>1, KeepRowsTable
  <2>3. DOMAIN ues[u] \cap (EntryId \ gone) = DOMAIN ues[u] \ gone
    BY <2>1 DEF IsTable
  <2>4. QED
    BY <2>1, <2>2, <2>3
<1>4. /\ pins' \in [User -> SUBSET EntryId]
      /\ \A u \in User : pins'[u] \subseteq pins[u] \ gone
  BY DEF TypeOK
<1>5. ues' = [u \in User |-> ues'[u]]
  OBVIOUS
<1>6. QED
  BY <1>2, <1>3, <1>4, <1>5

\* A garbage collection recounts every feed it deletes an entry of.
LEMMA DeleteEntriesAndRefreshInv ==
    ASSUME NEW gone \in SUBSET DOMAIN entries, StoreInv,
           DeleteEntriesAndRefresh(gone)
    PROVE  StoreInv'
<1> USE DEF StoreInv
<1> DEFINE F == {entries[e].feed : e \in gone}
<1>1. /\ entries' = KeepRows(entries, EntryId \ gone)
      /\ ues' = [u \in User |-> KeepRows(ues[u], EntryId \ gone)]
      /\ pins' = [u \in User |-> pins[u] \ gone]
      /\ subs' = Refreshed(subs, ues', F)
      /\ UNCHANGED <<now, feeds, words, pending>>
  BY DEF DeleteEntriesAndRefresh
<1>2. /\ DOMAIN entries' = DOMAIN entries \ gone
      /\ \A e \in DOMAIN entries' : entries'[e] = entries[e]
      /\ IsTable(entries', EntryId, EntryRow)
      /\ ues' = [u \in User |-> ues'[u]]
      /\ \A u \in User :
           /\ DOMAIN ues'[u] = DOMAIN ues[u] \ gone
           /\ \A e \in DOMAIN ues'[u] : ues'[u][e] = ues[u][e]
           /\ IsTable(ues'[u], EntryId, StateRow)
      /\ pins' \in [User -> SUBSET EntryId]
      /\ \A u \in User : pins'[u] \subseteq pins[u] \ gone
  BY <1>1, EntriesDeleted
<1>3. \A e \in gone : entries[e].feed \in F
  OBVIOUS
<1> HIDE DEF F
<1>4. /\ subs' = [u \in User |-> subs'[u]]
      /\ \A u \in User : /\ DOMAIN subs'[u] = DOMAIN subs[u]
                         /\ IsTable(subs'[u], FeedId, Nat)
  <2>1. /\ \A u \in User : IsTable(subs[u], FeedId, Nat)
        /\ \A u \in User : DOMAIN ues'[u] \subseteq EntryId
    BY <1>2 DEF TypeOK, IsTable
  <2>2. LET R == Refreshed(subs, ues', F)
        IN  /\ R = [u \in User |-> R[u]]
            /\ \A u \in User : /\ DOMAIN R[u] = DOMAIN subs[u]
                               /\ IsTable(R[u], FeedId, Nat)
    BY <2>1, RefreshedType
  <2>3. subs' = Refreshed(subs, ues', F)
    BY <1>1
  <2>4. QED
    BY <2>2, <2>3
<1>5. TypeOK'
  BY <1>1, <1>2, <1>4 DEF TypeOK
<1>6. FanOutExact'
  <2>1. ASSUME NEW u \in User
        PROVE  DOMAIN ues'[u] =
                 {e \in DOMAIN entries' : entries'[e].feed \in DOMAIN subs'[u]}
    <3>1. DOMAIN subs'[u] = DOMAIN subs[u]
      BY <1>4
    <3>2. DOMAIN ues'[u] = DOMAIN ues[u] \ gone
      BY <1>2
    <3>3. DOMAIN ues[u] = {e \in DOMAIN entries : entries[e].feed \in DOMAIN subs[u]}
      BY DEF FanOutExact
    <3>4. QED
      BY <1>2, <3>1, <3>2, <3>3
  <2>2. QED
    BY <2>1 DEF FanOutExact
<1>7. CopiesAgree' /\ ForeignKeys' /\ GuidUnique'
  <2>1. CopiesAgree'
    BY <1>2 DEF CopiesAgree
  <2>2. GuidUnique'
    BY <1>2 DEF GuidUnique
  <2>3. ForeignKeys'
    <3>1. \A e \in DOMAIN entries' : entries'[e].feed \in DOMAIN feeds'
      BY <1>1, <1>2 DEF ForeignKeys
    <3>2. \A u \in User : DOMAIN subs'[u] \subseteq DOMAIN feeds'
      BY <1>1, <1>4 DEF ForeignKeys
    <3>3. \A u \in User : pins'[u] \subseteq DOMAIN entries'
      BY <1>2 DEF ForeignKeys
    <3>4. QED
      BY <3>1, <3>2, <3>3 DEF ForeignKeys
  <2>4. QED
    BY <2>1, <2>2, <2>3
<1>8. UnreadCountExact'
  <2>1. ASSUME NEW u \in User, NEW f \in DOMAIN subs[u], f \notin F
        PROVE  UnreadRows(ues'[u], f) = UnreadRows(ues[u], f)
    <3>1. \A e \in DOMAIN ues[u] : ues[u][e].feed = f => e \notin gone
      BY <1>3, <2>1 DEF CopiesAgree
    <3>2. QED
      BY <3>1, <1>2, SameUnreadRows
  <2>2. \A u \in User : \A f \in DOMAIN subs[u] :
            f \notin F => subs[u][f] = Cardinality(UnreadRows(ues'[u], f))
    BY <2>1 DEF UnreadCountExact
  <2>3. \A u \in User : \A f \in DOMAIN Refreshed(subs, ues', F)[u] :
            Refreshed(subs, ues', F)[u][f] = Cardinality(UnreadRows(ues'[u], f))
    BY <2>2, RefreshedExact
  <2>4. QED
    BY <2>3, <1>1 DEF UnreadCountExact
<1>9. QED
  BY <1>5, <1>6, <1>7, <1>8

\* Nobody subscribes to an orphan, so by FanOutExact nobody has a row of
\* its entries and no count changes.
LEMMA DeleteOrphanFeedsInv ==
    StoreInv /\ DeleteOrphanFeeds => StoreInv'
<1> SUFFICES ASSUME StoreInv, DeleteOrphanFeeds PROVE StoreInv'
  OBVIOUS
<1> USE DEF StoreInv
<1> DEFINE gone == {e \in DOMAIN entries : entries[e].feed \in OrphanFeeds}
<1>1. /\ entries' = KeepRows(entries, EntryId \ gone)
      /\ ues' = [u \in User |-> KeepRows(ues[u], EntryId \ gone)]
      /\ pins' = [u \in User |-> pins[u] \ gone]
      /\ feeds' = KeepRows(feeds, FeedId \ OrphanFeeds)
      /\ UNCHANGED <<now, subs, words, pending>>
  BY DEF DeleteOrphanFeeds
<1>2. gone \in SUBSET DOMAIN entries
  OBVIOUS
<1>3. \A u \in User : \A f \in DOMAIN subs[u] : f \notin OrphanFeeds
  BY DEF OrphanFeeds, Subscribers
<1>4. \A e \in DOMAIN entries : entries[e].feed \notin OrphanFeeds => e \notin gone
  OBVIOUS
<1>5. \A e \in gone : entries[e].feed \in OrphanFeeds
  OBVIOUS
<1> HIDE DEF gone
<1>6. /\ DOMAIN entries' = DOMAIN entries \ gone
      /\ \A e \in DOMAIN entries' : entries'[e] = entries[e]
      /\ IsTable(entries', EntryId, EntryRow)
      /\ ues' = [u \in User |-> ues'[u]]
      /\ \A u \in User :
           /\ DOMAIN ues'[u] = DOMAIN ues[u] \ gone
           /\ \A e \in DOMAIN ues'[u] : ues'[u][e] = ues[u][e]
           /\ IsTable(ues'[u], EntryId, StateRow)
      /\ pins' \in [User -> SUBSET EntryId]
      /\ \A u \in User : pins'[u] \subseteq pins[u] \ gone
  BY <1>1, <1>2, EntriesDeleted
<1>7. \A u \in User : DOMAIN ues[u] \cap gone = {}
  BY <1>3, <1>5 DEF FanOutExact
<1>8. \A u \in User : ues'[u] = ues[u]
  <2>1. ASSUME NEW u \in User
        PROVE  ues'[u] = ues[u]
    <3>1. DOMAIN ues'[u] = DOMAIN ues[u]
      BY <1>6, <1>7
    <3>2. /\ ues'[u] = [e \in DOMAIN ues'[u] |-> ues'[u][e]]
          /\ ues[u] = [e \in DOMAIN ues[u] |-> ues[u][e]]
      BY <1>6 DEF TypeOK, IsTable
    <3>3. QED
      BY <3>1, <3>2, <1>6
  <2>2. QED
    BY <2>1
<1>9. /\ DOMAIN feeds' = DOMAIN feeds \ OrphanFeeds
      /\ IsTable(feeds', FeedId, Time)
  <2>1. IsTable(feeds, FeedId, Time)
    BY DEF TypeOK
  <2>2. LET t == KeepRows(feeds, FeedId \ OrphanFeeds)
        IN  /\ DOMAIN t = DOMAIN feeds \cap (FeedId \ OrphanFeeds)
            /\ IsTable(t, FeedId, Time)
    BY <2>1, KeepRowsTable
  <2>3. DOMAIN feeds \cap (FeedId \ OrphanFeeds) = DOMAIN feeds \ OrphanFeeds
    BY <2>1 DEF IsTable
  <2>4. QED
    BY <1>1, <2>2, <2>3
<1>10. TypeOK'
  BY <1>1, <1>6, <1>9 DEF TypeOK
<1>11. FanOutExact'
  BY <1>1, <1>6, <1>7 DEF FanOutExact
<1>12. CopiesAgree' /\ GuidUnique'
  BY <1>6 DEF CopiesAgree, GuidUnique
<1>13. ForeignKeys'
  <2>1. \A e \in DOMAIN entries' : entries'[e].feed \in DOMAIN feeds'
    BY <1>6, <1>9 DEF ForeignKeys, gone
  <2>2. \A u \in User : DOMAIN subs'[u] \subseteq DOMAIN feeds'
    BY <1>1, <1>3, <1>9 DEF ForeignKeys
  <2>3. \A u \in User : pins'[u] \subseteq DOMAIN entries'
    BY <1>6 DEF ForeignKeys
  <2>4. QED
    BY <2>1, <2>2, <2>3 DEF ForeignKeys
<1>14. UnreadCountExact'
  BY <1>1, <1>8 DEF UnreadCountExact
<1>15. QED
  BY <1>10, <1>11, <1>12, <1>13, <1>14

\* The rowids handed out next belong to no entry.
LEMMA NextIdsFresh ==
    ASSUME NEW n, TypeOK
    PROVE  NextIds(n) \subseteq EntryId /\ NextIds(n) \cap DOMAIN entries = {}
<1>1. NextIds(n) \subseteq EntryId
  BY DEF NextIds
<1>2. \A i \in NextIds(n) : \A e \in DOMAIN entries : e < i
  BY DEF NextIds
<1>3. DOMAIN entries \subseteq EntryId
  BY DEF TypeOK, IsTable
<1>4. \A i \in EntryId : ~(i < i)
  BY ConstantsAssumption DEF EntryId
<1>5. QED
  BY <1>1, <1>2, <1>3, <1>4

\* The entry an upsert inserts and the row it fans out agree.
LEMMA InsertedRows ==
    ASSUME NEW f \in FeedId, NEW g \in Guid, NEW input \in EntryInput,
           NEW u \in User, NEW first, TypeOK
    PROVE  /\ InsertedEntry(f, g, input) \in EntryRow
           /\ InsertedEntry(f, g, input).feed = f
           /\ InsertedEntry(f, g, input).guid = g
           /\ InsertedState(u, f, g, input, first) \in StateRow
           /\ InsertedState(u, f, g, input, first).feed = f
           /\ InsertedState(u, f, g, input, first).pub
                = InsertedEntry(f, g, input).pub
           /\ InsertedState(u, f, g, input, first).created
                = InsertedEntry(f, g, input).created
<1>1. now \in Time
  BY DEF TypeOK
<1>2. (input.dateMissing /\ g # first) \in BOOLEAN
  OBVIOUS
<1>3. Matches(u, input.text) \in BOOLEAN
  BY DEF Matches
<1>4. InsertedEntry(f, g, input) \in EntryRow
  BY <1>1 DEF InsertedEntry, EntryInput, EntryRow
<1>5. InsertedState(u, f, g, input, first) \in StateRow
  BY <1>1, <1>2, <1>3 DEF InsertedState, EntryInput, StateRow
<1>6. QED
  BY <1>4, <1>5 DEF InsertedEntry, InsertedState

\* The UPDATE branch keeps the columns user_entry_state copies.
LEMMA RevisedRow ==
    ASSUME NEW row \in EntryRow, NEW input \in EntryInput, TypeOK
    PROVE  /\ RevisedEntry(row, input) \in EntryRow
           /\ RevisedEntry(row, input).feed = row.feed
           /\ RevisedEntry(row, input).guid = row.guid
           /\ RevisedEntry(row, input).pub = row.pub
           /\ RevisedEntry(row, input).created = row.created
BY DEF RevisedEntry, EntryRow, EntryInput, TypeOK

\* A crawl's upsert adds a row for every subscriber of every new entry.
LEMMA UpsertEntriesInv ==
    ASSUME NEW f \in FeedId, NEW batch \in Batch, NEW first, NEW guidOf,
           Numbering(f, batch, first, guidOf),
           UpsertEntries(f, batch, first, guidOf), StoreInv
    PROVE  StoreInv'
<1> USE DEF StoreInv
<1> DEFINE ids == DOMAIN guidOf
<1>1. /\ guidOf \in [ids -> NewGuids(f, batch)]
      /\ ids \subseteq EntryId
      /\ ids \cap DOMAIN entries = {}
  BY NextIdsFresh DEF Numbering
<1>2. \A i, j \in ids : guidOf[i] = guidOf[j] => i = j
  BY DEF Numbering
<1>3. /\ DOMAIN batch \subseteq Guid
      /\ \A g \in DOMAIN batch : batch[g] \in EntryInput
  BY DEF Batch
<1>4. \A i \in ids : /\ guidOf[i] \in DOMAIN batch
                     /\ guidOf[i] \in Guid
                     /\ batch[guidOf[i]] \in EntryInput
                     /\ \A e \in EntriesOf(f) : entries[e].guid # guidOf[i]
  BY <1>1, <1>3 DEF NewGuids
<1>5. \A u \in User : DOMAIN ues[u] \cap ids = {}
  BY <1>1 DEF CopiesAgree
<1>6. /\ DOMAIN entries' = DOMAIN entries \cup ids
      /\ entries' = [e \in DOMAIN entries' |-> entries'[e]]
      /\ \A e \in ids : entries'[e] = InsertedEntry(f, guidOf[e], batch[guidOf[e]])
      /\ \A e \in DOMAIN entries :
            \/ entries'[e] = entries[e]
            \/ /\ entries[e].guid \in DOMAIN batch
               /\ entries'[e] = RevisedEntry(entries[e], batch[entries[e].guid])
  BY <1>1 DEF UpsertEntries
<1>7. ASSUME NEW e \in DOMAIN entries
      PROVE  /\ entries'[e] \in EntryRow
             /\ entries'[e].feed = entries[e].feed
             /\ entries'[e].guid = entries[e].guid
             /\ entries'[e].pub = entries[e].pub
             /\ entries'[e].created = entries[e].created
  <2>1. entries[e] \in EntryRow
    BY DEF TypeOK, IsTable
  <2>2. QED
    BY <1>3, <1>6, <2>1, RevisedRow
<1>8. ASSUME NEW e \in ids
      PROVE  /\ entries'[e] \in EntryRow
             /\ entries'[e].feed = f
             /\ entries'[e].guid = guidOf[e]
  <2>1. InsertedEntry(f, guidOf[e], batch[guidOf[e]]) \in EntryRow
    BY <1>4 DEF InsertedEntry, EntryInput, EntryRow, TypeOK
  <2>2. QED
    BY <1>6, <2>1 DEF InsertedEntry
<1>9. IsTable(entries', EntryId, EntryRow)
  <2>1. DOMAIN entries' \subseteq EntryId
    BY <1>1, <1>6 DEF TypeOK, IsTable
  <2>2. \A e \in DOMAIN entries' : entries'[e] \in EntryRow
    BY <1>6, <1>7, <1>8
  <2>3. QED
    BY <1>6, <2>1, <2>2 DEF IsTable
<1>10. ASSUME NEW u \in User, f \notin DOMAIN subs[u]
       PROVE  ues'[u] = ues[u]
  BY <1>10 DEF UpsertEntries, Subscribers
<1>11. ASSUME NEW u \in User, f \in DOMAIN subs[u]
       PROVE  /\ DOMAIN ues'[u] = DOMAIN ues[u] \cup ids
              /\ ues'[u] = [e \in DOMAIN ues'[u] |-> ues'[u][e]]
              /\ \A e \in DOMAIN ues[u] : ues'[u][e] = ues[u][e]
              /\ \A e \in ids : ues'[u][e] =
                    InsertedState(u, f, guidOf[e], batch[guidOf[e]], first)
  BY <1>5, <1>11 DEF UpsertEntries, Subscribers
<1>12. ASSUME NEW u \in User, NEW e \in DOMAIN ues'[u]
       PROVE  /\ e \in DOMAIN entries'
              /\ ues'[u][e] \in StateRow
              /\ ues'[u][e].feed = entries'[e].feed
              /\ ues'[u][e].pub = entries'[e].pub
              /\ ues'[u][e].created = entries'[e].created
  <2>1. CASE e \in DOMAIN ues[u]
    <3>1. ues'[u][e] = ues[u][e]
      BY <2>1, <1>10, <1>11
    <3>2. e \in DOMAIN entries /\ ues[u][e] \in StateRow
      BY <2>1 DEF TypeOK, IsTable, CopiesAgree
    <3>3. QED
      BY <2>1, <3>1, <3>2, <1>6, <1>7 DEF CopiesAgree
  <2>2. CASE e \notin DOMAIN ues[u]
    <3>1. f \in DOMAIN subs[u] /\ e \in ids
      BY <2>2, <1>10, <1>11
    <3>2. ues'[u][e] = InsertedState(u, f, guidOf[e], batch[guidOf[e]], first)
      BY <3>1, <1>11
    <3>3. entries'[e] = InsertedEntry(f, guidOf[e], batch[guidOf[e]])
      BY <3>1, <1>6
    <3>4. QED
      BY <3>1, <3>2, <3>3, <1>4, <1>6, InsertedRows
  <2>3. QED
    BY <2>1, <2>2
<1>13. \A u \in User : IsTable(ues'[u], EntryId, StateRow)
  <2>1. ASSUME NEW u \in User
        PROVE  IsTable(ues'[u], EntryId, StateRow)
    <3>1. ues'[u] = [e \in DOMAIN ues'[u] |-> ues'[u][e]]
      BY <1>10, <1>11 DEF TypeOK, IsTable
    <3>2. DOMAIN ues'[u] \subseteq EntryId
      BY <1>9, <1>12 DEF IsTable
    <3>3. QED
      BY <3>1, <3>2, <1>12 DEF IsTable
  <2>2. QED
    BY <2>1
<1> DEFINE F == IF ids = {} THEN {} ELSE {f}
<1>14. subs' = Refreshed(subs, ues', F)
  BY DEF UpsertEntries
<1>15. /\ UNCHANGED <<now, feeds, pins, words, pending>>
       /\ f \in DOMAIN feeds
       /\ ues' = [u \in User |-> ues'[u]]
  BY DEF UpsertEntries
<1>16. ids # {} => F = {f}
  OBVIOUS
<1> HIDE DEF ids, F
<1>17. /\ subs' = [u \in User |-> subs'[u]]
       /\ \A u \in User : /\ DOMAIN subs'[u] = DOMAIN subs[u]
                          /\ IsTable(subs'[u], FeedId, Nat)
  <2>1. /\ \A u \in User : IsTable(subs[u], FeedId, Nat)
        /\ \A u \in User : DOMAIN ues'[u] \subseteq EntryId
    BY <1>13 DEF TypeOK, IsTable
  <2>2. LET R == Refreshed(subs, ues', F)
        IN  /\ R = [u \in User |-> R[u]]
            /\ \A u \in User : /\ DOMAIN R[u] = DOMAIN subs[u]
                               /\ IsTable(R[u], FeedId, Nat)
    BY <2>1, RefreshedType
  <2>3. QED
    BY <2>2, <1>14
<1>18. TypeOK'
  BY <1>9, <1>13, <1>15, <1>17 DEF TypeOK
<1>19. FanOutExact'
  <2>1. ASSUME NEW u \in User
        PROVE  DOMAIN ues'[u] =
                 {e \in DOMAIN entries' : entries'[e].feed \in DOMAIN subs'[u]}
    <3>1. DOMAIN ues[u] = {e \in DOMAIN entries : entries[e].feed \in DOMAIN subs[u]}
      BY DEF FanOutExact
    <3>2. DOMAIN subs'[u] = DOMAIN subs[u]
      BY <1>17
    <3> DEFINE old == DOMAIN entries
               ownedNow == {e \in DOMAIN entries' : entries'[e].feed \in DOMAIN subs'[u]}
    <3>a. /\ DOMAIN entries' = old \cup ids
          /\ \A e \in old : entries'[e].feed = entries[e].feed
          /\ \A e \in ids : entries'[e].feed = f
      BY <1>6, <1>7, <1>8
    <3>b. \A e \in ownedNow \cap old : e \in DOMAIN ues[u]
      BY <3>1, <3>2, <3>a
    <3>c. \A e \in DOMAIN ues[u] : e \in ownedNow
      BY <3>1, <3>2, <3>a
    <3>3. CASE f \in DOMAIN subs[u]
      <4>1. \A e \in ids : e \in ownedNow
        BY <3>3, <3>2, <3>a
      <4>2. DOMAIN ues'[u] = DOMAIN ues[u] \cup ids
        BY <3>3, <1>11
      <4>3. ownedNow \subseteq old \cup ids
        BY <3>a
      <4> HIDE DEF ownedNow, old
      <4>4. DOMAIN ues'[u] = ownedNow
        BY <3>b, <3>c, <4>1, <4>2, <4>3
      <4>5. QED
        BY <4>4 DEF ownedNow
    <3>4. CASE f \notin DOMAIN subs[u]
      <4>1. \A e \in ids : e \notin ownedNow
        BY <3>4, <3>2, <3>a
      <4>2. DOMAIN ues'[u] = DOMAIN ues[u]
        BY <3>4, <1>10
      <4>3. ownedNow \subseteq old \cup ids
        BY <3>a
      <4> HIDE DEF ownedNow, old
      <4>4. DOMAIN ues'[u] = ownedNow
        BY <3>b, <3>c, <4>1, <4>2, <4>3
      <4>5. QED
        BY <4>4 DEF ownedNow
    <3>5. QED
      BY <3>3, <3>4
  <2>2. QED
    BY <2>1 DEF FanOutExact
<1>20. CopiesAgree'
  BY <1>12 DEF CopiesAgree
<1>21. ForeignKeys'
  <2>1. \A e \in DOMAIN entries' : entries'[e].feed \in DOMAIN feeds'
    BY <1>6, <1>7, <1>8, <1>15 DEF ForeignKeys
  <2>2. \A u \in User : DOMAIN subs'[u] \subseteq DOMAIN feeds'
    BY <1>15, <1>17 DEF ForeignKeys
  <2>3. \A u \in User : pins'[u] \subseteq DOMAIN entries'
    BY <1>6, <1>15 DEF ForeignKeys
  <2>4. QED
    BY <2>1, <2>2, <2>3 DEF ForeignKeys
<1>22. GuidUnique'
  <2> SUFFICES ASSUME NEW a \in DOMAIN entries', NEW b \in DOMAIN entries',
                      entries'[a].feed = entries'[b].feed,
                      entries'[a].guid = entries'[b].guid
               PROVE  a = b
    BY DEF GuidUnique
  <2>1. CASE a \in DOMAIN entries /\ b \in DOMAIN entries
    BY <2>1, <1>7 DEF GuidUnique
  <2>2. CASE a \in ids /\ b \in ids
    BY <2>2, <1>2, <1>8
  <2>3. CASE a \in ids /\ b \in DOMAIN entries
    BY <2>3, <1>4, <1>7, <1>8 DEF EntriesOf
  <2>4. CASE a \in DOMAIN entries /\ b \in ids
    BY <2>4, <1>4, <1>7, <1>8 DEF EntriesOf
  <2>5. QED
    BY <2>1, <2>2, <2>3, <2>4, <1>6
<1>23. UnreadCountExact'
  <2>1. ASSUME NEW u \in User, NEW g \in DOMAIN subs[u], g \notin F
        PROVE  UnreadRows(ues'[u], g) = UnreadRows(ues[u], g)
    <3>1. CASE f \notin DOMAIN subs[u]
      BY <3>1, <1>10
    <3>2. CASE f \in DOMAIN subs[u]
      <4>1. ASSUME NEW e \in ids
            PROVE  ues'[u][e].feed = f /\ f # g
        <5>1. e \in DOMAIN ues'[u]
          BY <3>2, <1>11
        <5>2. QED
          BY <5>1, <1>8, <1>12, <1>16, <2>1
      <4>2. /\ \A e : e \in DOMAIN ues'[u] /\ ues'[u][e].feed = g
                        <=> e \in DOMAIN ues[u] /\ ues[u][e].feed = g
            /\ \A e \in DOMAIN ues'[u] :
                  ues'[u][e].feed = g => ues'[u][e] = ues[u][e]
        BY <3>2, <4>1, <1>11
      <4>3. QED
        BY <4>2, SameUnreadRows
    <3>3. QED
      BY <3>1, <3>2
  <2>2. \A u \in User : \A g \in DOMAIN subs[u] :
            g \notin F => subs[u][g] = Cardinality(UnreadRows(ues'[u], g))
    BY <2>1 DEF UnreadCountExact
  <2>3. \A u \in User : \A g \in DOMAIN Refreshed(subs, ues', F)[u] :
            Refreshed(subs, ues', F)[u][g] = Cardinality(UnreadRows(ues'[u], g))
    BY <2>2, RefreshedExact
  <2>4. QED
    BY <2>3, <1>14 DEF UnreadCountExact
<1>24. QED
  BY <1>18, <1>19, <1>20, <1>21, <1>22, <1>23

----------------------------------------------------------------------------

\* The invariant is inductive: every action preserves it.
LEMMA NextStoreInv == StoreInv /\ [Next]_vars => StoreInv'
<1> SUFFICES ASSUME StoreInv, [Next]_vars PROVE StoreInv'
  OBVIOUS
<1>1. CASE Tick
  BY <1>1, TickInv
<1>2. CASE \E f \in FeedId : UpsertFeed(f)
  BY <1>2, UpsertFeedInv
<1>3. CASE CrawlerStep
  BY <1>3, UpdateFeedAfterFetchInv, UpsertEntriesInv
     DEF CrawlerStep, UpsertSomeEntries
<1>4. ASSUME NEW u \in User, UserStep(u)
      PROVE  StoreInv'
  <2>1. CASE \E f \in FeedId : UpsertSubscription(u, f) \/ Unsubscribe(u, f)
    BY <2>1, UpsertSubscriptionInv, UnsubscribeInv
  <2>2. CASE \E ids \in SUBSET EntryId \ {{}} : MarkEntriesRead(u, ids)
    BY <2>2, MarkEntriesReadInv
  <2>3. CASE MarkAllEntriesRead(u)
    BY <2>3, MarkAllEntriesReadInv
  <2>4. CASE \E f \in FeedId, before \in 0..MaxNow : MarkFeedReadBefore(u, f, before)
    BY <2>4, MarkFeedReadBeforeInv
  <2>5. CASE \E e \in EntryId : AddPin(u, e) \/ RemovePin(u, e)
    BY <2>5, PinInv
  <2>6. CASE \E w \in Word : AddIgnoreWord(u, w) \/ RemoveIgnoreWord(u, w)
    <3>1. words[u] \in SUBSET Word
      BY DEF StoreInv, TypeOK
    <3>2. \A w \in Word : /\ words[u] \cup {w} \in SUBSET Word
                          /\ words[u] \ {w} \in SUBSET Word
      BY <3>1
    <3>3. QED
      BY <2>6, <3>2, ChangeWordsInv DEF AddIgnoreWord, RemoveIgnoreWord
  <2>7. CASE RecomputeIgnored(u)
    BY <2>7, RecomputeIgnoredInv
  <2>8. CASE AbandonRecompute(u)
    BY <2>8, AbandonRecomputeInv
  <2>9. QED
    BY <1>4, <2>1, <2>2, <2>3, <2>4, <2>5, <2>6, <2>7, <2>8 DEF UserStep
<1>5. CASE MaintenanceStep
  <2>1. OldReadEntries \in SUBSET DOMAIN entries
    BY DEF OldReadEntries
  <2>2. ExcessEntries \in SUBSET DOMAIN entries
    BY DEF ExcessEntries
  <2>3. QED
    BY <1>5, <2>1, <2>2, DeleteEntriesAndRefreshInv, DeleteOrphanFeedsInv
       DEF MaintenanceStep, DeleteOldReadEntries, TrimExcessEntries
<1>6. CASE UNCHANGED vars
  <2>1. TypeOK' /\ ForeignKeys'
    BY <1>6 DEF vars, StoreInv, TypeOK, ForeignKeys
  <2>2. QED
    BY <1>6, <2>1, QuietStep DEF vars
<1>7. QED
  BY <1>1, <1>2, <1>3, <1>4, <1>5, <1>6 DEF Next

\* Every reachable state of the store, whatever the interleaving of crawls,
\* requests and maintenance: fan-out is exact, the cached unread counts are
\* exact, the copied columns agree, references hold and guids are unique.
THEOREM StoreConsistent == Spec => []StoreInv
<1>1. Init => StoreInv
  BY InitStoreInv
<1>2. StoreInv /\ [Next]_vars => StoreInv'
  BY NextStoreInv
<1>3. QED
  BY <1>1, <1>2, PTL DEF Spec

\* Corollary for a reader of the sidebar: every badge is the true count.
THEOREM CountsExact == Spec => []UnreadCountExact
<1>1. StoreInv => UnreadCountExact
  BY DEF StoreInv
<1>2. QED
  BY <1>1, StoreConsistent, PTL

\* The state row a pin, a read mark or a list looks up exists exactly for the
\* entries of the feeds the user follows, in every reachable state.
THEOREM FanOutHolds == Spec => []FanOutExact
<1>1. StoreInv => FanOutExact
  BY DEF StoreInv
<1>2. QED
  BY <1>1, StoreConsistent, PTL

----------------------------------------------------------------------------
(* What no step does.                                                      *)

\* A deletion of entries keeps the remaining user_entry_state rows as they
\* are.
LEMMA CascadeKeepsRows ==
    ASSUME NEW keep, ues' = [u \in User |-> KeepRows(ues[u], keep)]
    PROVE  ReadStep
BY DEF ReadStep, KeepRows

\* Marking rows read sets read_at on some rows and clears it on none.
LEMMA MarkReadStep ==
    ASSUME TypeOK, NEW u \in User, NEW rows, NEW refresh,
           MarkRead(u, rows, refresh)
    PROVE  ReadStep
<1> SUFFICES ASSUME NEW v \in User, NEW e \in DOMAIN ues[v] \cap DOMAIN ues'[v],
                    ues[v][e].read
             PROVE  ues'[v][e].read
  BY DEF ReadStep
<1>1. ues[v][e] \in StateRow
  BY DEF TypeOK, IsTable
<1>2. CASE v = u
  <2>1. ues'[u] = [x \in DOMAIN ues[u] |->
                     IF x \in rows THEN [ues[u][x] EXCEPT !.read = TRUE]
                                   ELSE ues[u][x]]
    BY DEF MarkRead, TypeOK
  <2>2. QED
    BY <1>1, <1>2, <2>1, StateRowUpdate DEF StateRow
<1>3. CASE v # u
  BY <1>3 DEF MarkRead, TypeOK
<1>4. QED
  BY <1>2, <1>3

\* A crawl's upsert gives rows to new ids only, and leaves old rows alone.
LEMMA UpsertEntriesReadStep ==
    ASSUME TypeOK, CopiesAgree, NEW f, NEW batch, NEW first, NEW guidOf,
           Numbering(f, batch, first, guidOf),
           UpsertEntries(f, batch, first, guidOf)
    PROVE  ReadStep
<1>1. \A u \in User : DOMAIN ues[u] \cap DOMAIN guidOf = {}
  BY NextIdsFresh DEF CopiesAgree, Numbering
<1>2. \A u \in User : \A e \in DOMAIN ues[u] : ues'[u][e] = ues[u][e]
  BY <1>1 DEF UpsertEntries, Subscribers
<1>3. QED
  BY <1>2 DEF ReadStep

\* Subscribing again adds missing rows and, ON CONFLICT DO NOTHING, leaves
\* the others.
LEMMA UpsertSubscriptionReadStep ==
    ASSUME TypeOK, NEW u \in User, NEW f, UpsertSubscription(u, f)
    PROVE  ReadStep
<1>1. ues'[u] = FannedOut(u, f) /\ \A v \in User \ {u} : ues'[v] = ues[v]
  BY DEF UpsertSubscription, TypeOK
<1>2. \A e \in DOMAIN ues[u] : ues'[u][e] = ues[u][e]
  BY <1>1 DEF FannedOut
<1>3. QED
  BY <1>1, <1>2 DEF ReadStep

\* Unsubscribing drops rows and changes none.
LEMMA UnsubscribeReadStep ==
    ASSUME TypeOK, NEW u \in User, NEW f, Unsubscribe(u, f)
    PROVE  ReadStep
<1>1. /\ ues'[u] = KeepRows(ues[u], {e \in DOMAIN ues[u] : ues[u][e].feed # f})
      /\ \A v \in User \ {u} : ues'[v] = ues[v]
  BY DEF Unsubscribe, TypeOK
<1>2. \A e \in DOMAIN ues'[u] : ues'[u][e] = ues[u][e]
  BY <1>1 DEF KeepRows
<1>3. QED
  BY <1>1, <1>2 DEF ReadStep

\* A recompute writes the ignored column alone.
LEMMA RecomputeIgnoredReadStep ==
    ASSUME TypeOK, NEW u \in User, RecomputeIgnored(u)
    PROVE  ReadStep
<1>1. /\ ues'[u] = [e \in DOMAIN ues[u] |->
                      [ues[u][e] EXCEPT !.ignored = Matches(u, entries[e].text)]]
      /\ \A v \in User \ {u} : ues'[v] = ues[v]
  BY DEF RecomputeIgnored, TypeOK
<1>2. \A e \in DOMAIN ues[u] : ues[u][e] \in StateRow
  BY DEF TypeOK, IsTable
<1>3. \A e \in DOMAIN ues[u] : ues'[u][e].read = ues[u][e].read
  BY <1>1, <1>2 DEF StateRow
<1>4. QED
  BY <1>1, <1>3 DEF ReadStep

\* Steps that leave user_entry_state alone.
LEMMA QuietReadStep == ues' = ues => ReadStep
BY DEF ReadStep

\* Every step of the store is a ReadStep.
LEMMA NextReadStep == StoreInv /\ [Next]_vars => ReadStep
<1> SUFFICES ASSUME StoreInv, [Next]_vars PROVE ReadStep
  OBVIOUS
<1>0. TypeOK /\ CopiesAgree
  BY DEF StoreInv
<1>1. CASE Tick
  BY <1>1, QuietReadStep DEF Tick
<1>2. CASE \E f \in FeedId : UpsertFeed(f)
  BY <1>2, QuietReadStep DEF UpsertFeed
<1>3. CASE CrawlerStep
  <2>1. ASSUME NEW f \in FeedId, UpdateFeedAfterFetch(f)
        PROVE  ReadStep
    BY <2>1, QuietReadStep DEF UpdateFeedAfterFetch
  <2>2. ASSUME NEW f \in FeedId, UpsertSomeEntries(f)
        PROVE  ReadStep
    BY <1>0, <2>2, UpsertEntriesReadStep DEF UpsertSomeEntries
  <2>3. QED
    BY <1>3, <2>1, <2>2 DEF CrawlerStep
<1>4. ASSUME NEW u \in User, UserStep(u)
      PROVE  ReadStep
  <2>1. CASE \E f \in FeedId : UpsertSubscription(u, f) \/ Unsubscribe(u, f)
    BY <1>0, <2>1, UpsertSubscriptionReadStep, UnsubscribeReadStep
  <2>2. CASE \E ids \in SUBSET EntryId \ {{}} : MarkEntriesRead(u, ids)
    BY <1>0, <2>2, MarkReadStep DEF MarkEntriesRead
  <2>3. CASE MarkAllEntriesRead(u)
    BY <1>0, <2>3, MarkReadStep DEF MarkAllEntriesRead
  <2>4. CASE \E f \in FeedId, before \in 0..MaxNow : MarkFeedReadBefore(u, f, before)
    BY <1>0, <2>4, MarkReadStep DEF MarkFeedReadBefore
  <2>5. CASE \E e \in EntryId : AddPin(u, e) \/ RemovePin(u, e)
    BY <2>5, QuietReadStep DEF AddPin, RemovePin
  <2>6. CASE \E w \in Word : AddIgnoreWord(u, w) \/ RemoveIgnoreWord(u, w)
    BY <2>6, QuietReadStep DEF AddIgnoreWord, RemoveIgnoreWord, ChangeWords
  <2>7. CASE RecomputeIgnored(u)
    BY <1>0, <2>7, RecomputeIgnoredReadStep
  <2>8. CASE AbandonRecompute(u)
    BY <2>8, QuietReadStep DEF AbandonRecompute
  <2>9. QED
    BY <1>4, <2>1, <2>2, <2>3, <2>4, <2>5, <2>6, <2>7, <2>8 DEF UserStep
<1>5. CASE MaintenanceStep
  <2>1. CASE DeleteOldReadEntries
    BY <2>1, CascadeKeepsRows DEF DeleteOldReadEntries, DeleteEntriesAndRefresh
  <2>2. CASE TrimExcessEntries
    BY <2>2, CascadeKeepsRows DEF TrimExcessEntries, DeleteEntriesAndRefresh
  <2>3. CASE DeleteOrphanFeeds
    BY <2>3, CascadeKeepsRows DEF DeleteOrphanFeeds
  <2>4. QED
    BY <1>5, <2>1, <2>2, <2>3 DEF MaintenanceStep
<1>6. CASE UNCHANGED vars
  BY <1>6, QuietReadStep DEF vars
<1>7. QED
  BY <1>1, <1>2, <1>3, <1>4, <1>5, <1>6 DEF Next

\* No transaction turns a row a user has read unread again, for any number of
\* users, feeds and entries and any interleaving.
THEOREM ReadIsStable == Spec => ReadNeverReverts
<1>1. StoreInv /\ [Next]_vars => [ReadStep]_vars
  BY NextReadStep
<1>2. QED
  BY <1>1, StoreConsistent, PTL DEF Spec, ReadNeverReverts

----------------------------------------------------------------------------

\* Every step of the store is a PinStep: a step keeps all entries, or deletes
\* a set without pinned entries, or deletes whole feeds.
LEMMA NextPinStep == StoreInv /\ [Next]_vars => PinStep
<1> SUFFICES ASSUME StoreInv, [Next]_vars PROVE PinStep
  OBVIOUS
<1>1. DOMAIN entries \subseteq EntryId
  BY DEF StoreInv, TypeOK, IsTable
<1>2. ASSUME DOMAIN entries \subseteq DOMAIN entries'
      PROVE  PinStep
  BY <1>2 DEF PinStep
<1>3. entries' = entries => PinStep
  BY <1>2
<1>4. ASSUME NEW gone, gone \cap PinnedEntries = {}, DeleteEntriesAndRefresh(gone)
      PROVE  PinStep
  <2>1. DOMAIN entries' = DOMAIN entries \cap (EntryId \ gone)
    BY <1>4 DEF DeleteEntriesAndRefresh, KeepRows
  <2>2. QED
    BY <1>1, <1>4, <2>1 DEF PinStep
<1>5. CASE Tick \/ \E f \in FeedId : UpsertFeed(f)
  BY <1>3, <1>5 DEF Tick, UpsertFeed
<1>6. CASE CrawlerStep
  <2>1. ASSUME NEW f \in FeedId, UpdateFeedAfterFetch(f)
        PROVE  PinStep
    BY <1>3, <2>1 DEF UpdateFeedAfterFetch
  <2>2. ASSUME NEW f \in FeedId, UpsertSomeEntries(f)
        PROVE  PinStep
    <3>1. DOMAIN entries \subseteq DOMAIN entries'
      BY <2>2 DEF UpsertSomeEntries, UpsertEntries
    <3>2. QED
      BY <1>2, <3>1
  <2>3. QED
    BY <1>6, <2>1, <2>2 DEF CrawlerStep
<1>7. ASSUME NEW u \in User, UserStep(u)
      PROVE  PinStep
  BY <1>3, <1>7
     DEF UserStep, UpsertSubscription, Unsubscribe, MarkEntriesRead, MarkRead,
         MarkAllEntriesRead, MarkFeedReadBefore, AddPin, RemovePin, ChangeWords,
         AddIgnoreWord, RemoveIgnoreWord, RecomputeIgnored, AbandonRecompute
<1>8. CASE MaintenanceStep
  <2>1. CASE DeleteOldReadEntries
    <3>1. OldReadEntries \cap PinnedEntries = {}
      BY DEF OldReadEntries
    <3>2. QED
      BY <1>4, <2>1, <3>1 DEF DeleteOldReadEntries
  <2>2. CASE TrimExcessEntries
    <3>1. ExcessEntries \cap PinnedEntries = {}
      BY DEF ExcessEntries
    <3>2. QED
      BY <1>4, <2>2, <3>1 DEF TrimExcessEntries
  <2>3. CASE DeleteOrphanFeeds
    <3>1. DOMAIN feeds' = DOMAIN feeds \cap (FeedId \ OrphanFeeds)
      BY <2>3 DEF DeleteOrphanFeeds, KeepRows
    <3>2. \A e \in DOMAIN entries \ DOMAIN entries' : entries[e].feed \in OrphanFeeds
      BY <1>1, <2>3 DEF DeleteOrphanFeeds, KeepRows
    <3>3. QED
      BY <3>1, <3>2 DEF PinStep
  <2>4. QED
    BY <1>8, <2>1, <2>2, <2>3 DEF MaintenanceStep
<1>9. CASE UNCHANGED vars
  BY <1>3, <1>9 DEF vars
<1>10. QED
  BY <1>5, <1>6, <1>7, <1>8, <1>9 DEF Next

\* No garbage collection takes a pinned entry of a feed that stays.
THEOREM PinsAreKept == Spec => PinnedEntriesKept
<1>1. StoreInv /\ [Next]_vars => [PinStep]_vars
  BY NextPinStep
<1>2. QED
  BY <1>1, StoreConsistent, PTL DEF Spec, PinnedEntriesKept

----------------------------------------------------------------------------
(* The per-feed cap.                                                       *)

\* A nonempty set of natural numbers has a smallest element.
LEMMA LeastNumber ==
    ASSUME NEW T, T \subseteq Nat, T # {}
    PROVE  \E x \in T : \A y \in T : x =< y
<1> DEFINE R == {ss \in Nat \X Nat : ss[1] < ss[2]}
<1>1. IsWellFoundedOn(R, Nat)
  BY NatLessThanWellFounded DEF OpToRel
<1>2. \A x, y \in Nat : y < x => <<y, x>> \in R
  OBVIOUS
<1> HIDE DEF R
<1>3. PICK x \in T : \A y \in T : ~(<<y, x>> \in R)
  BY <1>1, WFMin, Zenon
<1>4. \A y \in T : ~(y < x)
  BY <1>2, <1>3, Zenon
<1>5. QED
  BY <1>4

NewerThan(e) == {a \in DOMAIN entries : Newer(entries, a, e)}

\* ORDER BY published_at DESC, id DESC is a strict order within a feed.
LEMMA NewerOrder ==
    ASSUME TypeOK
    PROVE  /\ \A e \in DOMAIN entries : ~Newer(entries, e, e)
           /\ \A a, b, c \in DOMAIN entries :
                Newer(entries, a, b) /\ Newer(entries, b, c)
                    => Newer(entries, a, c)
<1>1. \A e \in DOMAIN entries : e \in Nat /\ entries[e].pub \in Nat
  BY ConstantsAssumption DEF TypeOK, IsTable, EntryRow, EntryId, Time
<1>2. QED
  BY <1>1 DEF Newer

\* ROW_NUMBER() is a number, and counts the entries before a row.
LEMMA RowNumbers ==
    ASSUME TypeOK, NEW e \in DOMAIN entries
    PROVE  /\ IsFiniteSet(NewerThan(e))
           /\ Cardinality(NewerThan(e)) \in Nat
           /\ RowNumber(e) = Cardinality(NewerThan(e)) + 1
<1>1. IsFiniteSet(EntryId)
  BY FS_Interval, ConstantsAssumption DEF EntryId
<1>2. NewerThan(e) \subseteq EntryId
  BY DEF NewerThan, TypeOK, IsTable
<1>3. QED
  BY <1>1, <1>2, FS_Subset, FS_CardinalityType DEF RowNumber, NewerThan

\* A newer entry of the feed has a smaller row number.
LEMMA NewerHasSmallerNumber ==
    ASSUME TypeOK, NEW e \in DOMAIN entries, NEW a \in NewerThan(e)
    PROVE  /\ a \in DOMAIN entries
           /\ NewerThan(a) \subseteq NewerThan(e)
           /\ RowNumber(a) < RowNumber(e)
<1>1. a \in DOMAIN entries /\ Newer(entries, a, e)
  BY DEF NewerThan
<1>2. NewerThan(a) \subseteq NewerThan(e)
  BY <1>1, NewerOrder DEF NewerThan
<1>3. a \notin NewerThan(a)
  BY <1>1, NewerOrder DEF NewerThan
<1>4. Cardinality(NewerThan(a)) < Cardinality(NewerThan(e))
  BY <1>1, <1>2, <1>3, RowNumbers, FS_Subset
<1>5. QED
  BY <1>1, <1>2, <1>4, RowNumbers

\* The entries a cap of n keeps before one it cuts are at least n: the newest
\* of the others would itself have fewer than n before it.
LEMMA CapKeepsEnough ==
    ASSUME TypeOK, NEW n \in Nat, NEW e \in DOMAIN entries, RowNumber(e) > n
    PROVE  Cardinality({a \in NewerThan(e) : RowNumber(a) =< n}) >= n
<1> DEFINE kept == {a \in NewerThan(e) : RowNumber(a) =< n}
<1>1. /\ IsFiniteSet(NewerThan(e))
      /\ Cardinality(NewerThan(e)) \in Nat
      /\ Cardinality(NewerThan(e)) >= n
  BY RowNumbers
<1>2. kept \subseteq NewerThan(e) /\ IsFiniteSet(kept) /\ Cardinality(kept) \in Nat
  BY <1>1, FS_Subset, FS_CardinalityType
<1> SUFFICES ASSUME Cardinality(kept) < n PROVE FALSE
  BY <1>2
<1>3. NewerThan(e) \ kept # {}
  BY <1>1, <1>2
<1> DEFINE T == {RowNumber(a) : a \in NewerThan(e) \ kept}
<1>4. T \subseteq Nat /\ T # {}
  BY <1>3, NewerHasSmallerNumber, RowNumbers
<1>5. PICK x \in T : \A y \in T : x =< y
  BY <1>4, LeastNumber
<1>6. PICK m \in NewerThan(e) \ kept : x = RowNumber(m)
  OBVIOUS
<1>7. m \in DOMAIN entries /\ NewerThan(m) \subseteq NewerThan(e)
  BY NewerHasSmallerNumber
<1>8. ASSUME NEW a \in NewerThan(m)
      PROVE  a \in kept
  <2>1. RowNumber(a) < RowNumber(m) /\ a \in DOMAIN entries
    BY <1>7, NewerHasSmallerNumber
  <2>2. RowNumber(a) \in Nat /\ RowNumber(m) \in Nat
    BY <1>7, <2>1, RowNumbers
  <2>3. RowNumber(a) \notin T
    BY <1>5, <1>6, <2>1, <2>2
  <2>4. QED
    BY <1>7, <2>3
<1>9. Cardinality(NewerThan(m)) =< Cardinality(kept)
  BY <1>2, <1>8, FS_Subset
<1>10. RowNumber(m) = Cardinality(NewerThan(m)) + 1 /\ Cardinality(NewerThan(m)) \in Nat
  BY <1>7, RowNumbers
<1>11. RowNumber(m) =< n
  BY <1>2, <1>9, <1>10
<1>12. QED
  BY <1>6, <1>11

\* Trimming a feed to the cap leaves PerFeedLimit newer entries behind for
\* every entry it takes; read, retained and orphaned entries have no unread
\* row.
LEMMA NextUnreadStep == StoreInv /\ [Next]_vars => UnreadStep
<1> SUFFICES ASSUME StoreInv, [Next]_vars PROVE UnreadStep
  OBVIOUS
<1>1. DOMAIN entries \subseteq EntryId /\ TypeOK
  BY DEF StoreInv, TypeOK, IsTable
<1>2. ASSUME DOMAIN entries \subseteq DOMAIN entries'
      PROVE  UnreadStep
  BY <1>2 DEF UnreadStep
<1>3. entries' = entries => UnreadStep
  BY <1>2
<1>4. CASE Tick \/ \E f \in FeedId : UpsertFeed(f)
  BY <1>3, <1>4 DEF Tick, UpsertFeed
<1>5. CASE CrawlerStep
  <2>1. ASSUME NEW f \in FeedId, UpdateFeedAfterFetch(f)
        PROVE  UnreadStep
    BY <1>3, <2>1 DEF UpdateFeedAfterFetch
  <2>2. ASSUME NEW f \in FeedId, UpsertSomeEntries(f)
        PROVE  UnreadStep
    <3>1. DOMAIN entries \subseteq DOMAIN entries'
      BY <2>2 DEF UpsertSomeEntries, UpsertEntries
    <3>2. QED
      BY <1>2, <3>1
  <2>3. QED
    BY <1>5, <2>1, <2>2 DEF CrawlerStep
<1>6. ASSUME NEW u \in User, UserStep(u)
      PROVE  UnreadStep
  BY <1>3, <1>6
     DEF UserStep, UpsertSubscription, Unsubscribe, MarkEntriesRead, MarkRead,
         MarkAllEntriesRead, MarkFeedReadBefore, AddPin, RemovePin, ChangeWords,
         AddIgnoreWord, RemoveIgnoreWord, RecomputeIgnored, AbandonRecompute
<1>7. CASE DeleteOldReadEntries
  <2>1. DOMAIN entries' = DOMAIN entries \cap (EntryId \ OldReadEntries)
    BY <1>7 DEF DeleteOldReadEntries, DeleteEntriesAndRefresh, KeepRows
  <2>2. \A e \in DOMAIN entries \ DOMAIN entries' : NobodyHasUnread(e)
    BY <1>1, <2>1 DEF OldReadEntries
  <2>3. QED
    BY <2>2 DEF UnreadStep
<1>8. CASE TrimExcessEntries
  <2>1. DOMAIN entries' = DOMAIN entries \cap (EntryId \ ExcessEntries)
    BY <1>8 DEF TrimExcessEntries, DeleteEntriesAndRefresh, KeepRows
  <2>2. ASSUME NEW e \in DOMAIN entries \ DOMAIN entries'
        PROVE  Cardinality({a \in DOMAIN entries' : Newer(entries, a, e)})
                 >= PerFeedLimit
    <3> DEFINE kept == {a \in NewerThan(e) : RowNumber(a) =< PerFeedLimit}
               left == {a \in DOMAIN entries' : Newer(entries, a, e)}
    <3>1. RowNumber(e) > PerFeedLimit /\ PerFeedLimit \in Nat
      BY <1>1, <2>1, ConstantsAssumption DEF ExcessEntries
    <3>2. Cardinality(kept) >= PerFeedLimit
      BY <1>1, <3>1, CapKeepsEnough
    <3>3. \A a \in kept : a \notin ExcessEntries
      <4>1. \A a \in kept : a \in DOMAIN entries
        BY DEF NewerThan
      <4>2. \A a \in kept : RowNumber(a) \in Nat
        BY <1>1, <4>1, RowNumbers
      <4>3. QED
        BY <3>1, <4>2 DEF ExcessEntries
    <3>4. kept \subseteq left /\ left \subseteq NewerThan(e)
      BY <1>1, <2>1, <3>3 DEF NewerThan
    <3>5. IsFiniteSet(NewerThan(e))
      BY <1>1, RowNumbers
    <3>6. IsFiniteSet(left)
      BY <3>4, <3>5, FS_Subset
    <3>7. /\ IsFiniteSet(kept)
          /\ Cardinality(kept) \in Nat /\ Cardinality(left) \in Nat
          /\ Cardinality(kept) =< Cardinality(left)
      BY <3>4, <3>6, FS_Subset, FS_CardinalityType
    <3>8. QED
      BY <3>1, <3>2, <3>7
  <2>3. QED
    BY <2>2 DEF UnreadStep
<1>9. CASE DeleteOrphanFeeds
  <2>1. \A e \in DOMAIN entries \ DOMAIN entries' : entries[e].feed \in OrphanFeeds
    BY <1>1, <1>9 DEF DeleteOrphanFeeds, KeepRows
  <2>2. \A e \in DOMAIN entries \ DOMAIN entries' : \A u \in User :
            entries[e].feed \notin DOMAIN subs[u]
    BY <2>1 DEF OrphanFeeds, Subscribers
  <2>3. \A e \in DOMAIN entries \ DOMAIN entries' : NobodyHasUnread(e)
    BY <2>2 DEF StoreInv, FanOutExact, NobodyHasUnread, UnreadOf
  <2>4. QED
    BY <2>3 DEF UnreadStep
<1>10. CASE UNCHANGED vars
  BY <1>3, <1>10 DEF vars
<1>11. QED
  BY <1>4, <1>5, <1>6, <1>7, <1>8, <1>9, <1>10 DEF Next, MaintenanceStep

\* What a subscriber has not read is lost to the per-feed cap alone, and only
\* behind PerFeedLimit newer entries, whatever the limits and dates are.
THEOREM OnlyTheCapTakesUnread == Spec => UnreadLostOnlyToCap
<1>1. StoreInv /\ [Next]_vars => [UnreadStep]_vars
  BY NextUnreadStep
<1>2. QED
  BY <1>1, StoreConsistent, PTL DEF Spec, UnreadLostOnlyToCap

----------------------------------------------------------------------------
(* The ignored flags.                                                      *)

\* What a step other than a recompute does to the flags of v: an old row
\* keeps its flag, a new row is matched against the words of the moment.
FlagStep(v) ==
    \A e \in DOMAIN ues'[v] :
        /\ e \in DOMAIN ues[v] => ues'[v][e].ignored = ues[v][e].ignored
        /\ e \notin DOMAIN ues[v] =>
              /\ words'[v] = words[v]
              /\ ues'[v][e].ignored = Matches(v, entries'[e].text)

\* Steps that leave the state rows of v alone.
LEMMA SameFlags ==
    ASSUME NEW v, ues'[v] = ues[v]
    PROVE  FlagStep(v)
BY DEF FlagStep

\* Steps that drop rows of v and change none.
LEMMA FewerFlags ==
    ASSUME NEW v, NEW keep, ues'[v] = KeepRows(ues[v], keep)
    PROVE  FlagStep(v)
BY DEF FlagStep, KeepRows

\* Marking rows read writes read_at alone.
LEMMA MarkReadFlags ==
    ASSUME TypeOK, NEW u \in User, NEW rows, NEW refresh,
           MarkRead(u, rows, refresh), NEW v \in User
    PROVE  FlagStep(v)
<1>1. CASE v # u
  BY <1>1, SameFlags DEF MarkRead, TypeOK
<1>2. CASE v = u
  <2>1. ues'[u] = [x \in DOMAIN ues[u] |->
                     IF x \in rows THEN [ues[u][x] EXCEPT !.read = TRUE]
                                   ELSE ues[u][x]]
    BY DEF MarkRead, TypeOK
  <2>2. \A e \in DOMAIN ues[u] : ues[u][e] \in StateRow
    BY DEF TypeOK, IsTable
  <2>3. \A e \in DOMAIN ues[u] : ues'[u][e].ignored = ues[u][e].ignored
    BY <2>1, <2>2 DEF StateRow
  <2>4. DOMAIN ues'[u] = DOMAIN ues[u]
    BY <2>1
  <2>5. QED
    BY <1>2, <2>3, <2>4 DEF FlagStep
<1>3. QED
  BY <1>1, <1>2

\* The ignored column of a new row is the outcome of the match.
LEMMA InsertedFlag ==
    ASSUME NEW u, NEW f, NEW g, NEW input, NEW first
    PROVE  /\ InsertedEntry(f, g, input).text = input.text
           /\ InsertedState(u, f, g, input, first).ignored = Matches(u, input.text)
BY Zenon DEF InsertedState, InsertedEntry

\* The same for a backfilled row.
LEMMA BackfilledFlag ==
    ASSUME NEW u, NEW e
    PROVE  BackfilledState(u, e).ignored = Matches(u, entries[e].text)
BY Zenon DEF BackfilledState

\* A crawl matches each new row against the subscriber's words.
LEMMA UpsertEntriesFlags ==
    ASSUME StoreInv, NEW f, NEW batch, NEW first, NEW guidOf,
           Numbering(f, batch, first, guidOf),
           UpsertEntries(f, batch, first, guidOf), NEW v \in User
    PROVE  FlagStep(v)
<1>1. DOMAIN ues[v] \cap DOMAIN guidOf = {}
  BY NextIdsFresh DEF StoreInv, CopiesAgree, Numbering
<1>2. CASE f \notin DOMAIN subs[v]
  BY <1>2, SameFlags DEF UpsertEntries, Subscribers
<1>3. CASE f \in DOMAIN subs[v]
  <2>1. /\ DOMAIN ues'[v] = DOMAIN ues[v] \cup DOMAIN guidOf
        /\ \A e \in DOMAIN ues[v] : ues'[v][e] = ues[v][e]
        /\ \A e \in DOMAIN guidOf : ues'[v][e] =
              InsertedState(v, f, guidOf[e], batch[guidOf[e]], first)
    BY <1>1, <1>3 DEF UpsertEntries, Subscribers
  <2>2. \A e \in DOMAIN guidOf :
            entries'[e] = InsertedEntry(f, guidOf[e], batch[guidOf[e]])
    BY DEF UpsertEntries
  <2>3. \A e \in DOMAIN guidOf :
            /\ entries'[e].text = batch[guidOf[e]].text
            /\ ues'[v][e].ignored = Matches(v, batch[guidOf[e]].text)
    BY <2>1, <2>2, InsertedFlag
  <2>4. words'[v] = words[v]
    BY DEF UpsertEntries
  <2>5. QED
    BY <2>1, <2>3, <2>4 DEF FlagStep
<1>4. QED
  BY <1>2, <1>3

\* So does the backfill of a new subscription.
LEMMA UpsertSubscriptionFlags ==
    ASSUME TypeOK, NEW u \in User, NEW f, UpsertSubscription(u, f),
           NEW v \in User
    PROVE  FlagStep(v)
<1>1. CASE v # u
  BY <1>1, SameFlags DEF UpsertSubscription, TypeOK
<1>2. CASE v = u
  <2>1. ues'[u] = FannedOut(u, f)
    BY DEF UpsertSubscription, TypeOK
  <2>2. /\ DOMAIN ues'[u] = DOMAIN ues[u] \cup EntriesOf(f)
        /\ \A e \in DOMAIN ues[u] : ues'[u][e] = ues[u][e]
        /\ \A e \in EntriesOf(f) \ DOMAIN ues[u] :
              ues'[u][e] = BackfilledState(u, e)
    BY <2>1 DEF FannedOut
  <2>3. \A e \in EntriesOf(f) \ DOMAIN ues[u] :
            ues'[u][e].ignored = Matches(u, entries[e].text)
    BY <2>2, BackfilledFlag
  <2>4. entries' = entries /\ words' = words
    BY DEF UpsertSubscription
  <2>5. QED
    BY <1>2, <2>2, <2>3, <2>4 DEF FlagStep
<1>3. QED
  BY <1>1, <1>2

\* A step recomputes the flags of a user or is a FlagStep for that user.
LEMMA NextFlagStep ==
    ASSUME StoreInv, Next, NEW v \in User
    PROVE  RecomputeIgnored(v) \/ FlagStep(v)
<1>0. TypeOK
  BY DEF StoreInv
<1>1. CASE Tick
  BY <1>1, SameFlags DEF Tick
<1>2. CASE \E f \in FeedId : UpsertFeed(f)
  BY <1>2, SameFlags DEF UpsertFeed
<1>3. CASE CrawlerStep
  <2>1. ASSUME NEW f \in FeedId, UpdateFeedAfterFetch(f)
        PROVE  FlagStep(v)
    BY <2>1, SameFlags DEF UpdateFeedAfterFetch
  <2>2. ASSUME NEW f \in FeedId, UpsertSomeEntries(f)
        PROVE  FlagStep(v)
    BY <2>2, UpsertEntriesFlags DEF UpsertSomeEntries
  <2>3. QED
    BY <1>3, <2>1, <2>2 DEF CrawlerStep
<1>4. ASSUME NEW u \in User, UserStep(u)
      PROVE  RecomputeIgnored(v) \/ FlagStep(v)
  <2>1. ASSUME NEW f \in FeedId, UpsertSubscription(u, f)
        PROVE  FlagStep(v)
    BY <1>0, <2>1, UpsertSubscriptionFlags
  <2>2. ASSUME NEW f \in FeedId, Unsubscribe(u, f)
        PROVE  FlagStep(v)
    <3>1. CASE v = u
      BY <1>0, <2>2, <3>1, FewerFlags DEF Unsubscribe, TypeOK
    <3>2. CASE v # u
      BY <1>0, <2>2, <3>2, SameFlags DEF Unsubscribe, TypeOK
    <3>3. QED
      BY <3>1, <3>2
  <2>3. CASE \E ids \in SUBSET EntryId \ {{}} : MarkEntriesRead(u, ids)
    BY <1>0, <2>3, MarkReadFlags DEF MarkEntriesRead
  <2>4. CASE MarkAllEntriesRead(u)
    BY <1>0, <2>4, MarkReadFlags DEF MarkAllEntriesRead
  <2>5. CASE \E f \in FeedId, before \in 0..MaxNow : MarkFeedReadBefore(u, f, before)
    BY <1>0, <2>5, MarkReadFlags DEF MarkFeedReadBefore
  <2>6. CASE \E e \in EntryId : AddPin(u, e) \/ RemovePin(u, e)
    BY <2>6, SameFlags DEF AddPin, RemovePin
  <2>7. CASE \E w \in Word : AddIgnoreWord(u, w) \/ RemoveIgnoreWord(u, w)
    BY <2>7, SameFlags DEF AddIgnoreWord, RemoveIgnoreWord, ChangeWords
  <2>8. CASE RecomputeIgnored(u)
    <3>1. CASE v # u
      BY <1>0, <2>8, <3>1, SameFlags DEF RecomputeIgnored, TypeOK
    <3>2. QED
      BY <2>8, <3>1
  <2>9. CASE AbandonRecompute(u)
    BY <2>9, SameFlags DEF AbandonRecompute
  <2>10. QED
    BY <1>4, <2>1, <2>2, <2>3, <2>4, <2>5, <2>6, <2>7, <2>8, <2>9 DEF UserStep
<1>5. CASE MaintenanceStep
  <2>1. CASE DeleteOldReadEntries
    BY <2>1, FewerFlags DEF DeleteOldReadEntries, DeleteEntriesAndRefresh
  <2>2. CASE TrimExcessEntries
    BY <2>2, FewerFlags DEF TrimExcessEntries, DeleteEntriesAndRefresh
  <2>3. CASE DeleteOrphanFeeds
    BY <2>3, FewerFlags DEF DeleteOrphanFeeds
  <2>4. QED
    BY <1>5, <2>1, <2>2, <2>3 DEF MaintenanceStep
<1>6. QED
  BY <1>1, <1>2, <1>3, <1>4, <1>5 DEF Next

\* A recompute sets every flag of the user from the texts and words of the
\* moment, whichever request's turn it is.
LEMMA RecomputedFlags ==
    ASSUME TypeOK, NEW u \in User, RecomputeIgnored(u)
    PROVE  /\ entries' = entries /\ words' = words
           /\ \A e \in DOMAIN ues'[u] :
                ues'[u][e].ignored = Matches(u, entries[e].text)
<1>1. ues'[u] = [e \in DOMAIN ues[u] |->
                   [ues[u][e] EXCEPT !.ignored = Matches(u, entries[e].text)]]
  BY DEF RecomputeIgnored, TypeOK
<1>2. \A e \in DOMAIN ues[u] : ues[u][e] \in StateRow
  BY DEF TypeOK, IsTable
<1>3. ASSUME NEW e \in DOMAIN ues'[u]
      PROVE  ues'[u][e].ignored = Matches(u, entries[e].text)
  <2>1. PICK b \in BOOLEAN : b = Matches(u, entries[e].text)
    BY DEF Matches
  <2>2. ues'[u][e] = [ues[u][e] EXCEPT !.ignored = b] /\ ues[u][e] \in StateRow
    BY <1>1, <1>2, <2>1
  <2>3. ues'[u][e].ignored = b
    BY <2>2 DEF StateRow
  <2>4. QED
    BY <2>1, <2>3
<1>4. QED
  BY <1>3 DEF RecomputeIgnored

\* A flag is right in the next state unless the step itself dates it.
LEMMA NextFlags ==
    ASSUME "stale" \in Track, StoreInv, FlagsAccountedFor, [HNext]_hvars
    PROVE  FlagsAccountedFor'
<1>0. TypeOK
  BY DEF StoreInv
<1>1. CASE UNCHANGED hvars
  BY <1>1 DEF hvars, vars, FlagsAccountedFor, Matches
<1>2. CASE HNext
  <2> SUFFICES ASSUME NEW u \in User, NEW e \in DOMAIN ues'[u], e \notin stale'[u]
               PROVE  ues'[u][e].ignored = (words'[u] \cap entries'[e].text # {})
    BY DEF FlagsAccountedFor, Matches
  <2>1. stale'[u] = StaleAfter(u)
    BY <1>2 DEF HNext
  <2>2. CASE RecomputeIgnored(u)
    BY <1>0, <2>2, RecomputedFlags DEF Matches
  <2>3. CASE ~RecomputeIgnored(u)
    <3>1. FlagStep(u)
      BY <1>2, <2>3, NextFlagStep DEF HNext
    <3>2. /\ e \notin stale[u]
          /\ e \in DOMAIN ues[u] => /\ words'[u] = words[u]
                                     /\ entries'[e].text = entries[e].text
      BY <2>1, <2>3 DEF StaleAfter
    <3>3. CASE e \in DOMAIN ues[u]
      <4>1. ues[u][e].ignored = (words[u] \cap entries[e].text # {})
        BY <3>2, <3>3 DEF FlagsAccountedFor, Matches
      <4>2. QED
        BY <3>1, <3>2, <3>3, <4>1 DEF FlagStep
    <3>4. CASE e \notin DOMAIN ues[u]
      BY <3>1, <3>4 DEF FlagStep, Matches
    <3>5. QED
      BY <3>3, <3>4
  <2>4. QED
    BY <2>2, <2>3
<1>3. QED
  BY <1>1, <1>2

\* Remembering changes nothing.
LEMMA HistoryStoreInv == HSpec => []StoreInv
<1>1. HInit => StoreInv
  BY InitStoreInv DEF HInit
<1>2. StoreInv /\ [HNext]_hvars => StoreInv'
  BY NextStoreInv DEF HNext, hvars
<1>3. QED
  BY <1>1, <1>2, PTL DEF HSpec

\* An ignored flag is wrong only for a row whose entry was rewritten, or whose
\* owner's word list changed, since the last recompute that committed.
THEOREM FlagsAreRight ==
    ASSUME "stale" \in Track PROVE HSpec => []FlagsAccountedFor
<1>1. HInit => FlagsAccountedFor
  BY DEF HInit, Init, FlagsAccountedFor, EmptyTable
<1>2. HSpec => []StoreInv
  BY HistoryStoreInv
<1>3. StoreInv /\ FlagsAccountedFor /\ [HNext]_hvars => FlagsAccountedFor'
  BY NextFlags
<1>4. QED
  BY <1>1, <1>2, <1>3, PTL DEF HSpec

----------------------------------------------------------------------------
(* Items that have been read.                                              *)

\* What an entry is an entry of never changes.
ItemsStay ==
    \A e \in DOMAIN entries \cap DOMAIN entries' :
        entries'[e].feed = entries[e].feed /\ entries'[e].guid = entries[e].guid

LEMMA UpsertEntriesItems ==
    ASSUME TypeOK, NEW f, NEW batch, NEW first, NEW guidOf,
           Numbering(f, batch, first, guidOf), UpsertEntries(f, batch, first, guidOf)
    PROVE  ItemsStay
<1> SUFFICES ASSUME NEW e \in DOMAIN entries
             PROVE  entries'[e].feed = entries[e].feed /\ entries'[e].guid = entries[e].guid
  BY DEF ItemsStay
<1>1. e \notin DOMAIN guidOf
  BY NextIdsFresh DEF Numbering
<1>2. entries[e] \in EntryRow
  BY DEF TypeOK, IsTable
<1>3. entries'[e] = entries[e] \/ \E input : entries'[e] = RevisedEntry(entries[e], input)
  BY <1>1 DEF UpsertEntries
<1> QED
  BY <1>2, <1>3 DEF RevisedEntry, EntryRow

LEMMA NextItems == StoreInv /\ Next => ItemsStay
<1> SUFFICES ASSUME StoreInv, Next PROVE ItemsStay
  OBVIOUS
<1>1. TypeOK
  BY DEF StoreInv
<1>2. entries' = entries => ItemsStay
  BY DEF ItemsStay
<1>3. CASE Tick \/ \E f \in FeedId : UpsertFeed(f)
  BY <1>2, <1>3 DEF Tick, UpsertFeed
<1>4. CASE CrawlerStep
  BY <1>1, <1>2, <1>4, UpsertEntriesItems DEF CrawlerStep, UpdateFeedAfterFetch, UpsertSomeEntries
<1>5. ASSUME NEW u \in User, UserStep(u) PROVE ItemsStay
  <2>1. entries' = entries
    BY <1>5 DEF UserStep, UpsertSubscription, Unsubscribe, MarkEntriesRead, MarkAllEntriesRead,
                MarkFeedReadBefore, MarkRead, AddPin, RemovePin, AddIgnoreWord, RemoveIgnoreWord,
                ChangeWords, RecomputeIgnored, AbandonRecompute
  <2> QED
    BY <1>2, <2>1
<1>6. CASE MaintenanceStep
  BY <1>6 DEF MaintenanceStep, DeleteOldReadEntries, TrimExcessEntries, DeleteEntriesAndRefresh,
              DeleteOrphanFeeds, KeepRows, ItemsStay
<1> QED
  BY <1>3, <1>4, <1>5, <1>6 DEF Next

\* The inductive invariant: an item known to be read has an entry, in which the
\* user has read it.
KnownInv == \A u \in User : known[u] \subseteq ReadItems(u)

LEMMA KnownStep ==
    ASSUME "items" \in Track, StoreInv, StoreInv', KnownInv, [HNext]_hvars
    PROVE  KnownInv'
<1>1. CASE UNCHANGED hvars
  BY <1>1 DEF hvars, vars, KnownInv, ReadItems, Item
<1>2. CASE HNext
  <2>1. /\ known' = [u \in User |-> KnownAfter(u)]
        /\ Next
    BY <1>2 DEF HNext
  <2>2. ReadStep /\ ItemsStay
    BY <2>1, NextReadStep, NextItems
  <2> SUFFICES ASSUME NEW u \in User, NEW i, i \in known'[u], i \notin ReadItems(u)'
               PROVE  FALSE
    BY DEF KnownInv
  <2>3. /\ i \in known[u] /\ i \notin TakenItems
        /\ i[1] \in DOMAIN subs'[u]
    BY <2>1 DEF KnownAfter
  <2>4. PICK e \in DOMAIN ues[u] : ues[u][e].read /\ Item(e) = i
    BY <2>3 DEF KnownInv, ReadItems
  <2>5. e \in DOMAIN entries /\ e \in DOMAIN entries'
    BY <2>3, <2>4 DEF StoreInv, FanOutExact, TakenItems
  <2>6. Item(e)' = i /\ entries'[e].feed \in DOMAIN subs'[u]
    BY <2>2, <2>3, <2>4, <2>5 DEF ItemsStay, Item
  <2>7. e \in DOMAIN ues'[u]
    BY <2>5, <2>6 DEF StoreInv, FanOutExact
  <2>8. ues'[u][e].read
    BY <2>2, <2>4, <2>7 DEF ReadStep
  <2> QED
    BY <2>6, <2>7, <2>8 DEF ReadItems
<1> QED
  BY <1>1, <1>2

\* Only a collection or unsubscribing makes an item unread again: not another
\* document, not a rowid that is used again, not a second subscription, for any
\* number of users, feeds and items.
THEOREM ReadItemsStayRead ==
    ASSUME "items" \in Track PROVE HSpec => []ReadUnlessCollected
<1>1. HInit => KnownInv
  BY DEF HInit, KnownInv
<1>2. StoreInv /\ StoreInv' /\ KnownInv /\ [HNext]_hvars => KnownInv'
  BY KnownStep
<1>3. StoreInv /\ KnownInv => ReadUnlessCollected
  <2> SUFFICES ASSUME StoreInv, KnownInv, NEW u \in User, NEW e \in DOMAIN ues[u],
                      Item(e) \in known[u]
               PROVE  ues[u][e].read
    BY DEF ReadUnlessCollected
  <2>1. PICK d \in DOMAIN ues[u] : ues[u][d].read /\ Item(d) = Item(e)
    BY DEF KnownInv, ReadItems
  <2>2. d = e
    BY <2>1 DEF StoreInv, FanOutExact, GuidUnique, Item
  <2> QED
    BY <2>1, <2>2
<1> QED
  BY <1>1, <1>2, <1>3, HistoryStoreInv, PTL DEF HSpec
====
