------------------------ MODULE HostSemaphoreProofs ------------------------
(***************************************************************************)
(* The concurrency and the burst bound of the host semaphore, for any      *)
(* number of goroutines, any capacity and any number of channels.          *)
(***************************************************************************)
EXTENDS SemaphoreHistory, FiniteSetTheorems, TLAPS

\* The capacity carries over to every channel that gains no holder.
LEMMA FewerHolders ==
    ASSUME SemaphoreInv,
           NEW c \in 1..MaxChannel, Holders(c)' \subseteq Holders(c)
    PROVE  Cardinality(Holders(c)') =< MaxPerHost
<1>1. IsFiniteSet(Holders(c))
  <2>1. Holders(c) \subseteq Worker
    BY DEF Holders
  <2> QED BY <2>1, SemaphoreAssumption, FS_Subset
<1>2. Cardinality(Holders(c)') =< Cardinality(Holders(c))
  BY <1>1, FS_Subset
<1>3. Cardinality(Holders(c)) \in Nat /\ Cardinality(Holders(c)') \in Nat
  BY <1>1, FS_CardinalityType, FS_Subset
<1> QED BY <1>2, <1>3, SemaphoreAssumption DEF SemaphoreInv

\* Nothing is held of any channel when the process starts.
LEMMA InitSemaphoreInv == Init => SemaphoreInv
<1> SUFFICES ASSUME Init PROVE SemaphoreInv
  OBVIOUS
<1> USE SemaphoreAssumption
<1>1. TypeOK
  BY DEF Init, TypeOK, Places, Never
<1>2. ASSUME NEW c \in 1..MaxChannel PROVE Cardinality(Holders(c)) =< MaxPerHost
  <2>1. Holders(c) = {}
    BY DEF Init, Holders
  <2> QED BY <2>1, FS_EmptySet
<1> QED BY <1>1, <1>2 DEF Init, SemaphoreInv

\* chanFor: the worker gets a channel but no slot of it yet.
LEMMA ChanForInv ==
    ASSUME SemaphoreInv, NEW w \in Worker, ChanFor(w) PROVE SemaphoreInv'
<1> USE SemaphoreAssumption
<1>1. TypeOK'
  BY DEF SemaphoreInv, TypeOK, ChanFor, Places
<1>2. ASSUME NEW c \in 1..MaxChannel PROVE Holders(c)' \subseteq Holders(c)
  BY DEF SemaphoreInv, TypeOK, ChanFor, Holders
<1>3. slot' =< made' /\ made =< made'
  BY DEF SemaphoreInv, TypeOK, ChanFor
<1>4. ASSUME NEW v \in Worker PROVE chan'[v] =< made' /\ (pc'[v] # "out" => chan'[v] # 0)
  BY <1>3 DEF SemaphoreInv, TypeOK, ChanFor
<1> QED BY <1>1, <1>2, <1>3, <1>4, FewerHolders DEF SemaphoreInv

\* The send: one more holder of a channel that had room.
LEMMA ReserveInv ==
    ASSUME SemaphoreInv, NEW w \in Worker, Reserve(w) PROVE SemaphoreInv'
<1> USE SemaphoreAssumption
<1>1. TypeOK'
  BY DEF SemaphoreInv, TypeOK, Reserve, Places
<1>2. ASSUME NEW c \in 1..MaxChannel, c # chan[w]
      PROVE  Holders(c)' \subseteq Holders(c)
  BY <1>2 DEF SemaphoreInv, TypeOK, Reserve, Holders
<1>3. ASSUME NEW c \in 1..MaxChannel, c = chan[w]
      PROVE  Cardinality(Holders(c)') =< MaxPerHost
  <2>1. Holders(c)' = Holders(c) \cup {w}
    BY <1>3 DEF SemaphoreInv, TypeOK, Reserve, Holders
  <2>2. w \notin Holders(c)
    BY DEF Reserve, Holders
  <2>3. IsFiniteSet(Holders(c))
    <3>1. Holders(c) \subseteq Worker
      BY DEF Holders
    <3> QED BY <3>1, FS_Subset
  <2>4. Cardinality(Holders(c)') = Cardinality(Holders(c)) + 1
    BY <2>1, <2>2, <2>3, FS_AddElement
  <2>5. Cardinality(Holders(c)) \in Nat
    BY <2>3, FS_CardinalityType
  <2>6. Cardinality(Holders(c)) < MaxPerHost
    BY <1>3 DEF Reserve
  <2> QED BY <2>4, <2>5, <2>6
<1>4. ASSUME NEW v \in Worker PROVE chan'[v] =< made' /\ (pc'[v] # "out" => chan'[v] # 0)
  BY DEF SemaphoreInv, TypeOK, Reserve
<1> QED BY <1>1, <1>2, <1>3, <1>4, FewerHolders DEF SemaphoreInv, Reserve

\* A worker that computes its wait or starts keeps its slot.
LEMMA ProceedInv ==
    ASSUME SemaphoreInv, NEW w \in Worker, ComputeWait(w) \/ Start(w)
    PROVE  SemaphoreInv'
<1> USE SemaphoreAssumption
<1>1. TypeOK'
  BY DEF SemaphoreInv, TypeOK, ComputeWait, Start, Places, Never
<1>2. ASSUME NEW c \in 1..MaxChannel PROVE Holders(c)' \subseteq Holders(c)
  BY DEF SemaphoreInv, TypeOK, ComputeWait, Start, Holders
<1>3. ASSUME NEW v \in Worker PROVE chan'[v] =< made' /\ (pc'[v] # "out" => chan'[v] # 0)
  BY DEF SemaphoreInv, TypeOK, ComputeWait, Start
<1> QED BY <1>1, <1>2, <1>3, FewerHolders DEF SemaphoreInv, ComputeWait, Start

\* Giving up and giving back: only fewer holders.
LEMMA LeaveInv ==
    ASSUME SemaphoreInv, NEW w \in Worker, Leave(w) PROVE SemaphoreInv'
<1> USE SemaphoreAssumption
<1>1. TypeOK'
  BY DEF SemaphoreInv, TypeOK, Leave, Places
<1>2. ASSUME NEW c \in 1..MaxChannel PROVE Holders(c)' \subseteq Holders(c)
  BY DEF SemaphoreInv, TypeOK, Leave, Holders
<1>3. ASSUME NEW v \in Worker PROVE chan'[v] =< made' /\ (pc'[v] # "out" => chan'[v] # 0)
  BY DEF SemaphoreInv, TypeOK, Leave
<1> QED BY <1>1, <1>2, <1>3, FewerHolders DEF SemaphoreInv, Leave

\* The collection touches no worker's channel.
LEMMA GCInv == SemaphoreInv /\ GC => SemaphoreInv'
<1> SUFFICES ASSUME SemaphoreInv, GC PROVE SemaphoreInv'
  OBVIOUS
<1> USE SemaphoreAssumption
<1>1. TypeOK'
  BY DEF SemaphoreInv, TypeOK, GC, Never
<1>2. ASSUME NEW c \in 1..MaxChannel PROVE Holders(c)' \subseteq Holders(c)
  BY DEF GC, Holders
<1> QED BY <1>1, <1>2, FewerHolders DEF SemaphoreInv, TypeOK, GC

\* Neither does the clock.
LEMMA AdvanceInv == SemaphoreInv /\ Advance => SemaphoreInv'
<1> SUFFICES ASSUME SemaphoreInv, Advance PROVE SemaphoreInv'
  OBVIOUS
<1> USE SemaphoreAssumption
<1>1. TypeOK'
  BY DEF SemaphoreInv, TypeOK, Advance, Never
<1>2. ASSUME NEW c \in 1..MaxChannel PROVE Holders(c)' \subseteq Holders(c)
  BY DEF Advance, Holders
<1> QED BY <1>1, <1>2, FewerHolders DEF SemaphoreInv, Advance

\* Every step of a goroutine, of the collection and of the clock.
LEMMA NextSemaphoreInv == SemaphoreInv /\ [Next]_vars => SemaphoreInv'
<1> SUFFICES ASSUME SemaphoreInv, [Next]_vars PROVE SemaphoreInv'
  OBVIOUS
<1>1. CASE Advance
  BY <1>1, AdvanceInv
<1>2. CASE GC
  BY <1>2, GCInv
<1>3. ASSUME NEW w \in Worker, WorkerStep(w) PROVE SemaphoreInv'
  <2>1. CASE CancelAcquire(w) \/ Release(w)
    BY <2>1, LeaveInv DEF CancelAcquire, Release
  <2> QED BY <1>3, <2>1, ChanForInv, ReserveInv, ProceedInv DEF WorkerStep
<1>4. CASE UNCHANGED vars
  BY <1>4 DEF vars, SemaphoreInv, TypeOK, Holders
<1> QED BY <1>1, <1>2, <1>3, <1>4 DEF Next

\* Whatever the goroutines, timers, cancellations and collections do, no
\* channel of a host is ever over its capacity.
THEOREM ChannelsBounded == Spec => []SemaphoreInv
<1>1. Init => SemaphoreInv
  BY InitSemaphoreInv
<1>2. SemaphoreInv /\ [Next]_vars => SemaphoreInv'
  BY NextSemaphoreInv
<1> QED BY <1>1, <1>2, PTL DEF Spec

\* Acquire's bound of maxPerHost concurrent requests, for every number of
\* goroutines, while the host still has its first channel.
THEOREM ConcurrencyBounded == Spec => []AtMostMaxPerHost
<1>1. SemaphoreInv => AtMostMaxPerHost
  <2> SUFFICES ASSUME SemaphoreInv, made =< 1
               PROVE  Cardinality(Running) =< MaxPerHost
    BY DEF AtMostMaxPerHost
  <2> USE SemaphoreAssumption
  <2>1. CASE Running = {}
    BY <2>1, FS_EmptySet
  <2>2. CASE Running # {}
    <3>1. 1 \in 1..MaxChannel
      BY <2>2 DEF Running, SemaphoreInv, TypeOK
    <3>2. Running \subseteq Holders(1)
      BY DEF Running, Holders, SemaphoreInv, TypeOK
    <3>3. Holders(1) \subseteq Worker
      BY DEF Holders
    <3>4. IsFiniteSet(Holders(1))
      BY <3>3, FS_Subset
    <3>5. Cardinality(Running) =< Cardinality(Holders(1))
      BY <3>2, <3>4, FS_Subset
    <3>6. Cardinality(Running) \in Nat /\ Cardinality(Holders(1)) \in Nat
      BY <3>2, <3>4, FS_CardinalityType, FS_Subset
    <3>7. Cardinality(Holders(1)) =< MaxPerHost
      BY <3>1 DEF SemaphoreInv
    <3> QED BY <3>5, <3>6, <3>7
  <2> QED BY <2>1, <2>2
<1> QED BY <1>1, ChannelsBounded, PTL

-----------------------------------------------------------------------------
(* Bursts. *)

\* The starts of the last a units, and the workers whose timers let them start
\* while those of a units ago still count.
Since(a) == {s \in DOMAIN recent : recent[s] =< a}

Due(a) == {w \in Worker : pc[w] = "sleeping" /\ wait[w] + a < MinGap}

\* Whoever is due had a slot when the first of these starts was made; who
\* computes the wait later is not due any more.
BurstInv ==
    /\ IsFiniteSet(DOMAIN recent)
    /\ \A s \in DOMAIN recent : recent[s] \in 0..(MinGap - 1) /\ idle =< recent[s]
    /\ made =< 1 =>
          \A a \in 0..(MinGap - 1) :
              Since(a) # {} => Cardinality(Since(a)) + Cardinality(Due(a)) =< MaxPerHost

LEMMA Smaller ==
    ASSUME NEW S, IsFiniteSet(S), NEW T, T \subseteq S
    PROVE  /\ IsFiniteSet(T) /\ Cardinality(T) \in Nat /\ Cardinality(S) \in Nat
           /\ Cardinality(T) =< Cardinality(S)
BY FS_Subset, FS_CardinalityType

LEMMA DueFinite ==
    \A a : IsFiniteSet(Due(a)) /\ Cardinality(Due(a)) \in Nat
<1>1. \A a : Due(a) \subseteq Worker
  BY DEF Due
<1> QED BY <1>1, Smaller, SemaphoreAssumption

LEMMA SinceFinite ==
    ASSUME BurstInv
    PROVE  \A a : IsFiniteSet(Since(a)) /\ Cardinality(Since(a)) \in Nat
<1>1. \A a : Since(a) \subseteq DOMAIN recent
  BY DEF Since
<1> QED BY <1>1, Smaller DEF BurstInv

\* Nothing started, and nobody due who was not.
LEMMA BurstKept ==
    ASSUME BurstInv, recent' = recent, idle' =< idle \/ DOMAIN recent = {},
           idle \in Nat, idle' \in Nat, made' =< 1 => made =< 1,
           \A a \in 0..(MinGap - 1) : Since(a) # {} => Due(a)' \subseteq Due(a)
    PROVE  BurstInv'
<1> USE SemaphoreAssumption
<1>1. /\ IsFiniteSet(DOMAIN recent')
      /\ \A s \in DOMAIN recent' : recent'[s] \in 0..(MinGap - 1) /\ idle' =< recent'[s]
  BY DEF BurstInv
<1>2. ASSUME made' =< 1, NEW a \in 0..(MinGap - 1), Since(a)' # {}
      PROVE  Cardinality(Since(a)') + Cardinality(Due(a)') =< MaxPerHost
  <2>1. Since(a)' = Since(a)
    BY DEF Since
  <2>2. Cardinality(Since(a)) + Cardinality(Due(a)) =< MaxPerHost
    BY <1>2, <2>1 DEF BurstInv
  <2>3. Cardinality(Due(a)') \in Nat /\ Cardinality(Due(a)') =< Cardinality(Due(a))
    BY <1>2, <2>1, Smaller, DueFinite
  <2>4. Cardinality(Since(a)) \in Nat /\ Cardinality(Due(a)) \in Nat
    BY SinceFinite, DueFinite
  <2> QED BY <2>1, <2>2, <2>3, <2>4
<1> QED BY <1>1, <1>2 DEF BurstInv

LEMMA BurstAdvance ==
    ASSUME SemaphoreInv, BurstInv, Advance, recent' = RecentAfter
    PROVE  BurstInv'
<1> USE SemaphoreAssumption
<1>1. recent' = [s \in {s \in DOMAIN recent : recent[s] + 1 < MinGap} |-> recent[s] + 1]
  BY DEF RecentAfter
<1>2. \A s \in DOMAIN recent' : s \in DOMAIN recent /\ recent[s] + 1 < MinGap
                                /\ recent'[s] = recent[s] + 1
  BY <1>1
<1>3. IsFiniteSet(DOMAIN recent')
  BY <1>2, Smaller DEF BurstInv
<1>4. idle \in Nat /\ idle' =< idle + 1 /\ idle' \in Nat
  BY DEF Advance, SemaphoreInv, TypeOK, Never
<1>5. \A s \in DOMAIN recent' : recent'[s] \in 0..(MinGap - 1) /\ idle' =< recent'[s]
  BY <1>2, <1>4 DEF BurstInv
<1>6. ASSUME made' =< 1, NEW a \in 0..(MinGap - 1), Since(a)' # {}
      PROVE  Cardinality(Since(a)') + Cardinality(Due(a)') =< MaxPerHost
  <2>1. a >= 1
    BY <1>2, <1>6 DEF Since, BurstInv
  <2>2. PICK b \in 0..(MinGap - 1) : a = b + 1
    BY <2>1
  <2>3. Since(a)' \subseteq Since(b)
    BY <1>2, <2>2 DEF Since, BurstInv
  <2>4. Due(a)' \subseteq Due(b)
    BY <2>2 DEF Due, Advance, SemaphoreInv, TypeOK
  <2>5. Cardinality(Since(b)) + Cardinality(Due(b)) =< MaxPerHost
    BY <1>6, <2>3 DEF BurstInv, Advance
  <2>6. /\ Cardinality(Since(a)') \in Nat /\ Cardinality(Since(b)) \in Nat
        /\ Cardinality(Since(a)') =< Cardinality(Since(b))
    BY <2>3, SinceFinite, Smaller
  <2>7. /\ Cardinality(Due(a)') \in Nat /\ Cardinality(Due(b)) \in Nat
        /\ Cardinality(Due(a)') =< Cardinality(Due(b))
    BY <2>4, DueFinite, Smaller
  <2> QED BY <2>5, <2>6, <2>7
<1> QED BY <1>3, <1>5, <1>6 DEF BurstInv

\* While there is one channel, everyone past the send holds a slot of it.
LEMMA AllOnOne ==
    ASSUME SemaphoreInv, made =< 1, NEW w \in Worker,
           pc[w] \in {"reserved", "sleeping", "running"}
    PROVE  1 \in 1..MaxChannel /\ w \in Holders(1)
BY SemaphoreAssumption DEF SemaphoreInv, TypeOK, Holders

LEMMA BurstStart ==
    ASSUME SemaphoreInv, SemaphoreInv', BurstInv, NEW w \in Worker, Start(w),
           ~Advance, recent' = RecentAfter
    PROVE  BurstInv'
<1> USE SemaphoreAssumption
<1>1. PICK new : new = NewStart
  OBVIOUS
<1>2. pc[w] = "sleeping" /\ pc'[w] = "running" /\ wait[w] = 0 /\ wait' = wait /\ made' = made
  BY DEF Start, SemaphoreInv, TypeOK
<1>3. recent' = [s \in DOMAIN recent \cup {new} |-> IF s = new THEN 0 ELSE recent[s]]
  BY <1>1, <1>2 DEF RecentAfter, StartedNow
<1>4. IsFiniteSet(DOMAIN recent')
  BY <1>3, FS_AddElement DEF BurstInv
<1>5. \A s \in DOMAIN recent' : recent'[s] \in 0..(MinGap - 1) /\ idle' =< recent'[s]
  BY <1>3 DEF BurstInv, Start
<1>6. ASSUME made' =< 1, NEW a \in 0..(MinGap - 1)
      PROVE  Cardinality(Since(a)') + Cardinality(Due(a)') =< MaxPerHost
  <2>1. Since(a)' \subseteq Since(a) \cup {new}
    BY <1>3 DEF Since
  <2>2. /\ IsFiniteSet(Since(a) \cup {new})
        /\ Cardinality(Since(a) \cup {new}) =< Cardinality(Since(a)) + 1
    <3>1. IsFiniteSet(Since(a)) /\ Cardinality(Since(a)) \in Nat
      BY SinceFinite
    <3>2. /\ IsFiniteSet(Since(a) \cup {new})
          /\ Cardinality(Since(a) \cup {new})
                = IF new \in Since(a) THEN Cardinality(Since(a)) ELSE Cardinality(Since(a)) + 1
      BY <3>1, FS_AddElement
    <3> QED BY <3>1, <3>2
  <2>3. /\ Cardinality(Since(a)') \in Nat /\ Cardinality(Since(a)) \in Nat
        /\ Cardinality(Since(a)') =< Cardinality(Since(a)) + 1
    BY <2>1, <2>2, Smaller, SinceFinite
  <2>4. Due(a)' \subseteq Due(a) \ {w} /\ w \in Due(a)
    BY <1>2 DEF Due, Start, SemaphoreInv, TypeOK
  <2>5. /\ IsFiniteSet(Due(a) \ {w}) /\ Cardinality(Due(a) \ {w}) = Cardinality(Due(a)) - 1
        /\ Cardinality(Due(a)) \in Nat
    BY <2>4, DueFinite, FS_RemoveElement
  <2>6. Cardinality(Due(a)') \in Nat /\ Cardinality(Due(a)') =< Cardinality(Due(a)) - 1
    BY <2>4, <2>5, Smaller
  <2>7. CASE Since(a) # {}
    <3>1. Cardinality(Since(a)) + Cardinality(Due(a)) =< MaxPerHost
      BY <1>2, <1>6, <2>7 DEF BurstInv
    <3> QED BY <2>3, <2>5, <2>6, <3>1
  <2>8. CASE Since(a) = {}
    <3>1. Cardinality(Since(a)) = 0
      BY <2>8, FS_EmptySet
    <3>2. 1 \in 1..MaxChannel
      BY <1>2, <1>6, AllOnOne
    <3>3. Due(a) \subseteq Holders(1)
      BY <1>2, <1>6, AllOnOne DEF Due
    <3>4. IsFiniteSet(Holders(1))
      <4>1. Holders(1) \subseteq Worker
        BY DEF Holders
      <4> QED BY <4>1, Smaller
    <3>5. /\ Cardinality(Due(a)) =< Cardinality(Holders(1)) /\ Cardinality(Holders(1)) \in Nat
      BY <3>3, <3>4, Smaller
    <3>6. Cardinality(Holders(1)) =< MaxPerHost
      BY <3>2 DEF SemaphoreInv
    <3> QED BY <2>3, <2>5, <2>6, <3>1, <3>5, <3>6
  <2> QED BY <2>7, <2>8
<1> QED BY <1>4, <1>5, <1>6 DEF BurstInv

LEMMA BurstStep ==
    ASSUME SemaphoreInv, SemaphoreInv', BurstInv, [HNext]_hvars
    PROVE  BurstInv'
<1> USE SemaphoreAssumption
<1>1. CASE UNCHANGED hvars
  BY <1>1 DEF hvars, vars, BurstInv, Since, Due
<1> SUFFICES ASSUME HNext PROVE BurstInv'
  BY <1>1
<1>2. Next /\ recent' = RecentAfter
  BY DEF HNext
<1>3. CASE Advance
  BY <1>2, <1>3, BurstAdvance
<1>4. CASE ~Advance
  <2>1. idle \in Nat /\ idle' \in Nat /\ made \in Nat /\ made' \in Nat
    BY DEF SemaphoreInv, TypeOK, Never
  <2>2. ASSUME NEW w \in Worker, Start(w) PROVE BurstInv'
    BY <1>2, <1>4, <2>2, BurstStart
  <2>3. ASSUME \A w \in Worker : pc'[w] = "running" => pc[w] = "running",
               idle' =< idle \/ DOMAIN recent = {}, made' =< 1 => made =< 1,
               \A a \in 0..(MinGap - 1) : Since(a) # {} => Due(a)' \subseteq Due(a)
        PROVE  BurstInv'
    <3>1. ~StartedNow
      BY <2>3 DEF StartedNow
    <3>2. recent' = recent
      BY <1>2, <1>4, <3>1 DEF RecentAfter
    <3> QED BY <2>1, <2>3, <3>2, BurstKept
  <2>4. ASSUME NEW w \in Worker, ChanFor(w) \/ Reserve(w) PROVE BurstInv'
    <3>1. \A v \in Worker : pc'[v] = pc[v] \/ pc'[v] \in {"blocked", "reserved"}
      BY <2>4 DEF ChanFor, Reserve, SemaphoreInv, TypeOK
    <3>2. wait' = wait /\ idle' = idle
      BY <2>4 DEF ChanFor, Reserve
    <3>3. \A a : Due(a)' \subseteq Due(a)
      BY <3>1, <3>2 DEF Due
    <3>4. made' =< 1 => made =< 1
      BY <2>1, <2>4 DEF ChanFor, Reserve
    <3> QED BY <2>1, <2>3, <3>1, <3>2, <3>3, <3>4
  <2>5. ASSUME NEW w \in Worker, ComputeWait(w) PROVE BurstInv'
    <3>1. \A v \in Worker : pc'[v] = "running" => pc[v] = "running"
      BY <2>5 DEF ComputeWait, SemaphoreInv, TypeOK
    <3>2. ASSUME NEW a \in 0..(MinGap - 1), Since(a) # {} PROVE Due(a)' \subseteq Due(a)
      <4>1. idle =< a
        BY <2>1, <3>2 DEF Since, BurstInv
      <4>2. wait'[w] = MinGap - idle
        BY <2>1, <2>5, <4>1 DEF ComputeWait, SemaphoreInv, TypeOK
      <4>3. w \notin Due(a)'
        BY <2>1, <4>1, <4>2 DEF Due
      <4>4. \A v \in Worker : v # w => pc'[v] = pc[v] /\ wait'[v] = wait[v]
        BY <2>5 DEF ComputeWait, SemaphoreInv, TypeOK
      <4> QED BY <4>3, <4>4 DEF Due
    <3>3. idle' = idle /\ made' = made
      BY <2>5 DEF ComputeWait
    <3> QED BY <2>1, <2>3, <3>1, <3>2, <3>3
  <2>6. ASSUME NEW w \in Worker, Leave(w) PROVE BurstInv'
    <3>1. \A v \in Worker : pc'[v] = "out" \/ (pc'[v] = pc[v] /\ wait'[v] = wait[v])
      BY <2>6 DEF Leave, SemaphoreInv, TypeOK
    <3>2. \A a : Due(a)' \subseteq Due(a)
      BY <3>1 DEF Due
    <3>3. idle' = idle /\ made' = made
      BY <2>6 DEF Leave
    <3> QED BY <2>1, <2>3, <3>1, <3>2, <3>3
  <2>7. CASE GC
    <3>1. DOMAIN recent = {}
      <4>1. idle > IdleAfter /\ IdleAfter \in Nat /\ MinGap =< IdleAfter /\ MinGap \in Nat
        BY <2>7 DEF GC
      <4>2. ASSUME NEW s \in DOMAIN recent PROVE FALSE
        BY <2>1, <4>1, <4>2 DEF BurstInv
      <4> QED BY <4>2
    <3>2. pc' = pc /\ wait' = wait /\ made' = made
      BY <2>7 DEF GC
    <3>3. \A a : Due(a)' = Due(a)
      BY <3>2 DEF Due
    <3> QED BY <2>3, <3>1, <3>2, <3>3
  <2> QED
    BY <1>2, <1>4, <2>2, <2>4, <2>5, <2>6, <2>7 DEF Next, WorkerStep, CancelAcquire, Release
<1> QED BY <1>3, <1>4

\* No more than maxPerHost requests to a host start within one minGap, for any
\* number of goroutines, any capacity and gap, while the host still has its
\* first channel: Acquire reads lastStart and writes it in two steps, and those
\* who have read it before the first of them starts hold a slot each.
THEOREM BurstsBounded == HSpec => []BurstBounded
<1>1. HInit => SemaphoreInv /\ BurstInv
  <2> SUFFICES ASSUME HInit PROVE SemaphoreInv /\ BurstInv
    OBVIOUS
  <2>1. DOMAIN recent = {}
    BY DEF HInit
  <2>2. \A a : Since(a) = {}
    BY <2>1 DEF Since
  <2> QED BY <2>1, <2>2, InitSemaphoreInv, FS_EmptySet DEF HInit, BurstInv
<1>2. SemaphoreInv /\ BurstInv /\ [HNext]_hvars => (SemaphoreInv /\ BurstInv)'
  <2>1. [HNext]_hvars => [Next]_vars
    BY DEF HNext, hvars
  <2> QED BY <2>1, NextSemaphoreInv, BurstStep
<1>3. SemaphoreInv /\ BurstInv => BurstBounded
  <2> SUFFICES ASSUME SemaphoreInv, BurstInv, made =< 1
               PROVE  Cardinality(DOMAIN recent) =< MaxPerHost
    BY DEF BurstBounded
  <2> USE SemaphoreAssumption
  <2>1. CASE DOMAIN recent = {}
    BY <2>1, FS_EmptySet
  <2>2. CASE DOMAIN recent # {}
    <3>1. MinGap - 1 \in 0..(MinGap - 1)
      OBVIOUS
    <3>2. Since(MinGap - 1) = DOMAIN recent
      BY DEF Since, BurstInv
    <3>3. Cardinality(Since(MinGap - 1)) + Cardinality(Due(MinGap - 1)) =< MaxPerHost
      BY <2>2, <3>1, <3>2 DEF BurstInv
    <3>4. Cardinality(Since(MinGap - 1)) \in Nat /\ Cardinality(Due(MinGap - 1)) \in Nat
      BY SinceFinite, DueFinite
    <3> QED BY <3>2, <3>3, <3>4
  <2> QED BY <2>1, <2>2
<1> QED BY <1>1, <1>2, <1>3, PTL DEF HSpec
====
