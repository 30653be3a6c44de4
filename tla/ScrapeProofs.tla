---------------------------- MODULE ScrapeProofs ----------------------------
(***************************************************************************)
(* Theorems about ScrapeSources and what it is made of: the differences a  *)
(* page watch reports are exact, nothing is remembered as dealt with that  *)
(* was not, and the memory of a list stays sound, for any pages,           *)
(* configurations, limits and crawls.                                      *)
(***************************************************************************)
EXTENDS ScrapeHistory, FiniteSetTheorems, WellFoundedInduction, TLAPS

-----------------------------------------------------------------------------
(* Positions. *)

\* A nonempty set of natural numbers has a smallest element.
LEMMA LeastNumber ==
    ASSUME NEW T, T \subseteq Nat, T # {}
    PROVE  \E x \in T : \A y \in T : x =< y
<1> DEFINE R == {ss \in Nat \X Nat : ss[1] < ss[2]}
<1>1. IsWellFoundedOn(R, Nat)
  BY NatLessThanWellFounded DEF OpToRel
<1>2. \A x, y \in Nat : y < x => <<y, x>> \in R
  OBVIOUS
<1> HIDE DEF R
<1>3. PICK x \in T : \A y \in T : ~(<<y, x>> \in R)
  BY <1>1, WFMin, Zenon
<1>4. \A y \in T : ~(y < x)
  BY <1>2, <1>3, Zenon
<1> QED
  BY <1>4

Rank(S, i) == Cardinality({j \in S : j =< i})

\* Positions are finite sets of integers.
Positions == {S \in SUBSET Int : IsFiniteSet(S)}

LEMMA SubPositions ==
    ASSUME NEW S \in Positions, NEW T, T \subseteq S
    PROVE  /\ T \in Positions /\ Cardinality(T) \in Nat /\ Cardinality(S) \in Nat
           /\ Cardinality(T) =< Cardinality(S)
           /\ Cardinality(T) = Cardinality(S) => T = S
<1>1. IsFiniteSet(S) /\ S \subseteq Int /\ T \in SUBSET S
  BY DEF Positions
<1>2. IsFiniteSet(T) /\ Cardinality(T) =< Cardinality(S) /\ (Cardinality(S) = Cardinality(T) => S = T)
  BY <1>1, FS_Subset
<1> QED
  BY <1>1, <1>2, FS_CardinalityType DEF Positions

LEMMA IntervalPositions ==
    ASSUME NEW a \in Int, NEW b \in Int
    PROVE  a..b \in Positions
<1>1. IsFiniteSet(a..b)
  BY FS_Interval
<1> QED
  BY <1>1 DEF Positions

LEMMA IntervalLength ==
    ASSUME NEW n \in Nat
    PROVE  Cardinality(1..n) = n
<1>1. Cardinality(1..n) = IF 1 > n THEN 0 ELSE n - 1 + 1
  BY FS_Interval
<1> QED
  BY <1>1

\* Ranks count from one to the number of positions, in the order of these.
LEMMA Ranks ==
    ASSUME NEW S \in Positions
    PROVE  /\ \A i \in S : Rank(S, i) \in 1..Cardinality(S)
           /\ \A i, j \in S : i < j => Rank(S, i) < Rank(S, j)
<1> S \subseteq Int
  BY DEF Positions
<1> DEFINE Upto(i) == {x \in S : x =< i}
<1>1. \A i : /\ Upto(i) \in Positions /\ Cardinality(Upto(i)) \in Nat
             /\ Cardinality(Upto(i)) =< Cardinality(S) /\ Cardinality(S) \in Nat
  <2> TAKE i
  <2>1. Upto(i) \subseteq S
    OBVIOUS
  <2> QED
    BY <2>1, SubPositions
<1>2. ASSUME NEW i \in S
      PROVE  Rank(S, i) \in 1..Cardinality(S)
  <2>1. i \in Upto(i)
    OBVIOUS
  <2>2. Cardinality(Upto(i)) # 0
    <3>1. IsFiniteSet(Upto(i))
      BY <1>1 DEF Positions
    <3> QED
      BY <2>1, <3>1, FS_EmptySet
  <2> HIDE DEF Upto
  <2>3. Cardinality(Upto(i)) \in 1..Cardinality(S)
    BY <1>1, <2>2
  <2> QED
    BY <2>3 DEF Rank, Upto
<1>3. ASSUME NEW i \in S, NEW j \in S, i < j
      PROVE  Rank(S, i) < Rank(S, j)
  <2> \A x \in S : x \in Int
    OBVIOUS
  <2>0. ~(j =< i) /\ j =< j
    BY <1>3
  <2>1. Upto(i) \subseteq Upto(j)
    <3>1. \A x \in S : x =< i => x =< j
      BY <1>3
    <3> QED
      BY <3>1
  <2>2. j \in Upto(j) /\ j \notin Upto(i)
    BY <2>0
  <2>3. Upto(i) # Upto(j)
    BY <2>2
  <2> HIDE DEF Upto
  <2>4. /\ Cardinality(Upto(i)) =< Cardinality(Upto(j))
        /\ Cardinality(Upto(i)) = Cardinality(Upto(j)) => Upto(i) = Upto(j)
    BY <1>1, <2>1, SubPositions
  <2>5. Cardinality(Upto(i)) < Cardinality(Upto(j))
    BY <1>1, <2>3, <2>4
  <2> QED
    BY <2>5 DEF Rank, Upto
<1> QED
  BY <1>2, <1>3

LEMMA RanksDiffer ==
    ASSUME NEW S \in Positions, NEW i \in S, NEW j \in S, Rank(S, i) = Rank(S, j)
    PROVE  i = j
<1>1. S \subseteq Int /\ Cardinality(S) \in Nat
  BY SubPositions DEF Positions
<1>2. Rank(S, i) \in Int /\ Rank(S, j) \in Int
  BY <1>1, Ranks
<1>3. ~(i < j) /\ ~(j < i)
  BY <1>2, Ranks
<1> QED
  BY <1>1, <1>3

\* Every number up to that of the positions is the rank of one of them.
LEMMA RankedPositions ==
    ASSUME NEW S \in Positions
    PROVE  \A k \in 1..Cardinality(S) : \E i \in S : Rank(S, i) = k
<1> DEFINE N == Cardinality(S)
           f == [i \in S |-> Rank(S, i)]
<1>1. N \in Nat
  BY SubPositions
<1>2. IsFiniteSet(1..N) /\ Cardinality(1..N) = N
  BY <1>1, IntervalPositions, IntervalLength DEF Positions
<1>3. f \in [S -> 1..N]
  BY Ranks
<1>4. \A i, j \in S : f[i] = f[j] => i = j
  BY RanksDiffer
<1>5. f \in Injection(S, 1..N)
  BY <1>3, <1>4, Zenon DEF Injection, IsInjective
<1>6. f \in Surjection(S, 1..N)
  BY <1>2, <1>5, FS_Injection
<1>7. \A k \in 1..N : \E i \in S : f[i] = k
  BY <1>6, Zenon DEF Surjection
<1> QED
  BY <1>7

\* The k-th position is the one of rank k.
LEMMA KthPosition ==
    ASSUME NEW S \in Positions
    PROVE  /\ \A k \in 1..Cardinality(S) : Kth(S, k) \in S /\ Rank(S, Kth(S, k)) = k
           /\ \A i \in S : Rank(S, i) \in 1..Cardinality(S) /\ Kth(S, Rank(S, i)) = i
<1>1. ASSUME NEW k \in 1..Cardinality(S)
      PROVE  Kth(S, k) \in S /\ Rank(S, Kth(S, k)) = k
  <2>1. \E i \in S : Cardinality({j \in S : j =< i}) = k
    BY RankedPositions DEF Rank
  <2> QED
    BY <2>1, Zenon DEF Kth, Rank
<1>2. ASSUME NEW i \in S
      PROVE  Rank(S, i) \in 1..Cardinality(S) /\ Kth(S, Rank(S, i)) = i
  <2>1. Rank(S, i) \in 1..Cardinality(S)
    BY Ranks
  <2>2. Kth(S, Rank(S, i)) \in S /\ Rank(S, Kth(S, Rank(S, i))) = Rank(S, i)
    BY <1>1, <2>1
  <2> QED
    BY <2>1, <2>2, RanksDiffer
<1> QED
  BY <1>1, <1>2

LEMMA OneToOne ==
    ASSUME NEW A, IsFiniteSet(A), NEW B, NEW f \in [A -> B],
           \A x, y \in A : f[x] = f[y] => x = y,
           \A b \in B : \E a \in A : f[a] = b
    PROVE  IsFiniteSet(B) /\ Cardinality(B) = Cardinality(A)
<1>1. f \in Injection(A, B) /\ f \in Surjection(A, B)
  BY Zenon DEF Injection, IsInjective, Surjection
<1>2. ExistsBijection(A, B)
  BY <1>1, Zenon DEF ExistsBijection, Bijection
<1> QED
  BY <1>2, FS_Bijection

\* As many positions are of a rank up to a number as the number says.
LEMMA InitialSegment ==
    ASSUME NEW S \in Positions, NEW r \in 0..Cardinality(S)
    PROVE  Cardinality({i \in S : Rank(S, i) =< r}) = r
<1> DEFINE B == {i \in S : Rank(S, i) =< r}
           f == [k \in 1..r |-> Kth(S, k)]
<1>1. Cardinality(S) \in Nat /\ 1..r \subseteq 1..Cardinality(S) /\ r \in Nat
  BY SubPositions
<1>2. \A k \in 1..r : f[k] \in B /\ Rank(S, f[k]) = k
  BY <1>1, KthPosition
<1>3. \A i \in B : Rank(S, i) \in 1..r /\ f[Rank(S, i)] = i
  BY <1>1, KthPosition
<1>4. f \in [1..r -> B]
  BY <1>2
<1>5. \A x, y \in 1..r : f[x] = f[y] => x = y
  BY <1>2
<1>6. \A b \in B : \E a \in 1..r : f[a] = b
  BY <1>3
<1>7. IsFiniteSet(1..r) /\ Cardinality(1..r) = r
  BY <1>1, IntervalPositions, IntervalLength DEF Positions
<1> HIDE DEF f, B
<1>8. Cardinality(B) = r
  BY <1>4, <1>5, <1>6, <1>7, OneToOne
<1> QED
  BY <1>8 DEF B

-----------------------------------------------------------------------------
(* Slices. *)

IsSlice(s) == s \in Seq(ToSet(s))

Distinct(s) == \A i, j \in DOMAIN s : s[i] = s[j] => i = j

LEMMA SliceFacts ==
    ASSUME NEW s, IsSlice(s)
    PROVE  /\ Len(s) \in Nat /\ DOMAIN s = 1..Len(s) /\ DOMAIN s \in Positions
           /\ \A i \in DOMAIN s : s[i] \in ToSet(s)
           /\ \A x \in ToSet(s) : \E i \in DOMAIN s : s[i] = x
<1>1. Len(s) \in Nat /\ DOMAIN s = 1..Len(s)
  BY DEF IsSlice
<1> QED
  BY <1>1, IntervalPositions DEF ToSet

\* What is picked is a slice of as many elements as there are positions, the
\* k-th of them from the k-th position.
LEMMA PickFacts ==
    ASSUME NEW s, NEW S \in Positions
    PROVE  /\ IsSlice(Pick(s, S)) /\ Len(Pick(s, S)) = Cardinality(S)
           /\ DOMAIN Pick(s, S) = 1..Cardinality(S)
           /\ \A k \in 1..Cardinality(S) : Kth(S, k) \in S /\ Pick(s, S)[k] = s[Kth(S, k)]
           /\ ToSet(Pick(s, S)) = {s[i] : i \in S}
<1>1. Cardinality(S) \in Nat
  BY SubPositions
<1>2. /\ DOMAIN Pick(s, S) = 1..Cardinality(S)
      /\ \A k \in 1..Cardinality(S) : Kth(S, k) \in S /\ Pick(s, S)[k] = s[Kth(S, k)]
  BY KthPosition DEF Pick
<1>3. Pick(s, S) \in [1..Cardinality(S) -> ToSet(Pick(s, S))]
  BY DEF Pick, ToSet
<1>4. IsSlice(Pick(s, S)) /\ Len(Pick(s, S)) = Cardinality(S)
  BY <1>1, <1>3 DEF IsSlice
<1>5. \A k \in 1..Cardinality(S) : Pick(s, S)[k] \in {s[i] : i \in S}
  BY <1>2
<1>6. \A i \in S : Rank(S, i) \in 1..Cardinality(S) /\ Pick(s, S)[Rank(S, i)] = s[i]
  BY <1>2, KthPosition
<1> QED
  BY <1>2, <1>4, <1>5, <1>6 DEF ToSet

\* Picking keeps elements apart.
LEMMA PickDistinct ==
    ASSUME NEW s, NEW S \in Positions, \A i, j \in S : s[i] = s[j] => i = j
    PROVE  Distinct(Pick(s, S))
BY PickFacts, KthPosition DEF Distinct

\* As many of the elements picked are from some of the positions as these are.
LEMMA PickCounts ==
    ASSUME NEW s, NEW S \in Positions, NEW T, T \subseteq S
    PROVE  Cardinality({k \in 1..Cardinality(S) : Kth(S, k) \in T}) = Cardinality(T)
<1> DEFINE B == {k \in 1..Cardinality(S) : Kth(S, k) \in T}
           f == [i \in T |-> Rank(S, i)]
<1>1. IsFiniteSet(T)
  BY SubPositions DEF Positions
<1>2. \A i \in T : f[i] \in B /\ Kth(S, f[i]) = i
  BY KthPosition
<1>3. \A k \in B : Kth(S, k) \in T /\ f[Kth(S, k)] = k
  BY KthPosition
<1>4. f \in [T -> B]
  BY <1>2
<1>5. \A x, y \in T : f[x] = f[y] => x = y
  BY <1>2
<1>6. \A b \in B : \E a \in T : f[a] = b
  BY <1>3
<1> HIDE DEF f, B
<1>7. Cardinality(B) = Cardinality(T)
  BY <1>1, <1>4, <1>5, <1>6, OneToOne
<1> QED
  BY <1>7 DEF B

\* A part of a slice is a slice of some of its elements, as different.
LEMMA PartOfSlice ==
    ASSUME NEW s, IsSlice(s), NEW S, S \subseteq DOMAIN s
    PROVE  /\ S \in Positions /\ IsSlice(Pick(s, S)) /\ Len(Pick(s, S)) = Cardinality(S)
           /\ ToSet(Pick(s, S)) = {s[i] : i \in S} /\ ToSet(Pick(s, S)) \subseteq ToSet(s)
           /\ Distinct(s) => Distinct(Pick(s, S))
           /\ Len(Pick(s, S)) =< Len(s)
<1>1. S \in Positions /\ Cardinality(S) =< Cardinality(DOMAIN s)
  BY SliceFacts, SubPositions
<1>2. Cardinality(DOMAIN s) = Len(s)
  BY SliceFacts, IntervalLength
<1>3. {s[i] : i \in S} \subseteq ToSet(s)
  BY DEF ToSet
<1>4. Distinct(s) => \A i, j \in S : s[i] = s[j] => i = j
  BY DEF Distinct
<1> QED
  BY <1>1, <1>2, <1>3, <1>4, PickFacts, PickDistinct

LEMMA FirstFacts ==
    ASSUME NEW s, IsSlice(s), NEW n \in Nat
    PROVE  /\ IsSlice(First(s, n)) /\ ToSet(First(s, n)) \subseteq ToSet(s)
           /\ Len(First(s, n)) =< n /\ Len(First(s, n)) \in Nat
           /\ Distinct(s) => Distinct(First(s, n))
<1> DEFINE S == {i \in DOMAIN s : i =< n}
<1>1. S \subseteq DOMAIN s /\ S \subseteq 1..n
  BY SliceFacts
<1> HIDE DEF S
<1>2. Cardinality(S) =< n /\ Cardinality(S) \in Nat
  <2>1. 1..n \in Positions /\ Cardinality(1..n) = n
    BY IntervalPositions, IntervalLength
  <2> QED
    BY <1>1, <2>1, SubPositions
<1>3. /\ IsSlice(Pick(s, S)) /\ ToSet(Pick(s, S)) \subseteq ToSet(s)
      /\ Len(Pick(s, S)) =< n /\ Len(Pick(s, S)) \in Nat
      /\ Distinct(s) => Distinct(Pick(s, S))
  BY <1>1, <1>2, PartOfSlice
<1> QED
  BY <1>3 DEF First, S

LEMMA WithoutFacts ==
    ASSUME NEW s, IsSlice(s), NEW gone
    PROVE  /\ IsSlice(Without(s, gone)) /\ ToSet(Without(s, gone)) = ToSet(s) \ gone
           /\ Len(Without(s, gone)) =< Len(s)
           /\ Distinct(s) => Distinct(Without(s, gone))
<1> DEFINE S == {i \in DOMAIN s : s[i] \notin gone}
<1>1. {s[i] : i \in S} = ToSet(s) \ gone
  BY DEF ToSet
<1>2. S \subseteq DOMAIN s
  OBVIOUS
<1> HIDE DEF S
<1>3. /\ IsSlice(Pick(s, S)) /\ ToSet(Pick(s, S)) = ToSet(s) \ gone
      /\ Len(Pick(s, S)) =< Len(s)
      /\ Distinct(s) => Distinct(Pick(s, S))
  BY <1>1, <1>2, PartOfSlice
<1> QED
  BY <1>3 DEF Without, S

LEMMA OnceFacts ==
    ASSUME NEW s, IsSlice(s)
    PROVE  /\ IsSlice(Once(s)) /\ ToSet(Once(s)) = ToSet(s) /\ Distinct(Once(s))
           /\ Len(Once(s)) =< Len(s)
<1> DEFINE S == {i \in DOMAIN s : \A j \in 1..(i - 1) : s[j] # s[i]}
<1>1. S \subseteq DOMAIN s
  OBVIOUS
<1>2. \A i \in DOMAIN s : i \in Nat /\ i >= 1 /\ \A j \in DOMAIN s : j < i => j \in 1..(i - 1)
  BY SliceFacts
<1>3. \A i, j \in S : s[i] = s[j] => i = j
  <2> SUFFICES ASSUME NEW i \in S, NEW j \in S, s[i] = s[j]
               PROVE  i = j
    OBVIOUS
  <2>1. j < i => j \in 1..(i - 1)
    BY <1>1, <1>2
  <2>2. i < j => i \in 1..(j - 1)
    BY <1>1, <1>2
  <2>3. ~(j < i) /\ ~(i < j)
    BY <2>1, <2>2
  <2> QED
    BY <1>1, <1>2, <2>3
<1>4. ASSUME NEW x \in ToSet(s)
      PROVE  \E i \in S : s[i] = x
  <2> DEFINE T == {i \in DOMAIN s : s[i] = x}
  <2>1. T # {} /\ T \subseteq Nat
    BY <1>2, SliceFacts
  <2>2. PICK i \in T : \A j \in T : i =< j
    BY <2>1, LeastNumber
  <2>3. \A j \in 1..(i - 1) : j \in DOMAIN s /\ ~(i =< j)
    BY <2>1, SliceFacts
  <2>4. i \in S
    BY <2>2, <2>3
  <2> QED
    BY <2>4
<1>5. {s[i] : i \in S} = ToSet(s)
  BY <1>1, <1>4 DEF ToSet
<1> HIDE DEF S
<1>6. /\ IsSlice(Pick(s, S)) /\ ToSet(Pick(s, S)) = ToSet(s) /\ Distinct(Pick(s, S))
      /\ Len(Pick(s, S)) =< Len(s)
  BY <1>1, <1>3, <1>5, PartOfSlice, PickDistinct
<1> QED
  BY <1>6 DEF Once, S

\* A slice of different elements is as long as the set of them.
LEMMA DistinctLength ==
    ASSUME NEW s, IsSlice(s), Distinct(s)
    PROVE  IsFiniteSet(ToSet(s)) /\ Cardinality(ToSet(s)) = Len(s)
<1> DEFINE f == [i \in DOMAIN s |-> s[i]]
<1>1. f \in [DOMAIN s -> ToSet(s)]
  BY DEF ToSet
<1>2. \A x, y \in DOMAIN s : f[x] = f[y] => x = y
  BY DEF Distinct
<1>3. \A b \in ToSet(s) : \E a \in DOMAIN s : f[a] = b
  BY DEF ToSet
<1>4. IsFiniteSet(DOMAIN s) /\ Cardinality(DOMAIN s) = Len(s)
  BY SliceFacts, IntervalLength DEF Positions
<1> HIDE DEF f
<1> QED
  BY <1>1, <1>2, <1>3, <1>4, OneToOne

-----------------------------------------------------------------------------
(* Occurrences of keys. *)

LEMMA OccurrencesFacts ==
    ASSUME NEW keys, NEW k, NEW S \in Positions
    PROVE  /\ {i \in S : keys[i] = k} \in Positions
           /\ Occurrences(keys, k, S) \in 0..Cardinality(S)
           /\ Occurrences(keys, k, S) = Cardinality({i \in S : keys[i] = k})
<1>1. {i \in S : keys[i] = k} \subseteq S
  OBVIOUS
<1>2. /\ {i \in S : keys[i] = k} \in Positions /\ Cardinality(S) \in Nat
      /\ Cardinality({i \in S : keys[i] = k}) \in Nat
      /\ Cardinality({i \in S : keys[i] = k}) =< Cardinality(S)
  BY <1>1, SubPositions
<1> QED
  BY <1>2 DEF Occurrences

\* One more position is one more occurrence of its key.
LEMMA OneMore ==
    ASSUME NEW keys, NEW k, NEW S \in Positions, NEW i \in Int, i \notin S
    PROVE  /\ S \cup {i} \in Positions
           /\ Occurrences(keys, k, S \cup {i}) =
                 Occurrences(keys, k, S) + (IF keys[i] = k THEN 1 ELSE 0)
<1> DEFINE A == {x \in S : keys[x] = k}
           B == {x \in S \cup {i} : keys[x] = k}
<1>1. IsFiniteSet(S \cup {i}) /\ S \cup {i} \subseteq Int
  BY FS_AddElement DEF Positions
<1>2. IsFiniteSet(A) /\ Cardinality(A) \in Nat
  <2>1. A \subseteq S
    OBVIOUS
  <2> QED
    BY <2>1, SubPositions DEF Positions
<1>3. i \notin A /\ B = IF keys[i] = k THEN A \cup {i} ELSE A
  OBVIOUS
<1> HIDE DEF A, B
<1>4. Cardinality(A \cup {i}) = Cardinality(A) + 1
  BY <1>2, <1>3, FS_AddElement
<1>5. Cardinality(B) = Cardinality(A) + (IF keys[i] = k THEN 1 ELSE 0)
  BY <1>2, <1>3, <1>4
<1> QED
  BY <1>1, <1>5 DEF A, B, Occurrences, Positions

\* The positions from a number on, and those of the next.
LEMMA FromOn ==
    ASSUME NEW keys, NEW k, NEW n \in Nat, NEW i \in 1..n
    PROVE  Occurrences(keys, k, i..n) =
              Occurrences(keys, k, (i + 1)..n) + (IF keys[i] = k THEN 1 ELSE 0)
<1>1. (i + 1)..n \in Positions
  BY IntervalPositions
<1>2. i..n = ((i + 1)..n) \cup {i} /\ i \notin (i + 1)..n /\ i \in Int
  OBVIOUS
<1> QED
  BY <1>1, <1>2, OneMore

-----------------------------------------------------------------------------
(* The alignment. *)

LEMMA Counted ==
    ASSUME NEW keys, NEW S \in Positions
    PROVE  \A k : Occurrences(keys, k, S) \in Nat
<1> TAKE k
<1>1. Occurrences(keys, k, S) \in 0..Cardinality(S) /\ Cardinality(S) \in Nat
  BY OccurrencesFacts, SubPositions
<1> QED
  BY <1>1

\* What is left out from two positions on accounts for every key.
Balanced(prev, curr, out, i, j) ==
    /\ out = LeftOut(out.added, out.removed)
    /\ out.added \subseteq j..Len(curr) /\ out.removed \subseteq i..Len(prev)
    /\ \A k : Occurrences(curr, k, out.added) - Occurrences(prev, k, out.removed) =
                 Occurrences(curr, k, j..Len(curr)) - Occurrences(prev, k, i..Len(prev))

\* So it does when another position is left out ...
LEMMA MoreRemoved ==
    ASSUME NEW prev, NEW curr, NEW n \in Nat, NEW m \in Nat, n = Len(prev), m = Len(curr),
           NEW i \in 1..n, NEW j \in 1..m, NEW A, NEW R,
           Balanced(prev, curr, LeftOut(A, R), i + 1, j)
    PROVE  Balanced(prev, curr, LeftOut(A, R \cup {i}), i, j)
<1>1. A \subseteq j..m /\ R \subseteq (i + 1)..n
  BY DEF Balanced, LeftOut
<1>2. \A S \in {j..m, i..n, (i + 1)..n} : S \in Positions
  BY IntervalPositions
<1>3. A \in Positions /\ R \in Positions
  BY <1>1, <1>2, SubPositions
<1>4. R \cup {i} \subseteq i..n /\ i \notin R /\ i \in Int
  BY <1>1
<1>5. ASSUME NEW k
      PROVE  Occurrences(curr, k, A) - Occurrences(prev, k, R \cup {i}) =
                Occurrences(curr, k, j..m) - Occurrences(prev, k, i..n)
  <2> DEFINE one == IF prev[i] = k THEN 1 ELSE 0
  <2>1. Occurrences(prev, k, R \cup {i}) = Occurrences(prev, k, R) + one
    BY <1>3, <1>4, OneMore
  <2>2. Occurrences(prev, k, i..n) = Occurrences(prev, k, (i + 1)..n) + one
    BY FromOn
  <2>3. Occurrences(curr, k, A) - Occurrences(prev, k, R) =
           Occurrences(curr, k, j..m) - Occurrences(prev, k, (i + 1)..n)
    BY DEF Balanced, LeftOut
  <2>4. /\ Occurrences(curr, k, A) \in Nat /\ Occurrences(prev, k, R) \in Nat
        /\ Occurrences(curr, k, j..m) \in Nat /\ Occurrences(prev, k, (i + 1)..n) \in Nat
        /\ one \in Nat
    BY <1>2, <1>3, Counted
  <2> DEFINE a == Occurrences(curr, k, A)
             b == Occurrences(prev, k, R)
             c == Occurrences(curr, k, j..m)
             d == Occurrences(prev, k, (i + 1)..n)
  <2> HIDE DEF one, a, b, c, d
  <2>5. a - (b + one) = c - (d + one)
    <3>1. a \in Nat /\ b \in Nat /\ c \in Nat /\ d \in Nat /\ one \in Nat /\ a - b = c - d
      BY <2>3, <2>4 DEF a, b, c, d
    <3> QED
      BY <3>1
  <2>6. Occurrences(prev, k, R \cup {i}) = b + one /\ Occurrences(prev, k, i..n) = d + one
    BY <2>1, <2>2 DEF b, d
  <2> QED
    BY <2>5, <2>6 DEF a, c
<1> QED
  BY <1>1, <1>4, <1>5 DEF Balanced, LeftOut

LEMMA MoreAdded ==
    ASSUME NEW prev, NEW curr, NEW n \in Nat, NEW m \in Nat, n = Len(prev), m = Len(curr),
           NEW i \in 1..n, NEW j \in 1..m, NEW A, NEW R,
           Balanced(prev, curr, LeftOut(A, R), i, j + 1)
    PROVE  Balanced(prev, curr, LeftOut(A \cup {j}, R), i, j)
<1>1. A \subseteq (j + 1)..m /\ R \subseteq i..n
  BY DEF Balanced, LeftOut
<1>2. \A S \in {j..m, (j + 1)..m, i..n} : S \in Positions
  BY IntervalPositions
<1>3. A \in Positions /\ R \in Positions
  BY <1>1, <1>2, SubPositions
<1>4. A \cup {j} \subseteq j..m /\ j \notin A /\ j \in Int
  BY <1>1
<1>5. ASSUME NEW k
      PROVE  Occurrences(curr, k, A \cup {j}) - Occurrences(prev, k, R) =
                Occurrences(curr, k, j..m) - Occurrences(prev, k, i..n)
  <2> DEFINE one == IF curr[j] = k THEN 1 ELSE 0
  <2>1. Occurrences(curr, k, A \cup {j}) = Occurrences(curr, k, A) + one
    BY <1>3, <1>4, OneMore
  <2>2. Occurrences(curr, k, j..m) = Occurrences(curr, k, (j + 1)..m) + one
    BY FromOn
  <2>3. Occurrences(curr, k, A) - Occurrences(prev, k, R) =
           Occurrences(curr, k, (j + 1)..m) - Occurrences(prev, k, i..n)
    BY DEF Balanced, LeftOut
  <2>4. /\ Occurrences(curr, k, A) \in Nat /\ Occurrences(prev, k, R) \in Nat
        /\ Occurrences(curr, k, (j + 1)..m) \in Nat /\ Occurrences(prev, k, i..n) \in Nat
        /\ one \in Nat
    BY <1>2, <1>3, Counted
  <2> DEFINE a == Occurrences(curr, k, A)
             b == Occurrences(prev, k, R)
             c == Occurrences(curr, k, (j + 1)..m)
             d == Occurrences(prev, k, i..n)
  <2> HIDE DEF one, a, b, c, d
  <2>5. (a + one) - b = (c + one) - d
    <3>1. a \in Nat /\ b \in Nat /\ c \in Nat /\ d \in Nat /\ one \in Nat /\ a - b = c - d
      BY <2>3, <2>4 DEF a, b, c, d
    <3> QED
      BY <3>1
  <2>6. Occurrences(curr, k, A \cup {j}) = a + one /\ Occurrences(curr, k, j..m) = c + one
    BY <2>1, <2>2 DEF a, c
  <2> QED
    BY <2>5, <2>6 DEF b, d
<1> QED
  BY <1>1, <1>4, <1>5 DEF Balanced, LeftOut

\* ... and when equal keys are aligned.
LEMMA MoreAligned ==
    ASSUME NEW prev, NEW curr, NEW n \in Nat, NEW m \in Nat, n = Len(prev), m = Len(curr),
           NEW i \in 1..n, NEW j \in 1..m, prev[i] = curr[j], NEW out,
           Balanced(prev, curr, out, i + 1, j + 1)
    PROVE  Balanced(prev, curr, out, i, j)
<1>1. out = LeftOut(out.added, out.removed)
      /\ out.added \subseteq (j + 1)..m /\ out.removed \subseteq (i + 1)..n
  BY DEF Balanced
<1>2. out.added \subseteq j..m /\ out.removed \subseteq i..n
  BY <1>1
<1>3. \A S \in {j..m, (j + 1)..m, i..n, (i + 1)..n} : S \in Positions
  BY IntervalPositions
<1>4. ASSUME NEW k
      PROVE  Occurrences(curr, k, out.added) - Occurrences(prev, k, out.removed) =
                Occurrences(curr, k, j..m) - Occurrences(prev, k, i..n)
  <2> DEFINE one == IF curr[j] = k THEN 1 ELSE 0
  <2>1. Occurrences(curr, k, j..m) = Occurrences(curr, k, (j + 1)..m) + one
    BY FromOn
  <2>2. Occurrences(prev, k, i..n) = Occurrences(prev, k, (i + 1)..n) + one
    <3>1. one = IF prev[i] = k THEN 1 ELSE 0
      OBVIOUS
    <3> HIDE DEF one
    <3> QED
      BY <3>1, FromOn
  <2>3. Occurrences(curr, k, out.added) - Occurrences(prev, k, out.removed) =
           Occurrences(curr, k, (j + 1)..m) - Occurrences(prev, k, (i + 1)..n)
    BY DEF Balanced
  <2>4. Occurrences(curr, k, (j + 1)..m) \in Nat /\ Occurrences(prev, k, (i + 1)..n) \in Nat /\ one \in Nat
    BY <1>3, Counted
  <2> HIDE DEF one
  <2> QED
    BY <2>1, <2>2, <2>3, <2>4
<1> QED
  BY <1>1, <1>2, <1>4 DEF Balanced

\* One step of the walk keeps the balance.
LEMMA FallsOutBalanced ==
    ASSUME NEW prev, NEW curr, NEW n \in Nat, NEW m \in Nat, n = Len(prev), m = Len(curr),
           NEW dp, NEW walk, NEW i \in 1..(n + 1), NEW j \in 1..(m + 1),
           i =< n /\ j =< m =>
               /\ Balanced(prev, curr, walk[<<i + 1, j + 1>>], i + 1, j + 1)
               /\ Balanced(prev, curr, walk[<<i + 1, j>>], i + 1, j)
               /\ Balanced(prev, curr, walk[<<i, j + 1>>], i, j + 1)
    PROVE  Balanced(prev, curr, FallsOut(prev, curr, dp, walk, i, j), i, j)
<1> DEFINE down == walk[<<i + 1, j>>]
           right == walk[<<i, j + 1>>]
<1>1. CASE i > n \/ j > m
  <2>1. FallsOut(prev, curr, dp, walk, i, j) = LeftOut(j..m, i..n)
    BY <1>1 DEF FallsOut
  <2> QED
    BY <2>1 DEF Balanced, LeftOut
<1>2. CASE i =< n /\ j =< m
  <2>1. i \in 1..n /\ j \in 1..m /\ ~(i > n \/ j > m)
    BY <1>2
  <2>2. CASE prev[i] = curr[j]
    <3>1. FallsOut(prev, curr, dp, walk, i, j) = walk[<<i + 1, j + 1>>]
      BY <2>1, <2>2 DEF FallsOut
    <3> QED
      BY <1>2, <2>1, <2>2, <3>1, MoreAligned
  <2>3. CASE prev[i] # curr[j] /\ dp[<<i + 1, j>>] >= dp[<<i, j + 1>>]
    <3>1. FallsOut(prev, curr, dp, walk, i, j) = LeftOut(down.added, down.removed \cup {i})
      BY <2>1, <2>3 DEF FallsOut
    <3>2. Balanced(prev, curr, LeftOut(down.added, down.removed), i + 1, j)
      BY <1>2, Zenon DEF Balanced
    <3> HIDE DEF down
    <3> QED
      BY <2>1, <3>1, <3>2, MoreRemoved
  <2>4. CASE prev[i] # curr[j] /\ ~(dp[<<i + 1, j>>] >= dp[<<i, j + 1>>])
    <3>1. FallsOut(prev, curr, dp, walk, i, j) = LeftOut(right.added \cup {j}, right.removed)
      BY <2>1, <2>4 DEF FallsOut
    <3>2. Balanced(prev, curr, LeftOut(right.added, right.removed), i, j + 1)
      BY <1>2, Zenon DEF Balanced
    <3> HIDE DEF right
    <3> QED
      BY <2>1, <3>1, <3>2, MoreAdded
  <2> QED
    BY <2>2, <2>3, <2>4
<1> QED
  BY <1>1, <1>2

-----------------------------------------------------------------------------
(* The walk through the table. *)

\* How far a cell is from the end.
Ahead(prev, curr, c) == Len(prev) + Len(curr) + 2 - c[1] - c[2]

SameAhead(prev, curr, c, v, w) ==
    \A e \in Cells(prev, curr) : Ahead(prev, curr, e) < Ahead(prev, curr, c) => v[e] = w[e]

IsWalk(prev, curr, dp, w) ==
    w = [c \in Cells(prev, curr) |-> FallsOut(prev, curr, dp, w, c[1], c[2])]

\* A step looks at cells that are nearer to the end.
LEMMA StepLooksAhead ==
    ASSUME NEW prev, NEW curr, Len(prev) \in Nat, Len(curr) \in Nat, NEW dp,
           NEW v, NEW w, NEW c \in Cells(prev, curr), SameAhead(prev, curr, c, v, w)
    PROVE  FallsOut(prev, curr, dp, v, c[1], c[2]) = FallsOut(prev, curr, dp, w, c[1], c[2])
<1> DEFINE n == Len(prev)
           m == Len(curr)
<1>1. PICK i \in 1..(n + 1), j \in 1..(m + 1) : c = <<i, j>>
  BY DEF Cells
<1>2. c[1] = i /\ c[2] = j
  BY <1>1
<1>3. CASE i > n \/ j > m
  BY <1>2, <1>3 DEF FallsOut
<1>4. CASE i =< n /\ j =< m
  <2>1. /\ <<i + 1, j + 1>> \in Cells(prev, curr) /\ <<i + 1, j>> \in Cells(prev, curr)
        /\ <<i, j + 1>> \in Cells(prev, curr)
    BY <1>4 DEF Cells
  <2>2. /\ Ahead(prev, curr, <<i + 1, j + 1>>) < Ahead(prev, curr, <<i, j>>)
        /\ Ahead(prev, curr, <<i + 1, j>>) < Ahead(prev, curr, <<i, j>>)
        /\ Ahead(prev, curr, <<i, j + 1>>) < Ahead(prev, curr, <<i, j>>)
    BY DEF Ahead
  <2>3. /\ v[<<i + 1, j + 1>>] = w[<<i + 1, j + 1>>] /\ v[<<i + 1, j>>] = w[<<i + 1, j>>]
        /\ v[<<i, j + 1>>] = w[<<i, j + 1>>]
    BY <1>1, <2>1, <2>2 DEF SameAhead
  <2> QED
    BY <1>2, <2>3 DEF FallsOut
<1> QED
  BY <1>3, <1>4

\* There is a walk: one that is right near the end, and ever farther from it.
LEMMA WalkExists ==
    ASSUME NEW prev, NEW curr, Len(prev) \in Nat, Len(curr) \in Nat, NEW dp
    PROVE  \E w : IsWalk(prev, curr, dp, w)
<1> DEFINE Step(w) == [c \in Cells(prev, curr) |-> FallsOut(prev, curr, dp, w, c[1], c[2])]
           Right(w, d) == \A c \in Cells(prev, curr) : Ahead(prev, curr, c) < d => w[c] = Step(w)[c]
           Wrong == {d \in Nat : ~\E w : w = [c \in Cells(prev, curr) |-> w[c]] /\ Right(w, d)}
<1>1. \A c \in Cells(prev, curr) : Ahead(prev, curr, c) \in 0..(Len(prev) + Len(curr))
  BY DEF Ahead, Cells
<1>2. ASSUME NEW w, NEW d \in Nat, Right(w, d)
      PROVE  Right(Step(w), d + 1)
  <2> SUFFICES ASSUME NEW c \in Cells(prev, curr), Ahead(prev, curr, c) < d + 1
               PROVE  Step(w)[c] = Step(Step(w))[c]
    OBVIOUS
  <2>1. \A e \in Cells(prev, curr) :
           Ahead(prev, curr, e) < Ahead(prev, curr, c) => w[e] = Step(w)[e]
    BY <1>1, <1>2
  <2> HIDE DEF Right, Wrong
  <2> DEFINE v == Step(w)
  <2>2. SameAhead(prev, curr, c, w, v)
    BY <2>1 DEF SameAhead
  <2> HIDE DEF v, Step
  <2>3. FallsOut(prev, curr, dp, w, c[1], c[2]) = FallsOut(prev, curr, dp, v, c[1], c[2])
    BY <2>2, StepLooksAhead
  <2>4. Step(w)[c] = Step(v)[c]
    BY <2>3 DEF Step
  <2> QED
    BY <2>4 DEF v
<1>3. Wrong = {}
  <2> SUFFICES ASSUME Wrong # {} PROVE FALSE
    OBVIOUS
  <2>1. PICK d \in Wrong : \A e \in Wrong : d =< e
    <3>1. Wrong \subseteq Nat
      OBVIOUS
    <3> HIDE DEF Wrong
    <3> QED
      BY <3>1, LeastNumber
  <2>2. d # 0
    <3>1. \A w : Right(w, 0)
      BY <1>1
    <3> DEFINE w0 == [c \in Cells(prev, curr) |-> 0]
    <3>2. w0 = [c \in Cells(prev, curr) |-> w0[c]] /\ Right(w0, 0)
      BY <3>1
    <3> QED
      BY <3>2
  <2>3. d - 1 \in Nat /\ d - 1 \notin Wrong
    BY <2>1, <2>2
  <2>4. PICK w : Right(w, d - 1)
    BY <2>3
  <2>5. Right(Step(w), d)
    <3>1. d - 1 + 1 = d
      BY <2>3
    <3> HIDE DEF Right, Step
    <3> QED
      BY <1>2, <2>3, <2>4, <3>1
  <2>6. Step(w) = [c \in Cells(prev, curr) |-> Step(w)[c]]
    OBVIOUS
  <2> HIDE DEF Right, Step
  <2> QED
    BY <2>5, <2>6
<1>4. Len(prev) + Len(curr) + 1 \in Nat
  OBVIOUS
<1>5. PICK w : w = [c \in Cells(prev, curr) |-> w[c]] /\ Right(w, Len(prev) + Len(curr) + 1)
  BY <1>3, <1>4
<1>6. \A c \in Cells(prev, curr) : w[c] = Step(w)[c]
  BY <1>1, <1>5
<1> QED
  BY <1>5, <1>6 DEF IsWalk

\* Every cell of the walk is balanced.
LEMMA AlignedBalanced ==
    ASSUME NEW prev, NEW curr, Len(prev) \in Nat, Len(curr) \in Nat, NEW dp
    PROVE  \A i \in 1..(Len(prev) + 1), j \in 1..(Len(curr) + 1) :
              Balanced(prev, curr, Aligned(prev, curr, dp)[<<i, j>>], i, j)
<1> DEFINE n == Len(prev)
           m == Len(curr)
           walk == Aligned(prev, curr, dp)
           Wrong == {Ahead(prev, curr, c) : c \in {c \in Cells(prev, curr) :
                                                     ~Balanced(prev, curr, walk[c], c[1], c[2])}}
<1>1. walk = [c \in Cells(prev, curr) |-> FallsOut(prev, curr, dp, walk, c[1], c[2])]
  <2>1. walk = CHOOSE w : IsWalk(prev, curr, dp, w)
    BY Zenon DEF Aligned, IsWalk
  <2>2. \E w : IsWalk(prev, curr, dp, w)
    BY WalkExists
  <2> HIDE DEF walk
  <2>3. IsWalk(prev, curr, dp, walk)
    BY <2>1, <2>2, Zenon
  <2> QED
    BY <2>3 DEF IsWalk
<1>2. \A c \in Cells(prev, curr) : Ahead(prev, curr, c) \in Nat
  BY DEF Ahead, Cells
<1>3. \A i \in 1..(n + 1), j \in 1..(m + 1) :
         /\ <<i, j>> \in Cells(prev, curr)
         /\ walk[<<i, j>>] = FallsOut(prev, curr, dp, walk, i, j)
  <2> TAKE i \in 1..(n + 1), j \in 1..(m + 1)
  <2>1. <<i, j>> \in Cells(prev, curr)
    BY DEF Cells
  <2> HIDE DEF walk
  <2> QED
    BY <1>1, <2>1
<1> HIDE DEF walk
<1>4. Wrong = {}
  <2> SUFFICES ASSUME Wrong # {} PROVE FALSE
    OBVIOUS
  <2>1. PICK d \in Wrong : \A e \in Wrong : d =< e
    <3>1. Wrong \subseteq Nat
      BY <1>2
    <3> HIDE DEF Wrong
    <3> QED
      BY <3>1, LeastNumber
  <2>2. PICK i \in 1..(n + 1), j \in 1..(m + 1) :
           d = Ahead(prev, curr, <<i, j>>) /\ ~Balanced(prev, curr, walk[<<i, j>>], i, j)
    BY DEF Cells
  <2>3. \A x \in 1..(n + 1), y \in 1..(m + 1) :
           Ahead(prev, curr, <<x, y>>) < d => Balanced(prev, curr, walk[<<x, y>>], x, y)
    <3> SUFFICES ASSUME NEW x \in 1..(n + 1), NEW y \in 1..(m + 1),
                        ~Balanced(prev, curr, walk[<<x, y>>], x, y)
                 PROVE  ~(Ahead(prev, curr, <<x, y>>) < d)
      OBVIOUS
    <3>1. Ahead(prev, curr, <<x, y>>) \in Wrong
      BY <1>3
    <3>2. d =< Ahead(prev, curr, <<x, y>>)
      BY <2>1, <3>1
    <3>3. d \in Nat /\ Ahead(prev, curr, <<x, y>>) \in Nat
      BY <1>2, <1>3, <2>2
    <3> QED
      BY <3>2, <3>3
  <2>4. ASSUME i =< n, j =< m
        PROVE  /\ Balanced(prev, curr, walk[<<i + 1, j + 1>>], i + 1, j + 1)
               /\ Balanced(prev, curr, walk[<<i + 1, j>>], i + 1, j)
               /\ Balanced(prev, curr, walk[<<i, j + 1>>], i, j + 1)
    <3>1. i + 1 \in 1..(n + 1) /\ j + 1 \in 1..(m + 1)
      BY <2>4
    <3>2. /\ Ahead(prev, curr, <<i + 1, j + 1>>) < Ahead(prev, curr, <<i, j>>)
          /\ Ahead(prev, curr, <<i + 1, j>>) < Ahead(prev, curr, <<i, j>>)
          /\ Ahead(prev, curr, <<i, j + 1>>) < Ahead(prev, curr, <<i, j>>)
      BY DEF Ahead
    <3> QED
      BY <2>2, <2>3, <3>1, <3>2
  <2>5. Balanced(prev, curr, FallsOut(prev, curr, dp, walk, i, j), i, j)
    BY <2>4, FallsOutBalanced
  <2> QED
    BY <1>3, <2>2, <2>5
<1> SUFFICES ASSUME NEW i \in 1..(n + 1), NEW j \in 1..(m + 1)
             PROVE  Balanced(prev, curr, walk[<<i, j>>], i, j)
  BY DEF walk
<1>5. <<i, j>> \in Cells(prev, curr) /\ <<i, j>>[1] = i /\ <<i, j>>[2] = j
  BY <1>3
<1> QED
  BY <1>4, <1>5

-----------------------------------------------------------------------------
(* Surpluses. *)

\* The other way round: as many are of a later rank as are left.
LEMMA FinalSegment ==
    ASSUME NEW S \in Positions, NEW r \in 0..Cardinality(S)
    PROVE  Cardinality({i \in S : Rank(S, i) > r}) = Cardinality(S) - r
<1> DEFINE A == {i \in S : Rank(S, i) =< r}
           B == {i \in S : Rank(S, i) > r}
<1>1. \A i \in S : Rank(S, i) \in Int
  <2>1. Cardinality(S) \in Nat
    BY SubPositions
  <2> QED
    BY <2>1, Ranks
<1>2. Cardinality(A) = r /\ A \subseteq S
  BY InitialSegment
<1>3. B = S \ A /\ S \cap A = A
  BY <1>1
<1> HIDE DEF A, B
<1>4. IsFiniteSet(S)
  BY DEF Positions
<1>5. Cardinality(S \ A) = Cardinality(S) - Cardinality(S \cap A)
  BY <1>4, FS_Difference
<1> QED
  BY <1>2, <1>3, <1>5 DEF B

\* Counted from the end instead of the beginning.
LEMMA RankFromEnd ==
    ASSUME NEW S \in Positions, NEW i \in S
    PROVE  Cardinality({x \in S : x >= i}) = Cardinality(S) - Rank(S, i) + 1
<1> DEFINE A == {x \in S : x =< i}
           B == {x \in S : x >= i}
<1>0. S \subseteq Int
  BY DEF Positions
<1>1. A \cup B = S /\ A \cap B = {i} /\ A \subseteq S /\ B \subseteq S
  <2>1. \A x \in S : (x =< i \/ x >= i) /\ (x =< i /\ x >= i <=> x = i)
    BY <1>0
  <2> QED
    BY <2>1
<1> HIDE DEF A, B
<1>2. IsFiniteSet(A) /\ IsFiniteSet(B) /\ Cardinality(A) \in Nat /\ Cardinality(B) \in Nat
  BY <1>1, SubPositions DEF Positions
<1>3. Cardinality(A \cup B) = Cardinality(A) + Cardinality(B) - Cardinality(A \cap B)
  BY <1>2, FS_Union
<1>4. Cardinality({i}) = 1
  BY FS_Singleton
<1>5. Cardinality(S) = Cardinality(A) + Cardinality(B) - 1
  BY <1>1, <1>3, <1>4
<1>6. Cardinality(B) = Cardinality(S) - Cardinality(A) + 1
  BY <1>2, <1>5
<1> QED
  BY <1>6 DEF A, B, Rank

\* The rank among the occurrences of a key is what the loops count.
LEMMA RankOfKey ==
    ASSUME NEW keys, NEW k, NEW S \in Positions, NEW i \in S, keys[i] = k
    PROVE  Occurrences(keys, k, {x \in S : x =< i}) = Rank({x \in S : keys[x] = k}, i)
<1>1. {y \in {x \in S : x =< i} : keys[y] = k} = {y \in {x \in S : keys[x] = k} : y =< i}
  OBVIOUS
<1> QED
  BY <1>1 DEF Occurrences, Rank

\* When the first so many occurrences of a key are taken away, the rest is left.
LEMMA LateKept ==
    ASSUME NEW keys, NEW k, NEW S \in Positions, NEW r \in 0..Occurrences(keys, k, S), NEW L,
           L \subseteq S,
           \A i \in S : keys[i] = k =>
               (i \in L <=> Occurrences(keys, k, {x \in S : x =< i}) > r)
    PROVE  Occurrences(keys, k, L) = Occurrences(keys, k, S) - r
<1> DEFINE T == {i \in S : keys[i] = k}
<1>1. T \in Positions /\ Occurrences(keys, k, S) = Cardinality(T)
  BY OccurrencesFacts
<1>2. \A i \in S : keys[i] = k => Occurrences(keys, k, {x \in S : x =< i}) = Rank(T, i)
  BY RankOfKey
<1>3. {i \in L : keys[i] = k} = {i \in T : Rank(T, i) > r}
  BY <1>2
<1>4. Cardinality({i \in T : Rank(T, i) > r}) = Cardinality(T) - r
  BY <1>1, FinalSegment
<1> QED
  BY <1>1, <1>3, <1>4 DEF Occurrences

\* The first so many occurrences of a key.
LEMMA EarlyKept ==
    ASSUME NEW keys, NEW k, NEW n \in Nat, NEW r \in 0..Occurrences(keys, k, 1..n), NEW E,
           E \subseteq 1..n,
           \A i \in 1..n : keys[i] = k => (i \in E <=> Occurrences(keys, k, 1..i) =< r)
    PROVE  Occurrences(keys, k, E) = r
<1> DEFINE T == {i \in 1..n : keys[i] = k}
<1>0. 1..n \in Positions
  BY IntervalPositions
<1>1. T \in Positions /\ Occurrences(keys, k, 1..n) = Cardinality(T)
  BY <1>0, OccurrencesFacts
<1>2. ASSUME NEW i \in 1..n, keys[i] = k
      PROVE  Occurrences(keys, k, 1..i) = Rank(T, i)
  <2>1. {y \in 1..i : keys[y] = k} = {y \in T : y =< i}
    OBVIOUS
  <2> QED
    BY <2>1 DEF Occurrences, Rank
<1>3. {i \in E : keys[i] = k} = {i \in T : Rank(T, i) =< r}
  BY <1>2
<1>4. Cardinality({i \in T : Rank(T, i) =< r}) = r
  BY <1>1, InitialSegment
<1> QED
  BY <1>3, <1>4 DEF Occurrences

\* The last so many.
LEMMA LastKept ==
    ASSUME NEW keys, NEW k, NEW m \in Nat, NEW r \in 0..Occurrences(keys, k, 1..m), NEW L,
           L \subseteq 1..m,
           \A j \in 1..m : keys[j] = k => (j \in L <=> Occurrences(keys, k, j..m) =< r)
    PROVE  Occurrences(keys, k, L) = r
<1> DEFINE T == {j \in 1..m : keys[j] = k}
<1>0. 1..m \in Positions
  BY IntervalPositions
<1>1. T \in Positions /\ Occurrences(keys, k, 1..m) = Cardinality(T) /\ Cardinality(T) \in Nat
  BY <1>0, OccurrencesFacts, SubPositions
<1>2. \A j \in T : Rank(T, j) \in Int
  BY <1>1, Ranks
<1>3. ASSUME NEW j \in T
      PROVE  Occurrences(keys, k, j..m) = Cardinality(T) - Rank(T, j) + 1
  <2>1. {x \in j..m : keys[x] = k} = {x \in T : x >= j}
    OBVIOUS
  <2> QED
    BY <1>1, <2>1, RankFromEnd DEF Occurrences
<1>4. \A j \in T : j \in L <=> Rank(T, j) > Cardinality(T) - r
  <2> TAKE j \in T
  <2>1. j \in L <=> Cardinality(T) - Rank(T, j) + 1 =< r
    BY <1>3
  <2> QED
    BY <1>1, <1>2, <2>1
<1>5. {j \in L : keys[j] = k} = {j \in T : Rank(T, j) > Cardinality(T) - r}
  BY <1>4
<1> DEFINE q == Cardinality(T) - r
<1>6. q \in 0..Cardinality(T) /\ Cardinality(T) - q = r
  BY <1>1
<1> HIDE DEF q
<1>7. Cardinality({j \in T : Rank(T, j) > q}) = Cardinality(T) - q
  BY <1>1, <1>6, FinalSegment
<1> QED
  BY <1>5, <1>6, <1>7 DEF Occurrences, q

-----------------------------------------------------------------------------
(* The differences of two pages. *)

Surplus(n) == IF n > 0 THEN n ELSE 0

LEMMA LcsBalanced ==
    ASSUME NEW prev, NEW curr, Len(prev) \in Nat, Len(curr) \in Nat
    PROVE  Balanced(prev, curr, LcsDiffIdx(prev, curr), 1, 1)
BY AlignedBalanced DEF LcsDiffIdx

LEMMA SetBalanced ==
    ASSUME NEW prev, NEW curr, NEW n \in Nat, NEW m \in Nat, n = Len(prev), m = Len(curr),
           DOMAIN prev = 1..n, DOMAIN curr = 1..m
    PROVE  Balanced(prev, curr, SetDiffIdx(prev, curr), 1, 1)
<1> DEFINE Net(k) == Occurrences(curr, k, 1..m) - Occurrences(prev, k, 1..n)
           A == {j \in 1..m : Occurrences(curr, curr[j], j..m) =< Net(curr[j])}
           R == {i \in 1..n : Occurrences(prev, prev[i], 1..i) =< -Net(prev[i])}
<1>1. SetDiffIdx(prev, curr) = LeftOut(A, R)
  BY DEF SetDiffIdx
<1>2. 1..m \in Positions /\ 1..n \in Positions
  BY IntervalPositions
<1>3. ASSUME NEW k
      PROVE  Occurrences(curr, k, A) - Occurrences(prev, k, R) = Net(k)
  <2> DEFINE c == Occurrences(curr, k, 1..m)
             p == Occurrences(prev, k, 1..n)
  <2>1. c \in Nat /\ p \in Nat
    BY <1>2, Counted
  <2>2. \A j \in 1..m : curr[j] = k => (j \in A <=> Occurrences(curr, k, j..m) =< c - p)
    OBVIOUS
  <2>3. \A i \in 1..n : prev[i] = k => (i \in R <=> Occurrences(prev, k, 1..i) =< p - c)
    <3>1. -Net(k) = p - c
      BY <2>1
    <3>2. \A i \in 1..n : prev[i] = k => (i \in R <=> Occurrences(prev, k, 1..i) =< -Net(k))
      OBVIOUS
    <3> HIDE DEF Net, R, p, c
    <3> QED
      BY <3>1, <3>2
  <2>4. A \subseteq 1..m /\ R \subseteq 1..n
    OBVIOUS
  <2>5. \A j \in 1..m : curr[j] = k => Occurrences(curr, k, j..m) \in Nat /\ Occurrences(curr, k, j..m) > 0
    <3> SUFFICES ASSUME NEW j \in 1..m, curr[j] = k
                 PROVE  Occurrences(curr, k, j..m) \in Nat /\ Occurrences(curr, k, j..m) > 0
      OBVIOUS
    <3>1. Occurrences(curr, k, j..m) = Occurrences(curr, k, (j + 1)..m) + 1
      <4>1. Occurrences(curr, k, j..m) =
               Occurrences(curr, k, (j + 1)..m) + (IF curr[j] = k THEN 1 ELSE 0)
        BY FromOn
      <4> QED
        BY <4>1
    <3>2. Occurrences(curr, k, (j + 1)..m) \in Nat
      BY IntervalPositions, Counted
    <3> QED
      BY <3>1, <3>2
  <2>6. \A i \in 1..n : prev[i] = k => Occurrences(prev, k, 1..i) \in Nat /\ Occurrences(prev, k, 1..i) > 0
    <3> SUFFICES ASSUME NEW i \in 1..n, prev[i] = k
                 PROVE  Occurrences(prev, k, 1..i) \in Nat /\ Occurrences(prev, k, 1..i) > 0
      OBVIOUS
    <3> DEFINE T == {x \in 1..i : prev[x] = k}
    <3>1. 1..i \in Positions
      BY IntervalPositions
    <3>2. T \in Positions /\ Occurrences(prev, k, 1..i) = Cardinality(T)
      <4>1. T \subseteq 1..i
        OBVIOUS
      <4> QED
        BY <3>1, <4>1, SubPositions DEF Occurrences
    <3>3. i \in T
      OBVIOUS
    <3> HIDE DEF T
    <3>4. Cardinality(T) \in Nat /\ 1 =< Cardinality(T)
      <4>1. {i} \subseteq T /\ Cardinality({i}) = 1
        BY <3>3, FS_Singleton
      <4> QED
        BY <3>2, <4>1, SubPositions
    <3> QED
      BY <3>2, <3>4
  <2> HIDE DEF A, R, c, p, Net
  <2>7. CASE c >= p
    <3>1. Occurrences(curr, k, A) = c - p
      <4>1. c - p \in 0..c
        BY <2>1, <2>7
      <4>2. c - p \in 0..Occurrences(curr, k, 1..m)
        BY <4>1 DEF c
      <4> QED
        BY <2>2, <2>4, <4>2, LastKept, Zenon
    <3>2. Occurrences(prev, k, R) = 0
      <4>1. \A i \in 1..n : prev[i] = k =>
               (i \in R <=> Occurrences(prev, k, 1..i) =< 0)
        BY <2>1, <2>3, <2>6, <2>7
      <4>2. 0 \in 0..Occurrences(prev, k, 1..n)
        BY <2>1 DEF p
      <4> QED
        BY <1>2, <2>4, <4>1, <4>2, EarlyKept, Zenon
    <3> QED
      BY <2>1, <3>1, <3>2 DEF Net, c, p
  <2>8. CASE c < p
    <3>1. Occurrences(curr, k, A) = 0
      <4>1. \A j \in 1..m : curr[j] = k => (j \in A <=> Occurrences(curr, k, j..m) =< 0)
        BY <2>1, <2>2, <2>5, <2>8
      <4>2. 0 \in 0..Occurrences(curr, k, 1..m)
        BY <2>1 DEF c
      <4> QED
        BY <2>4, <4>1, <4>2, LastKept, Zenon
    <3>2. Occurrences(prev, k, R) = p - c
      <4>1. p - c \in 0..p
        BY <2>1, <2>8
      <4>2. p - c \in 0..Occurrences(prev, k, 1..n)
        BY <4>1 DEF p
      <4> QED
        BY <1>2, <2>3, <2>4, <4>2, EarlyKept, Zenon
    <3> QED
      BY <2>1, <3>1, <3>2 DEF Net, c, p
  <2> QED
    BY <2>1, <2>7, <2>8
<1> QED
  BY <1>1, <1>3 DEF Balanced, LeftOut

\* What is left after the cancelling is the surplus of each side.
LEMMA CancelExact ==
    ASSUME NEW prev, NEW curr, NEW n \in Nat, NEW m \in Nat, n = Len(prev), m = Len(curr),
           NEW d, Balanced(prev, curr, d, 1, 1)
    PROVE  LET e == CancelCommonKeys(d, prev, curr)
           IN  /\ e.added \subseteq 1..m /\ e.removed \subseteq 1..n
               /\ \A k : LET net == Occurrences(curr, k, 1..m) - Occurrences(prev, k, 1..n)
                         IN  /\ Occurrences(curr, k, e.added) = Surplus(net)
                             /\ Occurrences(prev, k, e.removed) = Surplus(-net)
<1> DEFINE Cancel(k) == Min2(Occurrences(curr, k, d.added), Occurrences(prev, k, d.removed))
           A == {i \in d.added : Occurrences(curr, curr[i], {x \in d.added : x =< i}) > Cancel(curr[i])}
           R == {i \in d.removed : Occurrences(prev, prev[i], {x \in d.removed : x =< i}) > Cancel(prev[i])}
<1>1. CancelCommonKeys(d, prev, curr) = LeftOut(A, R)
  BY DEF CancelCommonKeys
<1>2. d.added \subseteq 1..m /\ d.removed \subseteq 1..n
  BY DEF Balanced
<1>3. d.added \in Positions /\ d.removed \in Positions /\ 1..m \in Positions /\ 1..n \in Positions
  <2>1. 1..m \in Positions /\ 1..n \in Positions
    BY IntervalPositions
  <2> QED
    BY <1>2, <2>1, SubPositions
<1>4. A \subseteq d.added /\ R \subseteq d.removed
  OBVIOUS
<1>5. ASSUME NEW k
      PROVE  LET net == Occurrences(curr, k, 1..m) - Occurrences(prev, k, 1..n)
             IN  /\ Occurrences(curr, k, A) = Surplus(net)
                 /\ Occurrences(prev, k, R) = Surplus(-net)
  <2> DEFINE a == Occurrences(curr, k, d.added)
             b == Occurrences(prev, k, d.removed)
             c == Occurrences(curr, k, 1..m)
             p == Occurrences(prev, k, 1..n)
  <2>1. a \in Nat /\ b \in Nat /\ c \in Nat /\ p \in Nat
    BY <1>3, Counted
  <2>2. a - b = c - p
    BY DEF Balanced
  <2>3. Cancel(k) \in 0..a /\ Cancel(k) \in 0..b /\ (Cancel(k) = a \/ Cancel(k) = b)
    BY <2>1 DEF Min2
  <2>4. \A i \in d.added : curr[i] = k =>
           (i \in A <=> Occurrences(curr, k, {x \in d.added : x =< i}) > Cancel(k))
    OBVIOUS
  <2>5. \A i \in d.removed : prev[i] = k =>
           (i \in R <=> Occurrences(prev, k, {x \in d.removed : x =< i}) > Cancel(k))
    OBVIOUS
  <2> DEFINE r == Cancel(k)
  <2> HIDE DEF A, R, Cancel
  <2>6. Occurrences(curr, k, A) = a - r
    <3> HIDE DEF r
    <3> QED
      BY <1>3, <1>4, <2>3, <2>4, LateKept DEF r
  <2>7. Occurrences(prev, k, R) = b - r
    <3> HIDE DEF r
    <3> QED
      BY <1>3, <1>4, <2>3, <2>5, LateKept DEF r
  <2> HIDE DEF a, b, c, p, r
  <2>8. Occurrences(curr, k, A) = Surplus(c - p) /\ Occurrences(prev, k, R) = Surplus(-(c - p))
    BY <2>1, <2>2, <2>3, <2>6, <2>7 DEF Surplus, r
  <2> QED
    BY <2>8 DEF c, p
<1> HIDE DEF A, R
<1> QED
  BY <1>1, <1>2, <1>4, <1>5 DEF LeftOut

CountOf(bs, k) == Cardinality({i \in DOMAIN bs : bs[i].key = k})

LEMMA KeysFacts ==
    ASSUME NEW bs, IsSlice(bs)
    PROVE  /\ Len(Keys(bs)) = Len(bs) /\ DOMAIN Keys(bs) = 1..Len(bs)
           /\ \A i \in 1..Len(bs) : Keys(bs)[i] = bs[i].key
           /\ \A k : Occurrences(Keys(bs), k, 1..Len(bs)) = CountOf(bs, k)
<1>1. Len(bs) \in Nat /\ DOMAIN bs = 1..Len(bs)
  BY SliceFacts
<1>2. DOMAIN Keys(bs) = 1..Len(bs) /\ \A i \in 1..Len(bs) : Keys(bs)[i] = bs[i].key
  BY <1>1 DEF Keys
<1>3. Keys(bs) \in [1..Len(bs) -> {bs[i].key : i \in 1..Len(bs)}]
  BY <1>1 DEF Keys
<1>4. Len(Keys(bs)) = Len(bs)
  BY <1>1, <1>3
<1>5. ASSUME NEW k
      PROVE  Occurrences(Keys(bs), k, 1..Len(bs)) = CountOf(bs, k)
  <2>1. {i \in 1..Len(bs) : Keys(bs)[i] = k} = {i \in DOMAIN bs : bs[i].key = k}
    BY <1>1, <1>2
  <2> QED
    BY <2>1 DEF Occurrences, CountOf
<1> QED
  BY <1>2, <1>4, <1>5

LEMMA PickedKeys ==
    ASSUME NEW bs, IsSlice(bs), NEW S, S \subseteq DOMAIN bs, NEW k
    PROVE  CountOf(Pick(bs, S), k) = Occurrences(Keys(bs), k, S)
<1> DEFINE T == {i \in S : Keys(bs)[i] = k}
<1>1. S \in Positions /\ T \subseteq S
  BY PartOfSlice
<1>2. DOMAIN Pick(bs, S) = 1..Cardinality(S)
      /\ \A j \in 1..Cardinality(S) : Kth(S, j) \in S /\ Pick(bs, S)[j] = bs[Kth(S, j)]
  BY <1>1, PickFacts
<1>3. \A i \in S : Keys(bs)[i] = bs[i].key
  BY SliceFacts, KeysFacts
<1>4. {j \in DOMAIN Pick(bs, S) : Pick(bs, S)[j].key = k} = {j \in 1..Cardinality(S) : Kth(S, j) \in T}
  BY <1>2, <1>3
<1>5. Cardinality({j \in 1..Cardinality(S) : Kth(S, j) \in T}) = Cardinality(T)
  BY <1>1, PickCounts
<1> QED
  BY <1>4, <1>5 DEF CountOf, Occurrences

\* computeDiff reports each key as often as there is more of it on one side,
\* and no block that is not on the page: aligned by whatever table, or counted.
LEMMA DiffCounts ==
    ASSUME NEW prev, IsSlice(prev), NEW curr, IsSlice(curr)
    PROVE  LET d == ComputeDiff(prev, curr)
           IN  /\ \A k : /\ CountOf(d.added, k) = Surplus(CountOf(curr, k) - CountOf(prev, k))
                         /\ CountOf(d.removed, k) = Surplus(CountOf(prev, k) - CountOf(curr, k))
               /\ \A i \in DOMAIN curr :
                     (\A j \in DOMAIN prev : prev[j].key # curr[i].key) => curr[i] \in ToSet(d.added)
<1> DEFINE p == Keys(prev)
           c == Keys(curr)
           n == Len(prev)
           m == Len(curr)
           x == IF Len(p) > LcsBlockLimit \/ Len(c) > LcsBlockLimit
                THEN SetDiffIdx(p, c) ELSE LcsDiffIdx(p, c)
           e == CancelCommonKeys(x, p, c)
<1>1. ComputeDiff(prev, curr) = [added |-> Pick(curr, e.added), removed |-> Pick(prev, e.removed)]
  BY DEF ComputeDiff
<1>2. /\ n \in Nat /\ m \in Nat /\ n = Len(p) /\ m = Len(c)
      /\ DOMAIN prev = 1..n /\ DOMAIN curr = 1..m /\ DOMAIN p = 1..n /\ DOMAIN c = 1..m
  BY SliceFacts, KeysFacts
<1>3. Balanced(p, c, x, 1, 1)
  <2> HIDE DEF p, c, n, m
  <2>1. Balanced(p, c, SetDiffIdx(p, c), 1, 1)
    BY <1>2, SetBalanced
  <2>2. Balanced(p, c, LcsDiffIdx(p, c), 1, 1)
    BY <1>2, LcsBalanced
  <2> QED
    BY <2>1, <2>2
<1>4. /\ e.added \subseteq 1..m /\ e.removed \subseteq 1..n
      /\ \A k : /\ Occurrences(c, k, e.added) = Surplus(Occurrences(c, k, 1..m) - Occurrences(p, k, 1..n))
                /\ Occurrences(p, k, e.removed) = Surplus(-(Occurrences(c, k, 1..m) - Occurrences(p, k, 1..n)))
  <2> HIDE DEF p, c, n, m, x
  <2> QED
    BY <1>2, <1>3, CancelExact
<1> HIDE DEF e
<1>5. \A k : CountOf(curr, k) \in Nat /\ CountOf(prev, k) \in Nat
  <2> TAKE k
  <2>1. 1..m \in Positions /\ 1..n \in Positions
    BY <1>2, IntervalPositions
  <2>2. Occurrences(c, k, 1..m) \in Nat /\ Occurrences(p, k, 1..n) \in Nat
    BY <2>1, Counted
  <2> QED
    BY <2>2, KeysFacts
<1>6. ASSUME NEW k
      PROVE  /\ CountOf(Pick(curr, e.added), k) = Surplus(CountOf(curr, k) - CountOf(prev, k))
             /\ CountOf(Pick(prev, e.removed), k) = Surplus(CountOf(prev, k) - CountOf(curr, k))
  <2>1. /\ CountOf(Pick(curr, e.added), k) = Occurrences(c, k, e.added)
        /\ CountOf(Pick(prev, e.removed), k) = Occurrences(p, k, e.removed)
    BY <1>2, <1>4, PickedKeys
  <2>2. Occurrences(c, k, 1..m) = CountOf(curr, k) /\ Occurrences(p, k, 1..n) = CountOf(prev, k)
    BY KeysFacts
  <2>3. -(CountOf(curr, k) - CountOf(prev, k)) = CountOf(prev, k) - CountOf(curr, k)
    BY <1>5
  <2> HIDE DEF p, c, n, m
  <2> QED
    BY <1>4, <2>1, <2>2, <2>3
<1>7. ASSUME NEW i \in DOMAIN curr, \A j \in DOMAIN prev : prev[j].key # curr[i].key
      PROVE  curr[i] \in ToSet(Pick(curr, e.added))
  <2> DEFINE k == curr[i].key
             T == {y \in 1..m : c[y] = k}
             S == {y \in e.added : c[y] = k}
  <2>1. T \in Positions /\ S \subseteq T /\ i \in T
    <3>1. 1..m \in Positions /\ T \subseteq 1..m
      BY <1>2, IntervalPositions
    <3>2. T \in Positions
      BY <3>1, SubPositions
    <3>3. S \subseteq T
      BY <1>4
    <3>4. c[i] = k
      BY <1>2, KeysFacts
    <3> QED
      BY <1>2, <3>2, <3>3, <3>4
  <2>2. CountOf(prev, k) = 0
    <3>1. {j \in DOMAIN prev : prev[j].key = k} = {}
      BY <1>7
    <3> QED
      BY <3>1, FS_EmptySet DEF CountOf
  <2>3. Occurrences(c, k, 1..m) = CountOf(curr, k) /\ Occurrences(p, k, 1..n) = CountOf(prev, k)
    BY KeysFacts
  <2>4. Occurrences(c, k, e.added) = Occurrences(c, k, 1..m)
    <3> HIDE DEF k, p, c, n, m
    <3> QED
      BY <1>4, <1>5, <2>2, <2>3 DEF Surplus
  <2>5. Cardinality(S) = Cardinality(T)
    BY <2>4 DEF Occurrences
  <2> HIDE DEF S, T
  <2>6. i \in S
    BY <2>1, <2>5, SubPositions
  <2>7. i \in e.added /\ e.added \subseteq DOMAIN curr
    BY <1>2, <1>4, <2>6 DEF S
  <2> QED
    BY <2>7, PartOfSlice
<1> QED
  BY <1>1, <1>6, <1>7

-----------------------------------------------------------------------------
(* The page watch. *)

\* A block as it is compared.
Masked(h, ignore) == [key |-> ApplyIgnorePatterns(h, ignore), html |-> h]

LEMMA MaskFacts ==
    ASSUME NEW blocks, IsSlice(blocks), NEW ignore
    PROVE  /\ IsSlice(MaskAndFilter(blocks, ignore))
           /\ ToSet(MaskAndFilter(blocks, ignore)) =
                 {Masked(h, ignore) : h \in {x \in ToSet(blocks) : ApplyIgnorePatterns(x, ignore) # {}}}
<1> DEFINE keyed == [i \in DOMAIN blocks |-> Masked(blocks[i], ignore)]
           S == {i \in DOMAIN keyed : keyed[i].key # {}}
<1>1. MaskAndFilter(blocks, ignore) = Pick(keyed, S)
  BY DEF MaskAndFilter, Masked
<1>2. IsSlice(keyed)
  <2>1. Len(blocks) \in Nat /\ DOMAIN blocks = 1..Len(blocks)
    BY SliceFacts
  <2>2. keyed \in [1..Len(blocks) -> ToSet(keyed)]
    BY <2>1 DEF ToSet
  <2> QED
    BY <2>1, <2>2 DEF IsSlice
<1>3. S \subseteq DOMAIN keyed
  OBVIOUS
<1>4. {keyed[i] : i \in S} =
         {Masked(h, ignore) : h \in {x \in ToSet(blocks) : ApplyIgnorePatterns(x, ignore) # {}}}
  <2>1. \A i \in DOMAIN blocks : keyed[i] = Masked(blocks[i], ignore)
                                 /\ keyed[i].key = ApplyIgnorePatterns(blocks[i], ignore)
    BY DEF Masked
  <2> HIDE DEF keyed
  <2>2. DOMAIN keyed = DOMAIN blocks
    BY DEF keyed
  <2> QED
    BY <2>1, <2>2 DEF ToSet
<1> HIDE DEF keyed, S
<1>5. IsSlice(Pick(keyed, S)) /\ ToSet(Pick(keyed, S)) = {keyed[i] : i \in S}
  BY <1>2, <1>3, PartOfSlice
<1> QED
  BY <1>1, <1>4, <1>5

\* The blocks of a page that are compared.
LEMMA ComparableFacts ==
    ASSUME NEW cfg, NEW p, IsSlice(p), MaxBlocks \in Nat
    PROVE  /\ IsSlice(Comparable(cfg, p))
           /\ \A b \in ToSet(Comparable(cfg, p)) : \E h \in Blocks(p) : b = Masked(h, cfg.ignore)
           /\ \A h \in Blocks(p) :
                 \/ h \ cfg.ignore = {}
                 \/ h \in ToSet(SubSeq(p, MaxBlocks + 1, Len(p)))
                 \/ Masked(h, cfg.ignore) \in ToSet(Comparable(cfg, p))
<1> DEFINE S == {i \in DOMAIN p : i =< MaxBlocks}
           first == First(p, MaxBlocks)
<1>1. IsSlice(first) /\ ToSet(first) = {p[i] : i \in S} /\ ToSet(first) \subseteq Blocks(p)
  <2>1. S \subseteq DOMAIN p
    OBVIOUS
  <2> HIDE DEF S
  <2>2. /\ IsSlice(Pick(p, S)) /\ ToSet(Pick(p, S)) = {p[i] : i \in S}
        /\ ToSet(Pick(p, S)) \subseteq ToSet(p)
    BY <2>1, PartOfSlice
  <2> QED
    BY <2>2 DEF First, S, Blocks
<1>2. \A h \in Blocks(p) : h \in ToSet(first) \/ h \in ToSet(SubSeq(p, MaxBlocks + 1, Len(p)))
  <2> SUFFICES ASSUME NEW h \in Blocks(p), h \notin ToSet(first)
               PROVE  h \in ToSet(SubSeq(p, MaxBlocks + 1, Len(p)))
    OBVIOUS
  <2> HIDE DEF first
  <2>1. PICK i \in DOMAIN p : p[i] = h
    BY SliceFacts DEF Blocks
  <2>2. i \in 1..Len(p) /\ Len(p) \in Nat /\ ~(i =< MaxBlocks)
    BY <1>1, <2>1, SliceFacts
  <2> DEFINE rest == SubSeq(p, MaxBlocks + 1, Len(p))
  <2>3. i - MaxBlocks \in DOMAIN rest /\ rest[i - MaxBlocks] = h
    BY <2>1, <2>2 DEF IsSlice
  <2> HIDE DEF rest
  <2> QED
    BY <2>3 DEF ToSet, rest
<1> HIDE DEF first
<1>3. Comparable(cfg, p) = MaskAndFilter(first, cfg.ignore)
  BY DEF Comparable, first
<1>4. /\ IsSlice(Comparable(cfg, p))
      /\ ToSet(Comparable(cfg, p)) =
            {Masked(h, cfg.ignore) : h \in {x \in ToSet(first) : x \ cfg.ignore # {}}}
  BY <1>1, <1>3, MaskFacts DEF ApplyIgnorePatterns
<1> QED
  BY <1>1, <1>2, <1>4

LEMMA PrevFacts ==
    ASSUME NEW cfg, NEW stored, IsSlice(stored.blocks)
    PROVE  IsSlice(PrevBlocks(cfg, stored))
<1> DEFINE htmls == [i \in DOMAIN stored.blocks |-> stored.blocks[i].html]
           n == Len(stored.blocks)
<1>1. n \in Nat /\ DOMAIN stored.blocks = 1..n
  BY SliceFacts
<1>2. htmls \in [1..n -> ToSet(htmls)]
  BY <1>1 DEF ToSet
<1> HIDE DEF htmls, n
<1>3. IsSlice(htmls)
  BY <1>1, <1>2 DEF IsSlice
<1>4. IsSlice(MaskAndFilter(htmls, cfg.ignore))
  BY <1>3, MaskFacts
<1> QED
  BY <1>4 DEF PrevBlocks, RecomputeStateBlocks, htmls

\* The state that is stored keeps the keys.
LEMMA MarshalFacts ==
    ASSUME NEW ignore, NEW blocks, IsSlice(blocks)
    PROVE  LET state == MarshalState(ignore, blocks)
           IN  /\ state.ignore = ignore /\ IsSlice(state.blocks)
               /\ \A b \in ToSet(state.blocks) : \E a \in ToSet(blocks) : b.key = a.key
<1> DEFINE bare == [i \in DOMAIN blocks |-> [key |-> blocks[i].key, html |-> NoHTML]]
           n == Len(blocks)
<1>1. n \in Nat /\ DOMAIN blocks = 1..n /\ \A i \in DOMAIN blocks : blocks[i] \in ToSet(blocks)
  BY SliceFacts
<1>2. bare \in [1..n -> ToSet(bare)]
  BY <1>1 DEF ToSet
<1>3. IsSlice(bare)
  BY <1>1, <1>2 DEF IsSlice
<1>4. \A b \in ToSet(bare) : \E a \in ToSet(blocks) : b.key = a.key
  BY <1>1 DEF ToSet
<1> HIDE DEF bare
<1>5. MarshalState(ignore, blocks) =
         [ignore |-> ignore, blocks |-> IF Len(blocks) =< MaxStateBlocks THEN blocks ELSE bare]
  BY DEF MarshalState, bare
<1> QED
  BY <1>3, <1>4, <1>5

-----------------------------------------------------------------------------

\* The differences are exact whatever the stored state holds, as long as it is
\* one that can be compared (computeDiff).
WatchShape == kind = "pagewatch" /\ source # NoSource /\ Diffable(source.config, source.state)
                 => IsSlice(source.state.blocks)

LEMMA ReverseSlice ==
    ASSUME NEW p, IsSlice(p)
    PROVE  IsSlice(Reverse(p))
<1> DEFINE n == Len(p)
<1>1. n \in Nat /\ DOMAIN p = 1..n
  BY SliceFacts
<1>2. Reverse(p) \in [1..n -> ToSet(Reverse(p))]
  BY <1>1 DEF Reverse, ToSet
<1> HIDE DEF n
<1> QED
  BY <1>1, <1>2 DEF IsSlice

LEMMA WatchShapeExact == ScrapeAssumption /\ WatchShape => DiffExact
<1> SUFFICES ASSUME ScrapeAssumption, WatchShape,
                    kind = "pagewatch", source # NoSource, Diffable(source.config, source.state),
                    NEW p \in WatchPages \cup {Reverse(q) : q \in WatchPages}
             PROVE  LET prev == PrevBlocks(source.config, source.state)
                        curr == Comparable(source.config, p)
                        d == ComputeDiff(prev, curr)
                    IN  \A k : /\ CountOf(d.added, k) = Surplus(CountOf(curr, k) - CountOf(prev, k))
                               /\ CountOf(d.removed, k) = Surplus(CountOf(prev, k) - CountOf(curr, k))
  BY DEF DiffExact, CountOf, Surplus
<1>1. IsSlice(p)
  BY ReverseSlice DEF ScrapeAssumption, IsSlice
<1>2. IsSlice(Comparable(source.config, p))
  BY <1>1, ComparableFacts DEF ScrapeAssumption
<1>3. IsSlice(PrevBlocks(source.config, source.state))
  BY PrevFacts DEF WatchShape
<1> QED
  BY <1>2, <1>3, DiffCounts

\* What an extraction leaves unsaid it passes over, and the state it returns is
\* the one of the page.
LEMMA ExtractFacts ==
    ASSUME kind = "pagewatch", MaxBlocks \in Nat,
           NEW cfg, NEW stored, NEW p, IsSlice(p),
           Diffable(cfg, stored) => IsSlice(stored.blocks),
           Keep # MarshalState(cfg.ignore, Comparable(cfg, p))
    PROVE  LET out == Extract(cfg, stored, p)
           IN  /\ Blocks(p) \subseteq Shown(out.items) \cup WatchQuiet(cfg, stored, p, out)
               /\ out.state \in {Keep, MarshalState(cfg.ignore, Comparable(cfg, p))}
<1> DEFINE curr == Comparable(cfg, p)
           state == MarshalState(cfg.ignore, curr)
           prev == PrevBlocks(cfg, stored)
           d == ComputeDiff(prev, curr)
           gone == IF cfg.additionsOnly THEN <<>> ELSE d.removed
           out == Extract(cfg, stored, p)
           Left == {h \in Blocks(p) : h \ cfg.ignore = {} \/ h \ cfg.ignore \in KeysOf(prev)}
                      \cup ToSet(SubSeq(p, MaxBlocks + 1, Len(p)))
<1>1. CASE stored = Absent
  <2>1. out.state = state
    BY <1>1 DEF Extract
  <2>2. WatchQuiet(cfg, stored, p, out) = Blocks(p)
    BY <1>1 DEF WatchQuiet
  <2> HIDE DEF out, state
  <2> QED
    BY <2>1, <2>2 DEF out, state
<1>2. CASE stored # Absent /\ ~Diffable(cfg, stored)
  <2>1. out.state = state
    BY <1>2 DEF Extract
  <2>2. WatchQuiet(cfg, stored, p, out) = Blocks(p)
    BY <1>2 DEF WatchQuiet
  <2> HIDE DEF out, state
  <2> QED
    BY <2>1, <2>2 DEF out, state
<1>3. CASE stored # Absent /\ Diffable(cfg, stored)
  <2>0. (out.items = <<>> /\ out.state # Keep) \/ WatchQuiet(cfg, stored, p, out) = Left
    BY <1>3 DEF WatchQuiet
  <2>1. IsSlice(prev) /\ IsSlice(curr)
    BY <1>3, PrevFacts, ComparableFacts
  <2>2. \/ Keys(prev) = Keys(curr) /\ out = [items |-> <<>>, state |-> Keep]
        \/ out = [items |-> <<>>, state |-> state]
        \/ out = [items |-> <<Item(d.added, gone)>>, state |-> state]
    <3> HIDE DEF curr, state, prev, d
    <3> QED
      BY <1>3 DEF Extract, curr, state, prev, d
  <2> HIDE DEF out, state
  <2>3. CASE out = [items |-> <<>>, state |-> state]
    <3>1. out.items = <<>> /\ out.state = state /\ out.state # Keep
      BY <2>3 DEF state
    <3>2. WatchQuiet(cfg, stored, p, out) = Blocks(p)
      BY <3>1 DEF WatchQuiet
    <3> QED
      BY <3>1, <3>2 DEF out, state
  <2>4. CASE Keys(prev) = Keys(curr) /\ out = [items |-> <<>>, state |-> Keep]
    <3>1. out.state = Keep
      BY <2>4
    <3>2. WatchQuiet(cfg, stored, p, out) = Left
      BY <2>0, <3>1
    <3>3. ASSUME NEW b \in ToSet(curr)
          PROVE  b.key \in KeysOf(prev)
      <4> HIDE DEF curr, prev
      <4>1. PICK i \in 1..Len(curr) : curr[i] = b
        BY <2>1, SliceFacts
      <4>2. i \in 1..Len(prev) /\ prev[i].key = b.key
        BY <2>1, <2>4, <4>1, KeysFacts
      <4>3. prev[i] \in ToSet(prev)
        BY <2>1, <4>2, SliceFacts
      <4> QED
        BY <4>2, <4>3 DEF KeysOf
    <3>4. Blocks(p) \subseteq Left
      <4> SUFFICES ASSUME NEW h \in Blocks(p), Masked(h, cfg.ignore) \in ToSet(curr)
                   PROVE  h \ cfg.ignore \in KeysOf(prev)
        BY ComparableFacts
      <4> QED
        BY <3>3 DEF Masked, ApplyIgnorePatterns
    <3> QED
      BY <3>1, <3>2, <3>4 DEF out
  <2>5. CASE out = [items |-> <<Item(d.added, gone)>>, state |-> state]
    <3>1. out.state = state /\ out.items = <<Item(d.added, gone)>> /\ out.items # <<>>
      BY <2>5
    <3>2. WatchQuiet(cfg, stored, p, out) = Left
      BY <2>0, <3>1
    <3>3. \A b \in ToSet(d.added) : b.html \in Shown(out.items)
      <4> HIDE DEF d, gone
      <4>1. Item(d.added, gone) \in ToSet(out.items) /\ Item(d.added, gone).added = d.added
        BY <3>1 DEF ToSet, Item
      <4> QED
        BY <4>1 DEF Shown
    <3>4. ASSUME NEW b \in ToSet(curr), b.key \notin KeysOf(prev)
          PROVE  b \in ToSet(d.added)
      <4> HIDE DEF curr, prev
      <4>1. PICK i \in DOMAIN curr : curr[i] = b
        BY <2>1, SliceFacts
      <4>2. \A j \in DOMAIN prev : prev[j].key # curr[i].key
        BY <2>1, <3>4, <4>1, SliceFacts DEF KeysOf
      <4> QED
        BY <2>1, <4>1, <4>2, DiffCounts
    <3>5. Blocks(p) \subseteq Shown(out.items) \cup Left
      <4> SUFFICES ASSUME NEW h \in Blocks(p), Masked(h, cfg.ignore) \in ToSet(curr),
                          h \ cfg.ignore \notin KeysOf(prev)
                   PROVE  h \in Shown(out.items)
        BY ComparableFacts
      <4>1. Masked(h, cfg.ignore).key = h \ cfg.ignore /\ Masked(h, cfg.ignore).html = h
        BY DEF Masked, ApplyIgnorePatterns
      <4> HIDE DEF d, curr, prev
      <4> QED
        BY <3>3, <3>4, <4>1
    <3> QED
      BY <3>1, <3>2, <3>5 DEF out, state
  <2> QED
    BY <2>2, <2>3, <2>4, <2>5
<1> HIDE DEF out, state, prev, d
<1> QED
  BY <1>1, <1>2, <1>3 DEF Diffable, out, state

-----------------------------------------------------------------------------
(* The list of articles. *)

LEMMA ConcatFacts ==
    ASSUME NEW s, IsSlice(s), NEW t, IsSlice(t)
    PROVE  IsSlice(s \o t) /\ ToSet(s \o t) = ToSet(s) \cup ToSet(t)
<1> DEFINE a == Len(s)
           b == Len(t)
           u == s \o t
<1>1. a \in Nat /\ DOMAIN s = 1..a /\ b \in Nat /\ DOMAIN t = 1..b
  BY SliceFacts
<1>2. s \in Seq(ToSet(s) \cup ToSet(t)) /\ t \in Seq(ToSet(s) \cup ToSet(t))
  BY <1>1, SliceFacts DEF IsSlice
<1>3. u \in Seq(ToSet(s) \cup ToSet(t)) /\ Len(u) = a + b
  BY <1>2
<1>4. DOMAIN u = 1..(a + b)
  BY <1>3
<1>5. \A i \in 1..(a + b) : u[i] = IF i =< a THEN s[i] ELSE t[i - a]
  BY <1>2
<1> HIDE DEF u
<1>6. ToSet(s) \cup ToSet(t) \subseteq ToSet(u)
  <2>1. ASSUME NEW x \in ToSet(s)
        PROVE  x \in ToSet(u)
    <3>1. PICK i \in 1..a : s[i] = x
      BY <1>1, <2>1, SliceFacts
    <3>2. i \in 1..(a + b) /\ u[i] = x
      BY <1>1, <1>5, <3>1
    <3> QED
      BY <1>4, <3>2 DEF ToSet
  <2>2. ASSUME NEW x \in ToSet(t)
        PROVE  x \in ToSet(u)
    <3>1. PICK i \in 1..b : t[i] = x
      BY <1>1, <2>2, SliceFacts
    <3>2. a + i \in 1..(a + b) /\ ~(a + i =< a) /\ a + i - a = i
      BY <1>1
    <3>3. u[a + i] = x
      BY <1>5, <3>1, <3>2
    <3> QED
      BY <1>4, <3>2, <3>3 DEF ToSet
  <2> QED
    BY <2>1, <2>2
<1>7. ToSet(u) \subseteq ToSet(s) \cup ToSet(t)
  BY <1>3, <1>4 DEF ToSet
<1>8. u \in [1..(a + b) -> ToSet(u)]
  <2>1. u \in [1..(a + b) -> ToSet(s) \cup ToSet(t)]
    BY <1>3, <1>4
  <2> QED
    BY <1>4, <2>1 DEF ToSet
<1>9. IsSlice(u)
  <2>1. a + b \in Nat
    BY <1>1
  <2> HIDE DEF a, b
  <2> QED
    BY <1>8, <2>1 DEF IsSlice
<1> QED
  BY <1>6, <1>7, <1>9 DEF u

LEMMA CandidatesFacts ==
    ASSUME NEW cfg, NEW page0, IsSlice(page0), MaxCandidates \in Nat
    PROVE  LET cs == ExtractCandidates(cfg, page0)
           IN  IsSlice(cs) /\ Distinct(cs) /\ Len(cs) =< MaxCandidates
<1> DEFINE items == First(page0, MaxCandidates)
           S == {i \in DOMAIN items : Usable(cfg, items[i])}
<1>1. IsSlice(items) /\ Len(items) =< MaxCandidates /\ Len(items) \in Nat
  BY FirstFacts
<1>2. S \subseteq DOMAIN items
  OBVIOUS
<1> HIDE DEF items, S
<1> DEFINE usable == Pick(items, S)
<1>3. IsSlice(usable) /\ Len(usable) =< Len(items)
  BY <1>1, <1>2, PartOfSlice
<1> HIDE DEF usable
<1>4. IsSlice(Once(usable)) /\ Distinct(Once(usable)) /\ Len(Once(usable)) =< Len(usable)
  BY <1>3, OnceFacts
<1>5. Len(usable) \in Nat /\ Len(Once(usable)) \in Nat
  BY <1>3, <1>4, SliceFacts
<1>6. Len(Once(usable)) =< MaxCandidates
  BY <1>1, <1>3, <1>4, <1>5
<1> QED
  BY <1>4, <1>6 DEF ExtractCandidates, items, S, usable

\* The eviction keeps to the cap, and to links that were there (rule 5).
LEMMA EvictedFacts ==
    ASSUME NEW order, IsSlice(order), Distinct(order), MaxSeen \in Nat,
           NEW C, IsFiniteSet(C), Cardinality(C) =< MaxSeen
    PROVE  /\ IsSlice(Evicted(order, C)) /\ Distinct(Evicted(order, C))
           /\ ToSet(Evicted(order, C)) \subseteq ToSet(order)
           /\ Len(Evicted(order, C)) =< MaxSeen
<1> DEFINE old(i) == {j \in 1..i : order[j] \notin C}
           goes(i) == order[i] \notin C /\ Cardinality(old(i)) =< Len(order) - MaxSeen
           Stays == {i \in DOMAIN order : ~goes(i)}
           N == {i \in DOMAIN order : order[i] \notin C}
           M == {i \in DOMAIN order : order[i] \in C}
           n == Len(order)
           over == n - MaxSeen
           Gone == {i \in N : Rank(N, i) =< over}
<1>1. n \in Nat /\ DOMAIN order = 1..n /\ DOMAIN order \in Positions /\ Cardinality(DOMAIN order) = n
  BY SliceFacts, IntervalLength
<1>2. /\ N \in Positions /\ M \in Positions /\ Cardinality(N) \in Nat /\ Cardinality(M) \in Nat
  <2>1. N \subseteq DOMAIN order /\ M \subseteq DOMAIN order
    OBVIOUS
  <2> HIDE DEF N, M
  <2> QED
    BY <1>1, <2>1, SubPositions
<1>3. Cardinality(M) =< Cardinality(C) /\ Cardinality(C) \in Nat
  <2> DEFINE f == [i \in M |-> order[i]]
             D == {order[i] : i \in M}
  <2>1. f \in [M -> D] /\ (\A b \in D : \E a \in M : f[a] = b)
    OBVIOUS
  <2>2. \A x, y \in M : f[x] = f[y] => x = y
    BY DEF Distinct
  <2>3. IsFiniteSet(M)
    BY <1>2 DEF Positions
  <2>4. D \in SUBSET C
    OBVIOUS
  <2> HIDE DEF M, f, D
  <2>5. Cardinality(D) = Cardinality(M)
    BY <2>1, <2>2, <2>3, OneToOne
  <2>6. Cardinality(D) =< Cardinality(C)
    BY <2>4, FS_Subset
  <2> QED
    BY <2>5, <2>6, FS_CardinalityType
<1>4. Cardinality(N) = n - Cardinality(M)
  <2>1. IsFiniteSet(DOMAIN order)
    BY <1>1 DEF Positions
  <2>2. Cardinality(DOMAIN order \ M) = Cardinality(DOMAIN order) - Cardinality(DOMAIN order \cap M)
    BY <2>1, FS_Difference
  <2>3. DOMAIN order \ M = N /\ DOMAIN order \cap M = M
    OBVIOUS
  <2> QED
    BY <1>1, <2>2, <2>3
<1>5. Stays = DOMAIN order \ Gone /\ Gone \subseteq DOMAIN order
  <2>1. \A i \in N : old(i) = {j \in N : j =< i}
    BY <1>1
  <2>2. \A i \in N : Cardinality(old(i)) = Rank(N, i)
    BY <2>1 DEF Rank
  <2>3. \A i \in DOMAIN order : goes(i) <=> i \in Gone
    BY <2>2
  <2> HIDE DEF goes
  <2> QED
    BY <2>3
<1> HIDE DEF Stays, N, M, Gone
<1>6. Cardinality(Stays) =< MaxSeen
  <2>1. Cardinality(Stays) = n - Cardinality(Gone) /\ Cardinality(Gone) \in Nat
    <3>1. IsFiniteSet(DOMAIN order)
      BY <1>1 DEF Positions
    <3>2. Cardinality(DOMAIN order \ Gone) = Cardinality(DOMAIN order) - Cardinality(DOMAIN order \cap Gone)
      BY <3>1, FS_Difference
    <3>3. DOMAIN order \cap Gone = Gone
      BY <1>5
    <3> QED
      BY <1>1, <1>5, <3>2, <3>3, SubPositions
  <2>2. CASE over < 0
    BY <1>1, <2>1, <2>2
  <2>3. CASE over >= 0
    <3>1. over \in 0..Cardinality(N)
      BY <1>1, <1>2, <1>3, <1>4, <2>3
    <3>2. Cardinality(Gone) = over
      BY <1>2, <3>1, InitialSegment DEF Gone
    <3> QED
      BY <1>1, <2>1, <3>2
  <2> QED
    BY <1>1, <2>2, <2>3
<1>7. Stays \subseteq DOMAIN order
  BY <1>5
<1>8. Evicted(order, C) = Pick(order, Stays)
  BY DEF Evicted, Stays
<1> QED
  BY <1>6, <1>7, <1>8, PartOfSlice

\* What a memory of links has to be, when the links in K have been dealt with.
ListFits(K, st) ==
    /\ IsSlice(st.seen) /\ Distinct(st.seen) /\ Len(st.seen) =< MaxSeen
    /\ ToSet(st.seen) \subseteq K
    /\ \A u \in DOMAIN st.pending :
          u \notin ToSet(st.seen) /\ st.pending[u] \in 1..(MaxArticleRetries - 1)

ListLimits == MaxCandidates \in Nat /\ MaxSeen \in Nat /\ MaxCandidates =< MaxSeen
              /\ MaxArticleRetries \in Nat \ {0}

LEMMA NewCandidatesFacts ==
    ASSUME NEW cfg, NEW stored, NEW page0, IsSlice(page0), ListLimits
    PROVE  LET cs == NewCandidates(cfg, stored, page0)
               todo == ToProcess(cfg, stored, page0)
           IN  /\ IsSlice(cs) /\ IsFiniteSet(ToSet(cs)) /\ Cardinality(ToSet(cs)) =< MaxSeen
               /\ ToSet(cs) \cap ToSet(PrevState(stored).seen) = {}
               /\ IsSlice(todo) /\ ToSet(todo) \subseteq ToSet(cs)
<1> DEFINE all == ExtractCandidates(cfg, page0)
           gone == ToSet(PrevState(stored).seen)
           cs == NewCandidates(cfg, stored, page0)
           todo == ToProcess(cfg, stored, page0)
<1>1. IsSlice(all) /\ Distinct(all) /\ Len(all) =< MaxCandidates /\ Len(all) \in Nat
  BY CandidatesFacts, SliceFacts DEF ListLimits
<1>2. cs = Without(all, gone)
  BY DEF NewCandidates
<1> HIDE DEF all, gone, cs
<1>3. /\ IsSlice(cs) /\ Distinct(cs) /\ Len(cs) =< Len(all) /\ ToSet(cs) = ToSet(all) \ gone
  BY <1>1, <1>2, WithoutFacts
<1>4. Len(cs) \in Nat /\ IsFiniteSet(ToSet(cs)) /\ Cardinality(ToSet(cs)) = Len(cs)
  BY <1>3, DistinctLength, SliceFacts
<1>5. Cardinality(ToSet(cs)) =< MaxSeen
  BY <1>1, <1>3, <1>4 DEF ListLimits
<1>6. IsSlice(todo) /\ ToSet(todo) \subseteq ToSet(cs)
  <2> DEFINE S == {i \in DOMAIN cs : i =< cfg.maxItems}
  <2>1. S \subseteq DOMAIN cs
    OBVIOUS
  <2>2. todo = Pick(cs, S)
    BY DEF ToProcess, First, cs
  <2> HIDE DEF S
  <2> QED
    BY <1>3, <2>1, <2>2, PartOfSlice
<1> QED
  BY <1>3, <1>4, <1>5, <1>6 DEF cs, gone

\* A commit leaves a sound memory of what has been dealt with (CommitState).
LEMMA CommitFits ==
    ASSUME NEW K, NEW cfg, NEW stored, NEW page0, IsSlice(page0), NEW failed, ListLimits,
           stored = Absent \/ (stored \notin {Absent, Unreadable} /\ ListFits(K, stored))
    PROVE  LET candidates == NewCandidates(cfg, stored, page0)
               todo == ToProcess(cfg, stored, page0)
               fetchFailed == {u \in ToSet(todo) : Retried(cfg, stored, u, failed)}
               imported == Without(todo, fetchFailed)
               state == CommitState(stored, candidates, imported, fetchFailed, stored = Absent)
           IN  ListFits(K \cup ToSet(imported) \cup (IF stored = Absent THEN ToSet(state.seen) ELSE {}),
                        state)
<1> DEFINE prev == PrevState(stored)
           candidates == NewCandidates(cfg, stored, page0)
           todo == ToProcess(cfg, stored, page0)
           fetchFailed == {u \in ToSet(todo) : Retried(cfg, stored, u, failed)}
           imported == Without(todo, fetchFailed)
           sealed0 == IF stored = Absent THEN Without(candidates, fetchFailed) ELSE <<>>
           order == Once(prev.seen \o imported \o sealed0)
           waiting == ((DOMAIN prev.pending \cap ToSet(candidates)) \ ToSet(imported)) \cup fetchFailed
           C == ToSet(candidates)
           seen == Evicted(order, C)
           state == CommitState(stored, candidates, imported, fetchFailed, stored = Absent)
<1>1. /\ state = State(seen, [u \in waiting |->
                   Failures(stored, u) + (IF u \in fetchFailed THEN 1 ELSE 0)])
  BY DEF CommitState
<1>2. /\ IsSlice(prev.seen)
      /\ stored = Absent => ToSet(prev.seen) = {} /\ DOMAIN prev.pending = {}
      /\ stored # Absent => /\ prev = stored /\ ToSet(prev.seen) \subseteq K
                            /\ \A u \in DOMAIN prev.pending : prev.pending[u] \in 1..(MaxArticleRetries - 1)
  <2>1. CASE stored = Absent
    <3>1. prev = State(<<>>, NoPending)
      BY <2>1 DEF PrevState
    <3>2. prev.seen = <<>> /\ prev.pending = NoPending
      BY <3>1 DEF State
    <3>3. ToSet(<<>>) = {} /\ IsSlice(<<>>) /\ DOMAIN NoPending = {}
      BY DEF ToSet, IsSlice, NoPending
    <3> QED
      BY <2>1, <3>2, <3>3
  <2>2. CASE stored # Absent
    BY <2>2 DEF PrevState, ListFits
  <2> QED
    BY <2>1, <2>2
<1>3. /\ IsSlice(candidates) /\ IsFiniteSet(C) /\ Cardinality(C) =< MaxSeen
      /\ C \cap ToSet(prev.seen) = {} /\ IsSlice(todo) /\ ToSet(todo) \subseteq C
  BY NewCandidatesFacts
<1>4. \A u \in fetchFailed : u \in ToSet(todo) /\ ~GiveUp(Failures(stored, u))
  BY DEF Retried
<1> HIDE DEF prev, candidates, todo, fetchFailed, state
<1>5. IsSlice(imported) /\ ToSet(imported) = ToSet(todo) \ fetchFailed
  BY <1>3, WithoutFacts
<1>6. /\ IsSlice(sealed0) /\ ToSet(sealed0) \cap fetchFailed = {}
      /\ stored # Absent => ToSet(sealed0) = {}
  <2>1. IsSlice(<<>>) /\ ToSet(<<>>) = {}
    BY DEF IsSlice, ToSet
  <2>2. /\ IsSlice(Without(candidates, fetchFailed))
        /\ ToSet(Without(candidates, fetchFailed)) = C \ fetchFailed
    BY <1>3, WithoutFacts
  <2> QED
    BY <2>1, <2>2
<1> HIDE DEF imported, sealed0, C
<1>7. /\ IsSlice(order) /\ Distinct(order)
      /\ ToSet(order) = ToSet(prev.seen) \cup ToSet(imported) \cup ToSet(sealed0)
  <2> DEFINE one == prev.seen \o imported
  <2>1. IsSlice(one) /\ ToSet(one) = ToSet(prev.seen) \cup ToSet(imported)
    BY <1>2, <1>5, ConcatFacts
  <2> HIDE DEF one
  <2> DEFINE two == one \o sealed0
  <2>2. IsSlice(two) /\ ToSet(two) = ToSet(one) \cup ToSet(sealed0)
    BY <1>6, <2>1, ConcatFacts
  <2>3. order = Once(two)
    BY DEF one
  <2> HIDE DEF order, two
  <2> QED
    BY <2>1, <2>2, <2>3, OnceFacts
<1> HIDE DEF order
<1>8. IsSlice(seen) /\ Distinct(seen) /\ ToSet(seen) \subseteq ToSet(order) /\ Len(seen) =< MaxSeen
  BY <1>3, <1>7, EvictedFacts DEF ListLimits
<1> HIDE DEF seen
<1>9. ASSUME NEW u \in waiting
      PROVE  u \notin ToSet(seen)
  <2>1. CASE u \in fetchFailed
    <3>1. u \in C /\ u \notin ToSet(imported)
      BY <1>3, <1>4, <1>5, <2>1
    <3> QED
      BY <1>3, <1>6, <1>7, <1>8, <2>1, <3>1
  <2>2. CASE u \notin fetchFailed
    <3>1. u \in DOMAIN prev.pending /\ u \in C /\ u \notin ToSet(imported)
      BY <2>2 DEF C
    <3>2. stored # Absent
      BY <1>2, <3>1
    <3> QED
      BY <1>3, <1>6, <1>7, <1>8, <3>1, <3>2
  <2> QED
    BY <2>1, <2>2
<1>10. ASSUME NEW u \in waiting
       PROVE  Failures(stored, u) + (IF u \in fetchFailed THEN 1 ELSE 0) \in 1..(MaxArticleRetries - 1)
  <2>1. \/ u \in DOMAIN prev.pending /\ Failures(stored, u) = prev.pending[u]
        \/ u \notin DOMAIN prev.pending /\ Failures(stored, u) = 0
    BY DEF Failures, prev
  <2>2. u \in DOMAIN prev.pending => prev.pending[u] \in 1..(MaxArticleRetries - 1)
    BY <1>2
  <2> DEFINE f == Failures(stored, u)
  <2>3. f \in Nat /\ (u \in DOMAIN prev.pending => f \in 1..(MaxArticleRetries - 1))
    BY <2>1, <2>2 DEF ListLimits
  <2>4. CASE u \in fetchFailed
    <3>1. ~(f + 1 >= MaxArticleRetries)
      BY <1>4, <2>4 DEF GiveUp
    <3> HIDE DEF f
    <3>2. f + 1 \in 1..(MaxArticleRetries - 1)
      BY <2>3, <3>1 DEF ListLimits
    <3> QED
      BY <2>4, <3>2 DEF f
  <2>5. CASE u \notin fetchFailed
    <3>1. u \in DOMAIN prev.pending
      BY <2>5
    <3> HIDE DEF f
    <3>2. f + 0 \in 1..(MaxArticleRetries - 1)
      BY <2>3, <3>1 DEF ListLimits
    <3> QED
      BY <2>5, <3>2 DEF f
  <2> QED
    BY <2>4, <2>5
<1>11. ToSet(seen) \subseteq K \cup ToSet(imported) \cup (IF stored = Absent THEN ToSet(seen) ELSE {})
  BY <1>2, <1>6, <1>7, <1>8
<1> HIDE DEF waiting
<1>12. /\ state.seen = seen /\ DOMAIN state.pending = waiting
       /\ \A u \in waiting : state.pending[u] = Failures(stored, u) + (IF u \in fetchFailed THEN 1 ELSE 0)
  BY <1>1 DEF State
<1>13. ListFits(K \cup ToSet(imported) \cup (IF stored = Absent THEN ToSet(state.seen) ELSE {}), state)
  BY <1>8, <1>9, <1>10, <1>11, <1>12 DEF ListFits
<1> QED
  BY <1>13 DEF state, imported, fetchFailed, todo, candidates

\* An extraction returns such a memory, or none.
LEMMA ListExtractFits ==
    ASSUME NEW K, NEW cfg, NEW stored, NEW page0, IsSlice(page0), NEW failed, ListLimits,
           stored \notin {Absent, Unreadable} => ListFits(K, stored)
    PROVE  LET out == ExtractSelectorPage(cfg, stored, page0, failed)
           IN  \/ out.state = Keep
               \/ ListFits(K \cup ToSet(out.items) \cup ListQuiet(stored, out), out.state)
<1> DEFINE out == ExtractSelectorPage(cfg, stored, page0, failed)
           candidates == NewCandidates(cfg, stored, page0)
           todo == ToProcess(cfg, stored, page0)
           fetchFailed == {u \in ToSet(todo) : Retried(cfg, stored, u, failed)}
           imported == Without(todo, fetchFailed)
           state == CommitState(stored, candidates, imported, fetchFailed, stored = Absent)
<1>1. CASE out.state = Keep
  BY <1>1
<1>2. CASE out.state # Keep /\ stored = Unreadable
  <2> DEFINE all == ExtractCandidates(cfg, page0)
             seen == First(all, MaxSeen)
  <2>1. IsSlice(all) /\ Distinct(all)
    BY CandidatesFacts DEF ListLimits
  <2>2. out.items = <<>> /\ out.state = State(seen, NoPending)
    BY <1>2 DEF ExtractSelectorPage
  <2> HIDE DEF all, out
  <2>3. IsSlice(seen) /\ Distinct(seen) /\ Len(seen) =< MaxSeen
    BY <2>1, FirstFacts DEF ListLimits
  <2>4. ToSet(seen) \subseteq ListQuiet(stored, out) /\ out.state.seen = seen /\ DOMAIN out.state.pending = {}
    <3>1. ToSet(out.items) = {}
      BY <2>2 DEF ToSet
    <3>2. out.state.seen = seen /\ DOMAIN out.state.pending = {}
      BY <2>2 DEF State, NoPending
    <3> HIDE DEF seen
    <3> QED
      BY <1>2, <3>1, <3>2 DEF ListQuiet
  <2> HIDE DEF seen
  <2>5. ListFits(K \cup ToSet(out.items) \cup ListQuiet(stored, out), out.state)
    BY <2>3, <2>4 DEF ListFits
  <2> QED
    BY <2>5 DEF out
<1>3. CASE out.state # Keep /\ stored # Unreadable
  <2>1. candidates # <<>>
    BY <1>3 DEF ExtractSelectorPage
  <2>2. out = [items |-> imported, state |-> state]
    BY <1>3, <2>1 DEF ExtractSelectorPage
  <2>3. ListFits(K \cup ToSet(imported) \cup (IF stored = Absent THEN ToSet(state.seen) ELSE {}), state)
    BY <1>3, CommitFits
  <2> HIDE DEF out, imported, state
  <2>4. out.items = imported /\ out.state = state
    BY <2>2
  <2>5. K \cup ToSet(imported) \cup (IF stored = Absent THEN ToSet(state.seen) ELSE {})
           \subseteq K \cup ToSet(out.items) \cup ListQuiet(stored, out)
    BY <1>3, <2>4 DEF ListQuiet
  <2>6. ListFits(K \cup ToSet(out.items) \cup ListQuiet(stored, out), out.state)
    BY <2>3, <2>4, <2>5 DEF ListFits
  <2> QED
    BY <2>6 DEF out
<1> QED
  BY <1>1, <1>2, <1>3

-----------------------------------------------------------------------------
(* The invariant: everything a crawl carries along, and everything stored,    *)
(* speaks of what has been dealt with, or is in the entries the crawl has yet *)
(* to write, or is passed over by it.                                         *)

PagesOf(k) == IF k = "pagewatch" THEN WatchPages ELSE ListPages

PageFits(k, K, p) == k = "pagewatch" => Blocks(p) \subseteq K

TagFits(k, K, tag) == tag # NoTag => PageFits(k, K, tag)

WatchFits(K, st) ==
    IsSlice(st.blocks) /\ \A b \in ToSet(st.blocks) : \E h \in K : h \ st.ignore = b.key

StateFits(k, K, st) ==
    st \notin {Absent, Unreadable} => IF k = "pagewatch" THEN WatchFits(K, st) ELSE ListFits(K, st)

OutFits(k, K, p, st) == PageFits(k, K, p) /\ (st # Keep => StateFits(k, K, st))

ConfigsOf(k) == IF k = "pagewatch" THEN WatchConfigs ELSE ListConfigs

RowFits(k, K, row) == row.config \in ConfigsOf(k) /\ StateFits(k, K, row.state)

\* While a result is under way there is a row to write it to: what that holds
\* is not touched by a result that leaves it alone.
CrawlFits(k, K, row, r, more) ==
    /\ r.at = "claimed" => TagFits(k, K, r.etag)
    /\ r.at = "fetched" => r.page \in PagesOf(k)
    /\ r.at = "extracted" => RowFits(k, K, row) /\ OutFits(k, K \cup more, r.page, r.out.state)
    /\ r.at = "written" => RowFits(k, K, row) /\ OutFits(k, K, r.page, r.state)
    /\ r.at = "saved" => PageFits(k, K, r.page)

ShownOf(k, items) ==
    IF k = "pagewatch"
    THEN UNION {{b.html : b \in ToSet(i.added)} : i \in ToSet(items)}
    ELSE ToSet(items)

\* What the crawl will have dealt with when its entries are written.
More(c) == ShownOf(kind, crawls[c].out.items) \cup quiet[c]

ScrapeInv ==
    /\ kind \in {"pagewatch", "selector"} /\ page \in PagesOf(kind) /\ DOMAIN crawls = Crawl
    /\ source # NoSource => RowFits(kind, Known, source)
    /\ TagFits(kind, Known, etag)
    /\ \A c \in Crawl : CrawlFits(kind, Known, source, crawls[c], More(c))

\* The more has been dealt with the better.
LEMMA MoreFits ==
    ASSUME NEW k, NEW K, NEW L, K \subseteq L, NEW p, NEW st
    PROVE  /\ PageFits(k, K, p) => PageFits(k, L, p)
           /\ TagFits(k, K, p) => TagFits(k, L, p)
           /\ StateFits(k, K, st) => StateFits(k, L, st)
           /\ OutFits(k, K, p, st) => OutFits(k, L, p, st)
<1>1. PageFits(k, K, p) => PageFits(k, L, p)
  BY DEF PageFits
<1>2. WatchFits(K, st) => WatchFits(L, st)
  BY DEF WatchFits
<1>3. ListFits(K, st) => ListFits(L, st)
  BY DEF ListFits
<1>4. StateFits(k, K, st) => StateFits(k, L, st)
  BY <1>2, <1>3 DEF StateFits
<1> QED
  BY <1>1, <1>4 DEF TagFits, OutFits

LEMMA KeepsFitting ==
    ASSUME NEW k, NEW K, NEW L, K \subseteq L, NEW row, NEW next, NEW r, NEW m, NEW n,
           CrawlFits(k, K, row, r, m), RowFits(k, K, row) => RowFits(k, L, next),
           r.at = "extracted" => m \subseteq n
    PROVE  CrawlFits(k, L, next, r, n)
<1>1. r.at = "claimed" => TagFits(k, L, r.etag)
  BY MoreFits DEF CrawlFits
<1>2. r.at = "extracted" => OutFits(k, L \cup n, r.page, r.out.state)
  <2>1. r.at = "extracted" => K \cup m \subseteq L \cup n
    OBVIOUS
  <2> QED
    BY <2>1, MoreFits DEF CrawlFits
<1>3. r.at = "written" => OutFits(k, L, r.page, r.state)
  BY MoreFits DEF CrawlFits
<1>4. r.at = "saved" => PageFits(k, L, r.page)
  BY MoreFits DEF CrawlFits
<1> QED
  BY <1>1, <1>2, <1>3, <1>4 DEF CrawlFits

\* What an extraction returns fits.
LEMMA WatchOutFits ==
    ASSUME ScrapeAssumption, kind = "pagewatch",
           NEW K, NEW cfg \in WatchConfigs, NEW stored, NEW p \in WatchPages,
           StateFits(kind, K, stored)
    PROVE  LET out == Extract(cfg, stored, p)
           IN  OutFits(kind, K \cup ShownOf(kind, out.items) \cup WatchQuiet(cfg, stored, p, out),
                       p, out.state)
<1> DEFINE out == Extract(cfg, stored, p)
           all == K \cup ShownOf(kind, out.items) \cup WatchQuiet(cfg, stored, p, out)
           curr == Comparable(cfg, p)
           state == MarshalState(cfg.ignore, curr)
<1>1. IsSlice(p) /\ MaxBlocks \in Nat /\ Keep # state
  BY DEF ScrapeAssumption, IsSlice
<1>2. Diffable(cfg, stored) => IsSlice(stored.blocks)
  BY DEF Diffable, StateFits, WatchFits
<1>3. /\ Blocks(p) \subseteq Shown(out.items) \cup WatchQuiet(cfg, stored, p, out)
      /\ out.state \in {Keep, state}
  BY <1>1, <1>2, ExtractFacts
<1>4. Shown(out.items) = ShownOf(kind, out.items)
  BY DEF Shown, ShownOf
<1> HIDE DEF out
<1>5. Blocks(p) \subseteq all
  BY <1>3, <1>4
<1>6. WatchFits(all, state)
  <2>1. IsSlice(curr) /\ \A b \in ToSet(curr) : \E h \in Blocks(p) : b = Masked(h, cfg.ignore)
    BY <1>1, ComparableFacts
  <2> HIDE DEF curr
  <2>2. /\ state.ignore = cfg.ignore /\ IsSlice(state.blocks)
        /\ \A b \in ToSet(state.blocks) : \E a \in ToSet(curr) : b.key = a.key
    BY <2>1, MarshalFacts
  <2> HIDE DEF state, all
  <2>3. ASSUME NEW b \in ToSet(state.blocks)
        PROVE  \E h \in all : h \ state.ignore = b.key
    <3>1. PICK a \in ToSet(curr) : b.key = a.key
      BY <2>2
    <3>2. PICK h \in Blocks(p) : a = Masked(h, cfg.ignore)
      BY <2>1
    <3>3. a.key = h \ cfg.ignore
      BY <3>2 DEF Masked, ApplyIgnorePatterns
    <3> QED
      BY <1>5, <2>2, <3>1, <3>2, <3>3
  <2> QED
    BY <2>2, <2>3 DEF WatchFits
<1>7. OutFits(kind, all, p, out.state)
  <2> HIDE DEF state, all
  <2> QED
    BY <1>3, <1>5, <1>6 DEF OutFits, PageFits, StateFits
<1> QED
  BY <1>7 DEF out

LEMMA ListOutFits ==
    ASSUME ScrapeAssumption, kind = "selector",
           NEW K, NEW cfg, NEW stored, NEW p \in ListPages, NEW failed,
           StateFits(kind, K, stored)
    PROVE  LET out == ExtractSelectorPage(cfg, stored, p, failed)
           IN  OutFits(kind, K \cup ShownOf(kind, out.items) \cup ListQuiet(stored, out), p, out.state)
<1> DEFINE out == ExtractSelectorPage(cfg, stored, p, failed)
<1>1. IsSlice(p) /\ ListLimits
  BY DEF ScrapeAssumption, IsSlice, ListLimits
<1>2. stored \notin {Absent, Unreadable} => ListFits(K, stored)
  BY DEF StateFits
<1>3. \/ out.state = Keep
      \/ ListFits(K \cup ToSet(out.items) \cup ListQuiet(stored, out), out.state)
  BY <1>1, <1>2, ListExtractFits
<1> HIDE DEF out
<1>4. ShownOf(kind, out.items) = ToSet(out.items)
  BY DEF ShownOf
<1>5. OutFits(kind, K \cup ShownOf(kind, out.items) \cup ListQuiet(stored, out), p, out.state)
  BY <1>3, <1>4 DEF OutFits, PageFits, StateFits
<1> QED
  BY <1>5 DEF out

LEMMA ScrapeInit == ScrapeAssumption /\ HInit => ScrapeInv
<1> SUFFICES ASSUME ScrapeAssumption, HInit PROVE ScrapeInv
  OBVIOUS
<1>1. kind \in {"pagewatch", "selector"} /\ page \in PagesOf(kind) /\ DOMAIN crawls = Crawl
  BY DEF HInit, Init, ScrapeAssumption, Pages, PagesOf
<1>2. \A c \in Crawl : crawls[c].at = "idle"
  BY DEF HInit, Init, Idle
<1>3. source = NoSource /\ etag = NoTag
  BY DEF HInit, Init
<1> QED
  BY <1>1, <1>2, <1>3 DEF ScrapeInv, TagFits, CrawlFits

LEMMA ScrapeStep == ScrapeAssumption /\ ScrapeInv /\ [HNext]_hvars => ScrapeInv'
<1> SUFFICES ASSUME ScrapeAssumption, ScrapeInv, [HNext]_hvars PROVE ScrapeInv'
  OBVIOUS
<1>1. CASE UNCHANGED hvars
  <2>1. ScrapeInv' <=> ScrapeInv
    BY <1>1 DEF ScrapeInv, hvars, vars, Known, More
  <2> QED
    BY <2>1
<1>2. CASE HNext
  <2>1. PICK k : k = kind /\ kind' = k
    BY <1>2 DEF HNext, CrawlStep, Claim, NotModified, FetchOK, ExtractPage, UpsertEntries,
                UpdateScrapeSourceState, UpdateFeedAfterFetch, Abort, CreateScrapeSource,
                UpdateScrapeSourceConfig, StateOutdated, PageChanges
  <2>2. PICK K, L : K = Known /\ Known' = L
    OBVIOUS
  <2>3. K \subseteq L
    <3>1. entries \subseteq entries'
      BY <1>2 DEF HNext, CrawlStep, Claim, NotModified, FetchOK, ExtractPage, UpsertEntries,
                UpdateScrapeSourceState, UpdateFeedAfterFetch, Abort, CreateScrapeSource,
                UpdateScrapeSourceConfig, StateOutdated, PageChanges
    <3>2. sealed \subseteq sealed' \cup entries'
      BY <1>2 DEF HNext
    <3> QED
      BY <2>2, <3>1, <3>2 DEF Known
  <2> DEFINE More2(c) == ShownOf(k, crawls'[c].out.items) \cup quiet'[c]
             Fits(c) == CrawlFits(k, L, source', crawls'[c], More2(c))
             Goal == /\ page' \in PagesOf(k) /\ DOMAIN crawls' = Crawl
                     /\ source' # NoSource => RowFits(k, L, source')
                     /\ TagFits(k, L, etag')
                     /\ \A c \in Crawl : Fits(c)
  <2>4. SUFFICES Goal
    BY <2>1, <2>2, <2>4 DEF ScrapeInv, More
  <2>5. /\ k \in {"pagewatch", "selector"} /\ page \in PagesOf(k) /\ DOMAIN crawls = Crawl
        /\ source # NoSource => RowFits(k, K, source)
        /\ TagFits(k, K, etag)
        /\ \A c \in Crawl : CrawlFits(k, K, source, crawls[c], More(c))
    BY <2>1, <2>2 DEF ScrapeInv
  <2>6. \A c \in Crawl : crawls'[c].at = "extracted" =>
           quiet'[c] = IF crawls[c].at = "extracted" THEN quiet[c] ELSE QuietNow(c)
    BY <1>2 DEF HNext, At
  <2>7. ASSUME NEW c \in Crawl, crawls'[c] = crawls[c], RowFits(k, K, source) => RowFits(k, L, source')
        PROVE  Fits(c)
    <3>1. crawls[c].at = "extracted" => More2(c) = More(c)
      BY <2>1, <2>6, <2>7 DEF More
    <3>2. CrawlFits(k, K, source, crawls[c], More(c))
      BY <2>5
    <3> HIDE DEF More2
    <3>3. crawls[c].at = "extracted" => More(c) \subseteq More2(c)
      BY <3>1
    <3>4. CrawlFits(k, L, source', crawls[c], More2(c))
      BY <2>3, <2>7, <3>2, <3>3, KeepsFitting
    <3> QED
      BY <2>7, <3>4
  <2>8. RowFits(k, K, source) => RowFits(k, L, source)
    BY <2>3, MoreFits DEF RowFits
  <2>9. TagFits(k, L, etag)
    BY <2>3, <2>5, MoreFits
  <2>10. \A c \in Crawl : crawls'[c] = Idle => Fits(c)
    BY DEF Idle, CrawlFits
  <2> HIDE DEF Fits
  <2>11. CASE CreateScrapeSource
    <3>1. PICK cfg \in Configs : source' = [config |-> cfg, state |-> Absent]
      BY <2>11 DEF CreateScrapeSource
    <3>2. RowFits(k, L, source')
      BY <2>1, <3>1 DEF RowFits, StateFits, Configs, ConfigsOf
    <3>3. \A c \in Crawl : crawls'[c] = crawls[c]
      BY <2>11 DEF CreateScrapeSource
    <3>4. page' = page /\ etag' = etag /\ crawls' = crawls
      BY <2>11 DEF CreateScrapeSource
    <3> QED
      BY <2>5, <2>7, <2>9, <3>2, <3>3, <3>4
  <2>12. CASE UpdateScrapeSourceConfig
    <3>1. PICK cfg \in Configs : source' = [config |-> cfg, state |-> source.state]
      BY <2>12 DEF UpdateScrapeSourceConfig
    <3>2. RowFits(k, L, source')
      <4>1. RowFits(k, L, source)
        BY <2>5, <2>8, <2>12 DEF UpdateScrapeSourceConfig
      <4> QED
        BY <2>1, <3>1, <4>1 DEF RowFits, Configs, ConfigsOf
    <3>3. \A c \in Crawl : crawls'[c] = crawls[c]
      BY <2>12 DEF UpdateScrapeSourceConfig
    <3>4. page' = page /\ etag' = etag /\ crawls' = crawls
      BY <2>12 DEF UpdateScrapeSourceConfig
    <3> QED
      BY <2>5, <2>7, <2>9, <3>2, <3>3, <3>4
  <2>13. CASE StateOutdated
    <3>1. source' = [config |-> source.config, state |-> Unreadable] /\ source # NoSource
      BY <2>13 DEF StateOutdated
    <3>2. RowFits(k, L, source')
      BY <2>5, <3>1 DEF RowFits, StateFits
    <3>3. page' = page /\ etag' = etag /\ crawls' = [c \in Crawl |-> Idle]
      BY <2>13 DEF StateOutdated
    <3> QED
      BY <2>5, <2>9, <2>10, <3>2, <3>3
  <2>14. CASE PageChanges
    <3>1. page' \in PagesOf(k) /\ source' = source /\ etag' = etag /\ crawls' = crawls
      BY <2>1, <2>14 DEF PageChanges, Pages, PagesOf
    <3>2. \A c \in Crawl : Fits(c)
      BY <2>7, <2>8, <3>1
    <3> QED
      BY <2>5, <2>8, <2>9, <3>1, <3>2
  <2>15. ASSUME NEW c \in Crawl, CrawlStep(c)
         PROVE  Goal
    <3> DEFINE r == crawls[c]
    <3>1. CrawlFits(k, K, source, r, More(c))
      BY <2>5
    <3> HIDE DEF r, Goal
    \* A step of c that leaves the row and the validator alone.
    <3>2. ASSUME NEW s, Goes(c, s), UNCHANGED <<page, source, etag>>,
                 crawls'[c] = s => Fits(c)
          PROVE  Goal
      <4>1. /\ DOMAIN crawls' = Crawl /\ crawls'[c] = s
            /\ \A d \in Crawl : d # c => crawls'[d] = crawls[d]
        BY <2>5, <3>2 DEF Goes
      <4>2. \A d \in Crawl : d # c => Fits(d)
        BY <2>7, <2>8, <3>2, <4>1
      <4>3. \A d \in Crawl : Fits(d)
        BY <3>2, <4>1, <4>2
      <4> QED
        BY <2>5, <2>8, <2>9, <3>2, <4>1, <4>3 DEF Goal
    <3>3. CASE Claim(c)
      <4> DEFINE s == [at |-> "claimed", etag |-> etag]
      <4>1. Goes(c, s) /\ UNCHANGED <<page, source, etag>>
        BY <3>3 DEF Claim
      <4>2. s.at = "claimed" /\ s.etag = etag
        OBVIOUS
      <4>3. crawls'[c] = s => Fits(c)
        BY <2>9, <4>2 DEF Fits, CrawlFits
      <4> HIDE DEF s
      <4> QED
        BY <3>2, <4>1, <4>3
    <3>4. CASE NotModified(c)
      <4>1. /\ r.at = "claimed" /\ r.etag = etag' /\ Goes(c, Idle)
            /\ page' = page /\ source' = source
        BY <3>4 DEF NotModified, Matches, At, r
      <4>2. TagFits(k, L, etag')
        BY <2>3, <3>1, <4>1, MoreFits DEF CrawlFits
      <4>3. /\ DOMAIN crawls' = Crawl /\ crawls'[c] = Idle
            /\ \A d \in Crawl : d # c => crawls'[d] = crawls[d]
        BY <2>5, <4>1 DEF Goes
      <4>4. \A d \in Crawl : Fits(d)
        BY <2>7, <2>8, <2>10, <4>1, <4>3
      <4> QED
        BY <2>5, <2>8, <4>1, <4>2, <4>3, <4>4 DEF Goal
    <3>5. CASE FetchOK(c)
      <4> DEFINE s == [at |-> "fetched", page |-> page]
      <4>1. Goes(c, s) /\ UNCHANGED <<page, source, etag>>
        BY <3>5 DEF FetchOK
      <4>2. s.at = "fetched" /\ s.page = page
        OBVIOUS
      <4>3. crawls'[c] = s => Fits(c)
        BY <2>5, <4>2 DEF Fits, CrawlFits
      <4> HIDE DEF s
      <4> QED
        BY <3>2, <4>1, <4>3
    <3>6. CASE Abort(c)
      <4>1. Goes(c, Idle) /\ UNCHANGED <<page, source, etag>>
        BY <3>6 DEF Abort
      <4> QED
        BY <2>10, <3>2, <4>1
    <3>7. CASE ExtractPage(c)
      <4> DEFINE p == r.page
      <4>1. r.at = "fetched" /\ p \in PagesOf(k) /\ UNCHANGED <<page, source, etag>>
        BY <3>1, <3>7 DEF ExtractPage, At, CrawlFits, r
      <4>2. CASE Goes(c, Idle)
        BY <2>10, <3>2, <4>1, <4>2
      <4>3. CASE source # NoSource /\ \E out \in Extractions(p) :
                    Goes(c, [at |-> "extracted", page |-> p, out |-> out])
        <5>1. PICK out \in Extractions(p) : Goes(c, [at |-> "extracted", page |-> p, out |-> out])
          BY <4>3
        <5> DEFINE s == [at |-> "extracted", page |-> p, out |-> out]
        <5>2. s.at = "extracted" /\ s.page = p /\ s.out = out
          OBVIOUS
        <5>3. RowFits(k, K, source) /\ RowFits(k, L, source)
          BY <2>5, <2>8, <4>3
        <5> HIDE DEF p, s
        <5>4. ASSUME crawls'[c] = s
              PROVE  Fits(c)
          <6>1. quiet'[c] = QuietNow(c)
            BY <2>6, <4>1, <5>2, <5>4 DEF r
          <6>2. OutFits(k, K \cup ShownOf(k, out.items) \cup quiet'[c], p, out.state)
            <7>1. CASE k = "pagewatch"
              <8>1. out = Extract(source.config, source.state, p) /\ kind = "pagewatch"
                BY <2>1, <5>1, <7>1 DEF Extractions
              <8>2. quiet'[c] = WatchQuiet(source.config, source.state, p, out)
                BY <5>2, <5>4, <6>1, <8>1 DEF QuietNow
              <8>3. source.config \in WatchConfigs /\ p \in WatchPages /\ StateFits(kind, K, source.state)
                BY <2>1, <4>1, <5>3, <7>1 DEF RowFits, ConfigsOf, PagesOf, p
              <8> QED
                BY <2>1, <8>1, <8>2, <8>3, WatchOutFits
            <7>2. CASE k # "pagewatch"
              <8>1. kind = "selector"
                BY <2>1, <2>5, <7>2
              <8>2. PICK failed : out = ExtractSelectorPage(source.config, source.state, p, failed)
                BY <5>1, <8>1 DEF Extractions
              <8>3. quiet'[c] = ListQuiet(source.state, out)
                BY <5>2, <5>4, <6>1, <8>1 DEF QuietNow
              <8>4. p \in ListPages /\ StateFits(kind, K, source.state)
                BY <2>1, <4>1, <5>3, <7>2 DEF RowFits, PagesOf, p
              <8> QED
                BY <2>1, <8>1, <8>2, <8>3, <8>4, ListOutFits
            <7> QED
              BY <7>1, <7>2
          <6>3. OutFits(k, L \cup More2(c), p, out.state)
            <7>1. More2(c) = ShownOf(k, out.items) \cup quiet'[c]
              BY <5>2, <5>4
            <7>2. K \cup ShownOf(k, out.items) \cup quiet'[c] \subseteq L \cup More2(c)
              BY <2>3, <7>1
            <7> HIDE DEF More2
            <7> QED
              BY <6>2, <7>2, MoreFits
          <6> HIDE DEF More2
          <6>4. CrawlFits(k, L, source', s, More2(c))
            BY <4>1, <5>2, <5>3, <6>3 DEF CrawlFits
          <6> QED
            BY <5>4, <6>4 DEF Fits
        <5> QED
          BY <3>2, <4>1, <5>1, <5>4 DEF s
      <4> QED
        BY <3>7, <4>2, <4>3 DEF ExtractPage, r
    <3>8. CASE UpsertEntries(c)
      <4> DEFINE s == [at |-> "written", page |-> r.page, state |-> r.out.state]
      <4>1. r.at = "extracted" /\ Goes(c, s) /\ UNCHANGED <<page, source, etag>>
            /\ entries' = entries \cup Shown(r.out.items)
        BY <3>8 DEF UpsertEntries, At, r
      <4>2. s.at = "written" /\ s.page = r.page /\ s.state = r.out.state
        OBVIOUS
      <4> HIDE DEF s
      <4>3. K \cup More(c) \subseteq L
        <5>1. crawls'[c].at = "written"
          BY <2>5, <4>1, <4>2 DEF Goes
        <5>2. c \in {d \in Crawl : At(d, "extracted") /\ crawls'[d].at = "written"}
          BY <4>1, <5>1 DEF At, r
        <5>3. quiet[c] \subseteq sealed' \cup entries'
          BY <1>2, <5>2 DEF HNext
        <5>4. Shown(r.out.items) = ShownOf(kind, r.out.items)
          BY DEF Shown, ShownOf
        <5> QED
          BY <2>2, <2>3, <4>1, <5>3, <5>4 DEF More, Known, r
      <4>4. RowFits(k, K, source) /\ OutFits(k, K \cup More(c), r.page, r.out.state)
        BY <3>1, <4>1 DEF CrawlFits
      <4>5. RowFits(k, L, source) /\ OutFits(k, L, r.page, r.out.state)
        BY <2>8, <4>3, <4>4, MoreFits
      <4>6. crawls'[c] = s => Fits(c)
        BY <4>1, <4>2, <4>5 DEF Fits, CrawlFits
      <4> QED
        BY <3>2, <4>1, <4>6
    <3>9. CASE UpdateScrapeSourceState(c)
      <4> DEFINE s == [at |-> "saved", page |-> r.page]
      <4>1. r.at = "written" /\ Goes(c, s) /\ source' = Stored(r.state) /\ page' = page /\ etag' = etag
        BY <3>9 DEF UpdateScrapeSourceState, At, r
      <4>2. s.at = "saved" /\ s.page = r.page
        OBVIOUS
      <4> HIDE DEF s
      <4>3. RowFits(k, K, source) /\ OutFits(k, K, r.page, r.state)
        BY <3>1, <4>1 DEF CrawlFits
      <4>4. RowFits(k, L, source) /\ OutFits(k, L, r.page, r.state)
        BY <2>3, <2>8, <4>3, MoreFits
      <4>5. RowFits(k, L, source')
        <5>1. source'.config = source.config
              /\ source'.state = IF r.state = Keep THEN source.state ELSE r.state
          BY <4>1 DEF Stored
        <5> QED
          BY <4>4, <5>1 DEF RowFits, OutFits
      <4>6. /\ DOMAIN crawls' = Crawl /\ crawls'[c] = s
            /\ \A d \in Crawl : d # c => crawls'[d] = crawls[d]
        BY <2>5, <4>1 DEF Goes
      <4>7. Fits(c)
        BY <4>2, <4>4, <4>6 DEF Fits, CrawlFits, OutFits
      <4>8. \A d \in Crawl : Fits(d)
        BY <2>7, <4>5, <4>6, <4>7
      <4> QED
        BY <2>5, <2>9, <4>1, <4>5, <4>6, <4>8 DEF Goal
    <3>10. CASE UpdateFeedAfterFetch(c)
      <4>1. r.at = "saved" /\ Goes(c, Idle) /\ page' = page /\ source' = source
            /\ (etag' = r.page \/ etag' = etag)
        BY <3>10 DEF UpdateFeedAfterFetch, At, Tag, r
      <4>2. PageFits(k, L, r.page)
        BY <2>3, <3>1, <4>1, MoreFits DEF CrawlFits
      <4>3. TagFits(k, L, etag')
        BY <2>9, <4>1, <4>2 DEF TagFits
      <4>4. /\ DOMAIN crawls' = Crawl /\ crawls'[c] = Idle
            /\ \A d \in Crawl : d # c => crawls'[d] = crawls[d]
        BY <2>5, <4>1 DEF Goes
      <4>5. \A d \in Crawl : Fits(d)
        BY <2>7, <2>8, <2>10, <4>1, <4>4
      <4> QED
        BY <2>5, <2>8, <4>1, <4>3, <4>4, <4>5 DEF Goal
    <3> QED
      BY <2>15, <3>3, <3>4, <3>5, <3>6, <3>7, <3>8, <3>9, <3>10 DEF CrawlStep
  <2> QED
    BY <1>2, <2>11, <2>12, <2>13, <2>14, <2>15 DEF HNext
<1> QED
  BY <1>1, <1>2

\* Every reachable state satisfies the invariant.
THEOREM ScrapeInvariant == HSpec => []ScrapeInv
<1>1. HInit => ScrapeInv
  BY ScrapeInit, ScrapeAssumption
<1>2. ScrapeInv /\ [HNext]_hvars => ScrapeInv'
  BY ScrapeStep, ScrapeAssumption
<1> QED
  BY <1>1, <1>2, PTL DEF HSpec

\* For any pages, patterns and limits, and whatever the stored state has become
\* by changes of the page and of the patterns: the blocks reported are exactly
\* the surplus of each side (computeDiff).
THEOREM DiffStaysExact == HSpec => []DiffExact
<1>1. ScrapeInv => WatchShape
  BY DEF ScrapeInv, WatchShape, RowFits, StateFits, WatchFits, Diffable
<1>2. ScrapeInv => DiffExact
  BY <1>1, WatchShapeExact, ScrapeAssumption
<1> QED
  BY <1>2, ScrapeInvariant, PTL

\* However many crawls overlap, wherever they end and whatever changes
\* meanwhile: what is remembered as dealt with has been (crawlOne writes the
\* entries, then the state, then the feed).
THEOREM NothingEverMissed == HSpec => []NothingMissed
<1>1. ScrapeInv => NothingMissed
  <2> SUFFICES ASSUME ScrapeInv PROVE NothingMissed
    OBVIOUS
  <2>1. ASSUME source # NoSource, source.state \notin {Absent, Unreadable}, kind = "pagewatch"
        PROVE  \A key \in KeysOf(source.state.blocks) : \E h \in Known : h \ source.state.ignore = key
    <3>1. WatchFits(Known, source.state)
      BY <2>1 DEF ScrapeInv, RowFits, StateFits
    <3> QED
      BY <3>1 DEF WatchFits, KeysOf
  <2>2. ASSUME source # NoSource, source.state \notin {Absent, Unreadable}, kind # "pagewatch"
        PROVE  ToSet(source.state.seen) \subseteq Known
    <3>1. ListFits(Known, source.state)
      BY <2>2 DEF ScrapeInv, RowFits, StateFits
    <3> QED
      BY <3>1 DEF ListFits
  <2>3. ASSUME kind = "pagewatch", etag # NoTag
        PROVE  Blocks(etag) \subseteq Known
    BY <2>3 DEF ScrapeInv, TagFits, PageFits
  <2> QED
    BY <2>1, <2>2, <2>3 DEF NothingMissed
<1> QED
  BY <1>1, ScrapeInvariant, PTL

\* For any limits with room for the candidates of one page, the memory of a
\* list stays within them and never contradicts itself (CommitState, giveUp).
THEOREM MemoryStaysSound == HSpec => []MemorySound
<1>1. ScrapeInv => MemorySound
  <2> SUFFICES ASSUME ScrapeInv, kind = "selector", source # NoSource,
                      source.state \notin {Absent, Unreadable}
               PROVE  /\ Len(source.state.seen) =< MaxSeen
                      /\ Cardinality(ToSet(source.state.seen)) = Len(source.state.seen)
                      /\ \A u \in DOMAIN source.state.pending :
                            /\ u \notin ToSet(source.state.seen)
                            /\ source.state.pending[u] \in 1..(MaxArticleRetries - 1)
    BY DEF MemorySound
  <2>1. ListFits(Known, source.state)
    BY DEF ScrapeInv, RowFits, StateFits
  <2>2. IsSlice(source.state.seen) /\ Distinct(source.state.seen)
    BY <2>1 DEF ListFits
  <2>3. Cardinality(ToSet(source.state.seen)) = Len(source.state.seen)
    BY <2>2, DistinctLength
  <2> QED
    BY <2>1, <2>3 DEF ListFits
<1> QED
  BY <1>1, ScrapeInvariant, PTL
====
