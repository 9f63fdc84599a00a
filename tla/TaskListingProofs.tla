-------------------------- MODULE TaskListingProofs --------------------------
(***************************************************************************)
(* Proofs about TaskListing, for every number of tasks and every set of    *)
(* limits.  The first part is about the rank of an element in a finite set *)
(* of integers, which is what ORDER BY and OFFSET count.                   *)
(***************************************************************************)
EXTENDS TaskListing, FiniteSetTheorems, TLAPS

RankIn(S, t) == Cardinality({u \in S : u > t})

-----------------------------------------------------------------------------
(* Counting.                                                                *)

\* A set within a finite one is finite and no larger.
LEMMA SubsetCard ==
    ASSUME NEW S, IsFiniteSet(S), NEW T, T \subseteq S
    PROVE  /\ IsFiniteSet(T)
           /\ Cardinality(T) \in Nat /\ Cardinality(S) \in Nat
           /\ Cardinality(T) <= Cardinality(S)
  BY FS_Subset, FS_CardinalityType

\* A set with at most one element that another lacks is at most one larger.
LEMMA OneMore ==
    ASSUME NEW S, IsFiniteSet(S), NEW T, \A x, y \in T \ S : x = y
    PROVE  IsFiniteSet(T) /\ Cardinality(T) <= Cardinality(S) + 1
<1>1. CASE T \subseteq S
  BY <1>1, SubsetCard
<1>2. CASE \E x \in T \ S : TRUE
  <2>1. PICK x \in T \ S : TRUE
    BY <1>2
  <2>2. T \subseteq S \cup {x}
    BY <2>1
  <2>3. /\ IsFiniteSet(S \cup {x})
        /\ Cardinality(S \cup {x}) = Cardinality(S) + 1
    BY <2>1, FS_AddElement
  <2>4. QED
    BY <2>2, <2>3, SubsetCard
<1>3. QED
  BY <1>1, <1>2

\* A rank is below the size of the set.
LEMMA RankRange ==
    ASSUME NEW S \in SUBSET Int, IsFiniteSet(S), NEW t \in S
    PROVE  RankIn(S, t) \in 0..Cardinality(S) - 1
<1>1. {u \in S : u > t} \subseteq S \ {t}
  OBVIOUS
<1>2. IsFiniteSet(S \ {t}) /\ Cardinality(S \ {t}) = Cardinality(S) - 1
  BY FS_RemoveElement
<1>3. QED
  BY <1>1, <1>2, SubsetCard DEF RankIn

\* The larger of two elements has the smaller rank.
LEMMA RankStrict ==
    ASSUME NEW S \in SUBSET Int, IsFiniteSet(S), NEW s \in S, NEW t \in S, s < t
    PROVE  RankIn(S, t) < RankIn(S, s)
<1> DEFINE Above == {u \in S : u > t}
<1>1. IsFiniteSet(Above) /\ Cardinality(Above) \in Nat
  BY SubsetCard
<1>2. IsFiniteSet(Above \cup {t}) /\ Cardinality(Above \cup {t}) = Cardinality(Above) + 1
  BY <1>1, FS_AddElement
<1>3. Above \cup {t} \subseteq {u \in S : u > s}
  <2>1. s \in Int /\ t \in Int /\ \A u \in S : u \in Int
    OBVIOUS
  <2>2. t > s /\ \A u \in S : u > t => u > s
    BY <2>1
  <2>3. QED
    BY <2>2
<1>4. IsFiniteSet({u \in S : u > s})
  BY SubsetCard
<1>5. Cardinality(Above \cup {t}) <= Cardinality({u \in S : u > s})
  BY <1>3, <1>4, SubsetCard
<1>6. Cardinality({u \in S : u > s}) \in Nat
  BY <1>4, FS_CardinalityType
<1>7. QED
  BY <1>1, <1>2, <1>5, <1>6 DEF RankIn

\* No two elements have one rank.
LEMMA RankUnique ==
    ASSUME NEW S \in SUBSET Int, IsFiniteSet(S), NEW s \in S, NEW t \in S,
           RankIn(S, s) = RankIn(S, t)
    PROVE  s = t
<1>1. RankIn(S, s) \in Int /\ RankIn(S, t) \in Int
  BY RankRange, FS_CardinalityType
<1>2. ~(s < t)
  <2>1. ASSUME s < t PROVE FALSE
    BY <2>1, <1>1, RankStrict
  <2>2. QED
    BY <2>1
<1>3. ~(t < s)
  <2>1. ASSUME t < s PROVE FALSE
    BY <2>1, <1>1, RankStrict
  <2>2. QED
    BY <2>1
<1>4. QED
  BY <1>2, <1>3

\* Every number below the size of the set is the rank of an element.
LEMMA RankOnto ==
    ASSUME NEW S \in SUBSET Int, IsFiniteSet(S), NEW i \in 0..Cardinality(S) - 1
    PROVE  \E t \in S : RankIn(S, t) = i
<1> DEFINE n == Cardinality(S)
           f == [t \in S |-> RankIn(S, t)]
<1>1. n \in Nat
  BY FS_CardinalityType
<1>2. f \in [S -> 0..n - 1]
  BY RankRange
<1>3. \A s, t \in S : f[s] = f[t] => s = t
  BY RankUnique
<1>4. f \in Injection(S, 0..n - 1)
  BY <1>2, <1>3 DEF Injection, IsInjective
<1>5. IsFiniteSet(0..n - 1) /\ Cardinality(0..n - 1) = n
  <2>1. 0 \in Int /\ n - 1 \in Int
    BY <1>1
  <2>2. IsFiniteSet(0..n - 1) /\ Cardinality(0..n - 1) = IF 0 > n - 1 THEN 0 ELSE (n - 1) - 0 + 1
    BY <2>1, FS_Interval
  <2>3. QED
    BY <1>1, <2>2
<1>6. f \in Surjection(S, 0..n - 1)
  BY <1>4, <1>5, FS_Injection
<1>7. QED
  BY <1>6 DEF Surjection

\* Between two positions stand as many elements as the positions are apart.
LEMMA RankBand ==
    ASSUME NEW S \in SUBSET Int, IsFiniteSet(S),
           NEW a \in Nat, NEW b \in Nat, a <= b, b <= Cardinality(S)
    PROVE  Cardinality({t \in S : RankIn(S, t) \in a..b - 1}) = b - a
<1> DEFINE Band == {t \in S : RankIn(S, t) \in a..b - 1}
           f == [t \in Band |-> RankIn(S, t)]
<1>1. Cardinality(S) \in Nat
  BY FS_CardinalityType
<1>2. IsFiniteSet(Band)
  BY SubsetCard
<1>3. f \in [Band -> a..b - 1]
  OBVIOUS
<1>4. \A s, t \in Band : f[s] = f[t] => s = t
  BY RankUnique
<1>5. \A i \in a..b - 1 : \E t \in Band : f[t] = i
  <2>1. TAKE i \in a..b - 1
  <2>2. i \in 0..Cardinality(S) - 1
    BY <1>1
  <2>3. PICK t \in S : RankIn(S, t) = i
    BY <2>2, RankOnto
  <2>4. QED
    BY <2>3
<1>6. f \in Bijection(Band, a..b - 1)
  BY <1>3, <1>4, <1>5 DEF Bijection, Injection, Surjection, IsInjective
<1>7. Cardinality(a..b - 1) = Cardinality(Band)
  BY <1>2, <1>6, FS_Bijection DEF ExistsBijection
<1>8. Cardinality(a..b - 1) = b - a
  <2>1. a \in Int /\ b - 1 \in Int
    OBVIOUS
  <2>2. Cardinality(a..b - 1) = IF a > b - 1 THEN 0 ELSE (b - 1) - a + 1
    BY <2>1, FS_Interval
  <2>3. QED
    BY <2>2
<1>9. QED
  BY <1>7, <1>8

\* A new largest element comes first and moves every other one down.
LEMMA RankAdd ==
    ASSUME NEW S \in SUBSET Int, IsFiniteSet(S), NEW x \in Int, \A u \in S : u < x,
           NEW t \in S
    PROVE  RankIn(S \cup {x}, t) = RankIn(S, t) + 1
<1>1. {u \in S \cup {x} : u > t} = {u \in S : u > t} \cup {x}
  OBVIOUS
<1>2. x \notin S
  OBVIOUS
<1>3. QED
  BY <1>1, <1>2, SubsetCard, FS_AddElement DEF RankIn

\* An element that goes moves the ones below it up and no other.
LEMMA RankRemove ==
    ASSUME NEW S \in SUBSET Int, IsFiniteSet(S), NEW d \in S, NEW t \in S, t # d
    PROVE  RankIn(S \ {d}, t) = IF t < d THEN RankIn(S, t) - 1 ELSE RankIn(S, t)
<1> DEFINE Above == {u \in S : u > t}
<1>1. IsFiniteSet(Above)
  BY SubsetCard
<1>2. {u \in S \ {d} : u > t} = Above \ {d}
  OBVIOUS
<1>3. d \in Above <=> t < d
  OBVIOUS
<1>4. Cardinality(Above \ {d}) = IF d \in Above THEN Cardinality(Above) - 1 ELSE Cardinality(Above)
  BY <1>1, FS_RemoveElement
<1>5. RankIn(S \ {d}, t) = Cardinality(Above \ {d}) /\ RankIn(S, t) = Cardinality(Above)
  BY <1>2 DEF RankIn
<1>6. QED
  BY <1>3, <1>4, <1>5

-----------------------------------------------------------------------------
(* The listing.                                                             *)

\* The rows are a finite set of integers, and so are the sets within them.
LEMMA RowsFinite ==
    ASSUME TypeOK
    PROVE  /\ rows \in SUBSET Int /\ IsFiniteSet(rows) /\ Cardinality(rows) \in Nat
           /\ IsFiniteSet(seen) /\ IsFiniteSet(kept)
           /\ created \in Nat /\ got \in Nat /\ total \in Nat
           /\ deletes \in Nat /\ creates \in Nat /\ late \in Nat
           /\ \A t \in rows : Rank(t) \in 0..Cardinality(rows) - 1
<1>1. /\ created \in Nat /\ got \in Nat /\ total \in Nat
      /\ deletes \in Nat /\ creates \in Nat /\ late \in Nat
  BY LimitAssumption DEF TypeOK
<1>2. IsFiniteSet(1..created)
  BY <1>1, FS_Interval
<1>3. rows \subseteq 1..created /\ seen \subseteq 1..created /\ kept \subseteq 1..created
  BY DEF TypeOK
<1>4. rows \in SUBSET Int /\ IsFiniteSet(rows) /\ IsFiniteSet(seen) /\ IsFiniteSet(kept)
  <2>1. rows \in SUBSET Int
    BY <1>1, <1>3
  <2>2. QED
    BY <1>2, <1>3, <2>1, SubsetCard
<1>5. \A t \in rows : Rank(t) \in 0..Cardinality(rows) - 1
  BY <1>4, RankRange DEF Rank, RankIn
<1>6. QED
  BY <1>1, <1>4, <1>5, FS_CardinalityType

\* The page a client gets holds the rows next in rank, all of them, up to where
\* it will ask from, and is empty only at the end.
LEMMA PageIsBand ==
    ASSUME TypeOK, CountInv,
           NEW page, page = Page(Clamped(limit), FromZero(offset)),
           NEW next, next = got + Cardinality(page)
    PROVE  /\ page \subseteq rows /\ IsFiniteSet(page)
           /\ next \in got..created
           /\ \A t \in page : Rank(t) >= got
           /\ \A t \in rows : Rank(t) < next <=> (Rank(t) < got \/ t \in page)
           /\ page = {} => Cardinality(rows) <= next
<1> DEFINE l == Clamped(limit)
           n == Cardinality(rows)
           end == IF got + l <= n THEN got + l ELSE n
<1>1. l \in Nat /\ l >= 1
  BY LimitAssumption DEF Clamped, TypeOK
<1>2. FromZero(offset) = got
  BY DEF FromZero, CountInv, TypeOK
<1>3. page = {t \in rows : Rank(t) \in got..got + l - 1}
  BY <1>2 DEF Page
<1>4. n \in Nat /\ got \in Nat /\ created \in Nat /\ n <= created /\ got <= created
  <2>1. n + deletes <= created /\ got \in 0..created
    BY DEF CountInv, TypeOK
  <2>2. QED
    BY <2>1, RowsFinite
<1>5. \A t \in rows : Rank(t) \in Nat /\ Rank(t) < n
  BY <1>4, RowsFinite
<1>6. IsFiniteSet(page)
  BY <1>3, RowsFinite, SubsetCard
<1>7. CASE n <= got
  <2>1. page = {}
    BY <1>3, <1>4, <1>5, <1>7
  <2>2. next = got
    BY <2>1, <1>4, FS_EmptySet
  <2>3. QED
    BY <2>1, <2>2, <1>4, <1>5, <1>6, <1>7
<1>8. CASE got < n
  <2>1. end \in Nat /\ got < end /\ end <= n
    BY <1>1, <1>4, <1>8
  <2>2. page = {t \in rows : Rank(t) \in got..end - 1}
    BY <1>1, <1>3, <1>4, <1>5, <1>8
  <2>3. page = {t \in rows : RankIn(rows, t) \in got..end - 1}
    BY <2>2 DEF Rank, RankIn
  <2>4. Cardinality({t \in rows : RankIn(rows, t) \in got..end - 1}) = end - got
    <3>1. got <= end
      BY <2>1, <1>4
    <3> HIDE DEF end
    <3>2. QED
      BY <2>1, <3>1, <1>4, RowsFinite, RankBand
  <2> HIDE DEF end
  <2>5. next = end
    BY <2>1, <2>3, <2>4, <1>4
  <2>6. page # {}
    BY <2>1, <2>3, <2>4, <1>4, FS_EmptySet
  <2>7. \A t \in rows : Rank(t) < next <=> (Rank(t) < got \/ t \in page)
    BY <2>1, <2>2, <2>5, <1>4, <1>5
  <2>8. next \in got..created /\ \A t \in page : Rank(t) >= got
    BY <2>1, <2>2, <2>5, <1>4, <1>5
  <2>9. QED
    BY <2>6, <2>7, <2>8, <1>3, <1>6
<1>9. QED
  BY <1>4, <1>7, <1>8

\* The initial states satisfy the invariant.
LEMMA ListingInit == Init => ListingInv
<1> SUFFICES ASSUME Init PROVE ListingInv
  OBVIOUS
<1>1. created \in Nat /\ created <= MaxTasks /\ MaxTasks \in Nat
  BY LimitAssumption DEF Init
<1>2. Cardinality(rows) = created
  BY <1>1, FS_Interval DEF Init
<1>3. TypeOK
  BY <1>1 DEF Init, TypeOK
<1>4. CountInv
  BY <1>1, <1>2 DEF Init, CountInv
<1>5. PassedUnseenInv
  <2>1. {t \in kept \ seen : Passed(t)} = {}
    BY DEF Init
  <2>2. QED
    BY <2>1, FS_EmptySet DEF Init, PassedUnseenInv
<1>6. SeenAheadInv
  <2>1. {t \in rows \cap seen : ~Passed(t)} = {} /\ seen = {}
    BY DEF Init
  <2>2. QED
    BY <2>1, FS_EmptySet DEF Init, SeenAheadInv
<1>7. QED
  BY <1>3, <1>4, <1>5, <1>6 DEF Init, ListingInv, MissesExplained

\* Reading a page leaves the unseen rows that were passed as they are, and turns
\* each row that is given again from a repetition to come into one that came.
LEMMA FindStep ==
    ASSUME ListingInv, Find
    PROVE  ListingInv'
<1> DEFINE page == Page(Clamped(limit), FromZero(offset))
<1>a. TypeOK /\ CountInv /\ PassedUnseenInv /\ SeenAheadInv /\ MissesExplained
  BY DEF ListingInv
<1>b. /\ pc = "find" /\ got' = got + Cardinality(page) /\ seen' = seen \cup page
      /\ offset' = got' /\ pc' = IF page = {} \/ got' >= total THEN "done" ELSE "count"
      /\ UNCHANGED <<rows, created, limit, total, kept, deletes, creates, late>>
  BY DEF Find, table, history
<1>c. /\ page \subseteq rows /\ IsFiniteSet(page)
      /\ got' \in got..created
      /\ \A t \in page : Rank(t) >= got
      /\ \A t \in rows : Rank(t) < got' <=> (Rank(t) < got \/ t \in page)
      /\ page = {} => Cardinality(rows) <= got'
  BY <1>a, <1>b, PageIsBand
<1>d. \A t : Rank(t)' = Rank(t)
  BY <1>b DEF Rank
<1> HIDE DEF page
<1>e. /\ rows \in SUBSET Int /\ IsFiniteSet(rows) /\ Cardinality(rows) \in Nat
      /\ IsFiniteSet(seen) /\ IsFiniteSet(kept)
      /\ got \in Nat /\ total \in Nat /\ late \in Nat /\ deletes \in Nat /\ creates \in Nat
      /\ \A t \in rows : Rank(t) \in 0..Cardinality(rows) - 1
      /\ created \in Nat
  BY <1>a, RowsFinite
<1>1. TypeOK'
  <2>1. seen' \subseteq 1..created
    BY <1>a, <1>b, <1>c DEF TypeOK
  <2>2. got' \in 0..created /\ offset' \in -1..created
    BY <1>b, <1>c, <1>e
  <2>3. QED
    BY <2>1, <2>2, <1>a, <1>b DEF TypeOK
<1>2. CountInv'
  BY <1>a, <1>b DEF CountInv
<1>3. PassedUnseenInv'
  <2>1. {t \in kept \ seen : Rank(t) < got} \subseteq kept
    OBVIOUS
  <2>2. {t \in kept' \ seen' : Rank(t)' < got'} \subseteq {t \in kept \ seen : Rank(t) < got}
    BY <1>a, <1>b, <1>c, <1>d DEF TypeOK
  <2>3. Cardinality({t \in kept' \ seen' : Rank(t)' < got'})
          <= Cardinality({t \in kept \ seen : Rank(t) < got})
    BY <2>1, <2>2, <1>e, SubsetCard
  <2>4. Cardinality({t \in kept \ seen : Rank(t) < got}) <= deletes
    BY <1>a DEF PassedUnseenInv, Passed
  <2>5. Cardinality({t \in kept' \ seen' : Rank(t)' < got'}) <= deletes'
    <3>1. IsFiniteSet({t \in kept \ seen : Rank(t) < got})
      BY <2>1, <1>e, SubsetCard
    <3>2. /\ Cardinality({t \in kept' \ seen' : Rank(t)' < got'}) \in Nat
          /\ Cardinality({t \in kept \ seen : Rank(t) < got}) \in Nat
      BY <3>1, <2>2, SubsetCard
    <3>3. QED
      BY <3>2, <2>3, <2>4, <1>b, <1>e
  <2>6. QED
    BY <2>5 DEF PassedUnseenInv, Passed
<1>4. SeenAheadInv'
  <2> DEFINE A == {t \in rows \cap seen : ~(Rank(t) < got)}
             B == {t \in rows \cap seen' : ~(Rank(t) < got')}
             C == page \cap seen
  <2>1. B = A \ C /\ C \subseteq A /\ A \cap C = C
    <3>1. ASSUME NEW t \in rows
          PROVE  /\ ~(Rank(t) < got') <=> (~(Rank(t) < got) /\ t \notin page)
                 /\ t \in page => ~(Rank(t) < got)
      BY <1>c, <1>e
    <3>2. page \subseteq rows /\ seen' = seen \cup page
      BY <1>b, <1>c
    <3>3. QED
      BY <3>1, <3>2
  <2>2. IsFiniteSet(A) /\ IsFiniteSet(C) /\ IsFiniteSet(B)
    BY <2>1, <1>c, <1>e, SubsetCard
  <2>3. Cardinality(B) = Cardinality(A) - Cardinality(C)
    BY <2>1, <2>2, FS_Difference
  <2>4. Cardinality(seen') = Cardinality(seen) + Cardinality(page) - Cardinality(C)
    <3>1. seen \cap page = C
      OBVIOUS
    <3>2. QED
      BY <3>1, <1>b, <1>c, <1>e, FS_Union
  <2>5. (got - Cardinality(seen)) + Cardinality(A) <= creates
    BY <1>a DEF SeenAheadInv, Passed
  <2>6. /\ Cardinality(A) \in Nat /\ Cardinality(C) \in Nat /\ Cardinality(page) \in Nat
        /\ Cardinality(seen) \in Nat
    BY <2>2, <1>c, <1>e, FS_CardinalityType
  <2>7. (got' - Cardinality(seen')) + Cardinality(B) <= creates'
    <3> HIDE DEF A, B, C
    <3>1. QED
      BY <2>3, <2>4, <2>5, <2>6, <1>b, <1>e
  <2>8. B = {t \in rows' \cap seen' : ~(Rank(t)' < got')}
    BY <1>b, <1>d
  <2>9. QED
    BY <2>7, <2>8 DEF SeenAheadInv, Passed
<1>5. MissesExplained'
  <2>1. SUFFICES ASSUME pc' = "done" PROVE Cardinality(kept' \ seen') <= deletes' + late'
    BY DEF MissesExplained
  <2> DEFINE P == {t \in kept' \ seen' : Rank(t)' < got'}
             R == {t \in rows : RankIn(rows, t) \in got'..Cardinality(rows) - 1}
  <2>2. Cardinality(P) <= deletes
    BY <1>3, <1>b DEF PassedUnseenInv, Passed
  <2>3. kept' \ seen' \subseteq P \cup R
    <3>1. ASSUME NEW t \in kept' \ seen', ~(Rank(t)' < got') PROVE t \in R
      <4>1. t \in rows
        BY <1>a, <1>b DEF TypeOK
      <4>2. Rank(t) \in got'..Cardinality(rows) - 1
        BY <3>1, <4>1, <1>c, <1>d, <1>e
      <4>3. QED
        BY <4>1, <4>2 DEF Rank, RankIn
    <3>2. QED
      BY <3>1
  <2>4. P \subseteq kept /\ R \subseteq rows
    BY <1>b
  <2>5. IsFiniteSet(P) /\ IsFiniteSet(R) /\ Cardinality(P) \in Nat /\ Cardinality(R) \in Nat
    BY <2>4, <1>e, SubsetCard
  <2>6. Cardinality(kept' \ seen') <= Cardinality(P) + Cardinality(R)
    <3> HIDE DEF P, R
    <3>1. /\ IsFiniteSet(P \cup R)
          /\ Cardinality(P \cup R) = Cardinality(P) + Cardinality(R) - Cardinality(P \cap R)
      BY <2>5, FS_Union
    <3>2. Cardinality(P \cap R) \in Nat
      BY <2>5, SubsetCard
    <3>3. /\ Cardinality(kept' \ seen') \in Nat
          /\ Cardinality(kept' \ seen') <= Cardinality(P \cup R)
          /\ Cardinality(P \cup R) \in Nat
      BY <2>3, <3>1, SubsetCard
    <3>4. QED
      BY <2>5, <3>1, <3>2, <3>3
  <2>7. Cardinality(R) <= late
    <3>1. CASE Cardinality(rows) <= got'
      <4>1. R = {}
        BY <3>1, <1>c, <1>e
      <4>2. QED
        BY <4>1, <1>e, FS_EmptySet
    <3>2. CASE got' < Cardinality(rows)
      <4>1. Cardinality(R) = Cardinality(rows) - got'
        <5>1. got' \in Nat /\ got' <= Cardinality(rows)
          BY <3>2, <1>c, <1>e
        <5>2. QED
          BY <5>1, <1>e, RankBand
      <4>2. page # {}
        BY <3>2, <1>c, <1>e
      <4>3. got' >= total
        BY <4>2, <2>1, <1>b
      <4>4. Cardinality(rows) <= total + late
        BY <1>a, <1>b DEF CountInv
      <4>5. QED
        BY <4>1, <4>3, <4>4, <1>c, <1>e
    <3>3. QED
      BY <3>1, <3>2, <1>c, <1>e
  <2>8. Cardinality(kept' \ seen') \in Nat
    BY <1>b, <1>e, SubsetCard
  <2>9. QED
    <3> HIDE DEF P, R
    <3>1. QED
      BY <2>2, <2>5, <2>6, <2>7, <2>8, <1>b, <1>e
<1>6. QED
  BY <1>1, <1>2, <1>3, <1>4, <1>5 DEF ListingInv

\* A new task moves every row down: at most one that was given before is now
\* ahead of the client again.
LEMMA CreateStep ==
    ASSUME ListingInv, Create
    PROVE  ListingInv'
<1> DEFINE x == created + 1
<1>a. TypeOK /\ CountInv /\ PassedUnseenInv /\ SeenAheadInv /\ MissesExplained
  BY DEF ListingInv
<1>b. /\ rows' = rows \cup {x} /\ created' = x /\ created < MaxTasks /\ pc # "done"
      /\ creates' = (IF Reading THEN creates + 1 ELSE creates)
      /\ late' = (IF Reading THEN late + 1 ELSE late)
      /\ UNCHANGED <<pc, limit, offset, total, got, seen, kept, deletes>>
  BY DEF Create, client
<1>c. Reading \/ pc = "idle"
  BY <1>a, <1>b DEF Reading, TypeOK
<1>e. /\ rows \in SUBSET Int /\ IsFiniteSet(rows) /\ Cardinality(rows) \in Nat
      /\ IsFiniteSet(seen) /\ IsFiniteSet(kept)
      /\ got \in Nat /\ total \in Nat /\ late \in Nat /\ deletes \in Nat /\ creates \in Nat
      /\ \A t \in rows : Rank(t) \in 0..Cardinality(rows) - 1
      /\ created \in Nat
  BY <1>a, RowsFinite
<1>f. x \in Int /\ x \notin rows /\ x \notin seen /\ \A u \in rows : u < x
  BY <1>a, <1>e DEF TypeOK
<1>g. \A t \in rows : Rank(t)' = Rank(t) + 1
  <2>1. TAKE t \in rows
  <2>2. RankIn(rows \cup {x}, t) = RankIn(rows, t) + 1
    <3> HIDE DEF x
    <3>1. QED
      BY <1>e, <1>f, RankAdd
  <2>3. QED
    BY <2>2, <1>b DEF Rank, RankIn
<1>h. Cardinality(rows') = Cardinality(rows) + 1
  BY <1>b, <1>e, <1>f, FS_AddElement
<1>1. CountInv'
  BY <1>a, <1>b, <1>c, <1>e, <1>h DEF CountInv, Reading
<1>2. TypeOK'
  <2>1. rows' \subseteq 1..created' /\ kept' \subseteq rows' /\ seen' \subseteq 1..created'
    BY <1>a, <1>b, <1>e DEF TypeOK
  <2>2. created' \in 0..MaxTasks /\ got' \in 0..created' /\ offset' \in -1..created'
    BY <1>a, <1>b, <1>e, LimitAssumption DEF TypeOK
  <2>3. creates' \in Nat /\ late' \in Nat
    BY <1>b, <1>e
  <2>4. creates' <= created' /\ late' <= creates' /\ deletes' \in 0..MaxTasks
    BY <1>1, <1>a, <1>b DEF CountInv, TypeOK
  <2>5. creates' \in 0..MaxTasks /\ late' \in 0..MaxTasks
    BY <2>2, <2>3, <2>4, LimitAssumption
  <2>6. QED
    BY <2>1, <2>2, <2>4, <2>5, <1>a, <1>b DEF TypeOK
<1>3. PassedUnseenInv'
  <2> DEFINE P == {t \in kept \ seen : Rank(t) < got}
             Q == {t \in kept' \ seen' : Rank(t)' < got'}
  <2>1. Q \subseteq P
    <3>1. kept' = kept /\ seen' = seen /\ got' = got /\ kept \subseteq rows
      BY <1>a, <1>b DEF TypeOK
    <3>2. ASSUME NEW t \in rows, Rank(t)' < got PROVE Rank(t) < got
      BY <3>2, <1>e, <1>g
    <3>3. QED
      BY <3>1, <3>2
  <2>2. P \subseteq kept
    OBVIOUS
  <2>3. Cardinality(Q) <= Cardinality(P) /\ Cardinality(P) \in Nat /\ Cardinality(Q) \in Nat
    <3> HIDE DEF P, Q
    <3>1. IsFiniteSet(P)
      BY <2>2, <1>e, SubsetCard
    <3>2. QED
      BY <2>1, <3>1, SubsetCard
  <2>4. Cardinality(P) <= deletes
    BY <1>a DEF PassedUnseenInv, Passed
  <2>5. Cardinality(Q) <= deletes'
    <3> HIDE DEF P, Q
    <3>1. QED
      BY <2>3, <2>4, <1>b, <1>e
  <2>6. QED
    BY <2>5 DEF PassedUnseenInv, Passed
<1>4. SeenAheadInv'
  <2> DEFINE A == {t \in rows \cap seen : ~(Rank(t) < got)}
             B == {t \in rows' \cap seen' : ~(Rank(t)' < got')}
  <2>1. (got - Cardinality(seen)) + Cardinality(A) <= creates
    BY <1>a DEF SeenAheadInv, Passed
  <2>2. IsFiniteSet(A)
    BY <1>e, SubsetCard
  <2>3. (got' - Cardinality(seen')) + Cardinality(B) <= creates'
    <3>1. CASE Reading
      <4>1. \A u, v \in B \ A : u = v
        <5>1. ASSUME NEW u \in B \ A PROVE u \in rows /\ Rank(u) = got - 1
          <6>1. u \in rows /\ u \in seen
            BY <1>b, <1>f
          <6>2. ~(Rank(u) + 1 < got) /\ Rank(u) < got
            BY <6>1, <1>b, <1>g
          <6>3. QED
            BY <6>1, <6>2, <1>e
        <5>2. ASSUME NEW u \in B \ A, NEW v \in B \ A PROVE u = v
          <6>1. u \in rows /\ v \in rows /\ RankIn(rows, u) = RankIn(rows, v)
            BY <5>1 DEF Rank, RankIn
          <6>2. QED
            BY <6>1, <1>e, RankUnique
        <5>3. QED
          BY <5>2
      <4> HIDE DEF A, B
      <4>2. IsFiniteSet(B) /\ Cardinality(B) <= Cardinality(A) + 1
        BY <4>1, <2>2, OneMore
      <4>3. Cardinality(A) \in Nat /\ Cardinality(B) \in Nat /\ Cardinality(seen) \in Nat
        BY <4>2, <2>2, <1>e, FS_CardinalityType
      <4>4. QED
        BY <2>1, <4>2, <4>3, <3>1, <1>b, <1>e
    <3>2. CASE pc = "idle"
      <4>1. seen = {} /\ got = 0 /\ ~Reading
        BY <3>2, <1>a DEF CountInv, Reading
      <4>2. B = {} /\ seen' = {}
        BY <4>1, <1>b
      <4>3. QED
        BY <4>1, <4>2, <1>b, <1>e, FS_EmptySet
    <3>3. QED
      BY <3>1, <3>2, <1>c
  <2>4. QED
    BY <2>3 DEF SeenAheadInv, Passed
<1>5. MissesExplained'
  BY <1>b DEF MissesExplained
<1>6. QED
  BY <1>1, <1>2, <1>3, <1>4, <1>5 DEF ListingInv

\* A deletion moves the rows below up: at most one that the client has not got
\* is now behind it.
LEMMA DeleteStep ==
    ASSUME ListingInv, NEW d \in Id, Delete(d)
    PROVE  ListingInv'
<1>a. TypeOK /\ CountInv /\ PassedUnseenInv /\ SeenAheadInv /\ MissesExplained
  BY DEF ListingInv
<1>b. /\ rows' = rows \ {d} /\ kept' = kept \ {d} /\ d \in rows /\ pc # "done"
      /\ deletes' = (IF Reading THEN deletes + 1 ELSE deletes)
      /\ UNCHANGED <<created, pc, limit, offset, total, got, seen, creates, late>>
  BY DEF Delete, client
<1>c. Reading \/ pc = "idle"
  BY <1>a, <1>b DEF Reading, TypeOK
<1>e. /\ rows \in SUBSET Int /\ IsFiniteSet(rows) /\ Cardinality(rows) \in Nat
      /\ IsFiniteSet(seen) /\ IsFiniteSet(kept)
      /\ got \in Nat /\ total \in Nat /\ late \in Nat /\ deletes \in Nat /\ creates \in Nat
      /\ \A t \in rows : Rank(t) \in 0..Cardinality(rows) - 1
      /\ created \in Nat
  BY <1>a, RowsFinite
<1>g. \A t \in rows \ {d} : Rank(t)' = IF t < d THEN Rank(t) - 1 ELSE Rank(t)
  <2>1. TAKE t \in rows \ {d}
  <2>2. RankIn(rows \ {d}, t) = IF t < d THEN RankIn(rows, t) - 1 ELSE RankIn(rows, t)
    <3>1. d \in rows /\ t \in rows /\ t # d
      BY <1>b
    <3>2. QED
      BY <3>1, <1>e, RankRemove
  <2>3. QED
    BY <2>2, <1>b DEF Rank, RankIn
<1>h. Cardinality(rows') = Cardinality(rows) - 1 /\ Cardinality(rows') \in Nat
  <2>1. IsFiniteSet(rows \ {d}) /\ Cardinality(rows \ {d}) = Cardinality(rows) - 1
    BY <1>b, <1>e, FS_RemoveElement
  <2>2. QED
    BY <2>1, <1>b, FS_CardinalityType
<1>1. CountInv'
  BY <1>a, <1>b, <1>c, <1>e, <1>h DEF CountInv, Reading
<1>2. TypeOK'
  <2>1. rows' \subseteq 1..created' /\ kept' \subseteq rows'
    BY <1>a, <1>b DEF TypeOK
  <2>2. deletes' \in Nat /\ Cardinality(rows') + deletes' <= created' /\ created' \in 0..MaxTasks
    BY <1>1, <1>a, <1>b, <1>e DEF CountInv, TypeOK
  <2>3. deletes' \in 0..MaxTasks
    BY <2>2, <1>h, LimitAssumption
  <2>4. QED
    BY <2>1, <2>3, <1>a, <1>b DEF TypeOK
<1>3. PassedUnseenInv'
  <2> DEFINE P == {t \in kept \ seen : Rank(t) < got}
             Q == {t \in kept' \ seen' : Rank(t)' < got'}
  <2>1. Cardinality(P) <= deletes
    BY <1>a DEF PassedUnseenInv, Passed
  <2>2. IsFiniteSet(P)
    BY <1>e, SubsetCard
  <2>3. Cardinality(Q) <= deletes'
    <3>1. CASE Reading
      <4>1. \A u, v \in Q \ P : u = v
        <5>1. ASSUME NEW u \in Q \ P PROVE u \in rows /\ Rank(u) = got
          <6>1. u \in rows \ {d} /\ u \in kept \ seen
            BY <1>a, <1>b DEF TypeOK
          <6>2. Rank(u)' < got /\ ~(Rank(u) < got)
            BY <6>1, <1>b
          <6>3. QED
            BY <6>1, <6>2, <1>e, <1>g
        <5>2. ASSUME NEW u \in Q \ P, NEW v \in Q \ P PROVE u = v
          <6>1. u \in rows /\ v \in rows /\ RankIn(rows, u) = RankIn(rows, v)
            BY <5>1 DEF Rank, RankIn
          <6>2. QED
            BY <6>1, <1>e, RankUnique
        <5>3. QED
          BY <5>2
      <4> HIDE DEF P, Q
      <4>2. IsFiniteSet(Q) /\ Cardinality(Q) <= Cardinality(P) + 1
        BY <4>1, <2>2, OneMore
      <4>3. Cardinality(P) \in Nat /\ Cardinality(Q) \in Nat
        BY <4>2, <2>2, FS_CardinalityType
      <4>4. QED
        BY <2>1, <4>2, <4>3, <3>1, <1>b, <1>e
    <3>2. CASE pc = "idle"
      <4>1. kept = {} /\ ~Reading
        BY <3>2, <1>a DEF CountInv, Reading
      <4>2. Q = {}
        BY <4>1, <1>b
      <4>3. QED
        BY <4>1, <4>2, <1>b, <1>e, FS_EmptySet
    <3>3. QED
      BY <3>1, <3>2, <1>c
  <2>4. QED
    BY <2>3 DEF PassedUnseenInv, Passed
<1>4. SeenAheadInv'
  <2> DEFINE A == {t \in rows \cap seen : ~(Rank(t) < got)}
             B == {t \in rows' \cap seen' : ~(Rank(t)' < got')}
  <2>1. (got - Cardinality(seen)) + Cardinality(A) <= creates
    BY <1>a DEF SeenAheadInv, Passed
  <2>2. B \subseteq A
    <3>1. ASSUME NEW t \in rows \ {d}, ~(Rank(t)' < got) PROVE ~(Rank(t) < got)
      BY <3>1, <1>e, <1>g
    <3>2. QED
      BY <3>1, <1>b
  <2>3. IsFiniteSet(A)
    BY <1>e, SubsetCard
  <2>4. (got' - Cardinality(seen')) + Cardinality(B) <= creates'
    <3> HIDE DEF A, B
    <3>1. Cardinality(B) <= Cardinality(A) /\ Cardinality(A) \in Nat /\ Cardinality(B) \in Nat
      BY <2>2, <2>3, SubsetCard
    <3>2. Cardinality(seen) \in Nat
      BY <1>e, FS_CardinalityType
    <3>3. QED
      BY <2>1, <3>1, <3>2, <1>b, <1>e
  <2>5. QED
    BY <2>4 DEF SeenAheadInv, Passed
<1>5. MissesExplained'
  BY <1>b DEF MissesExplained
<1>6. QED
  BY <1>1, <1>2, <1>3, <1>4, <1>5 DEF ListingInv

\* Every step preserves the invariant.
LEMMA ListingStep == ListingInv /\ [Next]_vars => ListingInv'
<1> SUFFICES ASSUME ListingInv, [Next]_vars PROVE ListingInv'
  OBVIOUS
<1>a. TypeOK /\ CountInv /\ PassedUnseenInv /\ SeenAheadInv /\ MissesExplained
  BY DEF ListingInv
<1>b. ASSUME UNCHANGED <<rows, got, seen, deletes, creates>>, kept' = kept
      PROVE  PassedUnseenInv' /\ SeenAheadInv'
  BY <1>a, <1>b DEF PassedUnseenInv, SeenAheadInv, Passed, Rank
<1>1. CASE Ask
  <2>1. /\ pc = "idle" /\ pc' = "count" /\ kept' = rows
        /\ UNCHANGED <<rows, created, limit, offset, total, got, seen, deletes, creates, late>>
    BY <1>1 DEF Ask, table
  <2>2. TypeOK' /\ CountInv' /\ MissesExplained'
    BY <2>1, <1>a DEF TypeOK, CountInv, MissesExplained
  <2>3. PassedUnseenInv'
    <3>1. \A t \in rows : Rank(t)' = Rank(t) /\ Rank(t) \in Nat
      BY <2>1, <1>a, RowsFinite DEF Rank
    <3>2. {t \in kept' \ seen' : Rank(t)' < got'} = {}
      BY <3>1, <2>1, <1>a DEF CountInv
    <3>3. deletes' = 0
      BY <2>1, <1>a DEF CountInv
    <3>4. QED
      BY <3>2, <3>3, FS_EmptySet DEF PassedUnseenInv, Passed
  <2>4. SeenAheadInv'
    BY <2>1, <1>a DEF SeenAheadInv, Passed, Rank
  <2>5. QED
    BY <2>2, <2>3, <2>4 DEF ListingInv
<1>2. CASE Count
  <2>1. /\ pc = "count" /\ pc' = "find" /\ total' = Cardinality(rows) /\ late' = 0
        /\ UNCHANGED <<rows, created, limit, offset, got, seen, kept, deletes, creates>>
    BY <1>2 DEF Count, table
  <2>2. Cardinality(rows) \in Nat /\ Cardinality(rows) + deletes <= created
        /\ deletes \in Nat /\ created \in Nat /\ creates \in Nat
    BY <1>a, RowsFinite DEF CountInv
  <2>3. total' \in 0..MaxTasks /\ late' \in 0..MaxTasks
    BY <2>1, <2>2, <1>a, LimitAssumption DEF TypeOK
  <2>4. TypeOK'
    BY <2>1, <2>3, <1>a DEF TypeOK
  <2>5. CountInv' /\ MissesExplained'
    BY <2>1, <2>2, <1>a DEF CountInv, MissesExplained
  <2>6. QED
    BY <2>1, <2>4, <2>5, <1>b DEF ListingInv
<1>3. CASE Find
  BY <1>3, FindStep
<1>4. CASE Fail
  <2>1. /\ pc = "find" /\ pc' = "count"
        /\ UNCHANGED <<rows, created, limit, offset, total, got, seen, kept, deletes, creates, late>>
    BY <1>4 DEF Fail, table, history
  <2>2. TypeOK' /\ CountInv' /\ MissesExplained'
    BY <2>1, <1>a DEF TypeOK, CountInv, MissesExplained
  <2>3. QED
    BY <2>1, <2>2, <1>b DEF ListingInv
<1>5. CASE Create
  BY <1>5, CreateStep
<1>6. CASE \E t \in Id : Delete(t)
  BY <1>6, DeleteStep
<1>7. CASE UNCHANGED vars
  <2>1. UNCHANGED <<rows, created, pc, limit, offset, total, got, seen, kept, deletes, creates, late>>
    BY <1>7 DEF vars, table, client, history
  <2>2. TypeOK' /\ CountInv' /\ MissesExplained'
    BY <2>1, <1>a DEF TypeOK, CountInv, MissesExplained
  <2>3. QED
    BY <2>1, <2>2, <1>b DEF ListingInv
<1>8. QED
  BY <1>1, <1>2, <1>3, <1>4, <1>5, <1>6, <1>7 DEF Next

-----------------------------------------------------------------------------
(* Theorems.                                                                *)

\* A client never receives more rows than tasks were created.
THEOREM TypeCorrect == Spec => []TypeOK
<1>1. ListingInv => TypeOK
  BY DEF ListingInv
<1>2. QED
  BY <1>1, ListingInit, ListingStep, PTL DEF Spec

\* A client that has read the list to the end through List has missed at most
\* one task for each deletion meanwhile and one for each creation between the
\* last Count and its Find.
THEOREM MissesExplainedHolds == Spec => []MissesExplained
<1>1. ListingInv => MissesExplained
  BY DEF ListingInv
<1>2. QED
  BY <1>1, ListingInit, ListingStep, PTL DEF Spec

\* At most one task came twice for each creation meanwhile.
THEOREM RepeatsExplainedHolds == Spec => []RepeatsExplained
<1>1. ListingInv => RepeatsExplained
  <2>1. SUFFICES ASSUME ListingInv PROVE got - Cardinality(seen) <= creates
    BY DEF RepeatsExplained
  <2>2. TypeOK /\ SeenAheadInv
    BY <2>1 DEF ListingInv
  <2> DEFINE A == {t \in rows \cap seen : ~Passed(t)}
  <2>3. IsFiniteSet(seen) /\ got \in Nat /\ creates \in Nat
    BY <2>2, RowsFinite
  <2>4. Cardinality(A) \in Nat /\ Cardinality(seen) \in Nat
    BY <2>3, SubsetCard
  <2>5. (got - Cardinality(seen)) + Cardinality(A) <= creates
    BY <2>2 DEF SeenAheadInv
  <2> HIDE DEF A
  <2>6. QED
    BY <2>3, <2>4, <2>5
<1>2. QED
  BY <1>1, ListingInit, ListingStep, PTL DEF Spec
=============================================================================
