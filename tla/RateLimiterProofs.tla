-------------------------- MODULE RateLimiterProofs --------------------------
(***************************************************************************)
(* Proofs about RateLimiter, for every limit, window, burst and number of  *)
(* Redis outages.                                                          *)
(***************************************************************************)
EXTENDS RateLimiter, FiniteSetTheorems, TLAPS

\* What is kept of the admitted requests is finite.
LEMMA AdmittedFinite ==
    ASSUME TypeOK
    PROVE  IsFiniteSet(admitted) /\ Cardinality(admitted) \in Nat
<1>1. IsFiniteSet(1..Window) /\ IsFiniteSet(1..MaxBurst)
  BY LimiterAssumption, FS_Interval
<1>2. IsFiniteSet((1..Window) \X (1..MaxBurst))
  BY <1>1, FS_Product
<1>3. QED
  BY <1>2, FS_Subset, FS_CardinalityType DEF TypeOK

\* A tick later the history of requests is one, moved on by one place.
LEMMA ShiftedType ==
    ASSUME TypeOK
    PROVE  /\ Shifted \in [1..Window -> 0..MaxBurst]
           /\ \A i \in 1..Window - 1 : Shifted[i + 1] = requests[i]
  BY LimiterAssumption DEF Shifted, TypeOK

\* A tick later the admitted requests are among those of before, each a tick
\* older, so there are no more of them.
LEMMA AgedType ==
    ASSUME TypeOK
    PROVE  /\ Aged \subseteq (1..Window) \X (1..MaxBurst)
           /\ \A p \in Aged : p[1] - 1 \in 1..Window - 1 /\ <<p[1] - 1, p[2]>> \in admitted
           /\ IsFiniteSet(Aged) /\ Cardinality(Aged) \in Nat
           /\ Cardinality(Aged) <= Cardinality(admitted)
<1>1. ASSUME NEW q \in admitted
      PROVE  /\ q = <<q[1], q[2]>> /\ q[1] \in 1..Window /\ q[2] \in 1..MaxBurst
             /\ q[1] \in Int
  BY LimiterAssumption DEF TypeOK
<1>2. ASSUME NEW p \in Aged
      PROVE  /\ p \in (1..Window) \X (1..MaxBurst)
             /\ p[1] - 1 \in 1..Window - 1 /\ <<p[1] - 1, p[2]>> \in admitted
             /\ p = <<p[1], p[2]>> /\ p[1] \in Int
  <2>1. PICK q \in admitted : q[1] < Window /\ p = <<q[1] + 1, q[2]>>
    BY DEF Aged
  <2>2. /\ q = <<q[1], q[2]>> /\ q[1] \in 1..Window /\ q[2] \in 1..MaxBurst
        /\ q[1] \in Int
    BY <1>1
  <2>3. p[1] = q[1] + 1 /\ p[2] = q[2]
    BY <2>1
  <2>4. p[1] \in 1..Window /\ p[1] - 1 = q[1] /\ q[1] \in 1..Window - 1
    BY <2>1, <2>2, <2>3, LimiterAssumption
  <2>5. QED
    BY <2>1, <2>2, <2>3, <2>4
<1> DEFINE f == [p \in Aged |-> <<p[1] - 1, p[2]>>]
<1>3. f \in [Aged -> admitted]
  BY <1>2
<1>4. ASSUME NEW p \in Aged, NEW q \in Aged, f[p] = f[q]
      PROVE  p = q
  <2>1. p[1] - 1 = q[1] - 1 /\ p[2] = q[2]
    BY <1>4
  <2>2. p[1] = q[1]
    <3>1. p[1] \in Int /\ q[1] \in Int
      BY <1>2
    <3> HIDE DEF f
    <3>2. QED
      BY <2>1, <3>1
  <2>3. p = <<p[1], p[2]>> /\ q = <<q[1], q[2]>>
    BY <1>2
  <2>4. QED
    BY <2>1, <2>2, <2>3
<1>5. f \in Injection(Aged, admitted)
  BY <1>3, <1>4 DEF Injection, IsInjective
<1>6. IsFiniteSet(Aged) /\ Cardinality(Aged) <= Cardinality(admitted)
  BY <1>5, AdmittedFinite, FS_Injection
<1>7. QED
  BY <1>2, <1>6, FS_CardinalityType

\* One more request in a tick that has room for it.
LEMMA RecordType ==
    ASSUME TypeOK, requests[1] < MaxBurst, requests' = [requests EXCEPT ![1] = @ + 1]
    PROVE  /\ requests' \in [1..Window -> 0..MaxBurst]
           /\ requests'[1] = requests[1] + 1
           /\ requests[1] + 1 \in 1..MaxBurst
           /\ \A i \in 1..Window : requests[i] \in Nat /\ requests[i] <= requests'[i]
  BY LimiterAssumption DEF TypeOK

\* The initial state satisfies the invariant.
LEMMA LimiterInit == Init => LimiterInv
<1> SUFFICES ASSUME Init PROVE LimiterInv
  OBVIOUS
<1>1. TypeOK /\ KeyBacked
  BY LimiterAssumption DEF Init, TypeOK, KeyBacked
<1>2. Cardinality(admitted) = 0 /\ admitted = {}
  BY FS_EmptySet DEF Init
<1>3. AdmittedCounted /\ AdmittedBounded
  BY <1>2, LimiterAssumption DEF Init, AdmittedCounted, AdmittedBounded
<1>4. QED
  BY <1>1, <1>3 DEF LimiterInv

\* A request that runs the transaction leaves a key that lives for one window.
LEMMA IncrementStep ==
    ASSUME LimiterInv, Increment, count < MaxCount, requests[1] < MaxBurst,
           requests' = [requests EXCEPT ![1] = @ + 1]
    PROVE  count' = count + 1 /\ count' \in 0..MaxCount /\ ttl' = Window /\ KeyBacked'
  BY RecordType, LimiterAssumption DEF LimiterInv, Increment, TypeOK, KeyBacked

\* A request admitted before is one still, of a tick as long ago.
LEMMA AdmittedStays ==
    ASSUME LimiterInv, requests[1] < MaxBurst, requests' = [requests EXCEPT ![1] = @ + 1],
           ttl' \in {ttl, Window}, NEW p \in admitted
    PROVE  p[2] <= requests'[p[1]] /\ p[1] > Window - ttl'
<1>1. p[1] \in 1..Window /\ p[2] \in 1..MaxBurst /\ ttl \in 0..Window
  BY DEF LimiterInv, TypeOK
<1>2. p[2] <= requests[p[1]] /\ p[1] > Window - ttl
  BY DEF LimiterInv, AdmittedCounted
<1>3. requests[p[1]] \in Nat /\ requests[p[1]] <= requests'[p[1]] /\ requests'[p[1]] \in Nat
  BY <1>1, RecordType, LimiterAssumption DEF LimiterInv
<1>4. p[2] <= requests'[p[1]]
  BY <1>1, <1>2, <1>3, LimiterAssumption
<1>5. p[1] > Window - ttl'
  BY <1>1, <1>2, LimiterAssumption
<1>6. QED
  BY <1>4, <1>5

\* A request is let through only while the counter, which has counted all that
\* were let through before, stays within the limit.
LEMMA RequestStep ==
    ASSUME LimiterInv, Request
    PROVE  LimiterInv'
<1>a. TypeOK /\ KeyBacked /\ AdmittedCounted /\ AdmittedBounded
  BY DEF LimiterInv
<1>b. /\ requests[1] < MaxBurst /\ count < MaxCount /\ Increment
      /\ requests' = [requests EXCEPT ![1] = @ + 1]
      /\ verdict' \in {"429", "next"} /\ outagesLeft' = outagesLeft
      /\ admitted' = IF Exceeds(count + 1) THEN admitted
                     ELSE admitted \cup {<<1, requests[1] + 1>>}
  BY DEF Request
<1>c. /\ requests' \in [1..Window -> 0..MaxBurst]
      /\ requests'[1] = requests[1] + 1
      /\ requests[1] + 1 \in 1..MaxBurst
  BY <1>a, <1>b, RecordType
<1>d. count' = count + 1 /\ count' \in 0..MaxCount /\ ttl' = Window /\ KeyBacked'
  BY <1>b, IncrementStep
<1>e. IsFiniteSet(admitted) /\ Cardinality(admitted) \in Nat /\ count \in Nat
      /\ Cardinality(admitted) <= count /\ Cardinality(admitted) <= Limit /\ Limit \in Nat
  BY <1>a, AdmittedFinite, LimiterAssumption DEF AdmittedCounted, AdmittedBounded, TypeOK
<1>f. \A p \in admitted : p[2] <= requests'[p[1]] /\ p[1] > Window - ttl'
  BY <1>b, <1>d, AdmittedStays
<1>g. ttl' \in 0..Window /\ outagesLeft' \in 0..MaxOutages
      /\ verdict' \in {"none", "next", "429", "open"}
  BY <1>a, <1>b, <1>d, LimiterAssumption DEF TypeOK
<1>1. CASE Exceeds(count + 1)
  <2>1. admitted' = admitted
    BY <1>1, <1>b
  <2>2. TypeOK'
    BY <2>1, <1>a, <1>c, <1>d, <1>g DEF TypeOK
  <2>3. AdmittedCounted' /\ AdmittedBounded'
    BY <2>1, <1>d, <1>e, <1>f DEF AdmittedCounted, AdmittedBounded
  <2>4. QED
    BY <2>2, <2>3, <1>d DEF LimiterInv
<1>2. CASE ~Exceeds(count + 1)
  <2> DEFINE new == <<1, requests[1] + 1>>
  <2>1. admitted' = admitted \cup {new}
    BY <1>2, <1>b
  <2>2. new \in (1..Window) \X (1..MaxBurst) /\ new[1] = 1 /\ new[2] = requests'[1]
    BY <1>c, LimiterAssumption
  <2>3. TypeOK'
    BY <2>1, <2>2, <1>a, <1>c, <1>d, <1>g DEF TypeOK
  <2>4. new[2] <= requests'[new[1]] /\ new[1] > Window - ttl'
    BY <2>2, <1>c, <1>d, LimiterAssumption
  <2> HIDE DEF new
  <2>5. \A p \in admitted' : p[2] <= requests'[p[1]] /\ p[1] > Window - ttl'
    BY <2>1, <2>4, <1>f
  <2>6. Cardinality(admitted') \in Nat /\ Cardinality(admitted') <= Cardinality(admitted) + 1
    <3>1. /\ IsFiniteSet(admitted \cup {new})
          /\ Cardinality(admitted \cup {new}) =
               IF new \in admitted THEN Cardinality(admitted) ELSE Cardinality(admitted) + 1
      BY <1>e, FS_AddElement
    <3>2. QED
      BY <2>1, <3>1, <1>e
  <2>7. count + 1 <= Limit
    BY <1>2, <1>e DEF Exceeds
  <2>8. Cardinality(admitted') <= count' /\ Cardinality(admitted') <= Limit
    BY <2>6, <2>7, <1>d, <1>e
  <2>9. QED
    BY <2>3, <2>5, <2>8, <1>d DEF LimiterInv, AdmittedCounted, AdmittedBounded
<1>3. QED
  BY <1>1, <1>2

\* A request let through because Redis did not answer is not of the admitted
\* ones, whether or not it was counted.
LEMMA RequestFailsOpenStep ==
    ASSUME LimiterInv, RequestFailsOpen
    PROVE  LimiterInv'
<1>a. TypeOK /\ KeyBacked /\ AdmittedCounted /\ AdmittedBounded
  BY DEF LimiterInv
<1>b. /\ requests[1] < MaxBurst /\ count < MaxCount
      /\ Increment \/ (count' = count /\ ttl' = ttl)
      /\ requests' = [requests EXCEPT ![1] = @ + 1]
      /\ verdict' = "open" /\ admitted' = admitted /\ outagesLeft' \in 0..MaxOutages
  BY <1>a, LimiterAssumption DEF RequestFailsOpen, TypeOK
<1>c. /\ requests' \in [1..Window -> 0..MaxBurst]
      /\ \A i \in 1..Window : requests[i] \in Nat /\ requests[i] <= requests'[i]
  BY <1>a, <1>b, RecordType
<1>1. /\ count' \in {count, count + 1} /\ count' \in 0..MaxCount
      /\ ttl' \in {ttl, Window} /\ ttl' \in 0..Window /\ KeyBacked'
  <2>1. CASE Increment
    BY <2>1, <1>b, IncrementStep, LimiterAssumption
  <2>2. CASE count' = count /\ ttl' = ttl
    <3>1. ttl > 0 => Window - ttl + 1 \in 1..Window
      BY <1>a, LimiterAssumption DEF TypeOK
    <3>2. ttl > 0 => requests'[Window - ttl + 1] > 0
      <4>1. SUFFICES ASSUME ttl > 0 PROVE requests'[Window - ttl + 1] > 0
        OBVIOUS
      <4> DEFINE i == Window - ttl + 1
      <4>2. i \in 1..Window /\ requests[i] > 0
        BY <3>1, <4>1, <1>a DEF KeyBacked
      <4>3. requests[i] \in Nat /\ requests'[i] \in Nat /\ requests[i] <= requests'[i]
        BY <4>2, <1>c, LimiterAssumption
      <4> HIDE DEF i
      <4>4. requests'[i] > 0
        BY <4>2, <4>3
      <4>5. QED
        BY <4>4 DEF i
    <3>3. QED
      BY <2>2, <3>2, <1>a DEF KeyBacked, TypeOK
  <2>3. QED
    BY <2>1, <2>2, <1>b
<1>2. TypeOK'
  BY <1>1, <1>a, <1>b, <1>c DEF TypeOK
<1>3. \A p \in admitted : p[2] <= requests'[p[1]] /\ p[1] > Window - ttl'
  BY <1>1, <1>b, AdmittedStays
<1>4. Cardinality(admitted) <= count'
  BY <1>1, <1>a, AdmittedFinite DEF AdmittedCounted, TypeOK
<1>5. AdmittedBounded'
  BY <1>a, <1>b DEF AdmittedBounded
<1>6. QED
  BY <1>1, <1>2, <1>3, <1>4, <1>5, <1>b DEF LimiterInv, AdmittedCounted

\* When the key goes away, the last request let through leaves the window.
LEMMA TickStep ==
    ASSUME LimiterInv, Tick
    PROVE  LimiterInv'
<1>a. TypeOK /\ KeyBacked /\ AdmittedCounted /\ AdmittedBounded
  BY DEF LimiterInv
<1>b. /\ ttl' = IF ttl > 0 THEN ttl - 1 ELSE 0
      /\ count' = IF ttl = 1 THEN 0 ELSE count
      /\ requests' = Shifted /\ admitted' = Aged
      /\ verdict' = "none" /\ outagesLeft' = outagesLeft
  BY DEF Tick
<1>c. /\ requests' \in [1..Window -> 0..MaxBurst]
      /\ \A i \in 1..Window - 1 : requests'[i + 1] = requests[i]
  BY <1>a, <1>b, ShiftedType
<1>d. /\ admitted' \subseteq (1..Window) \X (1..MaxBurst)
      /\ \A p \in admitted' : p[1] - 1 \in 1..Window - 1 /\ <<p[1] - 1, p[2]>> \in admitted
      /\ Cardinality(admitted') \in Nat
      /\ Cardinality(admitted') <= Cardinality(admitted)
  BY <1>a, <1>b, AgedType
<1>e. /\ ttl \in 0..Window /\ count \in 0..MaxCount /\ Window \in Nat /\ Limit \in Nat
      /\ Cardinality(admitted) \in Nat
  BY <1>a, AdmittedFinite, LimiterAssumption DEF TypeOK
<1>1. count' \in 0..MaxCount /\ ttl' \in 0..Window /\ (count' > 0 <=> ttl' > 0)
  BY <1>b, <1>e, <1>a, LimiterAssumption DEF KeyBacked
<1>2. ttl' > 0 => requests'[Window - ttl' + 1] > 0
  <2>1. SUFFICES ASSUME ttl' > 0 PROVE requests'[Window - ttl' + 1] > 0
    OBVIOUS
  <2>2. ttl > 1 /\ ttl' = ttl - 1
    BY <2>1, <1>b, <1>e
  <2>3. Window - ttl + 1 \in 1..Window - 1 /\ Window - ttl' + 1 = (Window - ttl + 1) + 1
    BY <2>2, <1>e
  <2>4. requests[Window - ttl + 1] > 0
    BY <2>2, <1>a, <1>e DEF KeyBacked
  <2>5. QED
    BY <2>3, <2>4, <1>c
<1>3. TypeOK'
  BY <1>1, <1>a, <1>b, <1>c, <1>d DEF TypeOK
<1>4. ASSUME NEW p \in admitted'
      PROVE  p[2] <= requests'[p[1]] /\ p[1] > Window - ttl' /\ ttl > 1
  <2> DEFINE q == <<p[1] - 1, p[2]>>
  <2>1. q \in admitted /\ p[1] - 1 \in 1..Window - 1 /\ p[1] \in Int
    BY <1>d
  <2>2. p[2] <= requests[p[1] - 1] /\ p[1] - 1 > Window - ttl
    BY <2>1, <1>a DEF AdmittedCounted
  <2>3. requests'[p[1]] = requests[p[1] - 1]
    <3>1. requests'[(p[1] - 1) + 1] = requests[p[1] - 1] /\ (p[1] - 1) + 1 = p[1]
      BY <2>1, <1>c
    <3>2. QED
      BY <3>1
  <2>4. ttl > 1 /\ p[1] > Window - ttl'
    BY <2>1, <2>2, <1>b, <1>e
  <2>5. QED
    BY <2>2, <2>3, <2>4
<1>5. Cardinality(admitted') <= count'
  <2>1. CASE admitted' = {}
    BY <2>1, <1>1, FS_EmptySet
  <2>2. CASE admitted' # {}
    <3>1. ttl > 1
      BY <2>2, <1>4
    <3>2. count' = count
      BY <3>1, <1>b, <1>e
    <3>3. QED
      BY <3>2, <1>a, <1>d, <1>e DEF AdmittedCounted
  <2>3. QED
    BY <2>1, <2>2
<1>6. AdmittedBounded'
  BY <1>a, <1>d, <1>e DEF AdmittedBounded
<1>7. QED
  BY <1>1, <1>2, <1>3, <1>4, <1>5, <1>6 DEF LimiterInv, KeyBacked, AdmittedCounted

\* Every step preserves the invariant.
LEMMA LimiterStep == LimiterInv /\ [Next]_vars => LimiterInv'
<1> SUFFICES ASSUME LimiterInv, [Next]_vars PROVE LimiterInv'
  OBVIOUS
<1>1. CASE UNCHANGED vars
  BY <1>1 DEF vars, LimiterInv, TypeOK, KeyBacked, AdmittedCounted, AdmittedBounded
<1>2. QED
  BY <1>1, RequestStep, RequestFailsOpenStep, TickStep DEF Next

\* The key never outlives the window it was last extended for.
THEOREM TypeCorrect == Spec => []TypeOK
<1>1. LimiterInv => TypeOK
  BY DEF LimiterInv
<1>2. QED
  BY <1>1, LimiterInit, LimiterStep, PTL DEF Spec

\* Although every request extends the key, a client silent for one window finds
\* no counter.
THEOREM SilenceReadmitsHolds == Spec => []SilenceReadmits
<1>1. LimiterInv => SilenceReadmits
  BY LimiterAssumption DEF LimiterInv, TypeOK, KeyBacked, SilenceReadmits
<1>2. QED
  BY <1>1, LimiterInit, LimiterStep, PTL DEF Spec

\* The counter of redisRateIncrementer lets no more than Limit requests through
\* in any stretch of Window ticks.
THEOREM AdmittedBoundedHolds == Spec => []AdmittedBounded
<1>1. LimiterInv => AdmittedBounded
  BY DEF LimiterInv
<1>2. QED
  BY <1>1, LimiterInit, LimiterStep, PTL DEF Spec
=============================================================================
