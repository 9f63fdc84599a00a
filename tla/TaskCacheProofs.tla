--------------------------- MODULE TaskCacheProofs ---------------------------
(***************************************************************************)
(* Proofs about TaskCache, for any number of requests and of failures.     *)
(***************************************************************************)
EXTENDS TaskCache, TLAPS

CacheInv == TypeOK /\ StaleOnlyByRace /\ DeletedEntryDoomed

\* Every step keeps the state well typed.
LEMMA CacheType == TypeOK /\ [Next]_vars => TypeOK'
<1> SUFFICES ASSUME TypeOK, [Next]_vars PROVE TypeOK'
  OBVIOUS
<1> USE CacheAssumption DEF TypeOK, Goto, Fault, Caller, Status
<1>1. ASSUME NEW p \in Client, Get(p) PROVE TypeOK'
  BY <1>1 DEF Get
<1>2. ASSUME NEW p \in Client, Delete(p) PROVE TypeOK'
  BY <1>2 DEF Delete, Write
<1>3. ASSUME NEW p \in Writer, BeginProcessing(p) \/ ApplySummary(p) \/ MarkPending(p)
      PROVE  TypeOK'
  BY <1>3 DEF BeginProcessing, ApplySummary, MarkPending, Write
<1>4. ASSUME NEW p \in Caller, Load(p) PROVE TypeOK'
  <2>1. tainted' \in BOOLEAN
    BY <1>4, Zenon DEF Load
  <2>2. UNCHANGED <<row, entry, ttl>> /\ faultsLeft' \in 0..MaxFaults
    BY <1>4 DEF Load
  <2>3. CASE row # "deleted" /\ copy' = [copy EXCEPT ![p] = row] /\ Goto(p, "fill")
    BY <2>1, <2>2, <2>3
  <2>4. CASE Goto(p, "idle") /\ UNCHANGED copy
    BY <1>4, <2>1, <2>2, <2>4 DEF Load
  <2>5. QED
    BY <1>4, <2>3, <2>4 DEF Load
<1>5. ASSUME NEW p \in Caller, Fill(p) PROVE TypeOK'
  <2>1. tainted' \in BOOLEAN
    BY <1>5, Zenon DEF Fill
  <2>2. copy[p] \in Status
    BY <1>5 DEF Fill
  <2>3. faultsLeft' \in 0..MaxFaults /\ row' = row
    BY <1>5 DEF Fill
  <2>4. /\ entry' \in Status \cup {None} /\ ttl' \in 0..TTL
        /\ entry' = None <=> ttl' = 0
    BY <1>5, <2>2 DEF Fill
  <2>5. pc' = [pc EXCEPT ![p] = "idle"] /\ copy' = [copy EXCEPT ![p] = None]
    BY <1>5 DEF Fill
  <2>6. QED
    BY <2>1, <2>3, <2>4, <2>5
<1>6. ASSUME NEW p \in Caller, Invalidate(p) PROVE TypeOK'
  <2>1. tainted' \in BOOLEAN
    BY <1>6, Zenon DEF Invalidate
  <2>2. QED
    BY <1>6, <2>1 DEF Invalidate
<1>7. ASSUME NEW p \in Caller, Abort(p) PROVE TypeOK'
  <2>1. tainted' \in BOOLEAN
    BY <1>7, Zenon DEF Abort
  <2>2. QED
    BY <1>7, <2>1 DEF Abort
<1>8. CASE Tick
  <2>1. tainted' \in BOOLEAN
    BY <1>8, Zenon DEF Tick
  <2>2. QED
    BY <1>8, <2>1 DEF Tick
<1>9. CASE UNCHANGED vars
  BY <1>9 DEF vars
<1>10. QED
  BY <1>1, <1>2, <1>3, <1>4, <1>5, <1>6, <1>7, <1>8, <1>9 DEF Next

\* Every step preserves the invariant.
LEMMA CacheStep == CacheInv /\ [Next]_vars => CacheInv'
<1> SUFFICES ASSUME CacheInv, [Next]_vars PROVE StaleOnlyByRace' /\ DeletedEntryDoomed'
  BY CacheType DEF CacheInv
<1> USE CacheAssumption
    DEF CacheInv, TypeOK, StaleOnlyByRace, DeletedEntryDoomed, WriterPending, Goto, Caller, Status
<1>1. ASSUME NEW p \in Client, Get(p) PROVE StaleOnlyByRace' /\ DeletedEntryDoomed'
  BY <1>1 DEF Get
<1>2. ASSUME NEW p \in Client, Delete(p) PROVE StaleOnlyByRace' /\ DeletedEntryDoomed'
  BY <1>2 DEF Delete, Write
<1>3. ASSUME NEW p \in Writer, BeginProcessing(p) \/ ApplySummary(p) \/ MarkPending(p)
      PROVE  StaleOnlyByRace' /\ DeletedEntryDoomed'
  BY <1>3 DEF BeginProcessing, ApplySummary, MarkPending, Write
<1>4. ASSUME NEW p \in Caller, Load(p) PROVE StaleOnlyByRace' /\ DeletedEntryDoomed'
  BY <1>4 DEF Load, Spoils
<1>5. ASSUME NEW p \in Caller, Fill(p) PROVE StaleOnlyByRace' /\ DeletedEntryDoomed'
  BY <1>5 DEF Fill, Spoils
<1>6. ASSUME NEW p \in Caller, Invalidate(p) PROVE StaleOnlyByRace' /\ DeletedEntryDoomed'
  BY <1>6 DEF Invalidate
<1>7. ASSUME NEW p \in Caller, Abort(p) PROVE StaleOnlyByRace' /\ DeletedEntryDoomed'
  BY <1>7 DEF Abort, Spoils
<1>8. CASE Tick
  BY <1>8 DEF Tick
<1>9. CASE UNCHANGED vars
  BY <1>9 DEF vars
<1>10. QED
  BY <1>1, <1>2, <1>3, <1>4, <1>5, <1>6, <1>7, <1>8, <1>9 DEF Next

\* The initial state satisfies the invariant.
LEMMA CacheInit == Init => CacheInv
<1> SUFFICES ASSUME Init PROVE CacheInv
  OBVIOUS
<1>1. TypeOK
  <2>1. pc \in [Caller -> {"idle", "load", "fill", "invalidate"}]
    BY DEF Init
  <2>2. copy \in [Caller -> Status \cup {None}]
    BY DEF Init
  <2>3. tainted \in BOOLEAN
    BY DEF Init
  <2>4. QED
    BY <2>1, <2>2, <2>3, CacheAssumption DEF Init, TypeOK, Status
<1>2. QED
  BY <1>1 DEF Init, CacheInv, StaleOnlyByRace, DeletedEntryDoomed

\* Whatever the interleaving of requests, writers, time and failures, an outdated
\* entry of the task cache comes from an overlapped fill or a failed cache
\* step, never from a writer that forgot the entry.
THEOREM StaleOnlyByRaceHolds == Spec => []StaleOnlyByRace
<1>1. CacheInv => StaleOnlyByRace
  BY DEF CacheInv
<1>2. QED
  BY <1>1, CacheInit, CacheStep, PTL DEF Spec

\* The entry and every copy a request carries are states a row can be in, and a
\* fill never caches nothing.
THEOREM TypeCorrect == Spec => []TypeOK
<1>1. CacheInv => TypeOK
  BY DEF CacheInv
<1>2. QED
  BY <1>1, CacheInit, CacheStep, PTL DEF Spec
=============================================================================
