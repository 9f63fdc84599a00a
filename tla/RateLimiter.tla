----------------------------- MODULE RateLimiter -----------------------------
(***************************************************************************)
(* The request limiter of the /api/v1 group for one client address:        *)
(* middleware.RateLimiter over the counter of main.redisRateIncrementer,   *)
(* which runs INCR and EXPIRE in one transaction on every request.  Time   *)
(* is counted in ticks.  The history of the last Window ticks is kept only *)
(* to state the properties.                                                *)
(***************************************************************************)
EXTENDS Naturals, FiniteSets, SequencesExt

CONSTANTS
    Limit,       \* rateLimitRequests
    Window,      \* rateLimitWindow, in ticks
    MaxBurst,    \* bound: requests of the client in one tick
    MaxCount,    \* bound: value the counter is followed up to
    MaxOutages   \* bound: requests during which Redis cannot be reached

ASSUME LimiterAssumption ==
    /\ Limit \in Nat \ {0} /\ Window \in Nat \ {0}
    /\ MaxBurst \in Nat \ {0} /\ MaxCount \in Nat /\ MaxOutages \in Nat
    /\ MaxCount > Limit

VARIABLES
    count,        \* value of the Redis key, 0 when there is none
    ttl,          \* ticks until the key expires, 0 when there is none
    requests,     \* history: requests in each of the last Window ticks, newest first
    admitted,     \* history: <<tick, number>> of those the limiter let through, by the
                  \* tick they came in and their place among its requests
    verdict,      \* answer to the last request
    outagesLeft   \* Redis failures that may still happen

vars == <<count, ttl, requests, admitted, verdict, outagesLeft>>

\* Type correctness; the key never outlives the window it was last extended for.
TypeOK ==
    /\ count \in 0..MaxCount /\ ttl \in 0..Window
    /\ requests \in [1..Window -> 0..MaxBurst]
    /\ admitted \subseteq (1..Window) \X (1..MaxBurst)
    /\ verdict \in {"none", "next", "429", "open"}
    /\ outagesLeft \in 0..MaxOutages

Init ==
    /\ count = 0 /\ ttl = 0
    /\ requests = [i \in 1..Window |-> 0] /\ admitted = {}
    /\ verdict = "none"
    /\ outagesLeft = MaxOutages

\* Mutant: EXPIRE is left out, so the key never goes away.
Increment_NoExpire ==
    /\ count' = count + 1
    /\ ttl' = ttl

\* Mutant: the key outlives the window.
Increment_LateExpire ==
    /\ count' = count + 1
    /\ ttl' = Window + 1

\* INCR and EXPIRE, as one transaction.
Increment ==
    /\ count' = count + 1
    /\ ttl' = Window

\* Mutant: the request after the limit is let through.
Exceeds_OneMore(n) == n > Limit + 1

Exceeds(n) == n > Limit

\* A request that reaches Redis is let through or answered with 429.
Request ==
    /\ requests[1] < MaxBurst /\ count < MaxCount
    /\ Increment
    /\ requests' = [requests EXCEPT ![1] = @ + 1]
    /\ verdict' = IF Exceeds(count + 1) THEN "429" ELSE "next"
    /\ admitted' = IF Exceeds(count + 1) THEN admitted
                   ELSE admitted \cup {<<1, requests[1] + 1>>}
    /\ UNCHANGED outagesLeft

\* Redis is out of reach, or its answer is lost: the request is let through, by
\* the outage and not by the counter.
RequestFailsOpen ==
    /\ requests[1] < MaxBurst /\ count < MaxCount
    /\ outagesLeft > 0
    /\ outagesLeft' = outagesLeft - 1
    /\ Increment \/ UNCHANGED <<count, ttl>>
    /\ requests' = [requests EXCEPT ![1] = @ + 1]
    /\ verdict' = "open"
    /\ UNCHANGED admitted

\* Both histories, one tick later.
Shifted == [i \in 1..Window |-> IF i = 1 THEN 0 ELSE requests[i - 1]]
Aged == {<<p[1] + 1, p[2]>> : p \in {q \in admitted : q[1] < Window}}

Tick ==
    /\ ttl' = IF ttl > 0 THEN ttl - 1 ELSE 0
    /\ count' = IF ttl = 1 THEN 0 ELSE count
    /\ requests' = Shifted
    /\ admitted' = Aged
    /\ verdict' = "none"
    /\ UNCHANGED outagesLeft

Next == Request \/ RequestFailsOpen \/ Tick

Spec == Init /\ [][Next]_vars

-----------------------------------------------------------------------------
(* Properties.                                                              *)

\* No stretch of Window ticks, wherever it begins, sees more than Limit
\* requests let through by the counter.
AdmittedBounded == Cardinality(admitted) <= Limit

\* Retry-After names the whole window: a client silent for that long, refused
\* or not, finds no counter.
SilenceReadmits == (\A i \in 1..Window : requests[i] = 0) => count = 0

Total(history) == FoldLeft(LAMBDA sum, n : sum + n, 0, history)

\* "RateLimiter is a fixed-window limiter": a client that never sends more than
\* Limit requests in any Window ticks is not refused.
ModestClientServed == verdict = "429" => Total(requests) > Limit

-----------------------------------------------------------------------------
(* The inductive invariant behind TypeOK, SilenceReadmits, AdmittedBounded. *)

\* What makes SilenceReadmits inductive: the counter lives as long as its key,
\* and the request that last extended the key is still in the history.
KeyBacked ==
    /\ count > 0 <=> ttl > 0
    /\ ttl > 0 => requests[Window - ttl + 1] > 0

\* What makes AdmittedBounded inductive: each request let through was one of its
\* tick's, came while the key has lived, and is counted.
AdmittedCounted ==
    /\ \A p \in admitted : p[2] <= requests[p[1]] /\ p[1] > Window - ttl
    /\ Cardinality(admitted) <= count

LimiterInv == TypeOK /\ KeyBacked /\ AdmittedCounted /\ AdmittedBounded
=============================================================================
