------------------------------ MODULE TaskCache ------------------------------
(***************************************************************************)
(* The read-through cache of TaskService: one row in Postgres, the Redis   *)
(* entry task:<id> that copies it, HTTP requests (Get, Delete) on any      *)
(* replica and the background calls of workers and the reconciler          *)
(* (BeginProcessing, ApplySummary, MarkPending).  Each service call is a   *)
(* database step and then a cache step, and any other call may run in      *)
(* between.  TaskPipeline shows from which status each update starts; the  *)
(* cache steps that follow overlap freely.  The row is abstracted to its   *)
(* status column, time to ticks.                                           *)
(***************************************************************************)
EXTENDS Naturals

CONSTANTS
    Client,     \* HTTP requests in flight
    Writer,     \* background callers: workers and the reconciler
    None,       \* no entry, no copy
    TTL,        \* the five minutes of cacheSet, in ticks
    MaxFaults   \* bound: Redis or Postgres calls that fail, callers that die

Status == {"pending", "processing", "completed"}

ASSUME CacheAssumption ==
    /\ Writer \cap Client = {}
    /\ None \notin Status \cup {"deleted"}
    /\ TTL \in Nat \ {0}
    /\ MaxFaults \in Nat

VARIABLES
    row,         \* status column, or "deleted"
    entry,       \* status in the cached copy, or None
    ttl,         \* ticks the entry has left
    pc,          \* next step of each caller
    copy,        \* row a caller has loaded and will put into the cache
    tainted,     \* history: the entry was filled with an outdated copy, or a
                 \* call that should have replaced it failed
    faultsLeft   \* failures that may still happen

vars == <<row, entry, ttl, pc, copy, tainted, faultsLeft>>

Caller == Client \cup Writer

\* Type correctness; what is loaded or cached is a row, never its absence, and
\* an entry always has time left.
TypeOK ==
    /\ row \in Status \cup {"deleted"}
    /\ entry \in Status \cup {None}
    /\ ttl \in 0..TTL
    /\ entry = None <=> ttl = 0
    /\ pc \in [Caller -> {"idle", "load", "fill", "invalidate"}]
    /\ copy \in [Caller -> Status \cup {None}]
    /\ \A p \in Caller : copy[p] # None <=> pc[p] = "fill"
    /\ tainted \in BOOLEAN
    /\ faultsLeft \in 0..MaxFaults

Init ==
    /\ row = "pending"
    /\ entry = None
    /\ ttl = 0
    /\ pc = [p \in Caller |-> "idle"]
    /\ copy = [p \in Caller |-> None]
    /\ tainted = FALSE
    /\ faultsLeft = MaxFaults

Goto(p, step) == pc' = [pc EXCEPT ![p] = step]

Fault == faultsLeft > 0 /\ faultsLeft' = faultsLeft - 1

-----------------------------------------------------------------------------
(* The first step of each call.                                             *)

\* Mutant: a hit renews the TTL.
Get_Renews(p) ==
    /\ p \in Client /\ pc[p] = "idle"
    /\ \/ entry # None /\ Goto(p, "idle") /\ ttl' = TTL /\ UNCHANGED faultsLeft
       \/ entry = None /\ Goto(p, "load") /\ UNCHANGED <<ttl, faultsLeft>>
       \/ Fault /\ Goto(p, "load") /\ UNCHANGED ttl
    /\ UNCHANGED <<row, entry, copy, tainted>>

\* Get: a warm entry answers; a miss or a Redis error falls through.
Get(p) ==
    /\ p \in Client /\ pc[p] = "idle"
    /\ \/ entry # None /\ Goto(p, "idle") /\ UNCHANGED faultsLeft
       \/ entry = None /\ Goto(p, "load") /\ UNCHANGED faultsLeft
       \/ Fault /\ Goto(p, "load")
    /\ UNCHANGED <<row, entry, ttl, copy, tainted>>

\* The UPDATE of a call, from one status to another, and its next step.
Write(p, from, to, step) ==
    /\ pc[p] = "idle"
    /\ row \in from
    /\ row' = to
    /\ Goto(p, step)
    /\ UNCHANGED <<entry, ttl, copy, tainted, faultsLeft>>

\* Mutant: the entry is left to its TTL.
Delete_NoInvalidate(p) == p \in Client /\ Write(p, Status, "deleted", "idle")

Delete(p) == p \in Client /\ Write(p, Status, "deleted", "invalidate")

BeginProcessing(p) == p \in Writer /\ Write(p, {"pending"}, "processing", "invalidate")

ApplySummary(p) == p \in Writer /\ Write(p, {"processing"}, "completed", "load")

MarkPending(p) == p \in Writer /\ Write(p, {"processing"}, "pending", "invalidate")

-----------------------------------------------------------------------------
(* The steps the calls share.                                               *)

\* A failure of a writer's cache step leaves whatever entry there was.
Spoils(p) == p \in Writer \/ pc[p] = "invalidate"

\* Mutant: the missing row is not told from a row.
Load_NoRowCheck(p) ==
    /\ pc[p] = "load"
    /\ copy' = [copy EXCEPT ![p] = row]
    /\ Goto(p, "fill")
    /\ UNCHANGED <<row, entry, ttl, tainted, faultsLeft>>

\* repo.GetByID: a missing row or an error ends the call without a fill.
Load(p) ==
    /\ pc[p] = "load"
    /\ \/ /\ row # "deleted"
          /\ copy' = [copy EXCEPT ![p] = row]
          /\ Goto(p, "fill")
          /\ UNCHANGED <<tainted, faultsLeft>>
       \/ row = "deleted" /\ Goto(p, "idle") /\ UNCHANGED <<copy, tainted, faultsLeft>>
       \/ Fault /\ Goto(p, "idle") /\ tainted' = (tainted \/ Spoils(p)) /\ UNCHANGED copy
    /\ UNCHANGED <<row, entry, ttl>>

\* cacheSet, with the TTL from now on; its error is only logged.
Fill(p) ==
    /\ pc[p] = "fill"
    /\ Goto(p, "idle")
    /\ copy' = [copy EXCEPT ![p] = None]
    /\ \/ entry' = copy[p] /\ ttl' = TTL /\ tainted' = (copy[p] # row) /\ UNCHANGED faultsLeft
       \/ Fault /\ tainted' = (tainted \/ Spoils(p)) /\ UNCHANGED <<entry, ttl>>
    /\ UNCHANGED row

\* cache.Del; its error is only logged.
Invalidate(p) ==
    /\ pc[p] = "invalidate"
    /\ Goto(p, "idle")
    /\ \/ entry' = None /\ ttl' = 0 /\ tainted' = FALSE /\ UNCHANGED faultsLeft
       \/ Fault /\ tainted' = TRUE /\ UNCHANGED <<entry, ttl>>
    /\ UNCHANGED <<row, copy>>

\* The caller's process dies, or its context ends, between its two steps.
Abort(p) ==
    /\ pc[p] # "idle"
    /\ Fault
    /\ Goto(p, "idle")
    /\ copy' = [copy EXCEPT ![p] = None]
    /\ tainted' = (tainted \/ Spoils(p))
    /\ UNCHANGED <<row, entry, ttl>>

\* Time passes; Redis drops an entry at the end of its TTL.
Tick ==
    /\ ttl > 0
    /\ ttl' = ttl - 1
    /\ entry' = IF ttl = 1 THEN None ELSE entry
    /\ tainted' = (tainted /\ ttl # 1)
    /\ UNCHANGED <<row, pc, copy, faultsLeft>>

Next ==
    \/ \E p \in Client : Get(p) \/ Delete(p)
    \/ \E p \in Writer : BeginProcessing(p) \/ ApplySummary(p) \/ MarkPending(p)
    \/ \E p \in Caller : Load(p) \/ Fill(p) \/ Invalidate(p) \/ Abort(p)
    \/ Tick

\* Time does pass; callers and requests need not go on.
Spec == Init /\ [][Next]_vars /\ WF_vars(Tick)

-----------------------------------------------------------------------------
(* Properties.                                                              *)

\* A call that has written the row and not yet dealt with the entry.
WriterPending ==
    \/ \E p \in Writer : pc[p] # "idle"
    \/ \E p \in Client : pc[p] = "invalidate"

\* When no writer is under way, an entry differs from its row only because a
\* Get or ApplySummary loaded the row before a write and filled the cache after
\* it, or because a cache step failed: every writer of TaskService that changes
\* a cached row deals with the entry.
StaleOnlyByRace ==
    (entry \notin {None, row} /\ ~WriterPending) => tainted

\* The entry of a deleted row is about to be dropped, or tainted: with it
\* StaleOnlyByRace is inductive.
DeletedEntryDoomed ==
    (row = "deleted" /\ entry # None) => tainted \/ \E p \in Client : pc[p] = "invalidate"

\* When the row is written no more, the cache agrees with it in the end and for
\* good, although Gets hit whatever entry there is without end, and calls that
\* loaded the row before the last write may fill the cache long after it.
EventuallyCoherent ==
    \A s \in Status \cup {"deleted"} : <>[](row = s) => <>[](entry \in {None, s})

\* "Delete removes a task and invalidates its cache entry": once no Delete is
\* under way, a deleted task has no entry for Get to answer from.
DeletedNotCached ==
    (row = "deleted" /\ \A p \in Client : pc[p] # "invalidate") => entry = None
=============================================================================
