----------------------------- MODULE TaskListing -----------------------------
(***************************************************************************)
(* GET /api/v1/tasks: handler, service and repository List.  One client    *)
(* reads the whole list page by page while others create and delete tasks. *)
(* List is two statements on no common snapshot, Count and then Find.      *)
(* Tasks are numbered in the order of created_at, which is assumed to tell *)
(* them apart; nothing else orders the pages.                              *)
(***************************************************************************)
EXTENDS Integers, FiniteSets

CONSTANTS
    MaxTasks,      \* bound: tasks ever created
    Limits,        \* values of the query's limit
    DefaultLimit,  \* what List puts in the place of a limit out of range
    MaxLimit       \* the largest limit it accepts

ASSUME LimitAssumption ==
    /\ MaxTasks \in Nat
    /\ Limits \subseteq Int
    /\ DefaultLimit \in 1..MaxLimit

VARIABLES
    rows,     \* tasks in the table
    created,  \* tasks created so far
    pc,       \* the client's request: none yet, before Count, before Find, all read
    limit,    \* the limit it asks for
    offset,   \* the offset it asks for
    total,    \* the count of the request under way
    got,      \* rows received so far
    seen,     \* tasks among them
    kept,     \* tasks there when the reading began and never deleted since
    deletes,  \* deletions since then
    creates,  \* creations since then
    late      \* creations since the Count of the request under way

table == <<rows, created>>
client == <<pc, limit, offset, total, got, seen>>
history == <<kept, deletes, creates, late>>
vars == <<table, client, history>>

Id == 1..MaxTasks

\* Type correctness; a client never receives more rows than tasks were created.
TypeOK ==
    /\ created \in 0..MaxTasks
    /\ rows \subseteq 1..created
    /\ pc \in {"idle", "count", "find", "done"}
    /\ limit \in Limits
    /\ offset \in -1..created
    /\ total \in 0..MaxTasks
    /\ got \in 0..created
    /\ seen \subseteq 1..created
    /\ kept \subseteq rows
    /\ {deletes, creates, late} \subseteq 0..MaxTasks

Init ==
    /\ created \in 0..MaxTasks
    /\ rows = 1..created
    /\ pc = "idle"
    /\ limit \in Limits
    /\ offset \in {-1, 0}
    /\ total = 0 /\ got = 0 /\ seen = {}
    /\ kept = {} /\ deletes = 0 /\ creates = 0 /\ late = 0

\* Mutant: the limit reaches the query as it came.
Clamped_Raw(l) == l

\* service.List.
Clamped(l) == IF l <= 0 \/ l > MaxLimit THEN DefaultLimit ELSE l

FromZero(o) == IF o < 0 THEN 0 ELSE o

\* ORDER BY created_at DESC: how many rows come before t.
Rank(t) == Cardinality({u \in rows : u > t})

\* Mutants: every page is the first one; a page begins with the last row of
\* the page before.
Page_First(l, o) == {t \in rows : Rank(t) < l}
Page_Overlaps(l, o) == {t \in rows : Rank(t) \in o - 1..o + l - 2}

Page(l, o) == {t \in rows : Rank(t) \in o..o + l - 1}

-----------------------------------------------------------------------------
Ask ==
    /\ pc = "idle"
    /\ pc' = "count"
    /\ kept' = rows
    /\ UNCHANGED <<table, limit, offset, total, got, seen, deletes, creates, late>>

Count ==
    /\ pc = "count"
    /\ pc' = "find"
    /\ total' = Cardinality(rows)
    /\ late' = 0
    /\ UNCHANGED <<table, limit, offset, got, seen, kept, deletes, creates>>

\* The page and the total are answered; the client asks for the rows after the
\* ones it has, until it has as many as there are or gets none.
Find ==
    /\ pc = "find"
    /\ LET page == Page(Clamped(limit), FromZero(offset)) IN
       /\ got' = got + Cardinality(page)
       /\ seen' = seen \cup page
       /\ offset' = got'
       /\ pc' = IF page = {} \/ got' >= total THEN "done" ELSE "count"
    /\ UNCHANGED <<table, limit, total, history>>

\* Either statement fails; the client asks again.
Fail ==
    /\ pc = "find"
    /\ pc' = "count"
    /\ UNCHANGED <<table, limit, offset, total, got, seen, history>>

Reading == pc \in {"count", "find"}

Create ==
    /\ pc # "done"
    /\ created < MaxTasks
    /\ created' = created + 1
    /\ rows' = rows \cup {created + 1}
    /\ creates' = IF Reading THEN creates + 1 ELSE creates
    /\ late' = IF Reading THEN late + 1 ELSE late
    /\ UNCHANGED <<client, kept, deletes>>

Delete(t) ==
    /\ pc # "done"
    /\ t \in rows
    /\ rows' = rows \ {t}
    /\ kept' = kept \ {t}
    /\ deletes' = IF Reading THEN deletes + 1 ELSE deletes
    /\ UNCHANGED <<created, client, creates, late>>

Next == Ask \/ Count \/ Find \/ Fail \/ Create \/ \E t \in Id : Delete(t)

Spec == Init /\ [][Next]_vars

-----------------------------------------------------------------------------
(* Properties.                                                              *)

\* A client that has read to the end has missed at most one task for each task
\* deleted meanwhile, whose row made the later ones move up, and one for each
\* task created between the last Count and its Find, which the total lacks.
MissesExplained ==
    pc = "done" => Cardinality(kept \ seen) <= deletes + late

\* It was given at most one task twice for each task created meanwhile, whose
\* row made the others move down.
RepeatsExplained == got - Cardinality(seen) <= creates

-----------------------------------------------------------------------------
(* The inductive invariant behind TypeOK, MissesExplained, RepeatsExplained. *)

Passed(t) == Rank(t) < got

\* Rows counted, and asked for from where the client stands.
CountInv ==
    /\ offset = got \/ (offset = -1 /\ got = 0)
    /\ pc = "idle" => seen = {} /\ got = 0 /\ kept = {} /\ deletes = 0 /\ creates = 0 /\ late = 0
    /\ pc = "find" => Cardinality(rows) <= total + late
    /\ Cardinality(rows) + deletes <= created
    /\ creates <= created /\ late <= creates

\* A task that moved past the client unseen was made to by a deletion.
PassedUnseenInv == Cardinality({t \in kept \ seen : Passed(t)}) <= deletes

\* A task given to the client before was made to come again by a creation, or
\* will be.
SeenAheadInv ==
    (got - Cardinality(seen)) + Cardinality({t \in rows \cap seen : ~Passed(t)}) <= creates

ListingInv == TypeOK /\ CountInv /\ PassedUnseenInv /\ SeenAheadInv /\ MissesExplained
=============================================================================
