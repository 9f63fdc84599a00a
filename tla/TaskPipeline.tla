----------------------------- MODULE TaskPipeline -----------------------------
(***************************************************************************)
(* The asynchronous path of a task through every replica of the API:       *)
(*                                                                         *)
(*   HTTP create  -> service.Create: commit, then publish task.created     *)
(*   RabbitMQ     -> broker.Consumer: deliver, ack, retry, dead-letter     *)
(*   worker       -> TaskSummarizer.Handle: dedupe, claim, LLM, apply      *)
(*   reconciler   -> Sweep: find stale rows, reset, republish              *)
(*                                                                         *)
(* A replica runs one consumer (its handler runs one delivery at a time),  *)
(* any number of create requests and, when RECONCILER_ENABLED, one sweep   *)
(* loop.  One action is one call that reaches Postgres, Redis, RabbitMQ or *)
(* the LLM: between two such calls any other process may run.              *)
(*                                                                         *)
(* Event and task payloads are abstracted to ids.  Every body on the queue *)
(* comes from event.New, so the undecodable-body and foreign-type branches *)
(* of Handle are never taken.  Time is counted in ticks, ages saturate one *)
(* past the threshold they are compared with.  The sweep interval is left  *)
(* open: a sweep may start whenever the previous one is over.              *)
(***************************************************************************)
EXTENDS Naturals, FiniteSets

CONSTANTS
    Task,               \* task ids, numbered in the order of created_at
    Replica,            \* API processes
    Reconciler,         \* the replicas started with RECONCILER_ENABLED
    Event,              \* bound: ids of the events outstanding at one time
    NoMessage,          \* what an idle consumer holds
    MaxRetries,         \* broker.MaxRetries
    HandlerTimeout,     \* the two-minute deadline of one delivery
    PendingGrace,       \* RECONCILER_PENDING_GRACE
    ProcessingTimeout,  \* RECONCILER_PROCESSING_TIMEOUT
    BatchSize,          \* RECONCILER_BATCH_SIZE
    Poison,             \* tasks the LLM rejects whenever it is asked
    Faults,             \* the kinds of failure this instance allows
    MaxFaults           \* bound: failures in one behaviour

\* What may fail: a process dies; Postgres refuses a call, or commits it and
\* loses the answer; Redis refuses a call or forgets a key; a publish does not
\* reach the broker; an AMQP channel closes under a delivery; the LLM fails; a
\* delivery outlives its deadline.
FaultKind == {"crash", "db", "ambiguous", "redis", "publish", "channel",
              "llm", "stall"}

ASSUME IdAssumption == Task \subseteq Nat /\ Event \subseteq Nat
ASSUME ReconcilerAssumption == Reconciler \subseteq Replica
ASSUME BoundAssumption ==
    /\ MaxRetries \in Nat
    /\ HandlerTimeout \in Nat \ {0}
    /\ PendingGrace \in Nat
    /\ ProcessingTimeout \in Nat
    /\ BatchSize \in Nat \ {0}
    /\ MaxFaults \in Nat
ASSUME FaultAssumption == Faults \subseteq FaultKind /\ Poison \subseteq Task
ASSUME NoMessageAssumption ==
    NoMessage \notin [event : Event, task : Task, retries : 0..MaxRetries]

VARIABLES
    status,      \* status column; "absent" before the insert, "deleted" after
    createdAge,  \* ticks since created_at
    updatedAge,  \* ticks since updated_at
    publishing,  \* create requests between their commit and their publish
    queue,       \* the work queue: copies of each message ready for delivery
    dlq,         \* <<task, retries>> of the messages dead-lettered so far
    markers,     \* event ids that have a dedupe marker in Redis
    pc,          \* next call of each replica's handler
    held,        \* delivery each handler works on
    linked,      \* whether the channel of that delivery is still open
    elapsed,     \* ticks since that delivery began
    batch,       \* rows each reconciler has found and not yet republished
    faultsLeft   \* failures that may still happen

rows == <<status, createdAge, updatedAge>>
broker == <<queue, dlq, markers>>
handlers == <<pc, held, linked, elapsed>>
vars == <<rows, publishing, broker, handlers, batch, faultsLeft>>

\* "failed" is never written: MarkFailed has no caller.
Status == {"absent", "pending", "processing", "completed", "deleted"}
Message == [event : Event, task : Task, retries : 0..MaxRetries]
Step == {"idle", "dedupe", "begin", "summarize", "apply", "release", "reset",
         "retry", "ack"}
Row == [task : Task, status : {"pending", "processing"}]

RowsOK ==
    /\ status \in [Task -> Status]
    /\ createdAge \in [Task -> 0..PendingGrace + 1]
    /\ updatedAge \in [Task -> 0..ProcessingTimeout + 1]

BrokerOK ==
    /\ queue \in [Message -> Nat]
    /\ dlq \subseteq Task \X (0..MaxRetries)
    /\ markers \subseteq Event

HandlersOK ==
    /\ pc \in [Replica -> Step]
    /\ held \in [Replica -> Message \cup {NoMessage}]
    /\ \A r \in Replica : pc[r] = "idle" <=> held[r] = NoMessage
    /\ linked \in [Replica -> BOOLEAN]
    /\ elapsed \in [Replica -> 0..HandlerTimeout]

\* Type correctness; a consumer holds a delivery exactly while its handler runs.
TypeOK ==
    /\ RowsOK
    /\ BrokerOK
    /\ HandlersOK
    /\ publishing \subseteq Replica \X Task
    /\ batch \in [Reconciler -> SUBSET Row]
    /\ faultsLeft \in 0..MaxFaults

Init ==
    /\ status = [t \in Task |-> "absent"]
    /\ createdAge = [t \in Task |-> 0]
    /\ updatedAge = [t \in Task |-> 0]
    /\ publishing = {}
    /\ queue = [m \in Message |-> 0]
    /\ dlq = {}
    /\ markers = {}
    /\ pc = [r \in Replica |-> "idle"]
    /\ held = [r \in Replica |-> NoMessage]
    /\ linked = [r \in Replica |-> TRUE]
    /\ elapsed = [r \in Replica |-> 0]
    /\ batch = [c \in Reconciler |-> {}]
    /\ faultsLeft = MaxFaults

-----------------------------------------------------------------------------
(* Failures, the deadline of a delivery and the calls that are shared.      *)

Fault(kind) ==
    /\ kind \in Faults
    /\ faultsLeft > 0
    /\ faultsLeft' = faultsLeft - 1

NoFault == UNCHANGED faultsLeft

\* The context of the delivery has not reached its deadline.
Live(r) == elapsed[r] < HandlerTimeout

\* A call made with the delivery's context fails: the context is over, or the
\* service refuses it.
CallFails(r, kind) == (~Live(r) /\ NoFault) \/ Fault(kind)

Exists(t) == status[t] \notin {"absent", "deleted"}

\* The rows a sweep may look at, and so the ones whose ages are counted.
Waiting(t) == status[t] \in {"pending", "processing"}

\* UpdateStatus: by id alone, whatever the status was; no row, no effect.
UpdateStatus(t, s) ==
    /\ status' = IF Exists(t) THEN [status EXCEPT ![t] = s] ELSE status
    /\ updatedAge' = IF Exists(t) THEN [updatedAge EXCEPT ![t] = 0] ELSE updatedAge
    /\ UNCHANGED createdAge

\* Event ids some copy of a message still carries.  An event id is a fresh
\* UUID; the pool lends an id again once no copy carries it, without a marker.
Outstanding ==
    {m.event : m \in {n \in Message : queue[n] > 0 \/ \E r \in Replica : held[r] = n}}

Publish(t) ==
    \E e \in Event \ Outstanding :
        /\ \A f \in Event \ Outstanding : e <= f
        /\ queue' = [queue EXCEPT ![[event |-> e, task |-> t, retries |-> 0]] = @ + 1]
        /\ markers' = markers \ {e}
        /\ UNCHANGED dlq

-----------------------------------------------------------------------------
(* service.Create and service.Delete, called by HTTP requests.              *)

\* The insert.  If its answer is lost the request fails, and nobody publishes.
Create(r, t) ==
    /\ status[t] = "absent"
    /\ \A u \in Task : u < t => status[u] # "absent"
    /\ status' = [status EXCEPT ![t] = "pending"]
    /\ \/ publishing' = publishing \cup {<<r, t>>} /\ NoFault
       \/ Fault("ambiguous") /\ UNCHANGED publishing
    /\ UNCHANGED <<createdAge, updatedAge, broker, handlers, batch>>

\* The publish after the commit; its error is only logged.
PublishCreated(r, t) ==
    /\ <<r, t>> \in publishing
    /\ publishing' = publishing \ {<<r, t>>}
    /\ \/ Publish(t) /\ NoFault
       \/ Fault("publish") /\ UNCHANGED broker
    /\ UNCHANGED <<rows, handlers, batch>>

Delete(t) ==
    /\ Exists(t)
    /\ status' = [status EXCEPT ![t] = "deleted"]
    /\ UNCHANGED <<createdAge, updatedAge, publishing, broker, handlers, batch, faultsLeft>>

-----------------------------------------------------------------------------
(* Consumer.handle around TaskSummarizer.Handle.                            *)

Goto(r, step) ==
    /\ pc' = [pc EXCEPT ![r] = step]
    /\ UNCHANGED <<held, linked, elapsed>>

\* Mutant: the consumer goes on without letting go of the delivery.
Finish_KeepsDelivery(r) ==
    /\ pc' = [pc EXCEPT ![r] = "idle"]
    /\ UNCHANGED <<held, linked, elapsed>>

\* The delivery is over for the handler.
Finish(r) ==
    /\ pc' = [pc EXCEPT ![r] = "idle"]
    /\ held' = [held EXCEPT ![r] = NoMessage]
    /\ linked' = [linked EXCEPT ![r] = TRUE]
    /\ elapsed' = [elapsed EXCEPT ![r] = 0]

Deliver(r, m) ==
    /\ pc[r] = "idle"
    /\ queue[m] > 0
    /\ queue' = [queue EXCEPT ![m] = @ - 1]
    /\ pc' = [pc EXCEPT ![r] = "dedupe"]
    /\ held' = [held EXCEPT ![r] = m]
    /\ UNCHANGED <<rows, publishing, dlq, markers, linked, elapsed, batch, faultsLeft>>

\* Dedupe.Claim: SETNX, open when Redis cannot be asked.
Claim(r) ==
    /\ pc[r] = "dedupe"
    /\ LET e == held[r].event IN
       \/ Live(r) /\ e \in markers /\ NoFault /\ Goto(r, "ack") /\ UNCHANGED markers
       \/ Live(r) /\ e \notin markers /\ NoFault /\ Goto(r, "begin")
                  /\ markers' = markers \cup {e}
       \/ CallFails(r, "redis") /\ Goto(r, "begin") /\ UNCHANGED markers
    /\ UNCHANGED <<rows, publishing, queue, dlq, batch>>

\* Mutants: a claim that takes what another worker is on; one that takes any row.
Claimable_Unfinished(t) == status[t] \in {"pending", "processing"}
Claimable_AnyRow(t) == Exists(t)

\* MarkProcessing's WHERE status = 'pending'.
Claimable(t) == status[t] = "pending"

\* Mutant: UpdateColumn instead of Update, which leaves updated_at alone.
MarkProcessing_NoTimestamp(t) ==
    /\ status' = [status EXCEPT ![t] = "processing"]
    /\ UNCHANGED <<createdAge, updatedAge>>

MarkProcessing(t) ==
    /\ status' = [status EXCEPT ![t] = "processing"]
    /\ updatedAge' = [updatedAge EXCEPT ![t] = 0]
    /\ UNCHANGED createdAge

\* A claim that fails returns its error with the dedupe marker still set.
BeginProcessing(r) ==
    /\ pc[r] = "begin"
    /\ LET t == held[r].task IN
       \/ Live(r) /\ Claimable(t) /\ NoFault /\ MarkProcessing(t) /\ Goto(r, "summarize")
       \/ Live(r) /\ ~Claimable(t) /\ NoFault /\ UNCHANGED rows /\ Goto(r, "ack")
       \/ CallFails(r, "db") /\ UNCHANGED rows /\ Goto(r, "retry")
       \/ Live(r) /\ Claimable(t) /\ Fault("ambiguous") /\ MarkProcessing(t)
                  /\ Goto(r, "retry")
    /\ UNCHANGED <<publishing, broker, batch>>

\* The LLM call.  The disabled client and a blank text succeed without looking
\* at the deadline.
Summarize(r) ==
    /\ pc[r] = "summarize"
    /\ \/ held[r].task \notin Poison /\ NoFault /\ Goto(r, "apply")
       \/ held[r].task \in Poison /\ NoFault /\ Goto(r, "release")
       \/ CallFails(r, "llm") /\ Goto(r, "release")
    /\ UNCHANGED <<rows, publishing, broker, batch>>

\* ApplySummary; a vanished row is not an error of the delivery.
ApplySummary(r) ==
    /\ pc[r] = "apply"
    /\ LET t == held[r].task IN
       \/ Live(r) /\ NoFault /\ UpdateStatus(t, "completed") /\ Goto(r, "ack")
       \/ CallFails(r, "db") /\ UNCHANGED rows /\ Goto(r, "release")
       \/ Live(r) /\ Exists(t) /\ Fault("ambiguous") /\ UpdateStatus(t, "completed")
                  /\ Goto(r, "release")
    /\ UNCHANGED <<publishing, broker, batch>>

\* Mutant: the error path keeps the marker.
Release_Skipped(r) ==
    /\ pc[r] = "release"
    /\ Goto(r, "reset")
    /\ NoFault
    /\ UNCHANGED <<rows, publishing, broker, batch>>

\* Dedupe.Release on the error paths; its failure is only logged.
Release(r) ==
    /\ pc[r] = "release"
    /\ Goto(r, "reset")
    /\ \/ Live(r) /\ NoFault /\ markers' = markers \ {held[r].event}
       \/ CallFails(r, "redis") /\ UNCHANGED markers
    /\ UNCHANGED <<rows, publishing, queue, dlq, batch>>

\* MarkPending on the error paths; its failure is only logged.
MarkPending(r) ==
    /\ pc[r] = "reset"
    /\ Goto(r, "retry")
    /\ \/ Live(r) /\ NoFault /\ UpdateStatus(held[r].task, "pending")
       \/ CallFails(r, "db") /\ UNCHANGED rows
    /\ UNCHANGED <<publishing, broker, batch>>

Ack(r) ==
    /\ pc[r] = "ack"
    /\ Finish(r)
    /\ UNCHANGED <<rows, publishing, broker, batch, faultsLeft>>

DeadLetter(r) ==
    /\ dlq' = dlq \cup {<<held[r].task, held[r].retries>>}
    /\ Finish(r)
    /\ UNCHANGED <<queue, markers>>

\* retryOrDeadLetter.  The copy is published without a confirm, so it can be
\* lost with no error; a reported error dead-letters the original.  On a closed
\* channel the publish and the nack both fail, and the broker has the original.
RetryOrDeadLetter(r) ==
    /\ pc[r] = "retry"
    /\ LET m == held[r] IN
       \/ linked[r] /\ m.retries >= MaxRetries /\ NoFault /\ DeadLetter(r)
       \/ linked[r] /\ m.retries < MaxRetries /\ NoFault
          /\ queue' = [queue EXCEPT ![[m EXCEPT !.retries = @ + 1]] = @ + 1]
          /\ Goto(r, "ack") /\ UNCHANGED <<dlq, markers>>
       \/ linked[r] /\ m.retries < MaxRetries /\ Fault("publish") /\ DeadLetter(r)
       \/ linked[r] /\ m.retries < MaxRetries /\ Fault("publish")
          /\ Goto(r, "ack") /\ UNCHANGED broker
       \/ ~linked[r] /\ NoFault /\ Finish(r) /\ UNCHANGED broker
    /\ UNCHANGED <<rows, publishing, batch>>

-----------------------------------------------------------------------------
(* reconciler.Sweep and service.RepublishCreated.                           *)

\* Mutants: a processing row is stale at any age; its age counts from created_at.
Stale_AnyAge(t) ==
    \/ status[t] = "pending" /\ createdAge[t] > PendingGrace
    \/ status[t] = "processing"
Stale_SinceCreated(t) == Waiting(t) /\ createdAge[t] > PendingGrace

Stale(t) ==
    \/ status[t] = "pending" /\ createdAge[t] > PendingGrace
    \/ status[t] = "processing" /\ updatedAge[t] > ProcessingTimeout

\* ORDER BY created_at ASC LIMIT BatchSize.
FindStale ==
    {[task |-> t, status |-> status[t]] :
        t \in {u \in Task : Stale(u) /\ Cardinality({v \in Task : v < u /\ Stale(v)}) < BatchSize}}

Sweep(c) ==
    /\ batch[c] = {}
    /\ FindStale # {}
    /\ batch' = [batch EXCEPT ![c] = FindStale]
    /\ UNCHANGED <<rows, publishing, broker, handlers, faultsLeft>>

Oldest(c, row) == row \in batch[c] /\ \A other \in batch[c] : row.task <= other.task

DropRow(c, row) == batch' = [batch EXCEPT ![c] = @ \ {row}]

\* Mutant: the event is republished for a row that stays in processing.
ResetStranded_Skipped(c, row) ==
    /\ Oldest(c, row)
    /\ row.status = "processing"
    /\ batch' = [batch EXCEPT ![c] = (@ \ {row}) \cup {[row EXCEPT !.status = "pending"]}]
    /\ NoFault
    /\ UNCHANGED <<rows, publishing, broker, handlers>>

\* MarkPending for a row read as processing, whatever the row is by now.
ResetStranded(c, row) ==
    /\ Oldest(c, row)
    /\ row.status = "processing"
    /\ \/ /\ Exists(row.task) /\ NoFault /\ UpdateStatus(row.task, "pending")
          /\ batch' = [batch EXCEPT ![c] = (@ \ {row}) \cup {[row EXCEPT !.status = "pending"]}]
       \/ ~Exists(row.task) /\ NoFault /\ UNCHANGED rows /\ DropRow(c, row)
       \/ Fault("db") /\ UNCHANGED rows /\ DropRow(c, row)
       \/ Exists(row.task) /\ Fault("ambiguous") /\ UpdateStatus(row.task, "pending")
                           /\ DropRow(c, row)
    /\ UNCHANGED <<publishing, broker, handlers>>

RepublishCreated(c, row) ==
    /\ Oldest(c, row)
    /\ row.status = "pending"
    /\ DropRow(c, row)
    /\ \/ Publish(row.task) /\ NoFault
       \/ Fault("publish") /\ UNCHANGED broker
    /\ UNCHANGED <<rows, publishing, handlers>>

-----------------------------------------------------------------------------
(* The environment: crashes, lost channels, forgotten markers and time.     *)

\* What the broker does with an unacknowledged delivery of a lost channel.
Requeue(r) ==
    queue' = IF held[r] # NoMessage /\ linked[r]
             THEN [queue EXCEPT ![held[r]] = @ + 1] ELSE queue

\* The process dies and starts again.
Crash(r) ==
    /\ Fault("crash")
    /\ Requeue(r)
    /\ Finish(r)
    /\ publishing' = {p \in publishing : p[1] # r}
    /\ batch' = [c \in Reconciler |-> IF c = r THEN {} ELSE batch[c]]
    /\ UNCHANGED <<rows, dlq, markers>>

\* The delivery goes back to the queue while its handler runs on.
ChannelLost(r) ==
    /\ Fault("channel")
    /\ pc[r] # "idle"
    /\ linked[r]
    /\ Requeue(r)
    /\ linked' = [linked EXCEPT ![r] = FALSE]
    /\ UNCHANGED <<rows, publishing, dlq, markers, pc, held, elapsed, batch>>

\* A flush, an eviction, a failover or the marker's TTL.
ForgetMarker(e) ==
    /\ Fault("redis")
    /\ e \in markers
    /\ markers' = markers \ {e}
    /\ UNCHANGED <<rows, publishing, queue, dlq, handlers, batch>>

Older(age, cap) == IF age < cap THEN age + 1 ELSE age

\* One tick.  A delivery that reaches its deadline has met a stall.
Tick ==
    /\ createdAge' = [t \in Task |-> IF Waiting(t) THEN Older(createdAge[t], PendingGrace + 1)
                                     ELSE createdAge[t]]
    /\ updatedAge' = [t \in Task |-> IF Waiting(t) THEN Older(updatedAge[t], ProcessingTimeout + 1)
                                     ELSE updatedAge[t]]
    /\ elapsed' = [r \in Replica |-> IF pc[r] = "idle" THEN 0
                                     ELSE Older(elapsed[r], HandlerTimeout)]
    /\ IF \E r \in Replica : pc[r] # "idle" /\ elapsed[r] + 1 = HandlerTimeout
       THEN Fault("stall") ELSE NoFault
    /\ UNCHANGED <<status, publishing, broker, pc, held, linked, batch>>

-----------------------------------------------------------------------------
HandlerStep(r) ==
    \/ Claim(r) \/ BeginProcessing(r) \/ Summarize(r) \/ ApplySummary(r)
    \/ Release(r) \/ MarkPending(r) \/ RetryOrDeadLetter(r) \/ Ack(r)

ReconcilerStep(c) ==
    \/ Sweep(c)
    \/ \E row \in Row : ResetStranded(c, row) \/ RepublishCreated(c, row)

Next ==
    \/ \E r \in Replica, t \in Task : Create(r, t) \/ PublishCreated(r, t)
    \/ \E t \in Task : Delete(t)
    \/ \E r \in Replica, m \in Message : Deliver(r, m)
    \/ \E r \in Replica : HandlerStep(r) \/ Crash(r) \/ ChannelLost(r)
    \/ \E c \in Reconciler : ReconcilerStep(c)
    \/ \E e \in Event : ForgetMarker(e)
    \/ Tick

Spec == Init /\ [][Next]_vars

\* Goroutines, requests and the sweep loop that can go on do so; time passes;
\* RabbitMQ delivers the messages of a queue in order, so a message that is
\* ready again and again is delivered.
Fairness ==
    /\ \A r \in Replica : WF_vars(HandlerStep(r))
    /\ \A r \in Replica, t \in Task : WF_vars(PublishCreated(r, t))
    /\ \A c \in Reconciler : WF_vars(ReconcilerStep(c))
    /\ \A t \in Task :
          SF_vars(\E r \in Replica, m \in Message : m.task = t /\ Deliver(r, m))
    /\ WF_vars(Tick)

FairSpec == Spec /\ Fairness

-----------------------------------------------------------------------------
(* Properties.                                                              *)

\* The handler of r holds the claim on task t and can still act on it.
Owns(r, t) ==
    /\ pc[r] \in {"summarize", "apply", "release", "reset"}
    /\ held[r].task = t
    /\ Live(r)

\* BeginProcessing "stops two workers owning the same task": no two handlers
\* whose contexts are still good hold a claim on one task.
SingleOwner ==
    \A r1, r2 \in Replica, t \in Task : Owns(r1, t) /\ Owns(r2, t) => r1 = r2

\* Completed work is never taken back: once a summary is applied, the
\* unconditional UpdateStatus calls of late workers and of the reconciler do
\* not reach the row.
CompletedIsFinal ==
    [][\A t \in Task : status[t] = "completed" => status'[t] \in {"completed", "deleted"}]_vars

\* No sweep makes work that is merely in flight be done again: until the first
\* failure, a task somebody works on does not go back to pending, however
\* often, and under however many new events, sweeps republish it.
NoRework ==
    [][\A t \in Task \ Poison :
        (faultsLeft' = MaxFaults /\ status[t] = "processing") => status'[t] # "pending"]_vars

\* The retry copy of a failed delivery "is permitted to run": while its task
\* waits for a worker, the marker of its event does not suppress a queued copy
\* unless another handler works on the event.
RetryRuns ==
    \A m \in Message :
        (queue[m] > 0 /\ m.retries > 0 /\ m.event \in markers /\ status[m.task] = "pending")
        => \E r \in Replica : held[r] # NoMessage /\ held[r].event = m.event

\* An event of t is on its way: to be published, queued, or with a worker that
\* has yet to claim the row or to give the delivery back.
Underway(t) ==
    \/ \E r \in Replica : <<r, t>> \in publishing
    \/ \E m \in Message : m.task = t /\ queue[m] > 0
    \/ \E r \in Replica : pc[r] \in {"dedupe", "begin", "retry"} /\ held[r].task = t

\* Only a failure makes the reconciler necessary: before the first one, a task
\* that waits for a worker has an event underway, whatever duplicates, dedupe
\* markers and retries do, or has had all its attempts.
EventUnderway ==
    faultsLeft = MaxFaults =>
        \A t \in Task : status[t] = "pending" => Underway(t) \/ <<t, MaxRetries>> \in dlq

\* Every task the LLM can summarise is completed in the end, unless it is
\* deleted: no lost publish, dead worker, lost copy or dead letter strands it.
EveryTaskCompletes ==
    \A t \in Task \ Poison :
        status[t] = "pending" ~> status[t] \in {"completed", "deleted"}

Lifecycle == INSTANCE TaskLifecycle WITH
    Worker <- Replica,
    state <- status,
    holders <- [t \in Task |-> {r \in Replica : Owns(r, t)}]

\* The pipeline implements the life of a task the README draws: only the
\* holder of a claim ends it, the reconciler rescues only what nobody holds,
\* completed is final.
ImplementsLifecycle == Lifecycle!LifecycleSpec

-----------------------------------------------------------------------------
(* The inductive invariant behind SingleOwner and CompletedIsFinal, and the *)
(* deployments for which it is one.                                         *)

\* One sweep loop; a presumed-dead worker is past its deadline; the database
\* never commits a statement it reports as failed.
SafeDeployment ==
    /\ \A c1, c2 \in Reconciler : c1 = c2
    /\ HandlerTimeout <= ProcessingTimeout
    /\ "ambiguous" \notin Faults

\* A claim that can still act is backed by the row, which is no older than the
\* delivery.
ClaimBacked ==
    \A r \in Replica, t \in Task :
        Owns(r, t) => /\ status[t] \in {"processing", "deleted"}
                      /\ status[t] = "processing" => updatedAge[t] <= elapsed[r]

\* The row a reconciler is about to reset is still abandoned, however long ago
\* FindStale read it.
SnapshotAbandoned ==
    \A c \in Reconciler : \A row \in batch[c] :
        row.status = "processing" =>
            /\ status[row.task] \in {"processing", "deleted"}
            /\ \A r \in Replica : ~Owns(r, row.task)

PipelineInv == TypeOK /\ SingleOwner /\ ClaimBacked /\ SnapshotAbandoned

\* Before the first failure every delivery is within its deadline, only what
\* the LLM rejects is given back, and a row in processing has its worker.
WorkUnbroken ==
    faultsLeft = MaxFaults =>
        /\ \A r \in Replica : Live(r)
        /\ \A r \in Replica : pc[r] \in {"release", "reset"} => held[r].task \in Poison
        /\ \A t \in Task : status[t] = "processing" => \E r \in Replica : Owns(r, t)

-----------------------------------------------------------------------------
(* The inductive invariant behind RetryRuns and EventUnderway.  It is one as *)
(* long as nothing fails but the LLM, whose failures a retry is for, and     *)
(* publishes.                                                                *)

RetryDeployment == Faults \subseteq {"llm", "publish"}

\* No delivery is past its deadline or cut off from its channel.
Undisturbed == \A r \in Replica : Live(r) /\ linked[r]

\* The handler of r has not yet decided the fate of its delivery.
Undecided(r) == pc[r] \notin {"idle", "ack"}

\* The copies of one event that are still to run: at most one, on the queue or
\* in the hands of one handler.
OneCopy ==
    /\ \A m \in Message : queue[m] <= 1
    /\ \A m, n \in Message : queue[m] > 0 /\ queue[n] > 0 /\ m.event = n.event => m = n
    /\ \A m \in Message, r \in Replica :
          queue[m] > 0 /\ Undecided(r) => held[r].event # m.event
    /\ \A r1, r2 \in Replica :
          Undecided(r1) /\ Undecided(r2) /\ held[r1].event = held[r2].event => r1 = r2

\* An event has no marker while it waits for a worker, before the worker's claim
\* and after its release.
MarkerFollowsClaim ==
    /\ \A m \in Message : queue[m] > 0 => m.event \notin markers
    /\ \A r \in Replica :
          pc[r] \in {"dedupe", "reset", "retry"} => held[r].event \notin markers

RetryInv == TypeOK /\ Undisturbed /\ OneCopy /\ MarkerFollowsClaim

\* Before the first failure, with that invariant EventUnderway is one too.
CalmInv == faultsLeft = MaxFaults => RetryInv /\ EventUnderway
=============================================================================
